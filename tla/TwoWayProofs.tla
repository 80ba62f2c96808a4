---------------------------- MODULE TwoWayProofs ----------------------------
(***************************************************************************)
(* Proofs about TwoWay for every command line of Lines, every number of    *)
(* failures and both threads: the types; that nothing is released below    *)
(* what is made from it; that an executor is spun by its own thread; that  *)
(* an uninitialised or null handle is used after a known failure only;     *)
(* that what is left at the end is what the destructors never release; and *)
(* that the two parsers of the command line take what is meant for them.   *)
(***************************************************************************)
EXTENDS TwoWay, TLAPS, SequenceTheorems, WellFoundedInduction

Kinds == {"sub", "pub"}

-----------------------------------------------------------------------------
(* The methods of the eight classes, annotated: Has is what a constructor  *)
(* has made before each of its calls and at its end; Live and Shut are what *)
(* the destructor has not come to and has shut down.                        *)

RmwSubscriberHas ==
  << {}, {"options"}, {"options"}, {"options", "context"},
     {"options", "context", "node"},
     {"options", "context", "node", "subscription"},
     {"options", "context", "node", "subscription"},
     {"options", "context", "node", "subscription", "wait_set"},
     {"options", "context", "node", "subscription", "wait_set", "array"} >>
RmwSubscriberLive ==
  << {"options", "context", "node", "subscription", "wait_set", "array", "callback"},
     {"options", "context", "node", "subscription", "wait_set", "callback"},
     {"options", "context", "node", "subscription", "callback"},
     {"options", "context", "node", "callback"},
     {"options", "context", "callback"}, {"options", "callback"},
     {"options", "callback"} >>
RmwSubscriberShut ==
  << {}, {}, {}, {}, {}, {"context"}, {} >>

RmwPublisherHas ==
  << {}, {"options"}, {"options"}, {"options", "context"},
     {"options", "context", "node"}, {"options", "context", "node"},
     {"options", "context", "node", "publisher"} >>
RmwPublisherLive ==
  << {"options", "context", "node", "publisher"},
     {"options", "context", "node"}, {"options", "context"} >>
RmwPublisherShut ==
  << {}, {}, {} >>

RclSubscriberHas ==
  << {}, {}, {"options"}, {"options", "context"},
     {"options", "context", "node"},
     {"options", "context", "node", "subscription"},
     {"options", "context", "node", "subscription", "wait_set"} >>
RclSubscriberLive ==
  << {"options", "context", "node", "subscription", "wait_set", "callback"},
     {"options", "context", "node", "subscription", "callback"},
     {"options", "context", "node", "callback"},
     {"options", "context", "callback"}, {"options", "callback"} >>
RclSubscriberShut ==
  << {}, {}, {}, {}, {"context"} >>

RclPublisherHas ==
  << {}, {}, {"options"}, {"options", "context"},
     {"options", "context", "node"},
     {"options", "context", "node", "publisher"} >>
RclPublisherLive ==
  << {"options", "context", "node", "publisher"},
     {"options", "context", "node"}, {"options", "context"}, {"options"} >>
RclPublisherShut ==
  << {}, {}, {}, {"context"} >>

FastrtpsSubscriberHas ==
  << {}, {"participant"}, {"participant"}, {"participant", "type"},
     {"participant", "type", "registration"},
     {"participant", "type", "registration", "subscriber"} >>
FastrtpsSubscriberLive ==
  << {"participant", "type", "registration", "subscriber", "callback"},
     {"type", "callback"} >>
FastrtpsSubscriberShut ==
  << {}, {} >>

FastrtpsPublisherHas ==
  << {}, {"participant"}, {"participant"}, {"participant", "type"},
     {"participant", "type", "registration"},
     {"publisher", "participant", "type", "registration"} >>
FastrtpsPublisherLive ==
  << {"publisher", "participant", "type", "registration"}, {"type"} >>
FastrtpsPublisherShut ==
  << {}, {} >>

RclcppSubscriberHas ==
  << {}, {"executor"} >>
RclcppSubscriberLive ==
  << {"node", "subscription", "executor", "callback"},
     {"node", "executor", "callback"}, {"executor", "callback"},
     {"callback"} >>
RclcppSubscriberShut ==
  << {}, {}, {}, {} >>

RclcppPublisherHas ==
  << {}, {"executor"}, {"node", "executor"}, {"node", "publisher", "executor"},
     {"node", "publisher", "executor"} >>
RclcppPublisherLive ==
  << {"node", "publisher", "executor"}, {"node", "publisher"}, {"node"}, {} >>
RclcppPublisherShut ==
  << {}, {}, {}, {} >>

ListenHas ==
  << {}, {"callback"} >>
RclcppListenHas ==
  << {}, {"callback"}, {"node", "callback"},
     {"node", "subscription", "callback"},
     {"node", "subscription", "callback"} >>

\* By side and layer.
Live ==
  [sub |-> [rmw |-> RmwSubscriberLive, rcl |-> RclSubscriberLive,
            dds |-> FastrtpsSubscriberLive, rclcpp |-> RclcppSubscriberLive],
   pub |-> [rmw |-> RmwPublisherLive, rcl |-> RclPublisherLive,
            dds |-> FastrtpsPublisherLive, rclcpp |-> RclcppPublisherLive]]

Has ==
  [sub |-> [rmw |-> RmwSubscriberHas, rcl |-> RclSubscriberHas,
            dds |-> FastrtpsSubscriberHas, rclcpp |-> RclcppSubscriberHas],
   pub |-> [rmw |-> RmwPublisherHas, rcl |-> RclPublisherHas,
            dds |-> FastrtpsPublisherHas, rclcpp |-> RclcppPublisherHas]]

\* What set_callback has made.
Hears ==
  [rmw |-> ListenHas, rcl |-> ListenHas, dds |-> ListenHas,
   rclcpp |-> RclcppListenHas]

Shut ==
  [sub |-> [rmw |-> RmwSubscriberShut, rcl |-> RclSubscriberShut,
            dds |-> FastrtpsSubscriberShut, rclcpp |-> RclcppSubscriberShut],
   pub |-> [rmw |-> RmwPublisherShut, rcl |-> RclPublisherShut,
            dds |-> FastrtpsPublisherShut, rclcpp |-> RclcppPublisherShut]]

\* What each layer makes a resource from.
Rcl == {<<"context", "options">>, <<"node", "context">>, <<"wait_set", "context">>,
        <<"subscription", "node">>, <<"publisher", "node">>}
Rclcpp == {<<"subscription", "node">>, <<"publisher", "node">>}
Dds == {<<"registration", "participant">>, <<"registration", "type">>,
        <<"subscriber", "participant">>, <<"subscriber", "registration">>,
        <<"publisher", "participant">>, <<"publisher", "registration">>}
MadeFrom == [rmw |-> Rcl, rcl |-> Rcl, dds |-> Dds, rclcpp |-> Rclcpp]

-----------------------------------------------------------------------------
(* What the annotations are worth: each call of a method takes one row of  *)
(* its table to the next.                                                   *)

\* A call that makes something, by its form.
MakeShape(l, c) ==
  /\ c.op \in {"zero", "make", "ask", "instance", "add"}
  /\ c.resource \in Resources \cup {"qos", "graph", "type_support"}
  /\ c.onFail \in {"go on", "return", "throw", "never"}
  /\ l = "rclcpp" => c.onFail \in {"throw", "never"}
  /\ c.op \in {"instance", "add"} => c.onFail = "throw"
  /\ c.op = "make" => \A r \in c.from : <<c.resource, r>> \in MadeFrom[l]

\* It is given what was made before it, which is sure to be there, zeroes a handle
\* before it is made, and leaves what the next row says.
MakeRow(k, l, base, c, before, after) ==
  /\ c.from \subseteq before \cup base
  /\ \A r \in c.from \cup before : <<l, k, r>> \notin Survived
  /\ c.op = "zero" => c.resource \notin before \cup base
  /\ c.op = "ask" => <<l, k, c.resource>> \notin Survived
  /\ after = IF c.op \in {"make", "instance"}
             THEN before \cup {c.resource} ELSE before
  /\ after \subseteq Live[k][l][1]

\* The annotation G of the method T, which runs after base was made.
Makes(k, l, base, T, G) ==
  /\ Len(T) \in 1..8 /\ Len(G) = Len(T) + 1 /\ G[1] = {}
  /\ \A i \in 1..Len(T) :
       MakeShape(l, T[i]) /\ MakeRow(k, l, base, T[i], G[i], G[i + 1])

\* A call that releases something, by its form.
DropShape(l, c) ==
  /\ c.op \in Releases /\ c.resource \in Resources
  /\ c.onFail \in {"go on", "return", "never"}
  /\ l = "rclcpp" => c.onFail = "never" /\ c.from = {} /\ c.also = {}

\* It releases what is still there, or finalises what was shut down.
DropRow(c, live, shut, live2, shut2) ==
  /\ c.from \cup c.also \subseteq live
  /\ c.op = "release" =>
       /\ c.resource \in live /\ shut2 = shut
       /\ live2 = live \ ({c.resource} \cup c.also)
  /\ c.op = "shutdown" =>
       /\ c.resource \in live /\ shut2 = shut \cup {c.resource}
       /\ live2 = live \ {c.resource} /\ c.also = {}
  /\ c.op = "finalise" =>
       /\ c.resource \in shut /\ shut2 = shut \ {c.resource}
       /\ live2 = live /\ c.also = {}

\* With what is in A, all it was made from is in A.
Closed(l, A) == \A p \in MadeFrom[l] : p[1] \in A => p[2] \in A

\* A failure is ignored, and several resources are released at once, by the last
\* call of a destructor only (the array is made of nothing).
LetGo(c, i, n) ==
  /\ c.onFail = "go on" => c.resource = "array" \/ i = n
  /\ c.also # {} => i = n

Apart(all, live, shut) ==
  /\ live \cap shut = {} /\ live \cup shut \subseteq all /\ all \subseteq Resources

\* The annotations A and U of the destructor T.
Drops(k, l, T, A, U) ==
  /\ Len(T) \in 1..8 /\ Len(A) = Len(T) + 1 /\ Len(U) = Len(T) + 1
  /\ U[1] = {}
  /\ (A[Len(T) + 1] \cup U[Len(T) + 1]) \ {"callback"} = Leaked[k][l]
  /\ \A i \in 1..Len(T) :
       /\ DropShape(l, T[i])
       /\ LetGo(T[i], i, Len(T))
       /\ DropRow(T[i], A[i], U[i], A[i + 1], U[i + 1])
       /\ Closed(l, A[i]) /\ Closed(l, A[i + 1])
       /\ Apart(A[1], A[i], U[i])

\* The places a method of at most eight calls has.
LEMMA Indices ==
  /\ \A i \in 1..8 : \/ i = 1 \/ i = 2 \/ i = 3 \/ i = 4
                     \/ i = 5 \/ i = 6 \/ i = 7 \/ i = 8
  /\ 1 \in 1..8 /\ 2 \in 1..8 /\ 3 \in 1..8 /\ 4 \in 1..8
  /\ 5 \in 1..8 /\ 6 \in 1..8 /\ 7 \in 1..8 /\ 8 \in 1..8
  OBVIOUS

\* The constructor of RmwSubscriber.
LEMMA RmwSubscriberMakes ==
  Makes("sub", "rmw", {}, RmwSubscriberMake, RmwSubscriberHas)
<1> DEFINE T == RmwSubscriberMake
           G == RmwSubscriberHas
<1>1. Len(T) = 8 /\ Len(G) = 9 /\ G[1] = {}
  BY DEF RmwSubscriberMake, RmwSubscriberHas
<1>2. /\ MakeShape("rmw", T[1]) /\ MakeShape("rmw", T[2])
      /\ MakeShape("rmw", T[3]) /\ MakeShape("rmw", T[4])
      /\ MakeShape("rmw", T[5]) /\ MakeShape("rmw", T[6])
      /\ MakeShape("rmw", T[7]) /\ MakeShape("rmw", T[8])
  BY DEF RmwSubscriberMake, MakeShape, MadeFrom, Rcl, Resources, Make, Zero,
     Ask, Step
<1>3. /\ MakeRow("sub", "rmw", {}, T[1], G[1], G[2])
      /\ MakeRow("sub", "rmw", {}, T[2], G[2], G[3])
      /\ MakeRow("sub", "rmw", {}, T[3], G[3], G[4])
      /\ MakeRow("sub", "rmw", {}, T[4], G[4], G[5])
      /\ MakeRow("sub", "rmw", {}, T[5], G[5], G[6])
      /\ MakeRow("sub", "rmw", {}, T[6], G[6], G[7])
      /\ MakeRow("sub", "rmw", {}, T[7], G[7], G[8])
      /\ MakeRow("sub", "rmw", {}, T[8], G[8], G[9])
  BY DEF RmwSubscriberMake, RmwSubscriberHas, MakeRow, Survived, Live,
     RmwSubscriberLive, Make, Zero, Ask, Step
<1> HIDE DEF T, G
<1>4. QED
  BY <1>1, <1>2, <1>3, Indices DEF Makes, T, G

\* The constructor of RmwPublisher.
LEMMA RmwPublisherMakes ==
  Makes("pub", "rmw", {}, RmwPublisherMake, RmwPublisherHas)
<1> DEFINE T == RmwPublisherMake
           G == RmwPublisherHas
<1>1. Len(T) = 6 /\ Len(G) = 7 /\ G[1] = {}
  BY DEF RmwPublisherMake, RmwPublisherHas
<1>2. /\ MakeShape("rmw", T[1]) /\ MakeShape("rmw", T[2])
      /\ MakeShape("rmw", T[3]) /\ MakeShape("rmw", T[4])
      /\ MakeShape("rmw", T[5]) /\ MakeShape("rmw", T[6])
  BY DEF RmwPublisherMake, MakeShape, MadeFrom, Rcl, Resources, Make, Zero,
     Ask, Step
<1>3. /\ MakeRow("pub", "rmw", {}, T[1], G[1], G[2])
      /\ MakeRow("pub", "rmw", {}, T[2], G[2], G[3])
      /\ MakeRow("pub", "rmw", {}, T[3], G[3], G[4])
      /\ MakeRow("pub", "rmw", {}, T[4], G[4], G[5])
      /\ MakeRow("pub", "rmw", {}, T[5], G[5], G[6])
      /\ MakeRow("pub", "rmw", {}, T[6], G[6], G[7])
  BY DEF RmwPublisherMake, RmwPublisherHas, MakeRow, Survived, Live,
     RmwPublisherLive, Make, Zero, Ask, Step
<1> HIDE DEF T, G
<1>4. QED
  BY <1>1, <1>2, <1>3, Indices DEF Makes, T, G

\* The constructor of RclSubscriber.
LEMMA RclSubscriberMakes ==
  Makes("sub", "rcl", {}, RclSubscriberMake, RclSubscriberHas)
<1> DEFINE T == RclSubscriberMake
           G == RclSubscriberHas
<1>1. Len(T) = 6 /\ Len(G) = 7 /\ G[1] = {}
  BY DEF RclSubscriberMake, RclSubscriberHas
<1>2. /\ MakeShape("rcl", T[1]) /\ MakeShape("rcl", T[2])
      /\ MakeShape("rcl", T[3]) /\ MakeShape("rcl", T[4])
      /\ MakeShape("rcl", T[5]) /\ MakeShape("rcl", T[6])
  BY DEF RclSubscriberMake, MakeShape, MadeFrom, Rcl, Resources, Zero, Make,
     Step
<1>3. /\ MakeRow("sub", "rcl", {}, T[1], G[1], G[2])
      /\ MakeRow("sub", "rcl", {}, T[2], G[2], G[3])
      /\ MakeRow("sub", "rcl", {}, T[3], G[3], G[4])
      /\ MakeRow("sub", "rcl", {}, T[4], G[4], G[5])
      /\ MakeRow("sub", "rcl", {}, T[5], G[5], G[6])
      /\ MakeRow("sub", "rcl", {}, T[6], G[6], G[7])
  BY DEF RclSubscriberMake, RclSubscriberHas, MakeRow, Survived, Live,
     RclSubscriberLive, Zero, Make, Step
<1> HIDE DEF T, G
<1>4. QED
  BY <1>1, <1>2, <1>3, Indices DEF Makes, T, G

\* The constructor of RclPublisher.
LEMMA RclPublisherMakes ==
  Makes("pub", "rcl", {}, RclPublisherMake, RclPublisherHas)
<1> DEFINE T == RclPublisherMake
           G == RclPublisherHas
<1>1. Len(T) = 5 /\ Len(G) = 6 /\ G[1] = {}
  BY DEF RclPublisherMake, RclPublisherHas
<1>2. /\ MakeShape("rcl", T[1]) /\ MakeShape("rcl", T[2])
      /\ MakeShape("rcl", T[3]) /\ MakeShape("rcl", T[4])
      /\ MakeShape("rcl", T[5])
  BY DEF RclPublisherMake, MakeShape, MadeFrom, Rcl, Resources, Zero, Make,
     Step
<1>3. /\ MakeRow("pub", "rcl", {}, T[1], G[1], G[2])
      /\ MakeRow("pub", "rcl", {}, T[2], G[2], G[3])
      /\ MakeRow("pub", "rcl", {}, T[3], G[3], G[4])
      /\ MakeRow("pub", "rcl", {}, T[4], G[4], G[5])
      /\ MakeRow("pub", "rcl", {}, T[5], G[5], G[6])
  BY DEF RclPublisherMake, RclPublisherHas, MakeRow, Survived, Live,
     RclPublisherLive, Zero, Make, Step
<1> HIDE DEF T, G
<1>4. QED
  BY <1>1, <1>2, <1>3, Indices DEF Makes, T, G

\* The constructor of FastrtpsSubscriber.
LEMMA FastrtpsSubscriberMakes ==
  Makes("sub", "dds", {}, FastrtpsSubscriberMake, FastrtpsSubscriberHas)
<1> DEFINE T == FastrtpsSubscriberMake
           G == FastrtpsSubscriberHas
<1>1. Len(T) = 5 /\ Len(G) = 6 /\ G[1] = {}
  BY DEF FastrtpsSubscriberMake, FastrtpsSubscriberHas
<1>2. /\ MakeShape("dds", T[1]) /\ MakeShape("dds", T[2])
      /\ MakeShape("dds", T[3]) /\ MakeShape("dds", T[4])
      /\ MakeShape("dds", T[5])
  BY DEF FastrtpsSubscriberMake, MakeShape, MadeFrom, Dds, Resources, Make,
     Ask, Step
<1>3. /\ MakeRow("sub", "dds", {}, T[1], G[1], G[2])
      /\ MakeRow("sub", "dds", {}, T[2], G[2], G[3])
      /\ MakeRow("sub", "dds", {}, T[3], G[3], G[4])
      /\ MakeRow("sub", "dds", {}, T[4], G[4], G[5])
      /\ MakeRow("sub", "dds", {}, T[5], G[5], G[6])
  BY DEF FastrtpsSubscriberMake, FastrtpsSubscriberHas, MakeRow, Survived,
     Live, FastrtpsSubscriberLive, Make, Ask, Step
<1> HIDE DEF T, G
<1>4. QED
  BY <1>1, <1>2, <1>3, Indices DEF Makes, T, G

\* The constructor of FastrtpsPublisher.
LEMMA FastrtpsPublisherMakes ==
  Makes("pub", "dds", {}, FastrtpsPublisherMake, FastrtpsPublisherHas)
<1> DEFINE T == FastrtpsPublisherMake
           G == FastrtpsPublisherHas
<1>1. Len(T) = 5 /\ Len(G) = 6 /\ G[1] = {}
  BY DEF FastrtpsPublisherMake, FastrtpsPublisherHas
<1>2. /\ MakeShape("dds", T[1]) /\ MakeShape("dds", T[2])
      /\ MakeShape("dds", T[3]) /\ MakeShape("dds", T[4])
      /\ MakeShape("dds", T[5])
  BY DEF FastrtpsPublisherMake, MakeShape, MadeFrom, Dds, Resources, Make, Ask,
     Step
<1>3. /\ MakeRow("pub", "dds", {}, T[1], G[1], G[2])
      /\ MakeRow("pub", "dds", {}, T[2], G[2], G[3])
      /\ MakeRow("pub", "dds", {}, T[3], G[3], G[4])
      /\ MakeRow("pub", "dds", {}, T[4], G[4], G[5])
      /\ MakeRow("pub", "dds", {}, T[5], G[5], G[6])
  BY DEF FastrtpsPublisherMake, FastrtpsPublisherHas, MakeRow, Survived, Live,
     FastrtpsPublisherLive, Make, Ask, Step
<1> HIDE DEF T, G
<1>4. QED
  BY <1>1, <1>2, <1>3, Indices DEF Makes, T, G

\* The constructor of RclcppSubscriber.
LEMMA RclcppSubscriberMakes ==
  Makes("sub", "rclcpp", {}, RclcppSubscriberMake, RclcppSubscriberHas)
<1> DEFINE T == RclcppSubscriberMake
           G == RclcppSubscriberHas
<1>1. Len(T) = 1 /\ Len(G) = 2 /\ G[1] = {}
  BY DEF RclcppSubscriberMake, RclcppSubscriberHas
<1>2. /\ MakeShape("rclcpp", T[1])
  BY DEF RclcppSubscriberMake, MakeShape, MadeFrom, Rclcpp, Resources,
     Instance, Step
<1>3. /\ MakeRow("sub", "rclcpp", {}, T[1], G[1], G[2])
  BY DEF RclcppSubscriberMake, RclcppSubscriberHas, MakeRow, Survived, Live,
     RclcppSubscriberLive, Instance, Step
<1> HIDE DEF T, G
<1>4. QED
  BY <1>1, <1>2, <1>3, Indices DEF Makes, T, G

\* The constructor of RclcppPublisher.
LEMMA RclcppPublisherMakes ==
  Makes("pub", "rclcpp", {}, RclcppPublisherMake, RclcppPublisherHas)
<1> DEFINE T == RclcppPublisherMake
           G == RclcppPublisherHas
<1>1. Len(T) = 4 /\ Len(G) = 5 /\ G[1] = {}
  BY DEF RclcppPublisherMake, RclcppPublisherHas
<1>2. /\ MakeShape("rclcpp", T[1]) /\ MakeShape("rclcpp", T[2])
      /\ MakeShape("rclcpp", T[3]) /\ MakeShape("rclcpp", T[4])
  BY DEF RclcppPublisherMake, MakeShape, MadeFrom, Rclcpp, Resources, Instance,
     Make, AddNode, Step
<1>3. /\ MakeRow("pub", "rclcpp", {}, T[1], G[1], G[2])
      /\ MakeRow("pub", "rclcpp", {}, T[2], G[2], G[3])
      /\ MakeRow("pub", "rclcpp", {}, T[3], G[3], G[4])
      /\ MakeRow("pub", "rclcpp", {}, T[4], G[4], G[5])
  BY DEF RclcppPublisherMake, RclcppPublisherHas, MakeRow, Survived, Live,
     RclcppPublisherLive, Instance, Make, AddNode, Step
<1> HIDE DEF T, G
<1>4. QED
  BY <1>1, <1>2, <1>3, Indices DEF Makes, T, G

\* set_callback of RmwSubscriber.
LEMMA RmwSubscriberListens ==
  Makes("sub", "rmw", RmwSubscriberHas[9], RmwSubscriberListen, ListenHas)
<1> DEFINE T == RmwSubscriberListen
           G == ListenHas
<1>1. Len(T) = 1 /\ Len(G) = 2 /\ G[1] = {}
  BY DEF RmwSubscriberListen, ListenHas
<1>2. /\ MakeShape("rmw", T[1])
  BY DEF RmwSubscriberListen, MakeShape, MadeFrom, Rcl, Resources, Store, Make,
     Step
<1>3. /\ MakeRow("sub", "rmw", RmwSubscriberHas[9], T[1], G[1], G[2])
  BY DEF RmwSubscriberListen, ListenHas, MakeRow, Survived, Live,
     RmwSubscriberLive, RmwSubscriberHas, Store, Make, Step
<1> HIDE DEF T, G
<1>4. QED
  BY <1>1, <1>2, <1>3, Indices DEF Makes, T, G

\* set_callback of RclSubscriber.
LEMMA RclSubscriberListens ==
  Makes("sub", "rcl", RclSubscriberHas[7], RclSubscriberListen, ListenHas)
<1> DEFINE T == RclSubscriberListen
           G == ListenHas
<1>1. Len(T) = 1 /\ Len(G) = 2 /\ G[1] = {}
  BY DEF RclSubscriberListen, ListenHas
<1>2. /\ MakeShape("rcl", T[1])
  BY DEF RclSubscriberListen, MakeShape, MadeFrom, Rcl, Resources, Store, Make,
     Step
<1>3. /\ MakeRow("sub", "rcl", RclSubscriberHas[7], T[1], G[1], G[2])
  BY DEF RclSubscriberListen, ListenHas, MakeRow, Survived, Live,
     RclSubscriberLive, RclSubscriberHas, Store, Make, Step
<1> HIDE DEF T, G
<1>4. QED
  BY <1>1, <1>2, <1>3, Indices DEF Makes, T, G

\* set_callback of FastrtpsSubscriber.
LEMMA FastrtpsSubscriberListens ==
  Makes("sub", "dds", FastrtpsSubscriberHas[6], FastrtpsSubscriberListen,
        ListenHas)
<1> DEFINE T == FastrtpsSubscriberListen
           G == ListenHas
<1>1. Len(T) = 1 /\ Len(G) = 2 /\ G[1] = {}
  BY DEF FastrtpsSubscriberListen, ListenHas
<1>2. /\ MakeShape("dds", T[1])
  BY DEF FastrtpsSubscriberListen, MakeShape, MadeFrom, Dds, Resources, Store,
     Make, Step
<1>3. /\ MakeRow("sub", "dds", FastrtpsSubscriberHas[6], T[1], G[1], G[2])
  BY DEF FastrtpsSubscriberListen, ListenHas, MakeRow, Survived, Live,
     FastrtpsSubscriberLive, FastrtpsSubscriberHas, Store, Make, Step
<1> HIDE DEF T, G
<1>4. QED
  BY <1>1, <1>2, <1>3, Indices DEF Makes, T, G

\* set_callback of RclcppSubscriber.
LEMMA RclcppSubscriberListens ==
  Makes("sub", "rclcpp", RclcppSubscriberHas[2], RclcppSubscriberListen,
        RclcppListenHas)
<1> DEFINE T == RclcppSubscriberListen
           G == RclcppListenHas
<1>1. Len(T) = 4 /\ Len(G) = 5 /\ G[1] = {}
  BY DEF RclcppSubscriberListen, RclcppListenHas
<1>2. /\ MakeShape("rclcpp", T[1]) /\ MakeShape("rclcpp", T[2])
      /\ MakeShape("rclcpp", T[3]) /\ MakeShape("rclcpp", T[4])
  BY DEF RclcppSubscriberListen, MakeShape, MadeFrom, Rclcpp, Resources, Store,
     Make, AddNode, Step
<1>3. /\ MakeRow("sub", "rclcpp", RclcppSubscriberHas[2], T[1], G[1], G[2])
      /\ MakeRow("sub", "rclcpp", RclcppSubscriberHas[2], T[2], G[2], G[3])
      /\ MakeRow("sub", "rclcpp", RclcppSubscriberHas[2], T[3], G[3], G[4])
      /\ MakeRow("sub", "rclcpp", RclcppSubscriberHas[2], T[4], G[4], G[5])
  BY DEF RclcppSubscriberListen, RclcppListenHas, MakeRow, Survived, Live,
     RclcppSubscriberLive, RclcppSubscriberHas, Store, Make, AddNode, Step
<1> HIDE DEF T, G
<1>4. QED
  BY <1>1, <1>2, <1>3, Indices DEF Makes, T, G

\* The destructor of RmwSubscriber.
LEMMA RmwSubscriberDrops ==
  Drops("sub", "rmw", RmwSubscriberRelease, RmwSubscriberLive,
        RmwSubscriberShut)
<1> DEFINE T == RmwSubscriberRelease
           A == RmwSubscriberLive
           U == RmwSubscriberShut
<1>1. Len(T) = 6 /\ Len(A) = 7 /\ Len(U) = 7 /\ U[1] = {}
      /\ (A[7] \cup U[7]) \ {"callback"} = Leaked["sub"]["rmw"]
  BY DEF RmwSubscriberRelease, RmwSubscriberLive, RmwSubscriberShut, Leaked
<1>2. /\ DropShape("rmw", T[1]) /\ DropShape("rmw", T[2])
      /\ DropShape("rmw", T[3]) /\ DropShape("rmw", T[4])
      /\ DropShape("rmw", T[5]) /\ DropShape("rmw", T[6])
  BY DEF RmwSubscriberRelease, DropShape, Releases, Resources, Free, Release,
     Shutdown, Finalise, Step
<1>3. /\ LetGo(T[1], 1, 6) /\ LetGo(T[2], 2, 6) /\ LetGo(T[3], 3, 6)
      /\ LetGo(T[4], 4, 6) /\ LetGo(T[5], 5, 6) /\ LetGo(T[6], 6, 6)
  BY DEF RmwSubscriberRelease, LetGo, Free, Release, Shutdown, Finalise, Step
<1>4. /\ DropRow(T[1], A[1], U[1], A[2], U[2])
      /\ DropRow(T[2], A[2], U[2], A[3], U[3])
      /\ DropRow(T[3], A[3], U[3], A[4], U[4])
      /\ DropRow(T[4], A[4], U[4], A[5], U[5])
      /\ DropRow(T[5], A[5], U[5], A[6], U[6])
      /\ DropRow(T[6], A[6], U[6], A[7], U[7])
  BY DEF RmwSubscriberRelease, RmwSubscriberLive, RmwSubscriberShut, DropRow,
     Free, Release, Shutdown, Finalise, Step
<1>5. /\ Closed("rmw", A[1]) /\ Closed("rmw", A[2])
      /\ Closed("rmw", A[2]) /\ Closed("rmw", A[3])
      /\ Closed("rmw", A[3]) /\ Closed("rmw", A[4])
      /\ Closed("rmw", A[4]) /\ Closed("rmw", A[5])
      /\ Closed("rmw", A[5]) /\ Closed("rmw", A[6])
      /\ Closed("rmw", A[6]) /\ Closed("rmw", A[7])
  BY DEF RmwSubscriberLive, Closed, MadeFrom, Rcl
<1>6. /\ Apart(A[1], A[1], U[1]) /\ Apart(A[1], A[2], U[2])
      /\ Apart(A[1], A[3], U[3]) /\ Apart(A[1], A[4], U[4])
      /\ Apart(A[1], A[5], U[5]) /\ Apart(A[1], A[6], U[6])
  BY DEF RmwSubscriberLive, RmwSubscriberShut, Apart, Resources
<1> HIDE DEF T, A, U
<1>7. \A i \in 1..6 : DropShape("rmw", T[i])
  BY <1>2, Indices
<1>8. \A i \in 1..6 : LetGo(T[i], i, 6)
  BY <1>3, Indices
<1>9. \A i \in 1..6 : DropRow(T[i], A[i], U[i], A[i + 1], U[i + 1])
  BY <1>4, Indices
<1>10. \A i \in 1..6 : Closed("rmw", A[i]) /\ Closed("rmw", A[i + 1])
  BY <1>5, Indices
<1>11. \A i \in 1..6 : Apart(A[1], A[i], U[i])
  BY <1>6, Indices
<1>12. QED
  BY <1>1, <1>7, <1>8, <1>9, <1>10, <1>11 DEF Drops, T, A, U

\* The destructor of RmwPublisher.
LEMMA RmwPublisherDrops ==
  Drops("pub", "rmw", RmwPublisherRelease, RmwPublisherLive, RmwPublisherShut)
<1> DEFINE T == RmwPublisherRelease
           A == RmwPublisherLive
           U == RmwPublisherShut
<1>1. Len(T) = 2 /\ Len(A) = 3 /\ Len(U) = 3 /\ U[1] = {}
      /\ (A[3] \cup U[3]) \ {"callback"} = Leaked["pub"]["rmw"]
  BY DEF RmwPublisherRelease, RmwPublisherLive, RmwPublisherShut, Leaked
<1>2. /\ DropShape("rmw", T[1]) /\ DropShape("rmw", T[2])
  BY DEF RmwPublisherRelease, DropShape, Releases, Resources, Release, Step
<1>3. /\ LetGo(T[1], 1, 2) /\ LetGo(T[2], 2, 2)
  BY DEF RmwPublisherRelease, LetGo, Release, Step
<1>4. /\ DropRow(T[1], A[1], U[1], A[2], U[2])
      /\ DropRow(T[2], A[2], U[2], A[3], U[3])
  BY DEF RmwPublisherRelease, RmwPublisherLive, RmwPublisherShut, DropRow,
     Release, Step
<1>5. /\ Closed("rmw", A[1]) /\ Closed("rmw", A[2])
      /\ Closed("rmw", A[2]) /\ Closed("rmw", A[3])
  BY DEF RmwPublisherLive, Closed, MadeFrom, Rcl
<1>6. /\ Apart(A[1], A[1], U[1]) /\ Apart(A[1], A[2], U[2])
  BY DEF RmwPublisherLive, RmwPublisherShut, Apart, Resources
<1> HIDE DEF T, A, U
<1>7. \A i \in 1..2 : DropShape("rmw", T[i])
  BY <1>2, Indices
<1>8. \A i \in 1..2 : LetGo(T[i], i, 2)
  BY <1>3, Indices
<1>9. \A i \in 1..2 : DropRow(T[i], A[i], U[i], A[i + 1], U[i + 1])
  BY <1>4, Indices
<1>10. \A i \in 1..2 : Closed("rmw", A[i]) /\ Closed("rmw", A[i + 1])
  BY <1>5, Indices
<1>11. \A i \in 1..2 : Apart(A[1], A[i], U[i])
  BY <1>6, Indices
<1>12. QED
  BY <1>1, <1>7, <1>8, <1>9, <1>10, <1>11 DEF Drops, T, A, U

\* The destructor of RclSubscriber.
LEMMA RclSubscriberDrops ==
  Drops("sub", "rcl", RclSubscriberRelease, RclSubscriberLive,
        RclSubscriberShut)
<1> DEFINE T == RclSubscriberRelease
           A == RclSubscriberLive
           U == RclSubscriberShut
<1>1. Len(T) = 4 /\ Len(A) = 5 /\ Len(U) = 5 /\ U[1] = {}
      /\ (A[5] \cup U[5]) \ {"callback"} = Leaked["sub"]["rcl"]
  BY DEF RclSubscriberRelease, RclSubscriberLive, RclSubscriberShut, Leaked
<1>2. /\ DropShape("rcl", T[1]) /\ DropShape("rcl", T[2])
      /\ DropShape("rcl", T[3]) /\ DropShape("rcl", T[4])
  BY DEF RclSubscriberRelease, DropShape, Releases, Resources, Release,
     Shutdown, Step
<1>3. /\ LetGo(T[1], 1, 4) /\ LetGo(T[2], 2, 4) /\ LetGo(T[3], 3, 4)
      /\ LetGo(T[4], 4, 4)
  BY DEF RclSubscriberRelease, LetGo, Release, Shutdown, Step
<1>4. /\ DropRow(T[1], A[1], U[1], A[2], U[2])
      /\ DropRow(T[2], A[2], U[2], A[3], U[3])
      /\ DropRow(T[3], A[3], U[3], A[4], U[4])
      /\ DropRow(T[4], A[4], U[4], A[5], U[5])
  BY DEF RclSubscriberRelease, RclSubscriberLive, RclSubscriberShut, DropRow,
     Release, Shutdown, Step
<1>5. /\ Closed("rcl", A[1]) /\ Closed("rcl", A[2])
      /\ Closed("rcl", A[2]) /\ Closed("rcl", A[3])
      /\ Closed("rcl", A[3]) /\ Closed("rcl", A[4])
      /\ Closed("rcl", A[4]) /\ Closed("rcl", A[5])
  BY DEF RclSubscriberLive, Closed, MadeFrom, Rcl
<1>6. /\ Apart(A[1], A[1], U[1]) /\ Apart(A[1], A[2], U[2])
      /\ Apart(A[1], A[3], U[3]) /\ Apart(A[1], A[4], U[4])
  BY DEF RclSubscriberLive, RclSubscriberShut, Apart, Resources
<1> HIDE DEF T, A, U
<1>7. \A i \in 1..4 : DropShape("rcl", T[i])
  BY <1>2, Indices
<1>8. \A i \in 1..4 : LetGo(T[i], i, 4)
  BY <1>3, Indices
<1>9. \A i \in 1..4 : DropRow(T[i], A[i], U[i], A[i + 1], U[i + 1])
  BY <1>4, Indices
<1>10. \A i \in 1..4 : Closed("rcl", A[i]) /\ Closed("rcl", A[i + 1])
  BY <1>5, Indices
<1>11. \A i \in 1..4 : Apart(A[1], A[i], U[i])
  BY <1>6, Indices
<1>12. QED
  BY <1>1, <1>7, <1>8, <1>9, <1>10, <1>11 DEF Drops, T, A, U

\* The destructor of RclPublisher.
LEMMA RclPublisherDrops ==
  Drops("pub", "rcl", RclPublisherRelease, RclPublisherLive, RclPublisherShut)
<1> DEFINE T == RclPublisherRelease
           A == RclPublisherLive
           U == RclPublisherShut
<1>1. Len(T) = 3 /\ Len(A) = 4 /\ Len(U) = 4 /\ U[1] = {}
      /\ (A[4] \cup U[4]) \ {"callback"} = Leaked["pub"]["rcl"]
  BY DEF RclPublisherRelease, RclPublisherLive, RclPublisherShut, Leaked
<1>2. /\ DropShape("rcl", T[1]) /\ DropShape("rcl", T[2])
      /\ DropShape("rcl", T[3])
  BY DEF RclPublisherRelease, DropShape, Releases, Resources, Release,
     Shutdown, Step
<1>3. /\ LetGo(T[1], 1, 3) /\ LetGo(T[2], 2, 3) /\ LetGo(T[3], 3, 3)
  BY DEF RclPublisherRelease, LetGo, Release, Shutdown, Step
<1>4. /\ DropRow(T[1], A[1], U[1], A[2], U[2])
      /\ DropRow(T[2], A[2], U[2], A[3], U[3])
      /\ DropRow(T[3], A[3], U[3], A[4], U[4])
  BY DEF RclPublisherRelease, RclPublisherLive, RclPublisherShut, DropRow,
     Release, Shutdown, Step
<1>5. /\ Closed("rcl", A[1]) /\ Closed("rcl", A[2])
      /\ Closed("rcl", A[2]) /\ Closed("rcl", A[3])
      /\ Closed("rcl", A[3]) /\ Closed("rcl", A[4])
  BY DEF RclPublisherLive, Closed, MadeFrom, Rcl
<1>6. /\ Apart(A[1], A[1], U[1]) /\ Apart(A[1], A[2], U[2])
      /\ Apart(A[1], A[3], U[3])
  BY DEF RclPublisherLive, RclPublisherShut, Apart, Resources
<1> HIDE DEF T, A, U
<1>7. \A i \in 1..3 : DropShape("rcl", T[i])
  BY <1>2, Indices
<1>8. \A i \in 1..3 : LetGo(T[i], i, 3)
  BY <1>3, Indices
<1>9. \A i \in 1..3 : DropRow(T[i], A[i], U[i], A[i + 1], U[i + 1])
  BY <1>4, Indices
<1>10. \A i \in 1..3 : Closed("rcl", A[i]) /\ Closed("rcl", A[i + 1])
  BY <1>5, Indices
<1>11. \A i \in 1..3 : Apart(A[1], A[i], U[i])
  BY <1>6, Indices
<1>12. QED
  BY <1>1, <1>7, <1>8, <1>9, <1>10, <1>11 DEF Drops, T, A, U

\* The destructor of FastrtpsSubscriber.
LEMMA FastrtpsSubscriberDrops ==
  Drops("sub", "dds", FastrtpsSubscriberRelease, FastrtpsSubscriberLive,
        FastrtpsSubscriberShut)
<1> DEFINE T == FastrtpsSubscriberRelease
           A == FastrtpsSubscriberLive
           U == FastrtpsSubscriberShut
<1>1. Len(T) = 1 /\ Len(A) = 2 /\ Len(U) = 2 /\ U[1] = {}
      /\ (A[2] \cup U[2]) \ {"callback"} = Leaked["sub"]["dds"]
  BY DEF FastrtpsSubscriberRelease, FastrtpsSubscriberLive,
     FastrtpsSubscriberShut, Leaked
<1>2. /\ DropShape("dds", T[1])
  BY DEF FastrtpsSubscriberRelease, DropShape, Releases, Resources, Remove
<1>3. /\ LetGo(T[1], 1, 1)
  BY DEF FastrtpsSubscriberRelease, LetGo, Remove
<1>4. /\ DropRow(T[1], A[1], U[1], A[2], U[2])
  BY DEF FastrtpsSubscriberRelease, FastrtpsSubscriberLive,
     FastrtpsSubscriberShut, DropRow, Remove
<1>5. /\ Closed("dds", A[1]) /\ Closed("dds", A[2])
  BY DEF FastrtpsSubscriberLive, Closed, MadeFrom, Dds
<1>6. /\ Apart(A[1], A[1], U[1])
  BY DEF FastrtpsSubscriberLive, FastrtpsSubscriberShut, Apart, Resources
<1> HIDE DEF T, A, U
<1>7. \A i \in 1..1 : DropShape("dds", T[i])
  BY <1>2, Indices
<1>8. \A i \in 1..1 : LetGo(T[i], i, 1)
  BY <1>3, Indices
<1>9. \A i \in 1..1 : DropRow(T[i], A[i], U[i], A[i + 1], U[i + 1])
  BY <1>4, Indices
<1>10. \A i \in 1..1 : Closed("dds", A[i]) /\ Closed("dds", A[i + 1])
  BY <1>5, Indices
<1>11. \A i \in 1..1 : Apart(A[1], A[i], U[i])
  BY <1>6, Indices
<1>12. QED
  BY <1>1, <1>7, <1>8, <1>9, <1>10, <1>11 DEF Drops, T, A, U

\* The destructor of FastrtpsPublisher.
LEMMA FastrtpsPublisherDrops ==
  Drops("pub", "dds", FastrtpsPublisherRelease, FastrtpsPublisherLive,
        FastrtpsPublisherShut)
<1> DEFINE T == FastrtpsPublisherRelease
           A == FastrtpsPublisherLive
           U == FastrtpsPublisherShut
<1>1. Len(T) = 1 /\ Len(A) = 2 /\ Len(U) = 2 /\ U[1] = {}
      /\ (A[2] \cup U[2]) \ {"callback"} = Leaked["pub"]["dds"]
  BY DEF FastrtpsPublisherRelease, FastrtpsPublisherLive,
     FastrtpsPublisherShut, Leaked
<1>2. /\ DropShape("dds", T[1])
  BY DEF FastrtpsPublisherRelease, DropShape, Releases, Resources, Remove
<1>3. /\ LetGo(T[1], 1, 1)
  BY DEF FastrtpsPublisherRelease, LetGo, Remove
<1>4. /\ DropRow(T[1], A[1], U[1], A[2], U[2])
  BY DEF FastrtpsPublisherRelease, FastrtpsPublisherLive,
     FastrtpsPublisherShut, DropRow, Remove
<1>5. /\ Closed("dds", A[1]) /\ Closed("dds", A[2])
  BY DEF FastrtpsPublisherLive, Closed, MadeFrom, Dds
<1>6. /\ Apart(A[1], A[1], U[1])
  BY DEF FastrtpsPublisherLive, FastrtpsPublisherShut, Apart, Resources
<1> HIDE DEF T, A, U
<1>7. \A i \in 1..1 : DropShape("dds", T[i])
  BY <1>2, Indices
<1>8. \A i \in 1..1 : LetGo(T[i], i, 1)
  BY <1>3, Indices
<1>9. \A i \in 1..1 : DropRow(T[i], A[i], U[i], A[i + 1], U[i + 1])
  BY <1>4, Indices
<1>10. \A i \in 1..1 : Closed("dds", A[i]) /\ Closed("dds", A[i + 1])
  BY <1>5, Indices
<1>11. \A i \in 1..1 : Apart(A[1], A[i], U[i])
  BY <1>6, Indices
<1>12. QED
  BY <1>1, <1>7, <1>8, <1>9, <1>10, <1>11 DEF Drops, T, A, U

\* The destructor of RclcppSubscriber.
LEMMA RclcppSubscriberDrops ==
  Drops("sub", "rclcpp", RclcppSubscriberRelease, RclcppSubscriberLive,
        RclcppSubscriberShut)
<1> DEFINE T == RclcppSubscriberRelease
           A == RclcppSubscriberLive
           U == RclcppSubscriberShut
<1>1. Len(T) = 3 /\ Len(A) = 4 /\ Len(U) = 4 /\ U[1] = {}
      /\ (A[4] \cup U[4]) \ {"callback"} = Leaked["sub"]["rclcpp"]
  BY DEF RclcppSubscriberRelease, RclcppSubscriberLive, RclcppSubscriberShut,
     Leaked
<1>2. /\ DropShape("rclcpp", T[1]) /\ DropShape("rclcpp", T[2])
      /\ DropShape("rclcpp", T[3])
  BY DEF RclcppSubscriberRelease, DropShape, Releases, Resources, Reset, Step
<1>3. /\ LetGo(T[1], 1, 3) /\ LetGo(T[2], 2, 3) /\ LetGo(T[3], 3, 3)
  BY DEF RclcppSubscriberRelease, LetGo, Reset, Step
<1>4. /\ DropRow(T[1], A[1], U[1], A[2], U[2])
      /\ DropRow(T[2], A[2], U[2], A[3], U[3])
      /\ DropRow(T[3], A[3], U[3], A[4], U[4])
  BY DEF RclcppSubscriberRelease, RclcppSubscriberLive, RclcppSubscriberShut,
     DropRow, Reset, Step
<1>5. /\ Closed("rclcpp", A[1]) /\ Closed("rclcpp", A[2])
      /\ Closed("rclcpp", A[2]) /\ Closed("rclcpp", A[3])
      /\ Closed("rclcpp", A[3]) /\ Closed("rclcpp", A[4])
  BY DEF RclcppSubscriberLive, Closed, MadeFrom, Rclcpp
<1>6. /\ Apart(A[1], A[1], U[1]) /\ Apart(A[1], A[2], U[2])
      /\ Apart(A[1], A[3], U[3])
  BY DEF RclcppSubscriberLive, RclcppSubscriberShut, Apart, Resources
<1> HIDE DEF T, A, U
<1>7. \A i \in 1..3 : DropShape("rclcpp", T[i])
  BY <1>2, Indices
<1>8. \A i \in 1..3 : LetGo(T[i], i, 3)
  BY <1>3, Indices
<1>9. \A i \in 1..3 : DropRow(T[i], A[i], U[i], A[i + 1], U[i + 1])
  BY <1>4, Indices
<1>10. \A i \in 1..3 : Closed("rclcpp", A[i]) /\ Closed("rclcpp", A[i + 1])
  BY <1>5, Indices
<1>11. \A i \in 1..3 : Apart(A[1], A[i], U[i])
  BY <1>6, Indices
<1>12. QED
  BY <1>1, <1>7, <1>8, <1>9, <1>10, <1>11 DEF Drops, T, A, U

\* The destructor of RclcppPublisher.
LEMMA RclcppPublisherDrops ==
  Drops("pub", "rclcpp", RclcppPublisherRelease, RclcppPublisherLive,
        RclcppPublisherShut)
<1> DEFINE T == RclcppPublisherRelease
           A == RclcppPublisherLive
           U == RclcppPublisherShut
<1>1. Len(T) = 3 /\ Len(A) = 4 /\ Len(U) = 4 /\ U[1] = {}
      /\ (A[4] \cup U[4]) \ {"callback"} = Leaked["pub"]["rclcpp"]
  BY DEF RclcppPublisherRelease, RclcppPublisherLive, RclcppPublisherShut,
     Leaked
<1>2. /\ DropShape("rclcpp", T[1]) /\ DropShape("rclcpp", T[2])
      /\ DropShape("rclcpp", T[3])
  BY DEF RclcppPublisherRelease, DropShape, Releases, Resources, Reset, Step
<1>3. /\ LetGo(T[1], 1, 3) /\ LetGo(T[2], 2, 3) /\ LetGo(T[3], 3, 3)
  BY DEF RclcppPublisherRelease, LetGo, Reset, Step
<1>4. /\ DropRow(T[1], A[1], U[1], A[2], U[2])
      /\ DropRow(T[2], A[2], U[2], A[3], U[3])
      /\ DropRow(T[3], A[3], U[3], A[4], U[4])
  BY DEF RclcppPublisherRelease, RclcppPublisherLive, RclcppPublisherShut,
     DropRow, Reset, Step
<1>5. /\ Closed("rclcpp", A[1]) /\ Closed("rclcpp", A[2])
      /\ Closed("rclcpp", A[2]) /\ Closed("rclcpp", A[3])
      /\ Closed("rclcpp", A[3]) /\ Closed("rclcpp", A[4])
  BY DEF RclcppPublisherLive, Closed, MadeFrom, Rclcpp
<1>6. /\ Apart(A[1], A[1], U[1]) /\ Apart(A[1], A[2], U[2])
      /\ Apart(A[1], A[3], U[3])
  BY DEF RclcppPublisherLive, RclcppPublisherShut, Apart, Resources
<1> HIDE DEF T, A, U
<1>7. \A i \in 1..3 : DropShape("rclcpp", T[i])
  BY <1>2, Indices
<1>8. \A i \in 1..3 : LetGo(T[i], i, 3)
  BY <1>3, Indices
<1>9. \A i \in 1..3 : DropRow(T[i], A[i], U[i], A[i + 1], U[i + 1])
  BY <1>4, Indices
<1>10. \A i \in 1..3 : Closed("rclcpp", A[i]) /\ Closed("rclcpp", A[i + 1])
  BY <1>5, Indices
<1>11. \A i \in 1..3 : Apart(A[1], A[i], U[i])
  BY <1>6, Indices
<1>12. QED
  BY <1>1, <1>7, <1>8, <1>9, <1>10, <1>11 DEF Drops, T, A, U

-----------------------------------------------------------------------------
(* The tables put together, and the blocks of the two threads.              *)

\* The annotations of all constructors and destructors.
LEMMA Outlines ==
  ASSUME NEW k \in Kinds, NEW l \in LayerNames
  PROVE  /\ Makes(k, l, {}, Constructor[k][l], Has[k][l])
         /\ Drops(k, l, Destructor[k][l], Live[k][l], Shut[k][l])
<1>1. CASE k = "sub"
  BY <1>1, RmwSubscriberMakes, RclSubscriberMakes, FastrtpsSubscriberMakes,
     RclcppSubscriberMakes, RmwSubscriberDrops, RclSubscriberDrops,
     FastrtpsSubscriberDrops, RclcppSubscriberDrops
     DEF LayerNames, Constructor, Destructor, Has, Live, Shut
<1>2. CASE k = "pub"
  BY <1>2, RmwPublisherMakes, RclPublisherMakes, FastrtpsPublisherMakes,
     RclcppPublisherMakes, RmwPublisherDrops, RclPublisherDrops,
     FastrtpsPublisherDrops, RclcppPublisherDrops
     DEF LayerNames, Constructor, Destructor, Has, Live, Shut
<1>3. QED
  BY <1>1, <1>2 DEF Kinds

\* What a constructor, and set_callback, make in all.
HasAll(k, l) == Has[k][l][Len(Constructor[k][l]) + 1]
HearsAll(l) == Hears[l][Len(Listen[l]) + 1]

\* The number of calls of each method.
LEMMA Lengths ==
  /\ Len(RmwSubscriberMake) = 8 /\ Len(RmwPublisherMake) = 6
  /\ Len(RclSubscriberMake) = 6 /\ Len(RclPublisherMake) = 5
  /\ Len(FastrtpsSubscriberMake) = 5 /\ Len(FastrtpsPublisherMake) = 5
  /\ Len(RclcppSubscriberMake) = 1 /\ Len(RclcppPublisherMake) = 4
  /\ Len(RmwSubscriberListen) = 1 /\ Len(RclSubscriberListen) = 1
  /\ Len(FastrtpsSubscriberListen) = 1 /\ Len(RclcppSubscriberListen) = 4
  BY DEF RmwSubscriberMake, RmwPublisherMake, RclSubscriberMake,
     RclPublisherMake, FastrtpsSubscriberMake, FastrtpsPublisherMake,
     RclcppSubscriberMake, RclcppPublisherMake, RmwSubscriberListen,
     RclSubscriberListen, FastrtpsSubscriberListen, RclcppSubscriberListen

\* The tables by class.
LEMMA Rows ==
  /\ Has["sub"]["rmw"] = RmwSubscriberHas
  /\ Constructor["sub"]["rmw"] = RmwSubscriberMake
  /\ Live["sub"]["rmw"] = RmwSubscriberLive
  /\ Has["pub"]["rmw"] = RmwPublisherHas
  /\ Constructor["pub"]["rmw"] = RmwPublisherMake
  /\ Live["pub"]["rmw"] = RmwPublisherLive
  /\ Has["sub"]["rcl"] = RclSubscriberHas
  /\ Constructor["sub"]["rcl"] = RclSubscriberMake
  /\ Live["sub"]["rcl"] = RclSubscriberLive
  /\ Has["pub"]["rcl"] = RclPublisherHas
  /\ Constructor["pub"]["rcl"] = RclPublisherMake
  /\ Live["pub"]["rcl"] = RclPublisherLive
  /\ Has["sub"]["dds"] = FastrtpsSubscriberHas
  /\ Constructor["sub"]["dds"] = FastrtpsSubscriberMake
  /\ Live["sub"]["dds"] = FastrtpsSubscriberLive
  /\ Has["pub"]["dds"] = FastrtpsPublisherHas
  /\ Constructor["pub"]["dds"] = FastrtpsPublisherMake
  /\ Live["pub"]["dds"] = FastrtpsPublisherLive
  /\ Has["sub"]["rclcpp"] = RclcppSubscriberHas
  /\ Constructor["sub"]["rclcpp"] = RclcppSubscriberMake
  /\ Live["sub"]["rclcpp"] = RclcppSubscriberLive
  /\ Has["pub"]["rclcpp"] = RclcppPublisherHas
  /\ Constructor["pub"]["rclcpp"] = RclcppPublisherMake
  /\ Live["pub"]["rclcpp"] = RclcppPublisherLive /\ Hears["rmw"] = ListenHas
  /\ Listen["rmw"] = RmwSubscriberListen /\ Hears["rcl"] = ListenHas
  /\ Listen["rcl"] = RclSubscriberListen /\ Hears["dds"] = ListenHas
  /\ Listen["dds"] = FastrtpsSubscriberListen
  /\ Hears["rclcpp"] = RclcppListenHas
  /\ Listen["rclcpp"] = RclcppSubscriberListen
  BY DEF Has, Constructor, Live, Hears, Listen

\* The last row of each annotation.
LEMMA Sums ==
  /\ Len(Constructor["sub"]["rmw"]) + 1 = 9
  /\ Len(Constructor["pub"]["rmw"]) + 1 = 7
  /\ Len(Constructor["sub"]["rcl"]) + 1 = 7
  /\ Len(Constructor["pub"]["rcl"]) + 1 = 6
  /\ Len(Constructor["sub"]["dds"]) + 1 = 6
  /\ Len(Constructor["pub"]["dds"]) + 1 = 6
  /\ Len(Constructor["sub"]["rclcpp"]) + 1 = 2
  /\ Len(Constructor["pub"]["rclcpp"]) + 1 = 5 /\ Len(Listen["rmw"]) + 1 = 2
  /\ Len(Listen["rcl"]) + 1 = 2 /\ Len(Listen["dds"]) + 1 = 2
  /\ Len(Listen["rclcpp"]) + 1 = 5
  BY Rows, Lengths

\* What each class has made at the end of its constructor and of set_callback.
LEMMA Alls ==
  /\ HasAll("sub", "rmw") = RmwSubscriberHas[9]
  /\ HasAll("pub", "rmw") = RmwPublisherHas[7]
  /\ HasAll("sub", "rcl") = RclSubscriberHas[7]
  /\ HasAll("pub", "rcl") = RclPublisherHas[6]
  /\ HasAll("sub", "dds") = FastrtpsSubscriberHas[6]
  /\ HasAll("pub", "dds") = FastrtpsPublisherHas[6]
  /\ HasAll("sub", "rclcpp") = RclcppSubscriberHas[2]
  /\ HasAll("pub", "rclcpp") = RclcppPublisherHas[5]
  /\ HearsAll("rmw") = ListenHas[2] /\ HearsAll("rcl") = ListenHas[2]
  /\ HearsAll("dds") = ListenHas[2] /\ HearsAll("rclcpp") = RclcppListenHas[5]
  BY Rows, Sums DEF HasAll, HearsAll

\* The annotations of set_callback, which runs after the constructor.
LEMMA Listening ==
  ASSUME NEW l \in LayerNames
  PROVE  Makes("sub", l, HasAll("sub", l), Listen[l], Hears[l])
<1>1. CASE l = "rmw"
  BY <1>1, Alls, Rows, RmwSubscriberListens
<1>2. CASE l = "rcl"
  BY <1>2, Alls, Rows, RclSubscriberListens
<1>3. CASE l = "dds"
  BY <1>3, Alls, Rows, FastrtpsSubscriberListens
<1>4. CASE l = "rclcpp"
  BY <1>4, Alls, Rows, RclcppSubscriberListens
<1>5. QED
  BY <1>1, <1>2, <1>3, <1>4 DEF LayerNames

\* The destructor starts from all that was made.
LEMMA Whole ==
  ASSUME NEW k \in Kinds, NEW l \in LayerNames
  PROVE  Live[k][l][1] = HasAll(k, l) \cup
                           (IF k = "sub" THEN HearsAll(l) ELSE {})
<1>1. CASE k = "sub"
  <2>1. CASE l = "rmw"
    BY <1>1, <2>1, Alls, Rows DEF RmwSubscriberLive, RmwSubscriberHas,
       ListenHas
  <2>2. CASE l = "rcl"
    BY <1>1, <2>2, Alls, Rows DEF RclSubscriberLive, RclSubscriberHas,
       ListenHas
  <2>3. CASE l = "dds"
    BY <1>1, <2>3, Alls, Rows DEF FastrtpsSubscriberLive, FastrtpsSubscriberHas,
       ListenHas
  <2>4. CASE l = "rclcpp"
    BY <1>1, <2>4, Alls, Rows DEF RclcppSubscriberLive, RclcppSubscriberHas,
       RclcppListenHas
  <2>5. QED
    BY <2>1, <2>2, <2>3, <2>4 DEF LayerNames
<1>2. CASE k = "pub"
  <2>1. CASE l = "rmw"
    BY <1>2, <2>1, Alls, Rows DEF RmwPublisherLive, RmwPublisherHas
  <2>2. CASE l = "rcl"
    BY <1>2, <2>2, Alls, Rows DEF RclPublisherLive, RclPublisherHas
  <2>3. CASE l = "dds"
    BY <1>2, <2>3, Alls, Rows DEF FastrtpsPublisherLive, FastrtpsPublisherHas
  <2>4. CASE l = "rclcpp"
    BY <1>2, <2>4, Alls, Rows DEF RclcppPublisherLive, RclcppPublisherHas
  <2>5. QED
    BY <2>1, <2>2, <2>3, <2>4 DEF LayerNames
<1>3. QED
  BY <1>1, <1>2 DEF Kinds

\* What the methods that measure need is made by then.
LEMMA InUse ==
  ASSUME NEW k \in Kinds, NEW l \in LayerNames
  PROVE  /\ Uses[k][l] \subseteq Live[k][l][1]
         /\ Dereferences[k][l] \subseteq Live[k][l][1]
         /\ \A r \in Dereferences[k][l] : <<l, k, r>> \notin Survived
<1>1. CASE k = "sub"
  BY <1>1 DEF LayerNames, Uses, Dereferences, Live, Survived, RmwSubscriberLive,
     RclSubscriberLive, FastrtpsSubscriberLive, RclcppSubscriberLive
<1>2. CASE k = "pub"
  BY <1>2 DEF LayerNames, Uses, Dereferences, Live, Survived, RmwPublisherLive,
     RclPublisherLive, FastrtpsPublisherLive, RclcppPublisherLive
<1>3. QED
  BY <1>1, <1>2 DEF Kinds

\* The calls of the two threads: an object is made in one block of its thread's
\* function and dropped in another, the first one made last.
layer == params.layer
First == [pong |-> "sub", ping |-> "pub"]
MakeAt(t, k) == IF First[t] = k THEN 1 ELSE 2
DropAt(t, k) == IF First[t] = k THEN 6 ELSE 5

\* pong() and ping() as six blocks.
LEMMA Blocks ==
  ASSUME NEW t \in Threads, layer \in LayerNames
  PROVE  /\ Len(Program(t)) = 6
         /\ \A k \in Kinds :
              /\ Program(t)[MakeAt(t, k)] = Block(t, k, Constructor[k][layer])
              /\ Program(t)[DropAt(t, k)] = Block(t, k, Destructor[k][layer])
         /\ Program(t)[3] = Block(t, "sub", Listen[layer])
         /\ Program(t)[4] = Block(t, "sub", << Use >>)
<1>1. layer # "other"
  BY DEF LayerNames
<1>2. CASE t = "pong"
  <2>1. Program(t) = PongProgram(layer)
    BY <1>1, <1>2 DEF Program, Programs, layer, LayerNames
  <2>2. Len(PongProgram(layer)) = 6
    BY DEF PongProgram
  <2>3. QED
    BY <1>2, <2>1, <2>2 DEF PongProgram, MakeAt, DropAt, First, Kinds, MakeObject,
       DropObject, SetCallback, Measure
<1>3. CASE t = "ping"
  <2>1. Program(t) = PingProgram(layer)
    BY <1>1, <1>3 DEF Program, Programs, layer, LayerNames
  <2>2. Len(PingProgram(layer)) = 6
    BY DEF PingProgram
  <2>3. QED
    BY <1>3, <2>1, <2>2 DEF PingProgram, MakeAt, DropAt, First, Kinds, MakeObject,
       DropObject, SetCallback, Measure
<1>4. QED
  BY <1>2, <1>3 DEF Threads

\* Where the objects are made and dropped.
LEMMA Places ==
  ASSUME NEW t \in Threads, NEW k \in Kinds
  PROVE  MakeAt(t, k) \in {1, 2} /\ DropAt(t, k) \in {5, 6}
  BY DEF MakeAt, DropAt

\* Every block but those of set_callback and of the measurement makes or drops
\* one of the two objects of the thread.
LEMMA AllPlaces ==
  ASSUME NEW t \in Threads, NEW b \in 1..6
  PROVE  b \in {3, 4} \/ \E k \in Kinds : b = MakeAt(t, k) \/ b = DropAt(t, k)
<1>1. b \in {1, 2, 3, 4, 5, 6}
  OBVIOUS
<1>2. CASE t = "pong"
  BY <1>1, <1>2 DEF MakeAt, DropAt, First, Kinds
<1>3. CASE t = "ping"
  BY <1>1, <1>3 DEF MakeAt, DropAt, First, Kinds
<1>4. QED
  BY <1>2, <1>3 DEF Threads

\* No method is empty.
LEMMA BlockSteps ==
  ASSUME NEW t \in Threads, layer \in LayerNames, NEW b \in 1..6
  PROVE  Len(Program(t)[b].steps) \in 1..8
<1>1. \A x, y, z : Block(x, y, z).steps = z
  BY DEF Block
<1>2. CASE b = 3
  <2>1. Len(Listen[layer]) \in 1..8
    BY Listening DEF Makes
  <2>2. QED
    BY <1>1, <1>2, <2>1, Blocks
<1>3. CASE b = 4
  <2>1. Len(<< Use >>) = 1
    OBVIOUS
  <2>2. QED
    BY <1>1, <1>3, <2>1, Blocks
<1>4. ASSUME NEW k \in Kinds, b = MakeAt(t, k)
      PROVE  Len(Program(t)[b].steps) \in 1..8
  <2>1. Len(Constructor[k][layer]) \in 1..8
    BY Outlines DEF Makes
  <2>2. QED
    BY <1>1, <1>4, <2>1, Blocks
<1>5. ASSUME NEW k \in Kinds, b = DropAt(t, k)
      PROVE  Len(Program(t)[b].steps) \in 1..8
  <2>1. Len(Destructor[k][layer]) \in 1..8
    BY Outlines DEF Drops
  <2>2. QED
    BY <1>1, <1>5, <2>1, Blocks
<1>6. QED
  BY <1>2, <1>3, <1>4, <1>5, AllPlaces

-----------------------------------------------------------------------------
(* Every variable has its type.                                             *)

\* The states of a resource.
States == {"raw", "null", "live", "shut", "gone"}

\* A thread is at a call of its function, or at its end.
PlaceInv ==
  /\ block \in [Threads -> Nat] /\ step \in [Threads -> Nat]
  /\ \A t \in Threads :
       /\ block[t] \in 1..Len(Program(t)) + 1
       /\ step[t] \in 1..(IF Ended(t) THEN 1 ELSE Len(Steps(t)))

TypeInv == TypeOK /\ PlaceInv

\* What get_params returns.
LEMMA ParamsTyped ==
  ASSUME NEW x PROVE GetParams(x) \in Params
<1>1. GetParams(x).run \in {"intra", "inter ping", "inter pong", "other"}
  BY Zenon DEF GetParams
<1>2. GetParams(x).layer \in {"rclcpp", "rcl", "rmw", "dds", "other"}
  BY DEF GetParams, LayerNames
<1>3. QED
  BY <1>1, <1>2 DEF GetParams, Params

\* main starts the threads the type asks for, none twice.
LEMMA ThreadLists ==
  ASSUME NEW p \in Params
  PROVE  ThreadsOf(p) \in Seq(Threads) /\ Len(ThreadsOf(p)) \in 0..2
<1>1. ThreadsOf(p) \in {<<"pong", "ping">>, <<"ping">>, <<"pong">>, << >>}
  <2>1. p.run \in {"intra", "inter ping", "inter pong", "other"}
    BY DEF Params
  <2>2. QED
    BY <2>1, Zenon DEF ThreadsOf
<1>2. CASE ThreadsOf(p) = <<"pong", "ping">>
  BY <1>2 DEF Threads
<1>3. CASE ThreadsOf(p) = <<"ping">>
  BY <1>3 DEF Threads
<1>4. CASE ThreadsOf(p) = <<"pong">>
  BY <1>4 DEF Threads
<1>5. CASE ThreadsOf(p) = << >>
  BY <1>5
<1>6. QED
  BY <1>1, <1>2, <1>3, <1>4, <1>5

\* Without a layer a thread has nothing to run.
LEMMA NoProgram ==
  ASSUME TypeOK, NEW t \in Threads
  PROVE  \/ layer \in LayerNames
         \/ layer = "other" /\ Len(Program(t)) = 0
<1>1. layer \in LayerNames \cup {"other"}
  BY DEF TypeOK, Params, layer, LayerNames
<1>2. ASSUME layer = "other"
      PROVE  Len(Program(t)) = 0
  BY <1>2 DEF Program, Programs, layer, Threads
<1>3. QED
  BY <1>1, <1>2

\* A thread that has not ended is at a call of a method of its layer.
LEMMA Busy ==
  ASSUME TypeInv, NEW t \in Threads, ~Ended(t)
  PROVE  /\ layer \in LayerNames /\ Len(Program(t)) = 6
         /\ block[t] \in 1..6 /\ step[t] \in 1..Len(Steps(t))
         /\ Len(Steps(t)) \in 1..8
<1>1. block[t] \in 1..Len(Program(t)) + 1 /\ block[t] \in Nat
  BY DEF TypeInv, PlaceInv
<1>2. layer \in LayerNames
  BY <1>1, NoProgram DEF Ended, TypeInv
<1>3. Len(Program(t)) = 6
  BY <1>2, Blocks
<1>4. block[t] \in 1..6
  BY <1>1, <1>3 DEF Ended
<1>5. step[t] \in 1..Len(Steps(t))
  BY DEF TypeInv, PlaceInv
<1>6. Len(Steps(t)) \in 1..8
  BY <1>2, <1>4, BlockSteps DEF Steps
<1>7. QED
  BY <1>2, <1>3, <1>4, <1>5, <1>6

\* The types hold at the start of main.
LEMMA InitType == Init => TypeInv
<1> SUFFICES ASSUME Init PROVE TypeInv
  OBVIOUS
<1>1. params \in Params
  BY ParamsTyped DEF Init
<1>2. Len(ThreadsOf(params)) \in 0..2
  BY <1>1, ThreadLists
<1>3. PlaceInv
  <2>1. block = [t \in Threads |-> 1] /\ step = [t \in Threads |-> 1]
    BY DEF Init
  <2>2. ASSUME NEW t \in Threads
        PROVE  /\ block[t] \in 1..Len(Program(t)) + 1
               /\ step[t] \in 1..(IF Ended(t) THEN 1 ELSE Len(Steps(t)))
    <3>1. CASE params.layer \in LayerNames
      <4>1. Len(Program(t)) = 6 /\ 1 \in 1..6
        BY <3>1, Blocks DEF layer
      <4>2. Len(Steps(t)) \in 1..8
        BY <2>1, <3>1, <4>1, BlockSteps DEF Steps, layer
      <4>3. QED
        <5>1. block[t] = 1 /\ step[t] = 1
          BY <2>1
        <5>2. ~Ended(t)
          BY <4>1, <5>1 DEF Ended
        <5>3. step[t] \in 1..Len(Steps(t)) /\ block[t] \in 1..6 + 1
          BY <4>2, <5>1
        <5>4. QED
          BY <4>1, <5>2, <5>3
    <3>2. CASE params.layer = "other"
      <4>1. Len(Program(t)) = 0
        BY <3>2 DEF Program, Programs, Threads
      <4>2. QED
        BY <2>1, <4>1 DEF Ended
    <3>3. QED
      BY <1>1, <3>1, <3>2 DEF Params, LayerNames
  <2>3. QED
    BY <2>1, <2>2 DEF PlaceInv
<1>4. state \in [Objects -> [Resources -> States]]
  BY DEF Init, States
<1>5. QED
  BY <1>1, <1>2, <1>3, <1>4 DEF Init, TypeInv, TypeOK, PlaceInv, States

\* What a step of a thread does to its place: the next call, or the first call
\* of the next method.
NextCall(t) == block'[t] = block[t] /\ step'[t] = step[t] + 1
NextBlock(t) == block'[t] = block[t] + 1 /\ step'[t] = 1
OnlyMoves(t) ==
  \A u \in Threads \ {t} : block'[u] = block[u] /\ step'[u] = step[u]

\* A call that goes well leads to the next one.
LEMMA Advancing ==
  ASSUME TypeInv, NEW t \in Threads, Advance(t)
  PROVE  /\ block' \in [Threads -> Nat] /\ step' \in [Threads -> Nat]
         /\ OnlyMoves(t) /\ status' = status
         /\ \/ step[t] < Len(Steps(t)) /\ NextCall(t)
            \/ step[t] = Len(Steps(t)) /\ NextBlock(t)
<1>1. block \in [Threads -> Nat] /\ step \in [Threads -> Nat]
  BY DEF TypeInv, PlaceInv
<1>2. CASE step[t] < Len(Steps(t))
  BY <1>1, <1>2 DEF Advance, Leave, OnlyMoves, NextCall
<1>3. CASE step[t] = Len(Steps(t)) /\ Leave(t)
  BY <1>1, <1>3 DEF Leave, OnlyMoves, NextBlock
<1>4. QED
  BY <1>2, <1>3 DEF Advance

\* A method that returns, at its end or before.
LEMMA Leaving ==
  ASSUME TypeInv, NEW t \in Threads, Leave(t)
  PROVE  /\ block' \in [Threads -> Nat] /\ step' \in [Threads -> Nat]
         /\ OnlyMoves(t) /\ status' = status /\ NextBlock(t)
  BY DEF TypeInv, PlaceInv, Leave, OnlyMoves, NextBlock

\* A step after which the thread is where it was.
Stays == UNCHANGED <<block, step>>

\* A place that does not change is still a place of the program.
LEMMA Kept ==
  ASSUME TypeInv, params' = params, Stays
  PROVE  PlaceInv'
<1>1. \A u \in Threads : /\ Program(u)' = Program(u) /\ Ended(u)' = Ended(u)
                         /\ Steps(u)' = Steps(u)
  BY DEF Stays, Program, Ended, Steps
<1>2. block' = block /\ step' = step
  BY DEF Stays
<1>3. QED
  BY <1>1, <1>2 DEF TypeInv, PlaceInv

\* The next place is a place of the program.
LEMMA Moved ==
  ASSUME TypeInv, params' = params, NEW t \in Threads, ~Ended(t),
         Advance(t) \/ Leave(t)
  PROVE  PlaceInv'
<1>1. /\ block' \in [Threads -> Nat] /\ step' \in [Threads -> Nat]
      /\ OnlyMoves(t)
      /\ \/ step[t] < Len(Steps(t)) /\ NextCall(t)
         \/ NextBlock(t)
  BY Advancing, Leaving
<1>2. /\ layer \in LayerNames /\ Len(Program(t)) = 6
      /\ block[t] \in 1..6 /\ step[t] \in 1..Len(Steps(t))
      /\ Len(Steps(t)) \in 1..8
  BY Busy
<1>3. \A u \in Threads : Program(u)' = Program(u)
  BY DEF Program
<1>4. ASSUME NEW u \in Threads
      PROVE  /\ block'[u] \in 1..Len(Program(u)) + 1
             /\ step'[u] \in 1..(IF block'[u] > Len(Program(u)) THEN 1
                                 ELSE Len(Program(u)[block'[u]].steps))
  <2>1. CASE u # t
    BY <2>1, <1>1 DEF OnlyMoves, TypeInv, PlaceInv, Ended, Steps
  <2>2. CASE u = t /\ step[t] < Len(Steps(t)) /\ NextCall(t)
    <3>1. block'[t] = block[t] /\ ~(block[t] > Len(Program(t)))
      BY <2>2, <1>2 DEF NextCall
    <3>2. step'[t] \in 1..Len(Steps(t))
      BY <2>2, <1>2 DEF NextCall
    <3>3. QED
      BY <2>2, <1>2, <3>1, <3>2 DEF Steps
  <2>3. CASE u = t /\ NextBlock(t)
    <3>1. block'[t] \in 1..7 /\ step'[t] = 1
      BY <2>3, <1>2 DEF NextBlock
    <3>2. CASE block'[t] = 7
      BY <2>3, <1>2, <3>1, <3>2
    <3>3. CASE block'[t] \in 1..6
      <4>1. Len(Program(t)[block'[t]].steps) \in 1..8
        BY <1>2, <3>3, BlockSteps
      <4>2. 1 \in 1..Len(Program(t)[block'[t]].steps)
        <5> DEFINE n == Len(Program(t)[block'[t]].steps)
        <5>1. n \in 1..8
          BY <4>1
        <5> HIDE DEF n
        <5>2. 1 \in 1..n
          BY <5>1
        <5>3. QED
          BY <5>2 DEF n
      <4>3. ~(block'[t] > Len(Program(t))) /\ block'[t] \in 1..Len(Program(t)) + 1
        BY <1>2, <3>3
      <4>4. QED
        BY <2>3, <3>1, <4>2, <4>3
    <3>4. QED
      BY <3>1, <3>2, <3>3
  <2>4. QED
    BY <1>1, <2>1, <2>2, <2>3
<1>5. QED
  BY <1>1, <1>3, <1>4 DEF PlaceInv, Ended, Steps

\* What a step of any thread does, whichever call it is.
LEMMA AnyThread ==
  ASSUME TypeInv, NEW t \in Threads, Thread(t)
  PROVE  /\ status = "running" /\ Started(t) /\ ~Ended(t) /\ params' = params
         /\ UNCHANGED <<line, main, started, joined, rclcpp>>
         /\ Advance(t) \/ Leave(t) \/ Stays
<1>1. /\ status = "running" /\ Started(t) /\ ~Ended(t) /\ params' = params
      /\ UNCHANGED <<line, main, started, joined, rclcpp>>
  BY DEF Thread, ZeroHandle, MakeResource, AskFor, CallFails, GetInstance, Add,
     ReleaseResource, ReleaseFails, ReleaseNothing, GoesWild, WildUse, WildCall,
     UseReturns, At, control
<1>2. Recover(t) => Advance(t) \/ Leave(t) \/ Stays
  BY DEF Recover, Terminate, Stays
<1>3. GoesWild(t) => Stays
  BY DEF GoesWild, Stays
<1>4. Advance(t) \/ Leave(t) \/ Stays
  BY <1>2, <1>3 DEF Thread, ZeroHandle, MakeResource, AskFor, CallFails,
     GetInstance, Add, ReleaseResource, ReleaseFails, ReleaseNothing, UseReturns
<1>5. QED
  BY <1>1, <1>4

\* The object and the table a thread is at work on.
Constructs(t, k) ==
  block[t] = MakeAt(t, k) /\ Steps(t) = Constructor[k][layer]
Listens(t, k) == block[t] = 3 /\ k = "sub" /\ Steps(t) = Listen[layer]
Measures(t, k) == block[t] = 4 /\ k = "sub" /\ Steps(t) = << Use >>
Destructs(t, k) ==
  block[t] = DropAt(t, k) /\ Steps(t) = Destructor[k][layer]
AtWork(t, k) ==
  /\ Object(t) = <<t, k>>
  /\ Constructs(t, k) \/ Listens(t, k) \/ Measures(t, k) \/ Destructs(t, k)

\* A thread that has not ended is at work on one of its two objects.
LEMMA Working ==
  ASSUME TypeInv, NEW t \in Threads, ~Ended(t)
  PROVE  \E k \in Kinds : AtWork(t, k)
<1>1. layer \in LayerNames /\ block[t] \in 1..6
  BY Busy
<1>2. \A x, y, z : Block(x, y, z).steps = z /\ Block(x, y, z).object = <<x, y>>
  BY DEF Block
<1>3. "sub" \in Kinds
  BY DEF Kinds
<1>4. CASE block[t] = 3
  BY <1>1, <1>2, <1>3, <1>4, Blocks DEF AtWork, Listens, Object, Steps
<1>5. CASE block[t] = 4
  BY <1>1, <1>2, <1>3, <1>5, Blocks DEF AtWork, Measures, Object, Steps
<1>6. ASSUME NEW k \in Kinds, block[t] = MakeAt(t, k)
      PROVE  AtWork(t, k)
  BY <1>1, <1>2, <1>6, Blocks DEF AtWork, Constructs, Object, Steps
<1>7. ASSUME NEW k \in Kinds, block[t] = DropAt(t, k)
      PROVE  AtWork(t, k)
  BY <1>1, <1>2, <1>7, Blocks DEF AtWork, Destructs, Object, Steps
<1>8. QED
  BY <1>1, <1>4, <1>5, <1>6, <1>7, AllPlaces

\* What is known of the call a thread is about to make.
ConstructorCall(t, k) ==
  LET i == step[t]  G == Has[k][layer] IN
  /\ i \in 1..Len(Constructor[k][layer])
  /\ MakeShape(layer, Current(t))
  /\ MakeRow(k, layer, {}, Current(t), G[i], G[i + 1])

ListenCall(t) ==
  LET i == step[t]  G == Hears[layer] IN
  /\ i \in 1..Len(Listen[layer])
  /\ MakeShape(layer, Current(t))
  /\ MakeRow("sub", layer, HasAll("sub", layer), Current(t), G[i], G[i + 1])

DestructorCall(t, k) ==
  LET i == step[t]  n == Len(Destructor[k][layer])
      A == Live[k][layer]  U == Shut[k][layer] IN
  /\ i \in 1..n
  /\ DropShape(layer, Current(t)) /\ LetGo(Current(t), i, n)
  /\ DropRow(Current(t), A[i], U[i], A[i + 1], U[i + 1])
  /\ Closed(layer, A[i + 1]) /\ Apart(A[1], A[i], U[i])

\* The call a thread is about to make is one of its table, in its row.
LEMMA Calls ==
  ASSUME TypeInv, NEW t \in Threads, ~Ended(t), NEW k \in Kinds, AtWork(t, k)
  PROVE  /\ Constructs(t, k) => ConstructorCall(t, k)
         /\ Listens(t, k) => ListenCall(t)
         /\ Measures(t, k) => Current(t) = Use
         /\ Destructs(t, k) => DestructorCall(t, k)
<1>1. layer \in LayerNames /\ step[t] \in 1..Len(Steps(t))
  BY Busy
<1>2. ASSUME Constructs(t, k)
      PROVE  ConstructorCall(t, k)
  BY <1>1, <1>2, Outlines DEF Constructs, ConstructorCall, Makes, Current
<1>3. ASSUME Listens(t, k)
      PROVE  ListenCall(t)
  BY <1>1, <1>3, Listening DEF Listens, ListenCall, Makes, Current
<1>4. ASSUME Measures(t, k)
      PROVE  Current(t) = Use
  BY <1>1, <1>4 DEF Measures, Current
<1>5. ASSUME Destructs(t, k)
      PROVE  DestructorCall(t, k)
  BY <1>1, <1>5, Outlines DEF Destructs, DestructorCall, Drops, Current
<1>6. QED
  BY <1>2, <1>3, <1>4, <1>5

\* The calls of the methods that make an object.
MakingOps == {"zero", "make", "ask", "instance", "add"}

\* Each kind of call belongs to one kind of method.
LEMMA CallKinds ==
  ASSUME TypeInv, NEW t \in Threads, ~Ended(t), NEW k \in Kinds, AtWork(t, k)
  PROVE  /\ Current(t).op \in MakingOps => Constructs(t, k) \/ Listens(t, k)
         /\ Current(t).op \in Releases => Destructs(t, k)
         /\ Current(t).op = "use" => Measures(t, k)
<1>1. Constructs(t, k) => Current(t).op \in MakingOps
  BY Calls DEF ConstructorCall, MakeShape, MakingOps
<1>2. Listens(t, k) => Current(t).op \in MakingOps
  BY Calls DEF ListenCall, MakeShape, MakingOps
<1>3. Measures(t, k) => Current(t).op = "use"
  BY Calls DEF Use, Step
<1>4. Destructs(t, k) => Current(t).op \in Releases
  BY Calls DEF DestructorCall, DropShape
<1>5. "use" \notin MakingOps \cup Releases /\ MakingOps \cap Releases = {}
  BY DEF MakingOps, Releases
<1>6. QED
  BY <1>1, <1>2, <1>3, <1>4, <1>5 DEF AtWork

\* What a call may be about, besides a resource.
Other == {"qos", "graph", "type_support"}

\* What a call is about.
LEMMA CallTyped ==
  ASSUME TypeInv, NEW t \in Threads, ~Ended(t)
  PROVE  /\ Object(t) \in Objects
         /\ Current(t).op \in MakingOps \cup Releases =>
              Current(t).resource \in Resources \cup Other
<1>1. PICK k \in Kinds : AtWork(t, k)
  BY Working
<1>2. Object(t) = <<t, k>>
  BY <1>1 DEF AtWork
<1>3. Constructs(t, k) \/ Listens(t, k) => Current(t).resource \in Resources \cup Other
  BY <1>1, Calls DEF ConstructorCall, ListenCall, MakeShape, Other
<1>4. Destructs(t, k) => Current(t).resource \in Resources \cup Other
  BY <1>1, Calls DEF DestructorCall, DropShape
<1>5. QED
  BY <1>1, <1>2, <1>3, <1>4, CallKinds DEF Objects, Kinds

\* What is recorded of failures.
FailedTyped ==
  failed \subseteq Objects
    \X {"make", "ask", "instance", "add", "release", "shutdown", "finalise"}
    \X (Resources \cup Other)

\* What is recorded of a failed call.
LEMMA FailsTyped ==
  ASSUME TypeInv, NEW t \in Threads, ~Ended(t), Fails(t),
         Current(t).op \in {"make", "ask", "instance", "add"} \cup Releases
  PROVE  FailedTyped'
<1>1. FailedTyped
  BY DEF TypeInv, TypeOK, FailedTyped, Other
<1>2. Object(t) \in Objects /\ Current(t).resource \in Resources \cup Other
  BY CallTyped DEF MakingOps
<1>3. CASE failed' = failed
  BY <1>1, <1>3 DEF FailedTyped
<1>4. CASE failed' = failed \cup {<<Object(t), Current(t).op, Current(t).resource>>}
  <2>1. Current(t).op \in {"make", "ask", "instance", "add", "release",
                           "shutdown", "finalise"}
    BY DEF Releases
  <2>2. QED
    BY <1>1, <1>2, <1>4, <2>1 DEF FailedTyped
<1>5. QED
  BY <1>3, <1>4 DEF Fails

\* The executors.
SharedTyped ==
  /\ instance \in Objects \cup {<< >>}
  /\ executor \in [Objects -> Objects \cup {<< >>}]
  /\ added \in [Objects -> Objects \cup {<< >>}]

\* The types of the objects.
LEMMA StateTyped ==
  ASSUME TypeInv
  PROVE  state \in [Objects -> [Resources -> States]] /\ SharedTyped /\ FailedTyped
  BY DEF TypeInv, TypeOK, States, SharedTyped, FailedTyped, Other

\* The states after a handle is assigned.
LEMMA Becoming ==
  ASSUME TypeInv, NEW t \in Threads, ~Ended(t), NEW s \in States, Becomes(t, s)
  PROVE  /\ state' \in [Objects -> [Resources -> States]]
         /\ \A p \in Objects : p # Object(t) => state'[p] = state[p]
         /\ \A q \in Resources : state'[Object(t)][q] =
              IF q = Current(t).resource THEN s ELSE state[Object(t)][q]
<1>1. Object(t) \in Objects
  BY CallTyped
<1>2. state' = [state EXCEPT ![Object(t)][Current(t).resource] = s]
  BY DEF Becomes
<1>3. state \in [Objects -> [Resources -> States]]
  BY StateTyped
<1> DEFINE o == Object(t)
           r == Current(t).resource
<1>4. o \in Objects /\ state' = [state EXCEPT ![o][r] = s]
  BY <1>1, <1>2
<1> HIDE DEF o, r
<1>5. QED
  <2> DEFINE h == [state[o] EXCEPT ![r] = s]
  <2>1. h \in [Resources -> States]
        /\ \A q \in Resources : h[q] = IF q = r THEN s ELSE state[o][q]
    BY <1>3, <1>4
  <2>2. state' = [state EXCEPT ![o] = h]
    BY <1>4
  <2> HIDE DEF h
  <2>3. state' \in [Objects -> [Resources -> States]] /\ state'[o] = h
        /\ \A p \in Objects : p # o => state'[p] = state[p]
    BY <1>3, <1>4, <2>1, <2>2
  <2>4. QED
    BY <2>1, <2>3 DEF o, r

\* The states after a release.
LEMMA Releasing ==
  ASSUME TypeInv, NEW t \in Threads, ~Ended(t), ReleaseResource(t)
  PROVE  /\ state' \in [Objects -> [Resources -> States]]
         /\ \A p \in Objects : p # Object(t) => state'[p] = state[p]
         /\ \A q \in Resources : state'[Object(t)][q] =
              IF \/ q = Current(t).resource
                 \/ q \in Current(t).also /\ state[Object(t)][q] = "live"
              THEN After(t) ELSE state[Object(t)][q]
<1> DEFINE o == Object(t)
           g == [r \in Resources |->
                   IF r = Current(t).resource
                      \/ (r \in Current(t).also /\ state[o][r] = "live")
                   THEN After(t) ELSE state[o][r]]
<1>1. o \in Objects
  BY CallTyped
<1>2. state \in [Objects -> [Resources -> States]]
  BY StateTyped
<1>3. state' = [state EXCEPT ![o] = g]
  BY DEF ReleaseResource
<1>4. After(t) \in States
  BY DEF After, States
<1>5. g \in [Resources -> States]
  BY <1>1, <1>2, <1>4
<1>6. state' \in [Objects -> [Resources -> States]] /\ state'[o] = g
      /\ \A p \in Objects : p # o => state'[p] = state[p]
  <2> HIDE DEF g, o
  <2>1. QED
    BY <1>1, <1>2, <1>3, <1>5
<1>7. QED
  BY <1>6

\* A step of a thread preserves the types.
LEMMA ThreadType ==
  ASSUME TypeInv, NEW t \in Threads, Thread(t)
  PROVE  TypeInv'
<1>1. /\ status = "running" /\ ~Ended(t) /\ params' = params
      /\ UNCHANGED <<line, main, started, joined, rclcpp>>
      /\ Advance(t) \/ Leave(t) \/ Stays
  BY AnyThread
<1>2. PlaceInv'
  BY <1>1, Moved, Kept
<1>3. state \in [Objects -> [Resources -> States]] /\ SharedTyped /\ FailedTyped
  BY StateTyped
<1>4. Advance(t) \/ Leave(t) => status' = status
  BY Advancing, Leaving
<1>5. Object(t) \in Objects
  BY <1>1, CallTyped
<1>6. {"null", "live"} \subseteq States
  BY DEF States
<1> DEFINE R == /\ state' \in [Objects -> [Resources -> States]]
                /\ SharedTyped' /\ FailedTyped'
                /\ status' \in {"running", "terminated", "undefined"}
<1> SUFFICES R
  BY <1>1, <1>2 DEF TypeInv, TypeOK, PlaceInv, SharedTyped, FailedTyped,
     States, Other
<1>7. CASE ZeroHandle(t)
  <2>1. state' \in [Objects -> [Resources -> States]]
    BY <1>1, <1>6, <1>7, Becoming DEF ZeroHandle
  <2>2. QED
    BY <1>1, <1>3, <1>4, <1>7, <2>1 DEF ZeroHandle, shared, SharedTyped, FailedTyped
<1>8. CASE MakeResource(t)
  <2>1. state' \in [Objects -> [Resources -> States]]
    BY <1>1, <1>6, <1>8, Becoming DEF MakeResource
  <2>2. QED
    BY <1>1, <1>3, <1>4, <1>8, <2>1 DEF MakeResource, shared, SharedTyped, FailedTyped
<1>9. CASE AskFor(t)
  BY <1>1, <1>3, <1>4, <1>9 DEF AskFor, shared, SharedTyped, FailedTyped
<1>10. Recover(t) => status' \in {"running", "terminated"}
  BY <1>1, <1>4 DEF Recover, Terminate
<1>11. CASE CallFails(t)
  <2>1. Current(t).op \in {"make", "ask", "instance", "add"}
    BY <1>11 DEF CallFails, At
  <2>2. state' \in [Objects -> [Resources -> States]]
    BY <1>1, <1>3, <1>6, <1>11, Becoming DEF CallFails
  <2>3. FailedTyped'
    BY <1>1, <1>11, <2>1, FailsTyped DEF CallFails
  <2>4. QED
    BY <1>3, <1>10, <1>11, <2>2, <2>3 DEF CallFails, shared, SharedTyped
<1>12. CASE GetInstance(t)
  <2>1. state' \in [Objects -> [Resources -> States]]
    BY <1>1, <1>6, <1>12, Becoming DEF GetInstance
  <2>2. SharedTyped'
    BY <1>3, <1>5, <1>12 DEF GetInstance, SharedTyped
  <2>3. QED
    BY <1>1, <1>3, <1>4, <1>12, <2>1, <2>2 DEF GetInstance, FailedTyped
<1>13. CASE Add(t)
  <2>1. SharedTyped'
    BY <1>3, <1>5, <1>13 DEF Add, SharedTyped
  <2>2. QED
    BY <1>1, <1>3, <1>4, <1>13, <2>1 DEF Add, FailedTyped
<1>14. CASE ReleaseResource(t)
  <2>1. state' \in [Objects -> [Resources -> States]]
    BY <1>1, <1>14, Releasing
  <2>2. QED
    BY <1>1, <1>3, <1>4, <1>14, <2>1
       DEF ReleaseResource, shared, SharedTyped, FailedTyped
<1>15. CASE ReleaseFails(t)
  <2>1. Current(t).op \in Releases
    BY <1>15 DEF ReleaseFails, At
  <2>2. FailedTyped'
    BY <1>1, <1>15, <2>1, FailsTyped DEF ReleaseFails
  <2>3. QED
    BY <1>3, <1>10, <1>15, <2>2 DEF ReleaseFails, shared, SharedTyped
<1>16. CASE ReleaseNothing(t)
  BY <1>1, <1>3, <1>4, <1>16 DEF ReleaseNothing, shared, SharedTyped, FailedTyped
<1>17. CASE GoesWild(t)
  BY <1>3, <1>17 DEF GoesWild, shared, SharedTyped, FailedTyped
<1>18. CASE UseReturns(t)
  BY <1>1, <1>3, <1>4, <1>18 DEF UseReturns, shared, SharedTyped, FailedTyped
<1>19. QED
  BY <1>7, <1>8, <1>9, <1>11, <1>12, <1>13, <1>14, <1>15, <1>16, <1>17, <1>18
     DEF Thread

\* Every step preserves the types.
LEMMA TypeStep ==
  ASSUME TypeInv, [Next]_vars
  PROVE  TypeInv'
<1>1. ASSUME NEW t \in Threads, Thread(t)
      PROVE  TypeInv'
  BY <1>1, ThreadType
<1>2. ASSUME UNCHANGED <<line, params, block, step, state, shared, status, failed>>
      PROVE  PlaceInv'
  BY <1>2, Kept DEF Stays
<1>3. params \in Params /\ started \in 0..Len(ThreadsOf(params)) /\ joined \in 0..started
      /\ Len(ThreadsOf(params)) \in 0..2
  BY ThreadLists DEF TypeInv, TypeOK
<1>4. CASE InitRclcpp
  <2>1. PlaceInv'
    BY <1>2, <1>4 DEF InitRclcpp
  <2>2. QED
    BY <1>4, <2>1 DEF InitRclcpp, TypeInv, TypeOK, PlaceInv, shared
<1>5. CASE Start
  <2>1. PlaceInv'
    BY <1>2, <1>5 DEF Start
  <2>2. started' \in 0..Len(ThreadsOf(params)) /\ joined \in 0..started'
    BY <1>3, <1>5 DEF Start
  <2>3. QED
    BY <1>5, <2>1, <2>2 DEF Start, TypeInv, TypeOK, PlaceInv, shared
<1>6. CASE Join
  <2>1. PlaceInv'
    BY <1>2, <1>6 DEF Join
  <2>2. joined' \in 0..started
    BY <1>3, <1>6 DEF Join
  <2>3. QED
    BY <1>6, <2>1, <2>2 DEF Join, TypeInv, TypeOK, PlaceInv, shared
<1>7. CASE ShutdownRclcpp
  <2>1. PlaceInv'
    BY <1>2, <1>7 DEF ShutdownRclcpp
  <2>2. QED
    BY <1>7, <2>1 DEF ShutdownRclcpp, TypeInv, TypeOK, PlaceInv, shared
<1>8. CASE UNCHANGED vars
  <2>1. PlaceInv'
    BY <1>2, <1>8 DEF vars, control
  <2>2. QED
    BY <1>8, <2>1 DEF vars, control, shared, TypeInv, TypeOK, PlaceInv
<1>9. QED
  BY <1>1, <1>4, <1>5, <1>6, <1>7, <1>8 DEF Next, Main, Halted

\* The types are an invariant.
LEMMA TypeAlways == Spec => []TypeInv
  BY InitType, TypeStep, PTL DEF Spec

\* Every variable of two_way has its type: in particular no thread of pong() or
\* ping() runs beyond the end of its function or of a method.
THEOREM TypeCorrect == Spec => []TypeOK
<1>1. TypeInv => TypeOK
  BY DEF TypeInv
<1>2. QED
  BY <1>1, TypeAlways, PTL

-----------------------------------------------------------------------------
(* What a step of a thread changes.                                         *)

\* Nothing is shut down or released but by a destructor.
LEMMA OnlyReleases ==
  ASSUME TypeInv, NEW t \in Threads, Thread(t), Current(t).op \notin Releases
  PROVE  /\ \A p \in Objects : p # Object(t) => state'[p] = state[p]
         /\ \A q \in Resources :
              state'[Object(t)][q] \in {state[Object(t)][q], "null", "live"}
<1>1. ~Ended(t)
  BY AnyThread
<1>2. {"null", "live"} \subseteq States
  BY DEF States
<1>3. CASE state' = state
  BY <1>3
<1>4. CASE \E s \in {"null", "live"} : Becomes(t, s)
  BY <1>1, <1>2, <1>4, Becoming
<1>5. CASE ReleaseResource(t)
  BY <1>5 DEF ReleaseResource, At
<1>6. QED
  BY <1>3, <1>4, <1>5 DEF Thread, ZeroHandle, MakeResource, AskFor, CallFails,
     GetInstance, Add, ReleaseFails, ReleaseNothing, GoesWild, UseReturns

\* A step of a thread changes one object, and its own place.
LEMMA Frame ==
  ASSUME TypeInv, NEW t \in Threads, Thread(t), NEW k \in Kinds, AtWork(t, k)
  PROVE  /\ layer \in LayerNames
         /\ \A p \in Objects : p # <<t, k>> => state'[p] = state[p]
         /\ OnlyMoves(t)
         /\ Stays \/ NextCall(t) \/ NextBlock(t)
         /\ block[t] <= DropAt(t, k)
         /\ block[t] # DropAt(t, k) =>
              /\ Current(t).op \notin Releases
              /\ \A q \in Resources :
                   state'[<<t, k>>][q] \in {state[<<t, k>>][q], "null", "live"}
<1>1. ~Ended(t) /\ (Advance(t) \/ Leave(t) \/ Stays)
  BY AnyThread
<1>2. layer \in LayerNames
  BY <1>1, Busy
<1>3. Object(t) = <<t, k>>
  BY DEF AtWork
<1>4. block[t] <= DropAt(t, k)
  BY Places DEF AtWork, Constructs, Listens, Measures, Destructs
<1>5. Stays => OnlyMoves(t)
  BY DEF Stays, OnlyMoves
<1>6. OnlyMoves(t) /\ (Stays \/ NextCall(t) \/ NextBlock(t))
  BY <1>1, <1>5, Advancing, Leaving
<1>7. block[t] # DropAt(t, k) => Current(t).op \notin Releases
  BY <1>1, CallKinds DEF Destructs
<1>8. \A p \in Objects : p # <<t, k>> => state'[p] = state[p]
  <2>1. CASE Current(t).op \notin Releases
    BY <1>3, <2>1, OnlyReleases
  <2>2. CASE ReleaseResource(t)
    BY <1>1, <1>3, <2>2, Releasing
  <2>3. CASE Current(t).op \in Releases /\ ~ReleaseResource(t)
    <3>1. Current(t).op \notin MakingOps
      BY <2>3 DEF Releases, MakingOps
    <3>2. state' = state
      BY <2>3, <3>1 DEF Thread, ZeroHandle, MakeResource, AskFor, CallFails,
         GetInstance, Add, ReleaseFails, ReleaseNothing, GoesWild, UseReturns,
         At, MakingOps
    <3>3. QED
      BY <3>2
  <2>4. QED
    BY <2>1, <2>2, <2>3
<1>9. QED
  BY <1>2, <1>3, <1>4, <1>6, <1>7, <1>8, OnlyReleases

-----------------------------------------------------------------------------
(* The order of releases.                                                   *)

\* With the calls before the i-th of its destructor made, what an object has
\* given up is not live any more, but for the array, whose release may fail
\* unseen, and what it has not given up is still there.
Ordered(t, k, i) == \A r \in Resources :
  /\ state[<<t, k>>][r] \in {"shut", "gone"} => r \notin Live[k][layer][i]
  /\ r \in Live[k][layer][1] \ Live[k][layer][i] /\ r # "array" =>
       state[<<t, k>>][r] # "live"

\* A destructor that returns early leaves the object as it is.
ObjectOrder(t, k) ==
  LET n == Len(Destructor[k][layer]) IN
  /\ block[t] < DropAt(t, k) =>
       \A r \in Resources : state[<<t, k>>][r] \notin {"shut", "gone"}
  /\ block[t] = DropAt(t, k) => Ordered(t, k, step[t])
  /\ block[t] > DropAt(t, k) =>
       /\ \E i \in 1..n + 1 : Ordered(t, k, i)
       /\ layer = "rclcpp" => Ordered(t, k, n + 1)

\* Each object is released in order.
OrderInv ==
  layer \in LayerNames => \A t \in Threads, k \in Kinds : ObjectOrder(t, k)

\* Ordered depends on the states of the object only.
LEMMA OrderedKept ==
  ASSUME params' = params, NEW t, NEW k, state'[<<t, k>>] = state[<<t, k>>], NEW i,
         Ordered(t, k, i)
  PROVE  Ordered(t, k, i)'
  BY DEF Ordered, layer

\* So does the order of its releases, as long as its thread stays where it is.
LEMMA OrderKept ==
  ASSUME params' = params, NEW t, NEW k, state'[<<t, k>>] = state[<<t, k>>],
         block'[t] = block[t], step'[t] = step[t], ObjectOrder(t, k)
  PROVE  ObjectOrder(t, k)'
<1>1. DropAt(t, k)' = DropAt(t, k) /\ layer' = layer
  BY DEF DropAt, layer
<1>2. \A i : Ordered(t, k, i)' <=> Ordered(t, k, i)
  BY DEF Ordered, layer
<1>3. QED
  BY <1>1, <1>2 DEF ObjectOrder

\* A step outside the destructor of the object, which may enter it.
LEMMA OrderOutside ==
  ASSUME TypeInv, layer \in LayerNames, params' = params,
         NEW t \in Threads, NEW k \in Kinds,
         ObjectOrder(t, k), block[t] # DropAt(t, k),
         block'[t] = block[t] \/ NextBlock(t),
         block[t] < DropAt(t, k) => \A q \in Resources :
           state'[<<t, k>>][q] \in {state[<<t, k>>][q], "null", "live"},
         block[t] > DropAt(t, k) => state'[<<t, k>>] = state[<<t, k>>]
  PROVE  ObjectOrder(t, k)'
<1>1. DropAt(t, k)' = DropAt(t, k) /\ layer' = layer /\ DropAt(t, k) \in {5, 6}
  BY Places DEF DropAt, layer
<1>2. block[t] \in Nat
  BY DEF TypeInv, PlaceInv
<1>3. CASE block[t] < DropAt(t, k)
  <2>1. \A r \in Resources : state'[<<t, k>>][r] \notin {"shut", "gone"}
    BY <1>3 DEF ObjectOrder
  <2>2. block'[t] <= DropAt(t, k)
        /\ (block'[t] = DropAt(t, k) => step'[t] = 1)
    BY <1>1, <1>2, <1>3 DEF NextBlock
  <2>3. Ordered(t, k, 1)'
    BY <1>1, <2>1 DEF Ordered
  <2>4. block'[t] = DropAt(t, k)' => Ordered(t, k, step[t])'
    BY <1>1, <2>2, <2>3
  <2>5. ~(block'[t] > DropAt(t, k))
    BY <1>1, <1>2, <1>3, <2>2 DEF NextBlock
  <2>6. QED
    BY <1>1, <2>1, <2>4, <2>5 DEF ObjectOrder
<1>4. CASE block[t] > DropAt(t, k)
  <2>1. block'[t] > DropAt(t, k)
    BY <1>1, <1>2, <1>4 DEF NextBlock
  <2>2. \A i : Ordered(t, k, i) => Ordered(t, k, i)'
    BY <1>4, OrderedKept
  <2>3. ~(block'[t] < DropAt(t, k)) /\ block'[t] # DropAt(t, k)
    BY <1>1, <1>2, <1>4 DEF NextBlock
  <2>4. QED
    BY <1>1, <1>4, <2>1, <2>2, <2>3 DEF ObjectOrder
<1>5. QED
  BY <1>1, <1>2, <1>3, <1>4

\* One call of a destructor that has gone well, or had nothing to do.
LEMMA OrderedNext ==
  ASSUME params' = params, NEW t, NEW k, NEW i, Ordered(t, k, i),
         NEW c, NEW U, NEW V,
         DropRow(c, Live[k][layer][i], U, Live[k][layer][i + 1], V),
         Apart(Live[k][layer][1], Live[k][layer][i], U),
         c.op \in Releases,
         \A q \in Resources :
           \/ state'[<<t, k>>][q] = state[<<t, k>>][q]
           \/ q \in {c.resource} \cup c.also
              /\ state'[<<t, k>>][q] \in {"shut", "gone"},
         c.op # "finalise" => \A q \in ({c.resource} \cup c.also) \ {"array"} :
           state'[<<t, k>>][q] # "live"
  PROVE  Ordered(t, k, i + 1)'
<1> DEFINE o == <<t, k>>  A == Live[k][layer]  Gone == {c.resource} \cup c.also
<1>1. layer' = layer
  BY DEF layer
<1>2. ASSUME NEW q \in Resources, state'[o][q] \in {"shut", "gone"}
      PROVE  q \notin A[i + 1]
  <2>1. CASE state'[o][q] = state[o][q]
    BY <1>2, <2>1 DEF Ordered, DropRow, Releases
  <2>2. CASE q \in Gone
    BY <2>2 DEF DropRow, Releases, Apart
  <2>3. QED
    BY <2>1, <2>2
<1>3. ASSUME NEW q \in Resources, q \in A[1] \ A[i + 1], q # "array"
      PROVE  state'[o][q] # "live"
  <2>1. CASE q \in A[i]
    BY <1>3, <2>1 DEF DropRow, Releases
  <2>2. CASE q \notin A[i]
    BY <1>3, <2>2 DEF Ordered
  <2>3. QED
    BY <2>1, <2>2
<1>4. QED
  BY <1>1, <1>2, <1>3 DEF Ordered

\* A step of a destructor keeps to the order, whether or not its call fails.
LEMMA OrderDestructs ==
  ASSUME TypeInv, NEW t \in Threads, Thread(t), NEW k \in Kinds, AtWork(t, k),
         block[t] = DropAt(t, k), ObjectOrder(t, k)
  PROVE  ObjectOrder(t, k)'
<1> SUFFICES ASSUME NEW i, i = step[t], NEW n, n = Len(Destructor[k][layer])
             PROVE  ObjectOrder(t, k)'
  OBVIOUS
<1> DEFINE o == <<t, k>>
           c == Current(t)
           A == Live[k][layer]
<1>1. /\ status = "running" /\ ~Ended(t) /\ params' = params
      /\ Advance(t) \/ Leave(t) \/ Stays
  BY AnyThread
<1>2. Destructs(t, k)
  BY Places DEF AtWork, Constructs, Listens, Measures
<1>3. DestructorCall(t, k) /\ Steps(t) = Destructor[k][layer]
  BY <1>1, <1>2, Calls DEF Destructs
<1>4. i \in 1..n /\ n \in Nat /\ block[t] \in Nat /\ DropAt(t, k) \in {5, 6}
  <2>1. n \in 1..8
    BY <1>1, <1>3, Busy
  <2>2. QED
    BY <1>3, <2>1, Places DEF DestructorCall, TypeInv, PlaceInv
<1>5. /\ layer' = layer /\ DropAt(t, k)' = DropAt(t, k)
      /\ Object(t) = o /\ c.op \in Releases
  BY <1>1, <1>3 DEF AtWork, layer, DropAt, DestructorCall, DropShape
<1>6. Ordered(t, k, i)
  BY DEF ObjectOrder
<1>7. /\ DropRow(c, A[i], Shut[k][layer][i], A[i + 1], Shut[k][layer][i + 1])
      /\ Apart(A[1], A[i], Shut[k][layer][i])
      /\ DropShape(layer, c) /\ LetGo(c, i, n)
  BY <1>3 DEF DestructorCall
<1>8. c.op \notin MakingOps /\ c.op # "use"
  BY <1>5 DEF Releases, MakingOps
<1>9. i < n => c.also = {} /\ (c.onFail = "go on" => c.resource = "array")
  <2>1. i < n => i # n
    BY <1>4
  <2> HIDE DEF c
  <2>2. QED
    BY <1>7, <2>1 DEF LetGo
\* What is to be shown of the step.
<1>10. ASSUME NextCall(t), Ordered(t, k, i + 1)'
      PROVE  ObjectOrder(t, k)'
  BY <1>4, <1>5, <1>10 DEF ObjectOrder, NextCall
<1>11. ASSUME NextBlock(t), NEW j \in 1..n + 1, Ordered(t, k, j)',
              layer = "rclcpp" => Ordered(t, k, n + 1)'
       PROVE  ObjectOrder(t, k)'
  <2>1. block'[t] > DropAt(t, k) /\ ~(block'[t] < DropAt(t, k))
        /\ block'[t] # DropAt(t, k)
    BY <1>4, <1>11 DEF NextBlock
  <2>2. QED
    BY <1>5, <1>11, <2>1 DEF ObjectOrder
<1>12. ASSUME Advance(t), Ordered(t, k, i + 1)'
       PROVE  ObjectOrder(t, k)'
  <2>1. NextCall(t) \/ (i = n /\ NextBlock(t))
    BY <1>3, <1>12, Advancing
  <2>2. n + 1 \in 1..n + 1
    BY <1>4
  <2>3. QED
    BY <1>10, <1>11, <1>12, <2>1, <2>2
<1>13. ASSUME state' = state, NextBlock(t), layer # "rclcpp"
       PROVE  ObjectOrder(t, k)'
  <2>1. Ordered(t, k, i)'
    BY <1>1, <1>6, <1>13, OrderedKept
  <2>2. i \in 1..n + 1
    BY <1>4
  <2>3. QED
    BY <1>11, <1>13, <2>1, <2>2
<1>14. ASSUME state' = state, c.also = {},
              c.op = "finalise" \/ c.resource = "array"
                \/ state[o][c.resource] # "live"
       PROVE  Ordered(t, k, i + 1)'
  <2>1. \A q \in Resources : state'[o][q] = state[o][q]
    BY <1>14
  <2>2. c.op # "finalise" => \A q \in ({c.resource} \cup c.also) \ {"array"} :
          state'[o][q] # "live"
    BY <1>14
  <2> HIDE DEF c
  <2>3. QED
    BY <1>1, <1>5, <1>6, <1>7, <2>1, <2>2, OrderedNext
<1>15. CASE ReleaseResource(t)
  <2>1. After(t) \in {"shut", "gone"} /\ Advance(t)
    BY <1>15 DEF After, ReleaseResource
  <2>2. \A q \in Resources : state'[o][q] =
          IF q = c.resource \/ (q \in c.also /\ state[o][q] = "live")
          THEN After(t) ELSE state[o][q]
    BY <1>1, <1>5, <1>15, Releasing
  <2>3. {c.resource} \cup c.also \subseteq Resources
    BY <1>7 DEF DropShape, DropRow, Apart
  <2>4. \A q \in Resources :
          \/ state'[o][q] = state[o][q]
          \/ q \in {c.resource} \cup c.also /\ state'[o][q] \in {"shut", "gone"}
    BY <2>1, <2>2
  <2>5. \A q \in {c.resource} \cup c.also : state'[o][q] # "live"
    BY <2>1, <2>2, <2>3
  <2>6. Ordered(t, k, i + 1)'
    <3> HIDE DEF c
    <3>1. QED
      BY <1>1, <1>5, <1>6, <1>7, <2>4, <2>5, OrderedNext
  <2>7. QED
    BY <1>12, <2>1, <2>6
<1>16. CASE ReleaseFails(t)
  <2>1. state' = state /\ Recover(t)
    BY <1>16 DEF ReleaseFails
  <2>2. c.onFail \in {"go on", "return"}
    BY <1>7, <2>1 DEF Recover, DropShape
  <2>3. layer # "rclcpp"
    BY <1>7, <2>2 DEF DropShape
  <2>4. CASE NextBlock(t)
    BY <1>13, <2>1, <2>3, <2>4
  <2>5. CASE Advance(t) /\ c.onFail = "go on" /\ ~NextBlock(t)
    <3>1. i < n /\ NextCall(t)
      BY <1>3, <2>5, Advancing
    <3>2. c.also = {} /\ c.resource = "array"
      BY <1>9, <2>5, <3>1
    <3>3. QED
      BY <1>10, <1>14, <2>1, <3>1, <3>2
  <2>6. QED
    BY <2>1, <2>2, <2>4, <2>5, Leaving DEF Recover
<1>17. CASE ReleaseNothing(t)
  <2>1. state' = state
    BY <1>17 DEF ReleaseNothing
  <2>2. c.op = "finalise" \/ state[o][c.resource] # "live"
    BY <1>5, <1>17 DEF ReleaseNothing, Of, Before
  <2>3. CASE NextCall(t) /\ i < n
    BY <1>10, <1>14, <1>9, <2>1, <2>2, <2>3
  <2>4. CASE NextBlock(t) /\ layer # "rclcpp"
    BY <1>13, <2>1, <2>4
  <2>5. CASE Advance(t) /\ layer = "rclcpp"
    BY <1>7, <1>12, <1>14, <2>1, <2>2, <2>5 DEF DropShape
  <2>6. Advance(t) \/ (Leave(t) /\ layer # "rclcpp")
    BY <1>7, <1>17 DEF ReleaseNothing, DropShape
  <2>7. Advance(t) => (NextCall(t) /\ i < n) \/ NextBlock(t)
    BY <1>3, Advancing
  <2>8. QED
    BY <2>3, <2>4, <2>5, <2>6, <2>7, Leaving
<1>18. CASE GoesWild(t)
  BY <1>1, <1>18, OrderKept DEF GoesWild
<1>19. QED
  BY <1>8, <1>15, <1>16, <1>17, <1>18 DEF Thread, ZeroHandle, MakeResource, AskFor,
     CallFails, GetInstance, Add, UseReturns, At, MakingOps

\* The threads that have been joined have ended, those that are not started
\* have made nothing, and rclcpp's context outlives all of them.
ThreadInv ==
  /\ rclcpp = "down" => layer = "rclcpp" /\ joined = Len(ThreadsOf(params))
  /\ main = "ended" => joined = Len(ThreadsOf(params))
  /\ \A i \in 1..joined : Ended(ThreadsOf(params)[i])
  /\ \A t \in Threads : ~Started(t) =>
       /\ block[t] = 1 /\ step[t] = 1
       /\ \A k \in Kinds, r \in Resources : state[<<t, k>>][r] \in {"raw", "null"}

\* At the start no thread has done anything.
LEMMA ThreadInit == Init => ThreadInv
<1> SUFFICES ASSUME Init PROVE ThreadInv
  OBVIOUS
<1>1. rclcpp # "down" /\ main # "ended" /\ joined = 0 /\ started = 0
  BY DEF Init
<1>2. \A t \in Threads : block[t] = 1 /\ step[t] = 1
  BY DEF Init
<1>3. \A t \in Threads, k \in Kinds, r \in Resources :
        state[<<t, k>>][r] \in {"raw", "null"}
  BY DEF Init, Objects, Kinds
<1>4. 1..joined = {}
  BY <1>1
<1>5. QED
  BY <1>1, <1>2, <1>3, <1>4 DEF ThreadInv

\* Starting, joining and running the threads preserve ThreadInv.
LEMMA ThreadStep ==
  ASSUME TypeInv, ThreadInv, [Next]_vars
  PROVE  ThreadInv'
<1>1. /\ started \in 0..Len(ThreadsOf(params)) /\ joined \in 0..started
      /\ Len(ThreadsOf(params)) \in 0..2 /\ ThreadsOf(params) \in Seq(Threads)
  BY ThreadLists DEF TypeInv, TypeOK
<1>2. ASSUME UNCHANGED <<params, block, step, state>>, started' \in {started, started + 1}
      PROVE  /\ \A t \in Threads : Ended(t)' <=> Ended(t)
             /\ layer' = layer
             /\ \A t \in Threads : ~Started(t)' =>
                  /\ block'[t] = 1 /\ step'[t] = 1
                  /\ \A k \in Kinds, r \in Resources :
                       state'[<<t, k>>][r] \in {"raw", "null"}
  <2>1. \A t \in Threads : ~Started(t)' => ~Started(t)
    <3>1. 1..started \subseteq 1..started'
      BY <1>1, <1>2
    <3>2. QED
      BY <1>2, <3>1 DEF Started
  <2>2. QED
    BY <1>2, <2>1 DEF Ended, Program, layer, ThreadInv
<1>3. \A i \in 1..started : ThreadsOf(params)[i] \in Threads
  BY <1>1
<1>4. CASE InitRclcpp
  BY <1>1, <1>2, <1>3, <1>4 DEF InitRclcpp, ThreadInv, Ended, Program
<1>5. CASE Start
  BY <1>1, <1>2, <1>3, <1>5 DEF Start, ThreadInv, Ended, Program
<1>6. CASE Join
  <2>1. \A i \in 1..joined' : i \in 1..joined \/ i = joined + 1
    BY <1>1, <1>6 DEF Join
  <2>2. \A i \in 1..joined' : Ended(ThreadsOf(params)[i])'
    BY <1>6, <2>1 DEF Join, ThreadInv, Ended, Program
  <2>3. rclcpp' # "down"
    BY <1>1, <1>6 DEF Join, ThreadInv
  <2>4. QED
    BY <1>2, <1>6, <2>2, <2>3 DEF Join, ThreadInv
<1>7. CASE ShutdownRclcpp
  <2>1. rclcpp' = "down" => layer' = "rclcpp" /\ joined = Len(ThreadsOf(params))
    BY <1>7 DEF ShutdownRclcpp, ThreadInv, layer
  <2>2. QED
    BY <1>2, <1>7, <2>1 DEF ShutdownRclcpp, ThreadInv, Ended, Program
<1>8. CASE UNCHANGED vars
  BY <1>2, <1>8 DEF vars, control, ThreadInv, Ended, Program
<1>9. ASSUME NEW t \in Threads, Thread(t)
      PROVE  ThreadInv'
  <2>1. /\ Started(t) /\ ~Ended(t) /\ params' = params
        /\ UNCHANGED <<line, main, started, joined, rclcpp>>
    BY <1>9, AnyThread
  <2>2. PICK k \in Kinds : AtWork(t, k)
    BY <2>1, Working
  <2>3. OnlyMoves(t) /\ \A p \in Objects : p # <<t, k>> => state'[p] = state[p]
    BY <1>9, <2>2, Frame
  <2>4. \A u \in Threads : Started(u)' <=> Started(u)
    BY <2>1 DEF Started
  <2>5. \A u \in Threads \ {t} : Ended(u)' <=> Ended(u)
    BY <2>1, <2>3 DEF OnlyMoves, Ended, Program
  <2>6. ASSUME NEW u \in Threads, ~Started(u)
        PROVE  /\ block'[u] = 1 /\ step'[u] = 1
               /\ \A j \in Kinds, r \in Resources :
                    state'[<<u, j>>][r] \in {"raw", "null"}
    <3>1. u # t
      BY <2>1, <2>6
    <3>2. ASSUME NEW j \in Kinds
          PROVE  <<u, j>> \in Objects /\ <<u, j>> # <<t, k>>
      BY <3>1 DEF Objects, Kinds
    <3>3. QED
      BY <2>3, <2>6, <3>1, <3>2 DEF OnlyMoves, ThreadInv
  <2>7. \A i \in 1..joined : Ended(ThreadsOf(params)[i])'
    <3>1. ASSUME NEW i \in 1..joined
          PROVE  Ended(ThreadsOf(params)[i])'
      <4>1. ThreadsOf(params)[i] \in Threads \ {t}
        BY <1>1, <1>3, <2>1 DEF ThreadInv
      <4>2. QED
        BY <2>1, <2>5, <4>1 DEF ThreadInv
    <3>2. QED
      BY <3>1
  <2>8. QED
    BY <2>1, <2>4, <2>6, <2>7 DEF ThreadInv, layer
<1>10. QED
  BY <1>4, <1>5, <1>6, <1>7, <1>8, <1>9 DEF Next, Main, Halted

\* At the start nothing has been released.
LEMMA OrderInit == Init => OrderInv
<1> SUFFICES ASSUME Init, layer \in LayerNames, NEW t \in Threads, NEW k \in Kinds
             PROVE  ObjectOrder(t, k)
  BY DEF OrderInv
<1>1. block[t] = 1 /\ DropAt(t, k) \in {5, 6}
  BY Places DEF Init
<1>2. \A r \in Resources : state[<<t, k>>][r] \in {"raw", "null"}
  BY DEF Init, Objects, Kinds
<1>3. block[t] < DropAt(t, k) /\ block[t] # DropAt(t, k) /\ ~(block[t] > DropAt(t, k))
  BY <1>1
<1>4. QED
  BY <1>2, <1>3 DEF ObjectOrder

\* Every step keeps to the order of releases.
LEMMA OrderStep ==
  ASSUME TypeInv, OrderInv, [Next]_vars
  PROVE  OrderInv'
<1> SUFFICES ASSUME layer' \in LayerNames, NEW u \in Threads, NEW j \in Kinds
             PROVE  ObjectOrder(u, j)'
  BY DEF OrderInv
<1>1. CASE UNCHANGED <<params, block, step, state>>
  <2>1. ObjectOrder(u, j)
    BY <1>1 DEF OrderInv, layer
  <2>2. QED
    BY <1>1, <2>1, OrderKept
<1>2. ASSUME NEW t \in Threads, Thread(t)
      PROVE  ObjectOrder(u, j)'
  <2>1. ~Ended(t) /\ params' = params
    BY <1>2, AnyThread
  <2>2. PICK k \in Kinds : AtWork(t, k)
    BY <2>1, Working
  <2>3. layer \in LayerNames /\ ObjectOrder(u, j)
    BY <1>2, <2>2, Frame DEF OrderInv
  <2>4. /\ \A p \in Objects : p # <<t, k>> => state'[p] = state[p]
        /\ OnlyMoves(t)
        /\ Stays \/ NextCall(t) \/ NextBlock(t)
        /\ block[t] <= DropAt(t, k)
        /\ block[t] # DropAt(t, k) => \A q \in Resources :
             state'[<<t, k>>][q] \in {state[<<t, k>>][q], "null", "live"}
    BY <1>2, <2>2, Frame
  <2>5. <<u, j>> \in Objects
    BY DEF Objects, Kinds
  <2>6. CASE u # t
    BY <2>1, <2>3, <2>4, <2>5, <2>6, OrderKept DEF OnlyMoves
  <2>7. CASE u = t /\ j = k /\ block[t] = DropAt(t, k)
    BY <1>2, <2>2, <2>3, <2>7, OrderDestructs
  <2>8. block'[t] = block[t] \/ NextBlock(t)
    BY <2>4 DEF Stays, NextCall
  <2>9. CASE u = t /\ j = k /\ block[t] # DropAt(t, k)
    <3>1. ~(block[t] > DropAt(t, k))
      <4>1. block[t] \in Nat /\ DropAt(t, k) \in {5, 6}
        BY Places DEF TypeInv, PlaceInv
      <4>2. QED
        BY <2>4, <4>1
    <3>2. QED
      BY <2>1, <2>3, <2>4, <2>8, <2>9, <3>1, OrderOutside
  <2>10. CASE u = t /\ j # k
    <3>1. state'[<<t, j>>] = state[<<t, j>>]
      BY <2>4, <2>5, <2>10
    <3>2. block[t] # DropAt(t, j) \/ UNCHANGED <<block, step>>
      <4>1. block[t] = DropAt(t, j) => Object(t) = <<t, j>>
        <5>1. \A x, y, z : Block(x, y, z).object = <<x, y>>
          BY DEF Block
        <5>2. QED
          BY <2>3, <5>1, Blocks DEF Object
      <4>2. Object(t) = <<t, k>>
        BY <2>2 DEF AtWork
      <4>3. QED
        BY <2>10, <4>1, <4>2
    <3>3. CASE UNCHANGED <<block, step>>
      BY <2>1, <2>3, <2>10, <3>1, <3>3, OrderKept
    <3>4. CASE block[t] # DropAt(t, j)
      BY <2>1, <2>3, <2>8, <2>10, <3>1, <3>4, OrderOutside
    <3>5. QED
      BY <3>2, <3>3, <3>4
  <2>11. QED
    BY <2>6, <2>7, <2>9, <2>10
<1>3. QED
  BY <1>1, <1>2 DEF Next, Main, InitRclcpp, Start, Join, ShutdownRclcpp, Halted,
     vars, control

\* What is made is among what the destructor starts from.
LEMMA MadeFromLive ==
  ASSUME NEW k \in Kinds, NEW l \in LayerNames, NEW made \in Makers(k, l),
         NEW i \in 1..Len(made), made[i].op = "make"
  PROVE  /\ made[i].resource \in Live[k][l][1]
         /\ \A r \in made[i].from : <<made[i].resource, r>> \in MadeFrom[l]
<1>1. ASSUME NEW base, NEW G, Makes(k, l, base, made, G)
      PROVE  /\ made[i].resource \in Live[k][l][1]
             /\ \A r \in made[i].from : <<made[i].resource, r>> \in MadeFrom[l]
  <2>1. MakeShape(l, made[i]) /\ MakeRow(k, l, base, made[i], G[i], G[i + 1])
    BY <1>1 DEF Makes
  <2>2. QED
    BY <2>1 DEF MakeShape, MakeRow
<1>2. CASE made = Constructor[k][l]
  BY <1>1, <1>2, Outlines
<1>3. CASE k = "sub" /\ made = Listen[l]
  BY <1>1, <1>3, Listening
<1>4. QED
  BY <1>2, <1>3 DEF Makers

\* The rows of a destructor are closed under what things are made from.
LEMMA ClosedLive ==
  ASSUME NEW k \in Kinds, NEW l \in LayerNames,
         NEW i \in 1..Len(Destructor[k][l]) + 1
  PROVE  Closed(l, Live[k][l][i]) /\ Live[k][l][1] \subseteq Resources
<1> DEFINE n == Len(Destructor[k][l])
<1>1. n \in 1..8 /\ \A j \in 1..n :
        /\ Closed(l, Live[k][l][j]) /\ Closed(l, Live[k][l][j + 1])
        /\ Apart(Live[k][l][1], Live[k][l][j], Shut[k][l][j])
  BY Outlines DEF Drops
<1>2. 1 \in 1..n /\ (i \in 1..n \/ (n \in 1..n /\ i = n + 1))
  <2> HIDE DEF n
  <2>1. i \in 1..n + 1
    BY DEF n
  <2>2. QED
    BY <1>1, <2>1
<1>3. QED
  BY <1>1, <1>2 DEF Apart

\* What an invariant of the objects says about two resources of one of them.
LEMMA OrderHolds ==
  ASSUME TypeInv, OrderInv, layer \in LayerNames,
         NEW t \in Threads, NEW k \in Kinds,
         NEW q, NEW r, <<q, r>> \in MadeFrom[layer], q \in Live[k][layer][1],
         state[<<t, k>>][q] = "live"
  PROVE  state[<<t, k>>][r] \notin {"shut", "gone"}
<1> DEFINE n == Len(Destructor[k][layer])
<1>1. n \in 1..8 /\ block[t] \in Nat /\ step[t] \in Nat /\ DropAt(t, k) \in {5, 6}
  BY Outlines, Places DEF Drops, TypeInv, PlaceInv
<1>2. q # "array" /\ r \in Resources /\ q \in Resources
  <2>1. 1 \in 1..n + 1
    BY <1>1
  <2>2. r \in Live[k][layer][1] /\ q \in Resources /\ r \in Resources
    BY <2>1, ClosedLive DEF Closed
  <2>3. q # "array"
    BY DEF MadeFrom, Rcl, Rclcpp, Dds, LayerNames
  <2>4. QED
    BY <2>2, <2>3
<1>3. ASSUME NEW i \in 1..n + 1, Ordered(t, k, i)
      PROVE  state[<<t, k>>][r] \notin {"shut", "gone"}
  <2>1. q \in Live[k][layer][i]
    BY <1>2, <1>3 DEF Ordered
  <2>2. r \in Live[k][layer][i]
    BY <2>1, ClosedLive DEF Closed
  <2>3. QED
    BY <1>2, <1>3, <2>2 DEF Ordered
<1>4. ObjectOrder(t, k)
  BY DEF OrderInv
<1>5. CASE block[t] < DropAt(t, k)
  BY <1>2, <1>4, <1>5 DEF ObjectOrder
<1>6. CASE block[t] = DropAt(t, k)
  <2>1. Object(t) = <<t, k>> /\ Steps(t) = Destructor[k][layer]
    <3>1. \A x, y, z : Block(x, y, z).object = <<x, y>> /\ Block(x, y, z).steps = z
      BY DEF Block
    <3>2. QED
      BY <1>6, <3>1, Blocks DEF Object, Steps
  <2>2. ~Ended(t)
    BY <1>1, <1>6, Blocks DEF Ended
  <2>3. step[t] \in 1..n
    BY <2>1, <2>2, Busy
  <2>4. step[t] \in 1..n + 1
    BY <1>1, <2>3
  <2>5. QED
    BY <1>3, <1>4, <1>6, <2>4 DEF ObjectOrder
<1>7. CASE block[t] > DropAt(t, k)
  BY <1>3, <1>4, <1>7 DEF ObjectOrder
<1>8. QED
  BY <1>1, <1>5, <1>6, <1>7

\* rclcpp's destructors reset the node.
LEMMA NodesReset ==
  ASSUME NEW k \in Kinds
  PROVE  "node" \in Live[k]["rclcpp"][1]
                      \ Live[k]["rclcpp"][Len(Destructor[k]["rclcpp"]) + 1]
<1>1. /\ Len(RclcppSubscriberRelease) = 3 /\ Len(RclcppPublisherRelease) = 3
      /\ RclcppSubscriberLive[1] = {"node", "subscription", "executor", "callback"}
      /\ RclcppSubscriberLive[4] = {"callback"}
      /\ "node" \in RclcppPublisherLive[1] /\ RclcppPublisherLive[4] = {}
  BY DEF RclcppSubscriberRelease, RclcppPublisherRelease, RclcppSubscriberLive,
     RclcppPublisherLive
<1>2. /\ Live["sub"]["rclcpp"] = RclcppSubscriberLive
      /\ Live["pub"]["rclcpp"] = RclcppPublisherLive
      /\ Destructor["sub"]["rclcpp"] = RclcppSubscriberRelease
      /\ Destructor["pub"]["rclcpp"] = RclcppPublisherRelease
  BY DEF Live, Destructor
<1>3. /\ Len(Destructor["sub"]["rclcpp"]) = 3
      /\ Len(Destructor["pub"]["rclcpp"]) = 3
  BY <1>1, <1>2, Zenon
<1>4. Len(Destructor[k]["rclcpp"]) = 3
  BY <1>3, Zenon DEF Kinds
<1>5. Len(Destructor[k]["rclcpp"]) + 1 = 4
  BY <1>4
<1>6. QED
  BY <1>1, <1>2, <1>5 DEF Kinds

\* rclcpp's destructors do not fail.
LEMMA NodesGone ==
  ASSUME TypeInv, ThreadInv, OrderInv, rclcpp = "down",
         NEW t \in Threads, NEW k \in Kinds
  PROVE  state[<<t, k>>]["node"] # "live"
<1>1. /\ layer = "rclcpp" /\ layer \in LayerNames
      /\ joined = Len(ThreadsOf(params))
      /\ started \in 0..Len(ThreadsOf(params)) /\ joined \in 0..started
      /\ Len(ThreadsOf(params)) \in 0..2
  BY ThreadLists DEF ThreadInv, LayerNames, TypeInv, TypeOK
<1>2. "node" \in Resources
  BY DEF Resources
<1>3. CASE ~Started(t)
  BY <1>2, <1>3 DEF ThreadInv
<1>4. CASE Started(t)
  <2>1. Ended(t)
    <3>1. PICK i \in 1..started : ThreadsOf(params)[i] = t
      BY <1>4 DEF Started
    <3>2. i \in 1..joined
      BY <1>1
    <3>3. QED
      BY <3>1, <3>2 DEF ThreadInv
  <2>2. block[t] > DropAt(t, k)
    <3>1. block[t] \in Nat /\ DropAt(t, k) \in {5, 6} /\ Len(Program(t)) = 6
      BY <1>1, Blocks, Places DEF TypeInv, PlaceInv
    <3>2. QED
      BY <2>1, <3>1 DEF Ended
  <2>3. Ordered(t, k, Len(Destructor[k][layer]) + 1)
    BY <1>1, <2>2 DEF OrderInv, ObjectOrder
  <2>4. "node" \in Live[k][layer][1] \ Live[k][layer][Len(Destructor[k][layer]) + 1]
    BY <1>1, NodesReset DEF Kinds
  <2>5. QED
    BY <1>2, <2>3, <2>4 DEF Ordered
<1>5. QED
  BY <1>3, <1>4

\* No destructor releases what something live of the same object was made from,
\* whichever calls have failed or were left out, and rclcpp::shutdown comes when
\* no node is left.
THEOREM NothingPulledAway == Spec => []ReleaseOrder
<1>1. Init => ThreadInv /\ OrderInv
  BY ThreadInit, OrderInit
<1>2. TypeInv /\ ThreadInv /\ OrderInv /\ [Next]_vars => (ThreadInv /\ OrderInv)'
  BY ThreadStep, OrderStep
<1>3. ASSUME TypeInv, ThreadInv, OrderInv
      PROVE  ReleaseOrder
  <2>1. ASSUME NEW o \in Objects, params.layer # "other",
               NEW made \in Makers(o[2], params.layer), NEW i \in 1..Len(made),
               made[i].op = "make", state[o][made[i].resource] = "live",
               NEW r \in made[i].from
        PROVE  state[o][r] \notin {"shut", "gone"}
    <3>1. layer \in LayerNames /\ layer = params.layer
      BY <1>3, <2>1 DEF TypeInv, TypeOK, Params, layer, LayerNames
    <3>2. PICK t \in Threads, k \in Kinds : o = <<t, k>>
      BY DEF Objects, Kinds
    <3>3. <<made[i].resource, r>> \in MadeFrom[layer]
          /\ made[i].resource \in Live[k][layer][1]
      BY <2>1, <3>1, <3>2, MadeFromLive
    <3>4. QED
      BY <1>3, <2>1, <3>1, <3>2, <3>3, OrderHolds
  <2>2. ASSUME rclcpp = "down", NEW o \in Objects
        PROVE  state[o]["node"] # "live"
    <3>1. PICK t \in Threads, k \in Kinds : o = <<t, k>>
      BY DEF Objects, Kinds
    <3>2. QED
      BY <1>3, <2>2, <3>1, NodesGone
  <2>3. QED
    BY <2>1, <2>2 DEF ReleaseOrder
<1>4. QED
  BY <1>1, <1>2, <1>3, TypeAlways, PTL DEF Spec

-----------------------------------------------------------------------------
(* The executors of rclcpp.                                                 *)

\* A subscriber that is made has an executor made for it, and one whose
\* callback is set has added its node to that executor.
SpinInv ==
  layer = "rclcpp" => \A t \in Threads :
    /\ block[t] > MakeAt(t, "sub") => executor[<<t, "sub">>] = <<t, "sub">>
    /\ block[t] > 3 => added[<<t, "sub">>] = <<t, "sub">>

\* At the start no subscriber has an executor.
LEMMA SpinInit == Init => SpinInv
<1> SUFFICES ASSUME Init, NEW t \in Threads
             PROVE  ~(block[t] > MakeAt(t, "sub")) /\ ~(block[t] > 3)
  BY DEF SpinInv
<1>1. block[t] = 1 /\ MakeAt(t, "sub") \in {1, 2}
  BY Places DEF Init, Kinds
<1>2. QED
  BY <1>1

\* The methods of RclcppSubscriber.
LEMMA RclcppCalls ==
  /\ RclcppSubscriberMake[1].op = "instance" /\ Len(RclcppSubscriberMake) = 1
  /\ RclcppSubscriberListen[4].op = "add" /\ Len(RclcppSubscriberListen) = 4
  BY DEF RclcppSubscriberMake, RclcppSubscriberListen, Instance, AddNode, Step

\* A step that makes an object and fails stays where it is, and the methods of
\* RclcppSubscriber end with get_instance and with add_node.
LEMMA SpinCalls ==
  ASSUME TypeInv, layer = "rclcpp", NEW t \in Threads, Thread(t),
         NEW k \in Kinds, AtWork(t, k), Constructs(t, k) \/ Listens(t, k),
         NextBlock(t)
  PROVE  /\ k = "sub" /\ Constructs(t, k) => GetInstance(t)
         /\ Listens(t, k) => Add(t)
<1>1. ~Ended(t)
  BY AnyThread
<1>2. block[t] \in Nat /\ step[t] \in 1..Len(Steps(t))
  BY <1>1, Busy DEF TypeInv, PlaceInv
<1>3. ~Stays
  BY <1>2 DEF Stays, NextBlock
<1>4. Current(t).onFail \in {"throw", "never"} /\ Current(t).op \in MakingOps
  BY <1>1, Calls DEF ConstructorCall, ListenCall, MakeShape, MakingOps
<1>5. ~Recover(t)
  BY <1>3, <1>4 DEF Recover, Terminate, Stays
<1>6. ~CallFails(t) /\ ~GoesWild(t)
  BY <1>3, <1>5 DEF CallFails, GoesWild, Stays
<1>7. Current(t).op \notin Releases /\ Current(t).op # "use"
  BY <1>4 DEF MakingOps, Releases
<1>8. ZeroHandle(t) \/ MakeResource(t) \/ AskFor(t) \/ GetInstance(t) \/ Add(t)
  BY <1>6, <1>7 DEF Thread, ReleaseResource, ReleaseFails, ReleaseNothing,
     UseReturns, At
<1>9. step[t] = Len(Steps(t))
  <2>1. Advance(t)
    BY <1>8 DEF ZeroHandle, MakeResource, AskFor, GetInstance, Add
  <2>2. ~NextCall(t)
    BY <1>2 DEF NextCall, NextBlock
  <2>3. QED
    BY <2>1, <2>2, Advancing
<1>10. ASSUME k = "sub", Constructs(t, k)
       PROVE  GetInstance(t)
  <2>1. Steps(t) = RclcppSubscriberMake
    BY <1>10 DEF Constructs, Constructor
  <2>2. Current(t).op = "instance"
    BY <1>9, <2>1, RclcppCalls DEF Current
  <2>3. QED
    BY <1>8, <2>2 DEF ZeroHandle, MakeResource, AskFor, Add, At
<1>11. ASSUME Listens(t, k)
       PROVE  Add(t)
  <2>1. Steps(t) = RclcppSubscriberListen
    BY <1>11 DEF Listens, Listen
  <2>2. Current(t).op = "add"
    BY <1>9, <2>1, RclcppCalls DEF Current
  <2>3. QED
    BY <1>8, <2>2 DEF ZeroHandle, MakeResource, AskFor, GetInstance, At
<1>12. QED
  BY <1>10, <1>11

\* Every step keeps the executors apart.
LEMMA SpinStep ==
  ASSUME TypeInv, SpinInv, [Next]_vars
  PROVE  SpinInv'
<1> SUFFICES ASSUME layer' = "rclcpp", NEW u \in Threads
             PROVE  /\ block'[u] > MakeAt(u, "sub") =>
                         executor'[<<u, "sub">>] = <<u, "sub">>
                    /\ block'[u] > 3 => added'[<<u, "sub">>] = <<u, "sub">>
  BY DEF SpinInv, MakeAt
<1>1. CASE UNCHANGED <<params, block, executor, added>>
  BY <1>1 DEF SpinInv, layer
<1>2. ASSUME NEW t \in Threads, Thread(t)
      PROVE  /\ block'[u] > MakeAt(u, "sub") =>
                  executor'[<<u, "sub">>] = <<u, "sub">>
             /\ block'[u] > 3 => added'[<<u, "sub">>] = <<u, "sub">>
  <2>1. ~Ended(t) /\ params' = params /\ layer = "rclcpp"
    BY <1>2, AnyThread DEF layer
  <2>2. PICK k \in Kinds : AtWork(t, k)
    BY <2>1, Working
  <2>3. /\ Object(t) = <<t, k>> /\ OnlyMoves(t)
        /\ Stays \/ NextCall(t) \/ NextBlock(t)
    BY <1>2, <2>2, Frame DEF AtWork
  <2>4. /\ executor \in [Objects -> Objects \cup {<< >>}]
        /\ added \in [Objects -> Objects \cup {<< >>}]
        /\ <<t, k>> \in Objects /\ <<u, "sub">> \in Objects
    BY StateTyped DEF SharedTyped, Objects, Kinds
  <2>5. /\ block[u] \in Nat /\ MakeAt(u, "sub") \in {1, 2}
        /\ DropAt(t, k) \in {5, 6} /\ MakeAt(t, k) \in {1, 2}
    BY Places DEF TypeInv, PlaceInv, Kinds
  <2>6. GetInstance(t) => executor' = [executor EXCEPT ![<<t, k>>] = <<t, k>>]
    BY <2>3 DEF GetInstance
  <2>7. ~GetInstance(t) => executor' = executor
    BY <1>2 DEF Thread, ZeroHandle, MakeResource, AskFor, CallFails, Add,
       ReleaseResource, ReleaseFails, ReleaseNothing, GoesWild, UseReturns, shared
  <2>8. Add(t) => added' = [added EXCEPT ![<<t, k>>] = executor[<<t, k>>]]
    BY <2>3 DEF Add
  <2>9. ~Add(t) => added' = added
    BY <1>2 DEF Thread, ZeroHandle, MakeResource, AskFor, CallFails, GetInstance,
       ReleaseResource, ReleaseFails, ReleaseNothing, GoesWild, UseReturns, shared
  <2>10. executor'[<<u, "sub">>] = executor[<<u, "sub">>]
         \/ executor'[<<u, "sub">>] = <<u, "sub">>
    BY <2>4, <2>6, <2>7
  <2>11. Add(t) => Constructs(t, k) \/ Listens(t, k)
    <3>1. Add(t) => Current(t).op \in MakingOps
      BY DEF Add, At, MakingOps
    <3>2. QED
      BY <2>1, <2>2, <3>1, CallKinds
  <2>12. ASSUME block'[u] > MakeAt(u, "sub")
         PROVE  executor'[<<u, "sub">>] = <<u, "sub">>
    <3>1. CASE block[u] > MakeAt(u, "sub")
      BY <2>1, <2>10, <3>1 DEF SpinInv
    <3>2. CASE ~(block[u] > MakeAt(u, "sub"))
      <4>1. u = t /\ NextBlock(t) /\ block[t] = MakeAt(t, "sub")
        BY <2>3, <2>5, <2>12, <3>2 DEF OnlyMoves, Stays, NextCall, NextBlock
      <4>2. k = "sub" /\ Constructs(t, k)
        <5>1. Object(t) = <<t, "sub">>
          <6>1. \A x, y, z : Block(x, y, z).object = <<x, y>>
            BY DEF Block
          <6>2. layer \in LayerNames /\ "sub" \in Kinds
            BY <2>1 DEF LayerNames, Kinds
          <6>3. QED
            BY <4>1, <6>1, <6>2, Blocks DEF Object
        <5>2. k = "sub"
          BY <2>3, <5>1
        <5>3. QED
          BY <2>2, <2>5, <4>1, <5>2 DEF AtWork, Listens, Measures, Destructs
      <4>3. QED
        BY <1>2, <2>1, <2>2, <2>4, <2>6, <4>1, <4>2, SpinCalls
    <3>3. QED
      BY <3>1, <3>2
  <2>13. ASSUME block'[u] > 3
         PROVE  added'[<<u, "sub">>] = <<u, "sub">>
    <3>1. CASE block[u] > 3
      <4>1. added[<<u, "sub">>] = <<u, "sub">>
        BY <2>1, <3>1 DEF SpinInv
      <4>2. u = t => ~Add(t)
        BY <2>5, <2>11, <3>1 DEF Constructs, Listens
      <4>3. QED
        BY <2>4, <2>8, <2>9, <4>1, <4>2
    <3>2. CASE ~(block[u] > 3)
      <4>1. u = t /\ NextBlock(t) /\ block[t] = 3
        BY <2>3, <2>5, <2>13, <3>2 DEF OnlyMoves, Stays, NextCall, NextBlock
      <4>2. Listens(t, k)
        BY <2>2, <2>5, <4>1 DEF AtWork, Constructs, Measures, Destructs
      <4>3. Add(t) /\ k = "sub"
        BY <1>2, <2>1, <2>2, <4>1, <4>2, SpinCalls DEF Listens
      <4>4. executor[<<t, "sub">>] = <<t, "sub">>
        BY <2>1, <2>5, <4>1 DEF SpinInv
      <4>5. QED
        BY <2>4, <2>8, <4>1, <4>3, <4>4
    <3>3. QED
      BY <3>1, <3>2
  <2>14. QED
    BY <2>12, <2>13
<1>3. QED
  BY <1>1, <1>2 DEF Next, Main, InitRclcpp, Start, Join, ShutdownRclcpp, Halted,
     vars, control, shared

\* The executor a thread spins is the one get_instance made for it, with its
\* node added, although both threads call get_instance.
THEOREM OwnExecutor == Spec => []OneSpinner
<1>1. ASSUME TypeInv, SpinInv
      PROVE  OneSpinner
  <2>1. ASSUME layer = "rclcpp", NEW t \in Threads, At(t, {"use"})
        PROVE  /\ executor[<<t, "sub">>] = <<t, "sub">>
               /\ added[<<t, "sub">>] = <<t, "sub">>
    <3>1. ~Ended(t) /\ Current(t).op = "use"
      BY <2>1 DEF At
    <3>2. PICK k \in Kinds : AtWork(t, k)
      BY <1>1, <3>1, Working
    <3>3. block[t] = 4
      BY <1>1, <3>1, <3>2, CallKinds DEF Measures
    <3>4. block[t] > 3 /\ block[t] > MakeAt(t, "sub")
      BY <3>3, Places DEF Kinds
    <3>5. QED
      BY <1>1, <2>1, <3>4 DEF SpinInv
  <2>2. ASSUME params.layer = "rclcpp", NEW t \in Threads, At(t, {"use"}),
               NEW u \in Threads \ {t}, At(u, {"use"})
        PROVE  executor[<<u, "sub">>] # executor[<<t, "sub">>]
    <3>1. executor[<<u, "sub">>] = <<u, "sub">> /\ executor[<<t, "sub">>] = <<t, "sub">>
      BY <2>1, <2>2 DEF layer
    <3>2. QED
      BY <3>1
  <2>3. ASSUME params.layer = "rclcpp", NEW t \in Threads, At(t, {"use"})
        PROVE  added[<<t, "sub">>] = executor[<<t, "sub">>]
    BY <2>1, <2>3 DEF layer
  <2>4. QED
    BY <2>2, <2>3 DEF OneSpinner
<1>2. QED
  BY <1>1, SpinInit, SpinStep, TypeAlways, PTL DEF Spec

-----------------------------------------------------------------------------
(* What an object owns at any place of its thread.                          *)

\* The call of a block b of n calls a thread has come to, n + 1 when it is past
\* it.
Point(t, b, n) ==
  IF block[t] < b THEN 1 ELSE IF block[t] = b THEN step[t] ELSE n + 1

\* What the constructor and set_callback have made so far.
Owned(t, k) ==
  Has[k][layer][Point(t, MakeAt(t, k), Len(Constructor[k][layer]))]
    \cup IF k = "sub" THEN Hears[layer][Point(t, 3, Len(Listen[layer]))] ELSE {}
\* The call the destructor has come to.
DropPoint(t, k) == Point(t, DropAt(t, k), Len(Destructor[k][layer]))

\* Nothing is made before the first call, and nothing shut down.
LEMMA FirstRows ==
  ASSUME NEW k \in Kinds, NEW l \in LayerNames
  PROVE  Has[k][l][1] = {} /\ Hears[l][1] = {} /\ Shut[k][l][1] = {}
  BY Outlines, Listening DEF Makes, Drops

\* How the point a method has come to moves with its thread.
LEMMA PointMoves ==
  ASSUME TypeInv, NEW t \in Threads, NEW b \in Nat, NEW n
  PROVE  /\ block'[t] = block[t] /\ step'[t] = step[t] =>
              Point(t, b, n)' = Point(t, b, n)
         /\ NextCall(t) => Point(t, b, n)' =
              IF b = block[t] THEN step[t] + 1 ELSE Point(t, b, n)
         /\ NextBlock(t) => Point(t, b, n)' =
              IF b = block[t] THEN n + 1 ELSE Point(t, b, n)
<1>1. block[t] \in Nat /\ step[t] \in Nat
  BY DEF TypeInv, PlaceInv
<1>2. CASE block'[t] = block[t] /\ step'[t] = step[t]
  BY <1>1, <1>2 DEF Point, NextCall, NextBlock
<1>3. CASE NextCall(t)
  BY <1>1, <1>3 DEF Point, NextCall, NextBlock
<1>4. CASE NextBlock(t)
  BY <1>1, <1>4 DEF Point, NextCall, NextBlock
<1>5. QED
  BY <1>2, <1>3, <1>4

\* What is owned in each block of the thread.
LEMMA OwnedNow ==
  ASSUME TypeInv, layer \in LayerNames, NEW t \in Threads, NEW k \in Kinds
  PROVE  /\ block[t] < MakeAt(t, k) => Owned(t, k) = {}
         /\ block[t] = MakeAt(t, k) => Owned(t, k) = Has[k][layer][step[t]]
         /\ block[t] = 3 /\ k = "sub" =>
              Owned(t, k) = HasAll(k, layer) \cup Hears[layer][step[t]]
         /\ block[t] > MakeAt(t, k) /\ (k = "pub" \/ block[t] < 3) =>
              Owned(t, k) = HasAll(k, layer)
         /\ block[t] > 3 => Owned(t, k) = Live[k][layer][1]
<1> DEFINE made == Point(t, MakeAt(t, k), Len(Constructor[k][layer]))
           heard == Point(t, 3, Len(Listen[layer]))
<1>1. block[t] \in Nat /\ MakeAt(t, k) \in {1, 2}
  BY Places DEF TypeInv, PlaceInv
<1>2. Owned(t, k) = Has[k][layer][made] \cup
                      IF k = "sub" THEN Hears[layer][heard] ELSE {}
  BY DEF Owned
<1>3. /\ block[t] < MakeAt(t, k) => made = 1
      /\ block[t] = MakeAt(t, k) => made = step[t]
      /\ block[t] > MakeAt(t, k) => made = Len(Constructor[k][layer]) + 1
  BY <1>1 DEF Point
<1>4. /\ block[t] < 3 => heard = 1
      /\ block[t] = 3 => heard = step[t]
      /\ block[t] > 3 => heard = Len(Listen[layer]) + 1
  BY <1>1 DEF Point
<1>5. Has[k][layer][1] = {} /\ Hears[layer][1] = {}
  BY FirstRows
<1>6. k = "sub" \/ k = "pub"
  BY DEF Kinds
<1>7. Live[k][layer][1] = HasAll(k, layer) \cup
                            (IF k = "sub" THEN HearsAll(layer) ELSE {})
  BY Whole
<1> HIDE DEF made, heard
<1>8. block[t] < MakeAt(t, k) => Owned(t, k) = {}
  BY <1>1, <1>2, <1>3, <1>4, <1>5
<1>9. block[t] = MakeAt(t, k) => Owned(t, k) = Has[k][layer][step[t]]
  BY <1>1, <1>2, <1>3, <1>4, <1>5
<1>10. block[t] = 3 /\ k = "sub" =>
         Owned(t, k) = HasAll(k, layer) \cup Hears[layer][step[t]]
  BY <1>1, <1>2, <1>3, <1>4 DEF HasAll
<1>11. block[t] > MakeAt(t, k) /\ (k = "pub" \/ block[t] < 3) =>
         Owned(t, k) = HasAll(k, layer)
  BY <1>2, <1>3, <1>4, <1>5, <1>6 DEF HasAll
<1>12. block[t] > 3 => Owned(t, k) = Live[k][layer][1]
  BY <1>1, <1>2, <1>3, <1>4, <1>6, <1>7 DEF HasAll, HearsAll
<1>13. QED
  BY <1>8, <1>9, <1>10, <1>11, <1>12

\* What is owned does not change but by the methods that make the object.
LEMMA OwnedKept ==
  ASSUME TypeInv, params' = params, layer \in LayerNames,
         NEW u \in Threads, NEW j \in Kinds,
         \/ block'[u] = block[u] /\ step'[u] = step[u]
         \/ /\ NextCall(u) \/ NextBlock(u)
            /\ block[u] # MakeAt(u, j) /\ (j = "sub" => block[u] # 3)
  PROVE  Owned(u, j)' = Owned(u, j)
<1>1. MakeAt(u, j) \in Nat /\ 3 \in Nat /\ MakeAt(u, j)' = MakeAt(u, j)
  BY Places DEF MakeAt
<1>2. layer' = layer
  BY DEF layer
<1>3. \A n : Point(u, MakeAt(u, j), n)' = Point(u, MakeAt(u, j), n)
  <2> SUFFICES ASSUME NEW b \in Nat, b = MakeAt(u, j), NEW n
               PROVE  Point(u, b, n)' = Point(u, b, n)
    BY <1>1 DEF Point
  <2>1. QED
    BY <1>1, PointMoves
<1>4. j = "sub" => \A n : Point(u, 3, n)' = Point(u, 3, n)
  BY <1>1, PointMoves
<1>5. QED
  BY <1>2, <1>3, <1>4 DEF Owned

\* What is owned after a call of a method that makes the object.
LEMMA OwnedNext ==
  ASSUME TypeInv, params' = params, layer \in LayerNames,
         NEW t \in Threads, NEW k \in Kinds
  PROVE  /\ block[t] = MakeAt(t, k) /\ NextCall(t) =>
              Owned(t, k)' = Has[k][layer][step[t] + 1]
         /\ block[t] = MakeAt(t, k) /\ NextBlock(t) =>
              Owned(t, k)' = HasAll(k, layer)
         /\ block[t] = 3 /\ k = "sub" /\ NextCall(t) =>
              Owned(t, k)' = HasAll(k, layer) \cup Hears[layer][step[t] + 1]
         /\ block[t] = 3 /\ k = "sub" /\ NextBlock(t) =>
              Owned(t, k)' = HasAll(k, layer) \cup HearsAll(layer)
<1>1. block[t] \in Nat /\ MakeAt(t, k) \in {1, 2} /\ 3 \in Nat
  BY Places DEF TypeInv, PlaceInv
<1>2. layer' = layer
  BY DEF layer
<1> PICK b \in Nat : b = MakeAt(t, k)
  BY <1>1
<1> PICK m, n : m = Len(Constructor[k][layer]) /\ n = Len(Listen[layer])
  OBVIOUS
<1>3. HasAll(k, layer) = Has[k][layer][m + 1] /\ HearsAll(layer) = Hears[layer][n + 1]
  BY DEF HasAll, HearsAll
<1>4. Owned(t, k)' = Has[k][layer][Point(t, b, m)'] \cup
                       IF k = "sub" THEN Hears[layer][Point(t, 3, n)'] ELSE {}
  BY <1>2 DEF Owned, MakeAt
<1>5. Hears[layer][1] = {}
  BY FirstRows
<1>6. block[t] = b => Point(t, 3, n) = 1
  BY <1>1 DEF Point
<1>7. block[t] = 3 => Point(t, b, m) = m + 1
  BY <1>1 DEF Point
<1>8. /\ NextCall(t) => Point(t, b, m)' =
           IF b = block[t] THEN step[t] + 1 ELSE Point(t, b, m)
      /\ NextBlock(t) => Point(t, b, m)' =
           IF b = block[t] THEN m + 1 ELSE Point(t, b, m)
      /\ NextCall(t) => Point(t, 3, n)' =
           IF 3 = block[t] THEN step[t] + 1 ELSE Point(t, 3, n)
      /\ NextBlock(t) => Point(t, 3, n)' =
           IF 3 = block[t] THEN n + 1 ELSE Point(t, 3, n)
  BY <1>1, PointMoves
<1>9. CASE block[t] = b
  <2>1. block[t] # 3
    BY <1>1, <1>9
  <2>2. NextCall(t) \/ NextBlock(t) => Point(t, 3, n)' = 1
    BY <1>6, <1>8, <1>9, <2>1
  <2>3. QED
    BY <1>4, <1>5, <1>8, <1>9, <1>3, <2>1, <2>2
<1>10. CASE block[t] = 3
  <2>1. block[t] # b
    BY <1>1, <1>10
  <2>2. NextCall(t) \/ NextBlock(t) => Point(t, b, m)' = m + 1
    BY <1>7, <1>8, <1>10, <2>1
  <2>3. QED
    BY <1>4, <1>8, <1>10, <1>3, <2>1, <2>2
<1>11. QED
  BY <1>9, <1>10

\* A row of a constructor is among what the destructor starts from.
LEMMA RowsLive ==
  ASSUME NEW k, NEW l, NEW base, NEW T, NEW G, Makes(k, l, base, T, G),
         NEW i \in 1..Len(T) + 1
  PROVE  G[i] \subseteq Live[k][l][1]
<1>1. CASE i = 1
  BY <1>1 DEF Makes
<1>2. CASE i # 1
  <2>1. PICK n \in Nat : n = Len(T)
    BY DEF Makes
  <2>2. i - 1 \in 1..Len(T) /\ (i - 1) + 1 = i
    BY <1>2, <2>1
  <2>3. MakeRow(k, l, base, T[i - 1], G[i - 1], G[i])
    BY <2>2 DEF Makes
  <2>4. QED
    BY <2>3 DEF MakeRow
<1>3. QED
  BY <1>1, <1>2

\* So is whatever is owned at any time.
LEMMA OwnedLive ==
  ASSUME TypeInv, layer \in LayerNames, NEW t \in Threads, NEW k \in Kinds
  PROVE  Owned(t, k) \subseteq Live[k][layer][1]
<1>1. block[t] \in Nat /\ MakeAt(t, k) \in {1, 2} /\ (k = "sub" \/ k = "pub")
  BY Places DEF TypeInv, PlaceInv, Kinds
<1>2. HasAll(k, layer) \subseteq Live[k][layer][1]
  BY Whole
<1>3. \A x, y, z : Block(x, y, z).steps = z
  BY DEF Block
<1>4. block[t] < 4 => ~Ended(t)
  BY <1>1, Blocks DEF Ended
<1>5. CASE block[t] = MakeAt(t, k)
  <2>1. Steps(t) = Constructor[k][layer]
    BY <1>3, <1>5, Blocks DEF Steps
  <2>2. step[t] \in 1..Len(Constructor[k][layer]) /\ Len(Constructor[k][layer]) \in 1..8
    BY <1>1, <1>4, <1>5, <2>1, Busy
  <2>3. step[t] \in 1..Len(Constructor[k][layer]) + 1
    BY <2>2
  <2>4. QED
    BY <1>5, <2>3, Outlines, RowsLive, OwnedNow
<1>6. CASE block[t] = 3 /\ k = "sub"
  <2>1. Steps(t) = Listen[layer]
    BY <1>3, <1>6, Blocks DEF Steps
  <2>2. step[t] \in 1..Len(Listen[layer]) /\ Len(Listen[layer]) \in 1..8
    BY <1>4, <1>6, <2>1, Busy
  <2>3. step[t] \in 1..Len(Listen[layer]) + 1
    BY <2>2
  <2>4. Hears[layer][step[t]] \subseteq Live[k][layer][1]
    BY <1>6, <2>3, Listening, RowsLive
  <2>5. QED
    BY <1>2, <1>6, <2>4, OwnedNow
<1>7. QED
  BY <1>1, <1>2, <1>5, <1>6, OwnedNow

\* What the call a thread is about to make is given, and what it releases, is
\* owned by the object.
LEMMA CallOwned ==
  ASSUME TypeInv, NEW t \in Threads, ~Ended(t), NEW k \in Kinds, AtWork(t, k)
  PROVE  /\ Current(t).op \in MakingOps =>
              /\ block[t] < DropAt(t, k)
              /\ \A r \in Current(t).from :
                   r \in Owned(t, k) /\ <<layer, k, r>> \notin Survived
         /\ Current(t).op \in Releases =>
              /\ block[t] = DropAt(t, k) /\ Destructs(t, k)
              /\ Current(t).from \cup {Current(t).resource} \subseteq Owned(t, k)
         /\ Current(t).op = "use" => block[t] = 4
<1>1. layer \in LayerNames
  BY Busy
<1>2. block[t] \in Nat /\ MakeAt(t, k) \in {1, 2} /\ DropAt(t, k) \in {5, 6}
  BY Places DEF TypeInv, PlaceInv
<1>3. ASSUME Constructs(t, k)
      PROVE  /\ block[t] < DropAt(t, k)
             /\ \A r \in Current(t).from :
                  r \in Owned(t, k) /\ <<layer, k, r>> \notin Survived
  <2>1. block[t] = MakeAt(t, k) /\ ConstructorCall(t, k)
    BY <1>3, Calls DEF Constructs
  <2>2. Owned(t, k) = Has[k][layer][step[t]]
    BY <1>1, <2>1, OwnedNow
  <2>3. QED
    BY <1>2, <2>1, <2>2 DEF ConstructorCall, MakeRow
<1>4. ASSUME Listens(t, k)
      PROVE  /\ block[t] < DropAt(t, k)
             /\ \A r \in Current(t).from :
                  r \in Owned(t, k) /\ <<layer, k, r>> \notin Survived
  <2>1. block[t] = 3 /\ k = "sub" /\ ListenCall(t)
    BY <1>4, Calls DEF Listens
  <2>2. Owned(t, k) = HasAll(k, layer) \cup Hears[layer][step[t]]
    BY <1>1, <2>1, OwnedNow
  <2>3. QED
    BY <1>2, <2>1, <2>2 DEF ListenCall, MakeRow
<1>5. ASSUME Destructs(t, k)
      PROVE  /\ block[t] = DropAt(t, k)
             /\ Current(t).from \cup {Current(t).resource} \subseteq Owned(t, k)
  <2>1. block[t] = DropAt(t, k) /\ DestructorCall(t, k)
    BY <1>5, Calls DEF Destructs
  <2>2. Owned(t, k) = Live[k][layer][1]
    BY <1>1, <1>2, <2>1, OwnedNow
  <2>3. QED
    BY <2>1, <2>2 DEF DestructorCall, DropShape, DropRow, Apart, Releases
<1>6. QED
  BY <1>3, <1>4, <1>5, CallKinds DEF Measures

\* What is owned after a call that makes something, or fails to.
LEMMA MadeNext ==
  ASSUME TypeInv, params' = params, NEW t \in Threads, ~Ended(t),
         NEW k \in Kinds, AtWork(t, k), Current(t).op \in MakingOps
  PROVE  /\ Advance(t) => Owned(t, k)' = Owned(t, k) \cup
              IF Current(t).op \in {"make", "instance"}
              THEN {Current(t).resource} ELSE {}
         /\ (NextBlock(t) /\ Current(t).op = "make" /\
               <<layer, k, Current(t).resource>> \in Survived)
            => Owned(t, k)' = Owned(t, k) \cup {Current(t).resource}
         /\ Current(t).op = "zero" => Current(t).resource \notin Owned(t, k)
         /\ Current(t).op \in {"make", "instance"} =>
              Current(t).resource \in Live[k][layer][1]
         /\ Current(t).op \in {"instance", "add"} => Current(t).onFail = "throw"
         /\ Current(t).op = "ask" =>
              <<layer, k, Current(t).resource>> \notin Survived
<1> SUFFICES ASSUME NEW i, i = step[t], NEW c, c = Current(t)
             PROVE
         /\ Advance(t) => Owned(t, k)' = Owned(t, k) \cup
              IF c.op \in {"make", "instance"} THEN {c.resource} ELSE {}
         /\ NextBlock(t) /\ c.op = "make" /\ <<layer, k, c.resource>> \in Survived
            => Owned(t, k)' = Owned(t, k) \cup {c.resource}
         /\ c.op = "zero" => c.resource \notin Owned(t, k)
         /\ c.op \in {"make", "instance"} => c.resource \in Live[k][layer][1]
         /\ c.op \in {"instance", "add"} => c.onFail = "throw"
         /\ c.op = "ask" => <<layer, k, c.resource>> \notin Survived
  OBVIOUS
<1>1. layer \in LayerNames /\ i \in 1..Len(Steps(t)) /\ Len(Steps(t)) \in 1..8
  BY Busy
<1>2. Advance(t) => NextCall(t) \/ (i = Len(Steps(t)) /\ NextBlock(t))
  BY Advancing
<1>3. ASSUME NEW base, NEW T, T = Steps(t), NEW G, Makes(k, layer, base, T, G),
             Owned(t, k) = base \cup G[i],
             NextCall(t) => Owned(t, k)' = base \cup G[i + 1],
             NextBlock(t) => Owned(t, k)' = base \cup G[Len(T) + 1]
      PROVE  /\ Advance(t) => Owned(t, k)' = Owned(t, k) \cup
                  IF c.op \in {"make", "instance"} THEN {c.resource} ELSE {}
             /\ NextBlock(t) /\ c.op = "make" /\ <<layer, k, c.resource>> \in Survived
                => Owned(t, k)' = Owned(t, k) \cup {c.resource}
             /\ c.op = "zero" => c.resource \notin Owned(t, k)
             /\ c.op \in {"make", "instance"} => c.resource \in Live[k][layer][1]
             /\ c.op \in {"instance", "add"} => c.onFail = "throw"
             /\ c.op = "ask" => <<layer, k, c.resource>> \notin Survived
  <2>1. T[i] = c
    BY <1>3 DEF Current
  <2>2. MakeShape(layer, c) /\ MakeRow(k, layer, base, c, G[i], G[i + 1])
    BY <1>1, <1>3, <2>1 DEF Makes
  <2>3. G[i + 1] = IF c.op \in {"make", "instance"}
                   THEN G[i] \cup {c.resource} ELSE G[i]
    BY <2>2 DEF MakeRow
  <2>4. c.op = "make" /\ <<layer, k, c.resource>> \in Survived => i = Len(T)
    <3>1. SUFFICES ASSUME c.op = "make", <<layer, k, c.resource>> \in Survived,
                          i # Len(T)
                   PROVE  FALSE
      OBVIOUS
    <3>2. i + 1 \in 1..Len(T)
      BY <1>1, <1>3, <3>1
    <3>3. MakeRow(k, layer, base, T[i + 1], G[i + 1], G[i + 2])
      <4>1. (i + 1) + 1 = i + 2
        BY <1>1
      <4>2. QED
        BY <1>3, <3>2, <4>1 DEF Makes
    <3>4. QED
      BY <2>3, <3>1, <3>3 DEF MakeRow
  <2>5. Advance(t) => Owned(t, k)' = base \cup G[i + 1]
    BY <1>2, <1>3
  <2>6. NextBlock(t) /\ i = Len(T) => Owned(t, k)' = base \cup G[i + 1]
    BY <1>3
  <2>7. QED
    <3>1. Advance(t) => Owned(t, k)' = Owned(t, k) \cup
            IF c.op \in {"make", "instance"} THEN {c.resource} ELSE {}
      BY <1>3, <2>3, <2>5
    <3>2. NextBlock(t) /\ c.op = "make" /\ <<layer, k, c.resource>> \in Survived
          => Owned(t, k)' = Owned(t, k) \cup {c.resource}
      BY <1>3, <2>3, <2>4, <2>6
    <3>3. c.op = "zero" => c.resource \notin Owned(t, k)
      BY <1>3, <2>2 DEF MakeRow
    <3>4. /\ c.op \in {"make", "instance"} => c.resource \in Live[k][layer][1]
          /\ c.op = "ask" => <<layer, k, c.resource>> \notin Survived
      BY <2>2, <2>3 DEF MakeRow
    <3>5. c.op \in {"instance", "add"} => c.onFail = "throw"
      BY <2>2 DEF MakeShape
    <3>6. QED
      BY <3>1, <3>2, <3>3, <3>4, <3>5
<1>4. CASE Constructs(t, k)
  <2>1. block[t] = MakeAt(t, k) /\ Steps(t) = Constructor[k][layer]
    BY <1>4 DEF Constructs
  <2>2. /\ Owned(t, k) = {} \cup Has[k][layer][i]
        /\ NextCall(t) => Owned(t, k)' = {} \cup Has[k][layer][i + 1]
        /\ NextBlock(t) => Owned(t, k)' = {} \cup Has[k][layer][Len(Steps(t)) + 1]
    BY <1>1, <2>1, OwnedNow, OwnedNext DEF HasAll
  <2>3. Makes(k, layer, {}, Steps(t), Has[k][layer])
    BY <1>1, <2>1, Outlines
  <2>4. QED
    BY <1>3, <2>2, <2>3
<1>5. CASE Listens(t, k)
  <2>1. block[t] = 3 /\ k = "sub" /\ Steps(t) = Listen[layer]
    BY <1>5 DEF Listens
  <2>2. /\ Owned(t, k) = HasAll(k, layer) \cup Hears[layer][i]
        /\ NextCall(t) => Owned(t, k)' = HasAll(k, layer) \cup Hears[layer][i + 1]
        /\ NextBlock(t) =>
             Owned(t, k)' = HasAll(k, layer) \cup Hears[layer][Len(Steps(t)) + 1]
    BY <1>1, <2>1, OwnedNow, OwnedNext DEF HearsAll
  <2>3. Makes(k, layer, HasAll(k, layer), Steps(t), Hears[layer])
    BY <1>1, <2>1, Listening
  <2>4. QED
    BY <1>3, <2>2, <2>3
<1>6. QED
  BY <1>4, <1>5, CallKinds

-----------------------------------------------------------------------------
(* The handles that are used.                                               *)

\* No call that makes or asks for something has failed, but those after which
\* the program goes on safely.
Clean ==
  \A f \in failed :
    f[2] \in {"make", "ask"} => <<layer, f[1][2], f[3]>> \in Survived

\* What an object owns is not what the memory held before, and is live until
\* the destructor runs, unless it was not made and the program survives that.
Sound(t, k) == \A r \in Owned(t, k) :
  /\ state[<<t, k>>][r] # "raw"
  /\ block[t] < DropAt(t, k) =>
       \/ state[<<t, k>>][r] = "live"
       \/ state[<<t, k>>][r] = "null" /\ <<layer, k, r>> \in Survived

\* While no such call has failed nothing unassigned or null is used, because
\* what is owned is there.
HoleInv ==
  Clean => /\ status # "undefined"
           /\ status = "running" /\ layer \in LayerNames =>
                \A t \in Threads, k \in Kinds : Sound(t, k)

\* At the start nothing is owned.
LEMMA HoleInit == Init => HoleInv
<1> SUFFICES ASSUME Init PROVE HoleInv
  OBVIOUS
<1>1. TypeInv
  BY InitType
<1>2. ASSUME layer \in LayerNames, NEW t \in Threads, NEW k \in Kinds
      PROVE  Owned(t, k) = {}
  <2>1. block[t] = 1 /\ step[t] = 1 /\ MakeAt(t, k) \in {1, 2}
    BY Places DEF Init
  <2>2. CASE MakeAt(t, k) = 2
    BY <1>1, <1>2, <2>1, <2>2, OwnedNow
  <2>3. CASE MakeAt(t, k) = 1
    BY <1>1, <1>2, <2>1, <2>3, OwnedNow, FirstRows
  <2>4. QED
    BY <2>1, <2>2, <2>3
<1>3. status = "running"
  BY DEF Init
<1>4. QED
  BY <1>2, <1>3 DEF HoleInv, Sound

\* No call is given a handle that is not there.
LEMMA SoundGiven ==
  ASSUME TypeInv, NEW t \in Threads, ~Ended(t), NEW k \in Kinds, AtWork(t, k),
         \A j \in Kinds : Sound(t, j)
  PROVE  /\ Current(t).op \in MakingOps => Given(t) \subseteq {"live"}
         /\ ~WildUse(t) /\ ~WildCall(t)
<1>1. Object(t) = <<t, k>> /\ layer \in LayerNames
  BY Busy DEF AtWork
<1>2. ASSUME Current(t).op \in MakingOps
      PROVE  Given(t) \subseteq {"live"}
  <2>1. block[t] < DropAt(t, k) /\ \A r \in Current(t).from :
          r \in Owned(t, k) /\ <<layer, k, r>> \notin Survived
    BY <1>2, CallOwned
  <2>2. \A r \in Current(t).from : state[<<t, k>>][r] = "live"
    BY <2>1 DEF Sound
  <2>3. QED
    BY <1>1, <2>2 DEF Given, Of
<1>3. ASSUME Current(t).op \in Releases
      PROVE  "raw" \notin Given(t) \cup {Of(t, Current(t).resource)}
  BY <1>1, <1>3, CallOwned DEF Given, Of, Sound
<1>4. ~WildCall(t)
  BY <1>2, <1>3 DEF WildCall, At, MakingOps
<1>5. ASSUME Current(t).op = "use", NEW j \in Kinds
      PROVE  /\ \A r \in Uses[j][layer] : state[<<t, j>>][r] # "raw"
             /\ \A r \in Dereferences[j][layer] : state[<<t, j>>][r] = "live"
  <2>1. block[t] = 4
    BY <1>5, CallOwned
  <2>2. Owned(t, j) = Live[j][layer][1] /\ block[t] < DropAt(t, j)
    BY <1>1, <2>1, OwnedNow, Places
  <2>3. /\ Uses[j][layer] \subseteq Owned(t, j)
        /\ Dereferences[j][layer] \subseteq Owned(t, j)
        /\ \A r \in Dereferences[j][layer] : <<layer, j, r>> \notin Survived
    BY <1>1, <2>2, InUse
  <2>4. Sound(t, j)
    OBVIOUS
  <2>5. QED
    BY <2>2, <2>3, <2>4 DEF Sound
<1>6. ~WildUse(t)
  BY <1>5 DEF WildUse, At, Kinds, layer
<1>7. QED
  BY <1>2, <1>4, <1>6

\* A step that leaves alone what is owned.
LEMMA SoundKept ==
  ASSUME params' = params, NEW t, NEW k, Owned(t, k)' = Owned(t, k),
         \A r \in Owned(t, k) : state'[<<t, k>>][r] = state[<<t, k>>][r],
         block[t] \in Nat, block'[t] \in {block[t], block[t] + 1},
         DropAt(t, k) \in Nat, Sound(t, k)
  PROVE  Sound(t, k)'
<1>1. layer' = layer /\ DropAt(t, k)' = DropAt(t, k)
  BY DEF layer, DropAt
<1>2. block'[t] < DropAt(t, k) => block[t] < DropAt(t, k)
  OBVIOUS
<1>3. QED
  BY <1>1, <1>2 DEF Sound

\* A call that makes something, fails to or asks for it.
LEMMA SoundMakes ==
  ASSUME TypeInv, NEW t \in Threads, Thread(t), NEW k \in Kinds, AtWork(t, k),
         Current(t).op \in MakingOps, status' = "running", Clean',
         \A j \in Kinds : Sound(t, j)
  PROVE  Sound(t, k)'
<1> DEFINE o == <<t, k>>
<1> SUFFICES ASSUME NEW c, c = Current(t) PROVE Sound(t, k)'
  OBVIOUS
<1>1. /\ ~Ended(t) /\ params' = params /\ status = "running"
      /\ Object(t) = o /\ layer \in LayerNames /\ layer' = layer
  BY AnyThread, Frame DEF AtWork, layer
<1>2. Given(t) \subseteq {"live"} /\ ~GoesWild(t)
  BY <1>1, SoundGiven DEF GoesWild
<1>3. /\ Advance(t) => Owned(t, k)' = Owned(t, k) \cup
           IF c.op \in {"make", "instance"} THEN {c.resource} ELSE {}
      /\ NextBlock(t) /\ c.op = "make" /\ <<layer, k, c.resource>> \in Survived
         => Owned(t, k)' = Owned(t, k) \cup {c.resource}
      /\ c.op = "zero" => c.resource \notin Owned(t, k)
      /\ c.op \in {"make", "instance"} => c.resource \in Live[k][layer][1]
      /\ c.op \in {"instance", "add"} => c.onFail = "throw"
      /\ c.op = "ask" => <<layer, k, c.resource>> \notin Survived
  BY <1>1, MadeNext
<1>4. \A r \in Owned(t, k) :
        \/ state[o][r] = "live"
        \/ state[o][r] = "null" /\ <<layer, k, r>> \in Survived
  <2>1. block[t] < DropAt(t, k)
    BY <1>1, CallOwned
  <2>2. QED
    BY <2>1 DEF Sound
<1>5. Live[k][layer][1] \subseteq Resources
  <2>1. 1 \in 1..Len(Destructor[k][layer]) + 1
    BY <1>1, Outlines DEF Drops
  <2>2. QED
    BY <1>1, <2>1, ClosedLive
<1>6. Owned(t, k) \subseteq Resources
  BY <1>1, <1>5, OwnedLive
<1>7. ASSUME NEW s \in {"null", "live"}, Becomes(t, s)
      PROVE  \A q \in Resources :
               state'[o][q] = IF q = c.resource THEN s ELSE state[o][q]
  <2>1. s \in States
    BY DEF States
  <2>2. QED
    BY <1>1, <1>7, <2>1, Becoming
<1>8. ASSUME \A r \in Owned(t, k)' :
               \/ state'[o][r] = "live"
               \/ state'[o][r] = "null" /\ <<layer, k, r>> \in Survived
      PROVE  Sound(t, k)'
  BY <1>1, <1>8 DEF Sound
<1>9. CASE ZeroHandle(t)
  <2>1. Advance(t) /\ Becomes(t, "null") /\ c.op = "zero"
    BY <1>9 DEF ZeroHandle, At
  <2>2. QED
    BY <1>3, <1>4, <1>6, <1>7, <1>8, <2>1
<1>10. CASE MakeResource(t)
  <2>1. Advance(t) /\ Becomes(t, "live") /\ c.op = "make"
    BY <1>10 DEF MakeResource, At
  <2>2. QED
    BY <1>3, <1>4, <1>5, <1>6, <1>7, <1>8, <2>1
<1>11. CASE GetInstance(t)
  <2>1. Advance(t) /\ Becomes(t, "live") /\ c.op = "instance"
    BY <1>11 DEF GetInstance, At
  <2>2. QED
    BY <1>3, <1>4, <1>5, <1>6, <1>7, <1>8, <2>1
<1>12. CASE AskFor(t) \/ Add(t)
  <2>1. Advance(t) /\ state' = state /\ c.op \in {"ask", "add"}
    BY <1>12 DEF AskFor, Add, At
  <2>2. QED
    BY <1>3, <1>4, <1>8, <2>1
<1>13. CASE CallFails(t)
  <2>1. failed' = failed \cup {<<o, c.op, c.resource>>}
    <3>1. Given(t) \cap {"null", "gone"} = {}
      BY <1>2
    <3>2. QED
      BY <1>1, <1>13, <3>1 DEF CallFails, Fails
  <2>2. c.op \in {"make", "ask"} => <<layer, k, c.resource>> \in Survived
    <3>1. <<o, c.op, c.resource>> \in failed'
      BY <2>1
    <3>2. QED
      BY <1>1, <3>1 DEF Clean
  <2>3. ~Terminate(t)
    BY DEF Terminate
  <2>4. c.op = "make" /\ <<layer, k, c.resource>> \in Survived
    BY <1>3, <1>13, <2>2, <2>3 DEF CallFails, At, Recover
  <2>5. Becomes(t, "null")
    BY <1>1, <1>13, <2>4 DEF CallFails, At
  <2>6. Advance(t) \/ NextBlock(t)
    BY <1>13, <2>3, Leaving DEF CallFails, Recover
  <2>7. Owned(t, k)' = Owned(t, k) \cup {c.resource}
    BY <1>3, <2>4, <2>6
  <2>8. QED
    BY <1>3, <1>4, <1>5, <1>6, <1>7, <1>8, <2>4, <2>5, <2>7
<1>14. c.op \notin Releases /\ c.op # "use"
  BY DEF MakingOps, Releases
<1>15. QED
  BY <1>2, <1>9, <1>10, <1>11, <1>12, <1>13, <1>14 DEF Thread, ReleaseResource,
     ReleaseFails, ReleaseNothing, UseReturns, At

\* A step of a thread does nothing to the objects it is not at work on.
LEMMA Elsewhere ==
  ASSUME TypeInv, NEW t \in Threads, Thread(t), NEW k \in Kinds, AtWork(t, k),
         NEW u \in Threads, NEW j \in Kinds, u # t \/ j # k
  PROVE  /\ state'[<<u, j>>] = state[<<u, j>>]
         /\ Owned(u, j)' = Owned(u, j) /\ DropPoint(u, j)' = DropPoint(u, j)
<1>1. params' = params /\ layer' = layer
  BY AnyThread DEF layer
<1>2. /\ layer \in LayerNames /\ OnlyMoves(t)
      /\ Stays \/ NextCall(t) \/ NextBlock(t)
      /\ \A p \in Objects : p # <<t, k>> => state'[p] = state[p]
  BY Frame
<1>3. state'[<<u, j>>] = state[<<u, j>>]
  BY <1>2 DEF Objects, Kinds
<1>4. PICK b \in Nat : b = DropAt(u, j)
  BY Places
<1>5. b = DropAt(u, j)'
  BY <1>4 DEF DropAt
<1>6. ASSUME \A n : Point(u, b, n)' = Point(u, b, n)
      PROVE  DropPoint(u, j)' = DropPoint(u, j)
  BY <1>1, <1>4, <1>5, <1>6 DEF DropPoint
<1>7. CASE u # t
  <2>1. block'[u] = block[u] /\ step'[u] = step[u]
    BY <1>2, <1>7 DEF OnlyMoves
  <2>2. QED
    BY <1>1, <1>2, <1>3, <1>6, <2>1, OwnedKept, PointMoves
<1>8. CASE u = t /\ Stays
  <2>1. block'[u] = block[u] /\ step'[u] = step[u]
    BY <1>8 DEF Stays
  <2>2. QED
    BY <1>1, <1>2, <1>3, <1>6, <2>1, OwnedKept, PointMoves
<1>9. CASE u = t /\ (NextCall(t) \/ NextBlock(t))
  <2>1. \A x, y, z : Block(x, y, z).object = <<x, y>>
    BY DEF Block
  <2>2. Object(t) = <<t, k>> /\ j # k
    BY <1>9 DEF AtWork
  <2>3. block[t] # MakeAt(t, j) /\ block[t] # b
    BY <1>2, <1>4, <1>9, <2>1, <2>2, Blocks DEF Object
  <2>4. j = "sub" => block[t] # 3
    BY <1>2, <2>1, <2>2, Blocks DEF Object
  <2>5. QED
    BY <1>1, <1>2, <1>3, <1>6, <1>9, <2>3, <2>4, OwnedKept, PointMoves
<1>10. QED
  BY <1>2, <1>7, <1>8, <1>9

\* A step of a thread preserves HoleInv: it is given live handles only.
LEMMA HoleThread ==
  ASSUME TypeInv, HoleInv, NEW t \in Threads, Thread(t)
  PROVE  HoleInv'
<1>1. /\ status = "running" /\ ~Ended(t) /\ params' = params
  BY AnyThread
<1>2. PICK k \in Kinds : AtWork(t, k)
  BY <1>1, Working
<1>3. /\ layer \in LayerNames /\ layer' = layer
      /\ \A p \in Objects : p # <<t, k>> => state'[p] = state[p]
      /\ OnlyMoves(t)
      /\ Stays \/ NextCall(t) \/ NextBlock(t)
  BY <1>1, <1>2, Frame DEF layer
<1>4. failed \subseteq failed'
  BY DEF Thread, ZeroHandle, MakeResource, AskFor, CallFails, Fails, GetInstance,
     Add, ReleaseResource, ReleaseFails, ReleaseNothing, GoesWild, UseReturns
<1> SUFFICES ASSUME Clean' PROVE HoleInv'
  BY DEF HoleInv
<1>5. Clean
  BY <1>3, <1>4 DEF Clean
<1>6. \A u \in Threads, j \in Kinds : Sound(u, j)
  BY <1>1, <1>3, <1>5 DEF HoleInv
<1>7. ~GoesWild(t)
  BY <1>1, <1>2, <1>6, SoundGiven DEF GoesWild
<1>8. status' # "undefined"
  <2>1. Advance(t) \/ Leave(t) => status' = status
    BY Advancing, Leaving
  <2>2. Recover(t) => status' # "undefined"
    BY <1>1, <2>1 DEF Recover, Terminate
  <2>3. QED
    BY <1>1, <1>7, <2>1, <2>2 DEF Thread, ZeroHandle, MakeResource, AskFor, CallFails,
       GetInstance, Add, ReleaseResource, ReleaseFails, ReleaseNothing, UseReturns
<1>9. ASSUME status' = "running", NEW u \in Threads, NEW j \in Kinds
      PROVE  Sound(u, j)'
  <2>1. /\ block[u] \in Nat /\ DropAt(u, j) \in Nat
        /\ MakeAt(u, j) \in {1, 2} /\ DropAt(t, k) \in {5, 6}
        /\ Sound(u, j)
    BY <1>6, Places DEF TypeInv, PlaceInv
  <2>2. block'[u] \in {block[u], block[u] + 1}
    BY <1>3 DEF OnlyMoves, Stays, NextCall, NextBlock
  <2>3. CASE u # t \/ j # k
    BY <1>1, <1>2, <2>1, <2>2, <2>3, Elsewhere, SoundKept
  <2>4. CASE u = t /\ j = k /\ Current(t).op \in MakingOps
    BY <1>2, <1>6, <1>9, <2>4, SoundMakes
  <2>5. CASE u = t /\ j = k /\ Current(t).op \notin MakingOps
    <3>1. block[t] > 3
      <4>1. Constructs(t, k) => Current(t).op \in MakingOps
        BY <1>1, <1>2, Calls DEF ConstructorCall, MakeShape, MakingOps
      <4>2. Listens(t, k) => Current(t).op \in MakingOps
        BY <1>1, <1>2, Calls DEF ListenCall, MakeShape, MakingOps
      <4>3. Measures(t, k) \/ Destructs(t, k)
        BY <1>2, <2>5, <4>1, <4>2 DEF AtWork
      <4>4. QED
        BY <2>1, <4>3 DEF Measures, Destructs
    <3>2. Owned(t, k)' = Owned(t, k)
      BY <1>1, <1>3, <2>1, <2>5, <3>1, OwnedKept DEF Stays
    <3>3. CASE state' = state
      BY <1>1, <2>1, <2>2, <2>5, <3>2, <3>3, SoundKept
    <3>4. CASE ReleaseResource(t)
      <4>1. Current(t).op \in Releases /\ Object(t) = <<t, k>>
        BY <1>2, <3>4 DEF ReleaseResource, At, AtWork
      <4>2. block[t] = DropAt(t, k)
        BY <1>1, <1>2, <4>1, CallOwned
      <4>3. ~(block'[t] < DropAt(t, k)') /\ Owned(t, k) \subseteq Resources
        <5>1. DropAt(t, k)' = DropAt(t, k)
          BY DEF DropAt
        <5>2. Live[k][layer][1] \subseteq Resources
          <6>1. 1 \in 1..Len(Destructor[k][layer]) + 1
            BY <1>3, Outlines DEF Drops
          <6>2. QED
            BY <1>3, <6>1, ClosedLive
        <5>3. QED
          BY <1>3, <2>1, <2>2, <2>5, <4>2, <5>1, <5>2, OwnedLive
      <4>4. \A q \in Resources :
              state'[<<t, k>>][q] \in {state[<<t, k>>][q], "shut", "gone"}
        BY <1>1, <3>4, <4>1, Releasing DEF After
      <4>5. QED
        BY <2>1, <2>5, <3>2, <4>3, <4>4 DEF Sound
    <3>5. QED
      BY <2>5, <3>3, <3>4 DEF Thread, ZeroHandle, MakeResource, AskFor, CallFails,
         GetInstance, Add, ReleaseFails, ReleaseNothing, GoesWild, UseReturns, At,
         MakingOps
  <2>6. QED
    BY <2>3, <2>4, <2>5
<1>10. QED
  BY <1>8, <1>9 DEF HoleInv

\* Every step preserves HoleInv.
LEMMA HoleStep ==
  ASSUME TypeInv, HoleInv, [Next]_vars
  PROVE  HoleInv'
<1>1. CASE UNCHANGED <<params, block, step, state, status, failed>>
  <2>1. layer' = layer /\ (Clean' <=> Clean)
    BY <1>1 DEF layer, Clean
  <2>2. ASSUME NEW t, NEW k
        PROVE  Sound(t, k)' <=> Sound(t, k)
    <3>1. Owned(t, k)' = Owned(t, k) /\ DropAt(t, k)' = DropAt(t, k)
      BY <1>1, <2>1 DEF Owned, Point, MakeAt, DropAt
    <3>2. QED
      BY <1>1, <2>1, <3>1 DEF Sound
  <2>3. QED
    BY <1>1, <2>1, <2>2 DEF HoleInv
<1>2. ASSUME NEW t \in Threads, Thread(t)
      PROVE  HoleInv'
  BY <1>2, HoleThread
<1>3. QED
  BY <1>1, <1>2 DEF Next, Main, InitRclcpp, Start, Join, ShutdownRclcpp, Halted,
     vars, control

\* A handle that was never assigned or is null is used after the failure of a
\* call of a constructor only, and after none of the failures in Survived.
THEOREM OnlyKnownHoles == Spec => []KnownHoles
<1>1. ASSUME HoleInv
      PROVE  KnownHoles
  BY <1>1 DEF HoleInv, KnownHoles, Clean, layer
<1>2. QED
  BY <1>1, HoleInit, HoleStep, TypeAlways, PTL DEF Spec

-----------------------------------------------------------------------------
(* What is left.                                                            *)

\* While nothing has failed, the live resources of an object are those its
\* methods have made and its destructor has not come to, and those that are shut
\* down are the ones it has still to finalise.
Exact(t, k) == \A r \in Resources :
  /\ state[<<t, k>>][r] = "live" <=>
       r \in Owned(t, k) \cap Live[k][layer][DropPoint(t, k)]
  /\ state[<<t, k>>][r] = "shut" <=> r \in Shut[k][layer][DropPoint(t, k)]

\* It holds of every object for as long as nothing has failed.
ExactInv ==
  failed = {} =>
    /\ status = "running"
    /\ layer \in LayerNames => \A t \in Threads, k \in Kinds : Exact(t, k)

\* The row of the destructor an object is at.
LEMMA DropNow ==
  ASSUME TypeInv, params' = params, NEW t \in Threads, NEW k \in Kinds
  PROVE  LET n == Len(Destructor[k][layer]) IN
         /\ block[t] < DropAt(t, k) => DropPoint(t, k) = 1
         /\ block[t] = DropAt(t, k) => DropPoint(t, k) = step[t]
         /\ block[t] > DropAt(t, k) => DropPoint(t, k) = n + 1
         /\ block[t] # DropAt(t, k) /\ (Stays \/ NextCall(t) \/ NextBlock(t)) =>
              DropPoint(t, k)' = DropPoint(t, k)
         /\ block[t] = DropAt(t, k) /\ NextCall(t) => DropPoint(t, k)' = step[t] + 1
         /\ block[t] = DropAt(t, k) /\ NextBlock(t) => DropPoint(t, k)' = n + 1
<1> PICK n : n = Len(Destructor[k][layer])
  OBVIOUS
<1> PICK b \in Nat : b = DropAt(t, k)
  BY Places
<1>1. b = DropAt(t, k)' /\ layer' = layer /\ block[t] \in Nat
  BY DEF DropAt, layer, TypeInv, PlaceInv
<1>2. DropPoint(t, k) = Point(t, b, n) /\ DropPoint(t, k)' = Point(t, b, n)'
  BY <1>1 DEF DropPoint
<1>3. Stays => Point(t, b, n)' = Point(t, b, n)
  BY PointMoves DEF Stays
<1>4. /\ NextCall(t) => Point(t, b, n)' =
           IF b = block[t] THEN step[t] + 1 ELSE Point(t, b, n)
      /\ NextBlock(t) => Point(t, b, n)' =
           IF b = block[t] THEN n + 1 ELSE Point(t, b, n)
  BY PointMoves
<1>5. /\ block[t] < b => Point(t, b, n) = 1
      /\ block[t] = b => Point(t, b, n) = step[t]
      /\ block[t] > b => Point(t, b, n) = n + 1
  BY <1>1 DEF Point
<1>6. QED
  BY <1>2, <1>3, <1>4, <1>5

\* At the start nothing is live.
LEMMA ExactInit == Init => ExactInv
<1> SUFFICES ASSUME Init PROVE ExactInv
  OBVIOUS
<1>1. TypeInv /\ status = "running"
  BY InitType DEF Init
<1>2. ASSUME layer \in LayerNames, NEW t \in Threads, NEW k \in Kinds
      PROVE  Exact(t, k)
  <2>1. block[t] = 1 /\ step[t] = 1 /\ MakeAt(t, k) \in {1, 2} /\ DropAt(t, k) \in {5, 6}
    BY Places DEF Init
  <2>2. Owned(t, k) = {}
    <3>1. CASE MakeAt(t, k) = 2
      BY <1>1, <1>2, <2>1, <3>1, OwnedNow
    <3>2. CASE MakeAt(t, k) = 1
      BY <1>1, <1>2, <2>1, <3>2, OwnedNow, FirstRows
    <3>3. QED
      BY <2>1, <3>1, <3>2
  <2>3. DropPoint(t, k) = 1
    BY <2>1 DEF DropPoint, Point
  <2>4. \A r \in Resources : state[<<t, k>>][r] \in {"raw", "null"}
    BY DEF Init, Objects, Kinds
  <2>5. QED
    BY <1>2, <2>2, <2>3, <2>4, FirstRows DEF Exact
<1>3. QED
  BY <1>1, <1>2 DEF ExactInv

\* A step that leaves an object alone.
LEMMA ExactKept ==
  ASSUME params' = params, NEW t, NEW k, Exact(t, k),
         Owned(t, k)' = Owned(t, k), DropPoint(t, k)' = DropPoint(t, k),
         state'[<<t, k>>] = state[<<t, k>>]
  PROVE  Exact(t, k)'
<1>1. layer' = layer
  BY DEF layer
<1>2. QED
  BY <1>1 DEF Exact

\* A call that makes something, or asks for it, and does not fail.
LEMMA ExactMakes ==
  ASSUME TypeInv, NEW t \in Threads, Thread(t), NEW k \in Kinds, AtWork(t, k),
         Current(t).op \in MakingOps, ~CallFails(t), ~GoesWild(t), Exact(t, k)
  PROVE  Advance(t) /\ Exact(t, k)'
<1> DEFINE o == <<t, k>>
<1> SUFFICES ASSUME NEW c, c = Current(t) PROVE Advance(t) /\ Exact(t, k)'
  OBVIOUS
<1>1. /\ ~Ended(t) /\ params' = params /\ Object(t) = o
      /\ layer \in LayerNames /\ layer' = layer
      /\ Stays \/ NextCall(t) \/ NextBlock(t)
  BY AnyThread, Frame DEF AtWork, layer
<1>2. \/ ZeroHandle(t) \/ MakeResource(t) \/ AskFor(t) \/ GetInstance(t) \/ Add(t)
  <2>1. c.op \notin Releases /\ c.op # "use"
    BY DEF MakingOps, Releases
  <2>2. QED
    BY <2>1 DEF Thread, ReleaseResource, ReleaseFails, ReleaseNothing, UseReturns, At
<1>3. Advance(t)
  BY <1>2 DEF ZeroHandle, MakeResource, AskFor, GetInstance, Add
<1>4. /\ Owned(t, k)' = Owned(t, k) \cup
           IF c.op \in {"make", "instance"} THEN {c.resource} ELSE {}
      /\ c.op = "zero" => c.resource \notin Owned(t, k)
      /\ c.op \in {"make", "instance"} => c.resource \in Live[k][layer][1]
  BY <1>1, <1>3, MadeNext
<1>5. DropPoint(t, k) = 1 /\ DropPoint(t, k)' = 1
  <2>1. block[t] < DropAt(t, k)
    BY <1>1, CallOwned
  <2>2. block[t] # DropAt(t, k)
    <3>1. block[t] \in Nat /\ DropAt(t, k) \in {5, 6}
      BY Places DEF TypeInv, PlaceInv
    <3>2. QED
      BY <2>1, <3>1
  <2>3. QED
    BY <1>1, <2>1, <2>2, DropNow
<1>6. Shut[k][layer][1] = {} /\ Owned(t, k) \subseteq Live[k][layer][1]
  BY <1>1, FirstRows, OwnedLive
<1>7. \A r \in Resources : (state[o][r] = "live" <=> r \in Owned(t, k))
                           /\ state[o][r] # "shut"
  BY <1>5, <1>6 DEF Exact
<1>8. ASSUME \A r \in Resources :
               /\ state'[o][r] = "live" <=> r \in Owned(t, k)'
               /\ state'[o][r] # "shut"
      PROVE  Exact(t, k)'
  <2>1. Owned(t, k)' \subseteq Live[k][layer][1]
    BY <1>4, <1>6
  <2>2. QED
    BY <1>1, <1>5, <1>6, <1>8, <2>1 DEF Exact
<1>9. ASSUME NEW s \in {"null", "live"}, Becomes(t, s)
      PROVE  \A q \in Resources :
               state'[o][q] = IF q = c.resource THEN s ELSE state[o][q]
  <2>1. s \in States
    BY DEF States
  <2>2. QED
    BY <1>1, <1>9, <2>1, Becoming
<1>10. CASE ZeroHandle(t)
  <2>1. Becomes(t, "null") /\ c.op = "zero"
    BY <1>10 DEF ZeroHandle, At
  <2>2. QED
    BY <1>3, <1>4, <1>7, <1>8, <1>9, <2>1
<1>11. CASE MakeResource(t) \/ GetInstance(t)
  <2>1. Becomes(t, "live") /\ c.op \in {"make", "instance"}
    BY <1>11 DEF MakeResource, GetInstance, At
  <2>2. QED
    BY <1>3, <1>4, <1>7, <1>8, <1>9, <2>1
<1>12. CASE AskFor(t) \/ Add(t)
  <2>1. state' = state /\ c.op \in {"ask", "add"}
    BY <1>12 DEF AskFor, Add, At
  <2>2. QED
    BY <1>3, <1>4, <1>7, <1>8, <2>1
<1>13. QED
  BY <1>2, <1>10, <1>11, <1>12

\* A call of a destructor finds what it releases as the table says.
LEMMA ExactReleases ==
  ASSUME TypeInv, NEW t \in Threads, Thread(t), NEW k \in Kinds, AtWork(t, k),
         Current(t).op \in Releases, ~GoesWild(t), Exact(t, k),
         failed = {}, failed' = {}
  PROVE  Advance(t) /\ Exact(t, k)'
<1> DEFINE o == <<t, k>>
           n == Len(Destructor[k][layer])
           A == Live[k][layer]
           U == Shut[k][layer]
<1> SUFFICES ASSUME NEW i, i = step[t], NEW c, c = Current(t)
             PROVE  Advance(t) /\ Exact(t, k)'
  OBVIOUS
<1>1. /\ ~Ended(t) /\ params' = params /\ Object(t) = o
      /\ layer \in LayerNames /\ layer' = layer
      /\ Stays \/ NextCall(t) \/ NextBlock(t)
  BY AnyThread, Frame DEF AtWork, layer
<1>2. block[t] = DropAt(t, k) /\ Destructs(t, k) /\ DestructorCall(t, k)
  BY <1>1, CallOwned, Calls
<1>3. /\ i \in 1..n /\ DropShape(layer, c)
      /\ DropRow(c, A[i], U[i], A[i + 1], U[i + 1])
      /\ Apart(A[1], A[i], U[i])
  BY <1>2 DEF DestructorCall
<1>4. Owned(t, k) = A[1] /\ Owned(t, k)' = A[1]
  <2>1. block[t] > 3 /\ block[t] # MakeAt(t, k) /\ block[t] # 3
    BY <1>2, Places
  <2>2. Owned(t, k) = A[1]
    BY <1>1, <2>1, OwnedNow
  <2>3. QED
    BY <1>1, <2>1, <2>2, OwnedKept DEF Stays
<1>5. DropPoint(t, k) = i
  BY <1>1, <1>2, DropNow
<1>6. \A r \in Resources : /\ state[o][r] = "live" <=> r \in A[i]
                           /\ state[o][r] = "shut" <=> r \in U[i]
  BY <1>3, <1>4, <1>5 DEF Exact, Apart
<1> HIDE DEF o, n, A, U
<1>7. Of(t, c.resource) = Before(t)
  BY <1>1, <1>3, <1>6 DEF DropShape, DropRow, Releases, Of, Before
<1>8. Given(t) \cap {"null", "gone"} = {}
  <2>1. \A r \in c.from : state[o][r] = "live"
    BY <1>3, <1>6 DEF DropRow, Apart
  <2>2. QED
    BY <1>1, <2>1 DEF Given, Of
<1>9. ReleaseResource(t)
  <2>1. ~ReleaseFails(t)
    BY <1>8 DEF ReleaseFails, Fails
  <2>2. ~ReleaseNothing(t)
    BY <1>7 DEF ReleaseNothing
  <2>3. c.op \notin MakingOps \cup {"use"}
    BY DEF MakingOps, Releases
  <2>4. QED
    BY <2>1, <2>2, <2>3 DEF Thread, ZeroHandle, MakeResource, AskFor, CallFails,
       GetInstance, Add, UseReturns, At, MakingOps
<1>10. Advance(t)
  BY <1>9 DEF ReleaseResource
<1>11. DropPoint(t, k)' = i + 1
  <2>1. Steps(t) = Destructor[k][layer]
    BY <1>2 DEF Destructs
  <2>2. NextCall(t) \/ (i = n /\ NextBlock(t))
    BY <1>10, <2>1, Advancing DEF n
  <2>3. QED
    BY <1>1, <1>2, <2>2, DropNow DEF n
<1>12. \A q \in Resources : state'[o][q] =
         IF q = c.resource \/ (q \in c.also /\ state[o][q] = "live")
         THEN After(t) ELSE state[o][q]
  BY <1>1, <1>9, Releasing
<1>13. \A r \in Resources : /\ state'[o][r] = "live" <=> r \in A[i + 1]
                            /\ state'[o][r] = "shut" <=> r \in U[i + 1]
  <2>1. CASE c.op = "release"
    BY <1>3, <1>6, <1>12, <2>1 DEF DropRow, Apart, After
  <2>2. CASE c.op = "shutdown"
    BY <1>3, <1>6, <1>12, <2>2 DEF DropRow, Apart, After
  <2>3. CASE c.op = "finalise"
    BY <1>3, <1>6, <1>12, <2>3 DEF DropRow, Apart, After
  <2>4. QED
    BY <2>1, <2>2, <2>3 DEF Releases
<1>14. A[i + 1] \subseteq A[1]
  BY <1>3 DEF DropShape, Releases, DropRow, Apart
<1>15. QED
  BY <1>1, <1>4, <1>10, <1>11, <1>13, <1>14 DEF Exact, o, A, U

\* A step of a thread preserves ExactInv.
LEMMA ExactThread ==
  ASSUME TypeInv, HoleInv, ExactInv, NEW t \in Threads, Thread(t)
  PROVE  ExactInv'
<1>1. status = "running" /\ ~Ended(t) /\ params' = params /\ layer' = layer
  BY AnyThread DEF layer
<1>2. PICK k \in Kinds : AtWork(t, k)
  BY <1>1, Working
<1>3. layer \in LayerNames /\ (Stays \/ NextCall(t) \/ NextBlock(t))
  BY <1>2, Frame
<1> SUFFICES ASSUME failed' = {} PROVE ExactInv'
  BY DEF ExactInv
<1>4. failed = {}
  BY DEF Thread, ZeroHandle, MakeResource, AskFor, CallFails, Fails, GetInstance,
     Add, ReleaseResource, ReleaseFails, ReleaseNothing, GoesWild, UseReturns
<1>5. /\ \A u \in Threads, j \in Kinds : Exact(u, j)
      /\ \A j \in Kinds : Sound(t, j)
  BY <1>1, <1>3, <1>4 DEF ExactInv, HoleInv, Clean
<1>6. ~GoesWild(t) /\ (Current(t).op \in MakingOps => Given(t) \subseteq {"live"})
  BY <1>1, <1>2, <1>5, SoundGiven DEF GoesWild
<1>7. Advance(t) /\ Exact(t, k)'
  <2>1. CASE Current(t).op \in MakingOps
    <3>1. ~CallFails(t)
      BY <1>4, <1>6, <2>1 DEF CallFails, Fails
    <3>2. QED
      BY <1>2, <1>5, <1>6, <2>1, <3>1, ExactMakes
  <2>2. CASE Current(t).op \in Releases
    BY <1>2, <1>4, <1>5, <1>6, <2>2, ExactReleases
  <2>3. CASE Current(t).op \notin MakingOps \cup Releases
    <3>1. UseReturns(t)
      BY <1>6, <2>3 DEF Thread, ZeroHandle, MakeResource, AskFor, CallFails,
         GetInstance, Add, ReleaseResource, ReleaseFails, ReleaseNothing, At,
         MakingOps
    <3>2. block[t] = 4 /\ Advance(t) /\ state' = state
      BY <1>1, <1>2, <3>1, CallOwned DEF UseReturns, At
    <3>3. block[t] # MakeAt(t, k) /\ block[t] # DropAt(t, k) /\ block[t] # 3
      BY <3>2, Places
    <3>4. Owned(t, k)' = Owned(t, k)
      BY <1>1, <1>3, <3>3, OwnedKept DEF Stays
    <3>5. DropPoint(t, k)' = DropPoint(t, k)
      BY <1>1, <1>3, <3>3, DropNow
    <3>6. QED
      BY <1>1, <1>5, <3>2, <3>4, <3>5, ExactKept
  <2>4. QED
    BY <2>1, <2>2, <2>3
<1>8. status' = "running"
  BY <1>1, <1>7, Advancing
<1>9. ASSUME NEW u \in Threads, NEW j \in Kinds
      PROVE  Exact(u, j)'
  <2>1. CASE u = t /\ j = k
    BY <1>7, <2>1
  <2>2. CASE u # t \/ j # k
    <3>1. /\ state'[<<u, j>>] = state[<<u, j>>]
          /\ Owned(u, j)' = Owned(u, j) /\ DropPoint(u, j)' = DropPoint(u, j)
      BY <1>2, <2>2, Elsewhere
    <3>2. QED
      BY <1>1, <1>5, <3>1, ExactKept
  <2>3. QED
    BY <2>1, <2>2
<1>10. QED
  BY <1>8, <1>9 DEF ExactInv

\* Every step preserves ExactInv.
LEMMA ExactStep ==
  ASSUME TypeInv, HoleInv, ExactInv, [Next]_vars
  PROVE  ExactInv'
<1>1. CASE UNCHANGED <<params, block, step, state, status, failed>>
  <2>1. layer' = layer
    BY <1>1 DEF layer
  <2>2. ASSUME NEW t, NEW k
        PROVE  Exact(t, k)' <=> Exact(t, k)
    <3>1. Owned(t, k)' = Owned(t, k) /\ DropPoint(t, k)' = DropPoint(t, k)
      BY <1>1, <2>1 DEF Owned, DropPoint, Point, MakeAt, DropAt
    <3>2. QED
      BY <1>1, <2>1, <3>1 DEF Exact
  <2>3. QED
    BY <1>1, <2>1, <2>2 DEF ExactInv
<1>2. ASSUME NEW t \in Threads, Thread(t)
      PROVE  ExactInv'
  BY <1>2, ExactThread
<1>3. QED
  BY <1>1, <1>2 DEF Next, Main, InitRclcpp, Start, Join, ShutdownRclcpp, Halted,
     vars, control

\* The last rows of the table of a destructor are what it leaves.
LEMMA LastRows ==
  ASSUME NEW k \in Kinds, NEW l \in LayerNames, NEW n, n = Len(Destructor[k][l])
  PROVE  /\ (Live[k][l][n + 1] \cup Shut[k][l][n + 1]) \ {"callback"} = Leaked[k][l]
         /\ Live[k][l][n + 1] \subseteq Live[k][l][1]
         /\ Live[k][l][n + 1] \cup Shut[k][l][n + 1] \subseteq Resources
<1> DEFINE T == Destructor[k][l]
           A == Live[k][l]
           U == Shut[k][l]
<1>1. Drops(k, l, T, A, U) /\ n = Len(T)
  BY Outlines
<1> HIDE DEF T, A, U
<1>2. /\ n \in 1..8
      /\ (A[n + 1] \cup U[n + 1]) \ {"callback"} = Leaked[k][l]
  <2>1. Len(T) \in 1..8
    BY <1>1 DEF Drops
  <2>2. (A[Len(T) + 1] \cup U[Len(T) + 1]) \ {"callback"} = Leaked[k][l]
    BY <1>1, Zenon DEF Drops
  <2>3. QED
    BY <1>1, <2>1, <2>2
<1>3. n \in 1..Len(T)
  BY <1>1, <1>2
<1>4. /\ DropShape(l, T[n]) /\ Apart(A[1], A[n], U[n])
      /\ DropRow(T[n], A[n], U[n], A[n + 1], U[n + 1])
  BY <1>1, <1>3 DEF Drops
<1>5. A[n + 1] \subseteq A[1] /\ A[n + 1] \cup U[n + 1] \subseteq Resources
  BY <1>4 DEF DropShape, DropRow, Apart, Releases
<1>6. QED
  BY <1>2, <1>5 DEF A, U, T

\* What is left of each object when main has ended.
LEMMA LeftOver ==
  ASSUME TypeInv, ThreadInv, ExactInv, main = "ended", failed = {},
         layer \in LayerNames, NEW t \in Threads, NEW k \in Kinds
  PROVE  {r \in Resources \ {"callback"} : state[<<t, k>>][r] \in {"live", "shut"}} =
           IF Started(t) THEN Leaked[k][layer] ELSE {}
<1>1. CASE ~Started(t)
  BY <1>1 DEF ThreadInv
<1>2. CASE Started(t)
  <2>1. /\ joined = Len(ThreadsOf(params))
        /\ started \in 0..Len(ThreadsOf(params)) /\ joined \in 0..started
        /\ Len(ThreadsOf(params)) \in 0..2
    BY ThreadLists DEF ThreadInv, TypeInv, TypeOK
  <2>2. Ended(t)
    <3>1. PICK i \in 1..started : ThreadsOf(params)[i] = t
      BY <1>2 DEF Started
    <3>2. i \in 1..joined
      BY <2>1
    <3>3. QED
      BY <3>1, <3>2 DEF ThreadInv
  <2>3. block[t] > DropAt(t, k) /\ block[t] > 3
    <3>1. block[t] \in Nat /\ DropAt(t, k) \in {5, 6} /\ Len(Program(t)) = 6
      BY Blocks, Places DEF TypeInv, PlaceInv
    <3>2. QED
      BY <2>2, <3>1 DEF Ended
  <2> PICK n : n = Len(Destructor[k][layer])
    OBVIOUS
  <2>4. Owned(t, k) = Live[k][layer][1]
    BY <2>3, OwnedNow
  <2>5. DropPoint(t, k) = n + 1
    <3>1. block[t] \in Nat /\ DropAt(t, k) \in {5, 6}
      BY Places DEF TypeInv, PlaceInv
    <3>2. QED
      BY <2>3, <3>1 DEF DropPoint, Point
  <2>6. Exact(t, k)
    BY DEF ExactInv
  <2>7. \A r \in Resources : state[<<t, k>>][r] \in {"live", "shut"} <=>
          r \in Live[k][layer][n + 1] \cup Shut[k][layer][n + 1]
    BY <2>4, <2>5, <2>6, LastRows DEF Exact
  <2>8. QED
    BY <1>2, <2>7, LastRows
<1>3. QED
  BY <1>1, <1>2

\* When main has ended and no call has failed, every resource that was made has
\* been released, but for those two_way's destructors never release.
THEOREM OnlyKnownLeaks == Spec => []NothingElseLeft
<1>1. Init => ThreadInv /\ HoleInv /\ ExactInv
  BY ThreadInit, HoleInit, ExactInit
<1>2. TypeInv /\ ThreadInv /\ HoleInv /\ ExactInv /\ [Next]_vars
        => (ThreadInv /\ HoleInv /\ ExactInv)'
  BY ThreadStep, HoleStep, ExactStep
<1>3. ASSUME TypeInv, ThreadInv, ExactInv
      PROVE  NothingElseLeft
  <2>1. SUFFICES ASSUME main = "ended", failed = {}, params.layer # "other",
                        NEW t \in Threads, NEW k \in {"sub", "pub"}
                 PROVE  {r \in Resources \ {"callback"} :
                          state[<<t, k>>][r] \in {"live", "shut"}} =
                          IF Started(t) THEN Leaked[k][params.layer] ELSE {}
    BY DEF NothingElseLeft
  <2>2. layer \in LayerNames /\ k \in Kinds
    BY <1>3, <2>1 DEF TypeInv, TypeOK, Params, layer, LayerNames, Kinds
  <2>3. QED
    BY <1>3, <2>1, <2>2, LeftOver DEF layer
<1>4. QED
  BY <1>1, <1>2, <1>3, TypeAlways, PTL DEF Spec

-----------------------------------------------------------------------------
(* The command line.                                                        *)

\* The words that are spelt from a set of strings, and the strings of Lines.
Words(spelt) == [kind : {"word", "option", "joined", "unknown"},
                 name : spelt, text : spelt]

Strings == {"none", "two_way", "layer", "type", "side", "pong_topn_filename",
            "ping_hist_filename", "rclcpp", "rcl", "rmw", "dds", "intra",
            "inter", "ping", "pong", "top.csv", "hist.csv", "i", "u", "i1000",
            "1000", "10ms", "u10ms"}

\* A set of naturals has a least element.
LEMMA Least ==
  ASSUME NEW T \in SUBSET Nat, T # {}
  PROVE  \E m \in T : \A k \in T : m <= k
<1> DEFINE R == {ss \in Nat \X Nat : ss[1] < ss[2]}
<1>1. IsWellFoundedOn(R, Nat)
  BY NatLessThanWellFounded DEF OpToRel
<1> HIDE DEF R
<1>2. \E m \in T : \A k \in T : ~(<<k, m>> \in R)
  BY <1>1, WFMin
<1>3. \A m, k \in Nat : ~(<<k, m>> \in R) => m <= k
  BY DEF R
<1>4. QED
  BY <1>2, <1>3

\* Max is the greatest element of a set of naturals that has a bound.
LEMMA Greatest ==
  ASSUME NEW b \in Nat, NEW T \in SUBSET (0..b), T # {}
  PROVE  Max(T) \in T /\ \A k \in T : k <= Max(T)
<1> DEFINE U == {b - k : k \in T}
<1>1. U \in SUBSET Nat /\ U # {}
  <2>1. \A k \in T : b - k \in Nat
    OBVIOUS
  <2>2. QED
    BY <2>1
<1>2. PICK u \in U : \A k \in U : u <= k
  BY <1>1, Least
<1>3. PICK m \in T : u = b - m
  BY <1>2
<1>4. \A k \in T : m >= k
  <2>1. ASSUME NEW k \in T
        PROVE  m >= k
    <3>1. b - m <= b - k
      BY <1>2, <1>3
    <3>2. QED
      BY <3>1
  <2>2. QED
    BY <2>1
<1>5. Max(T) \in T /\ \A k \in T : Max(T) >= k
  BY <1>4 DEF Max
<1>6. QED
  BY <1>5

\* The positions of the options of the first n words, and the one behind them.
Heads(n) ==
  {i \in 1..(n + 1) : i <= n => line[i].kind # "word"}

\* On a line in the documented order getopt_long comes by every option of
\* two_way, and by nothing behind the first one of rttest but its argument.
LEMMA WalkCloses ==
  ASSUME NEW spelt, line \in Seq(Words(spelt)), NEW n \in 0..Len(line), OwnFirst(n)
  PROVE  Passes(line, Heads(n) \cup {n + 2})
<1> DEFINE S == Heads(n) \cup {n + 2}
<1> USE DEF Heads
<1>1. 1 \in S
  BY DEF OwnFirst
<1>2. ASSUME NEW i \in S, i <= Len(line), line[i].kind # "word"
      PROVE  NextWord(line, i) \in S
  <2>1. CASE i <= n /\ line[i].kind = "option"
    <3>1. i < n /\ i + 1 \in 1..n /\ line[i + 1].kind = "word"
      <4>1. i # n
        BY <2>1 DEF OwnFirst
      <4>2. i < n /\ i + 1 \in 1..n /\ i + 1 > 1 /\ (i + 1) - 1 = i
        BY <2>1, <4>1
      <4>3. QED
        BY <2>1, <4>2 DEF OwnFirst
    <3>2. i + 2 <= n => line[i + 2].kind # "word"
      <4>1. (i + 2) - 1 = i + 1
        OBVIOUS
      <4>2. QED
        BY <3>1, <4>1 DEF OwnFirst
    <3>3. QED
      BY <2>1, <3>1, <3>2 DEF NextWord
  <2>2. CASE i <= n /\ line[i].kind # "option"
    <3>1. i + 1 <= n => line[i + 1].kind # "word"
      <4>1. (i + 1) - 1 = i
        OBVIOUS
      <4>2. QED
        BY <2>2, <4>1 DEF OwnFirst
    <3>2. QED
      BY <2>2, <3>1 DEF NextWord
  <2>3. CASE i = n + 1
    BY <1>2, <2>3 DEF NextWord, OwnFirst
  <2>4. CASE i = n + 2
    BY <1>2, <2>4 DEF OwnFirst
  <2>5. QED
    BY <2>1, <2>2, <2>3, <2>4
<1>3. QED
  BY <1>1, <1>2 DEF Passes

\* And it does come by all of these options: each follows from the one before.
LEMMA WalkMeets ==
  ASSUME NEW spelt, line \in Seq(Words(spelt)), NEW n \in 0..Len(line), OwnFirst(n),
         NEW S \in SUBSET Nat, Passes(line, S)
  PROVE  Heads(n) \subseteq S
<1> USE DEF Heads
<1> DEFINE T == Heads(n) \ S
<1>1. SUFFICES ASSUME T # {}
              PROVE  FALSE
  OBVIOUS
<1>2. PICK m \in T : \A k \in T : m <= k
  <2>1. T \in SUBSET Nat
    OBVIOUS
  <2>2. QED
    BY <1>1, <2>1, Least
<1>3. m - 1 \in 1..n
  BY <1>2 DEF Passes
<1>4. CASE line[m - 1].kind = "word"
  <2>1. m - 2 \in 1..n /\ line[m - 2].kind = "option"
    <3>1. (m - 1) - 1 = m - 2 /\ m - 1 > 1 => m - 2 \in 1..n
      BY <1>3
    <3>2. QED
      BY <1>3, <1>4, <3>1 DEF OwnFirst
  <2>2. m - 2 \in S
    BY <1>2, <2>1
  <2>3. NextWord(line, m - 2) = m
    BY <2>1 DEF NextWord
  <2>4. QED
    BY <1>2, <2>1, <2>2, <2>3 DEF Passes
<1>5. CASE line[m - 1].kind # "word"
  <2>1. line[m - 1].kind # "option"
    <3>1. CASE m <= n
      <4>1. m > 1 /\ m \in 1..n
        BY <1>3, <3>1
      <4>2. QED
        BY <1>2, <3>1, <4>1 DEF OwnFirst
    <3>2. CASE m = n + 1
      <4>1. m - 1 = n /\ n > 0
        BY <1>3, <3>2
      <4>2. QED
        BY <4>1 DEF OwnFirst
    <3>3. QED
      BY <1>2, <3>1, <3>2
  <2>2. m - 1 \in S
    BY <1>2, <1>3, <1>5
  <2>3. NextWord(line, m - 1) = m
    BY <1>3, <2>1 DEF NextWord
  <2>4. QED
    BY <1>2, <1>3, <1>5, <2>2, <2>3 DEF Passes
<1>6. QED
  BY <1>4, <1>5

\* So it finds exactly these.
LEMMA WalkIs ==
  ASSUME NEW spelt, line \in Seq(Words(spelt)), NEW n \in 0..Len(line), OwnFirst(n)
  PROVE  Reached(line) = Heads(n) \cap (1..Len(line))
<1> DEFINE All == 1..(Len(line) + 2)
<1>1. Heads(n) \cup {n + 2} \in SUBSET All
  BY DEF Heads
<1>2. Walk(line) \subseteq Heads(n) \cup {n + 2}
  BY <1>1, WalkCloses DEF Walk
<1>3. Heads(n) \subseteq Walk(line)
  <2>1. \A S \in SUBSET All : Passes(line, S) => Heads(n) \subseteq S
    <3>1. \A S \in SUBSET All : S \in SUBSET Nat
      OBVIOUS
    <3>2. QED
      BY <3>1, WalkMeets
  <2>2. QED
    BY <1>1, <2>1 DEF Walk
<1>4. n + 2 <= Len(line) => line[n + 2].kind = "word"
  BY DEF OwnFirst
<1>5. \A i \in Heads(n) : i <= Len(line) => line[i].kind # "word"
  BY DEF OwnFirst, Heads
<1>6. Heads(n) \subseteq 1..(n + 1)
  BY DEF Heads
<1>7. QED
  BY <1>2, <1>3, <1>4, <1>5, <1>6 DEF Reached

\* Of a line in the documented order rttest is given its own options.
LEMMA RestToRttest ==
  ASSUME NEW spelt, {"none", "two_way"} \subseteq spelt, line \in Seq(Words(spelt)),
         NEW n \in 0..Len(line), OwnFirst(n), n < Len(line)
  PROVE  ToRttest(line) = SubSeq(line, n + 1, Len(line))
<1>1. n + 1 \in Reached(line) /\ Reached(line) \in SUBSET (0..(n + 1))
  BY WalkIs DEF Heads
<1>2. Max(Reached(line)) = n + 1
  <2>1. Max(Reached(line)) \in Reached(line)
        /\ \A k \in Reached(line) : k <= Max(Reached(line))
    <3>1. n + 1 \in Nat /\ Reached(line) # {}
      BY <1>1
    <3>2. QED
      BY <1>1, <3>1, Greatest
  <2>2. QED
    BY <1>1, <2>1
<1>3. NextWord(line, n + 1) = n + 2 /\ n + 2 <= Len(line)
  BY DEF NextWord, OwnFirst
<1>4. optind(line) = n + 2
  <2>1. Min({n + 2, Len(line) + 1}) = n + 2
    BY <1>3 DEF Min
  <2>2. QED
    BY <1>1, <1>2, <1>3, <2>1 DEF optind
<1> DEFINE argv == << Word("two_way") >> \o line
<1>5. argv \in Seq(Words(spelt)) /\ Len(argv) = Len(line) + 1
      /\ \A i \in 1..Len(line) : argv[i + 1] = line[i]
  <2>1. << Word("two_way") >> \in Seq(Words(spelt))
    BY DEF Word, Words
  <2>2. QED
    BY <2>1, ConcatProperties
<1>6. SubSeq(argv, n + 2, Len(line) + 1) = SubSeq(line, n + 1, Len(line))
  <2> DEFINE given == SubSeq(argv, n + 2, Len(line) + 1)
             rest  == SubSeq(line, n + 1, Len(line))
  <2> HIDE DEF argv
  <2>1. \A i \in 1..(Len(line) - n) :
          argv[(n + 2) + i - 1] = line[(n + 1) + i - 1]
    <3>1. ASSUME NEW i \in 1..(Len(line) - n)
          PROVE  argv[(n + 2) + i - 1] = line[(n + 1) + i - 1]
      <4>1. n + i \in 1..Len(line) /\ (n + 2) + i - 1 = (n + i) + 1
            /\ (n + 1) + i - 1 = n + i
        OBVIOUS
      <4>2. QED
        BY <1>5, <4>1
    <3>2. QED
      BY <3>1
  <2>2. /\ given \in Seq(Words(spelt))
        /\ Len(given) = Len(line) - n
        /\ \A i \in 1..(Len(line) - n) :
             given[i] = argv[(n + 2) + i - 1]
    <3>1. \A i \in (n + 2)..(Len(line) + 1) : argv[i] \in Words(spelt)
      BY <1>5
    <3>2. (Len(line) + 1) - (n + 2) + 1 = Len(line) - n
          /\ n + 2 <= Len(line) + 1
      OBVIOUS
    <3>3. QED
      BY <3>1, <3>2, SubSeqProperties
  <2>3. /\ rest \in Seq(Words(spelt))
        /\ Len(rest) = Len(line) - n
        /\ \A i \in 1..(Len(line) - n) :
             rest[i] = line[(n + 1) + i - 1]
    <3>1. \A i \in (n + 1)..Len(line) : line[i] \in Words(spelt)
      OBVIOUS
    <3>2. Len(line) - (n + 1) + 1 = Len(line) - n /\ n + 1 <= Len(line)
      OBVIOUS
    <3>3. QED
      BY <3>1, <3>2, SubSeqProperties
  <2>4. QED
    <3> HIDE DEF given, rest
    <3>1. Len(given) = Len(rest) /\ \A i \in 1..Len(given) : given[i] = rest[i]
      BY <2>1, <2>2, <2>3
    <3>2. given = rest
      BY <2>2, <2>3, <3>1, SeqEqual
    <3>3. QED
      BY <3>2 DEF given, rest
<1>7. QED
  BY <1>4, <1>6 DEF ToRttest

\* get_params hears the last of the options of each name.
LEMMA LastHeard ==
  ASSUME NEW spelt, line \in Seq(Words(spelt)), NEW n \in 0..Len(line), OwnFirst(n),
         NEW i \in 1..n, line[i].kind # "word"
  PROVE  \/ Value(line, line[i].name) = optarg(line, i)
         \/ \E j \in (i + 1)..n : line[j].name = line[i].name
<1> DEFINE o == line[i].name
           heard == {k \in Reached(line) :
                       /\ line[k].kind \in {"option", "joined"}
                       /\ line[k].name = o
                       /\ line[k] = Option(o) => k < Len(line)}
<1>1. i \in heard
  <2>1. i \in Reached(line)
    BY WalkIs DEF Heads
  <2>2. line[i].kind \in {"option", "joined"}
    <3>1. line[i] \in Words(spelt)
      OBVIOUS
    <3>2. line[i].kind # "unknown"
      BY DEF OwnFirst
    <3>3. QED
      BY <3>1, <3>2 DEF Words
  <2>3. line[i] = Option(o) => i < Len(line)
    BY DEF OwnFirst, Option
  <2>4. QED
    BY <2>1, <2>2, <2>3
<1>3. heard \in SUBSET (1..n)
  <2>1. n < Len(line) => line[n + 1].kind = "unknown"
    BY DEF OwnFirst
  <2>2. Reached(line) \subseteq 1..(n + 1) \cap 1..Len(line)
    BY WalkIs DEF Heads
  <2>3. QED
    BY <2>1, <2>2
<1>4. Value(line, o) = optarg(line, Max(heard))
  BY <1>1 DEF Value
<1> HIDE DEF heard
<1>5. Max(heard) \in heard /\ i <= Max(heard)
  <2>1. heard \in SUBSET (0..n) /\ heard # {} /\ n \in Nat
    BY <1>1, <1>3
  <2>2. QED
    BY <1>1, <2>1, Greatest
<1>6. Max(heard) \in 1..n /\ line[Max(heard)].name = o
  BY <1>3, <1>5 DEF heard
<1>7. CASE Max(heard) = i
  BY <1>4, <1>7
<1>8. CASE Max(heard) # i
  <2>1. Max(heard) \in (i + 1)..n
    BY <1>5, <1>6, <1>8
  <2>2. QED
    BY <1>6, <2>1
<1>9. QED
  BY <1>7, <1>8

\* The lines that the runs try are lines of words.
LEMMA LinesOfWords ==
  Lines \subseteq Seq(Words(Strings))
<1> DEFINE W == Words(Strings)
<1>1. \A v \in Strings : Word(v) \in W /\ Option(v) \in W /\ Unknown(v) \in W
  BY DEF Word, Option, Unknown, Words, Strings
<1>2. \A o, v \in Strings : Joined(o, v) \in W
  BY DEF Joined, Words, Strings
<1>3. \A o \in {"type", "layer", "side", "ping_hist_filename"} : Option(o) \in W
  BY <1>1 DEF Strings
<1>4. \A v \in {"intra", "1000", "10ms", "rcl", "dds", "hist.csv"} : Word(v) \in W
  BY <1>1 DEF Strings
<1>5. \A o \in {"i", "u", "i1000", "u10ms"} : Unknown(o) \in W
  BY <1>1 DEF Strings
<1>6. /\ Joined("layer", "rcl") \in W /\ Joined("layer", "rmw") \in W
      /\ Joined("type", "inter") \in W
      /\ Joined("pong_topn_filename", "top.csv") \in W
  BY <1>2 DEF Strings
<1> HIDE DEF W
<1>7. \A s, t \in Seq(W) : s \o t \in Seq(W)
  OBVIOUS
<1>8. \A o, v \in Strings : /\ << Joined(o, v) >> \in Seq(W)
                            /\ << Option(o), Word(v) >> \in Seq(W)
  BY <1>1, <1>2
<1>9. \A l \in LayerNames :
        /\ << Joined("layer", l) >> \in Seq(W)
        /\ << Option("layer"), Word(l) >> \in Seq(W)
  BY <1>8 DEF Strings, LayerNames
<1>10. \A r \in {"intra", "inter"} :
         /\ << Joined("type", r) >> \in Seq(W)
         /\ << Option("type"), Word(r) >> \in Seq(W)
  BY <1>8 DEF Strings
<1>11. \A r \in {"ping", "pong"} :
         /\ << Joined("side", r) >> \in Seq(W)
         /\ << Option("side"), Word(r) >> \in Seq(W)
  BY <1>8 DEF Strings
<1>12. ASSUME NEW j \in BOOLEAN, NEW l \in LayerNames,
              NEW run \in Runs
       PROVE  Own(j, l, run) \in Seq(W)
  <2>1. Form(j, "layer", l) \in Seq(W)
    BY <1>9 DEF Form
  <2>2. \A r \in {"intra", "inter"} :
          Form(j, "type", r) \in Seq(W) /\ Form(~j, "type", r) \in Seq(W)
    BY <1>10 DEF Form
  <2>3. \A r \in {"ping", "pong"} : Form(j, "side", r) \in Seq(W)
    BY <1>11 DEF Form
  <2>4. QED
    BY <1>7, <2>1, <2>2, <2>3 DEF Own, Runs
<1>13. ASSUME NEW l \in LayerNames
       PROVE  Rttest[l] \in Seq(W)
  <2>1. << Unknown("i"), Word("1000"), Unknown("u"), Word("10ms") >> \in Seq(W)
    BY <1>4, <1>5
  <2>2. << Unknown("i"), Word("1000"), Unknown("u10ms") >> \in Seq(W)
    BY <1>4, <1>5
  <2>3. << Unknown("u"), Word("10ms"), Option("layer"), Word("dds") >> \in Seq(W)
    BY <1>3, <1>4, <1>5
  <2>4. << >> \in Seq(W)
    OBVIOUS
  <2>5. /\ Rttest["rclcpp"] \in Seq(W) /\ Rttest["rcl"] \in Seq(W)
        /\ Rttest["rmw"] \in Seq(W) /\ Rttest["dds"] \in Seq(W)
    BY <2>1, <2>2, <2>3, <2>4, Zenon DEF Rttest
  <2>6. QED
    BY <2>5 DEF LayerNames
<1>14. ASSUME NEW l \in LayerNames,
              NEW run \in Runs
       PROVE  Usage(l, run) \in Seq(W)
  <2>1. Own(TRUE, l, run) \in Seq(W) /\ Own(FALSE, l, run) \in Seq(W)
    BY <1>12 DEF LayerNames, Runs
  <2>2. CASE l \in {"rclcpp", "rmw"}
    <3>1. Own(l \in {"rclcpp", "rmw"}, l, run) = Own(TRUE, l, run)
      BY <2>2 DEF Own, Form
    <3>2. QED
      BY <1>7, <1>13, <2>1, <3>1 DEF Usage
  <2>3. CASE l \notin {"rclcpp", "rmw"}
    <3>1. Own(l \in {"rclcpp", "rmw"}, l, run) = Own(FALSE, l, run)
      BY <2>3 DEF Own, Form
    <3>2. QED
      BY <1>7, <1>13, <2>1, <3>1 DEF Usage
  <2>4. QED
    BY <2>2, <2>3
<1>15. << >> \in Seq(W)
  OBVIOUS
<1>16. Own(TRUE, "rmw", "inter pong") \o << Option("side") >> \in Seq(W)
  <2>1. << Option("side") >> \in Seq(W)
    BY <1>3
  <2>2. Own(TRUE, "rmw", "inter pong") \in Seq(W)
    BY <1>12 DEF LayerNames, Runs
  <2>3. QED
    BY <1>7, <2>1, <2>2
<1>17. << Option("type"), Word("intra"), Option("layer") >> \in Seq(W)
  BY <1>3, <1>4
<1>18. << Option("layer"), Option("type"), Word("intra") >> \in Seq(W)
  BY <1>3, <1>4
<1>19. << Unknown("i"), Word("1000"), Joined("layer", "rcl") >> \in Seq(W)
  BY <1>4, <1>5, <1>6
<1>20. << Unknown("i1000"), Joined("type", "inter"), Unknown("u10ms") >>
         \in Seq(W)
  BY <1>5, <1>6
<1>21. << Joined("layer", "rmw"), Joined("pong_topn_filename", "top.csv"),
          Word("intra"), Option("type"), Word("intra") >> \in Seq(W)
  BY <1>3, <1>4, <1>6
<1>22. << Option("layer"), Word("rcl"), Option("ping_hist_filename"),
          Word("hist.csv"), Unknown("i"), Word("1000") >> \in Seq(W)
  BY <1>3, <1>4, <1>5
<1>23. Usages \subseteq Seq(W)
  BY <1>14 DEF Usages
<1>24. OtherLines \subseteq Seq(W)
  BY <1>15, <1>16, <1>17, <1>18, <1>19, <1>20, <1>21, <1>22, Zenon DEF OtherLines
<1>25. QED
  BY <1>23, <1>24 DEF Lines, W

\* Of each command line of Lines that has two_way's options first, get_params hears
\* the last option of each name and rttest is given all of its own and no other:
\* the arithmetic on optind neither loses nor doubles a word.
THEOREM EachParserHearsItsOwn ==
  Spec => []OptionsHeard
<1>1. TypeOK => OptionsHeard
  <2> SUFFICES ASSUME TypeOK, NEW n \in 0..Len(line), OwnFirst(n)
               PROVE  /\ n < Len(line) =>
                           ToRttest(line) = SubSeq(line, n + 1, Len(line))
                      /\ \A i \in 1..n : line[i].kind # "word" =>
                           \/ Value(line, line[i].name) = optarg(line, i)
                           \/ \E j \in (i + 1)..n :
                                line[j].name = line[i].name
    BY DEF OptionsHeard
  <2>1. line \in Seq(Words(Strings))
    BY LinesOfWords DEF TypeOK
  <2>2. {"none", "two_way"} \subseteq Strings
    BY DEF Strings
  <2>3. QED
    BY <2>1, <2>2, RestToRttest, LastHeard
<1>2. QED
  BY <1>1, TypeCorrect, PTL

=============================================================================
