------------------------------- MODULE TwoWay -------------------------------
(***************************************************************************)
(* The measurement program from the first to the last line of main         *)
(* (two_way.cpp): the arguments, the threads of ping and pong, and the life *)
(* of the objects they make, step by step as Layers lists them, with any   *)
(* call into the middleware failing.  What spin and publish do in between  *)
(* is the subject of the other modules.                                    *)
(***************************************************************************)
EXTENDS Layers, CommandLine, FiniteSets

CONSTANT MaxFailures  \* bound: calls that fail in one behaviour

ASSUME TwoWayAssumption == MaxFailures \in Nat

Threads   == {"pong", "ping"}
Objects   == Threads \X {"sub", "pub"}
Resources == {"options", "context", "node", "subscription", "publisher",
              "wait_set", "array", "participant", "type", "registration",
              "subscriber", "executor", "callback"}

VARIABLES
  line,            \* the command line
  params,          \* what get_params returned
  main,            \* where the main thread is
  started, joined, \* the threads main has started and joined, in order
  block, step,     \* where each thread is: in which method, at which call
  state,           \* the state of each resource of each object
  instance,        \* the static exec of get_instance: the object it was made for
  executor,        \* the executor each object holds
  added,           \* the executor each object's node was added to
  rclcpp,          \* rclcpp's global context
  status,          \* "running" until an exception ends it, or anything goes
  failed           \* the calls that failed

control == <<line, main, started, joined, rclcpp>>
shared  == <<instance, executor, added>>
vars    == <<params, control, block, step, state, shared, status, failed>>

\* The options as main, ping and pong tell them apart.
Params ==
  [layer : {"rclcpp", "rcl", "rmw", "dds", "other"},
   run   : {"intra", "inter ping", "inter pong", "other"}]

\* The threads main starts and then joins.
ThreadsOf(p) ==
  CASE p.run = "intra"      -> <<"pong", "ping">>
    [] p.run = "inter ping" -> <<"ping">>
    [] p.run = "inter pong" -> <<"pong">>
    [] p.run = "other"      -> << >>

\* Members that are shared pointers start as null pointers, all others with
\* what the memory held before.
Init ==
  /\ line \in Lines /\ params = GetParams(line)
  /\ main = "init"
  /\ started = 0 /\ joined = 0
  /\ block = [t \in Threads |-> 1] /\ step = [t \in Threads |-> 1]
  /\ state = [o \in Objects |-> [r \in Resources |->
                IF params.layer = "rclcpp" /\ r # "callback"
                THEN "null" ELSE "raw"]]
  /\ instance = << >>
  /\ executor = [o \in Objects |-> << >>]
  /\ added = [o \in Objects |-> << >>]
  /\ rclcpp = "none"
  /\ status = "running"
  /\ failed = {}

-----------------------------------------------------------------------------
(* What the threads execute: one block for each call of a constructor, of  *)
(* set_callback, of the methods that measure, and of a destructor.          *)

Block(t, o, steps) == [object |-> <<t, o>>, steps |-> steps]

MakeObject(l, t, o) == Block(t, o, Constructor[o][l])
DropObject(l, t, o) == Block(t, o, Destructor[o][l])
Measure(t) == Block(t, "sub", << Use >>)

SetCallback(l, t) == Block(t, "sub", Listen[l])

\* sub is declared before pub, so that pub is destroyed before sub.
PongProgram(l) ==
  << MakeObject(l, "pong", "sub"), MakeObject(l, "pong", "pub"),
     SetCallback(l, "pong"), Measure("pong"),
     DropObject(l, "pong", "pub"), DropObject(l, "pong", "sub") >>

\* pub is declared before sub.
PingProgram(l) ==
  << MakeObject(l, "ping", "pub"), MakeObject(l, "ping", "sub"),
     SetCallback(l, "ping"), Measure("ping"),
     DropObject(l, "ping", "sub"), DropObject(l, "ping", "pub") >>

\* "layer name error" ends either function at once.
Programs ==
  [l \in {"rclcpp", "rcl", "rmw", "dds", "other"} |->
     IF l = "other" THEN [pong |-> << >>, ping |-> << >>]
     ELSE [pong |-> PongProgram(l), ping |-> PingProgram(l)]]

Program(t) == Programs[params.layer][t]

Started(t) == \E i \in 1..started : ThreadsOf(params)[i] = t
Ended(t)   == block[t] > Len(Program(t))
Object(t) == Program(t)[block[t]].object
Steps(t)  == Program(t)[block[t]].steps
Current(t) == Steps(t)[step[t]]
At(t, ops) == /\ status = "running" /\ Started(t) /\ ~Ended(t)
              /\ Current(t).op \in ops

-----------------------------------------------------------------------------
(* One call of a thread.                                                    *)

\* The method returns, at its end or before.
Leave(t) ==
  /\ block' = [block EXCEPT ![t] = @ + 1]
  /\ step' = [step EXCEPT ![t] = 1]
  /\ UNCHANGED status

Advance(t) ==
  \/ /\ step[t] < Len(Steps(t))
     /\ step' = [step EXCEPT ![t] = @ + 1]
     /\ UNCHANGED <<block, status>>
  \/ step[t] = Len(Steps(t)) /\ Leave(t)

\* An exception leaves the thread's function, and std::terminate follows.
Terminate(t) == status' = "terminated" /\ UNCHANGED <<block, step>>

Recover(t) ==
  \/ Current(t).onFail = "go on"  /\ Advance(t)
  \/ Current(t).onFail = "return" /\ Leave(t)
  \/ Current(t).onFail = "throw"  /\ Terminate(t)

Of(t, r)     == state[Object(t)][r]
Given(t)     == {Of(t, r) : r \in Current(t).from}
Becomes(t, s) == state' = [state EXCEPT ![Object(t)][Current(t).resource] = s]

\* A call fails by itself, or because of what it is given.
Fails(t) ==
  \/ /\ Cardinality(failed) < MaxFailures
     /\ Current(t).onFail # "never"
     /\ failed' = failed \cup
          {<<Object(t), Current(t).op, Current(t).resource>>}
  \/ /\ Given(t) \cap {"null", "gone"} # {}
     /\ UNCHANGED failed

ZeroHandle(t) ==
  /\ At(t, {"zero"})
  /\ Becomes(t, "null")
  /\ Advance(t)
  /\ UNCHANGED <<params, control, shared, failed>>

MakeResource(t) ==
  /\ At(t, {"make"}) /\ Given(t) \subseteq {"live"}
  /\ Becomes(t, "live")
  /\ Advance(t)
  /\ UNCHANGED <<params, control, shared, failed>>

AskFor(t) ==
  /\ At(t, {"ask"}) /\ Given(t) \subseteq {"live"}
  /\ Advance(t)
  /\ UNCHANGED <<params, control, state, shared, failed>>

\* The failed call leaves a null handle, or leaves alone what it only reads.
CallFails(t) ==
  /\ At(t, {"make", "ask", "instance", "add"}) /\ "raw" \notin Given(t)
  /\ Fails(t)
  /\ Recover(t)
  /\ IF At(t, {"make"}) THEN Becomes(t, "null") ELSE UNCHANGED state
  /\ UNCHANGED <<params, control, shared>>

\* A wrong get_instance: it makes an executor only if there is none.
GetInstanceOnce(t) ==
  /\ At(t, {"instance"})
  /\ instance' = IF instance = << >> THEN Object(t) ELSE instance
  /\ executor' = [executor EXCEPT ![Object(t)] = instance']
  /\ Becomes(t, "live")
  /\ Advance(t)
  /\ UNCHANGED <<params, control, added, failed>>

\* Every call makes a new executor, under the mutex of get_instance.
GetInstance(t) ==
  /\ At(t, {"instance"})
  /\ instance' = Object(t)
  /\ executor' = [executor EXCEPT ![Object(t)] = Object(t)]
  /\ Becomes(t, "live")
  /\ Advance(t)
  /\ UNCHANGED <<params, control, added, failed>>

Add(t) ==
  /\ At(t, {"add"})
  /\ added' = [added EXCEPT ![Object(t)] = executor[Object(t)]]
  /\ Advance(t)
  /\ UNCHANGED <<params, control, state, instance, executor, failed>>

-----------------------------------------------------------------------------
(* Releasing: of a live resource; of a context that was shut down; of a    *)
(* null handle, which the middleware may accept or refuse.                  *)

Releases == {"release", "shutdown", "finalise"}
Before(t) == IF Current(t).op = "finalise" THEN "shut" ELSE "live"
After(t)  == IF Current(t).op = "shutdown" THEN "shut" ELSE "gone"

ReleaseResource(t) ==
  /\ At(t, Releases) /\ Of(t, Current(t).resource) = Before(t)
  /\ "raw" \notin Given(t)
  /\ state' = [state EXCEPT ![Object(t)] = [r \in Resources |->
       IF r = Current(t).resource \/ (r \in Current(t).also /\ @[r] = "live")
       THEN After(t) ELSE @[r]]]
  /\ Advance(t)
  /\ UNCHANGED <<params, control, shared, failed>>

ReleaseFails(t) ==
  /\ At(t, Releases) /\ Of(t, Current(t).resource) = Before(t)
  /\ "raw" \notin Given(t)
  /\ Fails(t)
  /\ Recover(t)
  /\ UNCHANGED <<params, control, state, shared>>

ReleaseNothing(t) ==
  /\ At(t, Releases)
  /\ Of(t, Current(t).resource) \notin {Before(t), "raw"}
  /\ "raw" \notin Given(t)
  /\ Advance(t) \/ (Current(t).onFail = "return" /\ Leave(t))
  /\ UNCHANGED <<params, control, state, shared, failed>>

-----------------------------------------------------------------------------
(* The methods that measure.  A handle that is not live matters if the     *)
(* method gets as far as to use it: pong publishes for a sample only, and  *)
(* dds looks at subscriber_ for a sample only.                              *)

WildUse(t) ==
  At(t, {"use"}) /\ \E k \in {"sub", "pub"} :
    \/ \E r \in Uses[k][params.layer] : state[<<t, k>>][r] = "raw"
    \/ \E r \in Dereferences[k][params.layer] : state[<<t, k>>][r] # "live"

WildCall(t) ==
  \/ At(t, {"make", "ask"}) /\ "raw" \in Given(t)
  \/ At(t, {"ask"}) /\ "null" \in Given(t)
  \/ At(t, Releases)
       /\ "raw" \in Given(t) \cup {Of(t, Current(t).resource)}

\* Anything may happen from here on.
GoesWild(t) ==
  /\ WildUse(t) \/ WildCall(t)
  /\ status' = "undefined"
  /\ UNCHANGED <<params, control, block, step, state, shared, failed>>

\* rcl's spin ends with a timeout only, which no wait on a wait set that was
\* never initialised reports.
BusyLoop(t) ==
  /\ At(t, {"use"})
  /\ t = "pong" /\ params.layer = "rcl"
  /\ state[<<t, "sub">>]["wait_set"] = "null"

\* A wrong pong: spin goes on for as long as its publisher is not there.
UseReturnsIfPublishing(t) ==
  /\ At(t, {"use"}) /\ ~BusyLoop(t)
  /\ IF state[<<t, "pub">>]["publisher"] = "null"
     THEN UNCHANGED <<block, step, status>> ELSE Advance(t)
  /\ UNCHANGED <<params, control, state, shared, failed>>

UseReturns(t) ==
  /\ At(t, {"use"}) /\ ~BusyLoop(t)
  /\ Advance(t)
  /\ UNCHANGED <<params, control, state, shared, failed>>

Thread(t) ==
  \/ ZeroHandle(t) \/ MakeResource(t) \/ AskFor(t) \/ CallFails(t)
  \/ GetInstance(t) \/ Add(t)
  \/ ReleaseResource(t) \/ ReleaseFails(t) \/ ReleaseNothing(t)
  \/ GoesWild(t) \/ UseReturns(t)

-----------------------------------------------------------------------------
(* The main thread.                                                         *)

InitRclcpp ==
  /\ status = "running" /\ main = "init"
  /\ main' = "threads"
  /\ rclcpp' = IF params.layer = "rclcpp" THEN "up" ELSE rclcpp
  /\ UNCHANGED <<line, params, started, joined, block, step, state, shared, status,
                 failed>>

\* A wrong dispatch: --type inter starts both threads.
StartBoth ==
  /\ status = "running" /\ main = "threads"
  /\ started < 2 /\ params.run # "other"
  /\ started' = started + 1
  /\ UNCHANGED <<line, params, main, joined, rclcpp, block, step, state, shared,
                 status, failed>>

Start ==
  /\ status = "running" /\ main = "threads"
  /\ started < Len(ThreadsOf(params))
  /\ started' = started + 1
  /\ UNCHANGED <<line, params, main, joined, rclcpp, block, step, state, shared,
                 status, failed>>

Join ==
  /\ status = "running" /\ main = "threads"
  /\ started = Len(ThreadsOf(params)) /\ joined < started
  /\ Ended(ThreadsOf(params)[joined + 1])
  /\ joined' = joined + 1
  /\ UNCHANGED <<line, params, main, started, rclcpp, block, step, state, shared,
                 status, failed>>

ShutdownRclcpp ==
  /\ status = "running" /\ main = "threads"
  /\ joined = Len(ThreadsOf(params))
  /\ main' = "ended"
  /\ rclcpp' = IF params.layer = "rclcpp" THEN "down" ELSE rclcpp
  /\ UNCHANGED <<line, params, started, joined, block, step, state, shared, status,
                 failed>>

Main == InitRclcpp \/ Start \/ Join \/ ShutdownRclcpp

\* The states in which nothing more happens, and the one in which pong spins.
Stuck == \E t \in Threads : BusyLoop(t)
Halted == (status # "running" \/ main = "ended" \/ Stuck) /\ UNCHANGED vars

Next == Main \/ (\E t \in Threads : Thread(t)) \/ Halted

Spec == Init /\ [][Next]_vars

(* The operating system runs every thread, and spin and spin_once return,  *)
(* which the module of each layer shows.                                    *)
FairSpec == Spec /\ WF_vars(Main) /\ \A t \in Threads : WF_vars(Thread(t))

-----------------------------------------------------------------------------
(* Correctness.                                                             *)

\* Every variable has its type; a thread is never beyond the end of its
\* function or of a method.
TypeOK ==
  /\ line \in Lines /\ params \in Params
  /\ main \in {"init", "threads", "ended"}
  /\ started \in 0..Len(ThreadsOf(params)) /\ joined \in 0..started
  /\ \A t \in Threads :
       /\ block[t] \in 1..Len(Program(t)) + 1
       /\ step[t] \in 1..(IF Ended(t) THEN 1 ELSE Len(Steps(t)))
  /\ state \in [Objects -> [Resources ->
                  {"raw", "null", "live", "shut", "gone"}]]
  /\ instance \in Objects \cup {<< >>}
  /\ {executor, added} \subseteq [Objects -> Objects \cup {<< >>}]
  /\ rclcpp \in {"none", "up", "down"}
  /\ status \in {"running", "terminated", "undefined"}
  /\ failed \subseteq
       Objects \X {"make", "ask", "instance", "add", "release", "shutdown",
                   "finalise"}
               \X (Resources \cup {"qos", "graph", "type_support"})

\* The documented order: the first n words are two_way's own options, each with
\* its argument, the others start with an option of rttest that is not joined
\* to its argument.
OwnFirst(n) ==
  /\ \A i \in 1..n :
       /\ line[i].kind # "unknown"
       /\ line[i].kind = "word" <=> i > 1 /\ line[i - 1].kind = "option"
  /\ n > 0 => line[n].kind # "option"
  /\ n < Len(line) =>
       line[n + 1].kind = "unknown" /\ n + 2 <= Len(line)
         /\ line[n + 2].kind = "word"

\* Of such a line rttest is given its own options, all of them and nothing else,
\* and get_params has heard every option of two_way, the last of each name.
OptionsHeard ==
  main = "init" => \A n \in 0..Len(line) : OwnFirst(n) =>
    /\ n < Len(line) => ToRttest(line) = SubSeq(line, n + 1, Len(line))
    /\ \A i \in 1..n : line[i].kind # "word" =>
         \/ Value(line, line[i].name) = optarg(line, i)
         \/ \E j \in (i + 1)..n : line[j].name = line[i].name

\* Failures that leave a null handle behind and that the program survives all the
\* same, by object and layer: the last resource of a constructor whose handle is
\* not dereferenced.  Other failures are harmless for other reasons: one that is
\* thrown ends the program, and the graph guard condition that the publisher of
\* rmw asks for is not used.
Survived ==
  { <<"rmw", "pub", "publisher">>, <<"rcl", "pub", "publisher">>,
    <<"rcl", "sub", "wait_set">> }

\* The program uses an uninitialised or null handle after a failed call of a
\* constructor only, and never when the failures in Survived are all there were;
\* no failure of a destructor leads to one, since what is not released is not
\* used again.
KnownHoles ==
  status = "undefined" =>
    \E f \in failed :
      /\ f[2] \in {"make", "ask"}
      /\ <<params.layer, f[1][2], f[3]>> \notin Survived

\* The methods that make an object: its constructor and, for a subscriber,
\* set_callback.
Makers(k, l) == {Constructor[k][l]} \cup IF k = "sub" THEN {Listen[l]} ELSE {}

\* Nothing is released while something made from it is live: not within an
\* object, whichever calls fail, and not rclcpp's context below a node.
ReleaseOrder ==
  /\ \A o \in Objects : params.layer # "other" =>
       \A made \in Makers(o[2], params.layer) : \A i \in 1..Len(made) :
         made[i].op = "make" /\ state[o][made[i].resource] = "live" =>
           \A r \in made[i].from : state[o][r] \notin {"shut", "gone"}
  /\ rclcpp = "down" => \A o \in Objects : state[o]["node"] # "live"

\* What the destructors leave behind when nothing has failed.
Leaked ==
  [sub |-> [rmw |-> {"options"}, rcl |-> {"options", "context"},
            dds |-> {"type"}, rclcpp |-> {}],
   pub |-> [rmw |-> {"options", "context"}, rcl |-> {"options", "context"},
            dds |-> {"type"}, rclcpp |-> {}]]

\* At the end of main every resource that was made has been released but for
\* the options, the context of RmwPublisher and of rcl (which is shut down and
\* not finalised), and the type of dds.
NothingElseLeft ==
  main = "ended" /\ failed = {} /\ params.layer # "other" =>
    \A t \in Threads, k \in {"sub", "pub"} :
      {r \in Resources \ {"callback"} : state[<<t, k>>][r] \in {"live", "shut"}} =
        IF Started(t) THEN Leaked[k][params.layer] ELSE {}

\* An executor is spun by one thread at a time, and by the one whose node was
\* added to it, although get_instance is called by both.
OneSpinner ==
  params.layer = "rclcpp" =>
    \A t \in Threads : At(t, {"use"}) =>
      /\ added[<<t, "sub">>] = executor[<<t, "sub">>]
      /\ \A u \in Threads \ {t} :
           At(u, {"use"}) => executor[<<u, "sub">>] # executor[<<t, "sub">>]

\* main ends, whichever calls fail, unless an exception or an undefined use
\* stops the program, or pong has no wait set in the rcl layer.
Ends ==
  <>(\/ main = "ended" \/ status # "running"
     \/ params.layer = "rcl" /\ state[<<"pong", "sub">>]["wait_set"] = "null")
=============================================================================
