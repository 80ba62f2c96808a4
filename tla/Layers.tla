------------------------------- MODULE Layers -------------------------------
(***************************************************************************)
(* The publisher and the subscriber class of every layer, as far as they   *)
(* make and release things: what the constructor asks the middleware for,  *)
(* in which order and what it does when it does not get it, what the       *)
(* methods then use, and what the destructor releases.                     *)
(*                                                                         *)
(* A class is a table of steps.  "from" holds the resources a call is      *)
(* given, "onFail" what the code does when the call fails: it looks and    *)
(* returns, does not look and goes on, or gets an exception.               *)
(***************************************************************************)
EXTENDS Sequences

Step(op, r, from, onFail) ==
  [op |-> op, resource |-> r, from |-> from, onFail |-> onFail, also |-> {}]

\* Set a handle to zero, make a resource, ask for something that is kept
\* nowhere.
Zero(r)               == Step("zero", r, {}, "go on")
Make(r, from, onFail) == Step("make", r, from, onFail)
Ask(r, from, onFail)  == Step("ask", r, from, onFail)

\* The executor of get_instance, and add_node.
Instance == Step("instance", "executor", {}, "throw")
AddNode  == Step("add", "node", {"executor", "node"}, "throw")

\* Store an argument in a member.
Store(r) == Make(r, {}, "never")

\* spin, or publish and spin_once.
Use == Step("use", "none", {}, "never")

\* Release a resource.  A context is shut down and then finalised, a DDS
\* participant takes what was made from it along, a shared_ptr never fails.
Release(r, from) == Step("release", r, from, "return")
Shutdown(r)      == Step("shutdown", r, {}, "return")
Finalise(r)      == Step("finalise", r, {}, "return")
Free(r)          == Step("release", r, {}, "go on")
Reset(r)         == Step("release", r, {}, "never")
Remove(r, also)  ==
  [op |-> "release", resource |-> r, from |-> {}, onFail |-> "go on",
   also |-> also]

-----------------------------------------------------------------------------
(* rmw: handles are pointers, NULL after a call that failed.                *)

RmwSubscriberMake ==
  << Make("options", {}, "go on"),
     Zero("context"),
     Make("context", {"options"}, "return"),
     Make("node", {"context"}, "go on"),
     Make("subscription", {"node"}, "return"),
     Ask("qos", {"subscription"}, "return"),
     Make("wait_set", {"context"}, "return"),
     Make("array", {}, "go on") >>

RmwSubscriberListen == << Store("callback") >>

\* A wrong destructor: the node goes before the subscription made from it.
RmwSubscriberNodeFirst ==
  << Free("array"), Release("wait_set", {}), Release("node", {}),
     Release("subscription", {"node"}), Shutdown("context"),
     Finalise("context") >>

RmwSubscriberRelease ==
  << Free("array"),
     Release("wait_set", {}),
     Release("subscription", {"node"}),
     Release("node", {}),
     Shutdown("context"),
     Finalise("context") >>

\* rmw_node_get_graph_guard_condition looks into the node it is given.
RmwPublisherMake ==
  << Make("options", {}, "go on"),
     Zero("context"),
     Make("context", {"options"}, "return"),
     Make("node", {"context"}, "go on"),
     Ask("graph", {"node"}, "go on"),
     Make("publisher", {"node"}, "go on") >>

\* A wrong destructor: nothing but the publisher is released.
RmwPublisherKeepsNode == << Release("publisher", {"node"}) >>

RmwPublisherRelease ==
  << Release("publisher", {"node"}),
     Release("node", {}) >>

-----------------------------------------------------------------------------
(* rcl: handles are structures, zero-initialised just before they are made. *)

RclPublisherMake ==
  << Zero("context"),
     Make("options", {}, "return"),
     Make("context", {"options"}, "return"),
     Make("node", {"context"}, "return"),
     Make("publisher", {"node"}, "return") >>

RclPublisherRelease ==
  << Release("publisher", {"node"}),
     Release("node", {}),
     Shutdown("context") >>

\* A wrong constructor: the wait set comes before the subscription.
RclSubscriberWaitSetFirst ==
  << Zero("context"), Make("options", {}, "return"),
     Make("context", {"options"}, "return"),
     Make("node", {"context"}, "return"),
     Make("wait_set", {"context"}, "return"),
     Make("subscription", {"node"}, "return") >>

RclSubscriberMake ==
  << Zero("context"),
     Make("options", {}, "return"),
     Make("context", {"options"}, "return"),
     Make("node", {"context"}, "return"),
     Make("subscription", {"node"}, "return"),
     Make("wait_set", {"context"}, "return") >>

RclSubscriberListen == << Store("callback") >>

RclSubscriberRelease ==
  << Release("wait_set", {}),
     Release("subscription", {"node"}),
     Release("node", {}),
     Shutdown("context") >>

-----------------------------------------------------------------------------
(* dds: pointers; removing the participant removes what was made from it.   *)

FastrtpsPublisherMake ==
  << Make("participant", {}, "go on"),
     Ask("type_support", {}, "return"),
     Make("type", {}, "throw"),
     Make("registration", {"participant", "type"}, "go on"),
     Make("publisher", {"participant", "registration"}, "return") >>

FastrtpsPublisherRelease ==
  << Remove("participant", {"registration", "publisher"}) >>

FastrtpsSubscriberMake ==
  << Make("participant", {}, "go on"),
     Ask("type_support", {}, "return"),
     Make("type", {}, "throw"),
     Make("registration", {"participant", "type"}, "go on"),
     Make("subscriber", {"participant", "registration"}, "go on") >>

FastrtpsSubscriberListen == << Store("callback") >>

FastrtpsSubscriberRelease ==
  << Remove("participant", {"registration", "subscriber"}) >>

-----------------------------------------------------------------------------
(* rclcpp: shared pointers, released in the reverse order of declaration.   *)

RclcppPublisherMake ==
  << Instance,
     Make("node", {}, "throw"),
     Make("publisher", {"node"}, "throw"),
     AddNode >>

RclcppPublisherRelease ==
  << Reset("executor"), Reset("publisher"), Reset("node") >>

RclcppSubscriberMake == << Instance >>

RclcppSubscriberListen ==
  << Store("callback"),
     Make("node", {}, "throw"),
     Make("subscription", {"node"}, "throw"),
     AddNode >>

RclcppSubscriberRelease ==
  << Reset("subscription"), Reset("node"), Reset("executor") >>

-----------------------------------------------------------------------------
(* The classes by kind of object and layer.                                 *)

Constructor ==
  [sub |-> [rmw |-> RmwSubscriberMake, rcl |-> RclSubscriberMake,
            dds |-> FastrtpsSubscriberMake, rclcpp |-> RclcppSubscriberMake],
   pub |-> [rmw |-> RmwPublisherMake, rcl |-> RclPublisherMake,
            dds |-> FastrtpsPublisherMake, rclcpp |-> RclcppPublisherMake]]

\* set_callback.
Listen ==
  [rmw |-> RmwSubscriberListen, rcl |-> RclSubscriberListen,
   dds |-> FastrtpsSubscriberListen, rclcpp |-> RclcppSubscriberListen]

Destructor ==
  [sub |-> [rmw |-> RmwSubscriberRelease, rcl |-> RclSubscriberRelease,
            dds |-> FastrtpsSubscriberRelease,
            rclcpp |-> RclcppSubscriberRelease],
   pub |-> [rmw |-> RmwPublisherRelease, rcl |-> RclPublisherRelease,
            dds |-> FastrtpsPublisherRelease,
            rclcpp |-> RclcppPublisherRelease]]

\* What spin, spin_once and publish hand on to the middleware, ...
Uses ==
  [sub |-> [rmw |-> {"subscription", "array", "wait_set"},
            rcl |-> {"subscription", "wait_set"},
            dds |-> {"subscriber"}, rclcpp |-> {"executor"}],
   pub |-> [rmw |-> {"publisher"}, rcl |-> {"publisher"},
            dds |-> {"publisher"}, rclcpp |-> {"publisher"}]]

\* ... and what they dereference or call themselves.
Dereferences ==
  [sub |-> [rmw |-> {"subscription", "array", "callback"},
            rcl |-> {"callback"}, dds |-> {"subscriber", "callback"},
            rclcpp |-> {"executor", "callback"}],
   pub |-> [rmw |-> {}, rcl |-> {},
            dds |-> {"publisher"}, rclcpp |-> {"publisher"}]]
=============================================================================
