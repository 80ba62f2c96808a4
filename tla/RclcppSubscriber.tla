-------------------------- MODULE RclcppSubscriber --------------------------
(***************************************************************************)
(* The subscriber of the "rclcpp" layer (rclcpp_pubsub.cpp).  spin and     *)
(* spin_once loop over the spin_once of an executor, which hands at most   *)
(* one sample to sub_callback and comes back for other reasons as well, so *)
(* that the code keeps the time itself.  The executor is outside the       *)
(* repository; it waits for at most the timeout it is given, may come back *)
(* earlier with nothing done ("wakes": a service of the node, the          *)
(* interrupt of add_node), and calls sub_callback after a take that        *)
(* succeeded only.  Ctrl-C ends rclcpp::ok() at any time.                  *)
(***************************************************************************)
EXTENDS Reader

CONSTANTS
  Timeouts,   \* the timeouts spin and spin_once are called with, in ticks
  MaxCalls,   \* bound: calls of spin_once in one behaviour
  MaxWakes,   \* bound: returns of the executor with nothing done
  Interrupted \* TRUE iff rclcpp is shut down at some time

ASSUME RclcppAssumption ==
  /\ Timeouts \subseteq Nat \ {0} /\ MaxCalls \in Nat /\ MaxWakes \in Nat
  /\ Interrupted \in BOOLEAN

VARIABLES
  ok,                   \* rclcpp::ok()
  mode, pc,             \* the method called, and where its thread is
  timeout,              \* the argument of the call
  waited,               \* how long the executor has been waiting
  idle,                 \* now minus last_exec_, or last_exec of spin_once
  done_callback_,
  data,                 \* the sample taken, 0 if none
  calls, result,        \* calls begun, how the last one ended
  delivered,            \* the last sample handed to the callback
  answered,             \* history: a callback was made in this call
  wakes                 \* returns with nothing done so far

call   == <<calls, result>>
output == <<delivered, answered>>
vars   == <<received, removed, ok, mode, pc, timeout, waited, idle,
            done_callback_, data, calls, result, delivered, answered,
            wakes>>

Init ==
  /\ ReaderInit
  /\ ok = TRUE
  /\ mode \in {"spin", "spin_once"} /\ pc = "idle"
  /\ timeout = 0 /\ waited = 0 /\ idle = 0
  /\ done_callback_ = FALSE
  /\ data = 0
  /\ calls = 0 /\ result = "none"
  /\ delivered = 0 /\ answered = FALSE
  /\ wakes = 0

\* A wrong cast: the timeout is counted in a unit half as long.
CallInOtherUnit ==
  /\ pc = "idle"
  /\ calls < (IF mode = "spin" THEN 1 ELSE MaxCalls)
  /\ calls' = calls + 1 /\ result' = "none"
  /\ timeout' \in {2 * t : t \in Timeouts}
  /\ idle' = 0
  /\ done_callback_' = (mode = "spin" /\ done_callback_)
  /\ answered' = FALSE
  /\ pc' = "test"
  /\ UNCHANGED <<reader, ok, mode, waited, data, delivered, wakes>>

\* A wrong spin_once: done_callback_ is left from the call before.
CallKeepsDone ==
  /\ pc = "idle"
  /\ calls < (IF mode = "spin" THEN 1 ELSE MaxCalls)
  /\ calls' = calls + 1 /\ result' = "none"
  /\ timeout' \in Timeouts
  /\ idle' = 0
  /\ pc' = "test"
  /\ answered' = FALSE
  /\ UNCHANGED <<reader, ok, mode, waited, done_callback_, data, delivered,
                 wakes>>

\* pong calls spin once, ping calls spin_once for every iteration.  Only the
\* latter uses done_callback_.
Call ==
  /\ pc = "idle"
  /\ calls < (IF mode = "spin" THEN 1 ELSE MaxCalls)
  /\ calls' = calls + 1 /\ result' = "none"
  /\ timeout' \in Timeouts
  /\ idle' = 0
  /\ done_callback_' = (mode = "spin" /\ done_callback_)
  /\ answered' = FALSE
  /\ pc' = "test"
  /\ UNCHANGED <<reader, ok, mode, waited, data, delivered, wakes>>

Return(how) ==
  /\ pc' = "idle"
  /\ result' = how

Finished == mode = "spin_once" /\ done_callback_

\* A wrong spin_once: the loop runs to its deadline whatever was delivered.
LoopTestIgnoresDone ==
  /\ pc = "test"
  /\ \/ /\ ~ok /\ Return("shutdown") /\ UNCHANGED waited
     \/ /\ ok /\ pc' = "wait" /\ waited' = 0 /\ UNCHANGED result
  /\ UNCHANGED <<reader, ok, mode, timeout, idle, done_callback_, data, calls,
                 output, wakes>>

\* A wrong loop: rclcpp::ok() is not asked.
LoopTestIgnoresOk ==
  /\ pc = "test"
  /\ \/ /\ Finished /\ Return("delivered") /\ UNCHANGED waited
     \/ /\ ~Finished /\ pc' = "wait" /\ waited' = 0 /\ UNCHANGED result
  /\ UNCHANGED <<reader, ok, mode, timeout, idle, done_callback_, data, calls,
                 output, wakes>>

\* The head of the loop; the executor begins to wait with the full timeout.
LoopTest ==
  /\ pc = "test"
  /\ \/ /\ Finished
        /\ Return("delivered")
        /\ UNCHANGED waited
     \/ /\ ~Finished /\ ~ok
        /\ Return("shutdown")
        /\ UNCHANGED waited
     \/ /\ ~Finished /\ ok
        /\ pc' = "wait"
        /\ waited' = 0
        /\ UNCHANGED result
  /\ UNCHANGED <<reader, ok, mode, timeout, idle, done_callback_, data, calls,
                 output, wakes>>

-----------------------------------------------------------------------------
(* The executor's spin_once and sub_callback                               *)

Tick ==
  /\ pc = "wait" /\ ok /\ Unread = 0 /\ waited < timeout
  /\ waited' = waited + 1
  /\ idle' = idle + 1
  /\ UNCHANGED <<reader, ok, mode, pc, timeout, done_callback_, data, call,
                 output, wakes>>

WaitTimeout ==
  /\ pc = "wait" /\ Unread = 0 /\ waited = timeout
  /\ pc' = "check"
  /\ UNCHANGED <<reader, ok, mode, timeout, waited, idle, done_callback_, data,
                 call, output, wakes>>

\* The wait set fires for something else, or for the shutdown.
WaitOther ==
  /\ pc = "wait"
  /\ \/ /\ ok /\ wakes < MaxWakes /\ wakes' = wakes + 1
     \/ /\ ~ok /\ UNCHANGED wakes
  /\ pc' = "check"
  /\ UNCHANGED <<reader, ok, mode, timeout, waited, idle, done_callback_, data,
                 call, output>>

Take ==
  /\ pc = "wait" /\ Unread > 0
  /\ data' = removed + 1
  /\ removed' = removed + 1
  /\ pc' = "callback"
  /\ UNCHANGED <<received, ok, mode, timeout, waited, idle, done_callback_,
                 call, output, wakes>>

\* last_exec_ is read by spin; spin_once has a last_exec of its own that the
\* callback does not move.
SubCallback ==
  /\ pc = "callback"
  /\ delivered' = data /\ answered' = TRUE
  /\ data' = 0
  /\ done_callback_' = TRUE
  /\ idle' = (IF mode = "spin" THEN 0 ELSE idle)
  /\ pc' = "check"
  /\ UNCHANGED <<reader, ok, mode, timeout, waited, call, wakes>>

-----------------------------------------------------------------------------
\* A wrong test: a call that has waited for its timeout waits once more.
CheckClockStrict ==
  /\ pc = "check"
  /\ \/ /\ idle > timeout /\ Return("timeout")
     \/ /\ idle <= timeout /\ pc' = "test" /\ UNCHANGED result
  /\ UNCHANGED <<reader, ok, mode, timeout, waited, idle, done_callback_, data,
                 calls, output, wakes>>

\* duration_ns >= timeout_ns
CheckClock ==
  /\ pc = "check"
  /\ \/ /\ idle >= timeout
        /\ Return("timeout")
     \/ /\ idle < timeout
        /\ pc' = "test"
        /\ UNCHANGED result
  /\ UNCHANGED <<reader, ok, mode, timeout, waited, idle, done_callback_, data,
                 calls, output, wakes>>

-----------------------------------------------------------------------------
Receive ==
  /\ Arrive
  /\ UNCHANGED <<ok, mode, pc, timeout, waited, idle, done_callback_, data,
                 call, output, wakes>>

Shutdown ==
  /\ Interrupted /\ ok
  /\ ok' = FALSE
  /\ UNCHANGED <<reader, mode, pc, timeout, waited, idle, done_callback_, data,
                 call, output, wakes>>

Spinner == \/ LoopTest \/ Tick \/ WaitTimeout \/ WaitOther \/ Take
           \/ SubCallback \/ CheckClock

\* The states in which nothing more has to happen.
Halted == pc = "idle" /\ UNCHANGED vars

Next == Receive \/ Shutdown \/ Call \/ Spinner \/ Halted

Spec == Init /\ [][Next]_vars

(* The thread runs, and time passes while the executor waits.              *)
FairSpec == Spec /\ WF_vars(Spinner)

-----------------------------------------------------------------------------
(* Correctness.                                                             *)

\* Every variable has its type, and the reader holds 0 to Depth samples.
TypeOK ==
  /\ ReaderTypeOK
  /\ {ok, done_callback_, answered} \subseteq BOOLEAN
  /\ mode \in {"spin", "spin_once"}
  /\ pc \in {"idle", "test", "wait", "callback", "check"}
  /\ timeout \in Timeouts \cup {0}
  /\ waited \in Nat /\ idle \in Nat
  /\ {data, delivered} \subseteq 0..MaxMsgs
  /\ calls \in Nat /\ wakes \in 0..MaxWakes
  /\ result \in {"none", "timeout", "shutdown", "delivered"}

\* The loop gives the executor its whole timeout again after every return, so
\* that a call is idle for longer than its timeout, but for less than twice
\* as long, however often and whenever the executor comes back with nothing.
AtMostTwice == pc # "idle" => idle < 2 * timeout

\* A call that ends has had its callback, or has been idle for its timeout, or
\* rclcpp is down.
HonestReturnStep ==
  pc # "idle" /\ pc' = "idle" =>
    \/ idle >= timeout
    \/ mode = "spin_once" /\ answered
    \/ ~ok
HonestReturn == [][HonestReturnStep]_vars

\* Every call returns once the samples and the other events stop.
CallReturns == (pc # "idle") ~> (pc = "idle")

\* The subscriber keeps the promise of SubscriberBase, in which spin_once is
\* over with its callback: what is left to do then is to return.
Abstract == INSTANCE SubscriberBase WITH
  reliable <- TRUE,
  active  <- pc # "idle" /\ ~Finished,
  holding <- data

ImplementsBase == Abstract!Spec
=============================================================================
