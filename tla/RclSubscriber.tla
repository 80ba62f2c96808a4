--------------------------- MODULE RclSubscriber ---------------------------
(***************************************************************************)
(* The subscriber of the "rcl" layer (rcl_pubsub.cpp).  One thread fills   *)
(* the wait set with the subscription before every rcl_wait, and calls     *)
(* rcl_take when the subscription is still in the set afterwards.  Of all  *)
(* results it looks at one only, RCL_RET_TIMEOUT.  rcl_wait is outside the *)
(* repository; it may                                                      *)
(*   - report OK and leave the subscription that holds a sample in the set,*)
(*   - clear the set and report a timeout,                                 *)
(*   - "nothing": clear the set and report OK,                             *)
(*   - "error": report an error at once; whether the subscription is still *)
(*     in the set depends on where rcl_wait failed,                        *)
(* and rcl_take may, "take", leave data untouched.  Faults says which of   *)
(* the last three happen, at most MaxFaults times.                         *)
(***************************************************************************)
EXTENDS Reader

CONSTANTS
  Timeouts,   \* the timeouts spin and spin_once are called with, in ticks
  MaxCalls,   \* bound: calls of spin_once in one behaviour
  Faults,     \* what may go wrong in the middleware ...
  MaxFaults   \* bound: ... and how often in one behaviour

ASSUME RclAssumption ==
  /\ Timeouts \subseteq Nat
  /\ MaxCalls \in Nat /\ MaxFaults \in Nat
  /\ Faults \subseteq {"nothing", "error", "take"}

VARIABLES
  inSet,                \* wait_set_.subscriptions[0] is not NULL
  mode, pc,             \* the method called, and where its thread is
  timeout,              \* the argument of the call
  waited,               \* how long this rcl_wait has been waiting
  data,                 \* the local message, 0 as default-constructed
  calls, result,        \* calls begun, how the last one ended
  delivered,            \* the last sample handed to the callback
  faulty, faults,       \* what goes wrong in this middleware; how often so far
  elapsed,              \* history: time waited since the call or the last callback,
  fruitless             \* and turns of spin since then that led to nothing

since  == <<elapsed, fruitless>>
call   == <<calls, result>>
env    == <<mode, faulty>>
vars   == <<received, removed, inSet, mode, pc, timeout, waited, data, calls,
            result, delivered, faulty, faults, elapsed, fruitless>>

Init ==
  /\ ReaderInit
  /\ inSet = FALSE
  /\ mode \in {"spin", "spin_once"} /\ pc = "idle"
  /\ timeout = 0 /\ waited = 0 /\ data = 0
  /\ calls = 0 /\ result = "none"
  /\ delivered = 0
  /\ faulty \in SUBSET Faults /\ faults = 0
  /\ elapsed = 0 /\ fruitless = 0

Fault(kind) ==
  /\ kind \in faulty /\ faults < MaxFaults
  /\ faults' = faults + 1

Return(how) ==
  /\ pc' = "idle"
  /\ result' = how

\* A wrong refill: the subscription is added to an empty set only the first
\* time, as the rmw layer does it.
FillWaitSetOnce ==
  /\ pc = "fill"
  /\ inSet' = (IF delivered = 0 THEN TRUE ELSE inSet)
  /\ waited' = 0
  /\ pc' = "waiting"
  /\ UNCHANGED <<reader, env, timeout, data, call, delivered, faults, since>>

\* The head of the loop: clear the set, add the subscription.
FillWaitSet ==
  /\ pc = "fill"
  /\ inSet' = TRUE
  /\ waited' = 0
  /\ pc' = "waiting"
  /\ UNCHANGED <<reader, env, timeout, data, call, delivered, faults, since>>

\* A wrong cast: the timeout is counted in a unit half as long.
CallInOtherUnit ==
  /\ pc = "idle"
  /\ calls < (IF mode = "spin" THEN 1 ELSE MaxCalls)
  /\ calls' = calls + 1 /\ result' = "none"
  /\ timeout' \in {2 * t : t \in Timeouts}
  /\ data' = 0
  /\ pc' = "fill"
  /\ elapsed' = 0 /\ fruitless' = 0
  /\ UNCHANGED <<reader, inSet, env, waited, delivered, faults>>

\* A wrong spin_once: the message is kept from one call to the next.
CallKeepsData ==
  /\ pc = "idle"
  /\ calls < (IF mode = "spin" THEN 1 ELSE MaxCalls)
  /\ calls' = calls + 1 /\ result' = "none"
  /\ timeout' \in Timeouts
  /\ pc' = "fill"
  /\ elapsed' = 0 /\ fruitless' = 0
  /\ UNCHANGED <<reader, inSet, env, waited, data, delivered, faults>>

\* pong calls spin once, ping calls spin_once for every iteration.
Call ==
  /\ pc = "idle"
  /\ calls < (IF mode = "spin" THEN 1 ELSE MaxCalls)
  /\ calls' = calls + 1 /\ result' = "none"
  /\ timeout' \in Timeouts
  /\ data' = 0
  /\ pc' = "fill"
  /\ elapsed' = 0 /\ fruitless' = 0
  /\ UNCHANGED <<reader, inSet, env, waited, delivered, faults>>

-----------------------------------------------------------------------------
(* rcl_wait, and what the code does with its result                        *)

Ready == inSet /\ Unread > 0

\* Where the code goes when rcl_wait has not reported a timeout: to rcl_take
\* if the subscription is in the set, and past the loop over the set if not.
AfterWait ==
  \/ /\ inSet'
     /\ pc' = "take"
     /\ UNCHANGED <<result, since>>
  \/ /\ ~inSet' /\ mode = "spin"
     /\ pc' = "fill"
     /\ fruitless' = fruitless + 1
     /\ UNCHANGED <<result, elapsed>>
  \/ /\ ~inSet' /\ mode = "spin_once"
     /\ Return("nothing")
     /\ UNCHANGED since

Tick ==
  /\ pc = "waiting" /\ ~Ready /\ waited < timeout
  /\ waited' = waited + 1 /\ elapsed' = elapsed + 1
  /\ UNCHANGED <<reader, inSet, env, pc, timeout, data, call, delivered, faults,
                 fruitless>>

WaitReady ==
  /\ pc = "waiting" /\ Ready
  /\ inSet' = TRUE
  /\ AfterWait
  /\ UNCHANGED <<reader, env, timeout, waited, data, calls, delivered, faults>>

\* A wrong spin: a timeout of one wait does not end the call.
WaitTimeoutLoops ==
  /\ pc = "waiting" /\ ~Ready /\ waited = timeout
  /\ inSet' = FALSE
  /\ pc' = "fill"
  /\ elapsed' = 0
  /\ UNCHANGED <<reader, env, timeout, waited, data, call, delivered, faults,
                 fruitless>>

WaitTimeout ==
  /\ pc = "waiting" /\ ~Ready /\ waited = timeout
  /\ inSet' = FALSE
  /\ Return("timeout")
  /\ UNCHANGED <<reader, env, timeout, waited, data, calls, delivered, faults,
                 since>>

WaitNothing ==
  /\ pc = "waiting" /\ Unread = 0 /\ Fault("nothing")
  /\ inSet' = FALSE
  /\ AfterWait
  /\ UNCHANGED <<reader, env, timeout, waited, data, calls, delivered>>

\* An error is not told from OK.
WaitError ==
  /\ pc = "waiting" /\ Fault("error")
  /\ inSet' \in BOOLEAN
  /\ AfterWait
  /\ UNCHANGED <<reader, env, timeout, waited, data, calls, delivered>>

-----------------------------------------------------------------------------
(* rcl_take and the callback                                               *)

\* rcl_take fails on an empty history, which an error of rcl_wait leads to,
\* and on a fault, which may or may not consume the sample.  The code goes on
\* to the callback all the same.
Take ==
  /\ pc = "take"
  /\ \/ /\ Unread > 0
        /\ data' = removed + 1
        /\ removed' = removed + 1
        /\ UNCHANGED faults
     \/ /\ Unread = 0
        /\ UNCHANGED <<data, removed, faults>>
     \/ /\ Unread > 0 /\ Fault("take")
        /\ removed' \in {removed, removed + 1}
        /\ UNCHANGED data
  /\ pc' = "callback"
  /\ UNCHANGED <<received, inSet, env, timeout, waited, call, delivered, since>>

Handed ==
  /\ delivered' = data

Callback ==
  /\ pc = "callback"
  /\ Handed
  /\ \/ /\ mode = "spin"
        /\ pc' = "fill"
        /\ UNCHANGED result
     \/ /\ mode = "spin_once"
        /\ Return("delivered")
  /\ elapsed' = 0 /\ fruitless' = 0
  /\ UNCHANGED <<reader, inSet, env, timeout, waited, data, calls, faults>>

-----------------------------------------------------------------------------
Receive ==
  /\ Arrive
  /\ UNCHANGED <<inSet, env, pc, timeout, waited, data, call, delivered, faults,
                 since>>

Spinner == \/ FillWaitSet \/ Tick \/ WaitReady \/ WaitTimeout \/ WaitNothing
           \/ WaitError \/ Take \/ Callback

\* The states in which nothing more has to happen.
Halted == pc = "idle" /\ UNCHANGED vars

Next == Receive \/ Call \/ Spinner \/ Halted

Spec == Init /\ [][Next]_vars

(* The thread runs, and time passes while it waits.                        *)
FairSpec == Spec /\ WF_vars(Spinner)

-----------------------------------------------------------------------------
(* Correctness.                                                             *)

\* Every variable has its type, and the reader holds 0 to Depth samples:
\* the take and an arrival that overwrites meet between wait and take.
TypeOK ==
  /\ ReaderTypeOK
  /\ inSet \in BOOLEAN
  /\ mode \in {"spin", "spin_once"}
  /\ pc \in {"idle", "fill", "waiting", "take", "callback"}
  /\ timeout \in Timeouts \cup {0}
  /\ waited \in Nat /\ elapsed \in Nat /\ fruitless \in Nat
  /\ {data, delivered} \subseteq 0..MaxMsgs
  /\ calls \in Nat
  /\ faulty \subseteq Faults /\ faults \in 0..MaxFaults
  /\ result \in {"none", "timeout", "nothing", "delivered"}

\* Whatever went wrong before, a call that reports a timeout leaves no unread
\* sample behind it: every turn of the loop fills the set anew.  Since the call
\* or the last callback it has waited for its timeout at least, and at most for
\* as many timeouts more as turns of spin ended without a callback: each of them
\* is followed by a rcl_wait with the whole timeout.
TimeoutStep ==
  pc = "waiting" /\ pc' = "idle" /\ result' = "timeout" =>
    /\ Unread = 0
    /\ timeout <= elapsed /\ elapsed <= timeout + fruitless * timeout
HonestTimeout == [][TimeoutStep]_vars

\* Every call returns, as long as rcl_wait does not go on failing: an error
\* alone never ends spin.
CallReturns == (pc # "idle") ~> (pc = "idle")

\* The subscriber keeps the promise of SubscriberBase.  When rcl_wait or rcl_take
\* may fail that is less: the callback follows all the same, on zeroes in
\* spin_once, with which ping records its uptime as a latency, and on the
\* sample before in spin, which pong then answers a second time.
Abstract == INSTANCE SubscriberBase WITH
  reliable <- faulty \subseteq {"nothing"},
  active  <- pc # "idle",
  holding <- IF pc = "callback" THEN data ELSE 0

ImplementsBase == Abstract!Spec
=============================================================================
