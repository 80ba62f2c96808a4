--------------------------- MODULE RmwSubscriber ---------------------------
(***************************************************************************)
(* The subscriber of the "rmw" layer (rmw_pubsub.cpp).  One thread calls   *)
(* rmw_wait on an array of one entry, the subscription, and rmw_take when  *)
(* the entry is still there afterwards.  rmw_wait is outside the           *)
(* repository; it may                                                      *)
(*   - report OK and leave the entry of a reader that holds a sample,      *)
(*   - clear the entry and report a timeout,                               *)
(*   - "nothing": clear the entry and report OK, the "unknown fired!?",    *)
(*   - "error": report anything else;                                      *)
(* and rmw_take may                                                        *)
(*   - "take": report an error, before it has looked at the history,       *)
(*   - "untaken": report OK with taken = false, and leave data untouched;  *)
(*     the sample is consumed or not.                                      *)
(* Faults says which of the quoted ones happen, at most MaxFaults times.   *)
(***************************************************************************)
EXTENDS Reader

CONSTANTS
  Second,     \* clock ticks in a second
  Timeouts,   \* the timeouts spin and spin_once are called with, in ticks
  MaxCalls,   \* bound: calls of spin_once in one behaviour
  Faults,     \* what may go wrong in the middleware ...
  MaxFaults   \* bound: ... and how often in one behaviour

ASSUME RmwAssumption ==
  /\ Second \in Nat \ {0} /\ Timeouts \subseteq Nat
  /\ MaxCalls \in Nat /\ MaxFaults \in Nat
  /\ Faults \subseteq {"nothing", "error", "take", "untaken"}

VARIABLES
  entry,                \* rmw_subscriptions_.subscribers[0] is not NULL
  mode, pc,             \* the method called, and where its thread is
  timeout,              \* the argument of the call
  waited,               \* how long this rmw_wait has been waiting
  data,                 \* the local message, 0 as default-constructed
  calls, result,        \* calls begun, how the last one ended
  delivered,            \* the last sample handed to the callback
  faulty, faults        \* what goes wrong in this middleware; how often so far

call   == <<calls, result>>
env    == <<mode, faulty>>
vars   == <<received, removed, entry, mode, pc, timeout, waited, data, calls,
            result, delivered, faulty, faults>>

Init ==
  /\ ReaderInit
  /\ entry = FALSE
  /\ mode \in {"spin", "spin_once"} /\ pc = "idle"
  /\ timeout = 0 /\ waited = 0 /\ data = 0
  /\ calls = 0 /\ result = "none"
  /\ delivered = 0
  /\ faulty \in SUBSET Faults /\ faults = 0

Fault(kind) ==
  /\ kind \in faulty /\ faults < MaxFaults
  /\ faults' = faults + 1

\* wait_timeout_: the whole seconds of the timeout in sec, and all of the
\* timeout once more in nsec.
WaitLimit(t) == (t \div Second) * Second + t

Return(how) ==
  /\ pc' = "idle"
  /\ result' = how

\* A wrong spin_once: the entry is set by the first call only.
CallArmsOnce ==
  /\ pc = "idle"
  /\ calls < (IF mode = "spin" THEN 1 ELSE MaxCalls)
  /\ calls' = calls + 1 /\ result' = "none"
  /\ timeout' \in Timeouts
  /\ entry' = (IF calls = 0 THEN TRUE ELSE entry)
  /\ data' = 0 /\ waited' = 0
  /\ pc' = "waiting"
  /\ UNCHANGED <<reader, env, delivered, faults>>

\* pong calls spin once, ping calls spin_once for every iteration.  Both set
\* the entry before the first wait, spin before no other.
Call ==
  /\ pc = "idle"
  /\ calls < (IF mode = "spin" THEN 1 ELSE MaxCalls)
  /\ calls' = calls + 1 /\ result' = "none"
  /\ timeout' \in Timeouts
  /\ entry' = TRUE
  /\ data' = 0 /\ waited' = 0
  /\ pc' = "waiting"
  /\ UNCHANGED <<reader, env, delivered, faults>>

-----------------------------------------------------------------------------
(* rmw_wait, and what the code does with its result                        *)

Ready == entry /\ Unread > 0

Tick ==
  /\ pc = "waiting" /\ ~Ready /\ waited < WaitLimit(timeout)
  /\ waited' = waited + 1
  /\ UNCHANGED <<reader, entry, env, pc, timeout, data, call, delivered, faults>>

WaitReady ==
  /\ pc = "waiting" /\ Ready
  /\ pc' = "take"
  /\ UNCHANGED <<reader, entry, env, timeout, waited, data, call, delivered,
                 faults>>

\* A wrong spin: a timeout ends the wait, and not the call.
WaitTimeoutLoops ==
  /\ pc = "waiting" /\ ~Ready /\ waited = WaitLimit(timeout)
  /\ entry' = FALSE /\ waited' = 0
  /\ UNCHANGED <<reader, env, pc, timeout, data, call, delivered, faults>>

WaitTimeout ==
  /\ pc = "waiting" /\ ~Ready /\ waited = WaitLimit(timeout)
  /\ entry' = FALSE
  /\ Return("timeout")
  /\ UNCHANGED <<reader, env, timeout, waited, data, calls, delivered, faults>>

\* A wrong test of the entry: a wait that reports OK is taken for data.
WaitNothingTakes ==
  /\ pc = "waiting" /\ Unread = 0 /\ Fault("nothing")
  /\ entry' = FALSE
  /\ pc' = "take"
  /\ UNCHANGED <<reader, env, timeout, waited, data, call, delivered>>

\* "unknown fired!?": spin waits again, on the array as rmw_wait left it.
WaitNothing ==
  /\ pc = "waiting" /\ Unread = 0 /\ Fault("nothing")
  /\ entry' = FALSE
  /\ \/ /\ mode = "spin"
        /\ waited' = 0
        /\ UNCHANGED <<pc, result>>
     \/ /\ mode = "spin_once"
        /\ Return("unknown")
        /\ UNCHANGED waited
  /\ UNCHANGED <<reader, env, timeout, data, calls, delivered>>

WaitError ==
  /\ pc = "waiting" /\ Fault("error")
  /\ entry' \in BOOLEAN
  /\ Return("error")
  /\ UNCHANGED <<reader, env, timeout, waited, data, calls, delivered>>

\* The entry is dereferenced by the middleware, that may not expect NULL.
WaitOnNull ==
  /\ pc = "waiting" /\ ~entry /\ waited = 0
  /\ pc' = "crashed"
  /\ UNCHANGED <<reader, entry, env, timeout, waited, data, call, delivered,
                 faults>>

-----------------------------------------------------------------------------
(* rmw_take and the callback                                               *)

Take ==
  /\ pc = "take"
  /\ data' = removed + 1
  /\ removed' = removed + 1
  /\ pc' = "callback"
  /\ UNCHANGED <<received, entry, env, timeout, waited, call, delivered, faults>>

\* A wrong check: an error of rmw_take is printed, and the call goes on.
TakeErrorGoesOn ==
  /\ pc = "take" /\ Fault("take")
  /\ pc' = "callback"
  /\ UNCHANGED <<reader, entry, env, timeout, waited, data, call, delivered>>

\* CHECK_RMW_RET returns from spin or spin_once.
TakeError ==
  /\ pc = "take" /\ Fault("take")
  /\ Return("error")
  /\ UNCHANGED <<reader, entry, env, timeout, waited, data, calls, delivered>>

\* "taken" is not looked at: the callback follows on whatever data holds.
TakeNothing ==
  /\ pc = "take" /\ Fault("untaken")
  /\ removed' \in {removed, removed + 1}
  /\ pc' = "callback"
  /\ UNCHANGED <<received, entry, env, timeout, waited, data, call, delivered>>

Handed ==
  /\ delivered' = data

Callback ==
  /\ pc = "callback"
  /\ Handed
  /\ \/ /\ mode = "spin"
        /\ pc' = "waiting" /\ waited' = 0
        /\ UNCHANGED result
     \/ /\ mode = "spin_once"
        /\ Return("delivered")
        /\ UNCHANGED waited
  /\ UNCHANGED <<reader, entry, env, timeout, data, calls, faults>>

-----------------------------------------------------------------------------
Receive ==
  /\ Arrive
  /\ UNCHANGED <<entry, env, pc, timeout, waited, data, call, delivered, faults>>

Spinner == \/ Tick \/ WaitReady \/ WaitTimeout \/ WaitNothing \/ WaitError
           \/ WaitOnNull \/ Take \/ TakeError \/ TakeNothing \/ Callback

\* The states in which nothing more has to happen.
Halted == pc \in {"idle", "crashed"} /\ UNCHANGED vars

Next == Receive \/ Call \/ Spinner \/ Halted

Spec == Init /\ [][Next]_vars

(* The thread runs, and time passes while it waits.                        *)
FairSpec == Spec /\ WF_vars(Spinner)

-----------------------------------------------------------------------------
(* Correctness.                                                             *)

\* Every variable has its type, and the reader holds 0 to Depth samples:
\* the take and an arrival that overwrites meet between wait and take.
TypeOK ==
  /\ ReaderTypeOK
  /\ entry \in BOOLEAN
  /\ mode \in {"spin", "spin_once"}
  /\ pc \in {"idle", "waiting", "take", "callback", "crashed"}
  /\ timeout \in Timeouts \cup {0}
  /\ waited \in 0..WaitLimit(timeout)
  /\ {data, delivered} \subseteq 0..MaxMsgs
  /\ calls \in Nat
  /\ faulty \subseteq Faults /\ faults \in 0..MaxFaults
  /\ result \in {"none", "timeout", "unknown", "error", "delivered"}

\* A call that reports a timeout leaves no unread sample behind it and has
\* waited for the whole timeout since the call or the last callback.  Every
\* timeout clears the entry, and the next call must have set it again; nothing
\* but an "unknown fired" makes spin deaf.
TimeoutStep ==
  pc = "waiting" /\ pc' = "idle" /\ result' = "timeout" =>
    /\ Unread = 0 \/ (~entry /\ mode = "spin" /\ "nothing" \in faulty)
    /\ waited >= timeout
HonestTimeout == [][TimeoutStep]_vars

\* No wait of spin and spin_once is longer than the timeout it was given.
WithinTimeout == waited <= timeout

\* Every call returns, unless the middleware crashes on the NULL entry.
CallReturns == (pc # "idle") ~> (pc \in {"idle", "crashed"})

\* The subscriber keeps the promise of SubscriberBase whatever rmw_wait and
\* rmw_take_with_info report.  Once OK may come without a sample that is less:
\* spin_once then hands over zeroes, with which ping records its uptime as a
\* latency, and spin the sample before, which pong answers a second time.
Abstract == INSTANCE SubscriberBase WITH
  reliable <- "untaken" \notin faulty,
  active  <- pc \notin {"idle", "crashed"},
  holding <- IF pc = "callback" THEN data ELSE 0

ImplementsBase == Abstract!Spec
=============================================================================
