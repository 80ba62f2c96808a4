------------------------- MODULE FastrtpsSubscriber -------------------------
(***************************************************************************)
(* The subscriber of the "dds" layer (fastrtps_pubsub.cpp).  Two threads   *)
(* share it: the listener thread of Fast RTPS, which runs onNewDataMessage *)
(* for every sample, and the thread of ping or pong, which runs spin_once  *)
(* or spin.  They meet at data_ (an atomic), condition_mutex_ and          *)
(* condition_, and at the two pointers that attachCondition stores.        *)
(*                                                                         *)
(* Fast RTPS is outside the repository.  Its reader is the pair of         *)
(* counters of SubscriberBase; readerLocked says whether it keeps its own  *)
(* reader mutex while it calls the listener.  That, the start value of the *)
(* never initialised data_ and the pace of the peer are the environment of *)
(* a behaviour; the properties say in which environments they hold.        *)
(***************************************************************************)
EXTENDS Integers

CONSTANTS
  Depth,        \* KEEP_LAST depth of the reader history
  MaxMsgs,      \* bound: samples that arrive in one behaviour
  MaxCalls,     \* bound: calls of spin_once in one behaviour
  PeerWaits,    \* TRUE iff the first sample comes after attachCondition
  ReaderLocking,\* values of readerLocked to look at
  DataInit      \* values the never initialised data_ may start with

ASSUME DepthAssumption == Depth \in Nat \ {0}
ASSUME BoundsAssumption == MaxMsgs \in Nat /\ MaxCalls \in Nat
ASSUME EnvironmentAssumption ==
  /\ PeerWaits \in BOOLEAN /\ ReaderLocking \subseteq BOOLEAN
  /\ DataInit \subseteq Nat

VARIABLES
  readerLocked,        \* TRUE iff the listener runs under the reader's mutex
  zeroed,              \* TRUE iff data_ started with 0
  paced,               \* the peer has always waited for the callback so far
  received, removed,   \* the reader history: removed < i <= received is held
  data_,               \* SubListener::data_, the count the listener last saw
  attached,            \* stores of attachCondition done: 1 the mutex, 2 both
  owner,               \* who holds condition_mutex_
  notified,            \* a notify_all reached the waiting spinner
  lpc, lcount,         \* listener thread: program counter, local unread_count
  mode, pc,            \* spinner thread: the method it calls, program counter
  timedOut,            \* the deadline of this wait_for has passed
  data, scount,        \* spinner: local data, local unread_count of data_taken
  calls, result,       \* calls begun, how the last one ended
  delivered, callbacks \* last sample handed to the callback, callbacks made

environment == <<readerLocked, zeroed, paced>>
reader   == <<received, removed>>
listener == <<lpc, lcount>>
call     == <<mode, calls, result>>
output   == <<delivered, callbacks>>
vars == <<readerLocked, zeroed, paced, received, removed, data_, attached,
          owner, notified, lpc, lcount, mode, pc, timedOut, data, scount,
          calls, result, delivered, callbacks>>

Unread == received - removed

\* The reader's mutex is free for the spinner.
ReaderFree == readerLocked => lpc = "idle"

Init ==
  /\ readerLocked \in ReaderLocking /\ paced = TRUE
  /\ data_ \in DataInit /\ zeroed = (data_ = 0)
  /\ received = 0 /\ removed = 0
  /\ attached = 0
  /\ owner = "none" /\ notified = FALSE
  /\ lpc = "idle" /\ lcount = 0
  /\ mode \in {"spin", "spin_once"} /\ pc = "idle"
  /\ timedOut = FALSE
  /\ data = 0 /\ scount = 0
  /\ calls = 0 /\ result = "none"
  /\ delivered = 0 /\ callbacks = 0

-----------------------------------------------------------------------------
(* The listener thread: SubListener::onNewDataMessage.                     *)

\* The peer's publisher writes: any time, or, as ping and pong do while no
\* answer is late, when the sample before has been through the callback.
PeerWrites ==
  /\ PeerWaits => attached = 2
  /\ paced' = (paced /\ delivered = received)
  /\ UNCHANGED <<readerLocked, zeroed>>

\* The middleware adds a sample and calls the listener.
Receive ==
  /\ lpc = "idle" /\ received < MaxMsgs
  /\ PeerWrites
  /\ received' = received + 1
  /\ removed' = IF Unread < Depth THEN removed ELSE removed + 1
  /\ lpc' = "count"
  /\ UNCHANGED <<data_, attached, owner, notified, lcount, pc, timedOut,
                 data, scount, call, output>>

\* unread_count is read before the lock is taken.
ReadUnread ==
  /\ lpc = "count"
  /\ lcount' = Unread
  /\ lpc' = "lock"
  /\ UNCHANGED <<environment, reader, data_, attached, owner, notified, pc,
                 timedOut, data, scount, call, output>>

\* A wrong listener: it enters the critical section without waiting for it.
LockConditionNoWait ==
  /\ lpc = "lock" /\ attached > 0
  /\ owner' = IF owner = "none" THEN "listener" ELSE owner
  /\ lpc' = "store"
  /\ UNCHANGED <<environment, reader, data_, attached, notified, lcount,
                 pc, timedOut, data, scount, call, output>>

LockCondition ==
  /\ lpc = "lock" /\ attached > 0
  /\ owner = "none"
  /\ owner' = "listener"
  /\ lpc' = "store"
  /\ UNCHANGED <<environment, reader, data_, attached, notified, lcount,
                 pc, timedOut, data, scount, call, output>>

\* The process is gone, and both threads with it.
Crash == lpc' = "crashed" /\ pc' = "crashed"

\* Before attachCondition both pointers are uninitialised: following them
\* crashes, blocks for ever, or works on memory that belongs to nobody.
LockWild ==
  /\ lpc = "lock" /\ attached = 0
  /\ \/ /\ Crash
        /\ UNCHANGED data_
     \/ /\ lpc' = "hung"
        /\ UNCHANGED <<pc, data_>>
     \/ /\ lpc' = "idle"
        /\ data_' = lcount
        /\ UNCHANGED pc
  /\ UNCHANGED <<environment, reader, attached, owner, notified, lcount,
                 timedOut, data, scount, call, output>>

Store ==
  /\ lpc = "store"
  /\ data_' = lcount
  /\ lpc' = "unlock"
  /\ UNCHANGED <<environment, reader, attached, owner, notified, lcount,
                 pc, timedOut, data, scount, call, output>>

Unlock ==
  /\ lpc = "unlock"
  /\ owner' = "none"
  /\ lpc' = "notify"
  /\ UNCHANGED <<environment, reader, data_, attached, notified, lcount,
                 pc, timedOut, data, scount, call, output>>

\* A wrong listener: it wakes nobody.
NotifyNobody ==
  /\ lpc = "notify" /\ attached = 2
  /\ lpc' = "idle"
  /\ UNCHANGED <<environment, reader, data_, attached, owner, notified,
                 lcount, pc, timedOut, data, scount, call, output>>

\* conditionVariable_ is stored after conditionMutex_, so that a listener
\* between the two stores of the first call follows a wild pointer here.
Notify ==
  /\ lpc = "notify"
  /\ IF attached = 2
       THEN /\ notified' = (notified \/ pc = "waiting")
            /\ lpc' = "idle"
            /\ UNCHANGED pc
       ELSE /\ Crash
            /\ UNCHANGED notified
  /\ UNCHANGED <<environment, reader, data_, attached, owner, lcount,
                 timedOut, data, scount, call, output>>

Listener == \/ ReadUnread \/ LockCondition \/ LockWild
            \/ Store \/ Unlock \/ Notify

-----------------------------------------------------------------------------
(* The spinner thread: spin and spin_once.                                 *)

\* pong calls spin once, ping calls spin_once for every iteration.  The first
\* store of attachCondition is part of the call.
Call ==
  /\ pc = "idle"
  /\ calls < (IF mode = "spin" THEN 1 ELSE MaxCalls)
  /\ calls' = calls + 1
  /\ result' = "none"
  /\ attached' = IF attached = 0 THEN 1 ELSE attached
  /\ pc' = "attach"
  /\ UNCHANGED <<environment, reader, data_, owner, notified, listener,
                 mode, timedOut, data, scount, output>>

AttachCondition ==
  /\ pc = "attach"
  /\ attached' = 2
  /\ timedOut' = FALSE
  /\ pc' = "lock"
  /\ UNCHANGED <<environment, reader, data_, owner, notified, listener,
                 data, scount, call, output>>

AcquireLock ==
  /\ pc = "lock"
  /\ owner = "none"
  /\ owner' = "spinner"
  /\ pc' = "locked"
  /\ UNCHANGED <<environment, reader, data_, attached, notified, listener,
                 timedOut, data, scount, call, output>>

\* The call ends; the unique_lock, if it is held, is released.
Return(how) ==
  /\ result' = how
  /\ pc' = "idle"
  /\ UNCHANGED <<mode, calls>>

\* A wrong wait_for: a deadline that has passed is not looked at again.
EvalPredicateNoDeadline ==
  /\ pc = "locked"
  /\ pc' = IF data_ > 0 THEN "unlock" ELSE "blocking"
  /\ UNCHANGED <<environment, reader, data_, attached, notified, listener,
                 timedOut, data, scount, output, owner, call>>

\* A wrong wait_for: the deadline is looked at before the predicate.
EvalPredicateDeadlineFirst ==
  /\ pc = "locked"
  /\ IF timedOut
       THEN owner' = "none" /\ Return("timeout")
       ELSE /\ pc' = IF data_ > 0 THEN "unlock" ELSE "blocking"
            /\ UNCHANGED <<owner, call>>
  /\ UNCHANGED <<environment, reader, data_, attached, notified, listener,
                 timedOut, data, scount, output>>

\* wait_for evaluates hasData first, after every wake-up, and once more when
\* the deadline has passed.
EvalPredicate ==
  /\ pc = "locked"
  /\ \/ /\ data_ > 0
        /\ pc' = "unlock"
        /\ UNCHANGED <<owner, call>>
     \/ /\ data_ = 0 /\ ~timedOut
        /\ pc' = "blocking"
        /\ UNCHANGED <<owner, call>>
     \/ /\ data_ = 0 /\ timedOut
        /\ owner' = "none"
        /\ Return("timeout")
  /\ UNCHANGED <<environment, reader, data_, attached, notified, listener,
                 timedOut, data, scount, output>>

\* The condition variable releases the mutex and blocks in one step.
Block ==
  /\ pc = "blocking"
  /\ owner' = "none"
  /\ notified' = FALSE
  /\ pc' = "waiting"
  /\ UNCHANGED <<environment, reader, data_, attached, listener, timedOut,
                 data, scount, call, output>>

\* A notification or a spurious wake-up.
Wake ==
  /\ pc = "waiting"
  /\ notified' = FALSE
  /\ pc' = "lock"
  /\ UNCHANGED <<environment, reader, data_, attached, owner, listener,
                 timedOut, data, scount, call, output>>

TimeoutFires ==
  /\ pc = "waiting"
  /\ notified' = FALSE
  /\ timedOut' = TRUE
  /\ pc' = "lock"
  /\ UNCHANGED <<environment, reader, data_, attached, owner, listener,
                 data, scount, call, output>>

\* A wrong spin: condition_mutex_ stays locked while the sample is taken.
UnlockForTakeKeepsLock ==
  /\ pc = "unlock"
  /\ pc' = "take"
  /\ UNCHANGED <<environment, reader, data_, attached, owner, notified,
                 listener, timedOut, data, scount, call, output>>

UnlockForTake ==
  /\ pc = "unlock"
  /\ owner' = "none"
  /\ pc' = "take"
  /\ UNCHANGED <<environment, reader, data_, attached, notified, listener,
                 timedOut, data, scount, call, output>>

\* A wrong spin: readNextData in place of takeNextData leaves the sample there.
ReadNextData ==
  /\ pc = "take" /\ ReaderFree
  /\ \/ /\ Unread > 0
        /\ data' = removed + 1
        /\ pc' = "count"
        /\ UNCHANGED call
     \/ /\ Unread = 0
        /\ Return("oops")
        /\ UNCHANGED data
  /\ UNCHANGED <<environment, reader, data_, attached, owner, notified,
                 listener, timedOut, scount, output>>

\* takeNextData needs the reader's mutex; it fails on an empty history.
TakeNextData ==
  /\ pc = "take" /\ ReaderFree
  /\ \/ /\ Unread > 0
        /\ data' = removed + 1
        /\ removed' = removed + 1
        /\ pc' = "count"
        /\ UNCHANGED call
     \/ /\ Unread = 0
        /\ Return("oops")
        /\ UNCHANGED <<data, removed>>
  /\ UNCHANGED <<environment, received, data_, attached, owner, notified,
                 listener, timedOut, scount, output>>

\* data_taken: the count is read under the reader's mutex only ...
CountLeft ==
  /\ pc = "count" /\ ReaderFree
  /\ scount' = Unread
  /\ pc' = "store"
  /\ UNCHANGED <<environment, reader, data_, attached, owner, notified,
                 listener, timedOut, data, call, output>>

\* A wrong data_taken: data_ keeps the count of the last arrival.
StoreLeftForgotten ==
  /\ pc = "store"
  /\ pc' = "callback"
  /\ UNCHANGED <<environment, reader, data_, attached, owner, notified,
                 listener, timedOut, data, scount, call, output>>

\* A wrong data_taken: it counts the sample just taken as still unread, and
\* subtracts it.
StoreLeftOneLess ==
  /\ pc = "store"
  /\ data_' = scount - 1
  /\ pc' = "callback"
  /\ UNCHANGED <<environment, reader, attached, owner, notified, listener,
                 timedOut, data, scount, call, output>>

\* ... and stored under no lock at all.
StoreLeft ==
  /\ pc = "store"
  /\ data_' = scount
  /\ pc' = "callback"
  /\ UNCHANGED <<environment, reader, attached, owner, notified, listener,
                 timedOut, data, scount, call, output>>

\* spin loops, with a fresh deadline for the next wait_for; spin_once returns.
Callback ==
  /\ pc = "callback"
  /\ delivered' = data
  /\ callbacks' = callbacks + 1
  /\ \/ /\ mode = "spin"
        /\ pc' = "lock"
        /\ timedOut' = FALSE
        /\ UNCHANGED call
     \/ /\ mode = "spin_once"
        /\ Return("delivered")
        /\ UNCHANGED timedOut
  /\ UNCHANGED <<environment, reader, data_, attached, owner, notified,
                 listener, data, scount>>

Spinner == \/ AttachCondition \/ AcquireLock \/ EvalPredicate \/ Block
           \/ Wake \/ TimeoutFires \/ UnlockForTake \/ TakeNextData
           \/ CountLeft \/ StoreLeft \/ Callback

-----------------------------------------------------------------------------
\* The states in which nothing more has to happen.
Halted ==
  /\ \/ lpc \in {"hung", "crashed"}
     \/ pc = "idle" /\ lpc = "idle"
  /\ UNCHANGED vars

Next == Receive \/ Listener \/ Call \/ Spinner \/ Halted

Spec == Init /\ [][Next]_vars

(* Both threads are scheduled again and again.  The deadline of wait_for is *)
(* an absolute time, so that spurious wake-ups cannot put it off for ever:  *)
(* TimeoutFires gets strong fairness.                                       *)
Fairness == /\ WF_vars(Listener)
            /\ WF_vars(Spinner)
            /\ SF_vars(TimeoutFires)

FairSpec == Spec /\ Fairness

-----------------------------------------------------------------------------
(* Correctness.                                                             *)

\* Every variable has its type; the history never holds more than Depth
\* samples and never a negative number (Receive and TakeNextData interleave).
TypeOK ==
  /\ {readerLocked, zeroed, paced} \subseteq BOOLEAN
  /\ received \in 0..MaxMsgs /\ removed \in 0..MaxMsgs
  /\ Unread \in 0..Depth
  /\ data_ \in Nat
  /\ attached \in 0..2
  /\ owner \in {"none", "spinner", "listener"}
  /\ notified \in BOOLEAN
  /\ lpc \in {"idle", "count", "lock", "store", "unlock", "notify", "hung",
             "crashed"}
  /\ lcount \in Nat /\ scount \in Nat
  /\ mode \in {"spin", "spin_once"}
  /\ pc \in {"idle", "attach", "lock", "locked", "blocking", "waiting",
             "unlock", "take", "count", "store", "callback", "crashed"}
  /\ timedOut \in BOOLEAN
  /\ data \in Nat /\ delivered \in Nat /\ callbacks \in Nat
  /\ calls \in Nat
  /\ result \in {"none", "timeout", "oops", "delivered"}

\* The order lock, store, unlock, notify_all of onNewDataMessage, of which the
\* comment speaks, closes the window between the predicate and the wait: a
\* spinner that sleeps while data_ says there is data has been notified, or
\* the listener is still on its way to notify_all.
NoSleepOnVisibleData ==
  pc = "waiting" /\ data_ > 0 /\ ~notified => lpc \in {"unlock", "notify"}

\* A thread at a blocking acquisition and the lock it asks for.
SpinnerWantsReader   == pc \in {"take", "count"} /\ ~ReaderFree
ListenerWantsMutex   == lpc = "lock" /\ attached > 0 /\ owner = "spinner"

\* spin releases condition_mutex_ before it calls the reader ("lock.unlock"),
\* because the listener asks for the two locks in the other order: the two
\* threads never wait for each other.
NoCircularWait == ~(SpinnerWantsReader /\ ListenerWantsMutex)

\* The callback is given every sample at most once and in the order of
\* arrival, whatever the two threads do to data_ and to the history.
InOrderStep == callbacks' # callbacks => delivered' > delivered
InOrder == [][InOrderStep]_vars

\* When the listener runs under the reader's mutex and data_ starts at zero,
\* the predicate never lets spin through without a sample to take, although
\* data_taken and the listener race on data_: "oops" is dead code.
TakeNeverFails ==
  readerLocked /\ zeroed => result # "oops"

\* hasData is what the comment asks of it, a check that data has arrived: a
\* sample has arrived before spin or spin_once goes past wait_for to take it.
PredicateMeansData == pc = "take" => received > 0

\* The lost wake-up: a spinner asleep, nobody about to wake it, and a sample
\* unread in the history.
NoLostWakeup ==
  pc = "waiting" /\ lpc = "idle" /\ Unread > 0 => notified

\* What data_taken relies on without saying so: the next sample is not written
\* before the callback has had the last one, as between ping and pong.
Paced == readerLocked /\ zeroed /\ paced

\* Then no wake-up is lost.
PacedWakeups == Paced => NoLostWakeup

\* Nor does a call report a timeout while a sample lies in the history of which
\* the listener has finished telling: wait_for looks at data_ once more after
\* the deadline.
PacedTimeoutStep ==
  Paced /\ pc = "locked" /\ pc' = "idle" => lpc # "idle" \/ Unread = 0
PacedTimeouts == [][PacedTimeoutStep]_vars

\* The listener never follows a pointer that attachCondition has not stored.
NeverWild == lpc \notin {"hung", "crashed"}

\* Every call of spin and spin_once returns, through a timeout at the latest,
\* unless the process crashed or the listener hangs on a wild mutex.
CallReturns ==
  (pc # "idle") ~> (pc = "idle" \/ lpc \in {"hung", "crashed"})

\* The subscriber keeps the promise of SubscriberBase.
Abstract == INSTANCE SubscriberBase WITH
  reliable <- TRUE,
  active  <- pc \notin {"idle", "crashed"},
  holding <- IF pc \in {"count", "store", "callback"} THEN data ELSE 0

ImplementsBase == Abstract!Spec
=============================================================================
