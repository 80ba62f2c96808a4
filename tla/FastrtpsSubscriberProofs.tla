---------------------- MODULE FastrtpsSubscriberProofs ----------------------
(***************************************************************************)
(* Proofs about FastrtpsSubscriber for every depth, number of samples and  *)
(* calls.  The conjuncts of IInv are the facts that the two threads rely   *)
(* on at each program counter; the properties follow from them.            *)
(***************************************************************************)
EXTENDS FastrtpsSubscriber, TLAPS

\* Before both pointers are stored the spinner is not in its loop yet.
AttachInv ==
  /\ attached = 0 => pc \in {"idle", "crashed"}
  /\ attached = 1 => pc \in {"idle", "attach", "crashed"}

\* condition_mutex_ is held exactly between the lock and the unlock.
LockInv ==
  /\ owner = "spinner" <=> pc \in {"locked", "blocking", "unlock"}
  /\ owner = "listener" <=> lpc \in {"store", "unlock"}

\* The spinner goes to sleep on data_ = 0 only, and is told of what follows.
SleepInv ==
  /\ pc = "blocking" => data_ = 0
  /\ NoSleepOnVisibleData

\* The sample in hand is newer than the one delivered before it.
OrderInv ==
  /\ delivered <= data /\ data <= removed
  /\ pc \in {"count", "store", "callback"} => delivered < data

\* Under the reader's mutex, with data_ starting at 0: a positive count means an unread sample.
CountInv ==
  readerLocked /\ zeroed =>
    /\ lpc # "idle" => Unread > 0
    /\ pc \notin {"count", "store"} => (data_ > 0 => Unread > 0)
    /\ pc \in {"unlock", "take"} => Unread > 0
    /\ pc = "store" => (scount > 0 => Unread > 0)
    /\ result # "oops"

IInv == TypeOK /\ AttachInv /\ LockInv /\ SleepInv /\ OrderInv /\ CountInv

\* With a peer that waits for the callback, no sample arrives between the two
\* halves of data_taken, and data_ tells of every unread sample.
PacedInv ==
  Paced =>
    /\ pc \in {"count", "store", "callback"} => lpc = "idle"
    /\ pc = "store" => scount = Unread
    /\ lpc \in {"lock", "store"} => lcount = Unread
    /\ lpc \in {"unlock", "notify"} => data_ > 0
    /\ lpc = "idle" /\ pc \notin {"count", "store"} /\ Unread > 0 => data_ > 0
USE DepthAssumption, BoundsAssumption, EnvironmentAssumption
    DEF DepthAssumption, BoundsAssumption, EnvironmentAssumption

-----------------------------------------------------------------------------
(* Type correctness, with the bound of the history.                         *)

LEMMA TypeInit == Init => TypeOK
<1> SUFFICES ASSUME Init PROVE TypeOK
  OBVIOUS
<1>1. notified \in BOOLEAN /\ timedOut \in BOOLEAN
  BY DEF Init
<1>2. QED
  BY <1>1 DEF Init, TypeOK, Unread

LEMMA TypeStep == TypeOK /\ [Next]_vars => TypeOK'
<1> SUFFICES ASSUME TypeOK, [Next]_vars PROVE TypeOK'
  OBVIOUS
<1>1. CASE Receive
  BY <1>1 DEF Receive, PeerWrites, TypeOK, reader, listener, call, output, environment,
     Unread
<1>2. CASE ReadUnread
  BY <1>2 DEF ReadUnread, TypeOK, reader, listener, call, output, environment, Unread
<1>3. CASE LockCondition
  BY <1>3 DEF LockCondition, TypeOK, reader, listener, call, output, environment, Unread
<1>4. CASE LockWild
  BY <1>4 DEF LockWild, Crash, TypeOK, reader, listener, call, output, environment, Unread
<1>5. CASE Store
  BY <1>5 DEF Store, TypeOK, reader, listener, call, output, environment, Unread
<1>6. CASE Unlock
  BY <1>6 DEF Unlock, TypeOK, reader, listener, call, output, environment, Unread
<1>7. CASE Notify
  BY <1>7 DEF Notify, Crash, TypeOK, reader, listener, call, output, environment, Unread
<1>8. CASE Call
  BY <1>8 DEF Call, TypeOK, reader, listener, call, output, environment, Unread
<1>9. CASE AttachCondition
  <2>1. timedOut' \in BOOLEAN
    BY <1>9 DEF AttachCondition, TypeOK
  <2>2. QED
  BY <1>9, <2>1 DEF AttachCondition, TypeOK, reader, listener, call, output, environment,
     Unread
<1>10. CASE AcquireLock
  BY <1>10 DEF AcquireLock, TypeOK, reader, listener, call, output, environment, Unread
<1>11. CASE EvalPredicate
  BY <1>11 DEF EvalPredicate, Return, TypeOK, reader, listener, call, output, environment,
     Unread
<1>12. CASE Block
  BY <1>12 DEF Block, TypeOK, reader, listener, call, output, environment, Unread
<1>13. CASE Wake
  BY <1>13 DEF Wake, TypeOK, reader, listener, call, output, environment, Unread
<1>14. CASE TimeoutFires
  BY <1>14 DEF TimeoutFires, TypeOK, reader, listener, call, output, environment, Unread
<1>15. CASE UnlockForTake
  BY <1>15 DEF UnlockForTake, TypeOK, reader, listener, call, output, environment, Unread
<1>16. CASE TakeNextData
  BY <1>16 DEF TakeNextData, ReaderFree, Return, TypeOK, reader, listener,
     call, output, environment, Unread
<1>17. CASE CountLeft
  BY <1>17 DEF CountLeft, ReaderFree, TypeOK, reader, listener, call, output, environment,
     Unread
<1>18. CASE StoreLeft
  BY <1>18 DEF StoreLeft, TypeOK, reader, listener, call, output, environment, Unread
<1>19. CASE Callback
  <2>1. timedOut' \in BOOLEAN
    BY <1>19 DEF Callback, TypeOK
  <2>2. QED
  BY <1>19, <2>1 DEF Callback, Return, TypeOK, reader, listener, call, output, environment,
     Unread
<1>20. CASE UNCHANGED vars
  BY <1>20 DEF TypeOK, reader, listener, call, output, environment, Unread, vars
<1>21. QED
  BY <1>1, <1>2, <1>3, <1>4, <1>5, <1>6, <1>7, <1>8, <1>9, <1>10, <1>11,
     <1>12, <1>13, <1>14, <1>15, <1>16, <1>17, <1>18, <1>19, <1>20 DEF Next,
     Listener, Spinner, Halted

\* Every variable keeps its type and the history never holds a negative number
\* of samples or more than Depth, in every behaviour.
THEOREM TypeCorrect == Spec => []TypeOK
  BY TypeInit, TypeStep, PTL DEF Spec

-----------------------------------------------------------------------------
(* The locks.                                                               *)

LEMMA LockInit == Init => AttachInv /\ LockInv
  BY DEF Init, AttachInv, LockInv

LEMMA LockStep ==
  TypeOK /\ AttachInv /\ LockInv /\ [Next]_vars => AttachInv' /\ LockInv'
<1> SUFFICES ASSUME TypeOK, AttachInv, LockInv, [Next]_vars
             PROVE  AttachInv' /\ LockInv'
  OBVIOUS
<1>1. CASE Receive
  BY <1>1 DEF Receive, PeerWrites, TypeOK, AttachInv, LockInv, reader,
     listener, call, output, environment, Unread
<1>2. CASE ReadUnread
  BY <1>2 DEF ReadUnread, TypeOK, AttachInv, LockInv, reader, listener, call,
     output, environment, Unread
<1>3. CASE LockCondition
  BY <1>3 DEF LockCondition, TypeOK, AttachInv, LockInv, reader, listener,
     call, output, environment, Unread
<1>4. CASE LockWild
  BY <1>4 DEF LockWild, Crash, TypeOK, AttachInv, LockInv, reader, listener,
     call, output, environment, Unread
<1>5. CASE Store
  BY <1>5 DEF Store, TypeOK, AttachInv, LockInv, reader, listener, call,
     output, environment, Unread
<1>6. CASE Unlock
  BY <1>6 DEF Unlock, TypeOK, AttachInv, LockInv, reader, listener, call,
     output, environment, Unread
<1>7. CASE Notify
  BY <1>7 DEF Notify, Crash, TypeOK, AttachInv, LockInv, reader, listener,
     call, output, environment, Unread
<1>8. CASE Call
  BY <1>8 DEF Call, TypeOK, AttachInv, LockInv, reader, listener, call,
     output, environment, Unread
<1>9. CASE AttachCondition
  BY <1>9 DEF AttachCondition, TypeOK, AttachInv, LockInv, reader, listener,
     call, output, environment, Unread
<1>10. CASE AcquireLock
  BY <1>10 DEF AcquireLock, TypeOK, AttachInv, LockInv, reader, listener,
     call, output, environment, Unread
<1>11. CASE EvalPredicate
  BY <1>11 DEF EvalPredicate, Return, TypeOK, AttachInv, LockInv, reader,
     listener, call, output, environment, Unread
<1>12. CASE Block
  BY <1>12 DEF Block, TypeOK, AttachInv, LockInv, reader, listener, call,
     output, environment, Unread
<1>13. CASE Wake
  BY <1>13 DEF Wake, TypeOK, AttachInv, LockInv, reader, listener, call,
     output, environment, Unread
<1>14. CASE TimeoutFires
  BY <1>14 DEF TimeoutFires, TypeOK, AttachInv, LockInv, reader, listener,
     call, output, environment, Unread
<1>15. CASE UnlockForTake
  BY <1>15 DEF UnlockForTake, TypeOK, AttachInv, LockInv, reader, listener,
     call, output, environment, Unread
<1>16. CASE TakeNextData
  BY <1>16 DEF TakeNextData, ReaderFree, Return, TypeOK, AttachInv, LockInv,
     reader, listener, call, output, environment, Unread
<1>17. CASE CountLeft
  BY <1>17 DEF CountLeft, ReaderFree, TypeOK, AttachInv, LockInv, reader,
     listener, call, output, environment, Unread
<1>18. CASE StoreLeft
  BY <1>18 DEF StoreLeft, TypeOK, AttachInv, LockInv, reader, listener, call,
     output, environment, Unread
<1>19. CASE Callback
  BY <1>19 DEF Callback, Return, TypeOK, AttachInv, LockInv, reader, listener,
     call, output, environment, Unread
<1>20. CASE UNCHANGED vars
  BY <1>20 DEF TypeOK, AttachInv, LockInv, reader, listener, call, output, environment,
     Unread, vars
<1>21. QED
  BY <1>1, <1>2, <1>3, <1>4, <1>5, <1>6, <1>7, <1>8, <1>9, <1>10, <1>11,
     <1>12, <1>13, <1>14, <1>15, <1>16, <1>17, <1>18, <1>19, <1>20 DEF Next,
     Listener, Spinner, Halted

-----------------------------------------------------------------------------
(* Sleeping, order and counting.                                            *)

LEMMA SleepStep ==
  TypeOK /\ AttachInv /\ LockInv /\ SleepInv /\ [Next]_vars => SleepInv'
<1> SUFFICES ASSUME TypeOK, AttachInv, LockInv, SleepInv, [Next]_vars
             PROVE  SleepInv'
  OBVIOUS
<1>1. CASE Receive
  BY <1>1 DEF Receive, PeerWrites, TypeOK, AttachInv, LockInv, SleepInv,
     NoSleepOnVisibleData,
     reader, listener, call, output, environment, Unread
<1>2. CASE ReadUnread
  BY <1>2 DEF ReadUnread, TypeOK, AttachInv, LockInv, SleepInv,
     NoSleepOnVisibleData,
     reader, listener, call, output, environment, Unread
<1>3. CASE LockCondition
  BY <1>3 DEF LockCondition, TypeOK, AttachInv, LockInv, SleepInv,
     NoSleepOnVisibleData,
     reader, listener, call, output, environment, Unread
<1>4. CASE LockWild
  BY <1>4 DEF LockWild, Crash, TypeOK, AttachInv, LockInv, SleepInv,
     NoSleepOnVisibleData,
     reader, listener, call, output, environment, Unread
<1>5. CASE Store
  BY <1>5 DEF Store, TypeOK, AttachInv, LockInv, SleepInv,
     NoSleepOnVisibleData,
     reader, listener, call, output, environment, Unread
<1>6. CASE Unlock
  BY <1>6 DEF Unlock, TypeOK, AttachInv, LockInv, SleepInv,
     NoSleepOnVisibleData,
     reader, listener, call, output, environment, Unread
<1>7. CASE Notify
  BY <1>7 DEF Notify, Crash, TypeOK, AttachInv, LockInv, SleepInv,
     NoSleepOnVisibleData,
     reader, listener, call, output, environment, Unread
<1>8. CASE Call
  BY <1>8 DEF Call, TypeOK, AttachInv, LockInv, SleepInv, NoSleepOnVisibleData,
     reader, listener, call, output, environment, Unread
<1>9. CASE AttachCondition
  BY <1>9 DEF AttachCondition, TypeOK, AttachInv, LockInv, SleepInv,
     NoSleepOnVisibleData,
     reader, listener, call, output, environment, Unread
<1>10. CASE AcquireLock
  BY <1>10 DEF AcquireLock, TypeOK, AttachInv, LockInv, SleepInv,
     NoSleepOnVisibleData,
     reader, listener, call, output, environment, Unread
<1>11. CASE EvalPredicate
  BY <1>11 DEF EvalPredicate, Return, TypeOK, AttachInv, LockInv, SleepInv,
     NoSleepOnVisibleData,
     reader, listener, call, output, environment, Unread
<1>12. CASE Block
  BY <1>12 DEF Block, TypeOK, AttachInv, LockInv, SleepInv,
     NoSleepOnVisibleData,
     reader, listener, call, output, environment, Unread
<1>13. CASE Wake
  BY <1>13 DEF Wake, TypeOK, AttachInv, LockInv, SleepInv,
     NoSleepOnVisibleData,
     reader, listener, call, output, environment, Unread
<1>14. CASE TimeoutFires
  BY <1>14 DEF TimeoutFires, TypeOK, AttachInv, LockInv, SleepInv,
     NoSleepOnVisibleData,
     reader, listener, call, output, environment, Unread
<1>15. CASE UnlockForTake
  BY <1>15 DEF UnlockForTake, TypeOK, AttachInv, LockInv, SleepInv,
     NoSleepOnVisibleData,
     reader, listener, call, output, environment, Unread
<1>16. CASE TakeNextData
  BY <1>16 DEF TakeNextData, ReaderFree, Return, TypeOK, AttachInv, LockInv,
     SleepInv, NoSleepOnVisibleData,
     reader, listener, call, output, environment, Unread
<1>17. CASE CountLeft
  BY <1>17 DEF CountLeft, ReaderFree, TypeOK, AttachInv, LockInv, SleepInv,
     NoSleepOnVisibleData,
     reader, listener, call, output, environment, Unread
<1>18. CASE StoreLeft
  BY <1>18 DEF StoreLeft, TypeOK, AttachInv, LockInv, SleepInv,
     NoSleepOnVisibleData,
     reader, listener, call, output, environment, Unread
<1>19. CASE Callback
  BY <1>19 DEF Callback, Return, TypeOK, AttachInv, LockInv, SleepInv,
     NoSleepOnVisibleData,
     reader, listener, call, output, environment, Unread
<1>20. CASE UNCHANGED vars
  BY <1>20 DEF TypeOK, AttachInv, LockInv, SleepInv, NoSleepOnVisibleData,
     reader, listener, call, output, environment, Unread, vars
<1>21. QED
  BY <1>1, <1>2, <1>3, <1>4, <1>5, <1>6, <1>7, <1>8, <1>9, <1>10, <1>11,
     <1>12, <1>13, <1>14, <1>15, <1>16, <1>17, <1>18, <1>19, <1>20 DEF Next,
     Listener, Spinner, Halted

LEMMA OrderStep ==
  TypeOK /\ AttachInv /\ OrderInv /\ [Next]_vars => OrderInv'
<1> SUFFICES ASSUME TypeOK, AttachInv, OrderInv, [Next]_vars PROVE OrderInv'
  OBVIOUS
<1>1. CASE Receive
  BY <1>1 DEF Receive, PeerWrites, TypeOK, AttachInv, OrderInv, reader,
     listener, call, output, environment, Unread
<1>2. CASE ReadUnread
  BY <1>2 DEF ReadUnread, TypeOK, AttachInv, OrderInv, reader, listener, call,
     output, environment, Unread
<1>3. CASE LockCondition
  BY <1>3 DEF LockCondition, TypeOK, AttachInv, OrderInv, reader, listener,
     call, output, environment, Unread
<1>4. CASE LockWild
  BY <1>4 DEF LockWild, Crash, TypeOK, AttachInv, OrderInv, reader, listener,
     call, output, environment, Unread
<1>5. CASE Store
  BY <1>5 DEF Store, TypeOK, AttachInv, OrderInv, reader, listener, call,
     output, environment, Unread
<1>6. CASE Unlock
  BY <1>6 DEF Unlock, TypeOK, AttachInv, OrderInv, reader, listener, call,
     output, environment, Unread
<1>7. CASE Notify
  BY <1>7 DEF Notify, Crash, TypeOK, AttachInv, OrderInv, reader, listener,
     call, output, environment, Unread
<1>8. CASE Call
  BY <1>8 DEF Call, TypeOK, AttachInv, OrderInv, reader, listener, call,
     output, environment, Unread
<1>9. CASE AttachCondition
  BY <1>9 DEF AttachCondition, TypeOK, AttachInv, OrderInv, reader, listener,
     call, output, environment, Unread
<1>10. CASE AcquireLock
  BY <1>10 DEF AcquireLock, TypeOK, AttachInv, OrderInv, reader, listener,
     call, output, environment, Unread
<1>11. CASE EvalPredicate
  BY <1>11 DEF EvalPredicate, Return, TypeOK, AttachInv, OrderInv, reader,
     listener, call, output, environment, Unread
<1>12. CASE Block
  BY <1>12 DEF Block, TypeOK, AttachInv, OrderInv, reader, listener, call,
     output, environment, Unread
<1>13. CASE Wake
  BY <1>13 DEF Wake, TypeOK, AttachInv, OrderInv, reader, listener, call,
     output, environment, Unread
<1>14. CASE TimeoutFires
  BY <1>14 DEF TimeoutFires, TypeOK, AttachInv, OrderInv, reader, listener,
     call, output, environment, Unread
<1>15. CASE UnlockForTake
  BY <1>15 DEF UnlockForTake, TypeOK, AttachInv, OrderInv, reader, listener,
     call, output, environment, Unread
<1>16. CASE TakeNextData
  BY <1>16 DEF TakeNextData, ReaderFree, Return, TypeOK, AttachInv, OrderInv,
     reader, listener, call, output, environment, Unread
<1>17. CASE CountLeft
  BY <1>17 DEF CountLeft, ReaderFree, TypeOK, AttachInv, OrderInv, reader,
     listener, call, output, environment, Unread
<1>18. CASE StoreLeft
  BY <1>18 DEF StoreLeft, TypeOK, AttachInv, OrderInv, reader, listener, call,
     output, environment, Unread
<1>19. CASE Callback
  BY <1>19 DEF Callback, Return, TypeOK, AttachInv, OrderInv, reader,
     listener, call, output, environment, Unread
<1>20. CASE UNCHANGED vars
  BY <1>20 DEF TypeOK, AttachInv, OrderInv, reader, listener, call, output, environment,
     Unread, vars
<1>21. QED
  BY <1>1, <1>2, <1>3, <1>4, <1>5, <1>6, <1>7, <1>8, <1>9, <1>10, <1>11,
     <1>12, <1>13, <1>14, <1>15, <1>16, <1>17, <1>18, <1>19, <1>20 DEF Next,
     Listener, Spinner, Halted

LEMMA CountStep ==
  TypeOK /\ AttachInv /\ CountInv /\ [Next]_vars => CountInv'
<1> SUFFICES ASSUME TypeOK, AttachInv, CountInv, [Next]_vars,
                    readerLocked' /\ zeroed'
             PROVE  CountInv'
  BY DEF CountInv
<1>1. CASE Receive
  BY <1>1 DEF Receive, PeerWrites, TypeOK, AttachInv, CountInv, reader,
     listener, call, output, environment, Unread
<1>2. CASE ReadUnread
  BY <1>2 DEF ReadUnread, TypeOK, AttachInv, CountInv, reader, listener, call,
     output, environment, Unread
<1>3. CASE LockCondition
  BY <1>3 DEF LockCondition, TypeOK, AttachInv, CountInv, reader, listener,
     call, output, environment, Unread
<1>4. CASE LockWild
  BY <1>4 DEF LockWild, Crash, TypeOK, AttachInv, CountInv, reader, listener,
     call, output, environment, Unread
<1>5. CASE Store
  BY <1>5 DEF Store, TypeOK, AttachInv, CountInv, reader, listener, call,
     output, environment, Unread
<1>6. CASE Unlock
  BY <1>6 DEF Unlock, TypeOK, AttachInv, CountInv, reader, listener, call,
     output, environment, Unread
<1>7. CASE Notify
  BY <1>7 DEF Notify, Crash, TypeOK, AttachInv, CountInv, reader, listener,
     call, output, environment, Unread
<1>8. CASE Call
  BY <1>8 DEF Call, TypeOK, AttachInv, CountInv, reader, listener, call,
     output, environment, Unread
<1>9. CASE AttachCondition
  BY <1>9 DEF AttachCondition, TypeOK, AttachInv, CountInv, reader, listener,
     call, output, environment, Unread
<1>10. CASE AcquireLock
  BY <1>10 DEF AcquireLock, TypeOK, AttachInv, CountInv, reader, listener,
     call, output, environment, Unread
<1>11. CASE EvalPredicate
  BY <1>11 DEF EvalPredicate, Return, TypeOK, AttachInv, CountInv, reader,
     listener, call, output, environment, Unread
<1>12. CASE Block
  BY <1>12 DEF Block, TypeOK, AttachInv, CountInv, reader, listener, call,
     output, environment, Unread
<1>13. CASE Wake
  BY <1>13 DEF Wake, TypeOK, AttachInv, CountInv, reader, listener, call,
     output, environment, Unread
<1>14. CASE TimeoutFires
  BY <1>14 DEF TimeoutFires, TypeOK, AttachInv, CountInv, reader, listener,
     call, output, environment, Unread
<1>15. CASE UnlockForTake
  BY <1>15 DEF UnlockForTake, TypeOK, AttachInv, CountInv, reader, listener,
     call, output, environment, Unread
<1>16. CASE TakeNextData
  BY <1>16 DEF TakeNextData, ReaderFree, Return, TypeOK, AttachInv, CountInv,
     reader, listener, call, output, environment, Unread
<1>17. CASE CountLeft
  BY <1>17 DEF CountLeft, ReaderFree, TypeOK, AttachInv, CountInv, reader,
     listener, call, output, environment, Unread
<1>18. CASE StoreLeft
  BY <1>18 DEF StoreLeft, TypeOK, AttachInv, CountInv, reader, listener, call,
     output, environment, Unread
<1>19. CASE Callback
  BY <1>19 DEF Callback, Return, TypeOK, AttachInv, CountInv, reader,
     listener, call, output, environment, Unread
<1>20. CASE UNCHANGED vars
  BY <1>20 DEF TypeOK, AttachInv, CountInv, reader, listener, call, output, environment,
     Unread, vars
<1>21. QED
  BY <1>1, <1>2, <1>3, <1>4, <1>5, <1>6, <1>7, <1>8, <1>9, <1>10, <1>11,
     <1>12, <1>13, <1>14, <1>15, <1>16, <1>17, <1>18, <1>19, <1>20 DEF Next,
     Listener, Spinner, Halted

LEMMA PacedStep ==
  IInv /\ PacedInv /\ [Next]_vars => PacedInv'
<1> SUFFICES ASSUME TypeOK, AttachInv, LockInv, OrderInv, CountInv, PacedInv,
                    [Next]_vars, Paced'
             PROVE  PacedInv'
  BY DEF PacedInv, IInv
<1>1. CASE Receive
  <2>1. paced /\ delivered = received
    BY <1>1, Zenon DEF Receive, PeerWrites, Paced
  <2>2. Paced
    BY <1>1, <2>1, Zenon DEF Receive, PeerWrites, Paced
  <2>3. QED
    BY <1>1, <2>1, <2>2 DEF Receive, TypeOK, AttachInv, LockInv, OrderInv,
       CountInv, PacedInv, Paced, reader, listener, call, output, Unread
<1>2. CASE ReadUnread
  BY <1>2 DEF ReadUnread, TypeOK, AttachInv, LockInv, OrderInv, CountInv,
     PacedInv, Paced, reader, listener, call, output, environment, Unread
<1>3. CASE LockCondition
  BY <1>3 DEF LockCondition, TypeOK, AttachInv, LockInv, OrderInv, CountInv,
     PacedInv, Paced, reader, listener, call, output, environment, Unread
<1>4. CASE LockWild
  BY <1>4 DEF LockWild, Crash, TypeOK, AttachInv, LockInv, OrderInv, CountInv,
     PacedInv, Paced, reader, listener, call, output, environment, Unread
<1>5. CASE Store
  BY <1>5 DEF Store, TypeOK, AttachInv, LockInv, OrderInv, CountInv,
     PacedInv, Paced, reader, listener, call, output, environment, Unread
<1>6. CASE Unlock
  BY <1>6 DEF Unlock, TypeOK, AttachInv, LockInv, OrderInv, CountInv,
     PacedInv, Paced, reader, listener, call, output, environment, Unread
<1>7. CASE Notify
  BY <1>7 DEF Notify, Crash, TypeOK, AttachInv, LockInv, OrderInv, CountInv,
     PacedInv, Paced, reader, listener, call, output, environment, Unread
<1>8. CASE Call
  BY <1>8 DEF Call, TypeOK, AttachInv, LockInv, OrderInv, CountInv,
     PacedInv, Paced, reader, listener, call, output, environment, Unread
<1>9. CASE AttachCondition
  BY <1>9 DEF AttachCondition, TypeOK, AttachInv, LockInv, OrderInv, CountInv,
     PacedInv, Paced, reader, listener, call, output, environment, Unread
<1>10. CASE AcquireLock
  BY <1>10 DEF AcquireLock, TypeOK, AttachInv, LockInv, OrderInv, CountInv,
     PacedInv, Paced, reader, listener, call, output, environment, Unread
<1>11. CASE EvalPredicate
  BY <1>11 DEF EvalPredicate, Return, TypeOK, AttachInv, LockInv, OrderInv,
     CountInv,
     PacedInv, Paced, reader, listener, call, output, environment, Unread
<1>12. CASE Block
  BY <1>12 DEF Block, TypeOK, AttachInv, LockInv, OrderInv, CountInv,
     PacedInv, Paced, reader, listener, call, output, environment, Unread
<1>13. CASE Wake
  BY <1>13 DEF Wake, TypeOK, AttachInv, LockInv, OrderInv, CountInv,
     PacedInv, Paced, reader, listener, call, output, environment, Unread
<1>14. CASE TimeoutFires
  BY <1>14 DEF TimeoutFires, TypeOK, AttachInv, LockInv, OrderInv, CountInv,
     PacedInv, Paced, reader, listener, call, output, environment, Unread
<1>15. CASE UnlockForTake
  BY <1>15 DEF UnlockForTake, TypeOK, AttachInv, LockInv, OrderInv, CountInv,
     PacedInv, Paced, reader, listener, call, output, environment, Unread
<1>16. CASE TakeNextData
  BY <1>16 DEF TakeNextData, ReaderFree, Return, TypeOK, AttachInv, LockInv,
     OrderInv, CountInv,
     PacedInv, Paced, reader, listener, call, output, environment, Unread
<1>17. CASE CountLeft
  BY <1>17 DEF CountLeft, ReaderFree, TypeOK, AttachInv, LockInv, OrderInv,
     CountInv,
     PacedInv, Paced, reader, listener, call, output, environment, Unread
<1>18. CASE StoreLeft
  BY <1>18 DEF StoreLeft, TypeOK, AttachInv, LockInv, OrderInv, CountInv,
     PacedInv, Paced, reader, listener, call, output, environment, Unread
<1>19. CASE Callback
  BY <1>19 DEF Callback, Return, TypeOK, AttachInv, LockInv, OrderInv,
     CountInv,
     PacedInv, Paced, reader, listener, call, output, environment, Unread
<1>20. CASE UNCHANGED vars
  BY <1>20 DEF TypeOK, AttachInv, LockInv, OrderInv, CountInv,
     PacedInv, Paced, reader, listener, call, output, environment, Unread, vars
<1>21. QED
  BY <1>1, <1>2, <1>3, <1>4, <1>5, <1>6, <1>7, <1>8, <1>9, <1>10, <1>11,
     <1>12, <1>13, <1>14, <1>15, <1>16, <1>17, <1>18, <1>19, <1>20 DEF Next,
     Listener, Spinner, Halted

-----------------------------------------------------------------------------
(* The inductive invariant and what follows from it.                        *)

LEMMA InvInit == Init => IInv /\ PacedInv
<1> SUFFICES ASSUME Init PROVE IInv /\ PacedInv
  OBVIOUS
<1>1. TypeOK /\ AttachInv /\ LockInv
  BY TypeInit, LockInit
<1>2. SleepInv /\ OrderInv
  BY DEF Init, SleepInv, NoSleepOnVisibleData, OrderInv
<1>3. zeroed => data_ = 0
  BY Zenon DEF Init
<1>4. CountInv /\ PacedInv
  BY <1>3 DEF Init, CountInv, PacedInv, Paced, Unread
<1>5. QED
  BY <1>1, <1>2, <1>4 DEF IInv

LEMMA InvStep == IInv /\ [Next]_vars => IInv'
  BY TypeStep, LockStep, SleepStep, OrderStep, CountStep DEF IInv

THEOREM Invariant == Spec => [](IInv /\ PacedInv)
  BY InvInit, InvStep, PacedStep, PTL DEF Spec

\* spin and the listener never wait for each other's lock (lock.unlock comes
\* before takeNextData), with or without a reader mutex around the listener.
THEOREM NoDeadlock == Spec => []NoCircularWait
<1>1. IInv => NoCircularWait
  BY DEF IInv, LockInv, NoCircularWait, SpinnerWantsReader, ListenerWantsMutex
<1>2. QED
  BY <1>1, Invariant, PTL

\* A spinner never sleeps through a notification of data that hasData shows.
THEOREM NoMissedNotification == Spec => []NoSleepOnVisibleData
<1>1. IInv => NoSleepOnVisibleData
  BY DEF IInv, SleepInv
<1>2. QED
  BY <1>1, Invariant, PTL

\* takeNextData never fails after a successful wait_for when the listener runs
\* under the reader's mutex and data_ starts at zero.
THEOREM TakeSucceeds == Spec => []TakeNeverFails
<1>1. IInv => TakeNeverFails
  BY DEF IInv, CountInv, TakeNeverFails
<1>2. QED
  BY <1>1, Invariant, PTL

\* The callback gets every sample at most once and in order.
THEOREM DeliveryInOrder == Spec => InOrder
<1>1. IInv /\ [Next]_vars => [InOrderStep]_vars
  <2> SUFFICES ASSUME TypeOK, OrderInv, [Next]_vars, callbacks' # callbacks
               PROVE  delivered' > delivered
    BY DEF IInv, InOrderStep
  <2>1. CASE Callback
    BY <2>1 DEF Callback, OrderInv, TypeOK
  <2>2. callbacks' # callbacks => Callback
    BY DEF Next, Listener, Spinner, Halted, vars, output, environment, Receive, ReadUnread,
       LockCondition, LockWild, Store, Unlock, Notify, Call, AttachCondition,
       AcquireLock, EvalPredicate, Block, Wake, TimeoutFires, UnlockForTake,
       TakeNextData, CountLeft, StoreLeft
  <2>3. QED
    BY <2>1, <2>2
<1>2. QED
  BY <1>1, Invariant, PTL DEF Spec, InOrder

\* With a peer that waits for the callback, as ping and pong do, no wake-up is
\* lost: a spinner asleep over an unread sample has been notified.
THEOREM PacedPeerWakes == Spec => []PacedWakeups
<1>1. IInv /\ PacedInv => PacedWakeups
  BY DEF IInv, PacedInv, SleepInv, NoSleepOnVisibleData, NoLostWakeup,
     PacedWakeups
<1>2. QED
  BY <1>1, Invariant, PTL

\* With such a peer a call never reports a timeout over a sample of which the
\* listener has finished telling.
THEOREM PacedPeerTimeouts == Spec => PacedTimeouts
<1>1. IInv /\ PacedInv /\ [Next]_vars => [PacedTimeoutStep]_vars
  <2> SUFFICES ASSUME TypeOK, PacedInv, [Next]_vars,
                      Paced, pc = "locked", pc' = "idle"
               PROVE  lpc # "idle" \/ Unread = 0
    BY DEF IInv, PacedTimeoutStep
  <2>1. EvalPredicate
    BY DEF Next, Listener, Spinner, Halted, vars, Receive, ReadUnread,
       LockCondition, LockWild, Crash, Store, Unlock, Notify, Call,
       AttachCondition, AcquireLock, Block, Wake, TimeoutFires,
       UnlockForTake, TakeNextData, CountLeft, StoreLeft, Callback
  <2>2. data_ = 0
    BY <2>1 DEF EvalPredicate
  <2>3. QED
    BY <2>2 DEF PacedInv, TypeOK, Unread
<1>2. QED
  BY <1>1, Invariant, PTL DEF Spec, PacedTimeouts

-----------------------------------------------------------------------------
(* The refinement of SubscriberBase.                                        *)

LEMMA AbstractInit == Init => Abstract!Init
  BY DEF Init, Abstract!Init

LEMMA AbstractStep ==
  IInv /\ [Next]_vars => [Abstract!Next]_(Abstract!vars)
<1> SUFFICES ASSUME TypeOK, AttachInv, OrderInv, [Next]_vars
             PROVE  Abstract!Next \/ UNCHANGED Abstract!vars
  BY DEF IInv
<1>a. CASE UNCHANGED vars
  BY <1>a DEF vars, Abstract!vars
<1>1. CASE Receive
  BY <1>1 DEF Receive, PeerWrites, TypeOK, AttachInv, Abstract!vars,
     reader, listener, call, output, environment, Unread,
     Abstract!Next, Abstract!Arrive
<1>2. CASE ReadUnread
  BY <1>2 DEF ReadUnread, TypeOK, AttachInv, Abstract!vars,
     reader, listener, call, output, environment, Unread
<1>3. CASE LockCondition
  BY <1>3 DEF LockCondition, TypeOK, AttachInv, Abstract!vars,
     reader, listener, call, output, environment, Unread
<1>4. CASE LockWild
  BY <1>4 DEF LockWild, Crash, TypeOK, AttachInv, Abstract!vars,
     reader, listener, call, output, environment, Unread,
     Abstract!Next, Abstract!EndCall
<1>5. CASE Store
  BY <1>5 DEF Store, TypeOK, AttachInv, Abstract!vars,
     reader, listener, call, output, environment, Unread
<1>6. CASE Unlock
  BY <1>6 DEF Unlock, TypeOK, AttachInv, Abstract!vars,
     reader, listener, call, output, environment, Unread
<1>7. CASE Notify
  BY <1>7 DEF Notify, Crash, TypeOK, AttachInv, Abstract!vars,
     reader, listener, call, output, environment, Unread,
     Abstract!Next, Abstract!EndCall
<1>8. CASE Call
  BY <1>8 DEF Call, TypeOK, AttachInv, Abstract!vars,
     reader, listener, call, output, environment, Unread,
     Abstract!Next, Abstract!BeginCall
<1>9. CASE AttachCondition
  BY <1>9 DEF AttachCondition, TypeOK, AttachInv, Abstract!vars,
     reader, listener, call, output, environment, Unread
<1>10. CASE AcquireLock
  BY <1>10 DEF AcquireLock, TypeOK, AttachInv, Abstract!vars,
     reader, listener, call, output, environment, Unread
<1>11. CASE EvalPredicate
  BY <1>11 DEF EvalPredicate, Return, TypeOK, AttachInv, Abstract!vars,
     reader, listener, call, output, environment, Unread,
     Abstract!Next, Abstract!EndCall
<1>12. CASE Block
  BY <1>12 DEF Block, TypeOK, AttachInv, Abstract!vars,
     reader, listener, call, output, environment, Unread
<1>13. CASE Wake
  BY <1>13 DEF Wake, TypeOK, AttachInv, Abstract!vars,
     reader, listener, call, output, environment, Unread
<1>14. CASE TimeoutFires
  BY <1>14 DEF TimeoutFires, TypeOK, AttachInv, Abstract!vars,
     reader, listener, call, output, environment, Unread
<1>15. CASE UnlockForTake
  BY <1>15 DEF UnlockForTake, TypeOK, AttachInv, Abstract!vars,
     reader, listener, call, output, environment, Unread
<1>16. CASE TakeNextData
  BY <1>16 DEF TakeNextData, ReaderFree, Return, TypeOK, AttachInv,
     Abstract!vars,
     reader, listener, call, output, environment, Unread,
     Abstract!Next, Abstract!Take, Abstract!EndCall
<1>17. CASE CountLeft
  BY <1>17 DEF CountLeft, ReaderFree, TypeOK, AttachInv, Abstract!vars,
     reader, listener, call, output, environment, Unread
<1>18. CASE StoreLeft
  BY <1>18 DEF StoreLeft, TypeOK, AttachInv, Abstract!vars,
     reader, listener, call, output, environment, Unread
<1>19. CASE Callback
  <2>1. Abstract!Callback
    <3>1. data # 0
      BY <1>19 DEF Callback, TypeOK, OrderInv
    <3>2. CASE mode = "spin"
      BY <1>19, <3>1, <3>2 DEF Callback, reader, listener, call,
         Abstract!Callback
    <3>3. CASE mode = "spin_once"
      BY <1>19, <3>1, <3>3 DEF Callback, Return, reader, listener, call,
         Abstract!Callback
    <3>4. QED
      BY <3>2, <3>3 DEF TypeOK
  <2>2. QED
    BY <2>1 DEF Abstract!Next
<1>20. QED
  BY <1>a, <1>1, <1>2, <1>3, <1>4, <1>5, <1>6, <1>7, <1>8, <1>9, <1>10, <1>11,
     <1>12, <1>13, <1>14, <1>15, <1>16, <1>17, <1>18, <1>19 DEF Next, Listener,
     Spinner, Halted

\* Whatever the listener and the spinner do to each other, the subscriber keeps
\* the promise of SubscriberBase: a step of the two threads is one of its steps
\* or none.
THEOREM Refinement == Spec => ImplementsBase
<1>1. QED
  BY AbstractInit, AbstractStep, Invariant, PTL DEF Spec, ImplementsBase,
     Abstract!Spec
=============================================================================
