----------------------- MODULE RclcppSubscriberProofs -----------------------
(***************************************************************************)
(* Proofs about RclcppSubscriber for every depth, every timeout and any    *)
(* number of calls and wakes: types, the bound on how long a call is idle, *)
(* honest returns, and the promise of SubscriberBase.                      *)
(***************************************************************************)
EXTENDS RclcppSubscriber, TLAPS

\* The clock of a call: the executor is entered when the call has been idle
\* for less than its timeout, and waits for at most its timeout.
ClockInv ==
  /\ pc # "idle" => timeout \in Timeouts
  /\ pc = "test" => idle < timeout
  /\ pc = "wait" => waited <= timeout /\ idle < timeout + waited
  /\ pc \in {"callback", "check"} => idle < 2 * timeout

\* A sample is in hand from the take to the callback; nothing is taken once
\* spin_once has had its callback.
HandInv ==
  /\ data # 0 <=> pc = "callback"
  /\ pc \in {"wait", "callback"} => ~Finished
  /\ Finished /\ pc # "idle" => answered

IInv == TypeOK /\ ClockInv /\ HandInv

LEMMA Constants ==
  /\ Depth \in Nat \ {0} /\ MaxMsgs \in Nat /\ MaxWakes \in Nat
  /\ \A t \in Timeouts : t \in Nat /\ t > 0
  BY ReaderAssumption, RclcppAssumption DEF ReaderAssumption, RclcppAssumption

LEMMA InvInit == Init => IInv
<1> SUFFICES ASSUME Init PROVE IInv
  OBVIOUS
<1>1. ReaderTypeOK
  BY Constants DEF Init, ReaderInit, ReaderTypeOK, Unread
<1>2. 0 \in 0..MaxMsgs /\ 0 \in 0..MaxWakes
  BY Constants
<1>3. TypeOK
  BY <1>1, <1>2 DEF Init, TypeOK
<1>4. QED
  BY <1>3 DEF IInv, Init, ClockInv, HandInv, Finished

-----------------------------------------------------------------------------
\* The types survive every step.
LEMMA TypeStep == IInv /\ [Next]_vars => TypeOK'
<1> SUFFICES ASSUME TypeOK, [Next]_vars PROVE TypeOK'
  BY DEF IInv
<1> USE DEF TypeOK
<1>1. CASE Receive
  <2>1. ReaderTypeOK'
    BY <1>1, Constants DEF Receive, Arrive, ReaderTypeOK, Unread
  <2>2. QED
    BY <1>1, <2>1 DEF Receive, call, output
<1>2. CASE Shutdown
  BY <1>2 DEF Shutdown, reader, ReaderTypeOK, Unread, call, output
<1>3. CASE Call
  <2>1. done_callback_' \in BOOLEAN
    BY <1>3 DEF Call
  <2>2. ok' \in BOOLEAN /\ answered' \in BOOLEAN
    BY <1>3 DEF Call
  <2>3. {ok, done_callback_, answered}' \subseteq BOOLEAN
    BY <2>1, <2>2
  <2>4. QED
    BY <1>3, <2>3 DEF Call, reader, ReaderTypeOK, Unread
<1>4. CASE LoopTest
  BY <1>4 DEF LoopTest, Return, reader, ReaderTypeOK, Unread, output
<1>5. CASE Tick
  BY <1>5 DEF Tick, reader, ReaderTypeOK, Unread, call, output
<1>6. CASE WaitTimeout
  BY <1>6 DEF WaitTimeout, reader, ReaderTypeOK, Unread, call, output
<1>7. CASE WaitOther
  <2>1. wakes' \in 0..MaxWakes
    BY <1>7, Constants DEF WaitOther
  <2>2. QED
    BY <1>7, <2>1 DEF WaitOther, reader, ReaderTypeOK, Unread, call, output
<1>8. CASE Take
  <2>1. /\ removed' = removed + 1 /\ data' = removed + 1
        /\ received' = received /\ received - removed > 0
    BY <1>8 DEF Take, Unread
  <2>2. ReaderTypeOK' /\ data' \in 0..MaxMsgs
    BY <2>1, Constants DEF ReaderTypeOK, Unread
  <2>3. QED
    BY <1>8, <2>2 DEF Take, call, output
<1>9. CASE SubCallback
  <2>1. 0 \in 0..MaxMsgs /\ idle' \in Nat
    BY <1>9, Constants DEF SubCallback
  <2>2. QED
    BY <1>9, <2>1 DEF SubCallback, reader, ReaderTypeOK, Unread, call
<1>10. CASE CheckClock
  BY <1>10 DEF CheckClock, Return, reader, ReaderTypeOK, Unread, output
<1>11. CASE UNCHANGED vars
  BY <1>11 DEF vars, ReaderTypeOK, Unread
<1>12. QED
  BY <1>1, <1>2, <1>3, <1>4, <1>5, <1>6, <1>7, <1>8, <1>9, <1>10, <1>11
     DEF Next, Spinner, Halted

LEMMA ClockStep == IInv /\ [Next]_vars => ClockInv'
<1> SUFFICES ASSUME TypeOK, ClockInv, [Next]_vars PROVE ClockInv'
  BY DEF IInv
<1>t. waited \in Nat /\ idle \in Nat /\ (pc # "idle" => timeout \in Nat)
  BY Constants DEF TypeOK, ClockInv
<1> USE DEF ClockInv
<1>1. CASE Call
  <2>1. timeout' > 0
    BY <1>1, Constants DEF Call
  <2>2. QED
    BY <1>1, <2>1 DEF Call
<1>2. CASE LoopTest
  BY <1>2, <1>t DEF LoopTest, Return
<1>3. CASE Tick
  BY <1>3, <1>t DEF Tick
<1>4. CASE WaitTimeout
  BY <1>4, <1>t DEF WaitTimeout
<1>5. CASE WaitOther
  BY <1>5, <1>t DEF WaitOther
<1>6. CASE Take
  BY <1>6, <1>t DEF Take
<1>7. CASE SubCallback
  <2>1. timeout > 0
    BY <1>7, Constants DEF SubCallback
  <2>2. QED
    BY <1>7, <1>t, <2>1 DEF SubCallback
<1>8. CASE CheckClock
  BY <1>8, <1>t DEF CheckClock, Return
<1>9. CASE Receive \/ Shutdown \/ UNCHANGED vars
  BY <1>9 DEF Receive, Shutdown, vars
<1>10. QED
  BY <1>1, <1>2, <1>3, <1>4, <1>5, <1>6, <1>7, <1>8, <1>9
     DEF Next, Spinner, Halted

LEMMA HandStep == IInv /\ [Next]_vars => HandInv'
<1> SUFFICES ASSUME TypeOK, HandInv, [Next]_vars PROVE HandInv'
  BY DEF IInv
<1> USE DEF HandInv, Finished
<1>1. CASE Call
  BY <1>1 DEF Call
<1>2. CASE LoopTest
  BY <1>2 DEF LoopTest, Return, output
<1>3. CASE Tick \/ WaitTimeout \/ WaitOther
  BY <1>3 DEF Tick, WaitTimeout, WaitOther, output
<1>4. CASE Take
  <2>1. data' # 0
    BY <1>4 DEF Take, TypeOK, ReaderTypeOK
  <2>2. QED
    BY <1>4, <2>1 DEF Take, output
<1>5. CASE SubCallback
  BY <1>5 DEF SubCallback
<1>6. CASE CheckClock
  BY <1>6 DEF CheckClock, Return, output
<1>7. CASE Receive \/ Shutdown \/ UNCHANGED vars
  BY <1>7 DEF Receive, Shutdown, vars, output
<1>8. QED
  BY <1>1, <1>2, <1>3, <1>4, <1>5, <1>6, <1>7 DEF Next, Spinner, Halted

THEOREM Invariant == Spec => []IInv
<1>1. IInv /\ [Next]_vars => IInv'
  BY TypeStep, ClockStep, HandStep DEF IInv
<1>2. QED
  BY <1>1, InvInit, PTL DEF Spec

-----------------------------------------------------------------------------
(* The properties.                                                          *)

\* Every variable keeps its type: no take finds an empty history.
THEOREM TypeCorrect == Spec => []TypeOK
<1>1. IInv => TypeOK
  BY DEF IInv
<1>2. QED
  BY <1>1, Invariant, PTL

\* A call is idle for less than twice its timeout, however often and whenever
\* the executor comes back with nothing done.
THEOREM IdleBounded == Spec => []AtMostTwice
<1>1. IInv => AtMostTwice
  <2> SUFFICES ASSUME TypeOK, ClockInv, pc # "idle" PROVE idle < 2 * timeout
    BY DEF IInv, AtMostTwice
  <2>1. waited \in Nat /\ idle \in Nat /\ timeout \in Nat
    BY Constants DEF TypeOK, ClockInv
  <2>2. pc \in {"test", "wait", "callback", "check"}
    BY DEF TypeOK
  <2>3. QED
    BY <2>1, <2>2 DEF ClockInv
<1>2. QED
  BY <1>1, Invariant, PTL

\* A call ends with its callback, after its timeout or when rclcpp is down.
THEOREM ReturnsHonest == Spec => HonestReturn
<1>1. IInv /\ [Next]_vars => [HonestReturnStep]_vars
  <2> SUFFICES ASSUME HandInv, [Next]_vars, pc # "idle", pc' = "idle"
               PROVE  \/ idle >= timeout
                      \/ mode = "spin_once" /\ answered
                      \/ ~ok
    BY DEF IInv, HonestReturnStep
  <2>1. LoopTest \/ CheckClock
    BY DEF Next, Spinner, Halted, vars, Receive, Shutdown, Call, Tick,
       WaitTimeout, WaitOther, Take, SubCallback
  <2>2. CASE LoopTest
    BY <2>2 DEF LoopTest, HandInv, Finished
  <2>3. CASE CheckClock
    BY <2>3 DEF CheckClock
  <2>4. QED
    BY <2>1, <2>2, <2>3
<1>2. QED
  BY <1>1, Invariant, PTL DEF Spec, HonestReturn

-----------------------------------------------------------------------------
(* The refinement of SubscriberBase.                                        *)

LEMMA AbstractInit == Init => Abstract!Init
  BY DEF Init, ReaderInit, Finished, Abstract!Init

LEMMA AbstractStep ==
  IInv /\ [Next]_vars => [Abstract!Next]_(Abstract!vars)
<1> SUFFICES ASSUME TypeOK, HandInv, [Next]_vars
             PROVE  Abstract!Next \/ UNCHANGED Abstract!vars
  BY DEF IInv
<1>1. CASE Receive
  BY <1>1 DEF Receive, Arrive, Unread, output, Finished, Abstract!Next,
     Abstract!Arrive
<1>2. CASE Call
  BY <1>2 DEF Call, reader, Finished, Abstract!Next, Abstract!BeginCall
<1>3. CASE LoopTest \/ CheckClock
  BY <1>3 DEF LoopTest, CheckClock, Return, reader, output, Finished, HandInv,
     Abstract!vars, Abstract!Next, Abstract!EndCall
<1>4. CASE Tick \/ WaitTimeout \/ WaitOther \/ Shutdown
  BY <1>4 DEF Tick, WaitTimeout, WaitOther, Shutdown, reader, output,
     Finished, Abstract!vars
<1>5. CASE Take
  BY <1>5 DEF Take, output, Finished, TypeOK, ReaderTypeOK, HandInv, Unread,
     Abstract!Next, Abstract!Take
<1>6. CASE SubCallback
  <2>1. Abstract!Callback
    BY <1>6 DEF SubCallback, reader, Finished, TypeOK, HandInv,
       Abstract!Callback
  <2>2. QED
    BY <2>1 DEF Abstract!Next
<1>7. CASE UNCHANGED vars
  BY <1>7 DEF vars, Finished, Abstract!vars
<1>8. QED
  BY <1>1, <1>2, <1>3, <1>4, <1>5, <1>6, <1>7 DEF Next, Spinner, Halted

\* The rclcpp layer keeps the full promise of SubscriberBase, with any number
\* of wakes and a shutdown at any time.
THEOREM Refinement == Spec => ImplementsBase
  BY AbstractInit, AbstractStep, Invariant, PTL DEF Spec, ImplementsBase,
     Abstract!Spec
=============================================================================
