------------------------ MODULE RclSubscriberProofs ------------------------
(***************************************************************************)
(* Proofs about RclSubscriber for every depth, every timeout and any       *)
(* number of calls and faults: types, honest timeouts, and that the        *)
(* subscriber keeps the promise of SubscriberBase.                         *)
(***************************************************************************)
EXTENDS RclSubscriber, TLAPS

Reliable == faulty \subseteq {"nothing"}

\* What the message variable holds before a take: zeroes in spin_once, which
\* declares it anew, and in spin the sample of the last callback.
DataInv ==
  /\ mode = "spin" /\ calls = 0 => delivered = 0
  /\ pc # "idle" => calls > 0
  /\ pc \in {"fill", "waiting", "take"} =>
       data = IF mode = "spin" THEN delivered ELSE 0
  /\ pc = "callback" /\ data = 0 =>
       ~Reliable /\ (mode = "spin" => delivered = 0)

\* Only an error of rcl_wait leads to a take with nothing to be taken, and no
\* wait begins without the subscription in the set.
WaitInv ==
  /\ pc = "waiting" => inSet
  /\ pc = "take" /\ Reliable => Unread > 0

\* The present rcl_wait may be the last of many: a turn that ended without a
\* callback has waited for the timeout at most, and so does this one.
TimeInv ==
  /\ pc = "fill" => elapsed <= fruitless * timeout
  /\ pc = "waiting" =>
       /\ waited <= timeout
       /\ waited <= elapsed /\ elapsed <= fruitless * timeout + waited

IInv == TypeOK /\ DataInv /\ WaitInv /\ TimeInv

LEMMA Constants ==
  /\ Depth \in Nat \ {0} /\ MaxMsgs \in Nat /\ MaxFaults \in Nat
  /\ Timeouts \subseteq Nat
  BY ReaderAssumption, RclAssumption DEF ReaderAssumption, RclAssumption

LEMMA InvInit == Init => IInv
<1> SUFFICES ASSUME Init PROVE IInv
  OBVIOUS
<1>1. ReaderTypeOK
  BY Constants DEF Init, ReaderInit, ReaderTypeOK, Unread
<1>2. 0 \in 0..MaxMsgs /\ 0 \in 0..MaxFaults
  BY Constants
<1>3. TypeOK
  BY <1>1, <1>2 DEF Init, TypeOK
<1>4. QED
  BY <1>3 DEF IInv, Init, DataInv, WaitInv, TimeInv

-----------------------------------------------------------------------------
LEMMA FaultCounted ==
  ASSUME TypeOK, NEW kind, Fault(kind)
  PROVE  faults' \in 0..MaxFaults /\ kind \in faulty
  BY Constants DEF TypeOK, Fault

\* The history of the reader keeps its bounds when one sample is taken from it.
LEMMA ReaderShrinks ==
  ASSUME ReaderTypeOK, Unread > 0, received' = received,
         removed' \in {removed, removed + 1}
  PROVE  ReaderTypeOK'
<1>1. received \in 0..MaxMsgs /\ removed \in 0..MaxMsgs /\ removed < received
  BY Constants DEF ReaderTypeOK, Unread
<1>2. CASE removed' = removed
  BY <1>2 DEF ReaderTypeOK, Unread
<1>3. CASE removed' = removed + 1
  BY <1>1, <1>3, Constants DEF ReaderTypeOK, Unread
<1>4. QED
  BY <1>2, <1>3

LEMMA AfterWaitTypes ==
  ASSUME TypeOK, AfterWait
  PROVE  /\ pc' \in {"take", "fill", "idle"}
         /\ result' \in {"none", "timeout", "nothing", "delivered"}
         /\ elapsed' \in Nat /\ fruitless' \in Nat
  BY DEF TypeOK, AfterWait, Return, since

\* The types survive every step.
LEMMA TypeStep == IInv /\ [Next]_vars => TypeOK'
<1> SUFFICES ASSUME TypeOK, [Next]_vars PROVE TypeOK'
  BY DEF IInv
<1> USE DEF TypeOK
<1>r. reader' = reader => ReaderTypeOK'
  BY DEF reader, ReaderTypeOK, Unread
<1>1. CASE Receive
  <2>1. ReaderTypeOK'
    BY <1>1, Constants DEF Receive, Arrive, ReaderTypeOK, Unread
  <2>2. QED
    BY <1>1, <2>1 DEF Receive, env, call, since
<1>2. CASE Call
  <2>1. 0 \in 0..MaxMsgs /\ timeout' \in Timeouts
    BY <1>2, Constants DEF Call
  <2>2. QED
    BY <1>2, <1>r, <2>1 DEF Call, env
<1>3. CASE FillWaitSet
  BY <1>3, <1>r DEF FillWaitSet, env, call, since
<1>4. CASE Tick
  BY <1>4, <1>r DEF Tick, env, call
<1>5. CASE WaitReady
  BY <1>5, <1>r, AfterWaitTypes DEF WaitReady, env
<1>6. CASE WaitTimeout
  BY <1>6, <1>r DEF WaitTimeout, Return, env, since
<1>7. CASE WaitNothing
  <2>1. faults' \in 0..MaxFaults
    BY <1>7, FaultCounted DEF WaitNothing
  <2>2. QED
    BY <1>7, <1>r, <2>1, AfterWaitTypes DEF WaitNothing, env
<1>8. CASE WaitError
  <2>1. faults' \in 0..MaxFaults
    BY <1>8, FaultCounted DEF WaitError
  <2>2. QED
    BY <1>8, <1>r, <2>1, AfterWaitTypes DEF WaitError, env
<1>9. CASE Take
  <2>1. ReaderTypeOK'
    <3>1. CASE Unread > 0
      BY <1>9, <3>1, ReaderShrinks DEF Take
    <3>2. CASE Unread = 0
      BY <1>9, <1>r, <3>2 DEF Take, reader
    <3>3. QED
      BY <1>9, <3>1, <3>2 DEF Take
  <2>2. data' \in 0..MaxMsgs
    <3>1. CASE Unread > 0 /\ data' = removed + 1
      BY <3>1, Constants DEF ReaderTypeOK, Unread
    <3>2. CASE data' = data
      BY <3>2
    <3>3. QED
      BY <1>9, <3>1, <3>2 DEF Take
  <2>3. faults' \in 0..MaxFaults
    BY <1>9, FaultCounted DEF Take
  <2>4. QED
    BY <1>9, <2>1, <2>2, <2>3 DEF Take, env, call, since
<1>10. CASE Callback
  <2>1. {data, delivered}' \subseteq 0..MaxMsgs
    BY <1>10 DEF Callback, Handed
  <2>2. QED
    BY <1>10, <1>r, <2>1 DEF Callback, Return, env
<1>11. CASE UNCHANGED vars
  BY <1>11 DEF vars, ReaderTypeOK, Unread
<1>12. QED
  BY <1>1, <1>2, <1>3, <1>4, <1>5, <1>6, <1>7, <1>8, <1>9, <1>10, <1>11
     DEF Next, Spinner, Halted

LEMMA DataStep == IInv /\ [Next]_vars => DataInv'
<1> SUFFICES ASSUME TypeOK, DataInv, WaitInv, [Next]_vars PROVE DataInv'
  BY DEF IInv
<1> USE DEF DataInv, Reliable
<1>1. CASE Call
  BY <1>1 DEF Call, TypeOK, env
<1>2. CASE FillWaitSet \/ Tick \/ WaitReady \/ WaitTimeout
  BY <1>2 DEF FillWaitSet, Tick, WaitReady, WaitTimeout, AfterWait, Return,
     env, call
<1>3. CASE WaitNothing \/ WaitError
  BY <1>3 DEF WaitNothing, WaitError, AfterWait, Return, env
<1>4. CASE Take
  <2>1. /\ mode' = mode /\ faulty' = faulty /\ calls' = calls
        /\ delivered' = delivered /\ pc = "take" /\ pc' = "callback"
    BY <1>4 DEF Take, env, call
  <2>2. CASE Unread > 0 /\ data' = removed + 1
    BY <2>1, <2>2 DEF TypeOK, ReaderTypeOK
  <2>3. CASE Unread = 0 /\ data' = data
    BY <2>1, <2>3 DEF WaitInv
  <2>4. CASE "take" \in faulty /\ data' = data
    BY <2>1, <2>4
  <2>5. QED
    BY <1>4, <2>2, <2>3, <2>4 DEF Take, Fault
<1>5. CASE Callback
  BY <1>5 DEF Callback, Handed, Return, env
<1>6. CASE Receive \/ UNCHANGED vars
  BY <1>6 DEF Receive, vars, env, call
<1>7. QED
  BY <1>1, <1>2, <1>3, <1>4, <1>5, <1>6 DEF Next, Spinner, Halted

LEMMA WaitStep == IInv /\ [Next]_vars => WaitInv'
<1> SUFFICES ASSUME TypeOK, WaitInv, [Next]_vars PROVE WaitInv'
  BY DEF IInv
<1> USE DEF WaitInv, Reliable
<1>1. CASE Receive
  BY <1>1, Constants
     DEF Receive, Arrive, env, Unread, TypeOK, ReaderTypeOK
<1>2. CASE Call \/ FillWaitSet \/ Tick
  BY <1>2 DEF Call, FillWaitSet, Tick, reader, env, Unread
<1>3. CASE WaitReady
  BY <1>3 DEF WaitReady, AfterWait, Return, Ready, reader, env, Unread
<1>4. CASE WaitTimeout \/ WaitNothing
  BY <1>4 DEF WaitTimeout, WaitNothing, AfterWait, Return, reader, env, Unread
<1>5. CASE WaitError
  <2>1. "error" \in faulty
    BY <1>5 DEF WaitError, Fault
  <2>2. QED
    BY <1>5, <2>1 DEF WaitError, AfterWait, Return, env
<1>6. CASE Take \/ Callback
  BY <1>6 DEF Take, Callback, Return
<1>7. CASE UNCHANGED vars
  BY <1>7 DEF vars, Unread
<1>8. QED
  BY <1>1, <1>2, <1>3, <1>4, <1>5, <1>6, <1>7 DEF Next, Spinner, Halted

LEMMA OneMore ==
  ASSUME NEW n \in Nat, NEW t \in Nat
  PROVE  /\ n * t \in Nat /\ n * t >= 0
         /\ (n + 1) * t = n * t + t
  OBVIOUS

LEMMA TimeStep == IInv /\ [Next]_vars => TimeInv'
<1> SUFFICES ASSUME TypeOK, TimeInv, [Next]_vars PROVE TimeInv'
  BY DEF IInv
<1>n. /\ timeout \in Nat /\ waited \in Nat /\ elapsed \in Nat
      /\ fruitless \in Nat
  BY Constants DEF TypeOK
<1>p. /\ fruitless * timeout \in Nat
      /\ (fruitless + 1) * timeout = fruitless * timeout + timeout
  BY <1>n, OneMore
<1> USE DEF TimeInv
<1>1. CASE Call
  <2>1. timeout' \in Nat /\ fruitless' = 0 /\ elapsed' = 0 /\ pc' = "fill"
    BY <1>1, Constants DEF Call
  <2>2. \A t \in Nat : 0 <= 0 * t
    BY OneMore
  <2>3. elapsed' <= fruitless' * timeout'
    BY <2>1, <2>2
  <2>4. QED
    BY <2>1, <2>3
<1>2. CASE FillWaitSet
  BY <1>2, <1>n, <1>p DEF FillWaitSet, since
<1>3. CASE Tick
  BY <1>3, <1>n, <1>p DEF Tick
<1>4. CASE WaitReady \/ WaitNothing \/ WaitError
  <2>1. pc = "waiting" /\ AfterWait /\ UNCHANGED <<timeout, waited>>
    BY <1>4 DEF WaitReady, WaitNothing, WaitError
  <2>2. CASE pc' = "fill" /\ fruitless' = fruitless + 1 /\ elapsed' = elapsed
    BY <1>n, <1>p, <2>1, <2>2
  <2>3. CASE pc' \in {"take", "idle"}
    BY <2>3
  <2>4. QED
    BY <2>1, <2>2, <2>3 DEF AfterWait, Return
<1>5. CASE WaitTimeout \/ Take
  BY <1>5 DEF WaitTimeout, Return, Take
<1>6. CASE Callback
  <2>1. fruitless' = 0 /\ elapsed' = 0 /\ timeout' = timeout /\ pc' # "waiting"
    BY <1>6 DEF Callback, Return
  <2>2. \A t \in Nat : 0 <= 0 * t
    BY OneMore
  <2>3. elapsed' <= fruitless' * timeout'
    BY <1>n, <2>1, <2>2
  <2>4. QED
    BY <2>1, <2>3
<1>7. CASE Receive \/ UNCHANGED vars
  BY <1>7 DEF Receive, vars, since
<1>8. QED
  BY <1>1, <1>2, <1>3, <1>4, <1>5, <1>6, <1>7 DEF Next, Spinner, Halted

THEOREM Invariant == Spec => []IInv
<1>1. IInv /\ [Next]_vars => IInv'
  BY TypeStep, DataStep, WaitStep, TimeStep DEF IInv
<1>2. QED
  BY <1>1, InvInit, PTL DEF Spec

-----------------------------------------------------------------------------
(* The properties.                                                          *)

\* Every variable keeps its type: the history is never overdrawn, not even by
\* the take that follows an error of rcl_wait.
THEOREM TypeCorrect == Spec => []TypeOK
<1>1. IInv => TypeOK
  BY DEF IInv
<1>2. QED
  BY <1>1, Invariant, PTL

\* Whatever rcl_wait and rcl_take reported before, a call that reports a timeout
\* leaves no sample behind; it has waited for its timeout at least, and at most
\* for as many timeouts more as turns of spin ended without a callback.
THEOREM TimeoutsHonest == Spec => HonestTimeout
<1>1. IInv /\ [Next]_vars => [TimeoutStep]_vars
  <2> SUFFICES ASSUME TypeOK, WaitInv, TimeInv, [Next]_vars,
                      pc = "waiting", pc' = "idle", result' = "timeout"
               PROVE  /\ Unread = 0
                      /\ timeout <= elapsed
                      /\ elapsed <= timeout + fruitless * timeout
    BY DEF IInv, TimeoutStep
  <2>1. WaitTimeout
    BY DEF Next, Spinner, Halted, vars, Receive, Call, FillWaitSet, Tick,
       WaitReady, WaitNothing, WaitError, AfterWait, Take, Callback, Return,
       call
  <2>2. Unread = 0
    BY <2>1 DEF WaitTimeout, Ready, WaitInv, TypeOK, ReaderTypeOK, Unread
  <2>3. /\ timeout \in Nat /\ waited = timeout
        /\ elapsed \in Nat /\ fruitless \in Nat
    BY <2>1, Constants DEF WaitTimeout, TypeOK
  <2>4. fruitless * timeout \in Nat
    BY <2>3, OneMore
  <2>5. timeout <= elapsed /\ elapsed <= timeout + fruitless * timeout
    BY <2>3, <2>4 DEF TimeInv
  <2>6. QED
    BY <2>2, <2>5
<1>2. QED
  BY <1>1, Invariant, PTL DEF Spec, HonestTimeout

-----------------------------------------------------------------------------
(* The refinement of SubscriberBase.                                        *)

LEMMA AbstractInit == Init => Abstract!Init
  BY DEF Init, ReaderInit, Abstract!Init

LEMMA AbstractStep ==
  IInv /\ [Next]_vars => [Abstract!Next]_(Abstract!vars)
<1> SUFFICES ASSUME TypeOK, DataInv, WaitInv, [Next]_vars
             PROVE  Abstract!Next \/ UNCHANGED Abstract!vars
  BY DEF IInv
<1>1. CASE Receive
  BY <1>1 DEF Receive, Arrive, env, call, Unread, Abstract!Next,
     Abstract!Arrive
<1>2. CASE Call
  BY <1>2 DEF Call, reader, env, Abstract!Next, Abstract!BeginCall
<1>3. CASE FillWaitSet \/ Tick
  BY <1>3 DEF FillWaitSet, Tick, reader, env, call, Abstract!vars
<1>4. CASE WaitTimeout
  BY <1>4 DEF WaitTimeout, Return, reader, env, Abstract!Next,
     Abstract!EndCall
<1>5. CASE WaitReady \/ WaitNothing \/ WaitError
  BY <1>5 DEF WaitReady, WaitNothing, WaitError, AfterWait, Return, reader,
     env, Abstract!vars, Abstract!Next, Abstract!EndCall
<1>6. CASE Take
  <2>1. /\ mode' = mode /\ faulty' = faulty /\ received' = received
        /\ delivered' = delivered /\ pc = "take" /\ pc' = "callback"
    BY <1>6 DEF Take, env, call
  <2>2. CASE Unread > 0 /\ data' = removed + 1 /\ removed' = removed + 1
    <3>1. Abstract!Take
      BY <2>1, <2>2 DEF TypeOK, ReaderTypeOK, Unread, Abstract!Take
    <3>2. QED
      BY <3>1 DEF Abstract!Next
  <2>3. CASE Unread = 0 /\ data' = data /\ removed' = removed
    <3>1. Abstract!TakeFails
      BY <2>1, <2>3 DEF TypeOK, ReaderTypeOK, Unread, DataInv, WaitInv,
         Reliable, Abstract!TakeFails
    <3>2. QED
      BY <3>1 DEF Abstract!Next
  <2>4. CASE /\ Unread > 0 /\ "take" \in faulty /\ data' = data
             /\ removed' \in {removed, removed + 1}
    <3>1. Abstract!TakeFails
      BY <2>1, <2>4 DEF TypeOK, ReaderTypeOK, Unread, DataInv,
         Abstract!TakeFails
    <3>2. QED
      BY <3>1 DEF Abstract!Next
  <2>5. QED
    BY <1>6, <2>2, <2>3, <2>4 DEF Take, Fault
<1>7. CASE Callback /\ data # 0
  <2>1. Abstract!Callback
    BY <1>7 DEF Callback, Handed, Return, reader, env, TypeOK,
       Abstract!Callback
  <2>2. QED
    BY <2>1 DEF Abstract!Next
<1>8. CASE Callback /\ data = 0
  <2>1. Abstract!CallbackOnZeroes
    BY <1>8 DEF Callback, Handed, Return, reader, env, TypeOK, DataInv,
       Reliable, Abstract!CallbackOnZeroes
  <2>2. QED
    BY <2>1 DEF Abstract!Next
<1>9. CASE UNCHANGED vars
  BY <1>9 DEF vars, Abstract!vars
<1>10. QED
  BY <1>1, <1>2, <1>3, <1>4, <1>5, <1>6, <1>7, <1>8, <1>9
     DEF Next, Spinner, Halted

\* Whatever rcl_wait and rcl_take report, the rcl layer keeps the promise of
\* SubscriberBase, the weaker one once either of them may fail.
THEOREM Refinement == Spec => ImplementsBase
  BY AbstractInit, AbstractStep, Invariant, PTL DEF Spec, ImplementsBase,
     Abstract!Spec
=============================================================================
