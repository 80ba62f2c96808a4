------------------------ MODULE RmwSubscriberProofs ------------------------
(***************************************************************************)
(* Proofs about RmwSubscriber for every depth, every timeout and any       *)
(* number of calls and faults: types, honest timeouts, and that the        *)
(* subscriber keeps the promise of SubscriberBase.                         *)
(***************************************************************************)
EXTENDS RmwSubscriber, TLAPS

\* What the message variable holds before a take: zeroes in spin_once, which
\* declares it anew, and in spin the sample of the last callback.
DataInv ==
  /\ mode = "spin" /\ calls = 0 => delivered = 0
  /\ pc # "idle" => calls > 0
  /\ pc \in {"waiting", "take"} =>
       data = IF mode = "spin" THEN delivered ELSE 0
  /\ pc = "callback" /\ data = 0 =>
       "untaken" \in faulty /\ (mode = "spin" => delivered = 0)

\* A take follows a wait that has seen a sample, and arrivals leave one there.
TakeInv == pc = "take" => Unread > 0

\* A wait and what follows it have the entry set; only an OK for nothing leaves spin
\* without it.
EntryInv ==
  pc \in {"waiting", "take", "callback"} /\ ~entry =>
    mode = "spin" /\ "nothing" \in faulty

IInv == TypeOK /\ DataInv /\ TakeInv /\ EntryInv

\* rmw_wait is never asked to wait for less than the timeout.
LEMMA WaitLimitBound ==
  ASSUME NEW t \in Nat
  PROVE  WaitLimit(t) \in Nat /\ WaitLimit(t) >= t
<1>1. Second \in Nat \ {0}
  BY RmwAssumption DEF RmwAssumption
<1>2. t \div Second \in Nat
  BY <1>1
<1>3. (t \div Second) * Second \in Nat
  BY <1>1, <1>2
<1>4. QED
  BY <1>3 DEF WaitLimit

LEMMA InvInit == Init => IInv
<1> SUFFICES ASSUME Init PROVE IInv
  OBVIOUS
<1>1. Depth \in Nat /\ MaxMsgs \in Nat /\ MaxFaults \in Nat
  BY ReaderAssumption, RmwAssumption DEF ReaderAssumption, RmwAssumption
<1>2. WaitLimit(0) \in Nat
  BY WaitLimitBound
<1>3. 0 \in 0..MaxMsgs /\ 0 \in 0..MaxFaults /\ 0 \in 0..WaitLimit(0)
  BY <1>1, <1>2
<1>4. ReaderTypeOK
  BY <1>1 DEF Init, ReaderInit, ReaderTypeOK, Unread
<1>5. TypeOK
  BY <1>3, <1>4 DEF Init, TypeOK
<1>6. QED
  BY <1>5 DEF IInv, Init, DataInv, TakeInv, EntryInv

LEMMA InvStep == IInv /\ [Next]_vars => IInv'
<1> SUFFICES ASSUME TypeOK, DataInv, TakeInv, EntryInv, [Next]_vars
             PROVE  IInv'
  BY DEF IInv
<1>t. /\ Depth \in Nat \ {0} /\ MaxMsgs \in Nat /\ MaxFaults \in Nat
      /\ Timeouts \subseteq Nat
  BY ReaderAssumption, RmwAssumption DEF ReaderAssumption, RmwAssumption
<1>l. timeout \in Nat /\ WaitLimit(timeout) \in Nat
  BY <1>t, WaitLimitBound DEF TypeOK
<1> USE DEF IInv, TypeOK, ReaderTypeOK, DataInv, TakeInv, EntryInv, Unread
<1>1. CASE Receive
  BY <1>1, <1>t DEF Receive, Arrive, env, call
<1>2. CASE Call
  <2>1. timeout' \in Nat /\ WaitLimit(timeout') \in Nat
    BY <1>2, <1>t, WaitLimitBound DEF Call
  <2>2. QED
    BY <1>2, <1>t, <2>1 DEF Call, reader, env
<1>3. CASE Tick
  BY <1>3, <1>l DEF Tick, reader, env, call
<1>4. CASE WaitReady
  BY <1>4 DEF WaitReady, Ready, reader, env, call
<1>5. CASE WaitTimeout
  BY <1>5 DEF WaitTimeout, Return, reader, env
<1>6. CASE WaitNothing
  <2>1. 0 \in 0..WaitLimit(timeout)
    BY <1>l
  <2>2. faults' \in 0..MaxFaults /\ "nothing" \in faulty
    BY <1>6, <1>t DEF WaitNothing, Fault
  <2>3. TypeOK'
    BY <1>6, <2>1, <2>2 DEF WaitNothing, Return, reader, env
  <2>4. DataInv' /\ TakeInv' /\ EntryInv'
    BY <1>6, <2>2 DEF WaitNothing, Return, reader, env
  <2>5. QED
    BY <2>3, <2>4
<1>7. CASE WaitError
  BY <1>7, <1>t DEF WaitError, Fault, Return, reader, env
<1>8. CASE WaitOnNull
  BY <1>8 DEF WaitOnNull, reader, env, call
<1>9. CASE Take
  <2>1. /\ removed' \in 0..MaxMsgs /\ data' \in 0..MaxMsgs /\ data' # 0
        /\ Unread' \in 0..Depth
    BY <1>9, <1>t DEF Take
  <2>2. QED
    BY <1>9, <2>1 DEF Take, env, call
<1>10. CASE TakeError
  BY <1>10, <1>t DEF TakeError, Fault, Return, reader, env
<1>11. CASE TakeNothing
  <2>1. removed' \in 0..MaxMsgs /\ Unread' \in 0..Depth
    <3>1. received' = received /\ removed' \in {removed, removed + 1}
      BY <1>11 DEF TakeNothing
    <3>2. pc = "take"
      BY <1>11 DEF TakeNothing
    <3>3. removed < received /\ received \in 0..MaxMsgs /\ removed \in Nat
      BY <3>2
    <3>4. received - removed \in 0..Depth
      OBVIOUS
    <3>5. CASE removed' = removed
      BY <3>1, <3>4, <3>5
    <3>6. CASE removed' = removed + 1
      BY <1>t, <3>1, <3>3, <3>4, <3>6
    <3>7. QED
      BY <3>1, <3>5, <3>6
  <2>2. faults' \in 0..MaxFaults /\ "untaken" \in faulty
    BY <1>11, <1>t DEF TakeNothing, Fault
  <2>3. QED
    BY <1>11, <2>1, <2>2 DEF TakeNothing, env, call
<1>12. CASE Callback
  <2>1. 0 \in 0..WaitLimit(timeout)
    BY <1>l
  <2>2. TypeOK'
    <3>1. /\ ReaderTypeOK' /\ entry' = entry /\ mode' = mode
          /\ timeout' = timeout /\ data' = data /\ delivered' = data
          /\ calls' = calls /\ faulty' = faulty /\ faults' = faults
      BY <1>12 DEF Callback, Handed, reader, env
    <3>2. CASE mode = "spin"
      BY <1>12, <2>1, <3>1, <3>2 DEF Callback
    <3>3. CASE mode = "spin_once"
      BY <1>12, <3>1, <3>3 DEF Callback, Return
    <3>4. QED
      BY <3>2, <3>3
  <2>3. DataInv' /\ TakeInv' /\ EntryInv'
    BY <1>12 DEF Callback, Handed, Return, reader, env
  <2>4. QED
    BY <2>2, <2>3
<1>13. CASE UNCHANGED vars
  BY <1>13 DEF vars
<1>14. QED
  BY <1>1, <1>2, <1>3, <1>4, <1>5, <1>6, <1>7, <1>8, <1>9, <1>10, <1>11,
     <1>12, <1>13 DEF Next, Spinner, Halted

THEOREM Invariant == Spec => []IInv
  BY InvInit, InvStep, PTL DEF Spec

-----------------------------------------------------------------------------
(* The properties.                                                          *)

\* Every variable keeps its type: no take finds an empty history, and no wait
\* is longer than WaitLimit.
THEOREM TypeCorrect == Spec => []TypeOK
<1>1. IInv => TypeOK
  BY DEF IInv
<1>2. QED
  BY <1>1, Invariant, PTL

\* A call that reports a timeout has waited for all of it and leaves no sample
\* behind, whatever the middleware reports, but for a spin that was told OK
\* for nothing.
THEOREM TimeoutsHonest == Spec => HonestTimeout
<1>1. IInv /\ [Next]_vars => [TimeoutStep]_vars
  <2> SUFFICES ASSUME TypeOK, EntryInv, [Next]_vars,
                      pc = "waiting", pc' = "idle", result' = "timeout"
               PROVE  /\ Unread = 0
                           \/ (~entry /\ mode = "spin" /\ "nothing" \in faulty)
                      /\ waited >= timeout
    BY DEF IInv, TimeoutStep
  <2>1. WaitTimeout
    BY DEF Next, Spinner, Halted, vars, Receive, Call, Tick, WaitReady,
       WaitNothing, WaitError, WaitOnNull, Take, TakeError, TakeNothing,
       Callback, Return, call
  <2>2. Timeouts \subseteq Nat
    BY RmwAssumption DEF RmwAssumption
  <2>3. timeout \in Nat /\ waited = WaitLimit(timeout)
    BY <2>1, <2>2 DEF WaitTimeout, TypeOK
  <2>4. waited >= timeout
    BY <2>3, WaitLimitBound
  <2>5. Unread = 0 \/ ~entry
    BY <2>1 DEF WaitTimeout, Ready, TypeOK, ReaderTypeOK, Unread
  <2>6. QED
    BY <2>4, <2>5 DEF EntryInv
<1>2. QED
  BY <1>1, Invariant, PTL DEF Spec, HonestTimeout

-----------------------------------------------------------------------------
(* The refinement of SubscriberBase.                                        *)

LEMMA AbstractInit == Init => Abstract!Init
  BY DEF Init, ReaderInit, Abstract!Init

LEMMA AbstractStep ==
  IInv /\ [Next]_vars => [Abstract!Next]_(Abstract!vars)
<1> SUFFICES ASSUME TypeOK, DataInv, TakeInv, [Next]_vars
             PROVE  Abstract!Next \/ UNCHANGED Abstract!vars
  BY DEF IInv
<1>1. CASE Receive
  BY <1>1 DEF Receive, Arrive, env, call, Unread, Abstract!Next,
     Abstract!Arrive
<1>2. CASE Call
  BY <1>2 DEF Call, reader, env, Abstract!Next, Abstract!BeginCall
<1>3. CASE Tick \/ WaitReady
  BY <1>3 DEF Tick, WaitReady, reader, env, call, Abstract!vars
<1>4. CASE WaitTimeout \/ WaitError \/ WaitOnNull \/ TakeError
  BY <1>4 DEF WaitTimeout, WaitError, WaitOnNull, TakeError, Return, reader,
     env, call, Abstract!Next, Abstract!EndCall
<1>5. CASE WaitNothing
  BY <1>5 DEF WaitNothing, Return, reader, env, Abstract!vars,
     Abstract!Next, Abstract!EndCall
<1>6. CASE Take
  BY <1>6 DEF Take, env, call, TypeOK, ReaderTypeOK, TakeInv, Unread,
     Abstract!Next, Abstract!Take
<1>7. CASE TakeNothing
  <2>1. Abstract!TakeFails
    BY <1>7 DEF TakeNothing, Fault, env, call, TypeOK, ReaderTypeOK, TakeInv,
       DataInv, Unread, Abstract!TakeFails
  <2>2. QED
    BY <2>1 DEF Abstract!Next
<1>8. CASE Callback /\ data # 0
  <2>1. Abstract!Callback
    BY <1>8 DEF Callback, Handed, Return, reader, env, TypeOK,
       Abstract!Callback
  <2>2. QED
    BY <2>1 DEF Abstract!Next
<1>9. CASE Callback /\ data = 0
  <2>1. Abstract!CallbackOnZeroes
    BY <1>9 DEF Callback, Handed, Return, reader, env, TypeOK, DataInv,
       Abstract!CallbackOnZeroes
  <2>2. QED
    BY <2>1 DEF Abstract!Next
<1>10. CASE UNCHANGED vars
  BY <1>10 DEF vars, Abstract!vars
<1>11. QED
  BY <1>1, <1>2, <1>3, <1>4, <1>5, <1>6, <1>7, <1>8, <1>9, <1>10
     DEF Next, Spinner, Halted

\* Whatever rmw_wait and rmw_take_with_info report, the rmw layer keeps the
\* promise of SubscriberBase, the weaker one once a take may give no sample.
THEOREM Refinement == Spec => ImplementsBase
  BY AbstractInit, AbstractStep, Invariant, PTL DEF Spec, ImplementsBase,
     Abstract!Spec
=============================================================================
