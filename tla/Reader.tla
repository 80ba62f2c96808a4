------------------------------- MODULE Reader -------------------------------
(***************************************************************************)
(* The DDS reader under the rmw, rcl and rclcpp layers.  It is outside the *)
(* repository and seen from there through rmw_wait, rmw_take and rcl_take  *)
(* only: a KEEP_LAST history, the two counters of SubscriberBase, that     *)
(* fills behind the caller's back.                                         *)
(***************************************************************************)
EXTENDS Integers

CONSTANTS
  Depth,    \* KEEP_LAST depth of the reader history
  MaxMsgs   \* bound: samples that arrive in one behaviour

ASSUME ReaderAssumption == Depth \in Nat \ {0} /\ MaxMsgs \in Nat

VARIABLES
  received, \* number of the last sample put into the history
  removed   \* number of the last sample taken or overwritten

reader == <<received, removed>>

ReaderInit == received = 0 /\ removed = 0

Unread == received - removed

\* The samples removed < i <= received, with one more and at most Depth.
Arrive ==
  /\ received < MaxMsgs
  /\ received' = received + 1
  /\ removed' = IF Unread < Depth THEN removed ELSE removed + 1

ReaderTypeOK ==
  /\ received \in 0..MaxMsgs /\ removed \in 0..MaxMsgs
  /\ Unread \in 0..Depth
=============================================================================
