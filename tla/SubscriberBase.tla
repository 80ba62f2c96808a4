--------------------------- MODULE SubscriberBase ---------------------------
(***************************************************************************)
(* What every layer promises the measurement program through the abstract  *)
(* class SubscriberBase (layer_pubsub_common/interface.hpp): a reader      *)
(* history of bounded depth fills behind the caller's back; while a call   *)
(* of spin or spin_once is active, samples are taken from it one at a time *)
(* and handed to the callback that set_callback registered.                *)
(*                                                                         *)
(* A subscriber over a middleware that is not reliable promises less: the  *)
(* callback may be called without a new sample.                            *)
(*                                                                         *)
(* The samples in the history are always consecutive, so that two counters *)
(* stand for it: sample i is held iff removed < i <= received.             *)
(***************************************************************************)
EXTENDS Integers

CONSTANT Depth  \* samples the KEEP_LAST history holds

VARIABLES
  reliable,   \* taking a sample from a non-empty history never fails
  mode,       \* which of spin and spin_once this object's owner calls
  active,     \* a call is in progress
  received,   \* number of the last sample put into the history
  removed,    \* number of the last sample taken or overwritten
  holding,    \* the sample taken and not yet handed over, 0 if none
  delivered   \* the last sample the callback was given

vars == <<reliable, mode, active, received, removed, holding, delivered>>

Init ==
  /\ reliable \in BOOLEAN
  /\ mode \in {"spin", "spin_once"}
  /\ active = FALSE
  /\ received = 0 /\ removed = 0 /\ holding = 0 /\ delivered = 0

\* A sample arrives; the oldest one makes room for it when the history is full.
Arrive ==
  /\ received' = received + 1
  /\ removed' = IF received - removed < Depth THEN removed ELSE removed + 1
  /\ UNCHANGED <<reliable, mode, active, holding, delivered>>

BeginCall ==
  /\ ~active
  /\ active' = TRUE
  /\ UNCHANGED <<reliable, mode, received, removed, holding, delivered>>

Take ==
  /\ active /\ holding = 0 /\ removed < received
  /\ holding' = removed + 1
  /\ removed' = removed + 1
  /\ UNCHANGED <<reliable, mode, active, received, delivered>>

\* The callback runs inside the call; spin_once returns after one callback.
Callback ==
  /\ active /\ holding # 0
  /\ delivered' = holding
  /\ holding' = 0
  /\ active' = (mode = "spin")
  /\ UNCHANGED <<reliable, mode, received, removed>>

\* Nothing is taken, a sample lost or not, and the callback is called all the
\* same: spin still has the sample before in hand, spin_once has zeroes.
TakeFails ==
  /\ ~reliable /\ active /\ holding = 0
  /\ removed' \in {removed, removed + 1} /\ removed' <= received
  /\ holding' = IF mode = "spin" THEN delivered ELSE 0
  /\ UNCHANGED <<reliable, mode, active, received, delivered>>

CallbackOnZeroes ==
  /\ ~reliable /\ active /\ holding = 0
  /\ mode = "spin" => delivered = 0
  /\ delivered' = 0
  /\ active' = (mode = "spin")
  /\ UNCHANGED <<reliable, mode, received, removed, holding>>

\* A timeout or an error ends the call; a sample in hand is never dropped.
EndCall ==
  /\ active /\ holding = 0
  /\ active' = FALSE
  /\ UNCHANGED <<reliable, mode, received, removed, holding, delivered>>

Next == \/ Arrive \/ BeginCall \/ Take \/ Callback \/ EndCall
        \/ TakeFails \/ CallbackOnZeroes

Spec == Init /\ [][Next]_vars
=============================================================================
