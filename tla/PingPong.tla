----------------------------- MODULE PingPong -----------------------------
(***************************************************************************)
(* The measurement of two_way.cpp: ping publishes a time stamp on /ping    *)
(* once per period and waits in spin_once for the answer on /pong; pong    *)
(* answers every sample from inside spin, and gives up when none arrives   *)
(* for the length of its timeout.  Nothing but the fixed sleeps and the    *)
(* two timeouts coordinates the two sides, so the clock is part of the     *)
(* model: a number that Tick moves on while nobody is due to act.          *)
(*                                                                         *)
(* A subscriber is what SubscriberBase promises: an inbox of bounded depth *)
(* that fills at any time and is looked at inside spin and spin_once only. *)
(* Time spent between the arrival of a sample and the end of its callback  *)
(* counts as transport time.  The two sides may use two layers, which then  *)
(* wait for two different times, and rclcpp for a time that is not fixed:   *)
(* it gives up at any instant from a shortest to a longest wait.            *)
(***************************************************************************)
EXTENDS Integers, Sequences, FiniteSets

CONSTANTS
  PingSetup, PongSetup,     \* the sleeps before the loop and before spin
  Period,                   \* update_period, the sleep before each publish
  Timeout,                  \* timeout_, given to spin_once and spin
  PingLayers, PongLayers,   \* the layers that either side may use
  Iterations,               \* rt.iterations
  Depth,                    \* KEEP_LAST depth of both readers
  Delays,                   \* how long a network may keep a sample at most
  PingStart, PongStarts     \* when ping is, and pong may be started

ASSUME TimesAssumption ==
  /\ PingSetup \in Nat /\ PongSetup \in Nat /\ Period \in Nat
  /\ Timeout \in Nat \ {0}
  /\ PingLayers \cup PongLayers \subseteq {"rclcpp", "rcl", "rmw", "dds"}
  /\ Iterations \in Nat /\ Depth \in Nat \ {0}
  /\ Delays \subseteq Nat /\ PingStart \in Nat /\ PongStarts \subseteq Nat

VARIABLES
  maxDelay,     \* a sample is under way for that long at most
  layers,       \* the layer that ping and pong use
  now,          \* CLOCK_MONOTONIC
  pongStart,    \* when pong's side was started
  ping, pingDue,\* "sleeping" until pingDue, "waiting" at least until then, "done"
  pong, pongDue,\* "starting", "spinning", "done", in the same way
  count,        \* samples published by ping, msg.data of the next one
  pings, pongs, \* samples under way on the two topics
  pongInbox, pingInbox,  \* the reader histories of pong and of ping
  served,       \* history: data of the samples that pong answered
  samples,      \* history: what ping's callback recorded
  lost          \* history: data of the samples lost on the way out or back

vars == <<maxDelay, layers, now, pongStart, ping, pingDue, pong, pongDue, count,
          pings, pongs, pongInbox, pingInbox, served, samples, lost>>
setting  == <<maxDelay, layers, pongStart>>
world    == <<setting, lost>>
pingSide == <<ping, pingDue, count, samples>>
pongSide == <<pong, pongDue, served>>

\* Appending to a KEEP_LAST history.
KeepLast(inbox, m) ==
  IF Len(inbox) < Depth THEN Append(inbox, m) ELSE Append(Tail(inbox), m)

\* The shortest time that spin and spin_once wait before they give up: rmw is
\* asked for the seconds of the timeout and, once more, for all its nanoseconds.
WaitOf(layer) == IF layer = "rmw" THEN 2 * Timeout ELSE Timeout

\* How much longer they may wait: when the executor of rclcpp has come back with
\* nothing done before the timeout is over, it is given the whole timeout again.
Slack(layer) == IF layer = "rclcpp" THEN Timeout - 1 ELSE 0

PingTimeout == WaitOf(layers.ping)
PongTimeout == WaitOf(layers.pong)
PingSlack == Slack(layers.ping)
PongSlack == Slack(layers.pong)

\* The test of ping's loop.
LoopTest == IF count < Iterations THEN "sleeping" ELSE "done"

Init ==
  /\ maxDelay \in Delays
  /\ layers \in [ping : PingLayers, pong : PongLayers]
  /\ now = 0
  /\ pongStart \in PongStarts
  /\ count = 0
  /\ ping = LoopTest /\ pingDue = PingStart + PingSetup + Period
  /\ pong = "starting" /\ pongDue = pongStart + PongSetup
  /\ pings = <<>> /\ pongs = <<>> /\ pongInbox = <<>> /\ pingInbox = <<>>
  /\ served = <<>> /\ samples = <<>> /\ lost = {}

-----------------------------------------------------------------------------
(* ping                                                                     *)

\* The period is over: publish the time stamp and begin spin_once.
PingPublish ==
  /\ ping = "sleeping" /\ now >= pingDue /\ count < Iterations
  /\ pings' = Append(pings, [data |-> count, time_sent |-> now, at |-> now])
  /\ count' = count + 1
  /\ ping' = "waiting" /\ pingDue' = now + PingTimeout
  /\ UNCHANGED <<now, world, pongSide, pongs, pongInbox, pingInbox,
                 samples>>

\* spin_once has returned: the next iteration begins, or the loop is over.
NextIteration ==
  /\ ping' = LoopTest
  /\ pingDue' = now + Period

\* A wrong spin_once: the answer is read, but stays in the reader's history.
PingHandleKeepsSample ==
  /\ ping = "waiting" /\ pingInbox # <<>>
  /\ LET m == Head(pingInbox) IN
     samples' = Append(samples, [data |-> m.data, iteration |-> count - 1,
                                 latency |-> now - m.time_sent])
  /\ NextIteration
  /\ UNCHANGED <<now, world, pongSide, count, pings, pongs, pongInbox,
                 pingInbox>>

\* A wrong callback: the two ends of the interval are swapped.
PingHandleSwapped ==
  /\ ping = "waiting" /\ pingInbox # <<>>
  /\ LET m == Head(pingInbox) IN
     samples' = Append(samples, [data |-> m.data, iteration |-> count - 1,
                                 latency |-> m.time_sent - now])
  /\ pingInbox' = Tail(pingInbox)
  /\ NextIteration
  /\ UNCHANGED <<now, world, pongSide, count, pings, pongs, pongInbox>>

\* The callback of spin_once: whatever answer is the oldest in the history
\* ends the iteration, and its latency is taken with the present time.
PingHandle ==
  /\ ping = "waiting" /\ pingInbox # <<>>
  /\ LET m == Head(pingInbox) IN
     samples' = Append(samples, [data |-> m.data, iteration |-> count - 1,
                                 latency |-> now - m.time_sent])
  /\ pingInbox' = Tail(pingInbox)
  /\ NextIteration
  /\ UNCHANGED <<now, world, pongSide, count, pings, pongs, pongInbox>>

\* A wrong spin_once: the wait is begun again for ever.
PingGivesUpNever ==
  /\ ping = "waiting" /\ pingInbox = <<>> /\ now >= pingDue
  /\ UNCHANGED vars

\* spin_once times out; the loop goes on with the next iteration all the same.
PingGivesUp ==
  /\ ping = "waiting" /\ pingInbox = <<>> /\ now >= pingDue
  /\ NextIteration
  /\ UNCHANGED <<now, world, pongSide, count, pings, pongs, pongInbox,
                 pingInbox, samples>>

-----------------------------------------------------------------------------
(* pong                                                                     *)

\* The reader of a durability VOLATILE topic keeps what arrives during its life.
\* It is made by the constructor, in rclcpp by set_callback after the sleep.
PongListens ==
  /\ pong # "done"
  /\ now >= pongStart + IF layers.pong = "rclcpp" THEN PongSetup ELSE 0

PongSpin ==
  /\ pong = "starting" /\ now >= pongDue
  /\ pong' = "spinning" /\ pongDue' = now + PongTimeout
  /\ UNCHANGED <<now, world, pingSide, pings, pongs, pongInbox, pingInbox,
                 served>>

\* A wrong spin: the deadline is set once, for all samples together.
PongHandleOneDeadline ==
  /\ pong = "spinning" /\ pongInbox # <<>>
  /\ pongs' = Append(pongs, [Head(pongInbox) EXCEPT !.at = now])
  /\ served' = Append(served, Head(pongInbox).data)
  /\ pongInbox' = Tail(pongInbox)
  /\ UNCHANGED <<now, world, pingSide, pong, pongDue, pings, pingInbox>>

\* A wrong spin: the wait is given the timeout twice, once as seconds and once
\* as nanoseconds.
PongHandleDoubled ==
  /\ pong = "spinning" /\ pongInbox # <<>>
  /\ pongs' = Append(pongs, [Head(pongInbox) EXCEPT !.at = now])
  /\ served' = Append(served, Head(pongInbox).data)
  /\ pongInbox' = Tail(pongInbox)
  /\ pongDue' = now + 2 * PongTimeout
  /\ UNCHANGED <<now, world, pingSide, pong, pings, pingInbox>>

\* The callback inside spin: the sample goes back with its time_sent untouched
\* and spin waits for the next one with a fresh deadline.
PongHandle ==
  /\ pong = "spinning" /\ pongInbox # <<>>
  /\ pongs' = Append(pongs, [Head(pongInbox) EXCEPT !.at = now])
  /\ served' = Append(served, Head(pongInbox).data)
  /\ pongInbox' = Tail(pongInbox)
  /\ pongDue' = now + PongTimeout
  /\ UNCHANGED <<now, world, pingSide, pong, pings, pingInbox>>

\* No sample for the length of the timeout: spin returns, and pong ends.
PongGivesUp ==
  /\ pong = "spinning" /\ pongInbox = <<>> /\ now >= pongDue
  /\ pong' = "done"
  /\ UNCHANGED <<now, world, pingSide, pongDue, pings, pongs, pongInbox,
                 pingInbox, served>>

-----------------------------------------------------------------------------
(* The middleware and the clock.                                            *)

DeliverPing ==
  /\ pings # <<>>
  /\ pings' = Tail(pings)
  /\ pongInbox' = IF PongListens THEN KeepLast(pongInbox, Head(pings))
                                 ELSE pongInbox
  /\ UNCHANGED <<now, world, pingSide, pongSide, pongs, pingInbox>>

DeliverPong ==
  /\ pongs # <<>>
  /\ pongs' = Tail(pongs)
  /\ pingInbox' = IF ping = "done" THEN pingInbox
                                   ELSE KeepLast(pingInbox, Head(pongs))
  /\ UNCHANGED <<now, world, pingSide, pongSide, pings, pongInbox>>

\* The network drops the sample that is next on either topic.
Lose ==
  /\ \/ /\ pings # <<>> /\ pings' = Tail(pings)
        /\ lost' = lost \cup {Head(pings).data}
        /\ UNCHANGED pongs
     \/ /\ pongs # <<>> /\ pongs' = Tail(pongs)
        /\ lost' = lost \cup {Head(pongs).data}
        /\ UNCHANGED pings
  /\ UNCHANGED <<now, setting, pingSide, pongSide, pongInbox, pingInbox>>

\* Time goes on when nobody has to act at this instant.
Tick ==
  /\ ~(ping = "done" /\ pong = "done")
  /\ ping = "waiting" => pingInbox = <<>>
  /\ pong = "spinning" => pongInbox = <<>>
  /\ ping = "sleeping" => now < pingDue
  /\ ping = "waiting" => now < pingDue + PingSlack
  /\ pong = "starting" => now < pongDue
  /\ pong = "spinning" => now < pongDue + PongSlack
  /\ pings # <<>> => now < Head(pings).at + maxDelay
  /\ pongs # <<>> => now < Head(pongs).at + maxDelay
  /\ now' = now + 1
  /\ UNCHANGED <<world, pingSide, pongSide, pings, pongs, pongInbox,
                 pingInbox>>

Done == ping = "done" /\ pong = "done" /\ UNCHANGED vars

Next ==
  \/ PingPublish \/ PingHandle \/ PingGivesUp
  \/ PongSpin \/ PongHandle \/ PongGivesUp
  \/ DeliverPing \/ DeliverPong \/ Lose
  \/ Tick \/ Done

Spec == Init /\ [][Next]_vars

(* Both threads run and time passes.                                        *)
FairSpec == Spec /\ WF_vars(Next)

-----------------------------------------------------------------------------
(* Correctness.                                                             *)

Sample == [data : Nat, time_sent : Nat, at : Nat]
Record == [data : Nat, iteration : Nat, latency : Nat]

\* Every variable has its type; no recorded latency is negative, and neither
\* inbox holds more than Depth samples.
TypeOK ==
  /\ maxDelay \in Delays
  /\ layers \in [ping : PingLayers, pong : PongLayers]
  /\ now \in Nat /\ pongStart \in PongStarts
  /\ ping \in {"sleeping", "waiting", "done"} /\ pingDue \in Nat
  /\ pong \in {"starting", "spinning", "done"} /\ pongDue \in Nat
  /\ count \in 0..Iterations
  /\ pings \in Seq(Sample) /\ pongs \in Seq(Sample)
  /\ pongInbox \in Seq(Sample) /\ pingInbox \in Seq(Sample)
  /\ Len(pongInbox) <= Depth /\ Len(pingInbox) <= Depth
  /\ served \in Seq(Nat) /\ samples \in Seq(Record)
  /\ lost \subseteq 0..(Iterations - 1)

\* pong's spin begins, and ping's first period.
Spins == pongStart + PongSetup
Starts == PingStart + PingSetup

\* pong is in spin before the first sample comes, and a round trip is over
\* before spin_once can give up.
Prompt == Spins <= Starts + Period /\ 2 * maxDelay < PingTimeout

\* An answer is recorded once and in the order of the questions.  If it is
\* prompt, it also ends the iteration that asked for it and no other, and its
\* latency is the time it was under way: a late answer is taken by a following
\* iteration, with the sleep of a whole period inside its latency, and a pong
\* that starts late adds its own delay to the first one.
InPhase ==
  /\ \A j, k \in DOMAIN samples : j < k => samples[j].data < samples[k].data
  /\ Prompt => \A k \in DOMAIN samples :
       /\ samples[k].data = samples[k].iteration
       /\ samples[k].latency <= 2 * maxDelay

\* Delays stay below the period, pong's longest wait is no longer than ping's
\* shortest, and a sample that comes while pong still sleeps is answered in its
\* own iteration.  The waits of an rclcpp pong and an rclcpp ping overlap: only
\* under a ping on rmw does an rclcpp pong wait no longer than ping.
QuickerThanPeriod ==
  /\ maxDelay < Period /\ PongTimeout + PongSlack <= PingTimeout
  /\ PongSetup + 2 * maxDelay < PingTimeout

\* Where pong never waits longer than ping, the measurement does not recover
\* from a lost sample: by the time ping has timed out and publishes again, pong
\* has left.  What pong answers is therefore one gapless series.  This is so
\* between two sides of dds, of rcl or of rmw.  (Between two sides of rclcpp an
\* executor that came back in vain keeps pong waiting beyond the time at which
\* ping publishes again, and the series may go on behind the gap.  So it may
\* were pong's sleep longer than ping's timeout: the answer to a sample from
\* before it could then end the iteration of a lost one.)
NoRecovery ==
  QuickerThanPeriod =>
    \A k \in DOMAIN served : served[k] = served[1] + k - 1

\* The time that pong must bridge when n samples are lost in a row: each one
\* costs ping its longest wait and another period.
Gap(n) == Period + n * (PingTimeout + PingSlack + Period)

\* The first sample and every next one arrive before pong can give up, even if n
\* are lost in between.
WellTimed(n) ==
  /\ Prompt
  /\ Starts + Gap(n) + maxDelay < Spins + PongTimeout
  /\ Gap(n) + 2 * maxDelay < PongTimeout

\* Then every iteration records its sample but for the lost ones: the fixed
\* sleeps of both sides ("wait until spin ready") are enough, and a loss, if
\* pong always waits longer than ping (rmw under dds or rcl), costs one sample.
OnlyLostMissing ==
  ping = "done" /\ WellTimed(Cardinality(lost)) =>
    {samples[k].data : k \in DOMAIN samples} = (0..(Iterations - 1)) \ lost

\* Both sides come to an end, with any delays and losses, any two layers and
\* started in any order: neither waits for the other for ever.
Terminates == <>(ping = "done" /\ pong = "done")
=============================================================================
