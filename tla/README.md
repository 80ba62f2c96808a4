# A TLA+ model of ros2_ping_pong_each_layer

The program measures the round trip of one message through four layers of ROS 2: rclcpp, rcl,
rmw and Fast RTPS ("dds"). `two_way` starts a *ping* and a *pong*, each in a thread of its own
in one process ("intra") or in two processes ("inter"). Ping publishes a time stamp on `/ping`,
pong publishes it back on `/pong`, and both record the age of what they receive. The four
layers sit behind two abstract classes, `SubscriberBase` and `PublisherBase`.

The modules are translated from the source; Fast RTPS, rmw, rcl, the rclcpp executor, the
network and the clock are external and modelled by what the code here can see of them.

## 1. The system

| Component | State | Operations | Hard behaviour |
|---|---|---|---|
| `FastrtpsSubscriber` (dds) | `data_`, `conditionMutex_`, `conditionVariable_`, `condition_mutex_`, `condition_`; the reader history | `onNewDataMessage` on a Fast RTPS thread; `spin`, `spin_once`, `attachCondition`, `data_taken` on the thread of ping or pong | a hand-made wait set: two threads, two locks, one atomic that is stored under a lock by one side and under none by the other; pointers attached after the listener was registered |
| `RmwSubscriber` (rmw) | the array `rmw_subscriptions_`, `wait_timeout_` | `spin`, `spin_once` around `rmw_wait` and `rmw_take_with_info` | an array that `rmw_wait` clears, results that are partly looked at, a timeout in two fields |
| `RclSubscriber` (rcl) | `wait_set_` | `spin`, `spin_once` around `rcl_wait` and `rcl_take` | no result but the timeout is looked at |
| `RclcppSubscriber` (rclcpp) | `exec_`, `last_exec_`, `done_callback_` | `spin`, `spin_once` around the executor, `sub_callback` | loops that keep the time themselves; shutdown at any time |
| the four publishers | the handle of the writer | `publish` | none of their own |
| construction, destruction | the handles of context, node, reader, wait set | constructors, destructors, `set_callback` | early returns that leave members uninitialised for the destructor |
| ping and pong (`two_way`) | `count`, the callbacks' clocks | the loop of ping, `spin` of pong, the two callbacks | coordinated by three sleeps and two timeouts only, which last twice as long on one of the layers and up to twice as long on another; loss, delay, start order |
| `HistReport`, `TimeSeriesReport` | bins, top-n list, series | `add`, `histToCsv`, `topnToHist`, `toCsv` | integer widths, a shift with ties, bounds, a null report |
| `main`, `get_params` | `Params`, the two threads, rclcpp's context | two parsers for one command line; dispatch on layer, type, side; start, join, shutdown | `argc` and `argv` moved by hand; objects of two threads that share `get_instance`; the order of releases |
| `MyMessageTypeSupport` | `m_typeSize`, `has_data_`, `max_size_bound_` | `_create_type_name`, `_create_topic_name`, `set_members`, `getEstimatedSerializedSize`, (de)serialisation | what rmw does, done once more by hand: names that must equal rmw's, a size bound, a dummy byte known to three functions |

Interactions: a callback registered with `set_callback` runs inside `spin`/`spin_once`, on the
caller's thread. It calls `add` of the reports and, in pong, `publish`. Samples cross from one
side to the other by the middleware only. In the dds layer, and there only, a second thread of
the process enters the code.

What makes each part correct: a subscriber delivers every sample at most once, in order, inside
a call; never sleeps, or reports a timeout, over a sample it could have delivered; returns.
The measurement pairs every answer with its question and ends. A report agrees with the
sequence of latencies it was given. A side on the dds layer understands one on any other.

`PROJECT.json` lists, under "hazards", where in the code each of these can go wrong.

## 2. Modules

| Module | Models | Composes with |
|---|---|---|
| `SubscriberBase` | the promise of `interface.hpp`: arrivals, a call, takes, callbacks | abstract specification of the four subscribers, assumed by `PingPong` |
| `FastrtpsSubscriber` | the dds subscriber, one action per shared access of either thread | implements `SubscriberBase` |
| `Reader` | the DDS reader below the other three layers | extended by the next three |
| `RmwSubscriber`, `RclSubscriber`, `RclcppSubscriber` | their `spin` and `spin_once` | implement `SubscriberBase` |
| `PingPong` | the measurement protocol with a clock, between two sides that may run on two layers | uses a subscriber as `SubscriberBase` promises it, with the timeouts of the layer modules |
| `TypeSupport` | names, sizes and payloads of the dds layer | one side on dds with one on dds or any other layer |
| `CommandLine` | `get_params`: the words of the command line and their two parsers | used by `TwoWay` |
| `Layers` | the constructors, destructors, `set_callback` and the handles of the eight classes, as tables of calls | used by `TwoWay` |
| `TwoWay` | `main`, the two threads and the life of their objects, with calls that fail | runs the tables of `Layers`; what happens inside `spin` and `publish` is the other modules' |
| `Reports` | both reports, which of them exist, the export | |
| `FastrtpsSubscriberProofs`, `RmwSubscriberProofs`, `RclSubscriberProofs`, `RclcppSubscriberProofs`, `PingPongProofs`, `TypeSupportProofs`, `TwoWayProofs`, `ReportsProofs` | the theorems about the module of that name, see section 5 | extend it |

Operators whose comment begins with "A wrong ..." are faulty variants of the definition that
follows them. No specification uses them; a run in which one replaces its original must violate
the property the variant is meant to break, which shows that the property depends on the code.

### SubscriberBase
A KEEP_LAST history holds consecutive samples, so two counters stand for it: sample `i` is held
iff `removed < i <= received`. `holding` is the local variable `data` between take and callback.
A sample in hand is never dropped: `EndCall` needs `holding = 0`. Over a middleware whose takes may
fail (`reliable = FALSE`) less is promised: `TakeFails` leaves the caller with the sample before, and
`CallbackOnZeroes` calls the callback without any.

### FastrtpsSubscriber
State: the history as above; `data_`; `attached`, the number of the two stores of
`attachCondition` that are done; `owner` of `condition_mutex_`; `notified`, a notification that
reached the waiting thread; a program counter and the local `unread_count` of each thread; for
the spinner, whether the deadline has passed and the local `data`.

The listener thread runs `Receive` (the middleware), `ReadUnread` (line 252), `LockCondition` or
`LockWild` (254), `Store` (256), `Unlock` (258), `Notify` (259). The spinner runs `Call`,
`AttachCondition` (271-272), `AcquireLock` (387), `EvalPredicate`, `Block`, `Wake` and
`TimeoutFires` (the steps of `wait_for`, 389-390: predicate first, atomic release and block,
wake-ups spurious or not, and the predicate once more after the deadline), `UnlockForTake`
(395), `TakeNextData` (414), `CountLeft` and `StoreLeft` (281, 282), `Callback` (419). `spin` and
`spin_once` differ in `Callback`, and in that a process calls one of them: `mode`.

`LockWild` and the `ELSE` of `Notify` are undefined behaviour: a lock or a notification through an
uninitialised pointer. `LockWild` chooses between a crash, a hang, and a lock of memory that
belongs to nobody.

What the middleware, the memory and the peer do is the environment of a behaviour, in three
variables the properties refer to: `readerLocked`, the listener runs under the reader's mutex (Fast
RTPS does it); `zeroed`, `data_` happened to start with 0; `paced`, the peer has so far written only
after the callback for the sample before, as ping and pong do while no answer is late. The
constants `ReaderLocking` and `DataInit` give the values to look at; `PeerWaits` keeps samples out
of the time before `attachCondition`, where finding 3 would hide the others.

### RmwSubscriber, RclSubscriber, RclcppSubscriber
One thread each, beside arrivals. Time is a counter `waited` that `Tick` moves on while a wait has
nothing to return for. Each wait is followed by the results the external function can give
(`WaitReady`, `WaitTimeout`, `WaitNothing`, `WaitError`; `Take`, `TakeError`, `TakeNothing`), and each
action does what the code does with that result up to the next wait, take or callback.
- rmw: `entry` is the array element, set by `Call` only and cleared by the wait; `WaitOnNull` is the
  wait over a cleared entry, which the middleware may or may not survive. `WaitLimit` is what
  `rmw_wait` is asked to wait: the seconds and, once more, all nanoseconds. A failed
  `rmw_take_with_info` returns (`CHECK_RMW_RET`); one that reports OK with `taken = false` does not.
- rcl: `inSet` is the wait set's element, set by every turn (`FillWaitSet`). `AfterWait` is the code
  after any result but the timeout, errors included. `waited` belongs to one `rcl_wait`; the histories
  `elapsed` and `fruitless` add up the waits, and the turns of `spin` that led to nothing, since the call or its last
  callback. Each such turn begins a whole timeout anew, and `HonestTimeout` says that nothing else prolongs a call.
- rclcpp: `idle` is the clock reading minus `last_exec_`, or minus the `last_exec` of `spin_once`,
  which the callback does not move. `WaitOther` is a return of the executor with nothing done.
  `answered` is a history variable.

### PingPong
`now` is the clock. `Tick` moves it on when nobody is due, so that a sleep or a timeout ends at its
instant, before or after other events of that instant. `layers` says what each side runs on. A side
knows its layer by two things only. The first is how long the layer waits when it is asked for 3 s: at least
`WaitOf` (rmw twice as long, see finding 4) and at most `Slack` more. `Slack` is for rclcpp, which gives its executor the
whole timeout again whenever that returns with nothing done before the timeout is over; so a side on rclcpp gives up at any
instant from one timeout to just before two, as `AtMostTwice` of `RclcppSubscriber` says. The second is whether its
reader exists from construction on (dds, rmw, rcl) or
from `set_callback` on, after pong's sleep (rclcpp). What a faulty middleware adds to the waits of rcl, or makes of the
takes of any layer, is in the modules of the layers and not here. `pings` and `pongs` are the samples
under way, each for at most `maxDelay`; `Lose` drops any of them. `layers`, `maxDelay` and
`pongStart`, which ranges over both orders of starting the sides, are chosen in the initial state and
stay. `served`, `samples` and `lost` are histories.
Callbacks take no time of their own; what they take is part of the delay. That reader and writer
find each other takes no time either: what discovery needs is part of the startup sleeps.

### TypeSupport
A message type is what `message_type_support_callbacks_t` says of it: a namespace, whether its size is
bound, its largest size; a message is a size and a value. `set_members`, `getEstimatedSerializedSize`,
`serializeROSmessage` and `deserializeROSmessage` are the functions of `MyMessageTypeSupport`, sizes have the
width `Word` of `uint32_t`, of which the module assumes only that the smallest payload there is, four bytes
of encapsulation and a dummy byte, has a size in it. `Announced` is what a side tells the network of a topic: on the dds layer by
`_create_topic_name` and `_create_type_name`, on any other as ROS 2 prescribes it, and `RosTypeSupport` is
the original that the other layers use. `Written` is `publish`: nothing happens if the payload does not fit
or nobody is matched. `Hear` takes, calls back and, in pong, publishes; `Oops` is the take that fails: ping
calls `spin_once` again, while `spin` has returned, and with it pong is over (`serving`).
`is_cdr_buffer` and `impl`, which both classes of the dds layer set in their constructors, are always as
the type support needs them and are left out.

### Reports
`HistReport::add` as `CountBin` (the 64-bit quotient truncated to a signed int of small width) and
`UpdateTop` (rank and shift), `TimeSeriesReport::add`, the existence of the reports for every
choice of output files, and `Export`, which writes the rows of each file (`csv`) that can be opened. Undefined behaviour (a bin number below 0, a null
report) is recorded in a variable instead of being followed.

### CommandLine
A command line is a sequence of words: an option of two_way, with its argument joined to it or not, an
unknown word that starts with a dash, or another word. `Walk` is where `getopt_long` with `+` in
its option string comes by, as the least set closed under its step; `Reached` leaves out the end: unknown options are
passed over, the first word that is none stops it. `ToRttest` is
what `argv += optind - 2` leaves for rttest: one word more than `getopt_long` has left over, since rttest
starts with `argv[1]`, and since the first option of rttest has been passed over as unknown. `Lines` has
each way to run the program in one form, and lines with an argument missing, an
option taken for an argument, options behind rttest's, and rttest's options joined to their arguments.
Not a property, since nothing promises it: rttest's options are lost if the first one is joined to its
argument, options of two_way behind rttest's are not heard, and without any option `argv` is moved to before its start.

### Layers and TwoWay
A constructor or destructor is a sequence of calls; `Layers` lists, for each, the resource it makes
or releases, the resources it is given, and what the code does when it fails: `CHECK_*_RET` and
`if (!x) return` are "return", a result nobody looks at is "go on", rclcpp and `new` "throw". A
resource is a handle, or the callback, with a state: `raw` (a member nobody has written), `null` (zero-initialised, or
a call that failed), `live`, `shut` (a context after shutdown), `gone`.

In `TwoWay` each thread executes its program, a sequence of such blocks: `PongProgram` and
`PingProgram` differ in the order of declaration of `pub` and `sub`, and thus of their destruction.
`MakeResource`, `AskFor`, `CallFails`, `ReleaseResource`, `ReleaseFails` and `ReleaseNothing` are the
possible outcomes of a call; `GoesWild` is undefined behaviour, a raw handle passed on or a handle
that is not live dereferenced, after which nothing is said any more (`status`). `GetInstance` and `Add`
keep track of which executor each object holds and to which its node was added. `Measure` stands
for `spin`, or for the loop of ping; it ends, but for `BusyLoop`: rcl's `spin` on a wait set that
was never initialised gets errors, never a timeout. `failed` is a history variable.
`Survived` lists failed calls of a constructor that leave a null handle behind and still never lead to undefined
behaviour: a publisher of rmw or rcl, whose null handle `publish` passes on to be refused, and the wait set of
rcl. Other failures are harmless as well, such as that of the graph guard query of the rmw publisher (rmw_pubsub.cpp:305) and
every call that throws; `KnownHoles` does not say that a failure outside `Survived` does harm, only that no harm comes without one. An exception from `rclcpp::init`, a signal, and the reports, which are never deleted, are left out.
The order of the calls also shows that on the rclcpp layer pong's `set_callback` makes node and subscription behind
`expect_no_malloc_begin`, although two_way.cpp:226 says "wait before no_malloc_begin until other
initialize finish"; the memory tools report that and go on, so that no state of the model depends on it.

## 3. Runs and what they show

| Run | Instance | Shows |
|---|---|---|
| `fastrtps` | depth 2, four samples, three calls, reader mutex held in the listener or not, `data_` starts with 0 or 1, samples at any time, also before `attachCondition` | in all of them: no missed notification, no deadlock between the two locks, every call returns, refinement of `SubscriberBase`; with the mutex and a zero `data_`: `takeNextData` never fails; while the peer has waited for the callbacks as well: no lost wake-up, no false timeout |
| `fastrtps_lost_wakeup` | any peer | **violation**: the store of `data_taken` hides a sample |
| `fastrtps_uninitialised` | `data_` may start above 0 | **violation**: the predicate holds before any sample |
| `fastrtps_early` | samples before `attachCondition` | **violation**: wild pointers |
| `rmw` | any subset of: `rmw_wait` fails, or reports OK for nothing; `rmw_take_with_info` fails, or reports OK with `taken = false` | order, what the callback sees without a sample, no timeout early or over an unread sample but in a `spin` after the second fault, return, refinement |
| `rmw_timeout` | a timeout of one second | **violation**: the wait lasts two |
| `rcl` | any subset of: `rcl_wait` fails, or reports OK for nothing; `rcl_take` fails | order, what the callback sees without a sample, no timeout over an unread sample or early, each fruitless turn of `spin` prolongs a call by one timeout at most, return, refinement |
| `rclcpp` | an executor that returns early, shutdown at any time | idle for less than two timeouts; a call returns, and for a reason; one callback; refinement |
| `pingpong` | ping on dds, rclcpp or rmw, pong on rclcpp or rmw, two networks that lose any samples, pong started four ticks before to four ticks after ping | in phase or, behind late answers, still once each and in order; no recovery after a loss where the longest wait of pong is no longer than the shortest of ping; every sample recorded but the lost ones when well timed; both sides end |
| `typesupport` | every kind of type and both sides on dds or another layer, two messages | the sides match by name, every message is written and read back by the other side unchanged, as long as its size fits |
| `twoway` | every layer, type and side, twenty command lines; any two calls fail | both parsers get their options; after which failures the program uses an uninitialised or null handle; nothing is released below something made from it; what is left at the end; one thread per executor; `main` ends |
| `reports` | five samples in every order over bin boundaries, ties, zero, latencies beyond the int range | top-n list and histogram agree with the samples, and the exported top-n list with the exported series; undefined behaviour by the two known ways only |

The runs `fastrtps`, `rmw`, `rcl`, `pingpong` and `typesupport` choose their environment in the initial state
(`readerLocked`, `zeroed`, `faulty`, `maxDelay`, `layers`), and their properties say in which environments they hold, so that one run
answers for all of them.

### Bounds
`FastrtpsSubscriber` runs with four samples and three calls. A race needs a sample that is being
taken and one that arrives; overwriting needs `Depth + 1` samples; the fourth covers what is left
in `data_` by the first ones. `Depth` is 2 in the passing run, so that a history is also neither
empty nor full, and 1, the code's QoS, in the three violations; the theorems hold for every depth.
The three other subscribers run with `Depth` 2 and three samples, so that a history
overflows between two steps of a call, with up to three calls, so that what one call leaves is
found by the next, and two failures, so that one can follow the other's consequences. Timeouts
are 1 and 3 ticks, with a second of 2 ticks for rmw: below a second, and a second and a half.
`PingPong` keeps the order of the code's times (startup sleeps 2 : 1, a timeout longer than some periods and
some round trips, twice as long for rmw) at a few ticks each: with a timeout of 7 a side on rclcpp gives up after 7 to 13. Of its two
networks one delivers within every timeout; in the other a round trip takes longer than a timeout and less than that of rmw. dds stands for rcl
as well, which waits as long and makes its reader at the same place. `NoRecovery` has its say where ping is on rmw, over either
pong, and under a ping on dds or rclcpp it has none, since both of these pongs may outwait that. With one loss, a
delay of one tick, a ping on dds and a pong on rmw the times fit, so that `OnlyLostMissing` is not about lossless networks alone. Three iterations let a late answer disturb the
iteration behind it and show what happens after that. `Reports` has three bins and a top list of
three: a shift, a full and a not full list, and a bin number that overflows need no more. `TypeSupport` has sizes of zero, of one,
of some, and around the width of `m_typeSize`, with the encapsulation on either side of it. `TwoWay` has no
bound but two failing calls: one can make a constructor return, the other stop the destructor that
follows, or each can hit one thread. Every
bound is a constant of its module.

### Fairness
`FastrtpsSubscriber`: both threads are scheduled (weak fairness of each thread as a whole).
`TimeoutFires` gets strong fairness: `wait_for` turns its timeout into an absolute deadline, so that
spurious wake-ups do not put it off. `Receive` has no fairness; nobody has to write.
The other subscribers: weak fairness of the thread, its clock included. `PingPong`: weak fairness
of the next-state relation, in which time always passes when nobody is due. `TwoWay`: weak fairness
of `main` and of each thread; that `spin` and `spin_once` return is shown by the runs of the layers. Both threads of
`two_way` run under SCHED_RR on a processor of their own (two_way.cpp:179-188, 273-280).

## 4. Findings

1. `data_taken` (fastrtps_pubsub.cpp:279-283, "TODO: care lock") can overwrite a newer count with
   0; the next wait then sleeps over an unread sample. `PacedWakeups` and its
   theorem `PacedPeerWakes` show that ping and pong cannot meet it while no answer is late.
2. `data_` has no initial value.
3. The listener's pointers are stored at the first `spin` or `spin_once`, the listener is registered
   by the constructor. In ping every answer that is faster than the first `spin_once` falls into
   the gap between `publish` and `attachCondition`.
4. `rmw_wait` is asked to wait for the seconds of the timeout twice (rmw_pubsub.cpp:184-187): 6 s in
   place of 3 s for ping and pong. That both sides do it keeps `NoRecovery` true of this
   layer; with rmw on pong's side alone, and ping on dds or rcl, a measurement survives a loss (`OnlyLostMissing`).

Between two sides of dds, of rcl or of rmw a sample that is lost on its way to pong is the end of the series. Between two sides of rclcpp it need not
be: an executor that came back in vain can keep pong waiting past the time at which ping publishes again, and pong then answers across the gap.
Nothing in the code promises either, so this is no finding, but a reader of a report cannot tell a gap of one sample from the end by the layer alone.

## 5. What is proved

TLAPS checks every theorem for all values of the constants under the assumptions named in
the modules (`Depth` is positive, bounds are naturals, and so on).

`FastrtpsSubscriberProofs`. The inductive invariant is needed because none of the properties is
inductive: that the spinner does not sleep over `data_ > 0` depends on who holds the mutex and
on how far the listener is. It joins the types, mutual exclusion (`owner` agrees with the two
program counters), the state of the attachment, the order of the numbers (`delivered`, `data`, `removed`,
`received`), and, when the listener runs under the reader's mutex, what `data_`, the two local
counts and the history say of each other. `Invariant` proves it by one step per action; then
- `TypeCorrect`, `NoDeadlock`, `NoMissedNotification`, `TakeSucceeds` read the run's properties off it, and
  `DeliveryInOrder` what a user of the dds layer relies on: each callback gets a newer sample;
- `PacedPeerWakes` and `PacedPeerTimeouts` add what a peer that has waited guarantees (`PacedInv`);
- `Refinement` maps every step to a step of `SubscriberBase` or to a stutter.

`ReportsProofs`. The invariant says that the top-n list is sorted, that each filled rank points to a
sample of that latency, that the ranks are distinct samples, and that every sample outside is
no larger than the last rank. `TopNCorrect` proves `TopN`, the three claims about the list,
`TopAgreesWithSeries` that the indices of the exported list join it with the exported series.
`BinsCorrect` counts the samples of a bin as a finite set and needs two
facts beside it: as long as no quotient has left the range of `int`, the truncation to its width changes
nothing, so that the number of the bin is the quotient; and one more sample adds its index to the hits of
that bin and to no other. `UndefinedKnown` follows the two ways to a report that is not there or a
bin below 0 through every action.

`RmwSubscriberProofs`, `RclSubscriberProofs`, `RclcppSubscriberProofs`. The three have one shape. `DataInv` (rmw, rcl)
says what the message variable holds before each take, zeroes in `spin_once` and the last sample in `spin`; the
refinements need it, since that is what a callback gets when a take gives nothing. `TimeoutsHonest`
needs `EntryInv` in rmw (the array entry is set during each wait, unless an OK for nothing has cleared it
and `spin` goes on without it) and `WaitInv` in rcl (each turn fills the wait set) together with `TimeInv` (the time since the call or the last callback is what
the present wait has taken and at most one timeout for each fruitless turn before it); neither follows from the code around
the timeout. In rclcpp `ClockInv` bounds the idle time at each place of the loop, by less than one timeout before the
executor is entered and by that plus the wait inside it, which gives the two timeouts of `IdleBounded`; `HandInv`
says that nothing is taken after the callback that ends `spin_once`. `Refinement` then maps each step to
one of `SubscriberBase` or to a stutter, with whatever faults.

`PingPongProofs`. `TypeInv` adds to the types that each sample under way and each record is of a
number already published and of a time not in the future; without it a latency could be negative.
`StaysInPhase` rests on two more invariants. `OrderInv`, for any times and losses: the records, the two inboxes and the two topics
are in order each, and in the order samples, inbox of ping, `/pong`, inbox of pong, `/ping`
every number of one is below every number of the next; each action takes the least of one
and appends it to the one before it. `PhaseInv`, for every choice of times in which an answer comes before its iteration
times out (`Tidy`): at most one sample is under way at all, it is that of the iteration that
waits, and wherever it is, it is there in time; so a wait that times out leaves nothing behind. The
delicate place is pong's inbox, in which a sample can age while pong still sleeps: `Late` is how long, and it is 0
if the sleep is over before the first sample, as `InPhase` asks.
`LossIsTheEnd` adds two invariants about the last number that pong answered. `AnswerInv`: what is under way to pong is
newer, what is under way to ping is the answer to the present iteration. `LeaveInv`: once a sample is published that pong
has not answered, the last instant at which pong can give up is before ping can publish the one after it. `NoRecovery` asks that pong's startup sleep and
two delays are shorter than ping's timeout. It would be false without that, which this instance does not show: a sample from the
time of the sleep may be answered so late that its answer ends the iteration of a lost one, and then the next is published in time.
The code's times (1 s and 3 s) are on the safe side.
`OnlyLossesMissing` is about the other case, a pong whose shortest wait bridges the losses, and adds `FitInv`. `WhereInv` accounts for every
sample: it is recorded, lost, or the one under way. `PaceInv` says by when the next sample is published: within `Budget`, the time
of pong's last answer (before the first one, of the startup) and `Gap` of the losses so far. A lost sample moves
that by the longest wait of ping and one period at most, and the budget by as much. So pong, whose deadline is later than the budget for
the losses there will have been in the end (`WellTimed`), is still there for each sample, and no iteration gives up on an answer that comes.

`TypeSupportProofs`. The invariant `Link` says of each direction that what was heard and then what is on the wire is
what was sent: the wire holds the payloads of the samples that are still missing, in order. A step of `Hear` keeps it because
the two type supports that match by name agree on the dummy byte and on the encapsulation, whichever
of the two sides is on dds; that no payload is refused needs that `m_typeSize` covers it (`Fits`),
and for an empty type that `Word` holds 5. The types (`TypeOK`) are a lemma of that module and no property of a run.

`TwoWayProofs`. The theorems hold for any number of failing calls and every interleaving of `main` and the two threads; TLC looks at two
failures. The proof has two layers.

The first is about the eight classes one at a time. Each constructor, each `set_callback` and each destructor is annotated by a
table with one row before each of its calls and one at the end: `Has` and `Hears` list what has been made, `Live` and
`Shut` what is still to be released and what is shut down and still to be finalised. `Makes` and `Drops` say what such a table must
satisfy for every call: it is given only resources of the row before it, and never one that the program may be without (`Survived`); what
the destructor gives up is closed under "made from" (`Closed`); a failure is ignored, or several resources
are released at once, only where nothing follows (`LetGo`). There is one lemma for each table (`RmwSubscriberMakes`
to `RclcppPublisherDrops`), which expands the calls as `Layers` has them.

The second is about the threads and knows the classes by these tables only. `TypeInv` (`TypeCorrect`) places each thread at a call of
its program, so that `Calls` can say which row the call belongs to. On this rest four inductive invariants, none of
them implied by the property it is for:
- `OrderInv` for `NothingPulledAway`: what an object has given up is not live, and what it has not given up is neither shut
  down nor gone. `ReleaseOrder` is not inductive, since it does not know that the call about to be made releases nothing that the later
  ones hold. A destructor that returns early leaves its object between two rows, hence the existential quantifier over rows.
  That `rclcpp::shutdown` comes last also needs `ThreadInv`, that joined threads have ended, and that the destructors of
  rclcpp cannot return early.
- `SpinInv` for `OwnExecutor`: an object of rclcpp has the executor made for it from its constructor on, and its node
  in it from `set_callback` on, whatever the other thread has done to `instance` since.
- `HoleInv` for `OnlyKnownHoles`: while no failure outside `Survived` has happened, what an object owns (`Owned`) is live
  until its destructor runs, or is null and survived, and is never uninitialised. `Owned` depends on the place of the thread
  alone, so this says that the program never gets past a call without its result.
- `ExactInv` for `OnlyKnownLeaks`: while nothing at all has failed, a resource is live exactly if it is owned and the destructor has not come to
  it. At the end of `main` the last row of each table is left, which is `Leaked`.

`EachParserHearsItsOwn` is about `get_params` alone. The walk of `getopt_long` is a least set, not a recursion, so no
induction over the line is needed. For a line whose first `n` words are two_way's own, `Heads(n)` with the next position is closed under
its step (`WalkCloses`); and a least position of `Heads(n)` that the walk misses would follow from the one before
(`WalkMeets`). What rttest is given (`RestToRttest`) and what `Value` finds (`LastHeard`) follow for a line of any length
and words spelt from any set of strings; the theorem only adds that `Lines` are such lines.

Model-checked only: liveness (`CallReturns`, `Terminates`, `Ends`), which is out of the prover's reach.

## 6. What is left, and what is not modelled

Every safety property the passing runs check is a theorem; liveness stays with TLC. Two hazards stay
outside the properties. Over an entry of the rmw array that an earlier turn of `spin` cleared (rmw_pubsub.cpp:219), `HonestTimeout` says nothing, because
what `rmw_wait` does with a NULL entry is not the code's to say. And nothing stops rcl's `spin` while `rcl_wait` fails
every time (rcl_pubsub.cpp:190): `CallReturns` counts on finitely many failures, and `Ends` exempts a pong without a wait set.

Left to do: the steps from which liveness would follow, such as that
a measure of the work left falls with each step of a thread, where they can be stated without fairness.

Not modelled, for good:
- the real-time set-up (affinity, priorities, memory locking, allocation checks): calls of rttest, sched and
  the memory tools whose results are printed at most; the program keeps no state of them;
- discovery, retransmission and everything else below `write`, `rmw_publish` and the readers: it is not in this
  repository; `PingPong` lets the network lose and delay what it likes;
- the text of the messages on the console and the headings of the CSV files;
- what rttest makes of its options, and the stack that `pub_latency[iterations]` takes (two_way.cpp:223, 330);
- generated message code, message definitions, build files.
