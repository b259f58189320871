# A TLA+ model of the traffic shaping router

The router takes packets from a netfilter queue, sends them through a chain of
filters (loss, NAT, bursts, delays, bandwidth limits) and puts them back on the
network. The chain is one function call per filter, but half of the filters keep
a packet and pass it on later, from another thread: a pool of four threads runs
their timers and callbacks while the router's own thread brings new packets. The
filters therefore race with themselves, and nearly all that can go wrong in them
goes wrong between two of their critical sections. That is what is modelled here.

Paths below are relative to the repository; `src/` is its source directory.

## Inventory

| Part | Source | State | Operations | Interacts with | What makes it correct |
|---|---|---|---|---|---|
| AsyncQueue | `async_queue.hpp` | elements, one callback, two stop flags | push, asyncPop, niceClose, (close) | posts callbacks to the pool | nothing lost, repeated, overtaken or left waiting; one callback at a time |
| TpService | `tp_service.*` | io_service, four threads | post, timers | runs every callback and timer | runs what is posted |
| StaticDelay | `filters/shaper.*` | a queue, a delay | handlePacket, popHandler, its timer | AsyncQueue, timers, next filter | order kept, never early, delays do not add up |
| Nat | `filters/nat*`, `connection_*` | mapper's and filter's maps of weak pointers, entries kept alive by timers | handlePacket (mapPacket, filterPacket), expiry, deletion | pool deletes entries; next filter | solicited traffic only; a connection keeps its ports while it lives; ports come free |
| TokenBucketFilter | `filters/tbf_filter.hpp` | per direction a queue, tokens, a time | run (timer), handlePacket, trySend | two threads, next filter called with the mutex held | rate, no missed send, everything leaves |
| Burst | `filters/burst_filter.hpp` | a vector, `sleeping_` | init (timer), handlePacket | several threads | nothing lost or repeated, bounded holding time |
| DynamicDelay | `filters/dynamic_delay.*` | two queues, current delay | setDelays, two pop handlers | AsyncQueue twice | the delay curve; order kept |
| DynamicLoss | `filters/dynamic_loss.*` | index, current loss | handleTimeout, handlePacket | a timer and a caller | index and loss agree, the pattern repeats |
| Loss | `filters/shaper.*` | a probability | handlePacket | - | dropped or passed, with a verdict |
| Input, InputDrop, Output | `filters/input*.hpp`, `output.hpp` | - | handlePacket | setVerdict | exactly one verdict per packet |
| OutputLibnet, Output6Libnet | `filters/output*_libnet.*` | a queue, a libnet handle | popHandler | AsyncQueue, the network | sends what came, translated by the NAT and no further; goes on after an error |
| Router, main | `router.*`, `main.cpp` | two chains, a pointer per filter | init, setters, initFilters, execute, newPacket | everything | every filter of a chain is configured and initialised, in either family |
| Packet, Packet6 | `packet*`, `parent_packet.hpp` | header fields, a copy of the datagram, stamp, verdict | constructors, setters | all filters, the outputs | fields survive from reading to writing; one verdict |

What is hard in each of them is listed under "hazards" in `PROJECT.json`, with
the line where it bites and the properties that watch it.

## Modules

```
SerialQueue        what AsyncQueue promises to its owner
AsyncQueue         the queue itself;                         AsyncQueueProofs
StaticDelay        the filter, over SerialQueue;             MCStaticDelay,  StaticDelayProofs
Nat                mapper, filter and entries;               MCNat,  NatProofs
TokenBucket        one direction of the filter;              MCTokenBucket,  TokenBucketProofs
Burst              the filter;                               BurstProofs
DelayCurve         setDelays() as a function
DynamicDelay       the filter, over SerialQueue, DelayCurve; MCDynamicDelay,  DynamicDelayProofs
KeepingFilter      what Router takes a filter that keeps packets for
Packet             what is read from a datagram, and built from it again
Router             options, chain and packets, the other filters and the
                   outputs, over Packet;                     MCRouter,  RouterProofs
SequenceLemmas     what the proofs use of sequences: appending, heads and tails,
                   counting the elements of a kind
```

The `MC` modules only hold constant values a configuration file cannot spell.
Operators named as mutants are variants of the definition that follows them, each
with a mistake one could make in that code; no specification uses them. They
show that the property each is listed with can fail.

**SerialQueue / AsyncQueue.** `AsyncQueue` has one step per critical section:
`Push`, `AsyncPop` and `NiceClose` are the first sections of the calls of that
name, after which the thread is at `tryPop`; `TryPopFound` takes an element and
the callback, and the thread then carries both, without the lock, to `Post`;
`TryPopNotFound` leads to the second section, `TryStop`. `posted` is the
io_service's queue, from which a `Workers` thread runs a callback
(`RunHandler`). An owner hands its callback to `asyncPop()` again once it is done
with an element, from whatever thread its timer ran on: `owing` is the set of threads
one of which will do that. The exception is OutputLibnet, which no longer does after
libnet fails to make its context; Router has that (`Settled`). `niceClose()` is
modelled as what the queue offers; nothing in the repository calls it. `SerialQueue`
is the promise: accepted elements are handled once, in order, one at a time, and a
closed queue ends when it is drained. `Refinement` says that `AsyncQueue`, with
its fairness, implements `SerialQueue` with its own: among other things, that
what is accepted is handled, and a closed queue comes to its end.

**StaticDelay** uses `SerialQueue` for its queue (`Queue!Accept` in
`HandlePacket`, `Queue!Handle` in `PopHandler`, `Queue!Register` in `Rearm`);
the filters never close theirs. Real time is `now`; the local wall clock, which
stamps and delays are computed with, is `now + shift`. Deadlines are on UTC, as
boost's `deadline_timer` is. `timers` is a set, so nothing in the model keeps
two packets from being delayed at once; that there is never more than one is a
consequence of the queue.

**Nat.** A map slot holds an entry's name, as the map holds a weak pointer.
`Alive` is what `lock()` finds: the entry is held by its timer's handler
(`armed`) or by a thread that locked it (`hold`). When the last holder goes,
`lock()` fails at once, while the slots are erased (`Erase`) only when the
deleter, on the pool (`PoolDeletes`) or on the caller's own thread
(`CallerDeletes`), gets the mutex. `makeNewConn()` takes no mutex and writes the
two maps in two steps (`PutInt`, `PutExt`). A caller that has taken the mutex and
finds no free port stays at `spin`. The README requires one internal address, so
an internal endpoint is a port. The model is of one protocol. In the code only the
filters' `connMap_` and the symmetric mapper's `intPortMap_` have it in their keys;
the other maps and the port forwarding rules are keyed by the port alone, so that
what uses one port with two protocols shares an entry. That is not modelled.
`type_` and `connectionTimeout_` are chosen at the start.
`filterPacket()` holds its mutex until the shared pointer it has just made is
gone (`ReleaseLocked`); if the timer it has started in between has run by then,
that pointer is the last, its deleter wants the same mutex, and the thread is
`stuck`. The mapper gives the mutex back first. Time passes between any two steps
(`Tick`): `left` is how long each timer, started by `ArmTimer`, still has to go, and
`held` how long a thread has been kept with the mutex in its hands, up to the
timeout. A timer is never early and may be late by any time, as a thread may be.

**TokenBucket** follows `run()` through its two readings of the clock, the
section that adds tokens and `trySend()`, and `handlePacket()` through its two
sections. The mutex is held from `TrySend` to `EndSend`, through `next_`. Time is
kept relative to `timerStart_`. `dataRate_` is chosen at the start. `excess`
measures the rate over all spans at once (see `Measured`). `Stuck` names the two
ways in which the code can never pay for the packet at the head.

**Burst** has one step per access to `sleeping_` or to the queue. The loop of
`init()` sends packets one at a time, holding the mutex; callers that have read
`sleeping_` before act on it during and after that.

**DelayCurve** computes `setDelays()` as the code does: the slope is a float (24
bits), so is its product with the second, the sum with the value the segment
began with is cut off to an int, and the next segment goes on from there.
`Interpolation` is what the header says the curve is. `InRange` are the patterns for
which these steps are all that rounds: delays up to 2^22 ms, so that every int on
the way is a float itself.

**DynamicDelay** has StaticDelay's steps for packets, with the reading of the
clock (`PopHandler`) and of `delay_` (`Arm`) apart, and the steps of
`delayPopHandler()`: a delay is taken from `delayQ_`, put back, made the delay in
force, and the timer is started. `delayQ_` is a queue with one callback, too;
only what it holds is kept. The pattern is one of `Options`, chosen at the start.
Rounding can make a delay negative (`--dyn-delays 0 10 3 0 --dyn-delay-res 13`);
`popHandler()` then sends at once, as it does for a delay of 0.

**Packet** has the two constructors (`ReadIpv4`, `ReadIpv6`) and the two outputs'
use of libnet (`BuildIpv4`, `BuildIpv6`) as functions between datagrams, records
of the fields the code tells apart, and packets, records of the members of the
classes. Each field is read in the byte order the code reads it in: an ICMP id is
not passed through `ntohs()`, nor an IPv6 flow word through `ntohl()`.

**Router** goes from a command line through `main()` (`Begin`, `Configure`: one step
per option, which may refuse the line) to the chains and what the setters reach in
each (`set4`, `set6`), to the calls of the filters' `init()` (`InitOrder`,
`Init6Order`), to packets. `Router::init()` without a list is `InitAll`, which makes
both default chains at once; with a list, `AddFilter` is one turn of its loop, which
makes one filter in either chain, skips a name it does not know, and has no Nat for
IPv6. A filter is its place in the order of making; `Member` is the Router's pointer
to the filter of a name, the one made last. A packet is `moving` when a thread calls
`handlePacket()` of the filter `at`; `by` says which thread that is: the one of
`execute()`, which brings one packet after the other, or the one that filter `by`
has sent, which comes back for the next only then. Of each filter the chain sees
whether it passes a packet on, drops it with or without a verdict, or keeps it; so a
filter here is an outline of its own module, and may do at any time what that module
says the time of. A TokenBucketFilter's packets are passed on by its timer or by a
thread that brings another packet; here that is one action. `recv()` may return 0 at
any time, which ends the process (`Return`).

**KeepingFilter** is that outline written down: packets are kept in order, one at
a time is passed on, and nothing is kept for ever. `Outlined`, in StaticDelay,
DynamicDelay and Burst, says that the detailed filter, with its fairness,
implements it, so that what Router shows of chains holds of chains of these. A
TokenBucket keeps its packets in order, too, but not all of them leave
(`StuckForEver`); Router's liveness takes its rate and bucket to be large enough.

## Runs

| Run | Checks | Distinct states |
|---|---|---|
| AsyncQueue | `TypeOK`, `OneCallback`, `Conservation`, `NoLostWakeup`, `EndsDrained`, `Refinement` | 13 thousand |
| StaticDelay | `TypeOK`, `NoReordering`, `NotEarly`, `DelaysDoNotAddUp`, `Outlined` | 528 thousand |
| DynamicDelay | `TypeOK`, `InTurn`, `OnSchedule`, `DelayOfTheMoment`, `NotEarly`, `NearPattern`, `Outlined` | 546 thousand |
| Nat | `TypeOK`, `NoStaleSlot`, `Solicited`, `OwnsExternalPort`, `LostOnlyIfFull`, `NoSelfDeadlock` | 1.4 million |
| TokenBucket | `TypeOK`, `RateConformance`, `NoMissedSend`, `StuckForEver`, `EventuallySent` | 16 thousand |
| Burst | `TypeOK`, `Conservation`, `HeldOnePeriod`, `Outlined` | 84 thousand |
| Router | `TypeOK`, `Shaped`, `OneVerdict`, `OrderKept`, `Configured`, `Intact`, `Settled` | 165 thousand |

and five runs in which the code does not do what its documentation or tests say:

| Run | Violates | Because |
|---|---|---|
| NatStale | `Found` | a deleter erases the slots of the connection made again under the same keys |
| NatDnat | `ForwardedPortAnswers` | answers on a forwarded connection leave from the internal port number |
| DynamicDelayCurve | `FixPointsKept` | the float slope times the resolution is below the next fix point, and is cut off |
| RouterVerdict | `VerdictOnDrop` | a packet that finds the token bucket's queue full gets no verdict |
| RouterIpv6 | `LoopsForEver` | with `--ipv6` and no `--filters` a null pointer is called through |

`Solicited` speaks of the hosts an internal port has ever sent to, so it does not see
whether an entry that lets a packet in should have expired; `NoStaleSlot` says that
what has expired leaves no slot behind once it is deleted.

In RouterVerdict the command line has `--tbf-out-max-packets`. The chain has no fill
level, so TLC's trace, in which the bucket forgets the first packet, is one of
`--tbf-out-max-packets 0`; by default 30 packets have to wait first. The NAT forgets
packets without a verdict, too; README.md:56 of the router excludes it from accept
mode, and the run does not use it.

Some more differences showed up on the way and have no run:

- A caller of Burst that reads `sleeping_` just before `init()` sends the burst
  queues its packet behind it, for the whole sleep and the next burst
  (`HeldOnePeriod` is the bound that holds).
- Two callers of a symmetric NAT can be given the same port, as `mapPort()` gives
  the mutex back before the port is taken.
- `filterPacket()` can wait for a mutex it holds: it starts a timer under the mutex,
  and if the thread is kept from its return for `--nat-timeout`, it is the one that
  deletes the entry. `NoSelfDeadlock` says that nothing less is enough (a thread that
  is not kept at all, with a timeout of 0) and that the mapper is safe from it.
- Each change of the delay is timed from the handler that makes the one before
  (dynamic_delay.cpp:49), so what a thread is late adds up over the pattern.
  `OnSchedule` is about threads that never are.
- A packet longer than the bucket blocks a TokenBucketFilter for ever, and so does
  a rate below 2 kbit/s as long as its timer is on time (`StuckForEver`).
- Without `--filters` the chain is not the one README.md:135 lists: DynamicLoss
  and DynamicDelay come before the TokenBucketFilter, and `--accept-mode` has no
  effect.
- What is re-sent is not all that came (`Intact` names the exceptions): IPv4 packets
  get the fragment offset, which is 0 for a whole datagram, for their identification
  and lose the IP options, IPv6 packets lose the traffic class and get a flow label
  made of the wrong bytes, as `flow_` is not passed through `ntohl()`.
- The NAT translates an ICMP id like a port, but the id in the packet stays. A
  symmetric NAT that gave an echo request another id therefore does not know the
  answer, where README.md:149 says that clashing ids "can be distinguished".

### Bounds, and why they are enough

- AsyncQueue: four threads cover every pair of roles (a producer that is the
  main thread, one that is a pool thread, a second pool thread, a closer); three
  elements of two values, so that a repeated value and a third element behind
  one in flight and one in the queue both occur. The proofs do without bounds.
- StaticDelay: three packets, numbered as they are received (which they are, by
  one thread) but queued in any order; a delay of two ticks, arrivals over two
  ticks, and one setting of the local clock, back or forth. `MaxTime` lets every
  timer expire.
- DynamicDelay: two packets that come within one tick of each other or together, a
  change of delay every two ticks, so that a delay changes while a packet waits in
  the queue, while it is popped, and while its timer runs; delays that rise, fall by
  more than an interval, are rounded below 0, and none. `MaxTime` is the last
  arrival and the longest delay.
- DynamicDelayCurve: one pattern, for which the rounding is easily done by hand.
- Nat: the four types, with a timeout of 0, 1 or 2 ticks, so that a timer can be due
  before, while and after a thread is kept; two internal ports, two
  external port numbers of which one is forwarded, a remote host with two ports; two
  entries in the mapper, so that one can be deleted while another is made under the
  same keys, and all ports can be taken; one in the filter. One caller, as in a
  chain in which Nat comes before any filter that keeps packets. Entry names are
  symmetric.
- TokenBucket: packets of 1, 2, 3 and 5 bytes, a bucket of 4; a rate of 3 tokens
  in 2 units of time (so the division rounds), and one that brings none; a queue
  of 2 with early detection from 1. A timer may be late by one unit
  (`MaxElapsed`). Traffic goes on for ever.
- Burst: three packets, two callers, periods of one tick. Ages are counted up to
  one more than the longest a packet may be held.
- Router: sixteen command lines. Nine start: no list, in either family; chains of
  each mode and family in which every filter occurs, an unknown name among them;
  repeated filters of each kind of consequence. Seven are mistakes, one for each
  check in `main()`. Three packets, two of them of one direction, so that two can
  be between the same filters, and a third in the way; they are of TCP, UDP, ICMP
  and a protocol without ports.

Deadlock is not checked: every component may rest when no traffic comes, and the
time-bounded ones stop at their bound.

### Fairness

Fair are only the steps the pool and the scheduler drive: a thread inside a call
goes on, a posted callback runs, an expired timer's function runs, time passes.
Nobody is obliged to send a packet or to close a queue. Strong fairness stands
where a thread waits for a mutex that others take again and again (TokenBucket,
Burst): neither the code nor `std::mutex` promises more than that a waiting
thread is not passed over for ever, and without that nothing could be said.
Router's fairness covers the main thread's `initFilters()`, calls along the chain
and filters that pass on what they keep; the last is what `Outlined` shows.

## Proofs

`AsyncQueueProofs` proves, for every set of elements and threads and every
bound, from the assumption that there is a pool thread and that the "stopped"
marker is no element:

- `TypeCorrect`, `CallbackSafe`, `ConservationSafe`, `WakeupSafe`,
  `EndsDrainedSafe`: the five invariants of the run. `TypeOK /\ OneCallback` is
  inductive; it is what the others rest on, because it says which of the places
  an element can be in flight at is occupied (`FlightLemma`).
  `Conservation` is then preserved step by step: an element moves from the queue
  to a thread, to the io_service, to a callback. `EndsDrained` speaks of the set
  of posted callbacks; the inductive form is `DrainInv`.
- `ImplementsSerialQueue`: every step of `AsyncQueue` is a step of `SerialQueue`
  or leaves its state alone. The safety half of `Refinement`.

`TokenBucketProofs` proves, for every set of packets and lengths, every rate,
bucket, queue and interval:

- `TypeCorrect`: in particular, the tokens stay in the bucket and `tokens_` never
  wraps, from the assumption that `TokenSpace` exceeds `MaxTokens` and that a
  packet is paid for by what is there (`QueueHead`).
- `RateSafe`: the rate. `RateConformance` bounds `excess`, what has left beyond
  the rate since the worst moment to begin counting; that alone is not inductive,
  as it does not say what may leave next. `Budget` adds that: what has left too
  much, what the tokens there allow, and what the time not yet paid for will
  bring, fit in one bucket. A tick moves a share from the first part to the
  third, `run()` from the third to the second, with what rounding and the cap
  lose, and sending from the second to the first.
- `NoMissedSendSafe`: no packet that could leave waits for the next timer.
  Inductive together with the types, as tokens and packets only come in steps
  that end before `trySend()`, and `trySend()` ends only when no packet can leave.
- `StuckSafe`: a packet that can never be paid for stays at the head for ever. At a
  starving rate the tokens stay 0 (`NoTokenStep`), since no interval there can be,
  up to the longest, brings as much as one (`CutOff`); otherwise `TypeCorrect`
  bounds them by the bucket.

`StaticDelayProofs`, for every set of packets, every delay and every setting of the
clock:

- `TypeCorrect`, `NoReorderingSafe`. `timers` is a set, and nothing in a step says
  that it holds at most one timer. `Pump` does: the filter is waiting for an
  element, or has one timer, or owes its callback to the queue, and what was handled
  is what is out and, behind it, the packet of that timer. `Stamps` relates a
  packet's times to each other.
- `NotEarlySafe`. `Early` is what `NotEarly` says of a packet, said of the timer
  that will send it. It allows for the setting of the clock.
- `DelaysDoNotAddUpSafe`. A packet is sent when it is due or when the one before it
  has been, whichever is later. `Clocked` orders the times at which packets were
  queued and sent; if the threads keep up, `Prompt` says that a packet is popped as
  soon as the one before it is out, and `Tight` that its timer expires then or once
  the packet has been there for the delay.
- `ImplementsOutline`: the safety half of `Outlined`.

`DynamicDelayProofs`, for every set of patterns and every interval:

- `TypeCorrect`, `InTurnSafe`, `NotEarlySafe`, `ImplementsOutline`, along the same
  argument.
- `OnScheduleSafe`. `delayQ_` is taken from and added to by a handler whose timer
  sets the handler off again; `Cycle` says that it is always the curve, turned round
  to the delay in force, or one short of that while the handler holds a delay.
  `Schedule` and `Punctual` give the time of every turn.
- `DelayOfTheMomentSafe`. The delay a packet gets is that of the moment at which it
  is popped. `Prompt` and `Tight` say when that is and what its timer was set to;
  `Moments` keeps both for the packets that are out.

- `NearPatternSafe`, if every delay times the resolution is at most 2^21, for
  patterns of any length within `InRange`. Each segment begins with what rounding
  left of the one before, so the error of all of them counts. It is bounded in
  three steps. `RoundDiv` is wrong by half of one, hence the slope and its product
  by three parts in 2^24 at most (`FloatError`, `SlopeError`, `ProductError`).
  A sample is then the int below the sum or the one above, and which of the two is
  settled by an inequality between whole numbers (`Bracket`, `SampleError`). For all
  of `InRange` it is two off at most (`SampleNear`), so that over the segments
  nothing leaves the range in which the model is the code (`EndsNear`); while the
  products are small it is not above the exact value, and at most one below
  (`SampleFloor`, `EndsFloor`). The library's induction takes an operator, which the
  provers cannot instantiate; `EndsNear` and `EndsFloor` argue from the least segment
  at which they would fail (`Least`).
  The bound on the products is not idle: with much larger ones the curve lies above
  the interpolation at some seconds, by one (271756, 114831 and 21400 ms at a
  resolution of 35 s do so in second 105).

`BurstProofs`, for every finite set of packets, every set of callers, all periods:

- `TypeCorrect`, `ConservationSafe`. `Loop` is where the loop of `init()` can be,
  `Apart` says that a packet is in one place only, out, queued or with a caller,
  and `Somewhere` that one that came is in one.
- `HeldOnePeriodSafe`. `Timer` bounds the timer by the phase, `Ages` a packet's age
  by what is left of the phase. A packet queued just behind a burst is the worst
  case.
- `ImplementsOutline`: the safety half of `Outlined`.

`NatProofs`, for every set of ports, remote endpoints, entries and types:

- `TypeCorrect`, `NoStaleSlotSafe`, `LostOnlyIfFullSafe`, `NoSelfDeadlockSafe`, for
  any number of callers, although the run has one. `Ways` says which way a packet
  goes at each step of a thread and which kind of entry the thread has in hand,
  `Held` that such an entry exists, and that one being deleted is in no other hand;
  `Slots` is `NoStaleSlot` and the same of the slot that `makeNewConn()` is about to
  write; `Full` says that no port becomes free while a thread looks for one; `Kept`
  that the timer a thread has started under the mutex is still armed, and what is
  left of it and the time the thread has been kept make up the timeout, unless the
  thread has been kept that long. `TimersOK` bounds both.
- `OwnsExternalPortSafe`, if one thread at a time is in the filter. With two it is
  false, as `makeNewConn()` takes no mutex: TLC finds two threads that are given one
  port. `Owner` adds that the port a thread found free is so until it is written.
- `SolicitedSafe`, if one thread at a time is in the filter or there is no full cone
  NAT. In a full cone NAT, a second thread can let an answer in before the packet it
  answers has passed the filter. `FilterSent` says of the filter's entries and
  `MapperSent` of the mapper's that the internal host sent a packet for each, or is
  just sending it; `Cone` that all mappers but the symmetric one keep the port;
  `LetIn` and `Mapped` carry that along with a thread that has found an entry.

`RouterProofs`, for every command line whose list names no Input and no output,
all packets and all datagrams:

- `TypeCorrect`, `ConfiguredSafe`. `Built` says what the chains are, while they are
  built and after; `Started` and `Outside` that packets come only once `initFilters()`
  is through; `PassedOn` which setters have been called.
- `OneVerdictSafe`, from `Verdicts`, `Placed` and `Kept`: who still owes a packet its
  verdict, and that a packet is held in one queue, once.
- `OrderKeptSafe`, for chains without a Burst. That one filter keeps the order does
  not say that a chain does, as several threads are in it. `Brought` says that a
  moving packet is brought by the last keeping filter behind it, or by `execute()`
  if there is none; `Alone` that a thread brings one packet at a time; `Ordered`
  that of two packets of one direction the later is behind the earlier, in the same
  filter's queue or in an earlier one; `Left` that they went out so.
- `IntactSafe`. `Carried` says what a packet's record holds on its way: the datagram,
  and its near end translated once it is past a Nat, and not before. It takes
  `WholeAssumption`: no datagram is a fragment, the first or a later one.
- `VerdictUnlessForgotten` and `NoCrash` say where two of the findings end. Every
  packet gets a verdict if the chain begins with InputDrop, or has neither a Nat nor
  a TokenBucketFilter (`LastWord`). The router never follows a null pointer with
  `--ipv6` if there is a list, and without it if Nat is listed once at most: both
  chains of a list have the same input and therefore the same output (`Twins`), and
  a Nat that is listed once is once in its chain (`Nats`), where `initFilters()`
  finds it.
- `ShapedSafe`: each packet that comes to the end went through the filters of the
  list, in its order, and nothing else. `Made` gives the place of a filter in its
  chain by counting names in the list that are known, `Travelled` says that a
  packet's trail is the chain up to where it is.

In Router's proofs every step is first shown to be of one of four kinds (`Kinds`):
one of the start (`Setup`, `Initialise`), one that moves no packet (`Quiet`), or one
that moves packet `p` (`Traffic(p)`: it enters, is forwarded, kept, released or
ended). Each part of the invariant is then proved for the kinds, not the actions.

The parts of all these invariants were model-checked on the runs' instances before
they were proved.

### Assumptions

The theorems rest on the named assumptions of the modules, which TLC evaluates in
the runs. Most give the constants their types. The others:

- `PatternAssumption` of DynamicDelay: the patterns are `InRange`. Outside of it an
  int may be no float, and the model would not be what the code computes.
- `NoneAssumption` of Nat: the null pointer is no entry.
- `WholeAssumption` of Router: see `IntactSafe`.
- that `Packets` is finite in Burst, whose types bound what is out by their number.

### Only model-checked

- Liveness: `EventuallySent`, `Settled`, and the fairness half of `Refinement` and of
  `Outlined`. The prover has no support for it.

## What is not modelled

- `close()`, `clear()` and `stoppedHandler()` of the queue, which nothing calls,
  and the start and end of the thread pool with the process.
- Data races on plain fields beyond their interleaving: `sleeping_` is read as
  either of its two values, the unlocked writes to the NAT's maps are single
  steps, and `currentLoss_` is read whole.
- In the run, two callers of the NAT, which it has only behind a filter that keeps
  packets; the states are too many already with a second entry in its filter. The
  proofs say what holds of them and what does not.
- Probabilities, and the times of DynamicLoss.
- Connections of two protocols with one port at a cone NAT, which share an entry.
- Checksums, fragments and truncated datagrams; libnet and the netfilter library,
  but for what the router does when they fail.
- A clock set back under the TokenBucketFilter, which fills the bucket at once.
- Lists of filters that name Input or an output, which `--filters` is not
  documented to take.

## Plan

1. *(done)* SerialQueue, AsyncQueue and its proofs; StaticDelay, Nat, Burst;
   TokenBucket and its proofs; DynamicDelay and its curve; Router.
2. *(done)* Command lines and setters, packets from reading to writing, the NAT's
   mutexes, stuck buckets, and the outline that ties the filters to the chain.
3. *(done)* The safety of every component as theorems, and for `VerdictOnDrop` and
   `LoopsForEver`, which the code violates, the command lines for which they hold.
4. What would come next: the exact products from which on `NearPattern` fails, which
   lie above the bound that is proved; two callers of the NAT in a run of TLC.
