------------------------------- MODULE Burst -------------------------------
(* The Burst filter (burst_filter.hpp): a timer calls init() over and over,   *)
(* which sends the packets that have been buffered and lets packets through   *)
(* for sleepDur_ (sleeping_), then buffers them for burstDur_, and so on.     *)
(* handlePacket() reads sleeping_ without the mutex, and acts on it later.    *)
EXTENDS Naturals, Sequences, FiniteSets

CONSTANTS Packets,
          Callers,          \* the threads that call handlePacket()
          BurstDur,         \* burstDur_
          SleepDur,         \* sleepDur_
          MaxAge,           \* bound: ages are counted up to here
          None

ASSUME ConstantsAssumption ==
  /\ IsFiniteSet(Packets)
  /\ BurstDur \in Nat /\ SleepDur \in Nat
  /\ MaxAge \in Nat /\ MaxAge > BurstDur + SleepDur
  /\ None \notin Packets

VARIABLES
  queue_, sleeping_,
  pc, carried,    \* where each caller is in handlePacket(), and with what
  phase,          \* where init() is: "timer" until it is called again
  next,           \* init()'s loop: how many of queue_ it has sent
  left,           \* the time until the timer expires
  outside,        \* the packets that have not come yet
  out,            \* the packets given to next_, in order
  age,            \* history: how long each packet has been in the filter
  punctual        \* history: no time has passed while there was work to do

vars == <<queue_, sleeping_, pc, carried, phase, next, left, outside, out, age, punctual>>

\* The Router calls init() once, with nothing to send, before packets come.
Init ==
  /\ queue_ = <<>> /\ sleeping_ = TRUE
  /\ pc = [c \in Callers |-> "idle"]
  /\ carried = [c \in Callers |-> None]
  /\ phase = "timer" /\ next = 0 /\ left = SleepDur
  /\ outside = Packets
  /\ out = <<>>
  /\ age = [p \in Packets |-> 0]
  /\ punctual = TRUE

\* init() holds the mutex through its whole second branch.
MutexFree == phase \notin {"flush", "clear"}
Goto(c, from, to) == pc[c] = from /\ pc' = [pc EXCEPT ![c] = to]

\* handlePacket() is called, and reads sleeping_.
HandlePacket(c, p) ==
  /\ p \in outside
  /\ outside' = outside \ {p}
  /\ carried' = [carried EXCEPT ![c] = p]
  /\ Goto(c, "idle", IF sleeping_ THEN "forward" ELSE "buffer")
  /\ UNCHANGED <<queue_, sleeping_, phase, next, left, out, age, punctual>>

Forward(c) ==
  /\ Goto(c, "forward", "idle")
  /\ out' = Append(out, carried[c])
  /\ carried' = [carried EXCEPT ![c] = None]
  /\ UNCHANGED <<queue_, sleeping_, phase, next, left, outside, age, punctual>>

\* Mutant of handlePacket(): the queue is written without the mutex.
BufferUnlocked(c) ==
  /\ Goto(c, "buffer", "idle")
  /\ queue_' = Append(queue_, carried[c])
  /\ carried' = [carried EXCEPT ![c] = None]
  /\ UNCHANGED <<sleeping_, phase, next, left, outside, out, age, punctual>>

Buffer(c) ==
  /\ MutexFree
  /\ Goto(c, "buffer", "idle")
  /\ queue_' = Append(queue_, carried[c])
  /\ carried' = [carried EXCEPT ![c] = None]
  /\ UNCHANGED <<sleeping_, phase, next, left, outside, out, age, punctual>>

\* init(), first branch: a period of buffering begins.
StartBurst ==
  /\ phase = "init" /\ sleeping_
  /\ sleeping_' = FALSE
  /\ phase' = "timer" /\ left' = BurstDur
  /\ UNCHANGED <<queue_, pc, carried, next, outside, out, age, punctual>>

\* init(), second branch: the mutex is taken ...
Lock ==
  /\ phase = "init" /\ ~sleeping_
  /\ phase' = "flush" /\ next' = 0
  /\ UNCHANGED <<queue_, sleeping_, pc, carried, left, outside, out, age, punctual>>

\* ... the loop sends one packet after the other ...
Flush ==
  /\ phase = "flush" /\ next < Len(queue_)
  /\ out' = Append(out, queue_[next + 1])
  /\ next' = next + 1
  /\ UNCHANGED <<queue_, sleeping_, pc, carried, phase, left, outside, age, punctual>>

\* Mutant of init(): the loop stops before the last packet.
EndFlushEarly ==
  /\ phase = "flush" /\ next + 1 >= Len(queue_)
  /\ phase' = "clear"
  /\ UNCHANGED <<queue_, sleeping_, pc, carried, next, left, outside, out, age, punctual>>

EndFlush ==
  /\ phase = "flush" /\ next = Len(queue_)
  /\ phase' = "clear"
  /\ UNCHANGED <<queue_, sleeping_, pc, carried, next, left, outside, out, age, punctual>>

\* Mutants of init(): the queue is not cleared; packets are let through for
\* good, as no timer is started.
ClearNothing ==
  /\ phase = "clear"
  /\ next' = 0
  /\ sleeping_' = TRUE
  /\ phase' = "timer" /\ left' = SleepDur
  /\ UNCHANGED <<queue_, pc, carried, outside, out, age, punctual>>

ClearNoTimer ==
  /\ phase = "clear"
  /\ queue_' = <<>> /\ next' = 0
  /\ sleeping_' = TRUE
  /\ phase' = "stopped" /\ left' = SleepDur
  /\ UNCHANGED <<pc, carried, outside, out, age, punctual>>

\* ... the queue is cleared, and a period without buffering begins.
Clear ==
  /\ phase = "clear"
  /\ queue_' = <<>> /\ next' = 0
  /\ sleeping_' = TRUE
  /\ phase' = "timer" /\ left' = SleepDur
  /\ UNCHANGED <<pc, carried, outside, out, age, punctual>>

TimerFires ==
  /\ phase = "timer" /\ left = 0
  /\ phase' = "init"
  /\ UNCHANGED <<queue_, sleeping_, pc, carried, next, left, outside, out, age, punctual>>

InSeq(s) == {s[i] : i \in 1..Len(s)}
Inside == Packets \ (outside \cup InSeq(out))

Busy ==
  \/ phase # "timer" \/ left = 0
  \/ \E c \in Callers : pc[c] # "idle"

Tick ==
  /\ punctual' = (punctual /\ ~Busy)
  /\ left' = IF left > 0 THEN left - 1 ELSE 0
  /\ age' = [p \in Packets |->
               IF p \in Inside /\ age[p] < MaxAge THEN age[p] + 1 ELSE age[p]]
  /\ UNCHANGED <<queue_, sleeping_, pc, carried, phase, next, outside, out>>

Run == StartBurst \/ Lock \/ Flush \/ EndFlush \/ Clear \/ TimerFires

Next ==
  \/ \E c \in Callers : Forward(c) \/ Buffer(c) \/ \E p \in Packets : HandlePacket(c, p)
  \/ Run
  \/ Tick

Spec == Init /\ [][Next]_vars

\* Time passes, the timer's function runs, calls go on; a mutex that is free
\* again and again is got in the end.
Fairness ==
  /\ WF_vars(Tick) /\ WF_vars(Run)
  /\ \A c \in Callers : WF_vars(Forward(c)) /\ SF_vars(Buffer(c))

FairSpec == Spec /\ Fairness

-----------------------------------------------------------------------------
\* What init() has yet to send.
Waiting == SubSeq(queue_, next + 1, Len(queue_))

\* The state has its types; a caller carries a packet exactly while it is in
\* handlePacket(); no packet makes the output longer than all there are.
TypeOK ==
  /\ queue_ \in Seq(Packets) /\ out \in Seq(Packets)
  /\ Len(out) <= Cardinality(Packets)
  /\ sleeping_ \in BOOLEAN
  /\ pc \in [Callers -> {"idle", "forward", "buffer"}]
  /\ carried \in [Callers -> Packets \cup {None}]
  /\ \A c \in Callers : pc[c] = "idle" <=> carried[c] = None
  /\ phase \in {"init", "flush", "clear", "timer"}
  /\ next \in 0..Len(queue_)
  /\ left \in 0..(IF BurstDur > SleepDur THEN BurstDur ELSE SleepDur)
  /\ outside \subseteq Packets
  /\ age \in [Packets -> 0..MaxAge]
  /\ punctual \in BOOLEAN

\* Every packet that has come is with one caller, waits in the queue or has been
\* sent, once: callers that decide by a stale sleeping_ and the loop that sends
\* from a queue it clears only afterwards lose and repeat nothing.
Conservation ==
  LET all == Waiting \o out IN
  /\ \A i, j \in 1..Len(all) : all[i] = all[j] => i = j
  /\ \A c, d \in Callers : carried[c] = carried[d] /\ carried[c] # None => c = d
  /\ \A c \in Callers : carried[c] \notin InSeq(all) \cup outside
  /\ Packets = outside \cup InSeq(all) \cup ({carried[c] : c \in Callers} \ {None})

\* If the threads keep up, no packet stays longer than one whole period.  The
\* README promises burstDur_; but a packet whose caller read sleeping_ just
\* before init() sent the burst is queued behind its back, and stays for the
\* sleep and the next burst.
HeldOnePeriod == punctual => \A p \in Inside : age[p] <= BurstDur + SleepDur

\* The outline by which Router knows the filter, which lets packets through or
\* queues them: what is queued is sent in order, in the end, and before it is
\* cleared away.
Outline == INSTANCE KeepingFilter WITH
  LetsThrough <- TRUE, kept <- Waiting, passing <- {}, passed <- out

Outlined == Outline!FairSpec
=============================================================================
