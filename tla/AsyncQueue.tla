----------------------------- MODULE AsyncQueue -----------------------------
(* The thread-safe queue every asynchronous filter is built on               *)
(* (async_queue.hpp).  push() and asyncPop() both end in tryPop(), which      *)
(* works in two critical sections and posts the callback to the io_service   *)
(* between them; the callback then runs on any thread of the pool and hands  *)
(* itself to asyncPop() again when its work is done, possibly from yet       *)
(* another thread (a timer's).                                                *)
(*                                                                            *)
(* close() and clear() are not modelled: nothing in the router calls them,    *)
(* so stopped_ is always false.                                               *)
EXTENDS Naturals, Sequences

CONSTANTS Data,        \* what the owner queues (packets, delay values)
          Main,        \* the thread that runs init(): it calls asyncPop() first
          Producers,   \* the threads that call push()
          Workers,     \* the io_service's pool, which runs the callbacks
          Closers,     \* the threads that call niceClose()
          MaxPushes,   \* bound: at most this many elements are accepted
          Stopped      \* stands for a callback posted with error code "stopped"

ASSUME ConstantsAssumption ==
  /\ MaxPushes \in Nat
  /\ Workers # {}
  /\ Stopped \notin Data

Threads == {Main} \cup Producers \cup Workers \cup Closers

VARIABLES
  theQueue_,     \* the elements waiting
  callback_,     \* TRUE iff a callback is registered
  niceStopped_,
  posted,        \* the io_service's queue of callbacks, with what they are bound to
  pc,            \* where each thread is in push / asyncPop / niceClose / tryPop
  local,         \* tryPop's d, the element a thread took out of the queue
  owing,         \* the threads of which one will make the owner's next asyncPop
  accepted,      \* history: the elements push() has taken
  handled,       \* history: the elements callbacks were called with
  ended          \* history: a callback was called with "stopped"

vars == <<theQueue_, callback_, niceStopped_, posted, pc, local, owing,
          accepted, handled, ended>>

Init ==
  /\ theQueue_ = <<>>
  /\ callback_ = FALSE
  /\ niceStopped_ = FALSE
  /\ posted = <<>>
  /\ pc = [t \in Threads |-> "idle"]
  /\ local = [t \in Threads |-> Stopped]
  /\ owing = {Main}
  /\ accepted = <<>>
  /\ handled = <<>>
  /\ ended = FALSE

Goto(t, from, to) == pc[t] = from /\ pc' = [pc EXCEPT ![t] = to]

-----------------------------------------------------------------------------
\* push(), first critical section: an element is taken unless the queue is
\* closing, in which case the call returns without a trace.
Push(t, d) ==
  /\ ~niceStopped_
  /\ Len(accepted) < MaxPushes
  /\ Goto(t, "idle", "tryPop")
  /\ theQueue_' = Append(theQueue_, d)
  /\ accepted' = Append(accepted, d)
  /\ UNCHANGED <<callback_, niceStopped_, posted, local, owing, handled, ended>>

\* Mutant: asyncPop() that relies on the next push() to call the callback.
AsyncPopNoTry(t) ==
  /\ t \in owing
  /\ pc[t] = "idle"
  /\ callback_' = TRUE
  /\ owing' = {}
  /\ UNCHANGED <<theQueue_, niceStopped_, posted, pc, local, accepted, handled, ended>>

\* asyncPop(): the owner's callback is registered.
AsyncPop(t) ==
  /\ t \in owing
  /\ Goto(t, "idle", "tryPop")
  /\ callback_' = TRUE
  /\ owing' = {}
  /\ UNCHANGED <<theQueue_, niceStopped_, posted, local, accepted, handled, ended>>

\* Mutant: niceClose() that only sets the flag.
NiceCloseNoTry(t) ==
  /\ pc[t] = "idle"
  /\ niceStopped_' = TRUE
  /\ UNCHANGED <<theQueue_, callback_, posted, pc, local, owing, accepted, handled, ended>>

NiceClose(t) ==
  /\ Goto(t, "idle", "tryPop")
  /\ niceStopped_' = TRUE
  /\ UNCHANGED <<theQueue_, callback_, posted, local, owing, accepted, handled, ended>>

\* Mutants of tryPop(): d is not assigned; the callback stays registered; the
\* element stays queued.
TryPopNoCopy(t) ==
  /\ theQueue_ # <<>> /\ callback_
  /\ Goto(t, "tryPop", "post")
  /\ theQueue_' = Tail(theQueue_)
  /\ callback_' = FALSE
  /\ UNCHANGED <<niceStopped_, posted, local, owing, accepted, handled, ended>>

TryPopKeepsCallback(t) ==
  /\ theQueue_ # <<>> /\ callback_
  /\ Goto(t, "tryPop", "post")
  /\ local' = [local EXCEPT ![t] = Head(theQueue_)]
  /\ theQueue_' = Tail(theQueue_)
  /\ UNCHANGED <<callback_, niceStopped_, posted, owing, accepted, handled, ended>>

TryPopKeepsFront(t) ==
  /\ theQueue_ # <<>> /\ callback_
  /\ Goto(t, "tryPop", "post")
  /\ local' = [local EXCEPT ![t] = Head(theQueue_)]
  /\ callback_' = FALSE
  /\ UNCHANGED <<theQueue_, niceStopped_, posted, owing, accepted, handled, ended>>

\* tryPop(), first critical section.
TryPopFound(t) ==
  /\ theQueue_ # <<>> /\ callback_
  /\ Goto(t, "tryPop", "post")
  /\ local' = [local EXCEPT ![t] = Head(theQueue_)]
  /\ theQueue_' = Tail(theQueue_)
  /\ callback_' = FALSE
  /\ UNCHANGED <<niceStopped_, posted, owing, accepted, handled, ended>>

TryPopNotFound(t) ==
  /\ ~(theQueue_ # <<>> /\ callback_)
  /\ Goto(t, "tryPop", "tryStop")
  /\ UNCHANGED <<theQueue_, callback_, niceStopped_, posted, local, owing,
                 accepted, handled, ended>>

\* tryPop(), after a successful first section: the callback is posted with the
\* element, outside the lock.
Post(t) ==
  /\ Goto(t, "post", "idle")
  /\ posted' = Append(posted, local[t])
  /\ local' = [local EXCEPT ![t] = Stopped]
  /\ UNCHANGED <<theQueue_, callback_, niceStopped_, owing, accepted, handled, ended>>

\* Mutant: the second critical section does not look at the queue again.
TryStopEarly(t) ==
  LET stop == niceStopped_ /\ callback_ IN
  /\ Goto(t, "tryStop", "idle")
  /\ posted' = IF stop THEN Append(posted, Stopped) ELSE posted
  /\ callback_' = (callback_ /\ ~stop)
  /\ UNCHANGED <<theQueue_, niceStopped_, local, owing, accepted, handled, ended>>

\* tryPop(), second critical section: the closing queue ends once it is empty.
TryStop(t) ==
  LET stop == theQueue_ = <<>> /\ niceStopped_ /\ callback_ IN
  /\ Goto(t, "tryStop", "idle")
  /\ posted' = IF stop THEN Append(posted, Stopped) ELSE posted
  /\ callback_' = (callback_ /\ ~stop)
  /\ UNCHANGED <<theQueue_, niceStopped_, local, owing, accepted, handled, ended>>

\* A thread of the pool runs a posted callback.  With an element, the owner
\* will call asyncPop() when it has dealt with it, on any thread of the pool;
\* with "stopped", the owner's callback just returns.
RunHandler(t) ==
  /\ pc[t] = "idle"
  /\ posted # <<>>
  /\ posted' = Tail(posted)
  /\ \/ /\ Head(posted) # Stopped
        /\ handled' = Append(handled, Head(posted))
        /\ owing' = Workers
        /\ UNCHANGED ended
     \/ /\ Head(posted) = Stopped
        /\ ended' = TRUE
        /\ UNCHANGED <<handled, owing>>
  /\ UNCHANGED <<theQueue_, callback_, niceStopped_, pc, local, accepted>>

TryPop(t) == TryPopFound(t) \/ TryPopNotFound(t)

Next ==
  \/ \E t \in Producers, d \in Data : Push(t, d)
  \/ \E t \in Threads : AsyncPop(t)
  \/ \E t \in Closers : NiceClose(t)
  \/ \E t \in Threads : TryPop(t) \/ Post(t) \/ TryStop(t)
  \/ \E t \in Workers : RunHandler(t)

Spec == Init /\ [][Next]_vars

\* A thread inside a call goes on; the pool runs what is posted to it; the
\* owner's callback leads to another asyncPop().  Nobody has to push or close.
Fairness ==
  /\ \A t \in Threads : WF_vars(TryPop(t) \/ Post(t) \/ TryStop(t))
  /\ WF_vars(\E t \in Workers : RunHandler(t))
  /\ WF_vars(\E t \in Threads : AsyncPop(t))

FairSpec == Spec /\ Fairness

-----------------------------------------------------------------------------
\* The state has its types; a thread holds an element exactly between the two
\* halves of a successful tryPop().
TypeOK ==
  /\ theQueue_ \in Seq(Data)
  /\ callback_ \in BOOLEAN
  /\ niceStopped_ \in BOOLEAN
  /\ posted \in Seq(Data \cup {Stopped})
  /\ pc \in [Threads -> {"idle", "tryPop", "post", "tryStop"}]
  /\ local \in [Threads -> Data \cup {Stopped}]
  /\ \A t \in Threads : pc[t] = "post" <=> local[t] \in Data
  /\ owing \in {{}, {Main}, Workers}
  /\ accepted \in Seq(Data)
  /\ handled \in Seq(Data)
  /\ ended \in BOOLEAN

\* The owner's one callback is in exactly one place: registered, carried by a
\* thread between tryPop's lock and its post(), posted, running (owing another
\* asyncPop), or retired.  So two callbacks of one filter never run at once,
\* and the callback is never dropped: what StaticDelay, DynamicDelay and the
\* Output filters rely on without any lock of their own.
Carried(t) == pc[t] = "post"

OneCallback ==
  /\ callback_ => owing = {} /\ posted = <<>> /\ ~ended
  /\ owing # {} => posted = <<>> /\ ~ended
  /\ posted # <<>> => Len(posted) = 1 /\ ~ended
  /\ \A t \in Threads : Carried(t) => ~callback_ /\ owing = {} /\ posted = <<>> /\ ~ended
  /\ \A s, t \in Threads : Carried(s) /\ Carried(t) => s = t
  /\ callback_ \/ owing # {} \/ posted # <<>> \/ ended \/ \E t \in Threads : Carried(t)

\* Every element push() took is handled, in flight to its callback, or still
\* queued, once each and in the order of acceptance: tryPop() posts outside the
\* lock, and still nothing overtakes, repeats or vanishes.
InFlight ==
  IF \E t \in Threads : Carried(t)
  THEN <<local[CHOOSE t \in Threads : Carried(t)]>>
  ELSE IF posted # <<>> /\ Head(posted) # Stopped THEN <<Head(posted)>> ELSE <<>>

Conservation == accepted = handled \o (InFlight \o theQueue_)

\* No lost wake-up: an element and a callback never sit in the queue together
\* without a thread on its way to pair them, and a closing queue that has run
\* dry never keeps its callback without a thread on its way to end it.
NoLostWakeup ==
  /\ callback_ /\ theQueue_ # <<>> => \E t \in Threads : pc[t] = "tryPop"
  /\ callback_ /\ theQueue_ = <<>> /\ niceStopped_
        => \E t \in Threads : pc[t] \in {"tryPop", "tryStop"}

\* The callback is called with "stopped" only when all that was accepted has
\* been handled: niceClose() cuts nothing off.
EndsDrained == (ended \/ Stopped \in {posted[i] : i \in 1..Len(posted)})
                 => niceStopped_ /\ theQueue_ = <<>> /\ accepted = handled

\* The queue implements SerialQueue, liveness included: if the owner keeps calling
\* asyncPop(), whatever is accepted is handled, and a closed queue comes to its
\* end.
Abstract == INSTANCE SerialQueue WITH
  waiting <- owing = {} /\ ~ended,
  closed <- niceStopped_

Refinement == Abstract!FairSpec
=============================================================================
