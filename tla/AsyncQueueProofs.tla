-------------------------- MODULE AsyncQueueProofs --------------------------
(* Proofs about AsyncQueue for every set of threads and elements and every   *)
(* bound: its invariants, and that its steps are those of SerialQueue.        *)
EXTENDS AsyncQueue, SequenceTheorems, TLAPS

\* What the sets of threads have to do with each other.
LEMMA ThreadSets ==
  /\ Main \in Threads
  /\ Producers \subseteq Threads
  /\ Workers \subseteq Threads
  /\ Closers \subseteq Threads
BY DEF Threads

\* The state keeps its types (TypeOK), whatever the threads do.
LEMMA TypeInit == Init => TypeOK
<1> SUFFICES ASSUME Init PROVE TypeOK
  OBVIOUS
<1> USE DEF Init
<1>1. <<>> \in Seq(Data) /\ <<>> \in Seq(Data \cup {Stopped})
  OBVIOUS
<1>2. /\ pc \in [Threads -> {"idle", "tryPop", "post", "tryStop"}]
      /\ local \in [Threads -> Data \cup {Stopped}]
      /\ \A t \in Threads : pc[t] = "post" <=> local[t] \in Data
  BY ConstantsAssumption
<1> QED
  BY <1>1, <1>2 DEF TypeOK

\* No step of any thread disturbs the types.
LEMMA TypeStep == TypeOK /\ [Next]_vars => TypeOK'
<1> SUFFICES ASSUME TypeOK, [Next]_vars PROVE TypeOK'
  OBVIOUS
<1> USE ThreadSets, ConstantsAssumption DEF TypeOK, Goto
<1>1. ASSUME NEW t \in Producers, NEW d \in Data, Push(t, d) PROVE TypeOK'
  BY <1>1 DEF Push
<1>2. ASSUME NEW t \in Threads, AsyncPop(t) PROVE TypeOK'
  BY <1>2 DEF AsyncPop
<1>3. ASSUME NEW t \in Closers, NiceClose(t) PROVE TypeOK'
  BY <1>3 DEF NiceClose
<1>4. ASSUME NEW t \in Threads, TryPopFound(t) PROVE TypeOK'
  <2>1. Head(theQueue_) \in Data /\ Tail(theQueue_) \in Seq(Data)
    BY <1>4 DEF TryPopFound
  <2> QED
    BY <1>4, <2>1 DEF TryPopFound
<1>5. ASSUME NEW t \in Threads, TryPopNotFound(t) PROVE TypeOK'
  BY <1>5 DEF TryPopNotFound
<1>6. ASSUME NEW t \in Threads, Post(t) PROVE TypeOK'
  BY <1>6 DEF Post
<1>7. ASSUME NEW t \in Threads, TryStop(t) PROVE TypeOK'
  BY <1>7 DEF TryStop
<1>8. ASSUME NEW t \in Workers, RunHandler(t) PROVE TypeOK'
  <2>1. Head(posted) \in Data \cup {Stopped} /\ posted' \in Seq(Data \cup {Stopped})
    BY <1>8 DEF RunHandler
  <2>2. handled' \in Seq(Data) /\ ended' \in BOOLEAN /\ owing' \in {{}, {Main}, Workers}
    <3>1. CASE Head(posted) # Stopped
      <4>1. Head(posted) \in Data /\ handled' = Append(handled, Head(posted))
        BY <1>8, <2>1, <3>1 DEF RunHandler
      <4>2. handled' \in Seq(Data)
        BY <4>1
      <4> QED
        BY <1>8, <3>1, <4>2 DEF RunHandler
    <3>2. CASE Head(posted) = Stopped
      BY <1>8, <3>2 DEF RunHandler
    <3> QED
      BY <3>1, <3>2
  <2>3. UNCHANGED <<theQueue_, callback_, niceStopped_, pc, local, accepted>>
    BY <1>8 DEF RunHandler
  <2> QED
    BY <2>1, <2>2, <2>3
<1>9. CASE UNCHANGED vars
  BY <1>9 DEF vars
<1> QED
  BY <1>1, <1>2, <1>3, <1>4, <1>5, <1>6, <1>7, <1>8, <1>9 DEF Next, TryPop

\* In every behaviour, the state keeps its types.
THEOREM TypeCorrect == Spec => []TypeOK
BY TypeInit, TypeStep, PTL DEF Spec

-----------------------------------------------------------------------------
\* At the start the callback is with init(), which owes it to asyncPop().
LEMMA CallbackInit == Init => OneCallback
BY DEF Init, OneCallback, Carried

\* Every step moves the one callback on to the next place.
LEMMA CallbackStep == TypeOK /\ OneCallback /\ [Next]_vars => OneCallback'
<1> SUFFICES ASSUME TypeOK, OneCallback, [Next]_vars PROVE OneCallback'
  OBVIOUS
<1> USE ThreadSets, ConstantsAssumption DEF TypeOK, Goto, OneCallback, Carried
<1>1. ASSUME NEW t \in Producers, NEW d \in Data, Push(t, d) PROVE OneCallback'
  BY <1>1 DEF Push
<1>2. ASSUME NEW t \in Threads, AsyncPop(t) PROVE OneCallback'
  BY <1>2 DEF AsyncPop
<1>3. ASSUME NEW t \in Closers, NiceClose(t) PROVE OneCallback'
  BY <1>3 DEF NiceClose
<1>4. ASSUME NEW t \in Threads, TryPopFound(t) PROVE OneCallback'
  BY <1>4 DEF TryPopFound
<1>5. ASSUME NEW t \in Threads, TryPopNotFound(t) PROVE OneCallback'
  BY <1>5 DEF TryPopNotFound
<1>6. ASSUME NEW t \in Threads, Post(t) PROVE OneCallback'
  BY <1>6 DEF Post
<1>7. ASSUME NEW t \in Threads, TryStop(t) PROVE OneCallback'
  BY <1>7 DEF TryStop
<1>8. ASSUME NEW t \in Workers, RunHandler(t) PROVE OneCallback'
  <2>1. posted # <<>> /\ posted' = Tail(posted) /\ Len(posted) = 1
    BY <1>8 DEF RunHandler
  <2>2. posted' = <<>>
    BY <2>1
  <2> QED
    BY <1>8, <2>1, <2>2 DEF RunHandler
<1>9. CASE UNCHANGED vars
  BY <1>9 DEF vars
<1> QED
  BY <1>1, <1>2, <1>3, <1>4, <1>5, <1>6, <1>7, <1>8, <1>9 DEF Next, TryPop

\* The owner's callback is never in two places and never lost.
THEOREM CallbackSafe == Spec => []OneCallback
BY TypeCorrect, CallbackInit, CallbackStep, PTL DEF Spec

-----------------------------------------------------------------------------
(* What is in flight, told from where the callback is. *)
FlightCases ==
  /\ \A t \in Threads : Carried(t) => InFlight = <<local[t]>>
  /\ (\A t \in Threads : ~Carried(t)) =>
       InFlight = IF posted # <<>> /\ Head(posted) # Stopped
                  THEN <<Head(posted)>> ELSE <<>>

\* What is in flight: what one thread carries, what is posted, or nothing.
LEMMA FlightLemma == TypeOK /\ OneCallback => FlightCases
<1> SUFFICES ASSUME TypeOK, OneCallback PROVE FlightCases
  OBVIOUS
<1>1. ASSUME NEW t \in Threads, Carried(t) PROVE InFlight = <<local[t]>>
  <2>1. (CHOOSE s \in Threads : Carried(s)) = t
    BY <1>1 DEF OneCallback
  <2> QED
    BY <1>1, <2>1 DEF InFlight
<1>2. ASSUME \A t \in Threads : ~Carried(t)
      PROVE InFlight = IF posted # <<>> /\ Head(posted) # Stopped
                       THEN <<Head(posted)>> ELSE <<>>
  BY <1>2 DEF InFlight
<1> QED
  BY <1>1, <1>2 DEF FlightCases

\* Appending to a concatenation appends to its last part.
LEMMA AppendToConcat ==
  \A r, s, q \in Seq(Data), e \in Data :
    Append(r \o (s \o q), e) = r \o (s \o Append(q, e))
<1> TAKE r, s, q \in Seq(Data), e \in Data
<1>1. s \o q \in Seq(Data) /\ r \o (s \o q) \in Seq(Data) /\ <<e>> \in Seq(Data)
  BY ConcatProperties
<1>4. Append(r \o (s \o q), e) = (r \o (s \o q)) \o <<e>> /\ Append(q, e) = q \o <<e>>
  BY <1>1, AppendIsConcat
<1>2. (r \o (s \o q)) \o <<e>> = r \o ((s \o q) \o <<e>>)
  BY <1>1, ConcatAssociative, SMTT(30)
<1>3. (s \o q) \o <<e>> = s \o (q \o <<e>>)
  BY <1>1, ConcatAssociative, SMTT(30)
<1> QED
  BY <1>4, <1>2, <1>3

\* The element in flight moves over to what has been handled.
LEMMA MoveToHandled ==
  \A r, q \in Seq(Data), e \in Data :
    r \o (<<e>> \o q) = Append(r, e) \o (<<>> \o q)
<1> TAKE r, q \in Seq(Data), e \in Data
<1>1. Append(r, e) = r \o <<e>> /\ <<>> \o q = q
  OBVIOUS
<1>2. (r \o <<e>>) \o q = r \o (<<e>> \o q)
  BY ConcatAssociative, SMTT(30)
<1> QED
  BY <1>1, <1>2

\* A queue that is not empty is its head and its tail.
LEMMA TakeFront ==
  ASSUME NEW S, NEW q \in Seq(S), q # <<>>
  PROVE  <<Head(q)>> \o Tail(q) = <<>> \o q
OBVIOUS

\* At the start nothing has been accepted.
LEMMA ConservationInit == Init => Conservation
BY DEF Init, Conservation, InFlight, Carried

\* push() adds one element at the end, the other steps only hand one over.
LEMMA ConservationStep ==
  TypeOK /\ OneCallback /\ Conservation /\ [Next]_vars => Conservation'
<1> SUFFICES ASSUME TypeOK, OneCallback, Conservation, [Next]_vars PROVE Conservation'
  OBVIOUS
<1>a. TypeOK' /\ OneCallback'
  BY TypeStep, CallbackStep
<1>b. FlightCases
  BY FlightLemma
<1>c. FlightCases'
  BY <1>a, FlightLemma, PTL
<1> USE ThreadSets, ConstantsAssumption
<1>i. InFlight \in Seq(Data)
  <2>1. ASSUME NEW t \in Threads, Carried(t) PROVE InFlight \in Seq(Data)
    <3>1. InFlight = <<local[t]>>
      BY <1>b, <2>1 DEF FlightCases, Carried
    <3>2. local[t] \in Data
      BY <2>1 DEF Carried, TypeOK
    <3> QED
      BY <3>1, <3>2
  <2>2. CASE (\A t \in Threads : ~Carried(t)) /\ posted # <<>> /\ Head(posted) # Stopped
    <3>1. Head(posted) \in Data
      BY <2>2 DEF TypeOK
    <3>2. InFlight = <<Head(posted)>>
      BY <1>b, <2>2 DEF FlightCases, Carried
    <3> QED
      BY <3>1, <3>2
  <2>3. CASE (\A t \in Threads : ~Carried(t)) /\ ~(posted # <<>> /\ Head(posted) # Stopped)
    <3>1. InFlight = <<>>
      BY <1>b, <2>3 DEF FlightCases, Carried
    <3> QED
      BY <3>1
  <2> QED
    BY <2>1, <2>2, <2>3 DEF Carried
<1>1. ASSUME NEW t \in Producers, NEW d \in Data, Push(t, d) PROVE Conservation'
  <2>1. InFlight' = InFlight
    BY <1>1, <1>b, <1>c DEF Push, Goto, FlightCases, Carried, TypeOK
  <2>2. handled' = handled /\ theQueue_' = Append(theQueue_, d)
                           /\ accepted' = Append(accepted, d)
    BY <1>1 DEF Push
  <2>3. Append(handled \o (InFlight \o theQueue_), d)
          = handled \o (InFlight \o Append(theQueue_, d))
    <3>1. handled \in Seq(Data) /\ theQueue_ \in Seq(Data)
      BY DEF TypeOK
    <3> QED
      BY <1>i, <3>1, AppendToConcat, ZenonT(30)
  <2> QED
    BY <2>1, <2>2, <2>3 DEF Conservation
<1>2. ASSUME NEW t \in Threads, AsyncPop(t) PROVE Conservation'
  <2>1. InFlight' = InFlight
    BY <1>2, <1>b, <1>c DEF AsyncPop, Goto, FlightCases, Carried, TypeOK
  <2> QED
    BY <1>2, <2>1 DEF AsyncPop, Conservation
<1>3. ASSUME NEW t \in Closers, NiceClose(t) PROVE Conservation'
  <2>1. InFlight' = InFlight
    BY <1>3, <1>b, <1>c DEF NiceClose, Goto, FlightCases, Carried, TypeOK
  <2> QED
    BY <1>3, <2>1 DEF NiceClose, Conservation
<1>4. ASSUME NEW t \in Threads, TryPopFound(t) PROVE Conservation'
  <2>1. InFlight = <<>>
    BY <1>4, <1>b DEF TryPopFound, FlightCases, OneCallback
  <2>2. InFlight' = <<Head(theQueue_)>>
    BY <1>4, <1>c DEF TryPopFound, Goto, FlightCases, Carried, TypeOK
  <2>3. InFlight' \o theQueue_' = InFlight \o theQueue_
    BY <1>4, <2>1, <2>2, TakeFront DEF TryPopFound, TypeOK
  <2> QED
    BY <1>4, <2>3 DEF TryPopFound, Conservation
<1>5. ASSUME NEW t \in Threads, TryPopNotFound(t) PROVE Conservation'
  <2>1. InFlight' = InFlight
    BY <1>5, <1>b, <1>c DEF TryPopNotFound, Goto, FlightCases, Carried, TypeOK
  <2> QED
    BY <1>5, <2>1 DEF TryPopNotFound, Conservation
<1>6. ASSUME NEW t \in Threads, Post(t) PROVE Conservation'
  <2>1. InFlight = <<local[t]>> /\ posted = <<>> /\ local[t] \in Data
    BY <1>6, <1>b DEF Post, Goto, FlightCases, Carried, OneCallback, TypeOK
  <2>2. \A s \in Threads : ~Carried(s)'
    BY <1>6 DEF Post, Goto, Carried, OneCallback, TypeOK
  <2>3. posted' = <<local[t]>>
    BY <1>6, <2>1 DEF Post
  <2>4. InFlight' = <<local[t]>>
    BY <2>1, <2>2, <2>3, <1>c DEF FlightCases
  <2> QED
    BY <1>6, <2>1, <2>4 DEF Post, Conservation
<1>7. ASSUME NEW t \in Threads, TryStop(t) PROVE Conservation'
  <2>1. InFlight' = InFlight
    BY <1>7, <1>b, <1>c DEF TryStop, Goto, FlightCases, Carried, OneCallback, TypeOK
  <2> QED
    BY <1>7, <2>1 DEF TryStop, Conservation
<1>8. ASSUME NEW t \in Workers, RunHandler(t) PROVE Conservation'
  <2>1. /\ posted # <<>> /\ posted' = Tail(posted) /\ Len(posted) = 1
        /\ \A s \in Threads : ~Carried(s)
        /\ UNCHANGED <<theQueue_, pc, accepted>>
    BY <1>8 DEF RunHandler, OneCallback
  <2>2. InFlight' = <<>>
    <3>1. posted' = <<>>
      BY <2>1 DEF TypeOK
    <3>2. \A s \in Threads : ~Carried(s)'
      BY <2>1 DEF Carried
    <3> QED
      BY <1>c, <3>1, <3>2 DEF FlightCases
  <2>3. CASE Head(posted) # Stopped
    <3>1. InFlight = <<Head(posted)>> /\ Head(posted) \in Data
      BY <1>b, <2>1, <2>3 DEF FlightCases, TypeOK
    <3>2. handled' = Append(handled, Head(posted))
      BY <1>8, <2>3 DEF RunHandler
    <3>3. handled \o (<<Head(posted)>> \o theQueue_)
            = Append(handled, Head(posted)) \o (<<>> \o theQueue_)
      <4>1. handled \in Seq(Data) /\ theQueue_ \in Seq(Data)
        BY DEF TypeOK
      <4> QED
        BY <3>1, <4>1, MoveToHandled, Zenon
    <3>4. accepted' = accepted /\ theQueue_' = theQueue_
      BY <2>1
    <3> QED
      BY <2>2, <3>1, <3>2, <3>3, <3>4, Zenon DEF Conservation
  <2>4. CASE Head(posted) = Stopped
    <3>1. InFlight = <<>> /\ handled' = handled
      BY <1>8, <1>b, <2>1, <2>4 DEF FlightCases, RunHandler
    <3> QED
      BY <2>1, <2>2, <3>1 DEF Conservation
  <2> QED
    BY <2>3, <2>4
<1>9. CASE UNCHANGED vars
  BY <1>9 DEF vars, Conservation, InFlight, Carried
<1> QED
  BY <1>1, <1>2, <1>3, <1>4, <1>5, <1>6, <1>7, <1>8, <1>9 DEF Next, TryPop

\* Accepted = handled, then in flight, then queued: nothing is lost, repeated
\* or overtaken between push() and the callback.
THEOREM ConservationSafe == Spec => []Conservation
BY TypeCorrect, CallbackSafe, ConservationInit, ConservationStep, PTL DEF Spec

-----------------------------------------------------------------------------
\* At the start there is no callback, so nothing waits for a thread.
LEMMA WakeupInit == Init => NoLostWakeup
BY DEF Init, NoLostWakeup

\* A thread that makes an element and a callback, or a dry closing queue and a
\* callback, meet is itself on its way through tryPop().
LEMMA WakeupStep ==
  TypeOK /\ OneCallback /\ NoLostWakeup /\ [Next]_vars => NoLostWakeup'
<1> SUFFICES ASSUME TypeOK, OneCallback, NoLostWakeup, [Next]_vars PROVE NoLostWakeup'
  OBVIOUS
<1> USE ThreadSets, ConstantsAssumption DEF TypeOK, Goto, NoLostWakeup
<1>1. ASSUME NEW t \in Producers, NEW d \in Data, Push(t, d) PROVE NoLostWakeup'
  BY <1>1 DEF Push
<1>2. ASSUME NEW t \in Threads, AsyncPop(t) PROVE NoLostWakeup'
  BY <1>2 DEF AsyncPop
<1>3. ASSUME NEW t \in Closers, NiceClose(t) PROVE NoLostWakeup'
  BY <1>3 DEF NiceClose
<1>4. ASSUME NEW t \in Threads, TryPopFound(t) PROVE NoLostWakeup'
  BY <1>4 DEF TryPopFound
\* The thread that gives up has seen, under the lock, that there is nothing to
\* pair; whoever changes that afterwards comes through tryPop itself.
<1>5. ASSUME NEW t \in Threads, TryPopNotFound(t) PROVE NoLostWakeup'
  BY <1>5 DEF TryPopNotFound
<1>6. ASSUME NEW t \in Threads, Post(t) PROVE NoLostWakeup'
  BY <1>6 DEF Post
<1>7. ASSUME NEW t \in Threads, TryStop(t) PROVE NoLostWakeup'
  BY <1>7 DEF TryStop
<1>8. ASSUME NEW t \in Workers, RunHandler(t) PROVE NoLostWakeup'
  <2>1. ~callback_ /\ UNCHANGED callback_
    BY <1>8 DEF RunHandler, OneCallback
  <2> QED
    BY <2>1
<1>9. CASE UNCHANGED vars
  BY <1>9 DEF vars
<1> QED
  BY <1>1, <1>2, <1>3, <1>4, <1>5, <1>6, <1>7, <1>8, <1>9 DEF Next, TryPop

\* An element and a callback never wait for each other with nobody on the way
\* to bring them together.
THEOREM WakeupSafe == Spec => []NoLostWakeup
BY TypeCorrect, CallbackSafe, WakeupInit, WakeupStep, PTL DEF Spec

-----------------------------------------------------------------------------
(* EndsDrained, told without quantifying over the posted callbacks.          *)
DrainInv ==
  (ended \/ (posted # <<>> /\ Head(posted) = Stopped))
     => niceStopped_ /\ theQueue_ = <<>> /\ accepted = handled

\* At the start the queue is open, and nothing has been told to stop.
LEMMA DrainInit == Init => DrainInv
BY DEF Init, DrainInv

\* What has been told to stop stays stopped and empty.
LEMMA DrainStep ==
  TypeOK /\ OneCallback /\ Conservation /\ DrainInv /\ [Next]_vars => DrainInv'
<1> SUFFICES ASSUME TypeOK, OneCallback, Conservation, DrainInv, [Next]_vars
             PROVE DrainInv'
  OBVIOUS
<1> USE ThreadSets, ConstantsAssumption DEF Goto, DrainInv
<1>1. ASSUME NEW t \in Producers, NEW d \in Data, Push(t, d) PROVE DrainInv'
  BY <1>1 DEF Push
<1>2. ASSUME NEW t \in Threads, AsyncPop(t) PROVE DrainInv'
  BY <1>2 DEF AsyncPop
<1>3. ASSUME NEW t \in Closers, NiceClose(t) PROVE DrainInv'
  BY <1>3 DEF NiceClose
<1>4. ASSUME NEW t \in Threads, TryPopFound(t) PROVE DrainInv'
  BY <1>4 DEF TryPopFound, OneCallback
<1>5. ASSUME NEW t \in Threads, TryPopNotFound(t) PROVE DrainInv'
  BY <1>5 DEF TryPopNotFound
<1>6. ASSUME NEW t \in Threads, Post(t) PROVE DrainInv'
  <2>1. ~ended /\ posted = <<>> /\ local[t] \in Data
    BY <1>6 DEF Post, OneCallback, Carried, TypeOK
  <2>2. ended' = ended /\ posted' = <<local[t]>>
    BY <1>6, <2>1 DEF Post
  <2> QED
    BY <2>1, <2>2
<1>7. ASSUME NEW t \in Threads, TryStop(t) PROVE DrainInv'
  <2>1. CASE theQueue_ = <<>> /\ niceStopped_ /\ callback_
    <3>1. InFlight = <<>>
      BY <2>1 DEF InFlight, OneCallback
    <3>2. accepted = handled
      BY <2>1, <3>1 DEF Conservation, TypeOK
    <3> QED
      BY <1>7, <2>1, <3>2 DEF TryStop
  <2>2. CASE ~(theQueue_ = <<>> /\ niceStopped_ /\ callback_)
    BY <1>7, <2>2 DEF TryStop
  <2> QED
    BY <2>1, <2>2
<1>8. ASSUME NEW t \in Workers, RunHandler(t) PROVE DrainInv'
  <2>1. /\ posted # <<>> /\ posted' = Tail(posted) /\ Len(posted) = 1 /\ ~ended
        /\ UNCHANGED <<theQueue_, niceStopped_, accepted>>
    BY <1>8 DEF RunHandler, OneCallback
  <2>2. posted' = <<>>
    BY <2>1 DEF TypeOK
  <2> QED
    BY <1>8, <2>1, <2>2 DEF RunHandler
<1>9. CASE UNCHANGED vars
  BY <1>9 DEF vars
<1> QED
  BY <1>1, <1>2, <1>3, <1>4, <1>5, <1>6, <1>7, <1>8, <1>9 DEF Next, TryPop

\* DrainInv, the inductive form of EndsDrained, holds in every behaviour.
LEMMA DrainSafe == Spec => []DrainInv
BY TypeCorrect, CallbackSafe, ConservationSafe, DrainInit, DrainStep, PTL DEF Spec

\* niceClose() cuts nothing off: "stopped" comes after everything accepted.
THEOREM EndsDrainedSafe == Spec => []EndsDrained
<1>1. TypeOK /\ OneCallback /\ DrainInv => EndsDrained
  <2> SUFFICES ASSUME TypeOK, OneCallback, DrainInv PROVE EndsDrained
    OBVIOUS
  <2>1. ASSUME NEW i \in 1..Len(posted), posted[i] = Stopped
        PROVE posted # <<>> /\ Head(posted) = Stopped
    BY <2>1 DEF TypeOK, OneCallback
  <2> QED
    BY <2>1 DEF EndsDrained, DrainInv
<1> QED
  BY <1>1, TypeCorrect, CallbackSafe, DrainSafe, PTL

-----------------------------------------------------------------------------
(* SerialQueue is implemented: the initial state maps to its initial state,  *)
(* and every step to one of its steps or to a stutter.                        *)
\* AsyncQueue starts where SerialQueue starts.
LEMMA RefinementInit == Init => Abstract!Init
BY DEF Init, Abstract!Init

\* Every step of AsyncQueue is a step of SerialQueue or leaves its state alone.
LEMMA RefinementStep ==
  TypeOK /\ OneCallback /\ Conservation /\ DrainInv /\ [Next]_vars
    => [Abstract!Next]_(Abstract!vars)
<1> SUFFICES ASSUME TypeOK, OneCallback, Conservation, DrainInv, [Next]_vars
             PROVE [Abstract!Next]_(Abstract!vars)
  OBVIOUS
<1> USE ThreadSets, ConstantsAssumption DEF Abstract!vars
<1>1. ASSUME NEW t \in Producers, NEW d \in Data, Push(t, d) PROVE Abstract!Accept(d)
  BY <1>1 DEF Push, Abstract!Accept
<1>2. ASSUME NEW t \in Threads, AsyncPop(t) PROVE Abstract!Register
  BY <1>2 DEF AsyncPop, Abstract!Register, OneCallback
<1>3. ASSUME NEW t \in Closers, NiceClose(t) PROVE Abstract!Close
  BY <1>3 DEF NiceClose, Abstract!Close
<1>4. ASSUME NEW t \in Threads, TryPop(t) \/ Post(t) \/ TryStop(t)
      PROVE UNCHANGED Abstract!vars
  BY <1>4 DEF TryPop, TryPopFound, TryPopNotFound, Post, TryStop
<1>5. ASSUME NEW t \in Workers, RunHandler(t) PROVE Abstract!Handle \/ Abstract!End
  <2>1. /\ posted # <<>> /\ Len(posted) = 1 /\ owing = {} /\ ~ended
        /\ \A s \in Threads : ~Carried(s)
        /\ UNCHANGED <<niceStopped_, accepted>>
    BY <1>5 DEF RunHandler, OneCallback
  <2>2. CASE Head(posted) # Stopped
    <3>1. InFlight = <<Head(posted)>> /\ Head(posted) \in Data
      BY <2>1, <2>2, FlightLemma DEF FlightCases, TypeOK, Carried
    <3>2. accepted = handled \o (<<Head(posted)>> \o theQueue_)
      BY <3>1 DEF Conservation
    <3>3. /\ Len(handled) < Len(accepted)
          /\ accepted[Len(handled) + 1] = Head(posted)
      <4>1. handled \in Seq(Data) /\ theQueue_ \in Seq(Data) /\ <<Head(posted)>> \in Seq(Data)
        BY <3>1 DEF TypeOK
      <4> QED
        BY <3>2, <4>1
    <3>4. handled' = Append(handled, Head(posted)) /\ owing' = Workers /\ ended' = ended
      BY <1>5, <2>2 DEF RunHandler
    <3> QED
      BY <2>1, <3>3, <3>4 DEF Abstract!Handle
  <2>3. CASE Head(posted) = Stopped
    <3>1. ended' = TRUE /\ UNCHANGED <<handled, owing>>
      BY <1>5, <2>3 DEF RunHandler
    <3> QED
      BY <2>1, <2>3, <3>1 DEF DrainInv, Abstract!End
  <2> QED
    BY <2>2, <2>3
<1>6. CASE UNCHANGED vars
  BY <1>6 DEF vars
<1> QED
  BY <1>1, <1>2, <1>3, <1>4, <1>5, <1>6 DEF Next, Abstract!Next

\* The two critical sections of tryPop(), its unlocked post() and callbacks
\* that re-arm from any thread amount to one serial consumer.
THEOREM ImplementsSerialQueue == Spec => Abstract!Spec
BY TypeCorrect, CallbackSafe, ConservationSafe, DrainSafe,
   RefinementInit, RefinementStep, PTL DEF Spec, Abstract!Spec
=============================================================================
