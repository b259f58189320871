---------------------------- MODULE SerialQueue ----------------------------
(* What AsyncQueue promises to the filter that owns it.  The owner hands one *)
(* callback at a time to asyncPop(); every element that was accepted is given *)
(* to a callback exactly once, in the order of acceptance, and no callback is *)
(* called before the previous one has led to another asyncPop().  After       *)
(* niceClose() nothing more is accepted, and the last callback is called with *)
(* "stopped" once everything accepted has been handled.                       *)
EXTENDS Naturals, Sequences

CONSTANTS Data,         \* what can be queued
          MaxPushes     \* bound: at most this many elements are accepted

VARIABLES accepted,     \* the elements push() has taken, in order
          handled,      \* the elements callbacks have been called with
          waiting,      \* a callback is registered and has not been called
          closed,       \* niceClose() has been called
          ended         \* a callback has been called with "stopped"

vars == <<accepted, handled, waiting, closed, ended>>

Init ==
  /\ accepted = <<>>
  /\ handled = <<>>
  /\ waiting = FALSE
  /\ closed = FALSE
  /\ ended = FALSE

Accept(d) ==
  /\ ~closed
  /\ Len(accepted) < MaxPushes
  /\ accepted' = Append(accepted, d)
  /\ UNCHANGED <<handled, waiting, closed, ended>>

\* asyncPop(): at the start, and again after each call of the callback.
Register ==
  /\ ~waiting
  /\ ~ended
  /\ waiting' = TRUE
  /\ UNCHANGED <<accepted, handled, closed, ended>>

Handle ==
  /\ waiting
  /\ Len(handled) < Len(accepted)
  /\ handled' = Append(handled, accepted[Len(handled) + 1])
  /\ waiting' = FALSE
  /\ UNCHANGED <<accepted, closed, ended>>

Close ==
  /\ closed' = TRUE
  /\ UNCHANGED <<accepted, handled, waiting, ended>>

End ==
  /\ waiting
  /\ closed
  /\ handled = accepted
  /\ ended' = TRUE
  /\ waiting' = FALSE
  /\ UNCHANGED <<accepted, handled, closed>>

Next ==
  \/ \E d \in Data : Accept(d)
  \/ Register
  \/ Handle
  \/ Close
  \/ End

Spec == Init /\ [][Next]_vars

FairSpec ==
  /\ Spec
  /\ WF_vars(Register)
  /\ WF_vars(Handle)
  /\ WF_vars(End)
=============================================================================
