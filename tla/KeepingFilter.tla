--------------------------- MODULE KeepingFilter ---------------------------
(* What the chain may expect of a filter that keeps packets: it keeps them in *)
(* the order in which they come, and a thread that it sends passes on the     *)
(* first of them, and does not come back for the next before the call of the  *)
(* next filter has returned.  This is the outline by which Router knows the   *)
(* filters; StaticDelay, DynamicDelay and Burst are shown to implement it, in *)
(* their property Outlined.                                                   *)
EXTENDS Sequences

CONSTANTS Packets,
          LetsThrough     \* packets may pass without being kept (Burst)

VARIABLES kept,       \* the packets the filter keeps, in order
          passing,    \* the packet of which a call of next_->handlePacket() lasts, as a set
          passed      \* all for which there has been such a call, in order

vars == <<kept, passing, passed>>

Init == kept = <<>> /\ passing = {} /\ passed = <<>>

Keep(p) ==
  /\ kept' = Append(kept, p)
  /\ UNCHANGED <<passing, passed>>

\* The call of the next filter begins; where the filter's module takes the call
\* for one step, it ends in the same.
PassOn ==
  /\ kept # <<>> /\ passing = {}
  /\ passing' \in {{}, {Head(kept)}}
  /\ kept' = Tail(kept)
  /\ passed' = Append(passed, Head(kept))

\* The call has returned.
Return ==
  /\ passing # {} /\ passing' = {}
  /\ UNCHANGED <<kept, passed>>

LetThrough(p) ==
  /\ LetsThrough
  /\ passed' = Append(passed, p)
  /\ UNCHANGED <<kept, passing>>

Next == PassOn \/ Return \/ \E p \in Packets : Keep(p) \/ LetThrough(p)

Spec == Init /\ [][Next]_vars

\* Nothing is kept for ever: what Router takes the filters' threads to do.
FairSpec == Spec /\ WF_vars(PassOn) /\ WF_vars(Return)
=============================================================================
