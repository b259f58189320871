------------------------------- MODULE Router ------------------------------
(* The router: main() turns the options into a list of filters, init() makes  *)
(* the chain of them, setters configure them, initFilters() starts each, and  *)
(* execute() gives packets to the first, one after the other.  A packet moves *)
(* along the chain as a call of the thread that brought it, until a filter    *)
(* keeps it; a thread of the pool takes it up again from there.               *)
(*                                                                            *)
(* Of the filters this module keeps what the chain sees of them: pass on,     *)
(* drop with a verdict, forget, or keep and pass on later, in order.  When    *)
(* they do which is told in the modules StaticDelay, DynamicDelay, Burst,     *)
(* TokenBucket and Nat; that they keep and pass on as they do here, in the    *)
(* property Outlined of the first three (see KeepingFilter).  Random numbers  *)
(* are any.                                                                   *)
(*                                                                            *)
(* Both families have a chain; one of them is executed.  A command line is    *)
(*   filters, accept, ipv6: --filters (<<>> if not given), --accept-mode, --ipv6;*)
(*   given: the names of the other options in it;                             *)
(*   uneven: of these, the lists whose partner has another length;            *)
(*   legal: boost can parse it.                                               *)
EXTENDS Integers, Sequences, FiniteSets, Packet

CONSTANTS Options,    \* the command lines
          Packets,    \* numbered in the order in which the kernel delivers them
          Ingoing,    \* those which come in at the external interface
          Datagram, Datagram6,  \* what each is, in either family
          ExtIp,      \* --nat-ext-ip
          IntHost,    \* the internal host, or --nat-int-ip: where a Nat sends what comes in
          NatPort,    \* a port that a symmetric Nat or a port forwarding rule may choose
          Losses      \* --dyn-losses, of which only counts if they are above 0

\* The names --filters is documented to take, and those main() adds; init() skips
\* any other.
Shapers == {"Loss", "Nat", "Burst", "StaticDelay", "DynamicLoss", "DynamicDelay",
            "TokenBucketFilter"}
Known == Shapers \cup {"Input", "InputDrop", "Output", "OutputLibnet"}

ASSUME ConstantsAssumption ==
  /\ \A o \in Options :
       /\ o.filters \in Seq(STRING)
       /\ \A i \in DOMAIN o.filters : o.filters[i] \notin Known \ Shapers
       /\ o.uneven \subseteq o.given \cap {"dyn-losses", "nat-ext-port"}
       /\ "nat-ext-port" \in o.uneven => "nat-int-port" \in o.given
  /\ Packets \subseteq Nat
  /\ Ingoing \subseteq Packets
  /\ Losses \in Seq(BOOLEAN) /\ Losses # <<>>

\* No datagram is a part of a fragmented one (see Packet): 13 bits of offset and
\* the "more fragments" bit above them are 0.
ASSUME WholeAssumption ==
  \A p \in Packets : Datagram[p].fragOff \in Nat /\ Datagram[p].fragOff % 16384 = 0

-----------------------------------------------------------------------------
(* A chain: the filters in the order in which they were made, each one's      *)
(* next_ (0 if it has none), start_, the loop variable "last", and the        *)
(* Router's pointer to its filter of each name, which setters and             *)
(* initFilters() go by: of a filter that is listed twice, to the second.      *)
NoChain == [filters |-> <<>>, next |-> <<>>, start |-> 0, last |-> 0,
            member |-> [f \in Known |-> 0]]

Member(c, f) == c.member[f]

\* Mutant of init(): after DynamicDelay was added, "last" is still the filter
\* before it.
AddForgetsLast(c, f) ==
  LET new == Len(c.filters) + 1 IN
  [filters |-> Append(c.filters, f),
   next    |-> Append(IF c.last = 0 THEN c.next ELSE [c.next EXCEPT ![c.last] = new], 0),
   start   |-> IF c.last = 0 THEN new ELSE c.start,
   last    |-> IF f = "DynamicDelay" THEN c.last ELSE new,
   member  |-> [c.member EXCEPT ![f] = new]]

\* One turn of init()'s loop; only Input and InputDrop come with no filter before.
Add(c, f) ==
  LET new == Len(c.filters) + 1 IN
  [filters |-> Append(c.filters, f),
   next    |-> Append(IF c.last = 0 THEN c.next ELSE [c.next EXCEPT ![c.last] = new], 0),
   start   |-> IF c.last = 0 THEN new ELSE c.start,
   last    |-> new,
   member  |-> [c.member EXCEPT ![f] = new]]

\* main(): the ends of the list say whether packets are accepted or re-sent.
FilterList(o) ==
  IF o.filters = <<>> THEN <<>>
  ELSE IF o.accept THEN <<"Input">> \o o.filters \o <<"Output">>
                   ELSE <<"InputDrop">> \o o.filters \o <<"OutputLibnet">>

\* init(extIf), which is not told about --accept-mode.
DefaultList == <<"InputDrop", "Loss", "Nat", "Burst", "StaticDelay", "DynamicLoss",
                 "DynamicDelay", "TokenBucketFilter", "OutputLibnet">>
Default6List == <<"Input", "Loss", "Burst", "StaticDelay", "DynamicLoss",
                  "DynamicDelay", "TokenBucketFilter", "Output">>

Linked(list) ==
  [filters |-> list, next |-> [i \in DOMAIN list |-> IF i = Len(list) THEN 0 ELSE i + 1],
   start |-> 1, last |-> Len(list),
   member |-> [f \in Known |-> IF \E i \in DOMAIN list : list[i] = f
                              THEN CHOOSE i \in DOMAIN list : list[i] = f ELSE 0]]

\* Mutant of initFilters(): forgets the TokenBucketFilter.
InitOrderNoTbf ==
  <<"Input", "InputDrop", "StaticDelay", "DynamicDelay", "DynamicLoss", "Loss",
    "Nat", "Burst", "Output", "OutputLibnet">>

InitOrder ==
  <<"Input", "InputDrop", "StaticDelay", "DynamicDelay", "DynamicLoss", "Loss",
    "Nat", "Burst", "TokenBucketFilter", "Output", "OutputLibnet">>
Init6Order ==
  <<"Input", "InputDrop", "StaticDelay", "DynamicDelay", "DynamicLoss", "Loss",
    "Burst", "TokenBucketFilter", "Output", "OutputLibnet">>

\* The setters main() calls, by option and filter, in its order.  "ips" stands for
\* --nat-ext-ip and --nat-int-ip, which are passed on even if empty.
Settings ==
  << <<"ips", "Nat">>, <<"nat-type", "Nat">>, <<"nat-timeout", "Nat">>,
     <<"delay", "StaticDelay">>, <<"loss", "Loss">>,
     <<"tbf-in-rate", "TokenBucketFilter">>, <<"tbf-in-max-tokens", "TokenBucketFilter">>,
     <<"tbf-in-max-packets", "TokenBucketFilter">>, <<"tbf-in-red-start", "TokenBucketFilter">>,
     <<"tbf-out-rate", "TokenBucketFilter">>, <<"tbf-out-max-tokens", "TokenBucketFilter">>,
     <<"tbf-out-max-packets", "TokenBucketFilter">>, <<"tbf-out-red-start", "TokenBucketFilter">>,
     <<"burst-dur", "Burst">>, <<"burst-sleep", "Burst">>,
     <<"dyn-delays", "DynamicDelay">>, <<"dyn-losses", "DynamicLoss">>, <<"nat-ext-port", "Nat">> >>

Given(o, name) == name = "ips" \/ name \in o.given

\* main() exits at a list without its partner, or with one of another length.
Refused(o, name) ==
  \/ name = "dyn-delays" /\ "dyn-delay-res" \notin o.given
  \/ name = "dyn-losses" /\ ("dyn-loss-times" \notin o.given \/ name \in o.uneven)
  \/ name = "nat-ext-port" /\ "nat-int-port" \in o.given /\ name \in o.uneven

\* A setter of Router reaches the filter that its pointer leads to, if any.
ReachedBySetter(c, setting) ==
  LET m == Member(c, setting[2]) IN IF m = 0 THEN {} ELSE {<<m, setting[1]>>}

-----------------------------------------------------------------------------
VARIABLES
  option,
  chain4, chain6,
  toAdd,          \* what init() has yet to add to them
  set4, set6,     \* the <<filter, option>> that setters have reached in them
  pc,             \* the main thread: main(), init(), execute(), initFilters(), and its loop
  step,           \* how far in it
  initialised,    \* the filters whose init() has been called
  lossIndex,      \* DynamicLoss: currentIndex_
  pkt,            \* packet |-> its Packet or Packet6
  place,          \* packet |-> where it is, or how it ended
  at,             \* packet |-> the filter that handles or keeps it
  by,             \* packet |-> who brings it: the filter that passed it on, 0: execute()
  kept,           \* the packets that filters keep, in the order in which they came there
  stopped,        \* the outputs whose popHandler() has given up
  told,           \* packet |-> the verdicts given to the kernel
  trail,          \* history: the filters each packet has come to
  out             \* history: the packets on the network again and what they are, in order

chainVars == <<option, chain4, chain6, toAdd, set4, set6>>
setupVars == <<chainVars, pc, step, initialised>>
vars == <<setupVars, lossIndex, pkt, place, at, by, kept, stopped, told, trail, out>>

\* The chain of the family that is executed, and its filters.
chain == IF option.ipv6 THEN chain6 ELSE chain4
Running == pc \notin {"exited", "returned", "crashed"}
Objects == DOMAIN chain.filters
Name(i) == chain.filters[i]
HasBeenSet(i, name) == <<i, name>> \in IF option.ipv6 THEN set6 ELSE set4

NoPacket == [packetData_ |-> <<>>]

Init ==
  /\ option \in Options
  /\ chain4 = NoChain /\ chain6 = NoChain
  /\ toAdd = FilterList(option)
  /\ set4 = {} /\ set6 = {}
  /\ pc = "main" /\ step = 1
  /\ initialised = {}
  /\ lossIndex = 0
  /\ pkt = [p \in Packets |-> NoPacket]
  /\ place = [p \in Packets |-> "outside"]
  /\ at = [p \in Packets |-> 0]
  /\ by = [p \in Packets |-> 0]
  /\ kept = <<>>
  /\ stopped = {}
  /\ told = [p \in Packets |-> <<>>]
  /\ trail = [p \in Packets |-> <<>>]
  /\ out = <<>>

packetVars == <<pkt, place, at, by, kept, stopped, told, trail, out>>

\* main(), as far as its call of init().
Begin ==
  /\ pc = "main"
  /\ pc' = IF option.legal /\ "help" \notin option.given /\ "ext-if" \in option.given
           THEN "init" ELSE "exited"
  /\ UNCHANGED <<chainVars, step, initialised, lossIndex, packetVars>>

\* init(extIf): all filters, in both chains.
InitAll ==
  /\ pc = "init" /\ option.filters = <<>>
  /\ chain4' = Linked(DefaultList) /\ chain6' = Linked(Default6List)
  /\ pc' = "configure"
  /\ UNCHANGED <<option, toAdd, set4, set6, step, initialised, lossIndex, packetVars>>

\* init(extIf, filters): the next filter, unless it is unknown, in both chains;
\* but IPv6 has no Nat.
AddFilter ==
  /\ pc = "init" /\ toAdd # <<>>
  /\ LET f == Head(toAdd) IN
       /\ chain4' = IF f \in Known THEN Add(chain4, f) ELSE chain4
       /\ chain6' = IF f \in Known \ {"Nat"} THEN Add(chain6, f) ELSE chain6
  /\ toAdd' = Tail(toAdd)
  /\ pc' = IF toAdd' = <<>> THEN "configure" ELSE "init"
  /\ UNCHANGED <<option, set4, set6, step, initialised, lossIndex, packetVars>>

\* Mutant of the setters: one lacks the line for the IPv6 chain.
SetIn6NoSleep(setting) ==
  IF setting[1] = "burst-sleep" THEN {} ELSE ReachedBySetter(chain6, setting)

SetIn6(setting) == ReachedBySetter(chain6, setting)

\* main(): the next option that configures a filter.
Configure ==
  /\ pc = "configure"
  /\ LET setting == Settings[step]
         given == Given(option, setting[1])
     IN  \/ /\ given /\ Refused(option, setting[1])
            /\ pc' = "exited"
            /\ UNCHANGED <<step, set4, set6>>
         \/ /\ given => ~Refused(option, setting[1])
            /\ set4' = set4 \cup (IF given THEN ReachedBySetter(chain4, setting) ELSE {})
            /\ set6' = set6 \cup (IF given THEN SetIn6(setting) ELSE {})
            /\ step' = IF step = Len(Settings) THEN 1 ELSE step + 1
            /\ pc' = IF step = Len(Settings) THEN "execute" ELSE "configure"
  /\ UNCHANGED <<option, chain4, chain6, toAdd, initialised, lossIndex, packetVars>>

\* execute(), execute6(): the queue is opened, or main() returns.
Execute ==
  /\ ~option.ipv6
  /\ pc = "execute" /\ pc' \in {"initFilters", "returned"}
  /\ UNCHANGED <<chainVars, step, initialised, lossIndex, packetVars>>

Execute6 ==
  /\ option.ipv6
  /\ pc = "execute" /\ pc' \in {"initFilters", "returned"}
  /\ UNCHANGED <<chainVars, step, initialised, lossIndex, packetVars>>

\* initFilters(), init6Filters(): init() of the next filter, if there is one.
Initialise(order) ==
  /\ pc = "initFilters" /\ step <= Len(order)
  /\ LET m == Member(chain, order[step]) IN
       /\ initialised' = initialised \cup ({m} \ {0})
       /\ lossIndex' = IF m # 0 /\ order[step] = "DynamicLoss" THEN 1 ELSE lossIndex
  /\ step' = step + 1
  /\ pc' = IF step = Len(order) THEN "loop" ELSE "initFilters"
  /\ UNCHANGED <<chainVars, packetVars>>

\* init6Filters() sets the queue handle of output_, where it means output6_.
SetsNullsQH ==
  /\ pc = "initFilters" /\ option.ipv6 /\ Init6Order[step] = "Output"
  /\ Member(chain, "Output") # 0 /\ Member(chain4, "Output") = 0

InitFilters == ~option.ipv6 /\ Initialise(InitOrder)
Init6Filters == option.ipv6 /\ ~SetsNullsQH /\ Initialise(Init6Order)

Crash ==
  /\ SetsNullsQH
  /\ pc' = "crashed"
  /\ UNCHANGED <<chainVars, step, initialised, lossIndex, packetVars>>

\* setLosses() (which checks the lengths once more), or what the constructor has set: no loss.
losses_(i) == IF HasBeenSet(i, "dyn-losses") THEN Losses ELSE <<FALSE>>

\* Mutant of handleTimeout(): the index is not reset at the end.
HandleTimeoutNoWrap ==
  /\ lossIndex # 0 /\ Running
  /\ lossIndex' = lossIndex + 1
  /\ UNCHANGED <<setupVars, packetVars>>

\* DynamicLoss, when its timer expires.
HandleTimeout ==
  /\ lossIndex # 0 /\ Running
  /\ lossIndex' = IF lossIndex = Len(losses_(Member(chain, "DynamicLoss"))) THEN 1 ELSE lossIndex + 1
  /\ UNCHANGED <<setupVars, packetVars>>

-----------------------------------------------------------------------------
Moving(p) == place[p] = "moving"
Meets(p, f) == Moving(p) /\ Name(at[p]) = f
Reached(i) == i = Member(chain, Name(i))

\* next_->handlePacket(), of a thread that "origin" has sent.
Call(p, i, origin) ==
  /\ place' = [place EXCEPT ![p] = "moving"]
  /\ at' = [at EXCEPT ![p] = i]
  /\ by' = [by EXCEPT ![p] = origin]
  /\ trail' = [trail EXCEPT ![p] = Append(@, Name(i))]

Forward(p) == Call(p, chain.next[at[p]], by[p])

Ends(p, how) == place' = [place EXCEPT ![p] = how] /\ UNCHANGED <<at, by, trail>>

\* Mutant of setVerdict(): does not look whether there is one.
SetVerdictAgain(p, v) == told' = [told EXCEPT ![p] = Append(@, v)]

SetVerdict(p, v) ==
  told' = IF told[p] = <<>> THEN [told EXCEPT ![p] = <<v>>] ELSE told

\* The thread of execute() takes one packet at a time to the first filter.
Deliver(p, object) ==
  /\ pc = "loop"
  /\ place[p] = "outside" /\ \A q \in Packets : place[q] = "outside" => p <= q
  /\ \A q \in Packets : Moving(q) => by[q] # 0
  /\ pkt' = [pkt EXCEPT ![p] = object]
  /\ Call(p, chain.start, 0)
  /\ UNCHANGED <<setupVars, lossIndex, kept, stopped, told, out>>

NewPacket(p) == ~option.ipv6 /\ Deliver(p, ReadIpv4(Datagram[p]))
NewPacket6(p) == option.ipv6 /\ Deliver(p, ReadIpv6(Datagram6[p]))

\* recv() returns 0: execute() returns, and the process ends.
Return ==
  /\ pc = "loop" /\ \A q \in Packets : Moving(q) => by[q] # 0
  /\ pc' = "returned"
  /\ UNCHANGED <<chainVars, step, initialised, lossIndex, packetVars>>

Input(p) ==
  /\ Meets(p, "Input")
  /\ Forward(p)
  /\ UNCHANGED <<setupVars, lossIndex, pkt, kept, stopped, told, out>>

InputDrop(p) ==
  /\ Meets(p, "InputDrop")
  /\ SetVerdict(p, "drop")
  /\ Forward(p)
  /\ UNCHANGED <<setupVars, lossIndex, pkt, kept, stopped, out>>

\* Random, and only in a filter that setLoss() has reached.
Loss(p) ==
  /\ Meets(p, "Loss")
  /\ \/ Forward(p) /\ UNCHANGED told
     \/ HasBeenSet(at[p], "loss") /\ SetVerdict(p, "drop") /\ Ends(p, "dropped")
  /\ UNCHANGED <<setupVars, lossIndex, pkt, kept, stopped, out>>

\* currentLoss_ has any value where init() was not called; at a loss of 1 a
\* packet still gets through if the random number is 1.
DynamicLoss(p) ==
  /\ Meets(p, "DynamicLoss")
  /\ \/ Forward(p) /\ UNCHANGED told
     \/ /\ at[p] \in initialised => losses_(at[p])[lossIndex]
        /\ SetVerdict(p, "drop") /\ Ends(p, "dropped")
  /\ UNCHANGED <<setupVars, lossIndex, pkt, kept, stopped, out>>

\* A packet that is not solicited, or gets no port, is forgotten; what the mapper
\* lets through has its near end translated.
Translate(p) ==
  \E port \in {IF p \in Ingoing THEN pkt[p].dport_ ELSE pkt[p].sport_, NatPort} :
    pkt' = IF p \in Ingoing
           THEN [pkt EXCEPT ![p].dstIp_ = IntHost, ![p].dport_ = port]
           ELSE [pkt EXCEPT ![p].srcIp_ = ExtIp, ![p].sport_ = port]

NatFilter(p) ==
  /\ Meets(p, "Nat") /\ at[p] \in initialised
  /\ \/ Translate(p) /\ Forward(p)
     \/ Ends(p, "forgotten") /\ UNCHANGED pkt
  /\ UNCHANGED <<setupVars, lossIndex, kept, stopped, told, out>>

\* A Nat without init() has no mapper_ and no filter_.
NatCrash(p) ==
  /\ Meets(p, "Nat") /\ at[p] \notin initialised
  /\ pc' = "crashed"
  /\ UNCHANGED <<chainVars, step, initialised, lossIndex, packetVars>>

\* The filters that keep packets.  Burst and each direction of the
\* TokenBucketFilter pass them on with the mutex held that handlePacket() takes.
Same(p, q) == (p \in Ingoing) <=> (q \in Ingoing)
Passing(i, p) ==
  \E q \in Packets : Moving(q) /\ by[q] = i /\ (Name(i) = "TokenBucketFilter" => Same(p, q))

Keep(p) ==
  /\ kept' = Append(kept, p)
  /\ place' = [place EXCEPT ![p] = "held"]
  /\ UNCHANGED <<setupVars, lossIndex, pkt, at, by, stopped, told, trail, out>>

\* StaticDelay, DynamicDelay and OutputLibnet: queue_.push().
Queue(p) ==
  /\ \E f \in {"StaticDelay", "DynamicDelay", "OutputLibnet"} : Meets(p, f)
  /\ Keep(p)

\* Until its init() is called, sleeping_ is false.
Burst(p) ==
  /\ Meets(p, "Burst")
  /\ \/ /\ at[p] \in initialised /\ Forward(p)
        /\ UNCHANGED <<setupVars, lossIndex, pkt, kept, stopped, told, out>>
     \/ ~Passing(at[p], p) /\ Keep(p)

\* The queue is full, or long enough for early detection, at any time: how many
\* packets that takes, --tbf-out-max-packets and the like say, which may be none.
TokenBucketFilter(p) ==
  /\ Meets(p, "TokenBucketFilter") /\ ~Passing(at[p], p)
  /\ \/ Keep(p)
     \/ Ends(p, "forgotten") /\ UNCHANGED <<setupVars, lossIndex, pkt, kept, stopped, told, out>>

Output(p) ==
  /\ Meets(p, "Output")
  /\ SetVerdict(p, "accept")
  /\ Ends(p, "accepted")
  /\ out' = Append(out, [packet |-> p, sent |-> pkt[p].packetData_])
  /\ UNCHANGED <<setupVars, lossIndex, pkt, kept, stopped>>

\* The packets of which filter i may pass on one: the first it keeps, of the
\* TokenBucketFilter the first of each direction.
Heads(i) ==
  {kept[k] : k \in {k \in DOMAIN kept :
     /\ at[kept[k]] = i
     /\ \A j \in 1 .. k - 1 : at[kept[j]] = i =>
          Name(i) = "TokenBucketFilter" /\ ~Same(kept[j], kept[k])}}

Unkeep(p) ==
  \E k \in DOMAIN kept :
    /\ kept[k] = p
    /\ kept' = [j \in 1 .. Len(kept) - 1 |-> IF j < k THEN kept[j] ELSE kept[j + 1]]

\* Mutant of the delays' timer functions: ask for the next packet first.
ReleaseAtOnce(i, p) ==
  /\ Name(i) \in {"StaticDelay", "DynamicDelay", "Burst", "TokenBucketFilter"}
  /\ i \in initialised
  /\ p \in Heads(i)
  /\ Unkeep(p)
  /\ Call(p, chain.next[i], i)
  /\ UNCHANGED <<setupVars, lossIndex, pkt, stopped, told, out>>

\* A timer's function, the loop of Burst's init(), or trySend() passes a packet
\* on, and only then the next; without init() none does.
Release(i, p) ==
  /\ Name(i) \in {"StaticDelay", "DynamicDelay", "Burst", "TokenBucketFilter"}
  /\ i \in initialised
  /\ p \in Heads(i) /\ ~Passing(i, p)
  /\ Unkeep(p)
  /\ Call(p, chain.next[i], i)
  /\ UNCHANGED <<setupVars, lossIndex, pkt, stopped, told, out>>

\* popHandler() of either output: it ends by writing the packet and asking for
\* the next, or in a return after an error of libnet, and never comes back.
PopHandler(i, p, datagram) ==
  /\ Name(i) = "OutputLibnet"
  /\ i \in initialised \ stopped
  /\ p \in Heads(i)
  /\ Unkeep(p)
  /\ \/ /\ Ends(p, "written") /\ out' = Append(out, [packet |-> p, sent |-> datagram])
        /\ UNCHANGED stopped
     \/ /\ Ends(p, "lost") /\ UNCHANGED out
        /\ stopped' = stopped \cup {i}
  /\ UNCHANGED <<setupVars, lossIndex, pkt, told>>

OutputPopHandler(i, p) == ~option.ipv6 /\ PopHandler(i, p, BuildIpv4(pkt[p]))
Output6PopHandler(i, p) == option.ipv6 /\ PopHandler(i, p, BuildIpv6(pkt[p]))

-----------------------------------------------------------------------------
Handle(p) ==
  \/ Input(p) \/ InputDrop(p) \/ Loss(p) \/ DynamicLoss(p) \/ NatFilter(p) \/ NatCrash(p)
  \/ Queue(p) \/ Burst(p) \/ TokenBucketFilter(p) \/ Output(p)

Work ==
  /\ Running
  /\ \/ InitFilters \/ Init6Filters \/ Crash
     \/ \E p \in Packets : Handle(p)
     \/ \E p \in Packets, i \in Objects :
          Release(i, p) \/ OutputPopHandler(i, p) \/ Output6PopHandler(i, p)

Next ==
  \/ Begin \/ InitAll \/ AddFilter \/ Configure \/ Execute \/ Execute6
  \/ Work
  \/ HandleTimeout
  \/ Return
  \/ \E p \in Packets : NewPacket(p) \/ NewPacket6(p)

Spec == Init /\ [][Next]_vars

\* The threads go on.  Each packet's way is finite, so this is fair to all.  That
\* filters keep nothing for ever is shown in their modules; of a TokenBucketFilter
\* it holds if its rate and its bucket are large enough for every packet.
FairSpec == Spec /\ WF_vars(Work)

-----------------------------------------------------------------------------
NoVerdictEnds == {"forgotten", "lost"}
Ended(p) == place[p] \in {"dropped", "accepted", "written"} \cup NoVerdictEnds

\* The state has its types; a packet is kept once or not at all; DynamicLoss
\* never looks behind the end of losses_.
TypeOK ==
  /\ option \in Options
  /\ pc \in {"main", "init", "configure", "execute", "initFilters", "loop", "exited", "returned",
            "crashed"}
  /\ step \in 1 .. Len(Settings)
  /\ initialised \subseteq Objects /\ stopped \subseteq initialised
  /\ lossIndex \in 0 .. Len(Losses)
  /\ place \in [Packets -> {"outside", "moving", "held", "dropped", "forgotten",
                            "accepted", "written", "lost"}]
  /\ at \in [Packets -> Objects \cup {0}] /\ by \in [Packets -> Objects \cup {0}]
  /\ kept \in Seq(Packets)
  /\ \A p \in Packets :
       Cardinality({k \in DOMAIN kept : kept[k] = p}) = IF place[p] = "held" THEN 1 ELSE 0

\* README: "only the filters listed will be added to the filter chain, and will
\* be added in the order they are listed" (but for Nat, in IPv6): what leaves
\* the router has been through all of them, in that order, and through no other,
\* between an input and an output.
Shaped ==
  LET list == option.filters
      added == {i \in DOMAIN list : list[i] \in Shapers \ (IF option.ipv6 THEN {"Nat"} ELSE {})}
  IN  list # <<>> =>
        \A p \in Packets : place[p] \in {"accepted", "written"} =>
          /\ Len(trail[p]) = 1 + Cardinality(added) + 1
          /\ \A i \in added : trail[p][1 + Cardinality({j \in added : j <= i})] = list[i]
          /\ trail[p][1] \notin Shapers /\ trail[p][Len(trail[p])] \notin Shapers

\* The kernel gets at most one verdict on a packet, although several filters may
\* give one; a packet that is re-sent was dropped there, and one that is accepted
\* there is not re-sent: nothing is on the network twice.
OneVerdict ==
  \A p \in Packets :
    /\ Len(told[p]) <= 1
    /\ place[p] = "written" => told[p] = <<"drop">>
    /\ place[p] = "accepted" => told[p] = <<"accept">>
    /\ told[p] = <<"accept">> => place[p] = "accepted"

\* Without Burst, packets of one direction leave in the order in which they came,
\* through however many filters and threads.
OrderKept ==
  Member(chain, "Burst") = 0 =>
    \A j, k \in DOMAIN out : j < k /\ Same(out[j].packet, out[k].packet)
                                => out[j].packet < out[k].packet

\* Every packet ends, unless it waits for an output that has given up or in a
\* filter that is listed again after it; but a Nat so listed stops everything.
Settled ==
  \A p \in Packets :
    Moving(p) ~> \/ Ended(p)
                 \/ place[p] = "held" /\ (at[p] \in stopped \/ ~Reached(at[p]))
                 \/ ~Running

\* No packet comes to a filter whose init() has not been called, unless the same
\* filter is listed again after it.  README: "Options for a filter which is not
\* added is ignored silently", and only those: a filter that is initialised has been
\* given each of its options, in the family that is executed, and lists that "must
\* be exactly the same length" and are not start nothing.
Configured ==
  /\ \A p \in Packets :
       place[p] \in {"moving", "held"} /\ Reached(at[p]) => at[p] \in initialised
  /\ initialised # {} =>
       \A k \in DOMAIN Settings : Given(option, Settings[k][1]) =>
         /\ \A i \in initialised : Name(i) = Settings[k][2] => HasBeenSet(i, Settings[k][1])
         /\ Settings[k][1] \notin option.uneven

\* What leaves the router is what came, through however many filters, threads and
\* copies, except what the Nat is there to change: the near end of a packet, where
\* no internal address leaves the router and what comes in goes on to the internal
\* host, and the near port, but not the id of an ICMP packet.  libnet's header has
\* an identification and, in IPv6, a flow label of its own, and no IP options.
Intact ==
  \A k \in DOMAIN out :
    LET p == out[k].packet
        came == IF option.ipv6 THEN Datagram6[p] ELSE Datagram[p]
        anew == IF place[p] = "written" THEN {"id", "options", "flow"} ELSE {}
        nat == place[p] = "written" /\ Member(chain, "Nat") # 0
        address == IF p \in Ingoing THEN "dst" ELSE "src"
        port == IF p \in Ingoing THEN "dport" ELSE "sport"
        due == IF nat THEN [came EXCEPT ![address] = IF p \in Ingoing THEN IntHost ELSE ExtIp]
                      ELSE came
    IN  \A field \in DOMAIN came \ anew :
          \/ out[k].sent[field] = due[field]
          \/ nat /\ field = port /\ HasPorts(came.proto) /\ out[k].sent[field] = NatPort

\* README: "If a filter does not forward a packet to the next filter, it must
\* call the setVerdict(false) function of the packet to drop it."
VerdictOnDrop == \A p \in Packets : Ended(p) => told[p] # <<>>

\* router.hpp: "This starts an infinite while loop handling packets. This
\* function should never return".
LoopsForEver == pc # "crashed"
=============================================================================
