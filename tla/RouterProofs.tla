---------------------------- MODULE RouterProofs ----------------------------
(* Proofs about Router for every set of command lines and every number of     *)
(* packets and of filters in the chain.                                       *)
EXTENDS Router, SequenceLemmas

-----------------------------------------------------------------------------
(* The chains. *)

(* A chain, however far init() is: each filter leads to the one made after it, *)
(* and the Router's pointers lead to filters of their names.                   *)
Chained(c) ==
  /\ c.filters \in Seq(Known)
  /\ c.next \in Seq(Nat) /\ Len(c.next) = Len(c.filters)
  /\ \A i \in 1..Len(c.filters) : c.next[i] = IF i = Len(c.filters) THEN 0 ELSE i + 1
  /\ c.last = Len(c.filters)
  /\ c.start = IF c.last = 0 THEN 0 ELSE 1
  /\ DOMAIN c.member = Known
  /\ \A f \in Known : IF c.member[f] = 0 THEN \A i \in 1..Len(c.filters) : c.filters[i] # f
                      ELSE c.member[f] \in 1..Len(c.filters) /\ c.filters[c.member[f]] = f

(* A chain that is complete has an input at one end and the output that goes *)
(* with it at the other.                                                     *)
Complete(c) ==
  LET n == Len(c.filters) IN
  /\ n >= 2
  /\ \/ c.filters[1] = "Input" /\ c.filters[n] = "Output"
     \/ c.filters[1] = "InputDrop" /\ c.filters[n] = "OutputLibnet"
  /\ \A i \in 2..n - 1 : c.filters[i] \in Shapers

(* What a list of filters has; the provers do not know that a literal is a STRING. *)
Names == STRING \cup Known

(* How far init() has got in its list, of which it has yet to do "rest". *)
Listed(c, rest, list) ==
  LET done == Len(list) - Len(rest) IN
  /\ rest \in Seq(Names) /\ done \in Nat
  /\ \A i \in 1..Len(rest) : rest[i] = list[done + i]
  /\ done = 0 => c.filters = <<>>
  /\ done > 0 => Len(c.filters) >= 1 /\ c.filters[1] = list[1]
  /\ rest # <<>> => \A i \in 2..Len(c.filters) : c.filters[i] \in Shapers

NoNat(c) == \A i \in 1..Len(c.filters) : c.filters[i] # "Nat"

Early == {"main", "init"}
Late == {"configure", "execute", "initFilters", "loop", "returned", "crashed"}

Building(c) ==
  /\ Chained(c)
  /\ pc \in Early => Listed(c, toAdd, FilterList(option))
  /\ pc \in Late => Complete(c)

Built ==
  /\ option \in Options
  /\ pc \in Early \cup Late \cup {"exited"}
  /\ pc \in Early /\ option.filters # <<>> => toAdd # <<>>
  /\ Building(chain4) /\ Building(chain6) /\ NoNat(chain6)

-----------------------------------------------------------------------------
(* The start of the filters. *)
Order == IF option.ipv6 THEN Init6Order ELSE InitOrder

Started ==
  /\ step \in 1..Len(Settings)
  /\ pc \in {"main", "init", "execute"} => step = 1
  /\ pc = "initFilters" => step <= Len(Order)
  /\ initialised \subseteq Objects
  /\ \A i \in initialised : i = Member(chain, Name(i))
  /\ pc \in {"main", "init", "configure", "execute", "exited"} => initialised = {} /\ lossIndex = 0
  /\ pc = "initFilters" => \A k \in 1..step - 1 : Member(chain, Order[k]) \in initialised \cup {0}
  /\ pc = "loop" => \A f \in Known : Member(chain, f) \in initialised \cup {0}
  /\ lossIndex \in 0..Len(losses_(Member(chain, "DynamicLoss")))

(* No packet is there before the loop, and then every filter is started. *)
Outside ==
  \/ \A p \in Packets : place[p] = "outside"
  \/ /\ pc \in {"loop", "returned", "crashed"}
     /\ \A f \in Known : Member(chain, f) \in initialised \cup {0}

(* The options that main() has passed on. *)
Passed(c, set, k) ==
  Given(option, Settings[k][1]) =>
    /\ Settings[k][1] \notin option.uneven
    /\ Member(c, Settings[k][2]) # 0 => <<Member(c, Settings[k][2]), Settings[k][1]>> \in set

PassedOn ==
  /\ pc = "configure" =>
       \A k \in 1..step - 1 : Passed(chain4, set4, k) /\ Passed(chain6, set6, k)
  /\ pc \in {"execute", "initFilters", "loop", "returned", "crashed"} =>
       \A k \in 1..Len(Settings) : Passed(chain4, set4, k) /\ Passed(chain6, set6, k)

-----------------------------------------------------------------------------
(* The packets. *)
Places == {"outside", "moving", "held", "dropped", "forgotten", "accepted", "written", "lost"}

Active(p) == place[p] \in {"moving", "held"}

Placed ==
  /\ place \in [Packets -> Places]
  /\ at \in [Packets -> Objects \cup {0}] /\ by \in [Packets -> Objects \cup {0}]
  /\ \A p \in Packets : IF place[p] = "outside" THEN at[p] = 0 /\ by[p] = 0
                         ELSE at[p] \in Objects
  /\ stopped \subseteq initialised

(* A packet that is held is in the queue once, and no other is. *)
Kept ==
  /\ kept \in Seq(Packets)
  /\ \A k \in 1..Len(kept) : place[kept[k]] = "held"
  /\ \A j, k \in 1..Len(kept) : kept[j] = kept[k] => j = k
  /\ \A p \in Packets : place[p] = "held" => \E k \in 1..Len(kept) : kept[k] = p

(* InputDrop gives the verdict at the beginning of its chain, Output at the *)
(* end of its.                                                              *)
Verdicts ==
  /\ DOMAIN told = Packets
  /\ \A p \in Packets :
       CASE place[p] = "outside" -> told[p] = <<>>
         [] Active(p) -> told[p] = IF Name(1) = "InputDrop" /\ at[p] # 1 THEN <<"drop">> ELSE <<>>
         [] place[p] = "accepted" -> told[p] = <<"accept">>
         [] place[p] = "written" -> told[p] = <<"drop">>
         [] place[p] = "dropped" -> told[p] = <<"drop">>
         [] OTHER -> told[p] \in {<<>>, <<"drop">>}

-----------------------------------------------------------------------------
(* The order, where there is no Burst. *)
Keepers == {"StaticDelay", "DynamicDelay", "TokenBucketFilter", "OutputLibnet"}

(* Those which let go of a packet without a verdict. *)
Forgetters == {"Nat", "TokenBucketFilter"}

NoBurst == \A i \in Objects : Name(i) # "Burst"

(* A packet is brought by the last filter behind it that keeps packets ... *)
Brought ==
  NoBurst =>
    /\ \A p \in Packets : place[p] = "moving" =>
         /\ by[p] < at[p]
         /\ by[p] # 0 => Name(by[p]) \in Keepers
         /\ \A i \in Objects : by[p] < i /\ i < at[p] => Name(i) \notin Keepers
    /\ \A p \in Packets : place[p] = "held" => Name(at[p]) \in Keepers

(* ... and the only one of its direction that this filter brings. *)
Alone ==
  \A p, q \in Packets :
    place[p] = "moving" /\ place[q] = "moving" /\ by[p] = by[q] /\ Same(p, q) => p = q

(* Who came later is behind. *)
Behind(p, q) ==
  \/ at[q] < at[p]
  \/ /\ at[q] = at[p] /\ place[p] = "held"
     /\ place[q] = "held" => Before(kept, p, q)

InTurn(p, q) ==
  /\ place[p] = "outside" => place[q] = "outside"
  /\ Active(p) /\ Active(q) => Behind(p, q)
  /\ Active(p) => place[q] \notin {"accepted", "written"}

Ordered == NoBurst => \A p, q \in Packets : p < q /\ Same(p, q) => InTurn(p, q)

(* What is on the network again. *)
Left ==
  /\ out \in Seq({out[k] : k \in 1..Len(out)})
  /\ \A k \in 1..Len(out) : /\ out[k].packet \in Packets
                             /\ place[out[k].packet] \in {"accepted", "written"}
  /\ \A j, k \in 1..Len(out) : out[j].packet = out[k].packet => j = k

-----------------------------------------------------------------------------
(* Building the chains. *)
\* main() puts an input before the list and the output that goes with it behind.
LEMMA ListEnds ==
  ASSUME NEW o \in Options, o.filters # <<>>,
         NEW list, list = FilterList(o), NEW n, n = Len(list)
  PROVE  /\ list \in Seq(Names) /\ n \in Nat /\ n >= 3
         /\ \/ list[1] = "Input" /\ list[n] = "Output"
            \/ list[1] = "InputDrop" /\ list[n] = "OutputLibnet"
         /\ \A i \in 2..n - 1 : list[i] \in Known => list[i] \in Shapers
<1> DEFINE s == o.filters
<1>1. s \in Seq(Names) /\ s # <<>> /\ \A i \in 1..Len(s) : s[i] \notin Known \ Shapers
  <2>1. s \in Seq(STRING) /\ s # <<>> /\ \A i \in 1..Len(s) : s[i] \notin Known \ Shapers
    BY ConstantsAssumption
  <2> QED
    BY <2>1, SeqMonotonic DEF Names
<1>2. Len(s) \in Nat /\ Len(s) >= 1
  BY <1>1
<1> HIDE DEF s
<1>3. ASSUME NEW a \in Names, NEW b \in Names, list = <<a>> \o s \o <<b>>
      PROVE  /\ list \in Seq(Names) /\ n \in Nat /\ n >= 3 /\ list[1] = a /\ list[n] = b
             /\ \A i \in 2..n - 1 : list[i] \in Known => list[i] \in Shapers
  <2>1. /\ list \in Seq(Names) /\ Len(list) = Len(s) + 2 /\ list[1] = a /\ list[Len(list)] = b
        /\ \A i \in 2..Len(list) - 1 : i - 1 \in 1..Len(s) /\ list[i] = s[i - 1]
    BY <1>1, <1>3, Enclosed
  <2> QED
    BY <1>1, <1>2, <2>1
<1>4. CASE o.accept
  <2>1. list = <<"Input">> \o s \o <<"Output">>
    BY <1>4 DEF FilterList, s
  <2>2. "Input" \in Names /\ "Output" \in Names
    BY DEF Names, Known
  <2>3. /\ list \in Seq(Names) /\ n \in Nat /\ n >= 3 /\ list[1] = "Input" /\ list[n] = "Output"
        /\ \A i \in 2..n - 1 : list[i] \in Known => list[i] \in Shapers
    BY <1>3, <2>1, <2>2
  <2> QED
    BY <2>3
<1>5. CASE ~o.accept
  <2>1. list = <<"InputDrop">> \o s \o <<"OutputLibnet">>
    BY <1>5 DEF FilterList, s
  <2>2. "InputDrop" \in Names /\ "OutputLibnet" \in Names
    BY DEF Names, Known
  <2>3. /\ list \in Seq(Names) /\ n \in Nat /\ n >= 3 /\ list[1] = "InputDrop" /\ list[n] = "OutputLibnet"
        /\ \A i \in 2..n - 1 : list[i] \in Known => list[i] \in Shapers
    BY <1>3, <2>1, <2>2
  <2> QED
    BY <2>3
<1> QED
  BY <1>4, <1>5

\* A turn of init()'s loop appends the filter.
LEMMA AddChained ==
  ASSUME NEW c, Chained(c), NEW f \in Known
  PROVE  /\ Chained(Add(c, f))
         /\ Add(c, f).filters = Append(c.filters, f)
<1> DEFINE new == Len(c.filters) + 1
           d == Add(c, f)
           links == IF c.last = 0 THEN c.next ELSE [c.next EXCEPT ![c.last] = new]
<1>1. /\ d.filters = Append(c.filters, f) /\ d.next = Append(links, 0)
      /\ d.start = (IF c.last = 0 THEN new ELSE c.start) /\ d.last = new
      /\ d.member = [c.member EXCEPT ![f] = new]
  BY DEF Add
<1>2. Len(c.filters) \in Nat /\ c.filters \in Seq(Known) /\ c.last = Len(c.filters)
  BY DEF Chained
<1>3. /\ d.filters \in Seq(Known) /\ Len(d.filters) = new /\ d.filters[new] = f
      /\ \A i \in 1..Len(c.filters) : d.filters[i] = c.filters[i]
  BY <1>1, <1>2
<1>4. /\ links \in Seq(Nat) /\ Len(links) = Len(c.filters)
      /\ \A i \in 1..Len(c.filters) : links[i] = i + 1
  BY <1>2 DEF Chained
<1> HIDE DEF links, d
<1>5. /\ d.next \in Seq(Nat) /\ Len(d.next) = new
      /\ \A i \in 1..new : d.next[i] = IF i = new THEN 0 ELSE i + 1
  BY <1>1, <1>2, <1>4
<1>6. d.start = 1
  BY <1>1, <1>2 DEF Chained
<1>7. /\ DOMAIN d.member = Known
      /\ \A g \in Known : d.member[g] = IF g = f THEN new ELSE c.member[g]
  BY <1>1 DEF Chained
<1>8. \A g \in Known : IF d.member[g] = 0 THEN \A i \in 1..new : d.filters[i] # g
                       ELSE d.member[g] \in 1..new /\ d.filters[d.member[g]] = g
  <2> TAKE g \in Known
  <2>1. CASE g = f
    BY <1>2, <1>3, <1>7, <2>1
  <2>2. CASE g # f
    <3>1. d.member[g] = c.member[g]
      BY <1>7, <2>2
    <3>2. IF c.member[g] = 0 THEN \A i \in 1..Len(c.filters) : c.filters[i] # g
          ELSE c.member[g] \in 1..Len(c.filters) /\ c.filters[c.member[g]] = g
      BY DEF Chained
    <3>3. \A i \in 1..new : i \in 1..Len(c.filters) \/ i = new
      BY <1>2
    <3>4. \A i \in 1..Len(c.filters) : i \in 1..new
      BY <1>2
    <3> QED
      BY <1>3, <2>2, <3>1, <3>2, <3>3, <3>4
  <2> QED
    BY <2>1, <2>2
<1>9. Chained(d)
  BY <1>1, <1>2, <1>3, <1>5, <1>6, <1>7, <1>8 DEF Chained
<1> QED
  BY <1>1, <1>9 DEF d

\* The chains that init() makes when it is given no list are complete.
LEMMA LinkedComplete ==
  /\ Chained(Linked(DefaultList)) /\ Complete(Linked(DefaultList))
  /\ Chained(Linked(Default6List)) /\ Complete(Linked(Default6List))
  /\ \A i \in 1..Len(Default6List) : Default6List[i] # "Nat"
<1>1. ASSUME NEW list \in Seq(Known), Len(list) > 0 PROVE Chained(Linked(list))
  <2> DEFINE c == Linked(list)
  <2>1. /\ c.filters = list
        /\ c.next = [i \in 1..Len(list) |-> IF i = Len(list) THEN 0 ELSE i + 1]
        /\ c.start = 1 /\ c.last = Len(list)
        /\ c.member = [f \in Known |-> IF \E i \in 1..Len(list) : list[i] = f
                                       THEN CHOOSE i \in 1..Len(list) : list[i] = f ELSE 0]
    <3>1. DOMAIN list = 1..Len(list)
      BY LenProperties
    <3> QED
      BY <3>1 DEF Linked
  <2> HIDE DEF c
  <2>2. c.next \in Seq(Nat) /\ Len(c.next) = Len(list)
    BY <2>1
  <2>3. \A f \in Known : IF c.member[f] = 0 THEN \A i \in 1..Len(list) : list[i] # f
                         ELSE c.member[f] \in 1..Len(list) /\ list[c.member[f]] = f
    <3> TAKE f \in Known
    <3>1. CASE \E i \in 1..Len(list) : list[i] = f
      <4>1. c.member[f] = CHOOSE i \in 1..Len(list) : list[i] = f
        BY <2>1, <3>1
      <4>2. c.member[f] \in 1..Len(list) /\ list[c.member[f]] = f
        BY <3>1, <4>1
      <4> QED
        BY <4>2
    <3>2. CASE ~ \E i \in 1..Len(list) : list[i] = f
      BY <2>1, <3>2
    <3> QED
      BY <3>1, <3>2
  <2>4. Chained(c)
    <3>1. Len(list) \in Nat /\ Len(list) # 0
      BY <1>1
    <3>2. DOMAIN c.member = Known
      BY <2>1
    <3>3. \A i \in 1..Len(c.filters) : c.next[i] = IF i = Len(c.filters) THEN 0 ELSE i + 1
      BY <2>1
    <3> QED
      BY <2>1, <2>2, <2>3, <3>1, <3>2, <3>3 DEF Chained
  <2> QED
    BY <2>4 DEF c
<1>2. DefaultList \in Seq(Known) /\ Len(DefaultList) = 9
  BY DEF DefaultList, Known, Shapers
<1>3. Default6List \in Seq(Known) /\ Len(Default6List) = 8
  BY DEF Default6List, Known, Shapers
<1>4. Complete(Linked(DefaultList))
  <2>1. Linked(DefaultList).filters = DefaultList
    BY DEF Linked
  <2>2. DefaultList[1] = "InputDrop" /\ DefaultList[9] = "OutputLibnet"
    BY DEF DefaultList
  <2>3. \A i \in 2..8 : DefaultList[i] \in Shapers
    BY DEF DefaultList, Shapers
  <2> QED
    <3>1. Len(Linked(DefaultList).filters) = 9 /\ 9 - 1 = 8
      BY <1>2, <2>1
    <3> QED
      BY <2>1, <2>2, <2>3, <3>1 DEF Complete
<1>5. Complete(Linked(Default6List))
  <2>1. Linked(Default6List).filters = Default6List
    BY DEF Linked
  <2>2. Default6List[1] = "Input" /\ Default6List[8] = "Output"
    BY DEF Default6List
  <2>3. \A i \in 2..7 : Default6List[i] \in Shapers
    BY DEF Default6List, Shapers
  <2> QED
    <3>1. Len(Linked(Default6List).filters) = 8 /\ 8 - 1 = 7
      BY <1>3, <2>1
    <3> QED
      BY <2>1, <2>2, <2>3, <3>1 DEF Complete
<1>6. \A i \in 1..8 : Default6List[i] # "Nat"
  BY DEF Default6List
<1> QED
  BY <1>1, <1>2, <1>3, <1>4, <1>5, <1>6


\* A turn of init()'s loop, in either chain.
LEMMA AddListed ==
  ASSUME NEW o \in Options, o.filters # <<>>, NEW list, list = FilterList(o),
         NEW c, Chained(c), NEW rest, Listed(c, rest, list), rest # <<>>,
         NEW K, K = Known \/ K = Known \ {"Nat"},
         NEW d, d = IF Head(rest) \in K THEN Add(c, Head(rest)) ELSE c
  PROVE  /\ Chained(d)
         /\ IF Tail(rest) = <<>> THEN Complete(d) ELSE Listed(d, Tail(rest), list)
<1> DEFINE n == Len(list)
           done == n - Len(rest)
           f == Head(rest)
<1>1. /\ list \in Seq(Names) /\ n \in Nat /\ n >= 3
      /\ \/ list[1] = "Input" /\ list[n] = "Output"
         \/ list[1] = "InputDrop" /\ list[n] = "OutputLibnet"
      /\ \A i \in 2..n - 1 : list[i] \in Known => list[i] \in Shapers
  BY ListEnds
<1>2. /\ rest \in Seq(Names) /\ done \in Nat
      /\ \A i \in 1..Len(rest) : rest[i] = list[done + i]
      /\ done = 0 => c.filters = <<>>
      /\ done > 0 => Len(c.filters) >= 1 /\ c.filters[1] = list[1]
      /\ \A i \in 2..Len(c.filters) : c.filters[i] \in Shapers
  BY DEF Listed
<1>3. /\ Len(rest) \in Nat /\ done \in Nat /\ n \in Nat
      /\ Len(rest) >= 1 /\ n >= 3 /\ Len(rest) + done = n
  BY <1>1, <1>2
<1> HIDE DEF n, done
<1>4. /\ Tail(rest) \in Seq(Names) /\ Len(Tail(rest)) = Len(rest) - 1
      /\ \A i \in 1..Len(Tail(rest)) : Tail(rest)[i] = rest[i + 1]
      /\ Tail(rest) = <<>> <=> Len(rest) = 1
  <2>1. /\ Tail(rest) \in Seq(Names) /\ Len(Tail(rest)) = Len(rest) - 1
        /\ \A i \in 1..Len(Tail(rest)) : Tail(rest)[i] = rest[i + 1]
    BY <1>2, HeadTailProperties
  <2>2. Tail(rest) = <<>> <=> Len(Tail(rest)) = 0
    BY <2>1
  <2> QED
    BY <1>3, <2>1, <2>2
<1>5. f = list[done + 1]
  BY <1>2, <1>3
<1>6. Len(list) - Len(Tail(rest)) = done + 1 /\ done + 1 \in Nat /\ done + 1 > 0 /\ done + 1 # 0
  BY <1>3, <1>4 DEF n
<1>7. \A i \in 1..Len(Tail(rest)) : Tail(rest)[i] = list[(done + 1) + i]
  <2> TAKE i \in 1..Len(Tail(rest))
  <2>1. i + 1 \in 1..Len(rest) /\ done + (i + 1) = (done + 1) + i
    BY <1>3, <1>4
  <2> QED
    BY <1>2, <1>4, <2>1
<1>8. Len(c.filters) \in Nat /\ c.filters \in Seq(Known)
  BY DEF Chained
<1>9. ASSUME f \in K
      PROVE  /\ Chained(d) /\ d.filters \in Seq(Known) /\ Len(d.filters) = Len(c.filters) + 1
             /\ d.filters[Len(c.filters) + 1] = f
             /\ \A i \in 1..Len(c.filters) : d.filters[i] = c.filters[i]
  <2>1. f \in Known /\ d = Add(c, f)
    BY <1>9
  <2> HIDE DEF f
  <2>2. Chained(d) /\ d.filters = Append(c.filters, f)
    BY <2>1, AddChained
  <2>3. \A s \in Seq(Known) : \A r : r = Append(s, f) =>
           /\ r \in Seq(Known) /\ Len(r) = Len(s) + 1 /\ r[Len(s) + 1] = f
           /\ \A i \in 1..Len(s) : r[i] = s[i]
    BY <2>1, Appended
  <2> QED
    BY <1>8, <2>2, <2>3, Zenon
<1> HIDE DEF f
<1>10. CASE done = 0
  <2>1. f \in K
    BY <1>1, <1>5, <1>10 DEF Known
  <2>2. c.filters = <<>> /\ Len(c.filters) = 0
    BY <1>2, <1>10
  <2>3. Chained(d) /\ Len(d.filters) = 1 /\ d.filters[1] = list[1]
    BY <1>5, <1>9, <1>10, <2>1, <2>2
  <2>4. Tail(rest) # <<>>
    BY <1>1, <1>3, <1>4, <1>10
  <2>5. Listed(d, Tail(rest), list)
    <3>1. \A i \in 2..Len(d.filters) : d.filters[i] \in Shapers
      BY <2>3
    <3>2. Len(d.filters) >= 1
      BY <2>3
    <3> QED
      BY <1>4, <1>6, <1>7, <2>3, <3>1, <3>2 DEF Listed
  <2> QED
    BY <2>3, <2>4, <2>5
<1>11. CASE done > 0 /\ Len(rest) > 1
  <2>1. Tail(rest) # <<>>
    BY <1>4, <1>11
  <2>2. done + 1 \in 2..n - 1
    <3>1. Len(rest) >= 2
      BY <1>3, <1>11
    <3> QED
      BY <1>3, <1>11, <3>1
  <2>3. f \in K => f \in Shapers
    BY <1>1, <1>5, <2>2
  <2>4. /\ Chained(d) /\ Len(d.filters) >= 1 /\ d.filters[1] = list[1]
        /\ \A i \in 2..Len(d.filters) : d.filters[i] \in Shapers
    <3>1. CASE f \in K
      <4>1. \A i \in 2..Len(d.filters) : \/ i \in 2..Len(c.filters) /\ i \in 1..Len(c.filters)
                                         \/ i = Len(c.filters) + 1
        BY <1>8, <1>9, <3>1
      <4>2. \A i \in 2..Len(d.filters) : d.filters[i] \in Shapers
        BY <1>2, <1>9, <2>3, <3>1, <4>1
      <4>3. 1 \in 1..Len(c.filters)
        BY <1>2, <1>8, <1>11
      <4> QED
        BY <1>2, <1>8, <1>9, <1>11, <3>1, <4>2, <4>3
    <3>2. CASE f \notin K
      BY <1>2, <1>11, <3>2 DEF f
    <3> QED
      BY <3>1, <3>2
  <2>5. Listed(d, Tail(rest), list)
    BY <1>4, <1>6, <1>7, <2>4 DEF Listed
  <2> QED
    BY <2>1, <2>4, <2>5
<1>12. CASE Len(rest) = 1
  <2>1. Tail(rest) = <<>> /\ done + 1 = n /\ done > 0
    BY <1>3, <1>4, <1>12
  <2>2. f \in K
    BY <1>1, <1>5, <2>1 DEF Known
  <2>3. Chained(d)
    BY <1>9, <2>2
  <2>4. Len(c.filters) >= 1 /\ 1 \in 1..Len(c.filters) /\ (Len(c.filters) + 1) - 1 = Len(c.filters)
    BY <1>2, <1>8, <2>1
  <2>5. d.filters[1] = list[1] /\ d.filters[Len(d.filters)] = list[n] /\ Len(d.filters) >= 2
    BY <1>2, <1>5, <1>8, <1>9, <2>1, <2>2, <2>4
  <2>6. \A i \in 2..Len(d.filters) - 1 : d.filters[i] \in Shapers
    <3> TAKE i \in 2..Len(d.filters) - 1
    <3>1. i \in 2..Len(c.filters) /\ i \in 1..Len(c.filters)
      BY <1>8, <1>9, <2>2
    <3> QED
      BY <1>2, <1>9, <2>2, <3>1
  <2>7. Complete(d)
    BY <1>1, <2>5, <2>6 DEF Complete
  <2> QED
    BY <2>1, <2>3, <2>7
<1>13. (\A m \in Nat : m >= 1 => m = 1 \/ m > 1) /\ (\A m \in Nat : m = 0 \/ m > 0)
  OBVIOUS
<1>14. done = 0 \/ (done > 0 /\ Len(rest) > 1) \/ Len(rest) = 1
  BY <1>3, <1>13
<1> QED
  BY <1>10, <1>11, <1>12, <1>14

-----------------------------------------------------------------------------
(* The steps.                                                                 *)

\* What a call of handlePacket() leaves alone.
LEMMA HandleKeeps ==
  ASSUME NEW p \in Packets, Handle(p)
  PROVE  /\ UNCHANGED <<chainVars, step, initialised, lossIndex>>
         /\ Moving(p)
         /\ \/ UNCHANGED pc
            \/ /\ pc' = "crashed" /\ UNCHANGED packetVars
<1>1. CASE Input(p) \/ InputDrop(p) \/ Loss(p) \/ DynamicLoss(p)
  BY <1>1 DEF Input, InputDrop, Loss, DynamicLoss, setupVars, Meets
<1>2. CASE NatFilter(p) \/ NatCrash(p)
  BY <1>2 DEF NatFilter, NatCrash, setupVars, Meets
<1>3. CASE Queue(p) \/ Burst(p) \/ TokenBucketFilter(p) \/ Output(p)
  BY <1>3 DEF Queue, Burst, TokenBucketFilter, Output, Keep, setupVars, Meets
<1> QED
  BY <1>1, <1>2, <1>3 DEF Handle

\* What every other step on a packet leaves alone.
LEMMA OthersKeep ==
  ASSUME \E p \in Packets : \/ NewPacket(p) \/ NewPacket6(p)
                            \/ \E i \in Objects : \/ Release(i, p)
                                                  \/ OutputPopHandler(i, p)
                                                  \/ Output6PopHandler(i, p)
  PROVE  UNCHANGED <<chainVars, pc, step, initialised, lossIndex>>
BY DEF NewPacket, NewPacket6, Deliver, Release, OutputPopHandler, Output6PopHandler, PopHandler,
       setupVars

\* Only init() changes the chains, and nothing but Begin leads to init().
LEMMA ChainsKept ==
  ASSUME Built, Outside, [Next]_vars, ~InitAll, ~AddFilter
  PROVE  /\ UNCHANGED <<option, chain4, chain6, toAdd>>
         /\ \/ pc' = pc \/ pc' = "exited"
            \/ pc = "main" /\ pc' = "init"
            \/ pc \in Late /\ pc' \in Late
<1>1. CASE UNCHANGED vars
  BY <1>1 DEF vars, setupVars, chainVars
<1>2. CASE Begin \/ Configure \/ Execute \/ Execute6 \/ HandleTimeout \/ Return
  BY <1>2 DEF Begin, Configure, Execute, Execute6, HandleTimeout, Return, setupVars, chainVars, Late
<1>3. CASE Work
  <2>1. CASE InitFilters \/ Init6Filters \/ Crash
    BY <2>1 DEF InitFilters, Init6Filters, Initialise, Crash, SetsNullsQH, chainVars, Late
  <2>2. ASSUME NEW p \in Packets, Handle(p)
        PROVE  UNCHANGED chainVars /\ (pc' = pc \/ (pc \in Late /\ pc' \in Late))
    <3>1. UNCHANGED chainVars /\ Moving(p) /\ (pc' = pc \/ pc' = "crashed")
      BY <2>2, HandleKeeps
    <3>2. pc \in Late
      BY <3>1 DEF Outside, Moving, Late
    <3> QED
      BY <3>1, <3>2 DEF Late
  <2>3. CASE \E p \in Packets, i \in Objects :
               Release(i, p) \/ OutputPopHandler(i, p) \/ Output6PopHandler(i, p)
    BY <2>3, OthersKeep DEF chainVars
  <2> QED
    BY <1>3, <2>1, <2>2, <2>3 DEF Work, chainVars
<1>4. CASE \E p \in Packets : NewPacket(p) \/ NewPacket6(p)
  BY <1>4, OthersKeep DEF chainVars
<1> QED
  BY <1>1, <1>2, <1>3, <1>4 DEF Next

\* Before init() there is nothing, and all of the list is to come.
LEMMA BuiltInit == Init => Built
<1> SUFFICES ASSUME Init PROVE Built
  OBVIOUS
<1>1. Chained(NoChain) /\ NoNat(NoChain) /\ NoChain.filters = <<>>
  BY DEF Chained, NoChain, NoNat
<1>2. option \in Options /\ pc = "main" /\ toAdd = FilterList(option)
      /\ chain4 = NoChain /\ chain6 = NoChain
  BY DEF Init
<1>3. FilterList(option) \in Seq(Names) /\ (option.filters # <<>> => FilterList(option) # <<>>)
  <2>1. CASE option.filters = <<>>
    BY <2>1 DEF FilterList
  <2>2. CASE option.filters # <<>>
    <3>1. FilterList(option) \in Seq(Names) /\ Len(FilterList(option)) >= 3
      BY <1>2, <2>2, ListEnds
    <3> QED
      BY <3>1
  <2> QED
    BY <2>1, <2>2
<1>4. Listed(NoChain, FilterList(option), FilterList(option))
  BY <1>1, <1>3 DEF Listed
<1> QED
  BY <1>1, <1>2, <1>3, <1>4 DEF Built, Building, Early, Late

\* Each filter that init() makes is linked to the one before, and when it is done
\* the chain is complete.
LEMMA BuiltNext == Built /\ Outside /\ [Next]_vars => Built'
<1> SUFFICES ASSUME Built, Outside, [Next]_vars PROVE Built'
  OBVIOUS
<1>1. CASE InitAll
  <2>1. /\ chain4' = Linked(DefaultList) /\ chain6' = Linked(Default6List) /\ pc' = "configure"
        /\ option' = option /\ option \in Options
    BY <1>1 DEF InitAll, Built
  <2>2. NoNat(Linked(Default6List))
    BY LinkedComplete DEF NoNat, Linked
  <2> QED
    BY <2>1, <2>2, LinkedComplete DEF Built, Building, Early, Late
<1>2. CASE AddFilter
  <2> DEFINE list == FilterList(option)
             f == Head(toAdd)
  <2>1. /\ pc = "init" /\ toAdd # <<>> /\ toAdd' = Tail(toAdd) /\ option' = option
        /\ chain4' = IF f \in Known THEN Add(chain4, f) ELSE chain4
        /\ chain6' = IF f \in Known \ {"Nat"} THEN Add(chain6, f) ELSE chain6
        /\ pc' = IF toAdd' = <<>> THEN "configure" ELSE "init"
    BY <1>2 DEF AddFilter
  <2>2. /\ option \in Options /\ Chained(chain4) /\ Chained(chain6)
        /\ Listed(chain4, toAdd, list) /\ Listed(chain6, toAdd, list)
    BY <2>1 DEF Built, Building, Early
  <2>3. option.filters # <<>>
    <3>1. ASSUME option.filters = <<>> PROVE FALSE
      <4>1. list = <<>> /\ Len(list) = 0
        BY <3>1 DEF FilterList
      <4>2. toAdd \in Seq(Names) /\ Len(list) - Len(toAdd) \in Nat
        BY <2>2 DEF Listed
      <4> QED
        BY <2>1, <4>1, <4>2
    <3> QED
      BY <3>1
  <2>4. /\ Chained(chain4')
        /\ IF Tail(toAdd) = <<>> THEN Complete(chain4') ELSE Listed(chain4', Tail(toAdd), list)
    BY <2>1, <2>2, <2>3, AddListed
  <2>5. /\ Chained(chain6')
        /\ IF Tail(toAdd) = <<>> THEN Complete(chain6') ELSE Listed(chain6', Tail(toAdd), list)
    BY <2>1, <2>2, <2>3, AddListed
  <2>6. NoNat(chain6')
    <3>1. CASE f \in Known \ {"Nat"}
      <4>1. chain6'.filters = Append(chain6.filters, f)
        BY <2>1, <2>2, <3>1, AddChained
      <4>2. chain6.filters \in Seq(Known) /\ \A i \in 1..Len(chain6.filters) : chain6.filters[i] # "Nat"
        BY <2>2 DEF Chained, Built, NoNat
      <4> QED
        BY <3>1, <4>1, <4>2 DEF NoNat
    <3>2. CASE f \notin Known \ {"Nat"}
      BY <2>1, <3>2 DEF Built
    <3> QED
      BY <3>1, <3>2
  <2> QED
    BY <2>1, <2>2, <2>4, <2>5, <2>6 DEF Built, Building, Early, Late
<1>3. CASE ~InitAll /\ ~AddFilter
  BY <1>3, ChainsKept DEF Built, Building, Early, Late
<1> QED
  BY <1>1, <1>2, <1>3

-----------------------------------------------------------------------------
(* What the chains are made of.                                               *)

\* Each of the first k that are listed, if it is in S, is where the number of those
\* before it says, behind the input.
MadeOf(c, s, S, k) == \A i \in 1..k : s[i] \in S => c.filters[1 + Count(s, S, i)] = s[i]

Making(c, S) ==
  LET s == option.filters
      done == Len(s) + 2 - Len(toAdd)
  IN  s # <<>> =>
        /\ pc \in Early /\ done > 0 =>
             /\ Len(c.filters) = 1 + Count(s, S, done - 1) /\ MadeOf(c, s, S, done - 1)
        /\ pc \in Late => Len(c.filters) = 2 + Count(s, S, Len(s)) /\ MadeOf(c, s, S, Len(s))

Made == Making(chain4, Shapers) /\ Making(chain6, Shapers \ {"Nat"})

\* The list that main() makes, between its ends.
LEMMA ListMiddle ==
  ASSUME NEW o \in Options, o.filters # <<>>,
         NEW list, list = FilterList(o), NEW s, s = o.filters
  PROVE  /\ Len(s) \in Nat /\ Len(list) = Len(s) + 2
         /\ \A i \in 1..Len(s) : list[i + 1] = s[i] /\ s[i] \notin Known \ Shapers
<1>1. s \in Seq(Names) /\ Len(s) \in Nat /\ \A i \in 1..Len(s) : s[i] \notin Known \ Shapers
  <2>1. s \in Seq(STRING) /\ \A i \in 1..Len(s) : s[i] \notin Known \ Shapers
    BY ConstantsAssumption
  <2> QED
    BY <2>1, SeqMonotonic DEF Names
<1>2. PICK a \in Names, b \in Names : list = <<a>> \o s \o <<b>>
  BY DEF FilterList, Names, Known
<1>3. /\ Len(list) = Len(s) + 2
      /\ \A i \in 2..Len(list) - 1 : list[i] = s[i - 1]
  BY <1>1, <1>2, Enclosed
<1>4. ASSUME NEW i \in 1..Len(s) PROVE i + 1 \in 2..Len(list) - 1 /\ (i + 1) - 1 = i
  BY <1>1, <1>3
<1> QED
  BY <1>1, <1>3, <1>4

\* A filter that is added is behind all there are, which stay where they are.
LEMMA AddMade ==
  ASSUME NEW c, Chained(c), NEW s, NEW S, NEW k \in Nat, NEW f \in Known,
         Len(c.filters) = 1 + Count(s, S, k), MadeOf(c, s, S, k)
  PROVE  /\ Len(Add(c, f).filters) = 2 + Count(s, S, k) /\ MadeOf(Add(c, f), s, S, k)
         /\ Add(c, f).filters[2 + Count(s, S, k)] = f
<1> DEFINE d == Add(c, f)
           l == Len(c.filters)
<1>1. d.filters = Append(c.filters, f) /\ c.filters \in Seq(Known)
  BY AddChained DEF Chained
<1>2. Count(s, S, k) \in Nat /\ \A i \in 1..k : Count(s, S, i) \in Nat /\ Count(s, S, i) <= Count(s, S, k)
  <2>1. \A i \in 1..k : i \in 0..k
    OBVIOUS
  <2> QED
    BY <2>1, Counting
<1> HIDE DEF d
<1>3. /\ Len(d.filters) = l + 1 /\ d.filters[l + 1] = f /\ l \in Nat
      /\ \A i \in 1..l : d.filters[i] = c.filters[i]
  BY <1>1
<1>4. l + 1 = 2 + Count(s, S, k)
  BY <1>2, <1>3
<1>5. ASSUME NEW i \in 1..k, s[i] \in S PROVE d.filters[1 + Count(s, S, i)] = s[i]
  <2>1. 1 + Count(s, S, i) \in 1..l
    BY <1>2, <1>3
  <2>2. c.filters[1 + Count(s, S, i)] = s[i]
    BY <1>5 DEF MadeOf
  <2> HIDE DEF l
  <2> QED
    BY <1>3, <2>1, <2>2
<1>6. MadeOf(d, s, S, k)
  BY <1>5 DEF MadeOf
<1> HIDE DEF l
<1>7. /\ Len(d.filters) = 2 + Count(s, S, k) /\ d.filters[2 + Count(s, S, k)] = f
  BY <1>3, <1>4
<1> QED
  BY <1>6, <1>7 DEF d

\* A turn of init()'s loop that makes d of c, when "done" were there before it.
Turn(s, n, list, c, rest, done, S, K, d) ==
  /\ n \in Nat /\ Len(list) = n + 2
  /\ \A i \in 1..n : list[i + 1] = s[i] /\ s[i] \notin Known \ Shapers
  /\ list[1] \in {"Input", "InputDrop"} /\ list[n + 2] \in {"Output", "OutputLibnet"}
  /\ Chained(c) /\ rest # <<>> /\ Listed(c, rest, list) /\ done = n + 2 - Len(rest)
  /\ \/ S = Shapers /\ K = Known
     \/ S = Shapers \ {"Nat"} /\ K = Known \ {"Nat"}
  /\ d = IF Head(rest) \in K THEN Add(c, Head(rest)) ELSE c
  /\ done > 0 => Len(c.filters) = 1 + Count(s, S, done - 1) /\ MadeOf(c, s, S, done - 1)

\* Such a turn puts the filter of the list where it belongs, or skips it.
LEMMA AddMaking ==
  ASSUME NEW s, NEW n, NEW list, NEW c, NEW rest, NEW done, NEW S, NEW K, NEW d,
         Turn(s, n, list, c, rest, done, S, K, d)
  PROVE  /\ done \in Nat /\ n + 2 - Len(Tail(rest)) = done + 1
         /\ Tail(rest) = <<>> <=> done = n + 1
         /\ done <= n => Len(d.filters) = 1 + Count(s, S, done) /\ MadeOf(d, s, S, done)
         /\ done = n + 1 => Len(d.filters) = 2 + Count(s, S, n) /\ MadeOf(d, s, S, n)
<1> DEFINE f == Head(rest)
           Goal == /\ done <= n => Len(d.filters) = 1 + Count(s, S, done) /\ MadeOf(d, s, S, done)
                   /\ done = n + 1 => Len(d.filters) = 2 + Count(s, S, n) /\ MadeOf(d, s, S, n)
<1>1. /\ n \in Nat /\ Len(list) = n + 2
      /\ \A i \in 1..n : list[i + 1] = s[i] /\ s[i] \notin Known \ Shapers
  BY DEF Turn
<1>2. /\ list[1] \in {"Input", "InputDrop"} /\ list[n + 2] \in {"Output", "OutputLibnet"}
      /\ \/ S = Shapers /\ K = Known
         \/ S = Shapers \ {"Nat"} /\ K = Known \ {"Nat"}
      /\ Chained(c)
  BY DEF Turn
<1>3. /\ rest \in Seq(Names) /\ rest # <<>> /\ done \in Nat /\ done = n + 2 - Len(rest)
      /\ \A i \in 1..Len(rest) : rest[i] = list[done + i]
      /\ done = 0 => c.filters = <<>>
  BY DEF Turn, Listed
<1>4. /\ Len(rest) \in Nat /\ Len(rest) >= 1 /\ f = rest[1]
      /\ Len(Tail(rest)) = Len(rest) - 1 /\ (Tail(rest) = <<>> <=> Len(rest) = 1)
  BY <1>3, Shorter
<1> HIDE DEF f
<1>5. /\ n + 2 - Len(Tail(rest)) = done + 1
      /\ Tail(rest) = <<>> <=> done = n + 1
  <2> DEFINE a == Len(rest)
             b == Len(Tail(rest))
  <2>1. a \in Nat /\ b = a - 1 /\ done = n + 2 - a /\ n \in Nat
    BY <1>1, <1>3, <1>4
  <2> HIDE DEF a, b
  <2>2. n + 2 - b = done + 1 /\ (a = 1 <=> done = n + 1)
    BY <2>1
  <2> QED
    BY <1>4, <2>2 DEF a, b
<1>6. f = list[done + 1]
  BY <1>3, <1>4
<1>7. d = IF f \in K THEN Add(c, f) ELSE c
  BY DEF Turn, f
<1>8. ASSUME done = 0 PROVE Goal
  <2>1. f \in Known /\ f \in K
    BY <1>2, <1>6, <1>8 DEF Known
  <2>2. d.filters = Append(<<>>, f)
    BY <1>2, <1>3, <1>7, <1>8, <2>1, AddChained
  <2>3. Len(d.filters) = 1
    <3>1. <<>> \in Seq(Known) /\ Len(<<>>) = 0
      OBVIOUS
    <3> QED
      BY <2>1, <2>2, <3>1
  <2>4. Count(s, S, 0) = 0
    BY Counting
  <2>5. MadeOf(d, s, S, 0)
    BY DEF MadeOf
  <2> QED
    BY <1>1, <1>8, <2>3, <2>4, <2>5
<1>9. ASSUME done \in 1..n PROVE Goal
  <2>0. done - 1 \in Nat /\ (done - 1) + 1 = done /\ done > 0 /\ ~(done = n + 1)
    BY <1>1, <1>3, <1>9
  <2>1. f = s[done] /\ f \notin Known \ Shapers
    BY <1>1, <1>6, <1>9
  <2>2. /\ Count(s, S, done - 1) \in Nat
        /\ Count(s, S, done) = IF f \in S THEN Count(s, S, done - 1) + 1 ELSE Count(s, S, done - 1)
    <3> DEFINE k == done - 1
    <3>1. k \in Nat /\ k + 1 = done
      BY <2>0
    <3> HIDE DEF k
    <3>2. /\ Count(s, S, k) \in Nat
          /\ Count(s, S, k + 1) = IF s[k + 1] \in S THEN Count(s, S, k) + 1 ELSE Count(s, S, k)
      BY <3>1, Counting
    <3> QED
      BY <2>1, <3>1, <3>2 DEF k
  <2>3. Len(c.filters) = 1 + Count(s, S, done - 1) /\ MadeOf(c, s, S, done - 1)
    BY <2>0 DEF Turn
  <2>4. \A i \in 1..done : i \in 1..done - 1 \/ i = done
    BY <1>3
  <2>5. CASE f \in S
    <3>1. f \in Known /\ f \in K
      BY <1>2, <2>5 DEF Known
    <3>2. /\ Len(d.filters) = 2 + Count(s, S, done - 1) /\ MadeOf(d, s, S, done - 1)
          /\ d.filters[2 + Count(s, S, done - 1)] = f
      BY <1>2, <1>7, <2>0, <2>3, <3>1, AddMade
    <3>3. 2 + Count(s, S, done - 1) = 1 + Count(s, S, done)
      BY <2>2, <2>5
    <3>4. MadeOf(d, s, S, done)
      BY <2>1, <2>4, <3>2, <3>3 DEF MadeOf
    <3> QED
      BY <2>0, <3>2, <3>3, <3>4
  <2>6. CASE f \notin S
    <3>1. f \notin K
      BY <1>2, <2>1, <2>6 DEF Known
    <3>2. MadeOf(c, s, S, done)
      BY <2>1, <2>3, <2>4, <2>6 DEF MadeOf
    <3> QED
      BY <1>7, <2>0, <2>2, <2>3, <2>6, <3>1, <3>2
  <2> QED
    BY <2>5, <2>6
<1>10. ASSUME done = n + 1 PROVE Goal
  <2>1. f \in Known /\ f \in K /\ done - 1 = n
    BY <1>1, <1>2, <1>6, <1>10 DEF Known
  <2>2. Len(c.filters) = 1 + Count(s, S, n) /\ MadeOf(c, s, S, n)
    BY <1>1, <1>10, <2>1 DEF Turn
  <2>3. Len(d.filters) = 2 + Count(s, S, n) /\ MadeOf(d, s, S, n)
    BY <1>1, <1>2, <1>7, <2>1, <2>2, AddMade
  <2> QED
    BY <1>1, <1>10, <2>3
<1> QED
  <2>1. done = 0 \/ done \in 1..n \/ done = n + 1
    BY <1>1, <1>3
  <2> HIDE DEF Goal
  <2>2. Goal
    BY <1>8, <1>9, <1>10, <2>1
  <2> QED
    BY <1>3, <1>5, <2>2 DEF Goal

\* Nothing is listed yet.
LEMMA MadeInit == Init => Made
<1> SUFFICES ASSUME Init, option.filters # <<>> PROVE Made
  BY DEF Made, Making
<1>1. Len(option.filters) \in Nat /\ Len(toAdd) = Len(option.filters) + 2 /\ pc = "main"
  BY ListMiddle DEF Init
<1> QED
  BY <1>1 DEF Made, Making, Early, Late

\* The chains are made of the list, as far as init() has come.
LEMMA MadeNext ==
  ASSUME Built, Outside, Made, [Next]_vars
  PROVE  Made'
<1>1. CASE InitAll
  BY <1>1 DEF InitAll, Made, Making
<1>2. CASE AddFilter
  <2> DEFINE s == option.filters
             f == Head(toAdd)
             done == Len(s) + 2 - Len(toAdd)
  <2>1. /\ pc = "init" /\ toAdd # <<>> /\ toAdd' = Tail(toAdd) /\ option' = option
        /\ chain4' = IF f \in Known THEN Add(chain4, f) ELSE chain4
        /\ chain6' = IF f \in Known \ {"Nat"} THEN Add(chain6, f) ELSE chain6
        /\ pc' = IF Tail(toAdd) = <<>> THEN "configure" ELSE "init"
    BY <1>2 DEF AddFilter
  <2>2. /\ option \in Options /\ Chained(chain4) /\ Chained(chain6)
        /\ Listed(chain4, toAdd, FilterList(option)) /\ Listed(chain6, toAdd, FilterList(option))
    BY <2>1 DEF Built, Building, Early
  <2>3. ASSUME s # <<>>, NEW c, NEW d, NEW S, NEW K,
               \/ c = chain4 /\ d = chain4' /\ S = Shapers /\ K = Known
               \/ c = chain6 /\ d = chain6' /\ S = Shapers \ {"Nat"} /\ K = Known \ {"Nat"}
        PROVE  /\ done \in Nat /\ Len(s) \in Nat /\ Len(s) + 2 - Len(Tail(toAdd)) = done + 1
               /\ Tail(toAdd) = <<>> <=> done = Len(s) + 1
               /\ done <= Len(s) => Len(d.filters) = 1 + Count(s, S, done) /\ MadeOf(d, s, S, done)
               /\ done = Len(s) + 1 =>
                    Len(d.filters) = 2 + Count(s, S, Len(s)) /\ MadeOf(d, s, S, Len(s))
    <3>1. done > 0 => Len(c.filters) = 1 + Count(s, S, done - 1) /\ MadeOf(c, s, S, done - 1)
      BY <2>1, <2>3 DEF Made, Making, Early
    <3>2. Len(s) \in Nat
      BY <2>2, <2>3, ListMiddle
    <3>3. d = IF f \in K THEN Add(c, f) ELSE c
      BY <2>1, <2>3
    <3> DEFINE l == FilterList(option)
    <3>4. Chained(c) /\ Listed(c, toAdd, l) /\ toAdd # <<>>
      BY <2>1, <2>2, <2>3
    <3>5. \/ S = Shapers /\ K = Known
          \/ S = Shapers \ {"Nat"} /\ K = Known \ {"Nat"}
      BY <2>3
    <3>6. /\ Len(l) = Len(s) + 2
          /\ \A i \in 1..Len(s) : l[i + 1] = s[i] /\ s[i] \notin Known \ Shapers
      BY <2>2, <2>3, ListMiddle
    <3>7. l[1] \in {"Input", "InputDrop"} /\ l[Len(s) + 2] \in {"Output", "OutputLibnet"}
      BY <2>2, <2>3, <3>6, ListEnds
    <3> HIDE DEF l
    <3>8. Turn(s, Len(s), l, c, toAdd, done, S, K, d)
      BY <3>1, <3>2, <3>3, <3>4, <3>5, <3>6, <3>7 DEF Turn
    <3> DEFINE n == Len(s)
               e == done
               r == toAdd
    <3> HIDE DEF done, s, f
    <3>9. Turn(s, n, l, c, r, e, S, K, d) /\ n \in Nat
      BY <3>2, <3>8
    <3> HIDE DEF n, e, r
    <3>10. /\ e \in Nat /\ n + 2 - Len(Tail(r)) = e + 1
           /\ Tail(r) = <<>> <=> e = n + 1
           /\ e <= n => Len(d.filters) = 1 + Count(s, S, e) /\ MadeOf(d, s, S, e)
           /\ e = n + 1 => Len(d.filters) = 2 + Count(s, S, n) /\ MadeOf(d, s, S, n)
      BY <3>9, AddMaking
    <3> QED
      BY <3>9, <3>10 DEF n, e, r
  <2>4. ASSUME s # <<>>, NEW d, NEW S,
               \/ d = chain4' /\ S = Shapers
               \/ d = chain6' /\ S = Shapers \ {"Nat"}
        PROVE  /\ pc' \in Early => /\ Len(d.filters) = 1 + Count(s, S, (Len(s) + 2 - Len(toAdd')) - 1)
                                   /\ MadeOf(d, s, S, (Len(s) + 2 - Len(toAdd')) - 1)
               /\ pc' \in Late => Len(d.filters) = 2 + Count(s, S, Len(s)) /\ MadeOf(d, s, S, Len(s))
    <3>1. /\ done \in Nat /\ Len(s) \in Nat /\ Len(s) + 2 - Len(Tail(toAdd)) = done + 1
          /\ Tail(toAdd) = <<>> <=> done = Len(s) + 1
          /\ done <= Len(s) => Len(d.filters) = 1 + Count(s, S, done) /\ MadeOf(d, s, S, done)
          /\ done = Len(s) + 1 =>
               Len(d.filters) = 2 + Count(s, S, Len(s)) /\ MadeOf(d, s, S, Len(s))
      BY <2>3, <2>4
    <3>2. Len(toAdd) >= 1 /\ Len(toAdd) \in Nat
      BY <2>1, <2>2 DEF Listed
    <3>3. done <= Len(s) \/ done = Len(s) + 1
      BY <3>1, <3>2
    <3> HIDE DEF done
    <3>4. (done + 1) - 1 = done
      BY <3>1
    <3> QED
      BY <2>1, <3>1, <3>3, <3>4 DEF Early, Late
  <2> QED
    BY <2>1, <2>4 DEF Made, Making
<1>3. CASE ~InitAll /\ ~AddFilter
  BY <1>3, ChainsKept DEF Made, Making, Early, Late
<1> QED
  BY <1>1, <1>2, <1>3

-----------------------------------------------------------------------------
(* Starting. *)

\* The chain that is executed.
LEMMA ChainFacts ==
  ASSUME Built
  PROVE  /\ Chained(chain) /\ Len(chain.filters) \in Nat /\ Objects = 1..Len(chain.filters)
         /\ 0 \notin Objects
         /\ \A f \in Known : /\ Member(chain, f) \in Objects \cup {0}
                             /\ Member(chain, f) # 0 => Name(Member(chain, f)) = f
         /\ \A i \in Objects : Name(i) \in Known
         /\ option.ipv6 => Member(chain, "Nat") = 0
         /\ pc \in Late => Complete(chain)
<1>1. /\ Chained(chain) /\ (pc \in Late => Complete(chain))
      /\ option.ipv6 => chain = chain6
  BY DEF Built, Building, chain
<1>2. /\ chain.filters \in Seq(Known)
      /\ \A f \in Known : \/ Member(chain, f) = 0
                          \/ /\ Member(chain, f) \in 1..Len(chain.filters)
                             /\ chain.filters[Member(chain, f)] = f
  BY <1>1 DEF Chained, Member
<1>3. Len(chain.filters) \in Nat /\ Objects = 1..Len(chain.filters) /\ 0 \notin Objects
  BY <1>2 DEF Objects
<1>4. option.ipv6 => Member(chain, "Nat") = 0
  BY <1>1, <1>2 DEF Built, NoNat, Known, Shapers
<1> QED
  BY <1>1, <1>2, <1>3, <1>4 DEF Name

\* What Settings and the orders of initFilters() and init6Filters() have in them.
LEMMA Tables ==
  /\ Len(Settings) = 18 /\ DOMAIN Settings = 1..18
  /\ \A k \in 1..18 : Settings[k][2] \in Known
  /\ Len(InitOrder) = 11 /\ Len(Init6Order) = 10
  /\ \A k \in 1..11 : InitOrder[k] \in Known
  /\ \A k \in 1..10 : Init6Order[k] \in Known
  /\ \A f \in Known : \E k \in 1..11 : InitOrder[k] = f
  /\ \A f \in Known : f = "Nat" \/ \E k \in 1..10 : Init6Order[k] = f
<1>1. Len(Settings) = 18 /\ DOMAIN Settings = 1..18
  BY DEF Settings
<1>2. \A k \in 1..18 : Settings[k][2] \in Known
  BY DEF Settings, Known, Shapers
<1>3. Len(InitOrder) = 11 /\ Len(Init6Order) = 10
  BY DEF InitOrder, Init6Order
<1>4. \A k \in 1..11 : InitOrder[k] \in Known
  BY DEF InitOrder, Known, Shapers
<1>5. \A k \in 1..10 : Init6Order[k] \in Known
  BY DEF Init6Order, Known, Shapers
<1>6. \A f \in Known : \E k \in 1..11 : InitOrder[k] = f
  BY DEF InitOrder, Known, Shapers
<1>7. \A f \in Known : f = "Nat" \/ \E k \in 1..10 : Init6Order[k] = f
  BY DEF Init6Order, Known, Shapers
<1> QED
  BY <1>1, <1>2, <1>3, <1>4, <1>5, <1>6, <1>7

\* Either order has a place for every filter that the chain may have.
LEMMA OrderFacts ==
  ASSUME NEW order, order = InitOrder \/ order = Init6Order, NEW n, n = Len(order)
  PROVE  n \in Nat /\ n >= 1 /\ n < 18 /\ \A k \in 1..n : order[k] \in Known
<1>1. CASE order = InitOrder
  <2>1. n = 11 /\ \A k \in 1..11 : order[k] \in Known
    BY <1>1, Tables
  <2> QED
    BY <2>1
<1>2. CASE order = Init6Order
  <2>1. n = 10 /\ \A k \in 1..10 : order[k] \in Known
    BY <1>2, Tables
  <2> QED
    BY <2>1
<1> QED
  BY <1>1, <1>2

\* No filter is started.
LEMMA StartedInit == Init => Started /\ Outside /\ PassedOn
<1> SUFFICES ASSUME Init PROVE Started /\ Outside /\ PassedOn
  OBVIOUS
<1>1. /\ pc = "main" /\ step = 1 /\ initialised = {} /\ lossIndex = 0
      /\ \A p \in Packets : place[p] = "outside"
  BY DEF Init
<1>2. \A i : Len(losses_(i)) \in Nat
  BY ConstantsAssumption DEF losses_
<1> QED
  BY <1>1, <1>2, Tables DEF Started, Outside, PassedOn

\* Before the filters are started: initialised is empty.
LEMMA EarlyStarted ==
  ASSUME Built, Built', Started, Begin \/ InitAll \/ AddFilter \/ Configure \/ Execute \/ Execute6
  PROVE  Started'
<1>1. /\ initialised = {} /\ initialised' = {} /\ lossIndex = 0 /\ lossIndex' = 0
      /\ step \in 1..18
  BY Tables DEF Begin, InitAll, AddFilter, Configure, Execute, Execute6, Started
<1>2. \A i : Len(losses_(i)') \in Nat
  BY ConstantsAssumption DEF losses_
<1>3. /\ step' \in 1..18
      /\ pc' \in {"init", "execute", "initFilters"} => step' = 1
      /\ pc' \in {"init", "configure", "execute", "initFilters", "exited", "returned"}
  <2>1. CASE Begin \/ InitAll \/ AddFilter \/ Execute \/ Execute6
    BY <1>1, <2>1 DEF Begin, InitAll, AddFilter, Execute, Execute6, Started
  <2>2. CASE Configure
    BY <1>1, <2>2, Tables DEF Configure
  <2> QED
    BY <2>1, <2>2
<1>4. 1 <= Len(Order')
  <2>1. Order' = InitOrder \/ Order' = Init6Order
    BY DEF Order
  <2>2. Len(Order') \in Nat /\ Len(Order') >= 1
    BY <2>1, OrderFacts
  <2> QED
    BY <2>2
<1>5. pc' = "initFilters" => step' <= Len(Order') /\ \A k \in 1..step' - 1 : FALSE
  BY <1>3, <1>4
<1>6. lossIndex' \in 0..Len(losses_(Member(chain, "DynamicLoss"))')
  BY <1>1, <1>2
<1> QED
  BY <1>1, <1>3, <1>5, <1>6, Tables DEF Started

\* initFilters() and init6Filters().
LEMMA InitialiseStarted ==
  ASSUME Built, Started, UNCHANGED chainVars, NEW order, order = Order, Initialise(order)
  PROVE  Started'
<1> DEFINE f == order[step]
           m == Member(chain, f)
           n == Len(order)
<1>1. /\ pc = "initFilters" /\ step <= n
      /\ initialised' = initialised \cup ({m} \ {0})
      /\ lossIndex' = (IF m # 0 /\ f = "DynamicLoss" THEN 1 ELSE lossIndex)
      /\ step' = step + 1 /\ pc' = IF step = n THEN "loop" ELSE "initFilters"
  BY DEF Initialise
<1>2. /\ option' = option /\ chain' = chain /\ Objects' = Objects /\ Order' = Order
      /\ \A i : Name(i)' = Name(i) /\ losses_(i)' = losses_(i)
      /\ \A g : Member(chain, g)' = Member(chain, g)
  BY DEF chainVars, chain, Objects, Order, Name, losses_, HasBeenSet, Member
<1>3. /\ step \in 1..n /\ f \in Known
      /\ step \in Nat /\ n \in Nat /\ n < 18
  <2>1. n \in Nat /\ n < 18 /\ \A k \in 1..n : order[k] \in Known
    <3>1. order = InitOrder \/ order = Init6Order
      BY DEF Order
    <3> QED
      BY <3>1, OrderFacts
  <2>2. step \in 1..18
    BY Tables DEF Started
  <2> QED
    BY <1>1, <2>1, <2>2
<1>4. m \in Objects \cup {0} /\ (m # 0 => Name(m) = f)
  BY <1>3, ChainFacts
<1>5. \A i : Len(losses_(i)) \in Nat /\ Len(losses_(i)) >= 1
  BY ConstantsAssumption DEF losses_
<1> HIDE DEF m, n
<1>6. step' \in 1..Len(Settings) /\ (pc' = "initFilters" => step' <= Len(Order'))
  BY <1>1, <1>2, <1>3, Tables, SMTT(30) DEF n
<1>7. initialised' \subseteq Objects' /\ \A i \in initialised' : i = Member(chain, Name(i))'
  <2>1. initialised \subseteq Objects /\ \A i \in initialised : i = Member(chain, Name(i))
    BY DEF Started
  <2>2. m # 0 => m = Member(chain, Name(m))
    BY <1>4 DEF m
  <2> QED
    BY <1>1, <1>2, <1>4, <2>1, <2>2
<1>8. \A k \in 1..step : Member(chain, order[k]) \in initialised' \cup {0}
  <2>1. \A k \in 1..step - 1 : Member(chain, order[k]) \in initialised \cup {0}
    BY <1>1 DEF Started
  <2>2. \A k \in 1..step : k \in 1..step - 1 \/ k = step
    BY <1>3
  <2> QED
    BY <1>1, <2>1, <2>2 DEF m
<1>9. pc' = "initFilters" => \A k \in 1..step' - 1 : Member(chain, Order[k])' \in initialised' \cup {0}
  <2>1. step' - 1 = step
    BY <1>1, <1>3
  <2> QED
    BY <1>2, <1>8, <2>1
<1>10. pc' = "loop" => \A g \in Known : Member(chain, g)' \in initialised' \cup {0}
  <2> SUFFICES ASSUME pc' = "loop", NEW g \in Known PROVE Member(chain, g) \in initialised' \cup {0}
    BY <1>2
  <2>1. step = n
    BY <1>1
  <2>2. \/ \E k \in 1..n : order[k] = g
        \/ Member(chain, g) = 0
    BY Tables, ChainFacts DEF Order, n
  <2> QED
    BY <1>8, <2>1, <2>2
<1>11. lossIndex' \in 0..Len(losses_(Member(chain, "DynamicLoss"))')
  BY <1>1, <1>2, <1>5 DEF Started
<1> QED
  BY <1>1, <1>6, <1>7, <1>9, <1>10, <1>11 DEF Started

\* The steps after which the filters are as they were.
LEMMA LaterStarted ==
  ASSUME Started, UNCHANGED <<chainVars, step, initialised>>,
         pc' = pc \/ pc' \in {"returned", "crashed"},
         \/ UNCHANGED lossIndex
         \/ lossIndex # 0 /\ lossIndex' = IF lossIndex = Len(losses_(Member(chain, "DynamicLoss")))
                                          THEN 1 ELSE lossIndex + 1
  PROVE  Started'
<1>1. /\ option' = option /\ chain' = chain /\ Objects' = Objects /\ Order' = Order
      /\ \A i : Name(i)' = Name(i) /\ losses_(i)' = losses_(i)
      /\ \A g : Member(chain, g)' = Member(chain, g)
  BY DEF chainVars, chain, Objects, Order, Name, losses_, HasBeenSet, Member
<1>2. \A i : Len(losses_(i)) \in Nat /\ Len(losses_(i)) >= 1
  BY ConstantsAssumption DEF losses_
<1>3. lossIndex' \in 0..Len(losses_(Member(chain, "DynamicLoss"))')
  BY <1>1, <1>2 DEF Started
<1>4. pc \in {"main", "init", "configure", "execute", "exited"} => lossIndex' = 0
  BY DEF Started
<1> QED
  BY <1>1, <1>3, <1>4 DEF Started

-----------------------------------------------------------------------------
(* What the steps do to the packets, once the chain is known to be complete.  *)

\* Packet p is now at filter i, brought by a thread of the filter "origin".
Comes(p, i, origin) ==
  /\ i \in Objects
  /\ place' = [place EXCEPT ![p] = "moving"]
  /\ at' = [at EXCEPT ![p] = i]
  /\ by' = [by EXCEPT ![p] = origin]
  /\ trail' = [trail EXCEPT ![p] = Append(@, Name(i))]

Read(p) == IF option.ipv6 THEN ReadIpv6(Datagram6[p]) ELSE ReadIpv4(Datagram[p])
Build(p) == IF option.ipv6 THEN BuildIpv6(pkt[p]) ELSE BuildIpv4(pkt[p])

Enters(p) ==
  /\ place[p] = "outside" /\ \A q \in Packets : place[q] = "outside" => p <= q
  /\ \A q \in Packets : Moving(q) => by[q] # 0
  /\ pkt' = [pkt EXCEPT ![p] = Read(p)]
  /\ Comes(p, 1, 0)
  /\ UNCHANGED <<kept, stopped, told, out>>

Forwards(p) ==
  /\ Moving(p) /\ Name(at[p]) \notin Keepers
  /\ Comes(p, at[p] + 1, by[p])
  /\ IF Name(at[p]) = "Nat" THEN Translate(p) ELSE pkt' = pkt
  /\ IF Name(at[p]) = "InputDrop" THEN SetVerdict(p, "drop") ELSE told' = told
  /\ UNCHANGED <<kept, stopped, out>>

Keeps(p) ==
  /\ Moving(p) /\ Name(at[p]) \in Keepers \cup {"Burst"}
  /\ kept' = Append(kept, p)
  /\ place' = [place EXCEPT ![p] = "held"]
  /\ UNCHANGED <<pkt, at, by, stopped, told, trail, out>>

Finishes(p, how) ==
  /\ Moving(p)
  /\ place' = [place EXCEPT ![p] = how]
  /\ UNCHANGED <<pkt, at, by, kept, stopped, trail>>
  /\ \/ /\ how = "dropped" /\ SetVerdict(p, "drop") /\ out' = out
     \/ /\ how = "forgotten" /\ Name(at[p]) \in Forgetters /\ told' = told /\ out' = out
     \/ /\ how = "accepted" /\ Name(at[p]) = "Output" /\ SetVerdict(p, "accept")
        /\ out' = Append(out, [packet |-> p, sent |-> pkt[p].packetData_])

\* Packet p is the k-th that is kept, and may leave filter i.
Leaves(p, i, k) ==
  /\ i \in Objects /\ i \in initialised
  /\ k \in 1..Len(kept) /\ kept[k] = p /\ at[p] = i
  /\ \A j \in 1..k - 1 : at[kept[j]] = i => ~Same(kept[j], p)
  /\ kept' = [j \in 1..Len(kept) - 1 |-> IF j < k THEN kept[j] ELSE kept[j + 1]]

Releases(p, i, k) ==
  /\ Leaves(p, i, k)
  /\ Name(i) \in {"StaticDelay", "DynamicDelay", "Burst", "TokenBucketFilter"}
  /\ ~Passing(i, p)
  /\ Comes(p, i + 1, i)
  /\ UNCHANGED <<pkt, stopped, told, out>>

Pops(p, i, k) ==
  /\ Leaves(p, i, k)
  /\ Name(i) = "OutputLibnet"
  /\ \/ /\ place' = [place EXCEPT ![p] = "written"]
        /\ out' = Append(out, [packet |-> p, sent |-> Build(p)])
        /\ UNCHANGED stopped
     \/ /\ place' = [place EXCEPT ![p] = "lost"]
        /\ stopped' = stopped \cup {i}
        /\ UNCHANGED out
  /\ UNCHANGED <<pkt, at, by, told, trail>>

Traffic(p) ==
  /\ pc = "loop" /\ UNCHANGED <<chainVars, pc, step, initialised, lossIndex>>
  /\ \/ Enters(p) \/ Forwards(p) \/ Keeps(p)
     \/ \E how : Finishes(p, how)
     \/ \E i \in Objects, k \in 1..Len(kept) : Releases(p, i, k) \/ Pops(p, i, k)

Setup == Begin \/ InitAll \/ AddFilter \/ Configure \/ Execute \/ Execute6

Quiet ==
  /\ UNCHANGED <<chainVars, step, initialised, packetVars>>
  /\ pc' = pc \/ (pc \in {"initFilters", "loop"} /\ pc' \in {"returned", "crashed"})
  /\ \/ UNCHANGED lossIndex
     \/ lossIndex # 0 /\ lossIndex' = IF lossIndex = Len(losses_(Member(chain, "DynamicLoss")))
                                      THEN 1 ELSE lossIndex + 1

\* The ends of the chain are different from what is between them.
LEMMA ChainEnds ==
  ASSUME Built, pc \in Late, NEW n, n = Len(chain.filters)
  PROVE  /\ n \in Nat /\ n >= 2 /\ Objects = 1..n
         /\ chain.start = 1 /\ 1 \in Objects
         /\ \A i \in Objects : /\ Name(i) \in {"Input", "InputDrop"} <=> i = 1
                               /\ Name(i) \in {"Output", "OutputLibnet"} <=> i = n
                               /\ i # n => chain.next[i] = i + 1 /\ i + 1 \in Objects
         /\ Name(1) = "InputDrop" <=> Name(n) = "OutputLibnet"
<1>1. Chained(chain) /\ Complete(chain) /\ n \in Nat /\ Objects = 1..n
  BY ChainFacts
<1>2. /\ n >= 2 /\ \A i \in 2..n - 1 : Name(i) \in Shapers
      /\ \/ Name(1) = "Input" /\ Name(n) = "Output"
         \/ Name(1) = "InputDrop" /\ Name(n) = "OutputLibnet"
  BY <1>1 DEF Complete, Name
<1>3. chain.start = 1 /\ \A i \in 1..n : chain.next[i] = IF i = n THEN 0 ELSE i + 1
  BY <1>1, <1>2 DEF Chained
<1>4. \A i \in 1..n : i = 1 \/ i = n \/ i \in 2..n - 1
  BY <1>1
<1>5. \A f \in Shapers : f \notin {"Input", "InputDrop", "Output", "OutputLibnet"}
  BY DEF Shapers
<1>6. 1 # n /\ 1 \in 1..n /\ n \in 1..n
  <2>1. n \in Nat /\ n >= 2
    BY <1>1, <1>2
  <2>2. \A m \in Nat : m >= 2 => 1 # m /\ 1 \in 1..m /\ m \in 1..m
    OBVIOUS
  <2> QED
    BY <2>1, <2>2
<1>7. \A i \in 1..n : i # n => i + 1 \in 1..n
  BY <1>1
<1>8. \A i \in 1..n : /\ Name(i) \in {"Input", "InputDrop"} <=> i = 1
                      /\ Name(i) \in {"Output", "OutputLibnet"} <=> i = n
  <2> TAKE i \in 1..n
  <2>1. CASE i \in 2..n - 1
    <3>1. i # 1 /\ i # n
      BY <1>1, <2>1
    <3>2. Name(i) \notin {"Input", "InputDrop", "Output", "OutputLibnet"}
      BY <1>2, <1>5, <2>1
    <3> QED
      BY <3>1, <3>2
  <2>2. CASE i = 1
    BY <1>2, <1>6, <2>2
  <2>3. CASE i = n
    BY <1>2, <1>6, <2>3
  <2> QED
    BY <1>4, <2>1, <2>2, <2>3
<1> QED
  BY <1>1, <1>2, <1>3, <1>6, <1>7, <1>8

\* What a filter does with a packet that a thread brings it.
LEMMA HandleTraffic ==
  ASSUME Built, Outside, Placed, Running, NEW p \in Packets, Handle(p)
  PROVE  Traffic(p) \/ Quiet
<1>1. /\ UNCHANGED <<chainVars, step, initialised, lossIndex>> /\ Moving(p)
      /\ pc' = pc \/ (pc' = "crashed" /\ UNCHANGED packetVars)
  BY HandleKeeps
<1>2. pc = "loop" /\ pc \in Late
  BY <1>1 DEF Outside, Moving, Running, Late
<1>3. at[p] \in Objects
  BY <1>1 DEF Placed, Moving
<1>4. ASSUME Forward(p), Name(at[p]) \notin {"Output", "OutputLibnet"}
      PROVE  Comes(p, at[p] + 1, by[p])
  <2>1. chain.next[at[p]] = at[p] + 1 /\ at[p] + 1 \in Objects
    BY <1>2, <1>3, <1>4, ChainEnds
  <2> QED
    BY <1>4, <2>1 DEF Forward, Call, Comes
<1>5. CASE NatCrash(p)
  BY <1>1, <1>2, <1>5 DEF NatCrash, Quiet
<1>6. ASSUME UNCHANGED <<setupVars, lossIndex>> PROVE pc' = pc
  BY <1>6 DEF setupVars
<1>7. CASE Input(p)
  <2>1. Forwards(p) /\ pc' = pc
    BY <1>1, <1>4, <1>6, <1>7 DEF Input, Meets, Forwards, Keepers
  <2> QED
    BY <1>1, <1>2, <2>1 DEF Traffic
<1>8. CASE InputDrop(p)
  <2>1. Forwards(p) /\ pc' = pc
    BY <1>1, <1>4, <1>6, <1>8 DEF InputDrop, Meets, Forwards, Keepers
  <2> QED
    BY <1>1, <1>2, <2>1 DEF Traffic
<1>9. CASE Loss(p)
  <2>1. (Forwards(p) \/ Finishes(p, "dropped")) /\ pc' = pc
    BY <1>1, <1>4, <1>6, <1>9 DEF Loss, Meets, Forwards, Keepers, Finishes, Ends
  <2> QED
    BY <1>1, <1>2, <2>1 DEF Traffic
<1>10. CASE DynamicLoss(p)
  <2>1. (Forwards(p) \/ Finishes(p, "dropped")) /\ pc' = pc
    BY <1>1, <1>4, <1>6, <1>10 DEF DynamicLoss, Meets, Forwards, Keepers, Finishes, Ends
  <2> QED
    BY <1>1, <1>2, <2>1 DEF Traffic
<1>11. CASE NatFilter(p)
  <2>1. (Forwards(p) \/ Finishes(p, "forgotten")) /\ pc' = pc
    BY <1>1, <1>4, <1>6, <1>11 DEF NatFilter, Meets, Forwards, Keepers, Forgetters, Finishes, Ends
  <2> QED
    BY <1>1, <1>2, <2>1 DEF Traffic
<1>12. CASE Queue(p)
  <2>1. Keeps(p) /\ pc' = pc
    BY <1>1, <1>6, <1>12 DEF Queue, Keep, Meets, Keeps, Keepers
  <2> QED
    BY <1>1, <1>2, <2>1 DEF Traffic
<1>13. CASE Burst(p)
  <2>1. (Keeps(p) \/ Forwards(p)) /\ pc' = pc
    BY <1>1, <1>4, <1>6, <1>13 DEF Burst, Keep, Meets, Keeps, Forwards, Keepers
  <2> QED
    BY <1>1, <1>2, <2>1 DEF Traffic
<1>14. CASE TokenBucketFilter(p)
  <2>1. (Keeps(p) \/ Finishes(p, "forgotten")) /\ pc' = pc
    BY <1>1, <1>6, <1>14 DEF TokenBucketFilter, Keep, Meets, Keeps, Keepers, Forgetters, Finishes, Ends
  <2> QED
    BY <1>1, <1>2, <2>1 DEF Traffic
<1>15. CASE Output(p)
  <2>1. Finishes(p, "accepted") /\ pc' = pc
    BY <1>1, <1>6, <1>15 DEF Output, Meets, Finishes, Ends
  <2> QED
    BY <1>1, <1>2, <2>1 DEF Traffic
<1> QED
  BY <1>5, <1>7, <1>8, <1>9, <1>10, <1>11, <1>12, <1>13, <1>14, <1>15 DEF Handle

\* The packet that a filter takes is the one that it may take.
LEMMA HeadLeaves ==
  ASSUME Kept, NEW i \in Objects, i \in initialised, NEW p \in Heads(i), Unkeep(p)
  PROVE  place[p] = "held" /\ \E k \in 1..Len(kept) : Leaves(p, i, k)
<1>1. DOMAIN kept = 1..Len(kept) /\ kept \in Seq(Packets)
  BY DEF Kept
<1>2. PICK k \in 1..Len(kept) :
        /\ kept[k] = p /\ at[p] = i
        /\ \A j \in 1..k - 1 : at[kept[j]] = i =>
             Name(i) = "TokenBucketFilter" /\ ~Same(kept[j], p)
  BY <1>1 DEF Heads
<1>3. PICK l \in 1..Len(kept) :
        /\ kept[l] = p
        /\ kept' = [j \in 1..Len(kept) - 1 |-> IF j < l THEN kept[j] ELSE kept[j + 1]]
  BY <1>1 DEF Unkeep
<1>4. l = k
  BY <1>2, <1>3 DEF Kept
<1>5. Leaves(p, i, k)
  BY <1>2, <1>3, <1>4 DEF Leaves
<1>6. place[p] = "held"
  BY <1>2 DEF Kept
<1> QED
  BY <1>5, <1>6

\* What a filter's own thread does with a packet it keeps.
LEMMA LeaveTraffic ==
  ASSUME Built, Outside, Placed, Kept, Running, NEW p \in Packets, NEW i \in Objects,
         Release(i, p) \/ OutputPopHandler(i, p) \/ Output6PopHandler(i, p)
  PROVE  Traffic(p)
<1>1. UNCHANGED <<chainVars, pc, step, initialised, lossIndex>>
  BY OthersKeep
<1>2. i \in initialised /\ p \in Heads(i) /\ Unkeep(p)
  BY DEF Release, OutputPopHandler, Output6PopHandler, PopHandler
<1>3. place[p] = "held" /\ \E k \in 1..Len(kept) : Leaves(p, i, k)
  BY <1>2, HeadLeaves
<1>4. pc = "loop" /\ pc \in Late
  BY <1>3 DEF Outside, Running, Late
<1>5. PICK k \in 1..Len(kept) : Leaves(p, i, k)
  BY <1>3
<1>6. CASE Release(i, p)
  <2>1. chain.next[i] = i + 1 /\ i + 1 \in Objects
    BY <1>4, <1>6, ChainEnds DEF Release
  <2>2. Releases(p, i, k)
    BY <1>5, <1>6, <2>1 DEF Release, Releases, Call, Comes
  <2> QED
    BY <1>1, <1>4, <2>2 DEF Traffic
<1>7. CASE OutputPopHandler(i, p) \/ Output6PopHandler(i, p)
  <2>1. PopHandler(i, p, Build(p))
    BY <1>7 DEF OutputPopHandler, Output6PopHandler, Build
  <2>2. Pops(p, i, k)
    BY <1>5, <2>1 DEF PopHandler, Pops, Ends
  <2> QED
    BY <1>1, <1>4, <2>2 DEF Traffic
<1> QED
  BY <1>6, <1>7

\* Every step is one of these.
LEMMA Kinds ==
  ASSUME Built, Outside, Placed, Kept, [Next]_vars
  PROVE  Setup \/ Initialise(Order) \/ Quiet \/ \E p \in Packets : Traffic(p)
<1>1. CASE UNCHANGED vars
  BY <1>1 DEF vars, setupVars, packetVars, chainVars, Quiet
<1>2. CASE Begin \/ InitAll \/ AddFilter \/ Configure \/ Execute \/ Execute6
  BY <1>2 DEF Setup
<1>3. CASE HandleTimeout \/ Return
  BY <1>3 DEF HandleTimeout, Return, setupVars, Quiet
<1>4. CASE InitFilters \/ Init6Filters
  BY <1>4 DEF InitFilters, Init6Filters, Order
<1>5. CASE Crash
  BY <1>5 DEF Crash, SetsNullsQH, Quiet
<1>6. ASSUME Running, NEW p \in Packets, Handle(p) PROVE Quiet \/ \E q \in Packets : Traffic(q)
  BY <1>6, HandleTraffic
<1>7. ASSUME Running, NEW p \in Packets, NEW i \in Objects,
             Release(i, p) \/ OutputPopHandler(i, p) \/ Output6PopHandler(i, p)
      PROVE  \E q \in Packets : Traffic(q)
  BY <1>7, LeaveTraffic
<1>8. ASSUME NEW p \in Packets, NewPacket(p) \/ NewPacket6(p) PROVE Traffic(p)
  <2>1. Deliver(p, Read(p))
    BY <1>8 DEF NewPacket, NewPacket6, Read
  <2>2. UNCHANGED <<chainVars, pc, step, initialised, lossIndex>> /\ pc = "loop" /\ pc \in Late
    BY <2>1 DEF Deliver, setupVars, Late
  <2>3. chain.start = 1 /\ 1 \in Objects
    BY <2>2, ChainEnds
  <2>4. Enters(p)
    BY <2>1, <2>3 DEF Deliver, Enters, Call, Comes
  <2> QED
    BY <2>2, <2>4 DEF Traffic
<1> QED
  BY <1>1, <1>2, <1>3, <1>4, <1>5, <1>6, <1>7, <1>8 DEF Next, Work

-----------------------------------------------------------------------------
(* The start, concluded. *)
LEMMA StartedNext ==
  ASSUME Built, Built', Started, Outside, Placed, Kept, [Next]_vars
  PROVE  Started'
<1>1. CASE Setup
  BY <1>1, EarlyStarted DEF Setup
<1>2. CASE Initialise(Order)
  <2>1. UNCHANGED chainVars
    BY <1>2 DEF Initialise
  <2> QED
    BY <1>2, <2>1, InitialiseStarted
<1>3. CASE Quiet
  BY <1>3, LaterStarted DEF Quiet
<1>4. CASE \E p \in Packets : Traffic(p)
  BY <1>4, LaterStarted DEF Traffic
<1> QED
  BY <1>1, <1>2, <1>3, <1>4, Kinds

\* A packet comes only in the loop, when every filter is started.
LEMMA OutsideNext ==
  ASSUME Built, Started, Outside, Placed, Kept, [Next]_vars
  PROVE  Outside'
<1>1. CASE Setup \/ Initialise(Order)
  <2>1. place' = place /\ pc \notin {"loop", "returned", "crashed"}
    BY <1>1 DEF Setup, Begin, InitAll, AddFilter, Configure, Execute, Execute6, Initialise,
                packetVars
  <2> QED
    BY <2>1 DEF Outside
<1>2. CASE Quiet
  <2>1. place' = place /\ initialised' = initialised /\ chain' = chain
    BY <1>2 DEF Quiet, packetVars, chainVars, chain
  <2>2. \A f : Member(chain, f)' = Member(chain, f)
    BY <2>1 DEF Member
  <2> QED
    BY <1>2, <2>1, <2>2 DEF Outside, Quiet
<1>3. CASE \E p \in Packets : Traffic(p)
  <2>1. pc = "loop" /\ pc' = pc /\ initialised' = initialised /\ chain' = chain
    BY <1>3 DEF Traffic, chainVars, chain
  <2>2. \A f : Member(chain, f)' = Member(chain, f)
    BY <2>1 DEF Member
  <2> QED
    BY <2>1, <2>2 DEF Outside, Started
<1> QED
  BY <1>1, <1>2, <1>3, Kinds

\* main() goes through the settings in order, and exits at one that it refuses.
LEMMA PassedOnNext ==
  ASSUME Built, Started, Outside, Placed, Kept, PassedOn, [Next]_vars
  PROVE  PassedOn'
<1>1. ASSUME UNCHANGED chainVars, pc \in {"execute", "initFilters", "loop", "returned", "crashed"},
             pc' \in {"execute", "initFilters", "loop", "returned", "crashed"}
      PROVE  PassedOn'
  <2>1. \A k : Passed(chain4, set4, k)' = Passed(chain4, set4, k)
               /\ Passed(chain6, set6, k)' = Passed(chain6, set6, k)
    BY <1>1 DEF Passed, Given, Member, chainVars
  <2> QED
    BY <1>1, <2>1 DEF PassedOn
<1>2. CASE Begin \/ InitAll \/ AddFilter
  <2>1. pc' \in {"init", "exited"} \/ (pc' = "configure" /\ step' = 1)
    BY <1>2 DEF Begin, InitAll, AddFilter, Started
  <2>2. step' = 1 => \A k \in 1..step' - 1 : FALSE
    OBVIOUS
  <2> QED
    BY <2>1, <2>2 DEF PassedOn
<1>3. CASE Configure
  <2> DEFINE s == Settings[step]
             given == Given(option, s[1])
  <2>1. /\ pc = "configure" /\ UNCHANGED <<option, chain4, chain6>>
        /\ \/ pc' = "exited"
           \/ /\ given => ~Refused(option, s[1])
              /\ set4' = set4 \cup (IF given THEN ReachedBySetter(chain4, s) ELSE {})
              /\ set6' = set6 \cup (IF given THEN ReachedBySetter(chain6, s) ELSE {})
              /\ step' = IF step = Len(Settings) THEN 1 ELSE step + 1
              /\ pc' = IF step = Len(Settings) THEN "execute" ELSE "configure"
    BY <1>3 DEF Configure, SetIn6
  <2>2. CASE pc' = "exited"
    BY <2>2 DEF PassedOn
  <2>3. CASE pc' # "exited"
    <3>1. /\ given => ~Refused(option, s[1])
          /\ set4' = set4 \cup (IF given THEN ReachedBySetter(chain4, s) ELSE {})
          /\ set6' = set6 \cup (IF given THEN ReachedBySetter(chain6, s) ELSE {})
          /\ step' = IF step = Len(Settings) THEN 1 ELSE step + 1
          /\ pc' = IF step = Len(Settings) THEN "execute" ELSE "configure"
      BY <2>1, <2>3
    <3>2. \A k \in 1..step - 1 : Passed(chain4, set4, k)' /\ Passed(chain6, set6, k)'
      <4>1. \A k \in 1..step - 1 : Passed(chain4, set4, k) /\ Passed(chain6, set6, k)
        BY <2>1 DEF PassedOn
      <4>2. set4 \subseteq set4' /\ set6 \subseteq set6'
        BY <3>1
      <4> QED
        BY <2>1, <4>1, <4>2 DEF Passed, Given, Member
    <3>3. given => s[1] \notin option.uneven
      <4>1. option \in Options
        BY DEF Built
      <4>2. /\ option.uneven \subseteq {"dyn-losses", "nat-ext-port"}
            /\ "nat-ext-port" \in option.uneven => "nat-int-port" \in option.given
        BY <4>1, ConstantsAssumption
      <4> QED
        BY <3>1, <4>2 DEF Refused
    <3>4. ASSUME NEW k \in 1..18, k = step
          PROVE  Passed(chain4, set4, k)' /\ Passed(chain6, set6, k)'
      <4>1. UNCHANGED <<option, chain4, chain6>> /\ s = Settings[k]
        BY <2>1, <3>4
      <4>2. Given(option, Settings[k][1]) = given /\ Given(option, Settings[k][1])' = given
        BY <4>1 DEF Given
      <4> HIDE DEF s, given
      <4>3. CASE given
        BY <3>1, <3>3, <4>1, <4>2, <4>3 DEF Passed, ReachedBySetter, Member
      <4>4. CASE ~given
        BY <4>2, <4>4 DEF Passed
      <4> QED
        BY <4>3, <4>4
    <3>5. step \in 1..18 /\ Len(Settings) = 18
      BY Tables DEF Started
    <3>6. \A k \in 1..step : Passed(chain4, set4, k)' /\ Passed(chain6, set6, k)'
      <4>1. \A k \in 1..step : k \in 1..step - 1 \/ (k \in 1..18 /\ k = step)
        BY <3>5
      <4> QED
        BY <3>2, <3>4, <4>1
    <3>7. CASE step = 18
      BY <3>1, <3>5, <3>6, <3>7 DEF PassedOn
    <3>8. CASE step # 18
      <4>1. step' - 1 = step /\ pc' = "configure"
        BY <3>1, <3>5, <3>8
      <4> QED
        BY <3>6, <4>1 DEF PassedOn
    <3> QED
      BY <3>7, <3>8
  <2> QED
    BY <2>2, <2>3
<1>4. CASE Execute \/ Execute6
  <2>1. /\ UNCHANGED chainVars /\ pc = "execute" /\ pc' \in {"initFilters", "returned"}
    BY <1>4 DEF Execute, Execute6
  <2> QED
    BY <1>1, <2>1
<1>5. CASE Initialise(Order)
  <2>1. UNCHANGED chainVars /\ pc = "initFilters" /\ pc' \in {"initFilters", "loop"}
    BY <1>5 DEF Initialise
  <2> QED
    BY <1>1, <2>1
<1>6. CASE Quiet \/ \E p \in Packets : Traffic(p)
  <2>1. /\ UNCHANGED <<chainVars, step>>
        /\ pc' = pc \/ (pc \in {"initFilters", "loop"} /\ pc' \in {"returned", "crashed"})
    BY <1>6 DEF Quiet, Traffic
  <2>2. \A k : Passed(chain4, set4, k)' = Passed(chain4, set4, k)
               /\ Passed(chain6, set6, k)' = Passed(chain6, set6, k)
    BY <2>1 DEF Passed, Given, Member, chainVars
  <2> QED
    BY <1>1, <2>1, <2>2 DEF PassedOn
<1> QED
  BY <1>2, <1>3, <1>4, <1>5, <1>6, Kinds DEF Setup

-----------------------------------------------------------------------------
(* The packets' places, and the verdicts on them. *)

\* Steps that are on no packet.
LEMMA Unmoved ==
  ASSUME Started, Outside, Setup \/ Initialise(Order) \/ Quiet
  PROVE  /\ UNCHANGED packetVars
         /\ initialised \subseteq initialised'
         /\ \/ UNCHANGED <<option, chain>>
            \/ \A p \in Packets : place[p] = "outside"
<1>1. CASE Setup
  <2>1. /\ UNCHANGED <<packetVars, initialised>> /\ pc \notin {"loop", "returned", "crashed"}
    BY <1>1 DEF Setup, Begin, InitAll, AddFilter, Configure, Execute, Execute6
  <2> QED
    BY <2>1 DEF Outside
<1>2. CASE Initialise(Order) \/ Quiet
  BY <1>2 DEF Initialise, Quiet, chainVars, chain
<1> QED
  BY <1>1, <1>2

\* Packets do not change the chain.
LEMMA TrafficChain ==
  ASSUME NEW p \in Packets, Traffic(p)
  PROVE  /\ UNCHANGED <<option, chain, initialised, pc>> /\ Objects' = Objects
         /\ \A i : Name(i)' = Name(i)
BY DEF Traffic, chainVars, chain, Objects, Name

\* No packet has come.
LEMMA PlacedInit == Init => Placed /\ Kept /\ Verdicts
BY DEF Init, Placed, Kept, Verdicts, Places, Active, Objects

\* A packet that has come is at a filter of the chain.
LEMMA PlacedNext ==
  ASSUME Built, Started, Outside, Placed, Kept, [Next]_vars
  PROVE  Placed'
<1>1. CASE Setup \/ Initialise(Order) \/ Quiet
  <2>1. /\ UNCHANGED <<place, at, by, stopped>> /\ initialised \subseteq initialised'
        /\ \/ chain' = chain \/ \A p \in Packets : place[p] = "outside"
    BY <1>1, Unmoved DEF packetVars
  <2>2. CASE chain' = chain
    <3>1. Objects' = Objects
      BY <2>2 DEF Objects
    <3> QED
      BY <2>1, <3>1 DEF Placed
  <2>3. CASE \A p \in Packets : place[p] = "outside"
    <3>1. at \in [Packets -> {0}] /\ by \in [Packets -> {0}]
      BY <2>3 DEF Placed
    <3> QED
      BY <2>1, <2>3, <3>1 DEF Placed
  <2> QED
    BY <2>1, <2>2, <2>3
<1>2. ASSUME NEW p \in Packets, Traffic(p) PROVE Placed'
  <2>1. /\ initialised' = initialised /\ Objects' = Objects
    BY <1>2, TrafficChain
  <2>2. /\ place \in [Packets -> Places] /\ stopped \subseteq initialised
        /\ at \in [Packets -> Objects \cup {0}] /\ by \in [Packets -> Objects \cup {0}]
        /\ \A q \in Packets : IF place[q] = "outside" THEN at[q] = 0 /\ by[q] = 0 ELSE at[q] \in Objects
    BY DEF Placed
  <2>3. CASE Enters(p)
    BY <2>1, <2>2, <2>3 DEF Placed, Enters, Comes, Places
  <2>4. CASE Forwards(p)
    BY <2>1, <2>2, <2>4 DEF Placed, Forwards, Comes, Places
  <2>5. CASE Keeps(p)
    BY <2>1, <2>2, <2>5 DEF Placed, Keeps, Moving, Places
  <2>6. ASSUME NEW how, Finishes(p, how) PROVE Placed'
    BY <2>1, <2>2, <2>6 DEF Placed, Finishes, Moving, Places
  <2>7. ASSUME NEW i \in Objects, NEW k \in 1..Len(kept), Releases(p, i, k) PROVE Placed'
    BY <2>1, <2>2, <2>7 DEF Placed, Releases, Comes, Places
  <2>8. ASSUME NEW i \in Objects, NEW k \in 1..Len(kept), Pops(p, i, k) PROVE Placed'
    BY <2>1, <2>2, <2>8 DEF Placed, Pops, Leaves, Places
  <2> QED
    BY <1>2, <2>3, <2>4, <2>5, <2>6, <2>7, <2>8 DEF Traffic
<1> QED
  BY <1>1, <1>2, Kinds

\* A packet is added to those kept when it becomes held, and taken away when it is
\* no longer.
LEMMA KeptNext ==
  ASSUME Built, Started, Outside, Placed, Kept, [Next]_vars
  PROVE  Kept'
<1>1. CASE Setup \/ Initialise(Order) \/ Quiet
  <2>1. UNCHANGED <<place, kept>>
    BY <1>1, Unmoved DEF packetVars
  <2> QED
    BY <2>1 DEF Kept
<1>2. ASSUME NEW p \in Packets, Traffic(p) PROVE Kept'
  <2>1. /\ kept \in Seq(Packets) /\ place \in [Packets -> Places] /\ Len(kept) \in Nat
        /\ \A k \in 1..Len(kept) : place[kept[k]] = "held" /\ kept[k] \in Packets
        /\ \A j, k \in 1..Len(kept) : kept[j] = kept[k] => j = k
        /\ \A q \in Packets : place[q] = "held" => \E k \in 1..Len(kept) : kept[k] = q
    BY DEF Placed, Kept
  <2>2. ASSUME kept' = kept, place[p] # "held", NEW how, how # "held", place' = [place EXCEPT ![p] = how]
        PROVE  Kept'
    BY <2>1, <2>2 DEF Kept
  <2>3. CASE Enters(p) \/ Forwards(p) \/ \E how : Finishes(p, how)
    BY <2>2, <2>3 DEF Enters, Forwards, Finishes, Comes, Moving
  <2>4. CASE Keeps(p)
    <3>1. /\ place[p] = "moving" /\ kept' = Append(kept, p) /\ place' = [place EXCEPT ![p] = "held"]
      BY <2>4 DEF Keeps, Moving
    <3>2. /\ kept' \in Seq(Packets) /\ Len(kept') = Len(kept) + 1 /\ kept'[Len(kept) + 1] = p
          /\ \A j \in 1..Len(kept) : kept'[j] = kept[j]
      BY <2>1, <3>1
    <3>3. \A j \in 1..Len(kept') : j \in 1..Len(kept) \/ j = Len(kept) + 1
      BY <2>1, <3>2
    <3>4. \A j \in 1..Len(kept) : kept[j] # p /\ j \in 1..Len(kept')
      BY <2>1, <3>1, <3>2
    <3>5. \A j \in 1..Len(kept') : place'[kept'[j]] = "held"
      BY <2>1, <3>1, <3>2, <3>3
    <3>6. \A j, k \in 1..Len(kept') : kept'[j] = kept'[k] => j = k
      BY <2>1, <3>2, <3>3, <3>4
    <3>7. ASSUME NEW q \in Packets, place'[q] = "held" PROVE \E k \in 1..Len(kept') : kept'[k] = q
      <4>1. Len(kept) + 1 \in 1..Len(kept')
        BY <2>1, <3>2
      <4>2. q = p \/ place[q] = "held"
        BY <2>1, <3>1, <3>7
      <4> QED
        BY <2>1, <3>2, <3>4, <4>1, <4>2
    <3> QED
      BY <3>2, <3>5, <3>6, <3>7 DEF Kept
  <2>5. ASSUME NEW i \in Objects, NEW k \in 1..Len(kept), Leaves(p, i, k),
               NEW how, how # "held", place' = [place EXCEPT ![p] = how]
        PROVE  Kept'
    <3>1. /\ kept' = [j \in 1..Len(kept) - 1 |-> IF j < k THEN kept[j] ELSE kept[j + 1]]
          /\ kept[k] = p
      BY <2>5 DEF Leaves
    <3>2. /\ kept' \in Seq(Packets) /\ Len(kept') = Len(kept) - 1
          /\ \A j \in 1..Len(kept') : \E l \in 1..Len(kept) :
               kept'[j] = kept[l] /\ l # k /\ l = IF j < k THEN j ELSE j + 1
          /\ \A l \in 1..Len(kept) : l # k =>
               \E j \in 1..Len(kept') : kept'[j] = kept[l] /\ l = IF j < k THEN j ELSE j + 1
      <4>1. kept \in Seq(Packets)
        BY <2>1
      <4>2. kept' = Without(kept, k)
        BY <3>1 DEF Without
      <4>3. kept' \in Seq(Packets) /\ Shifted(kept, k, kept')
        BY <4>1, <4>2, WithoutOne
      <4> QED
        BY <4>3 DEF Shifted
    <3>3. \A j \in 1..Len(kept') : place'[kept'[j]] = "held"
      BY <2>1, <2>5, <3>1, <3>2
    <3>4. ASSUME NEW j \in 1..Len(kept'), NEW m \in 1..Len(kept'), kept'[j] = kept'[m]
          PROVE  j = m
      <4>1. (IF j < k THEN j ELSE j + 1) = (IF m < k THEN m ELSE m + 1)
        BY <2>1, <3>2, <3>4
      <4>2. j \in Nat /\ m \in Nat /\ k \in Nat
        BY <2>1, <3>2
      <4> QED
        BY <4>1, <4>2
    <3>5. ASSUME NEW q \in Packets, place'[q] = "held" PROVE \E j \in 1..Len(kept') : kept'[j] = q
      <4>1. q # p /\ place[q] = "held"
        BY <2>1, <2>5, <3>5
      <4>2. PICK l \in 1..Len(kept) : kept[l] = q
        BY <2>1, <4>1
      <4>3. l # k
        BY <3>1, <4>1, <4>2
      <4> QED
        BY <3>2, <4>2, <4>3
    <3> QED
      BY <3>2, <3>3, <3>4, <3>5 DEF Kept
  <2>6. ASSUME NEW i \in Objects, NEW k \in 1..Len(kept), Releases(p, i, k) \/ Pops(p, i, k)
        PROVE  Kept'
    BY <2>5, <2>6 DEF Releases, Pops, Comes
  <2> QED
    BY <1>2, <2>3, <2>4, <2>6 DEF Traffic
<1> QED
  BY <1>1, <1>2, Kinds

\* A packet that leaves a filter was held there.
LEMMA LeavesHeld ==
  ASSUME Kept, NEW p, NEW i \in Objects, NEW k \in 1..Len(kept), Leaves(p, i, k)
  PROVE  place[p] = "held" /\ at[p] = i /\ p \in Packets
BY DEF Leaves, Kept

\* The first verdict is the last.
LEMMA VerdictsNext ==
  ASSUME Built, Started, Outside, Placed, Kept, Verdicts, [Next]_vars
  PROVE  Verdicts'
<1>1. CASE Setup \/ Initialise(Order) \/ Quiet
  <2>1. /\ UNCHANGED <<place, at, told>>
        /\ \/ chain' = chain \/ \A p \in Packets : place[p] = "outside"
    BY <1>1, Unmoved DEF packetVars
  <2> QED
    BY <2>1 DEF Verdicts, Active, Name
<1>2. ASSUME NEW p \in Packets, Traffic(p) PROVE Verdicts'
  <2> DEFINE n == Len(chain.filters)
  <2>1. pc \in Late /\ \A i : Name(i)' = Name(i)
    BY <1>2, TrafficChain DEF Traffic, Late
  <2>2. /\ n \in Nat /\ n >= 2 /\ Objects = 1..n
        /\ \A i \in Objects : /\ Name(i) \in {"Input", "InputDrop"} <=> i = 1
                              /\ Name(i) \in {"Output", "OutputLibnet"} <=> i = n
        /\ Name(1) = "InputDrop" <=> Name(n) = "OutputLibnet"
    BY <2>1, ChainEnds
  <2> HIDE DEF n
  <2>3. n # 1 /\ \A i \in Objects : i + 1 # 1
    <3>1. \A m \in Nat : (m >= 2 => m # 1) /\ \A i \in 1..m : i + 1 # 1
      OBVIOUS
    <3> QED
      BY <2>2, <3>1
  <2>4. /\ place \in [Packets -> Places] /\ at \in [Packets -> Objects \cup {0}]
        /\ \A q \in Packets : place[q] # "outside" => at[q] \in Objects
        /\ DOMAIN told = Packets
    BY DEF Placed, Verdicts
  <2> DEFINE V(q, pl, a, t) ==
               CASE pl = "outside" -> t = <<>>
                 [] pl \in {"moving", "held"} ->
                      t = IF Name(1) = "InputDrop" /\ a # 1 THEN <<"drop">> ELSE <<>>
                 [] pl = "accepted" -> t = <<"accept">>
                 [] pl = "written" -> t = <<"drop">>
                 [] pl = "dropped" -> t = <<"drop">>
                 [] OTHER -> t \in {<<>>, <<"drop">>}
  <2>5. \A q \in Packets : V(q, place[q], at[q], told[q])
    BY DEF Verdicts, Active
  <2>6. ASSUME DOMAIN told' = Packets,
               \A q \in Packets : q # p => place'[q] = place[q] /\ at'[q] = at[q] /\ told'[q] = told[q],
               V(p, place'[p], at'[p], told'[p])
        PROVE  Verdicts'
    <3>1. \A q \in Packets : V(q, place'[q], at'[q], told'[q])
      BY <2>5, <2>6
    <3> QED
      BY <2>1, <2>6, <3>1 DEF Verdicts, Active
  <2>7. CASE Enters(p)
    BY <2>4, <2>5, <2>6, <2>7 DEF Enters, Comes
  <2>8. CASE Forwards(p)
    <3>1. /\ place[p] = "moving" /\ at[p] \in Objects /\ at'[p] = at[p] + 1 /\ at[p] + 1 # 1
          /\ place'[p] = "moving"
          /\ \A q \in Packets : q # p => place'[q] = place[q] /\ at'[q] = at[q]
      BY <2>3, <2>4, <2>8 DEF Forwards, Comes, Moving
    <3>2. told[p] = IF Name(1) = "InputDrop" /\ at[p] # 1 THEN <<"drop">> ELSE <<>>
      BY <2>5, <3>1
    <3>3. CASE Name(at[p]) = "InputDrop"
      <4>1. at[p] = 1 /\ told[p] = <<>>
        BY <2>2, <3>1, <3>2, <3>3
      <4>2. told' = [told EXCEPT ![p] = <<"drop">>]
        BY <2>8, <3>3, <4>1 DEF Forwards, SetVerdict
      <4> QED
        BY <2>4, <2>6, <3>1, <3>3, <4>1, <4>2
    <3>4. CASE Name(at[p]) # "InputDrop"
      <4>1. told' = told
        BY <2>8, <3>4 DEF Forwards
      <4> QED
        BY <2>4, <2>6, <3>1, <3>2, <3>4, <4>1
    <3> QED
      BY <3>3, <3>4
  <2>9. CASE Keeps(p)
    BY <2>4, <2>5, <2>6, <2>9 DEF Keeps, Moving
  <2>10. ASSUME NEW how, Finishes(p, how) PROVE Verdicts'
    <3>1. /\ place[p] = "moving" /\ place' = [place EXCEPT ![p] = how] /\ at' = at
          /\ at[p] \in Objects
      BY <2>4, <2>10 DEF Finishes, Moving
    <3>2. told[p] = IF Name(1) = "InputDrop" /\ at[p] # 1 THEN <<"drop">> ELSE <<>>
      BY <2>5, <3>1
    <3>3. CASE how = "dropped"
      <4>1. SetVerdict(p, "drop")
        BY <2>10, <3>3 DEF Finishes
      <4> QED
        BY <2>4, <2>6, <3>1, <3>2, <3>3, <4>1 DEF SetVerdict
    <3>4. CASE how = "forgotten"
      <4>1. told' = told
        BY <2>10, <3>4 DEF Finishes
      <4> QED
        BY <2>4, <2>6, <3>1, <3>2, <3>4, <4>1
    <3>5. CASE how = "accepted"
      <4>1. SetVerdict(p, "accept") /\ Name(at[p]) = "Output"
        BY <2>10, <3>5 DEF Finishes
      <4>2. Name(1) # "InputDrop"
        BY <2>2, <3>1, <4>1
      <4>3. told' = [told EXCEPT ![p] = <<"accept">>]
        BY <3>2, <4>1, <4>2 DEF SetVerdict
      <4> QED
        BY <2>4, <2>6, <3>1, <3>5, <4>3
    <3> QED
      BY <2>10, <3>3, <3>4, <3>5 DEF Finishes
  <2>11. ASSUME NEW i \in Objects, NEW k \in 1..Len(kept), Releases(p, i, k) PROVE Verdicts'
    <3>1. place[p] = "held" /\ at[p] = i
      BY <2>11, LeavesHeld DEF Releases
    <3>2. i # 1
      BY <2>2, <2>11 DEF Releases
    <3> QED
      BY <2>3, <2>4, <2>5, <2>6, <2>11, <3>1, <3>2 DEF Releases, Comes
  <2>12. ASSUME NEW i \in Objects, NEW k \in 1..Len(kept), Pops(p, i, k) PROVE Verdicts'
    <3>1. place[p] = "held" /\ at[p] = i /\ Name(i) = "OutputLibnet" /\ told' = told /\ at' = at
      BY <2>12, LeavesHeld DEF Pops
    <3>2. i = n /\ Name(1) = "InputDrop" /\ i # 1
      BY <2>2, <2>3, <3>1
    <3>3. told[p] = <<"drop">>
      BY <2>5, <3>1, <3>2
    <3> QED
      BY <2>4, <2>6, <2>12, <3>1, <3>3 DEF Pops
  <2> QED
    BY <1>2, <2>7, <2>8, <2>9, <2>10, <2>11, <2>12 DEF Traffic
<1> QED
  BY <1>1, <1>2, Kinds

-----------------------------------------------------------------------------
(* The order. *)
LEMMA OrderInit == Init => Brought /\ Alone /\ Ordered /\ Left /\ OrderKept
<1> SUFFICES ASSUME Init PROVE Brought /\ Alone /\ Ordered /\ Left /\ OrderKept
  OBVIOUS
<1>1. (\A p \in Packets : place[p] = "outside") /\ out = <<>>
  BY DEF Init
<1>2. Len(out) = 0 /\ DOMAIN out = {} /\ \A S : out \in Seq(S)
  BY <1>1
<1> QED
  BY <1>1, <1>2 DEF Brought, Alone, Ordered, InTurn, Active, Left, OrderKept

\* Steps on no packet.
LEMMA OrderUnmoved ==
  ASSUME Started, Outside, Brought, Alone, Ordered, Left, OrderKept,
         Setup \/ Initialise(Order) \/ Quiet
  PROVE  Brought' /\ Alone' /\ Ordered' /\ Left' /\ OrderKept'
<1>1. /\ UNCHANGED packetVars
      /\ \/ chain' = chain
         \/ \A p \in Packets : place[p] = "outside"
  BY Unmoved
<1>2. UNCHANGED <<place, at, by, kept, out>>
  BY <1>1 DEF packetVars
<1>3. Alone' /\ Left'
  BY <1>2 DEF Alone, Left
<1>4. CASE chain' = chain
  <2>1. (\A i : Name(i)' = Name(i)) /\ Objects' = Objects /\ Member(chain, "Burst")' = Member(chain, "Burst")
    BY <1>4 DEF Name, Objects, Member
  <2> QED
    BY <1>2, <1>3, <2>1 DEF Brought, Ordered, InTurn, Active, Behind, NoBurst, OrderKept
<1>5. CASE \A p \in Packets : place[p] = "outside"
  <2>1. \A k \in DOMAIN out : FALSE
    BY <1>5 DEF Left
  <2> QED
    BY <1>2, <1>3, <1>5, <2>1 DEF Brought, Ordered, InTurn, Active, OrderKept
<1> QED
  BY <1>1, <1>4, <1>5

\* A packet is brought by the last filter behind it that keeps packets.
LEMMA BroughtNext ==
  ASSUME Built, Placed, Kept, Brought, NEW p \in Packets, Traffic(p)
  PROVE  Brought'
<1> DEFINE Goal ==
  /\ \A q \in Packets : place'[q] = "moving" =>
       /\ by'[q] < at'[q]
       /\ by'[q] # 0 => Name(by'[q]) \in Keepers
       /\ \A i \in Objects : by'[q] < i /\ i < at'[q] => Name(i) \notin Keepers
  /\ \A q \in Packets : place'[q] = "held" => Name(at'[q]) \in Keepers
<1> SUFFICES ASSUME NoBurst' PROVE Goal
  <2>1. (\A i : Name(i)' = Name(i)) /\ Objects' = Objects
    BY TrafficChain
  <2> QED
    BY <2>1 DEF Brought, Name
<1>1. NoBurst /\ pc \in Late
  <2>1. (\A i : Name(i)' = Name(i)) /\ Objects' = Objects
    BY TrafficChain
  <2> QED
    BY <2>1 DEF NoBurst, Traffic, Late
<1>2. /\ \A q \in Packets : place[q] = "moving" =>
           /\ by[q] < at[q]
           /\ by[q] # 0 => Name(by[q]) \in Keepers
           /\ \A i \in Objects : by[q] < i /\ i < at[q] => Name(i) \notin Keepers
      /\ \A q \in Packets : place[q] = "held" => Name(at[q]) \in Keepers
  BY <1>1 DEF Brought
<1>3. /\ place \in [Packets -> Places] /\ at \in [Packets -> Objects \cup {0}]
      /\ by \in [Packets -> Objects \cup {0}]
      /\ \A q \in Packets : place[q] # "outside" => at[q] \in Objects
      /\ Objects \subseteq Nat /\ Objects \cup {0} \subseteq Nat
  <2>1. Len(chain.filters) \in Nat /\ Objects = 1..Len(chain.filters)
    BY ChainFacts
  <2> QED
    BY <2>1 DEF Placed
<1>4. CASE Enters(p)
  <2>1. /\ at' = [at EXCEPT ![p] = 1] /\ by' = [by EXCEPT ![p] = 0]
        /\ place' = [place EXCEPT ![p] = "moving"]
    BY <1>4 DEF Enters, Comes
  <2>2. \A i \in Objects : ~(0 < i /\ i < 1)
    BY <1>3
  <2> QED
    BY <1>2, <1>3, <2>1, <2>2
<1>5. CASE Forwards(p)
  <2>1. /\ at' = [at EXCEPT ![p] = at[p] + 1] /\ by' = [by EXCEPT ![p] = by[p]]
        /\ place' = [place EXCEPT ![p] = "moving"]
        /\ place[p] = "moving" /\ Name(at[p]) \notin Keepers
    BY <1>5 DEF Forwards, Comes, Moving
  <2>2. at[p] \in Nat /\ by[p] \in Nat /\ by[p] < at[p]
    BY <1>2, <1>3, <2>1
  <2>3. \A i \in Objects : i < at[p] + 1 => i = at[p] \/ i < at[p]
    BY <1>3, <2>2
  <2>4. by[p] < at[p] + 1
    BY <2>2
  <2> QED
    BY <1>2, <1>3, <2>1, <2>3, <2>4
<1>6. CASE Keeps(p)
  <2>1. /\ at' = at /\ by' = by /\ place' = [place EXCEPT ![p] = "held"] /\ Name(at[p]) \in Keepers
    BY <1>1, <1>3, <1>6 DEF Keeps, NoBurst, Moving
  <2> QED
    BY <1>2, <1>3, <2>1
<1>7. ASSUME NEW how, Finishes(p, how) PROVE Goal
  <2>1. at' = at /\ by' = by /\ place' = [place EXCEPT ![p] = how] /\ how \notin {"moving", "held"}
    BY <1>7 DEF Finishes
  <2> QED
    BY <1>2, <1>3, <2>1
<1>8. ASSUME NEW i \in Objects, NEW k \in 1..Len(kept), Releases(p, i, k) PROVE Goal
  <2>1. /\ at' = [at EXCEPT ![p] = i + 1] /\ by' = [by EXCEPT ![p] = i]
        /\ place' = [place EXCEPT ![p] = "moving"]
        /\ Name(i) \in Keepers
    BY <1>1, <1>8 DEF Releases, Comes, NoBurst, Keepers
  <2>2. i < i + 1 /\ \A j \in Objects : ~(i < j /\ j < i + 1)
    BY <1>3
  <2> QED
    BY <1>2, <1>3, <2>1, <2>2
<1>9. ASSUME NEW i \in Objects, NEW k \in 1..Len(kept), Pops(p, i, k) PROVE Goal
  <2>1. /\ at' = at /\ by' = by
        /\ place' = [place EXCEPT ![p] = "written"] \/ place' = [place EXCEPT ![p] = "lost"]
    BY <1>9 DEF Pops
  <2> QED
    BY <1>2, <1>3, <2>1
<1> QED
  BY <1>4, <1>5, <1>6, <1>7, <1>8, <1>9 DEF Traffic

\* A filter brings one packet of a direction at a time.
LEMMA AloneNext ==
  ASSUME Placed, Alone, NEW p \in Packets, Traffic(p)
  PROVE  Alone'
<1>1. /\ place \in [Packets -> Places] /\ by \in [Packets -> Objects \cup {0}]
      /\ \A q, r \in Packets :
           place[q] = "moving" /\ place[r] = "moving" /\ by[q] = by[r] /\ Same(q, r) => q = r
  BY DEF Placed, Alone
<1>2. ASSUME NEW o, \A q \in Packets : place[q] = "moving" /\ by[q] = o => ~Same(q, p),
             by' = [by EXCEPT ![p] = o], place' = [place EXCEPT ![p] = "moving"]
      PROVE  Alone'
  <2>1. \A q, r \in Packets : Same(q, r) <=> Same(r, q)
    BY DEF Same
  <2> QED
    BY <1>1, <1>2, <2>1 DEF Alone
<1>3. ASSUME NEW how, by' = by, place' = [place EXCEPT ![p] = how], place[p] = "moving" \/ how # "moving"
      PROVE  Alone'
  BY <1>1, <1>3 DEF Alone
<1>4. CASE Enters(p)
  BY <1>2, <1>4 DEF Enters, Comes, Moving
<1>5. CASE Forwards(p)
  <2>1. by' = by /\ place' = [place EXCEPT ![p] = "moving"] /\ place[p] = "moving"
    BY <1>1, <1>5 DEF Forwards, Comes, Moving
  <2> QED
    BY <1>3, <2>1
<1>6. CASE Keeps(p) \/ \E how : Finishes(p, how)
  BY <1>3, <1>6 DEF Keeps, Finishes, Moving
<1>7. ASSUME NEW i \in Objects, NEW k \in 1..Len(kept), Releases(p, i, k) PROVE Alone'
  <2>1. \A q \in Packets : place[q] = "moving" /\ by[q] = i => ~Same(q, p)
    BY <1>7 DEF Releases, Passing, Moving, Same
  <2> QED
    BY <1>2, <1>7, <2>1 DEF Releases, Comes
<1>8. ASSUME NEW i \in Objects, NEW k \in 1..Len(kept), Pops(p, i, k) PROVE Alone'
  BY <1>3, <1>8 DEF Pops
<1> QED
  BY <1>4, <1>5, <1>6, <1>7, <1>8 DEF Traffic

\* What is on the network again has gone through an output.
LEMMA LeftNext ==
  ASSUME Placed, Kept, Left, NEW p \in Packets, Traffic(p)
  PROVE  Left'
<1>1. /\ place \in [Packets -> Places] /\ Len(out) \in Nat
      /\ out \in Seq({out[k] : k \in 1..Len(out)})
      /\ \A k \in 1..Len(out) : /\ out[k].packet \in Packets
                                /\ place[out[k].packet] \in {"accepted", "written"}
      /\ \A j, k \in 1..Len(out) : out[j].packet = out[k].packet => j = k
  BY DEF Placed, Left
<1>2. place[p] \in {"outside", "moving", "held"}
  BY LeavesHeld DEF Traffic, Enters, Forwards, Keeps, Finishes, Moving, Releases, Pops
<1>3. ASSUME out' = out, NEW how, place' = [place EXCEPT ![p] = how] PROVE Left'
  <2>1. \A k \in 1..Len(out) : place'[out[k].packet] = place[out[k].packet]
    BY <1>1, <1>2, <1>3
  <2> QED
    BY <1>1, <1>3, <2>1 DEF Left
<1>4. ASSUME NEW d, out' = Append(out, [packet |-> p, sent |-> d]),
             NEW how \in {"accepted", "written"}, place' = [place EXCEPT ![p] = how]
      PROVE  Left'
  <2> DEFINE r == [packet |-> p, sent |-> d]
             S == {out[k] : k \in 1..Len(out)} \cup {r}
  <2>1. /\ out' \in Seq(S) /\ Len(out') = Len(out) + 1 /\ out'[Len(out) + 1] = r
        /\ \A k \in 1..Len(out) : out'[k] = out[k]
    <3>1. out \in Seq(S)
      BY <1>1, SeqMonotonic
    <3> HIDE DEF S
    <3>2. r \in S
      BY DEF S
    <3> HIDE DEF r
    <3> QED
      BY <1>4, <3>1, <3>2 DEF r
  <2>2. \A k \in 1..Len(out') : k \in 1..Len(out) \/ k = Len(out) + 1
    BY <1>1, <2>1
  <2>3. out' \in Seq({out'[k] : k \in 1..Len(out')})
    <3>1. S = {out'[k] : k \in 1..Len(out')}
      <4>1. \A k \in 1..Len(out) : k \in 1..Len(out')
        BY <1>1, <2>1
      <4>2. Len(out) + 1 \in 1..Len(out')
        BY <1>1, <2>1
      <4> QED
        BY <2>1, <2>2, <4>1, <4>2
    <3> QED
      BY <2>1, <3>1
  <2>4. r.packet = p
    OBVIOUS
  <2> HIDE DEF r
  <2>5. \A k \in 1..Len(out) : out[k].packet # p /\ place'[out[k].packet] = place[out[k].packet]
    BY <1>1, <1>2, <1>4
  <2>6. \A k \in 1..Len(out') : /\ out'[k].packet \in Packets
                                /\ place'[out'[k].packet] \in {"accepted", "written"}
    BY <1>1, <1>4, <2>1, <2>2, <2>4, <2>5
  <2>7. \A j, k \in 1..Len(out') : out'[j].packet = out'[k].packet => j = k
    BY <1>1, <2>1, <2>2, <2>4, <2>5, SMTT(30)
  <2> QED
    BY <2>3, <2>6, <2>7 DEF Left
<1>5. CASE Enters(p) \/ Forwards(p) \/ Keeps(p)
  BY <1>3, <1>5 DEF Enters, Forwards, Keeps, Comes
<1>6. ASSUME NEW how, Finishes(p, how) PROVE Left'
  BY <1>3, <1>4, <1>6 DEF Finishes
<1>7. ASSUME NEW i \in Objects, NEW k \in 1..Len(kept), Releases(p, i, k) \/ Pops(p, i, k) PROVE Left'
  BY <1>3, <1>4, <1>7 DEF Releases, Pops, Comes
<1> QED
  BY <1>5, <1>6, <1>7 DEF Traffic

\* The filters' numbers, as the order is about them.
LEMMA OrderTypes ==
  ASSUME Built, Placed, pc \in Late
  PROVE  /\ Objects \subseteq Nat /\ place \in [Packets -> Places]
         /\ at \in [Packets -> Nat] /\ by \in [Packets -> Nat]
         /\ \A q \in Packets : Active(q) => at[q] \in Objects /\ at[q] <= Len(chain.filters)
         /\ \A q \in Packets : by[q] # 0 => by[q] \in Objects
         /\ \A i \in Objects : i >= 1 /\ i <= Len(chain.filters)
         /\ \A i \in Objects : /\ i = 1 => Name(i) \notin Keepers
                               /\ Name(i) \in {"Output", "OutputLibnet"} => i = Len(chain.filters)
<1>1. /\ Len(chain.filters) \in Nat /\ Objects = 1..Len(chain.filters)
      /\ \A i \in Objects : /\ Name(i) \in {"Input", "InputDrop"} <=> i = 1
                            /\ Name(i) \in {"Output", "OutputLibnet"} <=> i = Len(chain.filters)
  BY ChainEnds
<1>2. Objects \subseteq Nat /\ Objects \cup {0} \subseteq Nat
      /\ \A i \in Objects : i >= 1 /\ i <= Len(chain.filters)
  BY <1>1
<1>3. /\ place \in [Packets -> Places] /\ at \in [Packets -> Objects \cup {0}]
      /\ by \in [Packets -> Objects \cup {0}]
      /\ \A q \in Packets : place[q] # "outside" => at[q] \in Objects
  BY DEF Placed
<1>4. at \in [Packets -> Nat] /\ by \in [Packets -> Nat]
  BY <1>2, <1>3
<1>5. \A i \in Objects : i = 1 => Name(i) \notin Keepers
  BY <1>1 DEF Keepers
<1>6. \A q \in Packets : Active(q) => at[q] \in Objects /\ at[q] <= Len(chain.filters)
  BY <1>2, <1>3 DEF Active
<1>7. \A q \in Packets : by[q] # 0 => by[q] \in Objects
  BY <1>3
<1> QED
  BY <1>1, <1>2, <1>3, <1>4, <1>5, <1>6, <1>7

\* Two packets that move at one filter, or would, are brought by the same filter.
LEMMA SameOrigin ==
  ASSUME Built, Placed, Brought, NoBurst, pc \in Late,
         NEW p \in Packets, NEW q \in Packets, place[p] = "moving", place[q] = "moving",
         \/ at[p] = at[q]
         \/ at[p] = at[q] + 1 /\ Name(at[q]) \notin Keepers
  PROVE  by[p] = by[q]
<1>1. /\ at[p] \in Nat /\ at[q] \in Nat /\ by[p] \in Nat /\ by[q] \in Nat
      /\ by[p] # 0 => by[p] \in Objects
      /\ by[q] # 0 => by[q] \in Objects
  BY OrderTypes
<1>2. /\ by[p] < at[p] /\ by[q] < at[q]
      /\ by[p] # 0 => Name(by[p]) \in Keepers
      /\ by[q] # 0 => Name(by[q]) \in Keepers
      /\ \A i \in Objects : by[p] < i /\ i < at[p] => Name(i) \notin Keepers
      /\ \A i \in Objects : by[q] < i /\ i < at[q] => Name(i) \notin Keepers
  BY DEF Brought
<1>3. ASSUME by[p] < by[q] PROVE FALSE
  <2>1. by[q] # 0 /\ by[q] < at[p]
    BY <1>1, <1>2, <1>3
  <2> QED
    BY <1>1, <1>2, <1>3, <2>1
<1>4. ASSUME by[q] < by[p] PROVE FALSE
  <2>1. by[p] # 0 /\ (by[p] < at[q] \/ (by[p] = at[q] /\ Name(at[q]) \notin Keepers))
    BY <1>1, <1>2, <1>4
  <2> QED
    BY <1>1, <1>2, <1>4, <2>1
<1> QED
  BY <1>1, <1>3, <1>4

\* A pair of which neither is concerned by the step.
LEMMA OthersInTurn ==
  ASSUME NEW p \in Packets, NEW e \in Packets, NEW l \in Packets, e # p, l # p, InTurn(e, l),
         place'[e] = place[e], place'[l] = place[l], at'[e] = at[e], at'[l] = at[l],
         Before(kept, e, l) => Before(kept', e, l)
  PROVE  InTurn(e, l)'
BY DEF InTurn, Active, Behind

\* No step lets a packet overtake an earlier one: who moves is alone between two
\* filters that keep packets, and who is kept leaves in order.
LEMMA OrderedNext ==
  ASSUME Built, Placed, Kept, Brought, Alone, Ordered, NEW p \in Packets, Traffic(p)
  PROVE  Ordered'
<1> SUFFICES ASSUME NoBurst', NEW e \in Packets, NEW l \in Packets, e < l, Same(e, l)
             PROVE  InTurn(e, l)'
  BY DEF Ordered, Same
<1>1. NoBurst /\ pc \in Late
  <2>1. (\A i : Name(i)' = Name(i)) /\ Objects' = Objects
    BY TrafficChain
  <2> QED
    BY <2>1 DEF NoBurst, Traffic, Late
<1>2. /\ InTurn(e, l)
      /\ \A q \in Packets : place[q] = "held" => Name(at[q]) \in Keepers
      /\ \A q \in Packets : place[q] = "moving" => by[q] < at[q]
  BY <1>1 DEF Ordered, Brought
<1>3. e \in Nat /\ l \in Nat /\ e # l /\ p \in Nat
  BY ConstantsAssumption
<1>4. /\ Objects \subseteq Nat /\ place \in [Packets -> Places]
      /\ at \in [Packets -> Nat] /\ by \in [Packets -> Nat]
      /\ \A q \in Packets : Active(q) => at[q] \in Objects /\ at[q] <= Len(chain.filters)
      /\ \A i \in Objects : i >= 1 /\ i <= Len(chain.filters)
      /\ \A i \in Objects : /\ i = 1 => Name(i) \notin Keepers
                            /\ Name(i) \in {"Output", "OutputLibnet"} => i = Len(chain.filters)
  BY <1>1, OrderTypes
<1>5. at[e] \in Nat /\ at[l] \in Nat /\ by[e] \in Nat /\ by[l] \in Nat
  BY <1>4
<1>6. CASE Enters(p)
  <2>1. /\ place[p] = "outside" /\ \A q \in Packets : place[q] = "outside" => p <= q
        /\ \A q \in Packets : place[q] = "moving" => by[q] # 0
        /\ at' = [at EXCEPT ![p] = 1] /\ place' = [place EXCEPT ![p] = "moving"] /\ kept' = kept
    BY <1>6 DEF Enters, Comes, Moving
  <2>2. CASE e = p
    <3>1. place[l] = "outside" /\ place'[l] = "outside" /\ place'[e] = "moving"
      BY <1>2, <1>3, <1>4, <2>1, <2>2 DEF InTurn
    <3> QED
      BY <3>1 DEF InTurn, Active
  <2>3. CASE l = p
    <3>1. place[e] # "outside"
      BY <1>3, <2>1, <2>3
    <3>2. place'[e] = place[e] /\ at'[e] = at[e] /\ at'[l] = 1 /\ place'[l] = "moving"
      BY <1>3, <1>4, <2>1, <2>3
    <3>3. ASSUME Active(e) PROVE 1 < at[e]
      <4>1. at[e] \in Objects /\ at[e] >= 1
        BY <1>4, <3>3
      <4>2. at[e] # 1
        BY <1>2, <1>4, <1>5, <2>1, <3>3, <4>1 DEF Active
      <4> QED
        BY <1>5, <4>1, <4>2
    <3> QED
      BY <3>1, <3>2, <3>3 DEF InTurn, Active, Behind
  <2>4. CASE e # p /\ l # p
    BY <1>2, <1>4, <2>1, <2>4, OthersInTurn
  <2> QED
    BY <2>2, <2>3, <2>4
<1>7. CASE Forwards(p)
  <2>1. /\ place[p] = "moving" /\ Name(at[p]) \notin Keepers
        /\ at' = [at EXCEPT ![p] = at[p] + 1] /\ place' = [place EXCEPT ![p] = "moving"] /\ kept' = kept
    BY <1>7 DEF Forwards, Comes, Moving
  <2>2. CASE e = p
    <3>1. /\ place'[l] = place[l] /\ at'[l] = at[l] /\ at'[e] = at[e] + 1 /\ place'[e] = "moving"
          /\ Active(e) /\ place[e] # "held"
      BY <1>3, <1>4, <2>1, <2>2 DEF Active
    <3>2. Active(l) => at[l] < at[e] + 1
      BY <1>2, <1>5, <3>1 DEF InTurn, Behind
    <3> QED
      BY <1>2, <3>1, <3>2 DEF InTurn, Active, Behind
  <2>3. CASE l = p
    <3>1. /\ place'[e] = place[e] /\ at'[e] = at[e] /\ at'[l] = at[l] + 1 /\ place'[l] = "moving"
          /\ Active(l) /\ place[l] = "moving" /\ Name(at[l]) \notin Keepers
      BY <1>3, <1>4, <2>1, <2>3 DEF Active
    <3>2. ASSUME Active(e) PROVE at[l] + 1 < at[e] \/ (at[l] + 1 = at[e] /\ place[e] = "held")
      <4>1. at[l] < at[e]
        BY <1>2, <3>1, <3>2 DEF InTurn, Behind
      <4>2. ASSUME place[e] = "moving", at[e] = at[l] + 1 PROVE FALSE
        <5>1. by[e] = by[l]
          BY <1>1, <3>1, <4>2, SameOrigin
        <5> QED
          BY <1>3, <3>1, <4>2, <5>1 DEF Alone
      <4> QED
        BY <1>5, <3>2, <4>1, <4>2 DEF Active
    <3>3. place[e] # "outside"
      BY <1>2, <3>1 DEF InTurn
    <3> QED
      BY <3>1, <3>2, <3>3 DEF InTurn, Active, Behind
  <2>4. CASE e # p /\ l # p
    BY <1>2, <1>4, <2>1, <2>4, OthersInTurn
  <2> QED
    BY <2>2, <2>3, <2>4
<1>8. CASE Keeps(p)
  <2>1. /\ place[p] = "moving" /\ at' = at /\ place' = [place EXCEPT ![p] = "held"]
        /\ kept' = Append(kept, p) /\ kept \in Seq(Packets)
    BY <1>8 DEF Keeps, Moving, Kept
  <2>2. /\ \A a, b : Before(kept, a, b) => Before(kept', a, b)
        /\ \A a : (\E j \in 1..Len(kept) : kept[j] = a) => Before(kept', a, p)
    BY <2>1, BeforeAppend
  <2>3. CASE e = p
    <3>1. /\ place'[l] = place[l] /\ place'[e] = "held" /\ Active(e) /\ place[e] # "held"
      BY <1>3, <1>4, <2>1, <2>3 DEF Active
    <3> QED
      BY <1>2, <2>1, <3>1 DEF InTurn, Active, Behind
  <2>4. CASE l = p
    <3>1. /\ place'[e] = place[e] /\ place'[l] = "held" /\ Active(l)
      BY <1>3, <1>4, <2>1, <2>4 DEF Active
    <3>2. place[e] = "held" => Before(kept', e, l)
      BY <2>2, <2>4 DEF Kept
    <3> QED
      BY <1>2, <2>1, <3>1, <3>2 DEF InTurn, Active, Behind
  <2>5. CASE e # p /\ l # p
    BY <1>2, <1>4, <2>1, <2>2, <2>5, OthersInTurn
  <2> QED
    BY <2>3, <2>4, <2>5
<1>9. ASSUME NEW how, Finishes(p, how) PROVE InTurn(e, l)'
  <2>1. /\ place[p] = "moving" /\ at' = at /\ place' = [place EXCEPT ![p] = how] /\ kept' = kept
        /\ how \in {"dropped", "forgotten", "accepted"}
        /\ how = "accepted" => Name(at[p]) = "Output"
    BY <1>9 DEF Finishes, Moving
  <2>2. CASE e = p
    BY <1>3, <1>4, <2>1, <2>2 DEF InTurn, Active
  <2>3. CASE l = p
    <3>1. /\ place'[e] = place[e] /\ place'[l] = how /\ Active(l) /\ place[e] # "outside"
      BY <1>2, <1>3, <1>4, <2>1, <2>3 DEF Active, InTurn
    <3>2. ASSUME how = "accepted", Active(e) PROVE FALSE
      <4>1. at[l] < at[e] \/ (at[l] = at[e] /\ place[e] = "held")
        BY <1>2, <3>1, <3>2 DEF InTurn, Behind
      <4>2. at[l] = Len(chain.filters) /\ at[e] <= Len(chain.filters) /\ Name(at[l]) = "Output"
        BY <1>4, <2>1, <2>3, <3>1, <3>2
      <4>3. at[l] = at[e] /\ place[e] = "held"
        BY <1>5, <4>1, <4>2
      <4> QED
        BY <1>2, <4>2, <4>3 DEF Keepers
    <3> QED
      BY <2>1, <3>1, <3>2 DEF InTurn, Active
  <2>4. CASE e # p /\ l # p
    BY <1>2, <1>4, <2>1, <2>4, OthersInTurn
  <2> QED
    BY <2>2, <2>3, <2>4
<1>10. ASSUME NEW i \in Objects, NEW k \in 1..Len(kept), Leaves(p, i, k)
       PROVE  /\ place[p] = "held" /\ at[p] = i
              /\ \A a, b : a # p /\ b # p /\ Before(kept, a, b) => Before(kept', a, b)
              /\ \A a \in Packets : at[a] = i /\ Before(kept, a, p) => ~Same(a, p)
  <2>1. /\ kept \in Seq(Packets) /\ kept[k] = p /\ kept' = Without(kept, k)
        /\ \A j \in 1..k - 1 : at[kept[j]] = i => ~Same(kept[j], p)
    BY <1>10 DEF Leaves, Kept, Without
  <2>2. \A a, b : a # kept[k] /\ b # kept[k] /\ Before(kept, a, b) => Before(kept', a, b)
    BY <2>1, BeforeWithout
  <2>3. ASSUME NEW a \in Packets, at[a] = i, Before(kept, a, p) PROVE ~Same(a, p)
    <3>1. PICK j, m \in 1..Len(kept) : j < m /\ kept[j] = a /\ kept[m] = p
      BY <2>3 DEF Before
    <3>2. m = k
      BY <2>1, <3>1 DEF Kept
    <3>3. j \in 1..k - 1
      BY <2>1, <3>1, <3>2
    <3> QED
      BY <2>1, <2>3, <3>1, <3>3
  <2> QED
    BY <1>10, <2>1, <2>2, <2>3, LeavesHeld
<1>11. ASSUME NEW i \in Objects, NEW k \in 1..Len(kept), Releases(p, i, k) PROVE InTurn(e, l)'
  <2>1. /\ place[p] = "held" /\ at[p] = i
        /\ \A a, b : a # p /\ b # p /\ Before(kept, a, b) => Before(kept', a, b)
        /\ \A a \in Packets : at[a] = i /\ Before(kept, a, p) => ~Same(a, p)
    BY <1>10, <1>11 DEF Releases
  <2>2. /\ at' = [at EXCEPT ![p] = i + 1] /\ place' = [place EXCEPT ![p] = "moving"]
        /\ \A q \in Packets : place[q] = "moving" /\ by[q] = i => ~Same(q, p)
        /\ Name(i) \in Keepers /\ i \in Nat
    BY <1>1, <1>4, <1>11 DEF Releases, Comes, Passing, Moving, Same, NoBurst, Keepers
  <2>3. CASE e = p
    <3>1. /\ place'[l] = place[l] /\ at'[l] = at[l] /\ at'[e] = at[e] + 1 /\ place'[e] = "moving"
          /\ Active(e)
      BY <1>3, <1>4, <2>1, <2>2, <2>3 DEF Active
    <3>2. Active(l) => at[l] < at[e] + 1
      BY <1>2, <1>5, <3>1 DEF InTurn, Behind
    <3> QED
      BY <1>2, <3>1, <3>2 DEF InTurn, Active, Behind
  <2>4. CASE l = p
    <3>1. /\ place'[e] = place[e] /\ at'[e] = at[e] /\ at'[l] = i + 1 /\ place'[l] = "moving"
          /\ Active(l) /\ place[l] = "held" /\ at[l] = i
      BY <1>3, <1>4, <2>1, <2>2, <2>4 DEF Active
    <3>2. ASSUME Active(e) PROVE i + 1 < at[e] \/ (i + 1 = at[e] /\ place[e] = "held")
      <4>1. i < at[e]
        BY <1>2, <2>1, <2>4, <3>1, <3>2 DEF InTurn, Behind
      <4>2. ASSUME place[e] = "moving", at[e] = i + 1 PROVE FALSE
        <5>1. by[e] < at[e] /\ \A j \in Objects : by[e] < j /\ j < at[e] => Name(j) \notin Keepers
          BY <1>1, <4>2 DEF Brought
        <5>2. by[e] = i
          BY <1>5, <2>2, <4>2, <5>1
        <5> QED
          BY <2>2, <2>4, <4>2, <5>2
      <4> QED
        BY <1>5, <2>2, <3>2, <4>1, <4>2 DEF Active
    <3>3. place[e] # "outside"
      BY <1>2, <3>1 DEF InTurn
    <3> QED
      BY <3>1, <3>2, <3>3 DEF InTurn, Active, Behind
  <2>5. CASE e # p /\ l # p
    BY <1>2, <1>4, <2>1, <2>2, <2>5, OthersInTurn
  <2> QED
    BY <2>3, <2>4, <2>5
<1>12. ASSUME NEW i \in Objects, NEW k \in 1..Len(kept), Pops(p, i, k) PROVE InTurn(e, l)'
  <2>1. /\ place[p] = "held" /\ at[p] = i
        /\ \A a, b : a # p /\ b # p /\ Before(kept, a, b) => Before(kept', a, b)
        /\ \A a \in Packets : at[a] = i /\ Before(kept, a, p) => ~Same(a, p)
    BY <1>10, <1>12 DEF Pops
  <2>2. PICK how \in {"written", "lost"} : place' = [place EXCEPT ![p] = how]
    BY <1>12 DEF Pops
  <2>3. at' = at /\ i = Len(chain.filters) /\ i \in Nat
    BY <1>4, <1>12 DEF Pops
  <2>4. CASE e = p
    BY <1>3, <1>4, <2>2, <2>4 DEF InTurn, Active
  <2>5. CASE l = p
    <3>1. /\ place'[e] = place[e] /\ place'[l] = how /\ Active(l) /\ place[l] = "held"
          /\ place[e] # "outside"
      BY <1>2, <1>3, <1>4, <2>1, <2>2, <2>5 DEF Active, InTurn
    <3>2. ASSUME Active(e) PROVE FALSE
      <4>1. at[l] < at[e] \/ (at[l] = at[e] /\ Before(kept, e, l))
        BY <1>2, <3>1, <3>2 DEF InTurn, Behind
      <4>2. at[e] <= i /\ at[l] = i
        BY <1>4, <2>1, <2>3, <2>5, <3>2
      <4>3. at[e] = i /\ Before(kept, e, l)
        BY <1>5, <2>3, <4>1, <4>2
      <4> QED
        BY <2>1, <2>5, <4>3
    <3> QED
      BY <2>2, <3>1, <3>2 DEF InTurn, Active
  <2>6. CASE e # p /\ l # p
    BY <1>2, <1>4, <2>1, <2>2, <2>3, <2>6, OthersInTurn
  <2> QED
    BY <2>4, <2>5, <2>6
<1> QED
  BY <1>6, <1>7, <1>8, <1>9, <1>11, <1>12 DEF Traffic

\* A packet that leaves is later than those of its direction that have left, for an
\* earlier one would be behind it.
LEMMA OrderKeptNext ==
  ASSUME Built, Placed, Kept, Ordered, Left, OrderKept, NEW p \in Packets, Traffic(p)
  PROVE  OrderKept'
<1> SUFFICES ASSUME Member(chain, "Burst")' = 0
             PROVE  \A j, k \in DOMAIN out' : j < k /\ Same(out'[j].packet, out'[k].packet)
                                                => out'[j].packet < out'[k].packet
  BY DEF OrderKept, Same
<1>1. Member(chain, "Burst") = 0 /\ NoBurst
  <2>1. chain' = chain
    BY TrafficChain
  <2>2. Member(chain, "Burst") = 0
    BY <2>1 DEF Member
  <2>3. Chained(chain) /\ Objects = 1..Len(chain.filters)
    BY ChainFacts
  <2> QED
    BY <2>2, <2>3 DEF Chained, NoBurst, Name, Member, Known, Shapers
<1>2. /\ \A j, k \in DOMAIN out : j < k /\ Same(out[j].packet, out[k].packet)
                                    => out[j].packet < out[k].packet
  BY <1>1 DEF OrderKept
<1>3. /\ DOMAIN out = 1..Len(out) /\ Len(out) \in Nat /\ out \in Seq({out[k] : k \in 1..Len(out)})
      /\ \A k \in 1..Len(out) : /\ out[k].packet \in Packets
                                /\ place[out[k].packet] \in {"accepted", "written"}
  BY DEF Left
<1>4. CASE out' = out
  BY <1>2, <1>4
<1>5. ASSUME NEW d, out' = Append(out, [packet |-> p, sent |-> d]), Active(p)
      PROVE  \A j, k \in DOMAIN out' : j < k /\ Same(out'[j].packet, out'[k].packet)
                                         => out'[j].packet < out'[k].packet
  <2> DEFINE r == [packet |-> p, sent |-> d]
             S == {out[k] : k \in 1..Len(out)} \cup {r}
  <2>1. out \in Seq(S) /\ r \in S /\ r.packet = p
    BY <1>3, SeqMonotonic
  <2>2. out' = Append(out, r)
    BY <1>5
  <2> HIDE DEF r, S
  <2>3. /\ DOMAIN out' = 1..Len(out) + 1 /\ out'[Len(out) + 1] = r
        /\ \A k \in 1..Len(out) : out'[k] = out[k]
    BY <2>1, <2>2
  <2>4. ASSUME NEW j \in 1..Len(out), Same(out[j].packet, p) PROVE out[j].packet < p
    <3>1. /\ out[j].packet \in Packets /\ place[out[j].packet] \in {"accepted", "written"}
          /\ out[j].packet # p
      BY <1>3, <1>5 DEF Active
    <3>2. out[j].packet \in Nat /\ p \in Nat
      BY <3>1, ConstantsAssumption
    <3>3. ~(p < out[j].packet)
      BY <1>1, <1>5, <2>4, <3>1 DEF Ordered, InTurn, Same
    <3> QED
      BY <3>1, <3>2, <3>3
  <2> SUFFICES ASSUME NEW j \in DOMAIN out', NEW k \in DOMAIN out', j < k,
                      Same(out'[j].packet, out'[k].packet)
               PROVE  out'[j].packet < out'[k].packet
    BY DEF Same
  <2>5. j \in 1..Len(out) /\ (k \in 1..Len(out) \/ k = Len(out) + 1)
    BY <1>3, <2>3
  <2> QED
    BY <1>2, <1>3, <2>1, <2>3, <2>4, <2>5
<1>6. CASE Enters(p) \/ Forwards(p) \/ Keeps(p)
  BY <1>4, <1>6 DEF Enters, Forwards, Keeps
<1>7. ASSUME NEW how, Finishes(p, how) PROVE out' = out \/ (Active(p) /\ \E d : out' = Append(out, [packet |-> p, sent |-> d]))
  BY <1>7 DEF Finishes, Moving, Active
<1>8. ASSUME NEW i \in Objects, NEW k \in 1..Len(kept), Releases(p, i, k) \/ Pops(p, i, k)
      PROVE  out' = out \/ (Active(p) /\ \E d : out' = Append(out, [packet |-> p, sent |-> d]))
  <2>1. Active(p)
    BY <1>8, LeavesHeld DEF Active, Releases, Pops
  <2> QED
    BY <1>8, <2>1 DEF Releases, Pops
<1> QED
  BY <1>4, <1>5, <1>6, <1>7, <1>8 DEF Traffic

-----------------------------------------------------------------------------
(* What the packets carry. *)
Came(p) == IF option.ipv6 THEN Datagram6[p] ELSE Datagram[p]

\* The near end of a packet, which a Nat changes, and its far end.
NearIp(p) == IF p \in Ingoing THEN pkt[p].dstIp_ ELSE pkt[p].srcIp_
NearPort(p) == IF p \in Ingoing THEN pkt[p].dport_ ELSE pkt[p].sport_
FarIp(p) == IF p \in Ingoing THEN pkt[p].srcIp_ ELSE pkt[p].dstIp_
FarPort(p) == IF p \in Ingoing THEN pkt[p].sport_ ELSE pkt[p].dport_

Translated(p) == \E i \in Objects : i < at[p] /\ Name(i) = "Nat"
Target(p) == IF p \in Ingoing THEN IntHost ELSE ExtIp

CarriedBy(p) ==
  LET c == Came(p) IN
  /\ {"packetData_", "srcIp_", "dstIp_", "sport_", "dport_"} \subseteq DOMAIN pkt[p]
  /\ pkt[p].packetData_ = c
  /\ ~option.ipv6 => "ipFrag_" \in DOMAIN pkt[p] /\ pkt[p].ipFrag_ = c.fragOff
  /\ FarIp(p) = IF p \in Ingoing THEN c.src ELSE c.dst
  /\ FarPort(p) = IF p \in Ingoing THEN Ports(c).s ELSE Ports(c).d
  /\ NearIp(p) = IF Translated(p) THEN Target(p) ELSE IF p \in Ingoing THEN c.dst ELSE c.src
  /\ \/ NearPort(p) = IF p \in Ingoing THEN Ports(c).d ELSE Ports(c).s
     \/ Translated(p) /\ NearPort(p) = NatPort

Carried ==
  /\ DOMAIN pkt = Packets
  /\ \A p \in Packets : Active(p) => CarriedBy(p)

\* What is on the network again fits what came.
Fits(p, sent, how) ==
  LET came == IF option.ipv6 THEN Datagram6[p] ELSE Datagram[p]
      anew == IF how = "written" THEN {"id", "options", "flow"} ELSE {}
      nat == how = "written" /\ Member(chain, "Nat") # 0
      address == IF p \in Ingoing THEN "dst" ELSE "src"
      port == IF p \in Ingoing THEN "dport" ELSE "sport"
      due == IF nat THEN [came EXCEPT ![address] = IF p \in Ingoing THEN IntHost ELSE ExtIp]
                    ELSE came
  IN  \A field \in DOMAIN came \ anew :
        \/ sent[field] = due[field]
        \/ nat /\ field = port /\ HasPorts(came.proto) /\ sent[field] = NatPort

\* Intact, packet by packet.
LEMMA IntactFits == Intact <=> \A k \in DOMAIN out : Fits(out[k].packet, out[k].sent, place[out[k].packet])
BY DEF Intact, Fits

\* Nothing has come or left.
LEMMA CarriedInit == Init => Carried /\ Intact
BY DEF Init, Carried, Intact, Active

\* A packet is read once, and only a Nat changes it.
LEMMA CarriedNext ==
  ASSUME Built, Placed, Kept, Carried, NEW p \in Packets, Traffic(p)
  PROVE  Carried'
<1>1. /\ option' = option /\ Objects' = Objects /\ (\A i : Name(i)' = Name(i)) /\ pc \in Late
      /\ \A i \in Objects : i \in Nat /\ i >= 1
  <2>1. Len(chain.filters) \in Nat /\ Objects = 1..Len(chain.filters)
    BY ChainFacts
  <2>2. \A i \in Objects : i \in Nat /\ i >= 1
    BY <2>1
  <2> QED
    BY <2>2, TrafficChain DEF Traffic, Late
<1>2. /\ DOMAIN pkt = Packets /\ place \in [Packets -> Places] /\ DOMAIN at = Packets
      /\ \A q \in Packets : Active(q) => CarriedBy(q)
  BY DEF Placed, Carried
<1>3. ASSUME NEW q \in Packets, Active(q), pkt'[q] = pkt[q], Translated(q)' <=> Translated(q)
      PROVE  CarriedBy(q)'
  <2>1. Came(q)' = Came(q)
    BY <1>1 DEF Came
  <2> QED
    BY <1>1, <1>2, <1>3, <2>1 DEF CarriedBy, NearIp, NearPort, FarIp, FarPort, Target
<1>4. ASSUME NEW q \in Packets, at'[q] = at[q] PROVE Translated(q)' <=> Translated(q)
  BY <1>1, <1>4 DEF Translated
<1>5. ASSUME NEW q \in Packets, at[q] \in Objects, at'[q] = at[q] + 1, Name(at[q]) # "Nat"
      PROVE  Translated(q)' <=> Translated(q)
  <2>1. at[q] \in Nat /\ \A i \in Objects : i \in Nat
    BY <1>1, <1>5
  <2>2. \A i \in Objects : (i < at[q] + 1) <=> (i < at[q] \/ i = at[q])
    BY <2>1
  <2> QED
    BY <1>1, <1>5, <2>2 DEF Translated
<1>6. ASSUME pkt' = pkt, at' = at, \A q \in Packets : Active(q)' => Active(q) PROVE Carried'
  BY <1>2, <1>3, <1>4, <1>6 DEF Carried
<1>7. ASSUME DOMAIN pkt' = Packets,
             \A q \in Packets : q # p => place'[q] = place[q] /\ pkt'[q] = pkt[q] /\ at'[q] = at[q],
             CarriedBy(p)'
      PROVE  Carried'
  BY <1>2, <1>3, <1>4, <1>7 DEF Carried, Active
<1>8. CASE Enters(p)
  <2>1. /\ pkt' = [pkt EXCEPT ![p] = Read(p)] /\ at' = [at EXCEPT ![p] = 1]
        /\ place' = [place EXCEPT ![p] = "moving"]
    BY <1>8 DEF Enters, Comes
  <2>2. /\ pkt'[p] = Read(p) /\ ~Translated(p)' /\ Came(p)' = Came(p)
    <3>1. at'[p] = 1 /\ pkt'[p] = Read(p) /\ Came(p)' = Came(p)
      BY <1>1, <1>2, <2>1 DEF Came
    <3>2. \A i \in Objects : ~(i < 1)
      BY <1>1
    <3> QED
      BY <1>1, <3>1, <3>2 DEF Translated
  <2>3. CarriedBy(p)'
    BY <1>1, <2>2 DEF CarriedBy, NearIp, NearPort, FarIp, FarPort, Read, ReadIpv4, ReadIpv6, Came
  <2> QED
    BY <1>2, <1>7, <2>1, <2>3
<1>9. CASE Forwards(p)
  <2>1. /\ at' = [at EXCEPT ![p] = at[p] + 1] /\ place' = [place EXCEPT ![p] = "moving"]
        /\ Active(p) /\ at[p] \in Objects /\ CarriedBy(p)
    BY <1>2, <1>9 DEF Forwards, Comes, Moving, Active, Placed
  <2>2. CASE Name(at[p]) # "Nat"
    <3>1. pkt' = pkt
      BY <1>9, <2>2 DEF Forwards
    <3>2. CarriedBy(p)'
      BY <1>2, <1>3, <1>5, <2>1, <2>2, <3>1
    <3> QED
      BY <1>2, <1>7, <2>1, <3>1, <3>2
  <2>3. CASE Name(at[p]) = "Nat"
    <3>1. Translated(p)' /\ Came(p)' = Came(p) /\ option' = option
      <4>0. at[p] \in Nat
        BY <1>1, <2>1
      <4>1. at[p] < at[p] + 1 /\ at'[p] = at[p] + 1
        BY <1>2, <2>1, <4>0
      <4> QED
        BY <1>1, <2>1, <2>3, <4>1 DEF Translated, Came
    <3>2. PICK port \in {NearPort(p), NatPort} :
            pkt' = IF p \in Ingoing
                   THEN [pkt EXCEPT ![p].dstIp_ = IntHost, ![p].dport_ = port]
                   ELSE [pkt EXCEPT ![p].srcIp_ = ExtIp, ![p].sport_ = port]
      BY <1>9, <2>3 DEF Forwards, Translate, NearPort
    <3>3. /\ DOMAIN pkt' = Packets /\ \A q \in Packets : q # p => pkt'[q] = pkt[q]
          /\ pkt'[p] = IF p \in Ingoing THEN [pkt[p] EXCEPT !.dstIp_ = IntHost, !.dport_ = port]
                                        ELSE [pkt[p] EXCEPT !.srcIp_ = ExtIp, !.sport_ = port]
      BY <1>2, <3>2
    <3>4. CarriedBy(p)'
      BY <2>1, <3>1, <3>3 DEF CarriedBy, NearIp, NearPort, FarIp, FarPort, Target
    <3> QED
      BY <1>2, <1>7, <2>1, <3>3, <3>4
  <2> QED
    BY <2>2, <2>3
<1>10. CASE Keeps(p) \/ \E how : Finishes(p, how)
  BY <1>2, <1>6, <1>10 DEF Keeps, Finishes, Moving, Active
<1>11. ASSUME NEW i \in Objects, NEW k \in 1..Len(kept), Releases(p, i, k) PROVE Carried'
  <2>1. place[p] = "held" /\ at[p] = i
    BY <1>11, LeavesHeld DEF Releases
  <2>2. /\ at' = [at EXCEPT ![p] = i + 1] /\ place' = [place EXCEPT ![p] = "moving"]
        /\ pkt' = pkt /\ Name(i) # "Nat"
    BY <1>11 DEF Releases, Comes
  <2>3. CarriedBy(p)'
    BY <1>2, <1>3, <1>5, <2>1, <2>2 DEF Active
  <2> QED
    BY <1>2, <1>7, <2>2, <2>3
<1>12. ASSUME NEW i \in Objects, NEW k \in 1..Len(kept), Pops(p, i, k) PROVE Carried'
  BY <1>2, <1>6, <1>12 DEF Pops, Active
<1> QED
  BY <1>8, <1>9, <1>10, <1>11, <1>12 DEF Traffic

\* libnet builds again what the packet was read from, but for what the packet itself
\* knows better.
LEMMA BuildFields ==
  ASSUME NEW packet, NEW field \in DOMAIN packet.packetData_, field \notin {"id", "options", "flow"}
  PROVE  LET ip == packet.packetData_
             ported == HasPorts(ip.proto)
         IN  /\ BuildIpv4(packet)[field] =
                  IF field = "fragOff" THEN getFragmentFlags(packet)
                  ELSE IF field = "src" THEN packet.srcIp_
                  ELSE IF field = "dst" THEN packet.dstIp_
                  ELSE IF field = "sport" /\ ported THEN packet.sport_
                  ELSE IF field = "dport" /\ ported THEN packet.dport_
                  ELSE ip[field]
             /\ BuildIpv6(packet)[field] = IF field = "src" THEN packet.srcIp_
                                           ELSE IF field = "dst" THEN packet.dstIp_
                                           ELSE ip[field]
<1> DEFINE ip == packet.packetData_
<1>1. BuildIpv6(packet)[field] = IF field = "src" THEN packet.srcIp_
                                 ELSE IF field = "dst" THEN packet.dstIp_ ELSE ip[field]
  BY DEF BuildIpv6
<1>2. BuildIpv4(packet)[field] =
        IF field = "fragOff" THEN getFragmentFlags(packet)
        ELSE IF field = "src" THEN packet.srcIp_
        ELSE IF field = "dst" THEN packet.dstIp_
        ELSE IF field = "sport" /\ HasPorts(ip.proto) THEN packet.sport_
        ELSE IF field = "dport" /\ HasPorts(ip.proto) THEN packet.dport_
        ELSE ip[field]
  BY DEF BuildIpv4
<1> QED
  BY <1>1, <1>2

\* A packet has come through all the Nats there are when it comes to the output.
LEMMA TranslatedAtTheEnd ==
  ASSUME Built, pc \in Late, NEW p \in Packets, at[p] \in Objects, Name(at[p]) = "OutputLibnet"
  PROVE  Translated(p) <=> Member(chain, "Nat") # 0
<1> DEFINE n == Len(chain.filters)
<1>1. /\ n \in Nat /\ Objects = 1..n
      /\ \A i \in Objects : Name(i) \in {"Output", "OutputLibnet"} <=> i = n
  BY ChainEnds
<1>2. at[p] = n
  BY <1>1
<1>3. Chained(chain) /\ "Nat" \in Known
  BY ChainFacts DEF Known, Shapers
<1>4. IF Member(chain, "Nat") = 0 THEN \A i \in Objects : Name(i) # "Nat"
      ELSE Member(chain, "Nat") \in Objects /\ Name(Member(chain, "Nat")) = "Nat"
  BY <1>1, <1>3 DEF Chained, Member, Name
<1>5. \A i \in Objects : Name(i) = "Nat" => i < n
  <2> TAKE i \in Objects
  <2> HAVE Name(i) = "Nat"
  <2>1. i # n
    BY <1>1
  <2> HIDE DEF n
  <2> QED
    BY <1>1, <2>1
<1> QED
  BY <1>2, <1>4, <1>5 DEF Translated

\* Output has the kernel send what came.
LEMMA AcceptedFits ==
  ASSUME Carried, NEW p \in Packets, Active(p)
  PROVE  Fits(p, pkt[p].packetData_, "accepted")
<1>1. pkt[p].packetData_ = Came(p)
  BY DEF Carried, CarriedBy
<1> QED
  BY <1>1 DEF Fits, Came

\* OutputLibnet writes what came, but for what the Nats have changed and libnet
\* makes anew.
LEMMA WrittenFits ==
  ASSUME Built, pc \in Late, Carried, NEW p \in Packets, Active(p),
         at[p] \in Objects, Name(at[p]) = "OutputLibnet"
  PROVE  Fits(p, Build(p), "written")
<1> DEFINE came == Came(p)
           nat == Member(chain, "Nat") # 0
           address == IF p \in Ingoing THEN "dst" ELSE "src"
           port == IF p \in Ingoing THEN "dport" ELSE "sport"
           due == IF nat THEN [came EXCEPT ![address] = Target(p)] ELSE came
<1> SUFFICES ASSUME NEW field \in DOMAIN came, field \notin {"id", "options", "flow"}
             PROVE  \/ Build(p)[field] = due[field]
                    \/ nat /\ field = port /\ HasPorts(came.proto) /\ Build(p)[field] = NatPort
  BY DEF Fits, Came, Target
<1>1. CarriedBy(p) /\ pkt[p].packetData_ = came
  BY DEF Carried, CarriedBy
<1>2. nat <=> Translated(p)
  BY TranslatedAtTheEnd
<1>3. due[field] = IF nat /\ field = address THEN Target(p) ELSE came[field]
  OBVIOUS
<1>4. /\ pkt[p].srcIp_ = IF nat /\ p \notin Ingoing THEN Target(p) ELSE came.src
      /\ pkt[p].dstIp_ = IF nat /\ p \in Ingoing THEN Target(p) ELSE came.dst
  BY <1>1, <1>2 DEF CarriedBy, NearIp, FarIp
<1>5. /\ pkt[p].sport_ = Ports(came).s \/ (p \notin Ingoing /\ nat /\ pkt[p].sport_ = NatPort)
      /\ pkt[p].dport_ = Ports(came).d \/ (p \in Ingoing /\ nat /\ pkt[p].dport_ = NatPort)
  BY <1>1, <1>2 DEF CarriedBy, NearPort, FarPort
<1>6. HasPorts(came.proto) => Ports(came).s = came.sport /\ Ports(came).d = came.dport
  BY DEF Ports, HasPorts
<1>7. CASE option.ipv6
  <2>1. ~nat
    BY <1>7, ChainFacts
  <2>2. Build(p)[field] = IF field = "src" THEN pkt[p].srcIp_
                          ELSE IF field = "dst" THEN pkt[p].dstIp_ ELSE came[field]
    BY <1>1, <1>7, BuildFields DEF Build
  <2> HIDE DEF came, nat, due
  <2> QED
    BY <1>3, <1>4, <2>1, <2>2
<1>8. CASE ~option.ipv6
  <2>1. getFragmentFlags(pkt[p]) = came.fragOff
    <3>1. pkt[p].ipFrag_ = came.fragOff
      BY <1>1, <1>8 DEF CarriedBy
    <3>2. came.fragOff \in Nat /\ came.fragOff % 16384 = 0
      BY <1>8, WholeAssumption DEF Came
    <3>3. ASSUME NEW m \in Nat, m % 16384 = 0 PROVE (m \div 8192) * 8192 = m
      BY <3>3
    <3> QED
      BY <3>1, <3>2, <3>3 DEF getFragmentFlags
  <2>2. Build(p)[field] = IF field = "fragOff" THEN getFragmentFlags(pkt[p])
                          ELSE IF field = "src" THEN pkt[p].srcIp_
                          ELSE IF field = "dst" THEN pkt[p].dstIp_
                          ELSE IF field = "sport" /\ HasPorts(came.proto) THEN pkt[p].sport_
                          ELSE IF field = "dport" /\ HasPorts(came.proto) THEN pkt[p].dport_
                          ELSE came[field]
    BY <1>1, <1>8, BuildFields DEF Build
  <2> HIDE DEF came, nat, due
  <2>3. CASE field \notin {"fragOff", "src", "dst", "sport", "dport"}
    BY <1>3, <2>2, <2>3
  <2>4. CASE field = "fragOff"
    BY <1>3, <2>1, <2>2, <2>4
  <2>5. CASE field \in {"src", "dst"}
    BY <1>3, <1>4, <2>2, <2>5
  <2>6. CASE field \in {"sport", "dport"}
    BY <1>3, <1>5, <1>6, <2>2, <2>6
  <2> QED
    BY <2>3, <2>4, <2>5, <2>6
<1> QED
  BY <1>7, <1>8

\* What leaves fits, and what has left is not changed.
LEMMA IntactNext ==
  ASSUME Built, Placed, Kept, Left, Carried, Intact, NEW p \in Packets, Traffic(p)
  PROVE  Intact'
<1>1. /\ pc \in Late /\ place \in [Packets -> Places] /\ Len(out) \in Nat /\ DOMAIN out = 1..Len(out)
      /\ out \in Seq({out[k] : k \in 1..Len(out)})
      /\ \A k \in 1..Len(out) : /\ out[k].packet \in Packets
                                /\ place[out[k].packet] \in {"accepted", "written"}
                                /\ Fits(out[k].packet, out[k].sent, place[out[k].packet])
  BY IntactFits DEF Traffic, Late, Placed, Left
<1>2. place[p] \in {"outside", "moving", "held"}
  BY LeavesHeld DEF Traffic, Enters, Forwards, Keeps, Finishes, Moving, Releases, Pops
<1>3. UNCHANGED <<option, chain>>
  BY TrafficChain
<1>4. \A q, sent, how : Fits(q, sent, how)' <=> Fits(q, sent, how)
  BY <1>3 DEF Fits, Member
<1>5. ASSUME out' = out, NEW how, place' = [place EXCEPT ![p] = how] PROVE Intact'
  <2>1. \A k \in 1..Len(out) : place'[out[k].packet] = place[out[k].packet]
    BY <1>1, <1>2, <1>5
  <2>2. \A k \in DOMAIN out' : Fits(out'[k].packet, out'[k].sent, place'[out'[k].packet])
    BY <1>1, <1>5, <2>1
  <2>3. (\A k \in DOMAIN out : Fits(out[k].packet, out[k].sent, place[out[k].packet]))'
    BY <1>4, <2>2
  <2> QED
    BY <2>3, IntactFits, PTL
<1>6. ASSUME NEW d, out' = Append(out, [packet |-> p, sent |-> d]),
             NEW how, place' = [place EXCEPT ![p] = how], Fits(p, d, how)
      PROVE  Intact'
  <2> DEFINE r == [packet |-> p, sent |-> d]
             S == {out[k] : k \in 1..Len(out)} \cup {r}
  <2>1. /\ Len(out') = Len(out) + 1 /\ DOMAIN out' = 1..Len(out) + 1 /\ out'[Len(out) + 1] = r
        /\ \A k \in 1..Len(out) : out'[k] = out[k]
    <3>1. out \in Seq(S) /\ r \in S /\ out' = Append(out, r)
      BY <1>1, <1>6, SeqMonotonic
    <3> HIDE DEF S, r
    <3> QED
      BY <1>1, <3>1
  <2>2. \A k \in 1..Len(out) + 1 : k \in 1..Len(out) \/ k = Len(out) + 1
    BY <1>1
  <2>3. /\ place'[p] = how
        /\ \A k \in 1..Len(out) : place'[out[k].packet] = place[out[k].packet]
    BY <1>1, <1>2, <1>6
  <2>4. r.packet = p /\ r.sent = d
    OBVIOUS
  <2> HIDE DEF r
  <2>5. \A k \in DOMAIN out' : Fits(out'[k].packet, out'[k].sent, place'[out'[k].packet])
    BY <1>1, <1>6, <2>1, <2>2, <2>3, <2>4
  <2>6. (\A k \in DOMAIN out : Fits(out[k].packet, out[k].sent, place[out[k].packet]))'
    BY <1>4, <2>5
  <2> QED
    BY <2>6, IntactFits, PTL
<1>7. CASE Enters(p) \/ Forwards(p) \/ Keeps(p)
  BY <1>5, <1>7 DEF Enters, Forwards, Keeps, Comes
<1>8. ASSUME NEW how, Finishes(p, how) PROVE Intact'
  <2>1. Fits(p, pkt[p].packetData_, "accepted")
    BY <1>8, AcceptedFits DEF Finishes, Moving, Active
  <2> QED
    BY <1>5, <1>6, <1>8, <2>1 DEF Finishes
<1>9. ASSUME NEW i \in Objects, NEW k \in 1..Len(kept), Releases(p, i, k) PROVE Intact'
  BY <1>5, <1>9 DEF Releases, Comes
<1>10. ASSUME NEW i \in Objects, NEW k \in 1..Len(kept), Pops(p, i, k) PROVE Intact'
  <2>1. Active(p) /\ at[p] \in Objects /\ Name(at[p]) = "OutputLibnet"
    BY <1>10, LeavesHeld DEF Active, Pops
  <2>2. Fits(p, Build(p), "written")
    BY <1>1, <2>1, WrittenFits
  <2> QED
    BY <1>5, <1>6, <1>10, <2>2 DEF Pops
<1> QED
  BY <1>7, <1>8, <1>9, <1>10 DEF Traffic

\* Other steps do not touch the packets, or there are none.
LEMMA IntactUnmoved ==
  ASSUME Started, Outside, Left, Carried, Intact, Setup \/ Initialise(Order) \/ Quiet
  PROVE  Carried' /\ Intact'
<1>1. UNCHANGED packetVars
  BY Unmoved
<1>2. CASE UNCHANGED <<option, chain>>
  <2>1. \A p \in Packets : CarriedBy(p)' <=> CarriedBy(p)
    BY <1>1, <1>2 DEF packetVars, CarriedBy, Came, NearIp, NearPort, FarIp, FarPort, Translated, Target,
                      Objects, Name
  <2>2. Carried'
    BY <1>1, <2>1 DEF packetVars, Carried, Active
  <2>3. Intact'
    BY <1>1, <1>2 DEF packetVars, Intact, Member
  <2> QED
    BY <2>2, <2>3
<1>3. CASE \A p \in Packets : place[p] = "outside"
  <2>1. Len(out) \in Nat /\ DOMAIN out = 1..Len(out) /\ \A k \in 1..Len(out) : FALSE
    BY <1>3 DEF Left
  <2>2. Intact'
    BY <1>1, <2>1 DEF packetVars, Intact
  <2> QED
    BY <1>1, <1>3, <2>2 DEF packetVars, Carried, Active
<1> QED
  BY <1>2, <1>3, Unmoved

-----------------------------------------------------------------------------
(* The way of the packets. *)

\* A packet has come to every filter up to the one where it is.
Way(p) ==
  /\ trail[p] \in Seq(Known)
  /\ place[p] = "outside" => trail[p] = <<>>
  /\ place[p] # "outside" =>
       Len(trail[p]) = at[p] /\ \A i \in 1..at[p] : trail[p][i] = Name(i)
  /\ place[p] \in {"accepted", "written"} => at[p] = Len(chain.filters)

Travelled == DOMAIN trail = Packets /\ \A p \in Packets : Way(p)

\* No packet has come to a filter.
LEMMA TravelledInit == Init => Travelled
BY DEF Init, Travelled, Way

\* Other steps do not touch the packets, or there are none.
LEMMA TravelledUnmoved ==
  ASSUME Started, Outside, Travelled, Setup \/ Initialise(Order) \/ Quiet
  PROVE  Travelled'
<1>1. UNCHANGED packetVars
  BY Unmoved
<1>2. CASE UNCHANGED <<option, chain>>
  BY <1>1, <1>2 DEF packetVars, Travelled, Way, Name
<1>3. CASE \A p \in Packets : place[p] = "outside"
  BY <1>1, <1>3 DEF packetVars, Travelled, Way
<1> QED
  BY <1>2, <1>3, Unmoved

\* A packet goes on to the next filter, and leaves from the last.
LEMMA TravelledNext ==
  ASSUME Built, Placed, Kept, Travelled, NEW p \in Packets, Traffic(p)
  PROVE  Travelled'
<1>1. /\ (\A i : Name(i)' = Name(i)) /\ chain' = chain /\ pc \in Late
      /\ \A i \in Objects : i \in Nat /\ Name(i) \in Known
  <2>1. Len(chain.filters) \in Nat /\ Objects = 1..Len(chain.filters)
    BY ChainFacts
  <2>2. \A i \in Objects : i \in Nat
    BY <2>1
  <2> QED
    BY <2>2, ChainFacts, TrafficChain DEF Traffic, Late
<1>2. /\ place \in [Packets -> Places] /\ DOMAIN at = Packets /\ DOMAIN trail = Packets
      /\ \A q \in Packets : Way(q)
      /\ \A q \in Packets : place[q] # "outside" => at[q] \in Objects
  BY DEF Placed, Travelled
<1>3. \A i \in Objects : Name(i) \in {"Output", "OutputLibnet"} => i = Len(chain.filters)
  BY <1>1, ChainEnds
<1>4. ASSUME NEW i \in Objects, NEW origin, Comes(p, i, origin),
             \/ place[p] = "outside" /\ i = 1
             \/ place[p] # "outside" /\ i = at[p] + 1
      PROVE  Travelled'
  <2> DEFINE t == trail[p]
             f == Name(i)
  <2>1. /\ at' = [at EXCEPT ![p] = i] /\ place' = [place EXCEPT ![p] = "moving"]
        /\ trail' = [trail EXCEPT ![p] = Append(t, f)]
    BY <1>4 DEF Comes
  <2>2. t \in Seq(Known) /\ f \in Known /\ i \in Nat
    BY <1>1, <1>2, <1>4 DEF Way
  <2>3. Len(t) = i - 1 /\ \A j \in 1..i - 1 : t[j] = Name(j)
    <3>1. CASE place[p] = "outside" /\ i = 1
      <4>1. t = <<>>
        BY <1>2, <3>1 DEF Way
      <4>2. Len(<<>>) = 0 /\ 1 - 1 = 0 /\ \A j \in 1..0 : FALSE
        OBVIOUS
      <4> QED
        BY <3>1, <4>1, <4>2
    <3>2. CASE place[p] # "outside" /\ i = at[p] + 1
      <4>1. at[p] \in Nat
        BY <1>1, <1>2, <3>2
      <4>2. at[p] = i - 1
        BY <3>2, <4>1
      <4> QED
        BY <1>2, <3>2, <4>2 DEF Way
    <3> QED
      BY <1>4, <3>1, <3>2
  <2> HIDE DEF t, f
  <2>4. /\ Append(t, f) \in Seq(Known) /\ Len(Append(t, f)) = i
        /\ \A j \in 1..i : Append(t, f)[j] = IF j = i THEN f ELSE t[j]
    BY <2>2, <2>3
  <2>5. \A j \in 1..i : j = i \/ j \in 1..i - 1
    BY <2>2
  <2>6. \A j \in 1..i : Append(t, f)[j] = Name(j)
    BY <2>3, <2>4, <2>5 DEF f
  <2>7. at'[p] = i /\ place'[p] = "moving" /\ trail'[p] = Append(t, f)
    BY <1>2, <2>1
  <2>8. Way(p)'
    BY <1>1, <2>4, <2>6, <2>7 DEF Way
  <2>9. \A q \in Packets : q # p => Way(q)'
    BY <1>1, <1>2, <2>1 DEF Way
  <2> QED
    BY <1>2, <2>1, <2>8, <2>9 DEF Travelled
<1>5. ASSUME UNCHANGED <<at, trail>>, place[p] # "outside",
             NEW how \in {"held", "dropped", "forgotten", "lost", "accepted", "written"},
             place' = [place EXCEPT ![p] = how],
             how \in {"accepted", "written"} => Name(at[p]) \in {"Output", "OutputLibnet"}
      PROVE  Travelled'
  <2>1. Way(p)'
    BY <1>1, <1>2, <1>3, <1>5 DEF Way
  <2>2. \A q \in Packets : q # p => Way(q)'
    BY <1>1, <1>2, <1>5 DEF Way
  <2> QED
    BY <1>2, <1>5, <2>1, <2>2 DEF Travelled
<1>6. CASE Enters(p)
  BY <1>4, <1>6 DEF Enters, Comes
<1>7. CASE Forwards(p)
  BY <1>4, <1>7 DEF Forwards, Moving, Comes
<1>8. CASE Keeps(p)
  BY <1>5, <1>8 DEF Keeps, Moving
<1>9. ASSUME NEW how, Finishes(p, how) PROVE Travelled'
  BY <1>5, <1>9 DEF Finishes, Moving
<1>10. ASSUME NEW i \in Objects, NEW k \in 1..Len(kept), Releases(p, i, k) PROVE Travelled'
  <2>1. place[p] = "held" /\ at[p] = i
    BY <1>10, LeavesHeld DEF Releases
  <2> QED
    BY <1>4, <1>10, <2>1 DEF Releases, Comes
<1>11. ASSUME NEW i \in Objects, NEW k \in 1..Len(kept), Pops(p, i, k) PROVE Travelled'
  <2>1. place[p] = "held" /\ at[p] = i
    BY <1>11, LeavesHeld DEF Pops
  <2> QED
    BY <1>5, <1>11, <2>1 DEF Pops
<1> QED
  BY <1>6, <1>7, <1>8, <1>9, <1>10, <1>11 DEF Traffic

-----------------------------------------------------------------------------
(* Who gets no verdict.                                                       *)

(* A packet without one was forgotten by a Nat or a TokenBucketFilter, behind  *)
(* an Input: InputDrop has given its verdict to all that come by.              *)
LastWord ==
  \A p \in Packets :
    /\ place[p] = "forgotten" => Name(at[p]) \in Forgetters
    /\ place[p] = "lost" => Name(1) = "InputDrop"
    /\ place[p] \in NoVerdictEnds /\ Name(1) = "InputDrop" => told[p] = <<"drop">>

\* Whoever forgets a packet does so behind the input, and only an OutputLibnet
\* loses one.
LEMMA LastWordNext ==
  ASSUME Built, Started, Outside, Placed, Kept, Verdicts, LastWord, [Next]_vars
  PROVE  LastWord'
<1>1. CASE Setup \/ Initialise(Order) \/ Quiet
  <2>1. /\ UNCHANGED <<place, at, told>>
        /\ \/ chain' = chain \/ \A p \in Packets : place[p] = "outside"
    BY <1>1, Unmoved DEF packetVars
  <2> QED
    BY <2>1 DEF LastWord, Name, NoVerdictEnds
<1>2. ASSUME NEW p \in Packets, Traffic(p) PROVE LastWord'
  <2> DEFINE n == Len(chain.filters)
  <2>1. pc \in Late /\ \A i : Name(i)' = Name(i)
    BY <1>2, TrafficChain DEF Traffic, Late
  <2>2. /\ \A i \in Objects : /\ Name(i) \in {"Input", "InputDrop"} <=> i = 1
                              /\ Name(i) \in {"Output", "OutputLibnet"} <=> i = n
        /\ Name(1) = "InputDrop" <=> Name(n) = "OutputLibnet"
        /\ n >= 2 /\ n \in Nat
    BY <2>1, ChainEnds
  <2> HIDE DEF n
  <2>3. /\ DOMAIN place = Packets /\ DOMAIN told = Packets /\ DOMAIN at = Packets
        /\ \A q \in Packets : place[q] # "outside" => at[q] \in Objects
        /\ \A q \in Packets : Active(q) =>
             told[q] = IF Name(1) = "InputDrop" /\ at[q] # 1 THEN <<"drop">> ELSE <<>>
    BY DEF Placed, Verdicts, Active
  <2> DEFINE W(q, pl, a, t) ==
               /\ pl = "forgotten" => Name(a) \in Forgetters
               /\ pl = "lost" => Name(1) = "InputDrop"
               /\ pl \in NoVerdictEnds /\ Name(1) = "InputDrop" => t = <<"drop">>
  <2>4. ASSUME \A q \in Packets : q # p => place'[q] = place[q] /\ at'[q] = at[q] /\ told'[q] = told[q],
               W(p, place'[p], at'[p], told'[p])
        PROVE  LastWord'
    <3>1. \A q \in Packets : W(q, place[q], at[q], told[q])
      BY DEF LastWord
    <3>2. \A q \in Packets : W(q, place'[q], at'[q], told'[q])
      BY <2>4, <3>1
    <3> QED
      BY <2>1, <3>2 DEF LastWord
  <2>5. ASSUME place'[p] \notin NoVerdictEnds,
               \A q \in Packets : q # p => place'[q] = place[q] /\ at'[q] = at[q] /\ told'[q] = told[q]
        PROVE  LastWord'
    BY <2>4, <2>5 DEF NoVerdictEnds
  <2>6. CASE Enters(p) \/ Keeps(p)
    BY <2>3, <2>5, <2>6 DEF Enters, Keeps, Comes, NoVerdictEnds
  <2>7. CASE Forwards(p)
    <3>1. \A q \in Packets : q # p => told'[q] = told[q]
      BY <2>3, <2>7 DEF Forwards, SetVerdict
    <3> QED
      BY <2>3, <2>5, <2>7, <3>1 DEF Forwards, Comes, NoVerdictEnds
  <2>8. ASSUME NEW how, Finishes(p, how) PROVE LastWord'
    <3>1. CASE how = "forgotten"
      <4>1. /\ Active(p) /\ Name(at[p]) \in Forgetters /\ told' = told /\ at' = at
            /\ place' = [place EXCEPT ![p] = "forgotten"]
        BY <2>8, <3>1 DEF Finishes, Moving, Active
      <4>2. at[p] \in Objects /\ at[p] # 1
        BY <2>2, <2>3, <4>1 DEF Active, Forgetters
      <4> QED
        BY <2>3, <2>4, <4>1, <4>2
    <3>2. CASE how \in {"dropped", "accepted"}
      <4>1. \A q \in Packets : q # p => told'[q] = told[q]
        BY <2>3, <2>8, <3>2 DEF Finishes, SetVerdict
      <4> QED
        BY <2>3, <2>5, <2>8, <3>2, <4>1 DEF Finishes, NoVerdictEnds
    <3> QED
      BY <2>8, <3>1, <3>2 DEF Finishes
  <2>9. ASSUME NEW i \in Objects, NEW k \in 1..Len(kept), Releases(p, i, k) PROVE LastWord'
    BY <2>3, <2>5, <2>9 DEF Releases, Comes, NoVerdictEnds
  <2>10. ASSUME NEW i \in Objects, NEW k \in 1..Len(kept), Pops(p, i, k) PROVE LastWord'
    <3>1. place[p] = "held" /\ at[p] = i /\ Name(i) = "OutputLibnet" /\ told' = told /\ at' = at
      BY <2>10, LeavesHeld DEF Pops
    <3>2. Name(1) = "InputDrop" /\ i # 1
      BY <2>2, <3>1
    <3>3. told[p] = <<"drop">>
      BY <2>3, <3>1, <3>2 DEF Active
    <3> QED
      BY <2>3, <2>4, <2>10, <3>1, <3>2, <3>3 DEF Pops
  <2> QED
    BY <1>2, <2>6, <2>7, <2>8, <2>9, <2>10 DEF Traffic
<1> QED
  BY <1>1, <1>2, Kinds

-----------------------------------------------------------------------------
(* What ends the loop.                                                        *)

NatOnce(s) == \A i, j \in 1..Len(s) : s[i] = "Nat" /\ s[j] = "Nat" => i = j

(* The chains of a list have the same input.                                  *)
Twins ==
  option.filters # <<>> /\ pc \in Late => chain4.filters[1] = chain6.filters[1]

(* If Nat is listed once, it is once in the chain, or yet to come.            *)
Nats ==
  NatOnce(option.filters) =>
    /\ NatOnce(chain4.filters)
    /\ \A i \in 1..Len(toAdd), j \in 1..Len(chain4.filters) :
         toAdd[i] = "Nat" => chain4.filters[j] # "Nat"

(* The command lines with which no pointer that is not set is followed.       *)
Safe == IF option.ipv6 THEN option.filters # <<>> ELSE NatOnce(option.filters)

\* The command line stays what it was.
LEMMA OptionKept ==
  ASSUME Built, Outside, [Next]_vars
  PROVE  option' = option
<1>1. CASE InitAll \/ AddFilter
  BY <1>1 DEF InitAll, AddFilter
<1>2. CASE ~InitAll /\ ~AddFilter
  BY <1>2, ChainsKept
<1> QED
  BY <1>1, <1>2

\* Only these steps follow a pointer that is not set.
LEMMA Crashes ==
  ASSUME [Next]_vars, pc # "crashed", pc' = "crashed"
  PROVE  SetsNullsQH \/ \E p \in Packets : NatCrash(p)
<1>1. CASE UNCHANGED vars
  BY <1>1 DEF vars, setupVars
<1>2. CASE Begin \/ InitAll \/ AddFilter \/ Configure \/ Execute \/ Execute6 \/ HandleTimeout \/ Return
  BY <1>2 DEF Begin, InitAll, AddFilter, Configure, Execute, Execute6, HandleTimeout, Return, setupVars
<1>3. CASE InitFilters \/ Init6Filters \/ Crash
  BY <1>3 DEF InitFilters, Init6Filters, Initialise, Crash
<1>4. ASSUME NEW p \in Packets, Handle(p) PROVE NatCrash(p)
  <2>1. CASE Input(p) \/ InputDrop(p) \/ Loss(p) \/ DynamicLoss(p) \/ NatFilter(p)
    BY <2>1 DEF Input, InputDrop, Loss, DynamicLoss, NatFilter, setupVars
  <2>2. CASE Queue(p) \/ Burst(p) \/ TokenBucketFilter(p) \/ Output(p)
    BY <2>2 DEF Queue, Burst, TokenBucketFilter, Output, Keep, setupVars
  <2> QED
    BY <1>4, <2>1, <2>2 DEF Handle
<1>5. CASE \E p \in Packets : \/ NewPacket(p) \/ NewPacket6(p)
                            \/ \E i \in Objects : \/ Release(i, p)
                                                  \/ OutputPopHandler(i, p)
                                                  \/ Output6PopHandler(i, p)
  BY <1>5, OthersKeep
<1> QED
  BY <1>1, <1>2, <1>3, <1>4, <1>5 DEF Next, Work

\* Both chains begin with what main() has put before the list.
LEMMA TwinsNext ==
  ASSUME Built, Outside, Twins, [Next]_vars
  PROVE  Twins'
<1>1. CASE InitAll
  BY <1>1 DEF InitAll, Twins
<1>2. CASE AddFilter
  <2> DEFINE list == FilterList(option)
             f == Head(toAdd)
  <2>1. /\ pc = "init" /\ toAdd # <<>> /\ toAdd' = Tail(toAdd) /\ option' = option
        /\ chain4' = IF f \in Known THEN Add(chain4, f) ELSE chain4
        /\ chain6' = IF f \in Known \ {"Nat"} THEN Add(chain6, f) ELSE chain6
        /\ pc' = IF toAdd' = <<>> THEN "configure" ELSE "init"
    BY <1>2 DEF AddFilter
  <2>2. /\ option \in Options /\ Chained(chain4) /\ Chained(chain6)
        /\ Listed(chain4, toAdd, list) /\ Listed(chain6, toAdd, list)
    BY <2>1 DEF Built, Building, Early
  <2>3. ASSUME option.filters # <<>>, Tail(toAdd) = <<>>
        PROVE  chain4'.filters[1] = chain6'.filters[1]
    <3>1. Len(list) \in Nat /\ Len(list) >= 3
      BY <2>2, <2>3, ListEnds
    <3>2. toAdd \in Seq(Names) /\ Len(toAdd) = 1
      <4>1. toAdd \in Seq(Names) /\ toAdd # <<>>
        BY <2>1, <2>2 DEF Listed
      <4>2. Len(toAdd) \in Nat /\ Len(toAdd) > 0 /\ Len(Tail(toAdd)) = Len(toAdd) - 1
        BY <4>1
      <4>3. Len(Tail(toAdd)) = 0
        <5>1. Len(<<>>) = 0
          OBVIOUS
        <5> QED
          BY <2>3, <5>1, Zenon
      <4>4. \A m \in Nat : m - 1 = 0 => m = 1
        OBVIOUS
      <4>5. Len(toAdd) - 1 = 0
        BY <4>2, <4>3, Zenon
      <4> QED
        BY <4>1, <4>2, <4>4, <4>5, Zenon
    <3>3. Len(list) - Len(toAdd) > 0
      BY <3>1, <3>2
    <3>4. ASSUME NEW c, NEW d, Chained(c), Listed(c, toAdd, list),
                 NEW g \in Known, d = Add(c, g) \/ d = c
          PROVE  d.filters[1] = list[1]
      <4>1. Len(c.filters) >= 1 /\ c.filters[1] = list[1] /\ c.filters \in Seq(Known)
        BY <3>3, <3>4 DEF Listed, Chained
      <4>2. d.filters = Append(c.filters, g) \/ d.filters = c.filters
        BY <3>4, AddChained
      <4> QED
        BY <4>1, <4>2
    <3>5. CASE f \in Known
      BY <2>1, <2>2, <3>4, <3>5
    <3>6. CASE f \notin Known
      BY <2>1, <2>2, <3>3, <3>6 DEF Listed
    <3> QED
      BY <3>5, <3>6
  <2> QED
    BY <2>1, <2>3 DEF Twins, Late
<1>3. CASE ~InitAll /\ ~AddFilter
  BY <1>3, ChainsKept DEF Twins, Late
<1> QED
  BY <1>1, <1>2, <1>3

\* A Nat that is added was listed, and is none of those yet to come.
LEMMA NatsNext ==
  ASSUME Built, Outside, Nats, [Next]_vars
  PROVE  Nats'
<1>1. CASE InitAll
  <2>1. /\ pc = "init" /\ option.filters = <<>> /\ UNCHANGED <<option, toAdd>>
        /\ chain4'.filters = DefaultList
    BY <1>1 DEF InitAll, Linked
  <2>2. Len(DefaultList) = 9 /\ \A i \in 1..9 : DefaultList[i] = "Nat" => i = 3
    BY DEF DefaultList
  <2>3. NatOnce(DefaultList)
    BY <2>2 DEF NatOnce
  <2>4. Len(toAdd) = 0
    <3>1. Listed(chain4, toAdd, <<>>)
      BY <2>1 DEF Built, Building, Early, FilterList
    <3>2. toAdd \in Seq(Names) /\ 0 - Len(toAdd) \in Nat
      BY <3>1 DEF Listed
    <3> QED
      BY <3>2
  <2>5. \A i \in 1..Len(toAdd) : FALSE
    BY <2>4
  <2> QED
    BY <2>1, <2>3, <2>5 DEF Nats
<1>2. CASE AddFilter
  <2> DEFINE list == FilterList(option)
             f == Head(toAdd)
             s == option.filters
             c == chain4.filters
             done == Len(list) - Len(toAdd)
  <2>1. /\ pc = "init" /\ toAdd # <<>> /\ toAdd' = Tail(toAdd) /\ option' = option
        /\ chain4' = IF f \in Known THEN Add(chain4, f) ELSE chain4
    BY <1>2 DEF AddFilter
  <2>2. option \in Options /\ Chained(chain4) /\ Listed(chain4, toAdd, list)
    BY <2>1 DEF Built, Building, Early
  <2>3. /\ toAdd \in Seq(Names) /\ Len(toAdd) \in Nat /\ done \in Nat
        /\ \A i \in 1..Len(toAdd) : toAdd[i] = list[done + i]
        /\ c \in Seq(Known)
    BY <2>2 DEF Listed, Chained
  <2>4. ASSUME NatOnce(s) PROVE NatOnce(list)
    <3>1. CASE s = <<>>
      <4>1. list = <<>>
        BY <3>1 DEF FilterList
      <4> QED
        BY <2>4, <3>1, <4>1
    <3>2. CASE s # <<>>
      <4>1. /\ Len(s) \in Nat /\ Len(list) = Len(s) + 2
            /\ \A i \in 1..Len(s) : list[i + 1] = s[i]
        BY <2>2, <3>2, ListMiddle
      <4>2. list[1] # "Nat" /\ list[Len(list)] # "Nat"
        <5>1. \/ list[1] = "Input" /\ list[Len(list)] = "Output"
              \/ list[1] = "InputDrop" /\ list[Len(list)] = "OutputLibnet"
          BY <2>2, <3>2, ListEnds
        <5> QED
          BY <5>1
      <4>3. \A i \in 1..Len(list) : i = 1 \/ i = Len(list) \/ (i - 1 \in 1..Len(s) /\ (i - 1) + 1 = i)
        BY <4>1
      <4>4. \A i \in 1..Len(list) : list[i] = "Nat" => i - 1 \in 1..Len(s) /\ s[i - 1] = "Nat"
        BY <4>1, <4>2, <4>3
      <4>5. \A i, j \in 1..Len(list) : i - 1 = j - 1 => i = j
        BY <4>1
      <4> QED
        BY <2>4, <4>4, <4>5 DEF NatOnce
    <3> QED
      BY <3>1, <3>2
  <2> HIDE DEF list, s, c, done
  <2>5. /\ f = toAdd[1] /\ Len(toAdd) >= 1 /\ Len(toAdd') = Len(toAdd) - 1
        /\ \A i \in 1..Len(toAdd') : i + 1 \in 1..Len(toAdd) /\ toAdd'[i] = toAdd[i + 1]
    BY <2>1, <2>3
  <2>6. ASSUME NatOnce(list), NEW i \in 1..Len(toAdd'), f = "Nat" PROVE toAdd'[i] # "Nat"
    <3>1. /\ 1 \in 1..Len(toAdd) /\ done + 1 \in 1..Len(list)
          /\ i + 1 \in 1..Len(toAdd) /\ done + (i + 1) \in 1..Len(list)
          /\ done + (i + 1) # done + 1
      <4>1. Len(list) = done + Len(toAdd)
        <5>1. Len(list) \in Nat
          <6>1. CASE s = <<>>
            BY <6>1 DEF FilterList, list, s
          <6>2. CASE s # <<>>
            BY <2>2, <6>2, ListEnds DEF list, s
          <6> QED
            BY <6>1, <6>2
        <5> QED
          BY <2>3, <5>1 DEF done
      <4> QED
        BY <2>3, <2>5, <4>1
    <3>2. list[done + 1] = "Nat"
      BY <2>3, <2>5, <2>6, <3>1
    <3>3. list[done + (i + 1)] # "Nat"
      BY <2>6, <3>1, <3>2 DEF NatOnce
    <3> QED
      BY <2>3, <2>5, <3>1, <3>3
  <2>7. CASE f \notin Known
    <3>1. chain4' = chain4
      BY <2>1, <2>7
    <3> QED
      BY <2>1, <2>5, <3>1 DEF Nats
  <2>8. CASE f \in Known
    <3>1. chain4'.filters = Append(c, f)
      BY <2>1, <2>2, <2>8, AddChained DEF c
    <3>2. ASSUME NatOnce(s) PROVE /\ NatOnce(Append(c, f))
                                  /\ \A i \in 1..Len(toAdd'), j \in 1..Len(Append(c, f)) :
                                       toAdd'[i] = "Nat" => Append(c, f)[j] # "Nat"
      <4>1. /\ \A i, j \in 1..Len(c) : c[i] = "Nat" /\ c[j] = "Nat" => i = j
            /\ \A i \in 1..Len(toAdd), j \in 1..Len(c) : toAdd[i] = "Nat" => c[j] # "Nat"
        BY <3>2 DEF Nats, NatOnce, s, c
      <4>2. f = "Nat" => \A j \in 1..Len(c) : c[j] # "Nat"
        <5>1. 1 \in 1..Len(toAdd)
          BY <2>3, <2>5
        <5> QED
          BY <2>5, <4>1, <5>1
      <4>3. /\ Len(c) \in Nat /\ Len(Append(c, f)) = Len(c) + 1 /\ Append(c, f)[Len(c) + 1] = f
            /\ \A j \in 1..Len(c) : Append(c, f)[j] = c[j]
            /\ \A j \in 1..Len(c) + 1 : j = Len(c) + 1 \/ j \in 1..Len(c)
        BY <2>3, <2>8
      <4>4. NatOnce(Append(c, f))
        BY <4>1, <4>2, <4>3 DEF NatOnce
      <4>5. \A i \in 1..Len(toAdd') : f = "Nat" => toAdd'[i] # "Nat"
        BY <2>4, <2>6, <3>2
      <4>6. ASSUME NEW i \in 1..Len(toAdd'), NEW j \in 1..Len(c) + 1, toAdd'[i] = "Nat"
            PROVE  Append(c, f)[j] # "Nat"
        BY <2>5, <4>1, <4>3, <4>5, <4>6
      <4> QED
        BY <4>3, <4>4, <4>6
    <3> QED
      BY <2>1, <3>1, <3>2 DEF Nats, s
  <2> QED
    BY <2>7, <2>8
<1>3. CASE ~InitAll /\ ~AddFilter
  BY <1>3, ChainsKept DEF Nats
<1> QED
  BY <1>1, <1>2, <1>3

-----------------------------------------------------------------------------
(* The theorems. *)
Inv ==
  /\ Built /\ Started /\ Outside /\ PassedOn
  /\ Placed /\ Kept
  /\ Verdicts
  /\ Brought /\ Alone /\ Ordered /\ Left /\ OrderKept
  /\ Carried /\ Intact
  /\ Made /\ Travelled

\* Every step keeps the invariant.
LEMMA InvInductive == Spec => []Inv
<1>1. Init => Inv
  BY BuiltInit, StartedInit, PlacedInit, OrderInit, CarriedInit, MadeInit, TravelledInit DEF Inv
<1>2. Inv /\ [Next]_vars => Inv'
  <2> SUFFICES ASSUME Inv, [Next]_vars PROVE Inv'
    OBVIOUS
  <2> USE DEF Inv
  <2>1. Built'
    BY BuiltNext
  <2>2. Started' /\ Outside' /\ PassedOn'
    BY <2>1, StartedNext, OutsideNext, PassedOnNext
  <2>3. Placed' /\ Kept' /\ Verdicts'
    BY PlacedNext, KeptNext, VerdictsNext
  <2>4. Brought' /\ Alone' /\ Ordered' /\ Left' /\ OrderKept'
    <3>1. CASE Setup \/ Initialise(Order) \/ Quiet
      BY <3>1, OrderUnmoved
    <3>2. ASSUME NEW p \in Packets, Traffic(p)
          PROVE  Brought' /\ Alone' /\ Ordered' /\ Left' /\ OrderKept'
      BY <3>2, BroughtNext, AloneNext, OrderedNext, LeftNext, OrderKeptNext
    <3> QED
      BY <3>1, <3>2, Kinds
  <2>5. Carried' /\ Intact'
    <3>1. CASE Setup \/ Initialise(Order) \/ Quiet
      BY <3>1, IntactUnmoved
    <3>2. ASSUME NEW p \in Packets, Traffic(p) PROVE Carried' /\ Intact'
      BY <3>2, CarriedNext, IntactNext
    <3> QED
      BY <3>1, <3>2, Kinds
  <2>6. Made'
    BY MadeNext
  <2>7. Travelled'
    <3>1. CASE Setup \/ Initialise(Order) \/ Quiet
      BY <3>1, TravelledUnmoved
    <3>2. ASSUME NEW p \in Packets, Traffic(p) PROVE Travelled'
      BY <3>2, TravelledNext
    <3> QED
      BY <3>1, <3>2, Kinds
  <2> QED
    BY <2>1, <2>2, <2>3, <2>4, <2>5, <2>6, <2>7
<1> QED
  BY <1>1, <1>2, PTL DEF Spec

\* The types follow from it.
LEMMA InvTypeOK == Inv => TypeOK
<1> SUFFICES ASSUME Inv PROVE TypeOK
  OBVIOUS
<1> USE DEF Inv
<1>1. /\ option \in Options
      /\ pc \in {"main", "init", "configure", "execute", "initFilters", "loop", "exited", "returned",
                 "crashed"}
  BY DEF Built, Early, Late
<1>2. /\ step \in 1..Len(Settings) /\ initialised \subseteq Objects /\ stopped \subseteq initialised
      /\ at \in [Packets -> Objects \cup {0}] /\ by \in [Packets -> Objects \cup {0}]
      /\ place \in [Packets -> Places] /\ kept \in Seq(Packets)
  BY DEF Started, Placed, Kept
<1>3. lossIndex \in 0..Len(Losses)
  <2>1. lossIndex \in 0..Len(losses_(Member(chain, "DynamicLoss")))
    BY DEF Started
  <2>2. Len(Losses) \in Nat /\ Len(Losses) >= 1
    BY ConstantsAssumption
  <2>3. \A i : losses_(i) = Losses \/ (losses_(i) = <<FALSE>> /\ Len(losses_(i)) = 1)
    BY DEF losses_
  <2>4. CASE losses_(Member(chain, "DynamicLoss")) = Losses
    BY <2>1, <2>4
  <2>5. CASE Len(losses_(Member(chain, "DynamicLoss"))) = 1
    <3>1. \A m \in Nat : m >= 1 => \A x \in 0..1 : x \in 0..m
      OBVIOUS
    <3> QED
      BY <2>1, <2>2, <2>5, <3>1
  <2> QED
    BY <2>3, <2>4, <2>5
<1>4. ASSUME NEW p \in Packets
      PROVE  Cardinality({k \in DOMAIN kept : kept[k] = p}) = IF place[p] = "held" THEN 1 ELSE 0
  <2> DEFINE K == {k \in DOMAIN kept : kept[k] = p}
  <2>1. DOMAIN kept = 1..Len(kept)
    BY <1>2
  <2>2. CASE place[p] = "held"
    <3>1. PICK k \in 1..Len(kept) : kept[k] = p
      BY <2>2 DEF Kept
    <3>2. K = {k}
      BY <2>1, <3>1 DEF Kept
    <3> QED
      BY <2>2, <3>2, FS_Singleton
  <2>3. CASE place[p] # "held"
    <3>1. K = {}
      BY <2>1, <2>3 DEF Kept
    <3> QED
      BY <2>3, <3>1, FS_EmptySet
  <2> QED
    BY <2>2, <2>3
<1> QED
  BY <1>1, <1>2, <1>3, <1>4 DEF TypeOK, Places

\* The state has its types, in whatever order init(), the threads of the filters and
\* the kernel act; a packet is in a filter's queue once, or not at all; and
\* DynamicLoss never looks behind the end of losses_, whether setLosses() was called
\* or not.
THEOREM TypeCorrect == Spec => []TypeOK
BY InvInductive, InvTypeOK, PTL

\* setVerdict() is called by InputDrop, Loss, DynamicLoss and Output, and the kernel
\* hears of at most one of them: a packet that OutputLibnet writes was dropped there,
\* and one that was accepted is not written.
THEOREM OneVerdictSafe == Spec => []OneVerdict
<1>1. Inv => OneVerdict
  <2> SUFFICES ASSUME Inv, NEW p \in Packets
               PROVE  /\ Len(told[p]) <= 1
                      /\ place[p] = "written" => told[p] = <<"drop">>
                      /\ place[p] = "accepted" => told[p] = <<"accept">>
                      /\ told[p] = <<"accept">> => place[p] = "accepted"
    BY DEF OneVerdict
  <2>1. /\ told[p] \in {<<>>, <<"drop">>, <<"accept">>}
        /\ place[p] = "written" => told[p] = <<"drop">>
        /\ place[p] = "accepted" => told[p] = <<"accept">>
        /\ told[p] = <<"accept">> => place[p] = "accepted"
    <3> DEFINE t == told[p]
               nothing == <<>>
               drop == <<"drop">>
               accept == <<"accept">>
    <3>1. nothing # accept /\ drop # accept
      OBVIOUS
    <3>2. (CASE place[p] = "outside" -> t = nothing
            [] Active(p) -> t = IF Name(1) = "InputDrop" /\ at[p] # 1 THEN drop ELSE nothing
            [] place[p] = "accepted" -> t = accept
            [] place[p] = "written" -> t = drop
            [] place[p] = "dropped" -> t = drop
            [] OTHER -> t \in {nothing, drop})
      BY DEF Inv, Verdicts
    <3>3. place[p] \in Places
      BY DEF Inv, Placed
    <3> HIDE DEF t, nothing, drop, accept
    <3>4. /\ t \in {nothing, drop, accept}
          /\ place[p] = "written" => t = drop
          /\ place[p] = "accepted" => t = accept
          /\ t = accept => place[p] = "accepted"
      BY <3>1, <3>2, <3>3 DEF Active, Places
    <3> QED
      BY <3>4 DEF t, nothing, drop, accept
  <2>2. Len(<<>>) <= 1 /\ Len(<<"drop">>) <= 1 /\ Len(<<"accept">>) <= 1
    OBVIOUS
  <2> QED
    BY <2>1, <2>2
<1> QED
  BY <1>1, InvInductive, PTL

\* Whatever filters there are, if there is no Burst: packets of one direction leave
\* in the order in which execute() was given them, although every filter that keeps
\* them passes them on from a thread of its own.
THEOREM OrderKeptSafe == Spec => []OrderKept
<1>1. Inv => OrderKept
  BY DEF Inv
<1> QED
  BY <1>1, InvInductive, PTL

\* No packet comes to a filter that is not started, unless one of the same name is
\* made after it, and a filter that is started has been given its options.
THEOREM ConfiguredSafe == Spec => []Configured
<1>1. Inv => Configured
  <2> SUFFICES ASSUME Inv PROVE Configured
    OBVIOUS
  <2> USE DEF Inv
  <2>1. ASSUME NEW p \in Packets, place[p] \in {"moving", "held"}, Reached(at[p])
        PROVE  at[p] \in initialised
    <3>1. at[p] \in Objects /\ at[p] # 0 /\ Name(at[p]) \in Known
      BY <2>1, ChainFacts DEF Placed
    <3>2. Member(chain, Name(at[p])) \in initialised \cup {0}
      BY <2>1, <3>1 DEF Outside
    <3> QED
      BY <2>1, <3>1, <3>2 DEF Reached
  <2>2. ASSUME initialised # {}, NEW k \in DOMAIN Settings, Given(option, Settings[k][1])
        PROVE  /\ \A i \in initialised : Name(i) = Settings[k][2] => HasBeenSet(i, Settings[k][1])
               /\ Settings[k][1] \notin option.uneven
    <3>1. pc \in {"execute", "initFilters", "loop", "returned", "crashed"}
      BY <2>2 DEF Started, Built, Early, Late
    <3>2. k \in 1..Len(Settings)
      BY Tables
    <3>3. Passed(chain4, set4, k) /\ Passed(chain6, set6, k)
      BY <3>1, <3>2 DEF PassedOn
    <3>4. Passed(chain, IF option.ipv6 THEN set6 ELSE set4, k)
      BY <3>3 DEF chain
    <3>5. \A i \in initialised : i = Member(chain, Name(i)) /\ i # 0
      BY ChainFacts DEF Started
    <3> QED
      BY <2>2, <3>4, <3>5 DEF Passed, HasBeenSet
  <2> QED
    BY <2>1, <2>2 DEF Configured
<1> QED
  BY <1>1, InvInductive, PTL

\* What leaves the router is what came, but for the near end of it, if there is a Nat,
\* and for what libnet's headers have of their own: although a packet is read, copied
\* from filter to filter, translated and built again by different threads, no field is
\* another's, of another packet, or translated without a Nat.
THEOREM IntactSafe == Spec => []Intact
<1>1. Inv => Intact
  BY DEF Inv
<1> QED
  BY <1>1, InvInductive, PTL

\* Whatever list --filters gives, with names that init() does not know among them and
\* names that come twice: what leaves the router has come to each of its filters, in
\* the order of the list, and to nothing else but an input and an output; in IPv6
\* without Nat.
THEOREM ShapedSafe == Spec => []Shaped
<1>1. Inv => Shaped
  <2> SUFFICES ASSUME Inv, option.filters # <<>>,
                      NEW p \in Packets, place[p] \in {"accepted", "written"}
               PROVE  LET list == option.filters
                          added == {i \in DOMAIN list :
                                      list[i] \in Shapers \ (IF option.ipv6 THEN {"Nat"} ELSE {})}
                      IN  /\ Len(trail[p]) = 1 + Cardinality(added) + 1
                          /\ \A i \in added :
                               trail[p][1 + Cardinality({j \in added : j <= i})] = list[i]
                          /\ trail[p][1] \notin Shapers /\ trail[p][Len(trail[p])] \notin Shapers
    BY DEF Shaped
  <2> DEFINE s == option.filters
             S == Shapers \ (IF option.ipv6 THEN {"Nat"} ELSE {})
             added == {i \in DOMAIN s : s[i] \in S}
             n == Len(chain.filters)
             t == trail[p]
  <2>1. pc \in Late
    BY DEF Inv, Outside, Late
  <2>2. Len(s) \in Nat /\ DOMAIN s = 1..Len(s)
    <3>1. s \in Seq(STRING)
      BY ConstantsAssumption DEF Inv, Built
    <3> QED
      BY <3>1
  <2>3. n = 2 + Count(s, S, Len(s)) /\ MadeOf(chain, s, S, Len(s))
    <3>1. CASE option.ipv6
      BY <2>1, <3>1 DEF Inv, Made, Making, chain
    <3>2. CASE ~option.ipv6
      <4>1. S = Shapers
        BY <3>2
      <4> QED
        BY <2>1, <3>2, <4>1 DEF Inv, Made, Making, chain
    <3> QED
      BY <3>1, <3>2
  <2>4. t \in Seq(Known) /\ Len(t) = n /\ \A i \in 1..n : t[i] = Name(i)
    BY DEF Inv, Travelled, Way
  <2>5. /\ n \in Nat /\ n >= 2 /\ Objects = 1..n
        /\ \A i \in Objects : /\ Name(i) \in {"Input", "InputDrop"} <=> i = 1
                              /\ Name(i) \in {"Output", "OutputLibnet"} <=> i = n
    BY <2>1, ChainEnds DEF Inv
  <2> HIDE DEF n, t
  <2>6. 1 \in 1..n /\ n \in 1..n
    BY <2>5
  <2>7. t[1] \notin Shapers /\ t[n] \notin Shapers
    BY <2>4, <2>5, <2>6 DEF Shapers
  <2>8. Cardinality(added) = Count(s, S, Len(s)) /\ Count(s, S, Len(s)) \in Nat
    <3>1. added = {j \in 1..Len(s) : s[j] \in S}
      BY <2>2
    <3>2. Cardinality(added) = Count(s, S, Len(s))
      BY <3>1 DEF Count
    <3>3. Count(s, S, Len(s)) \in Nat
      BY <2>2, Counting
    <3> QED
      BY <3>2, <3>3
  <2>9. Len(t) = 1 + Cardinality(added) + 1
    BY <2>3, <2>4, <2>8 DEF n
  <2>10. ASSUME NEW i \in added PROVE t[1 + Cardinality({j \in added : j <= i})] = s[i]
    <3>1. i \in 1..Len(s) /\ s[i] \in S
      BY <2>2
    <3>2. {j \in added : j <= i} = {j \in 1..i : s[j] \in S}
      BY <2>2, <3>1
    <3>3. Cardinality({j \in added : j <= i}) = Count(s, S, i)
      BY <3>2 DEF Count
    <3>4. Count(s, S, i) \in Nat /\ Count(s, S, i) <= Count(s, S, Len(s))
      <4>1. i \in 0..Len(s)
        BY <2>2, <3>1
      <4> QED
        BY <2>2, <4>1, Counting
    <3>5. 1 + Count(s, S, i) \in 1..n
      <4>1. n = 2 + Count(s, S, Len(s))
        BY <2>3 DEF n
      <4> DEFINE a == Count(s, S, i)
                 b == Count(s, S, Len(s))
      <4>2. a \in Nat /\ b \in Nat /\ a <= b /\ n = 2 + b
        BY <2>8, <3>4, <4>1
      <4> HIDE DEF a, b
      <4>3. 1 + a \in 1..n
        BY <4>2
      <4> QED
        BY <4>3 DEF a
    <3>6. chain.filters[1 + Count(s, S, i)] = s[i]
      BY <2>3, <3>1 DEF MadeOf
    <3> QED
      BY <2>4, <3>3, <3>5, <3>6 DEF Name
  <2> QED
    BY <2>4, <2>7, <2>9, <2>10 DEF t
<1> QED
  BY <1>1, InvInductive, PTL
\* Every packet that ends gets a verdict, however many filters and threads it meets,
\* if InputDrop is the first of them, or if there is neither a Nat nor a
\* TokenBucketFilter: these two let go of a packet without setVerdict(), and libnet's
\* errors lose only packets that were dropped at the input.
THEOREM VerdictUnlessForgotten ==
  Spec => [](Member(chain, "InputDrop") # 0 \/ (\A f \in Forgetters : Member(chain, f) = 0)
               => VerdictOnDrop)
<1>1. Init => LastWord
  BY DEF Init, LastWord, NoVerdictEnds
<1>2. Inv /\ LastWord /\ [Next]_vars => LastWord'
  BY LastWordNext DEF Inv
<1>3. ASSUME Inv, LastWord, NEW p \in Packets, Ended(p), told[p] = <<>>
      PROVE  /\ Member(chain, "InputDrop") = 0
             /\ \E f \in Forgetters : Member(chain, f) # 0
  <2>1. place[p] \in NoVerdictEnds
    <3>1. <<"drop">> # <<>> /\ <<"accept">> # <<>>
      OBVIOUS
    <3> QED
      BY <1>3, <3>1 DEF Ended, Inv, Verdicts, Active
  <2>2. <<"drop">> # <<>>
    OBVIOUS
  <2>3. Name(1) # "InputDrop" /\ Name(at[p]) \in Forgetters
    BY <1>3, <2>1, <2>2 DEF LastWord, NoVerdictEnds
  <2>4. pc \in Late /\ at[p] \in Objects
    BY <1>3, <2>1 DEF Inv, Outside, Placed, Late, NoVerdictEnds
  <2>5. \A i \in Objects : Name(i) = "InputDrop" => i = 1
    BY <1>3, <2>4, ChainEnds DEF Inv
  <2>6. "InputDrop" \in Known /\ Forgetters \subseteq Known
    BY DEF Known, Shapers, Forgetters
  <2>7. /\ \A f \in Known : Member(chain, f) # 0 =>
             Member(chain, f) \in Objects /\ Name(Member(chain, f)) = f
        /\ Chained(chain) /\ Objects = 1..Len(chain.filters)
    BY <1>3, ChainFacts DEF Inv
  <2>8. \A f \in Known : Name(at[p]) = f => Member(chain, f) # 0
    BY <2>4, <2>7 DEF Chained, Member, Name
  <2> QED
    BY <2>3, <2>5, <2>6, <2>7, <2>8
<1>4. Inv /\ LastWord =>
        (Member(chain, "InputDrop") # 0 \/ (\A f \in Forgetters : Member(chain, f) = 0)
           => VerdictOnDrop)
  BY <1>3 DEF VerdictOnDrop
<1> QED
  BY <1>1, <1>2, <1>4, InvInductive, PTL DEF Spec
\* The loop ends in a crash only with --ipv6 and no --filters, where init6Filters()
\* calls through the null pointer of the other family's output, or without --ipv6 if
\* Nat is listed twice, so that the first is never initialised: with any other list,
\* of whatever names and length, neither happens.
THEOREM NoCrash == Spec => [](Safe => LoopsForEver)
<1>1. Init => Twins /\ Nats /\ (Safe => LoopsForEver)
  <2>1. NoChain.filters = <<>> /\ Len(<<>>) = 0 /\ \A j \in 1..0 : FALSE
    BY DEF NoChain
  <2> QED
    BY <2>1 DEF Init, Twins, Nats, NatOnce, LoopsForEver, Late
<1>2. Inv /\ Twins /\ Nats /\ [Next]_vars => Twins' /\ Nats'
  BY TwinsNext, NatsNext DEF Inv
<1>3. ASSUME Inv, Twins, Nats, [Next]_vars, Safe => LoopsForEver, Safe', pc' = "crashed"
      PROVE  FALSE
  <2>1. pc # "crashed" /\ pc' = "crashed" /\ option' = option
    <3>1. option' = option
      BY <1>3, OptionKept DEF Inv
    <3> QED
      BY <1>3, <3>1 DEF Safe, LoopsForEver
  <2>2. Safe
    BY <1>3, <2>1 DEF Safe
  <2>3. SetsNullsQH \/ \E p \in Packets : NatCrash(p)
    BY <1>3, <2>1, Crashes
  <2>4. CASE SetsNullsQH
    <3>1. /\ pc \in Late /\ chain = chain6 /\ option.filters # <<>>
          /\ Member(chain6, "Output") # 0 /\ Member(chain4, "Output") = 0
      BY <2>2, <2>4 DEF SetsNullsQH, Safe, Late, chain
    <3>2. Name(Member(chain, "Output")) = "Output" /\ Member(chain, "Output") \in Objects
      <4>1. "Output" \in Known
        BY DEF Known
      <4> QED
        BY <1>3, <3>1, <4>1, ChainFacts DEF Inv
    <3>3. Name(1) # "InputDrop"
      BY <1>3, <3>1, <3>2, ChainEnds DEF Inv
    <3>4. chain4.filters[1] # "InputDrop"
      BY <1>3, <3>1, <3>3 DEF Twins, Name
    <3>5. /\ Len(chain4.filters) \in 1..Len(chain4.filters)
          /\ chain4.filters[Len(chain4.filters)] = "Output"
      <4>1. Chained(chain4) /\ Complete(chain4)
        BY <1>3, <3>1 DEF Inv, Built, Building
      <4>2. Len(chain4.filters) \in Nat
        BY <4>1 DEF Chained
      <4> QED
        BY <3>4, <4>1, <4>2 DEF Complete
    <3>6. Member(chain4, "Output") # 0
      BY <1>3, <3>5 DEF Inv, Built, Building, Chained, Member, Known
    <3> QED
      BY <3>1, <3>6
  <2>5. ASSUME NEW p \in Packets, NatCrash(p) PROVE FALSE
    <3>1. place[p] = "moving" /\ Name(at[p]) = "Nat" /\ at[p] \notin initialised
      BY <2>5 DEF NatCrash, Meets, Moving
    <3>2. at[p] \in Objects /\ "Nat" \in Known
      BY <1>3, <3>1 DEF Inv, Placed, Known, Shapers
    <3>3. Member(chain, "Nat") \in initialised \cup {0}
      BY <1>3, <3>1, <3>2 DEF Inv, Outside
    <3>4. /\ Objects = 1..Len(chain.filters) /\ Chained(chain)
          /\ option.ipv6 => Member(chain, "Nat") = 0
      BY <1>3, ChainFacts DEF Inv
    <3>5. /\ Member(chain, "Nat") \in Objects /\ Name(Member(chain, "Nat")) = "Nat"
          /\ Member(chain, "Nat") # 0
      BY <3>1, <3>2, <3>4 DEF Chained, Member, Name
    <3>6. ~option.ipv6 /\ chain = chain4 /\ NatOnce(option.filters)
      BY <2>2, <3>4, <3>5 DEF Safe, chain
    <3>7. NatOnce(chain.filters)
      BY <1>3, <3>6 DEF Nats
    <3>8. at[p] = Member(chain, "Nat")
      BY <3>1, <3>2, <3>4, <3>5, <3>7 DEF NatOnce, Name
    <3> QED
      BY <3>1, <3>3, <3>5, <3>8
  <2> QED
    BY <2>3, <2>4, <2>5
<1>4. Inv /\ Twins /\ Nats /\ (Safe => LoopsForEver) /\ [Next]_vars => (Safe => LoopsForEver)'
  BY <1>3 DEF LoopsForEver
<1> QED
  BY <1>1, <1>2, <1>4, InvInductive, PTL DEF Spec
=============================================================================
