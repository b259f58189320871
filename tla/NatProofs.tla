----------------------------- MODULE NatProofs ------------------------------
(* Proofs about Nat for every number of callers, ports, remote endpoints and  *)
(* entries, every set of forwarding rules and every type of NAT.  Where a     *)
(* theorem holds for one caller only, it says so.                             *)
EXTENDS Nat, TLAPS

Labels ==
  {"idle", "mapOut", "mapRearm", "newPort", "putInt", "putExt", "spin", "filterIn", "mapIn",
   "filterOut", "filterRearm", "filterPut", "release", "releaseLocked", "deleter", "stuck",
   "forward", "drop"}

(* The types TypeOK does not state: of each caller's label, packet and entry. *)
MoreTypes ==
  /\ DOMAIN entry = Ids
  /\ hold \in [Callers -> Ids \cup {None}]
  /\ pc \in [Callers -> Labels]
  /\ DOMAIN pkt = Callers
  /\ \A c \in Callers : pc[c] # "idle" =>
       /\ pkt[c] \in [dir : {"in", "out"}, remote : Remotes, port : Ports, orig : Ports]
       /\ pkt[c].dir = "out" => pkt[c].orig \in IntPorts

(* In which direction a packet goes where a caller is, and which kind of entry *)
(* the caller holds there.                                                     *)
Ways ==
  \A c \in Callers :
    /\ pc[c] \in {"mapOut", "mapRearm", "newPort", "putInt", "putExt", "spin",
                  "filterOut", "filterRearm", "filterPut", "releaseLocked", "stuck"}
         => pkt[c].dir = "out"
    /\ pc[c] \in {"filterIn", "mapIn", "drop"}
         => pkt[c].dir = "in"
    /\ pc[c] \in {"mapOut", "newPort", "filterIn", "mapIn"} => pkt[c].port = pkt[c].orig
    /\ pc[c] \in {"mapRearm", "putExt"} => hold[c] \in MapIds
    /\ pc[c] \in {"filterRearm", "releaseLocked", "stuck"} => hold[c] \in FilterIds

(* An entry that is held exists; one that is being deleted is held by nobody *)
(* else, and by no timer.                                                    *)
Held ==
  \A c \in Callers :
    /\ hold[c] # None => entry[hold[c]] # None
    /\ pc[c] \in {"deleter", "stuck"} =>
         /\ hold[c] \notin armed
         /\ \A b \in Callers : hold[b] = hold[c] => b = c

Inv == TypeOK /\ MoreTypes /\ Ways /\ Held

(* A connection's slots are those of its keys: also the one makeNewConn() is *)
(* about to write.                                                            *)
Slots ==
  /\ NoStaleSlot
  /\ \A c \in Callers : pc[c] = "putExt" => entry[hold[c]].ext = pkt[c].port

(* While a thread looks for a free port, none becomes free. *)
Full == (\E c \in Callers : pc[c] = "spin") => \A p \in Ports : extPortMap_[p] # None

(* The timer that a caller has started with the mutex in its hands: when it is *)
(* due, that caller has held the mutex for the timeout.                        *)
Kept ==
  /\ \A c \in Callers : pc[c] = "releaseLocked" =>
       \/ hold[c] \in armed /\ left[hold[c]] + held[c] >= connectionTimeout_
       \/ held[c] = connectionTimeout_
  /\ NoSelfDeadlock

SingleCaller == \A b, c \in Callers : b = c

(* The port that was found free is so until makeNewConn() has written it: *)
(* nothing but the lack of another caller sees to that.                   *)
Owner ==
  type_ = "symnat" =>
    /\ \A c \in Callers : pc[c] \in {"putInt", "putExt"} => extPortMap_[pkt[c].port] = None
    /\ OwnsExternalPort

(* What the internal host has sent when an entry exists: to whom the filter *)
(* has an entry, it has sent ...                                            *)
Sent(i, x, r) == <<i, x, r>> \in sent

FilterSent ==
  /\ \A c \in Callers :
       pc[c] = "filterPut" => Sent(pkt[c].orig, pkt[c].port, pkt[c].remote)
  /\ \A e \in FilterIds : entry[e] # None =>
       \E i \in IntPorts, x \in Ports, r \in Remotes :
         Sent(i, x, r) /\ entry[e].key = ConnKey(x, r)

(* ... and from an external port that is mapped as well, or is about to. *)
Outbound(c) ==
  /\ \/ pc[c] \in {"putExt", "release", "deleter"} /\ hold[c] \in MapIds
     \/ pc[c] = "filterOut"
  /\ pkt[c].dir = "out"

Sending(c, e) == Outbound(c) /\ pkt[c].orig = entry[e].int /\ pkt[c].port = entry[e].ext

MapperSent ==
  \A e \in MapIds : entry[e] # None =>
    \/ \E r \in Remotes : Sent(entry[e].int, entry[e].ext, r)
    \/ \E c \in Callers : Sending(c, e)

(* The cone mapper keeps the port. *)
Cone ==
  type_ # "symnat" =>
    /\ \A e \in MapIds : entry[e] # None =>
         entry[e].ext = entry[e].int /\ entry[e].key = <<entry[e].int>>
    /\ \A c \in Callers : pc[c] # "idle" /\ pkt[c].dir = "out" => pkt[c].port = pkt[c].orig
    /\ \A c \in Callers : pc[c] = "mapRearm" => entry[hold[c]].int = pkt[c].orig
    /\ \A i \in IntPorts, x \in Ports, r \in Remotes : Sent(i, x, r) => i = x

(* A packet that the filter has let in, and one that the mapper has mapped. *)
LetIn ==
  \A c \in Callers :
    pc[c] \in {"mapIn", "release", "deleter", "forward"} /\ pkt[c].dir = "in"
    /\ type_ # "fullcone" /\ pkt[c].orig \notin DOMAIN DnatRules =>
      \E i \in IntPorts, r \in Remotes :
        Sent(i, pkt[c].orig, r) /\ Answers(pkt[c].remote, r)

Mapped ==
  \A c \in Callers :
    pc[c] \in {"release", "deleter", "forward"} /\ pkt[c].dir = "in"
    /\ pkt[c].orig \notin DOMAIN DnatRules =>
      /\ type_ # "symnat" => pkt[c].port = pkt[c].orig
      /\ type_ = "fullcone" /\ SingleCaller =>
           \E i \in IntPorts, r \in Remotes : Sent(i, pkt[c].orig, r)

-----------------------------------------------------------------------------
(* The steps. *)
\* The keys are those of the type of NAT, which init() has chosen for good.
LEMMA KeysKept ==
  type_' = type_ =>
    /\ IntKeys' = IntKeys /\ ConnKeys' = ConnKeys
    /\ \A p, r : IntKey(p, r)' = IntKey(p, r) /\ ConnKey(p, r)' = ConnKey(p, r)
BY DEF IntKeys, ConnKeys, IntKey, ConnKey

\* A port and an endpoint make a key.
LEMMA KeysTyped ==
  ASSUME NEW p \in Ports, NEW r \in Remotes
  PROVE  IntKey(p, r) \in IntKeys /\ ConnKey(p, r) \in ConnKeys
BY DEF IntKeys, ConnKeys

\* An entry is not a null pointer.
LEMMA NotNone ==
  /\ \A k \in IntKeys, i, x \in Ports : None # [key |-> k, int |-> i, ext |-> x]
  /\ \A k \in ConnKeys : None # [key |-> k]
<1>1. \A k \in IntKeys, i, x \in Ports : None # [key |-> k, int |-> i, ext |-> x]
  BY NoneAssumption DEF IntKeys, IntKey
<1>2. \A k \in ConnKeys : None # [key |-> k]
  BY NoneAssumption, ConstantsAssumption DEF ConnKeys, ConnKey, Ports
<1> QED
  BY <1>1, <1>2

\* mapPort() stays within the port numbers.
LEMMA PortInRange == \A p \in Ports, i \in Nat : (p + i) % PortSpace \in Ports
<1> SUFFICES ASSUME NEW p \in Ports, NEW i \in Nat PROVE (p + i) % PortSpace \in Ports
  OBVIOUS
<1>1. p + i \in Nat /\ PortSpace \in Nat \ {0}
  BY ConstantsAssumption DEF Ports
<1> QED
  BY <1>1 DEF Ports

\* At the start, nothing is mapped and nobody calls.
LEMMA InvInit == Init => Inv
<1> SUFFICES ASSUME Init PROVE Inv
  OBVIOUS
<1> USE ConstantsAssumption DEF Init
<1>1. config \in NatOptions
  <2>1. PICK o \in NatOptions : type_ = o[1] /\ connectionTimeout_ = o[2]
    OBVIOUS
  <2>2. o = <<o[1], o[2]>>
    OBVIOUS
  <2> QED
    BY <2>1, <2>2 DEF config
<1>2. TypeOK
  <2>1. \A e \in MapIds \cup FilterIds : entry[e] = None
    BY DEF Ids
  <2>2. \A c \in Callers : hold[c] = None /\ pc[c] = "idle" /\ pkt[c] = NoPacket
    OBVIOUS
  <2>3. /\ intPortMap_ \in [IntKeys -> MapIds \cup {None}]
        /\ extPortMap_ \in [Ports -> MapIds \cup {None}]
        /\ connMap_ \in [ConnKeys -> FilterIds \cup {None}]
        /\ armed = {} /\ sent = {} /\ dnatted = {}
    OBVIOUS
  <2>4. TimersOK
    BY <1>1 DEF TimersOK, config
  <2> QED
    BY <1>1, <2>1, <2>2, <2>3, <2>4 DEF TypeOK
<1>3. MoreTypes
  BY DEF MoreTypes, Labels
<1>4. Ways /\ Held
  BY DEF Ways, Held
<1> QED
  BY <1>2, <1>3, <1>4 DEF Inv

\* Outgoing packets: the port is forwarded, or known, or new.
LEMMA MapOutSteps ==
  ASSUME TypeOK, MoreTypes, Ways, NEW c \in Callers, MapOut(c)
  PROVE  /\ pc[c] = "mapOut" /\ pkt[c].dir = "out" /\ pkt[c].port = pkt[c].orig
         /\ UNCHANGED <<config, maps, entry, timers, held, pkt, sent, dnatted>>
         /\ \/ To(c, "filterOut") /\ UNCHANGED hold
            \/ \E e \in MapIds :
                 /\ e = intPortMap_[IntKey(pkt[c].orig, pkt[c].remote)] /\ Alive(e)
                 /\ To(c, "mapRearm") /\ Hold(c, e)
            \/ To(c, "newPort") /\ UNCHANGED hold
<1> DEFINE slot == intPortMap_[IntKey(pkt[c].port, pkt[c].remote)]
<1>1. pc[c] = "mapOut" /\ pkt[c].dir = "out" /\ pkt[c].port = pkt[c].orig
  BY DEF MapOut, At, Ways
<1>2. slot \in MapIds \cup {None}
  BY <1>1, KeysTyped DEF TypeOK, MoreTypes
<1>3. \/ To(c, "filterOut") /\ UNCHANGED hold
      \/ Locked(slot) # None /\ To(c, "mapRearm") /\ Hold(c, Locked(slot))
      \/ To(c, "newPort") /\ UNCHANGED hold
  BY DEF MapOut
<1>4. Locked(slot) # None => Locked(slot) = slot /\ Alive(slot) /\ slot \in MapIds
  BY <1>2 DEF Locked
<1>5. UNCHANGED <<config, maps, entry, timers, held, pkt, sent, dnatted>>
  BY DEF MapOut
<1> QED
  BY <1>1, <1>3, <1>4, <1>5

\* Ingoing packets: the port is forwarded, or known, or the packet is dropped.
LEMMA MapInSteps ==
  ASSUME TypeOK, MoreTypes, Ways, NEW c \in Callers, MapIn(c)
  PROVE  /\ pc[c] = "mapIn" /\ pkt[c].dir = "in" /\ pkt[c].port = pkt[c].orig
         /\ UNCHANGED <<config, maps, entry, timers, held, sent, dnatted>>
         /\ \/ /\ pkt[c].orig \in DOMAIN DnatRules /\ To(c, "forward")
               /\ SetPort(c, DnatRules[pkt[c].orig]) /\ UNCHANGED hold
            \/ \E e \in MapIds :
                 /\ e = extPortMap_[pkt[c].orig] /\ Alive(e)
                 /\ To(c, "release") /\ SetPort(c, entry[e].int) /\ Hold(c, e)
            \/ To(c, "drop") /\ UNCHANGED <<pkt, hold>>
<1> DEFINE slot == extPortMap_[pkt[c].port]
<1>1. pc[c] = "mapIn" /\ pkt[c].dir = "in" /\ pkt[c].port = pkt[c].orig
  BY DEF MapIn, At, Ways
<1>2. slot \in MapIds \cup {None}
  BY <1>1 DEF TypeOK, MoreTypes
<1>3. \/ /\ pkt[c].port \in DOMAIN DnatRules /\ To(c, "forward")
         /\ SetPort(c, DnatRules[pkt[c].port]) /\ UNCHANGED hold
      \/ /\ Locked(slot) # None /\ To(c, "release")
         /\ SetPort(c, entry[Locked(slot)].int) /\ Hold(c, Locked(slot))
      \/ To(c, "drop") /\ UNCHANGED <<pkt, hold>>
  BY DEF MapIn, CheckDnat
<1>4. Locked(slot) # None => Locked(slot) = slot /\ Alive(slot) /\ slot \in MapIds
  BY <1>2 DEF Locked
<1>5. UNCHANGED <<config, maps, entry, timers, held, sent, dnatted>>
  BY DEF MapIn
<1> QED
  BY <1>1, <1>3, <1>4, <1>5

\* The filter passes an outgoing packet on, knows the remote, or makes an entry.
LEMMA FilterOutSteps ==
  ASSUME TypeOK, MoreTypes, Ways, NEW c \in Callers, FilterOut(c)
  PROVE  /\ pc[c] = "filterOut" /\ pkt[c].dir = "out"
         /\ sent' = sent \cup {<<pkt[c].orig, pkt[c].port, pkt[c].remote>>}
         /\ UNCHANGED <<config, maps, entry, timers, held, pkt, dnatted>>
         /\ \/ To(c, "forward") /\ UNCHANGED hold
            \/ \E e \in FilterIds : Alive(e) /\ To(c, "filterRearm") /\ Hold(c, e)
            \/ To(c, "filterPut") /\ UNCHANGED hold
<1> DEFINE slot == connMap_[ConnKey(pkt[c].port, pkt[c].remote)]
<1>1. pc[c] = "filterOut" /\ pkt[c].dir = "out"
  BY DEF FilterOut, At, Ways
<1>2. slot \in FilterIds \cup {None}
  BY <1>1, KeysTyped DEF TypeOK, MoreTypes
<1>3. \/ To(c, "forward") /\ UNCHANGED hold
      \/ Locked(slot) # None /\ To(c, "filterRearm") /\ Hold(c, Locked(slot))
      \/ To(c, "filterPut") /\ UNCHANGED hold
  BY DEF FilterOut
<1>4. Locked(slot) # None => Locked(slot) = slot /\ Alive(slot) /\ slot \in FilterIds
  BY <1>2 DEF Locked
<1>5. /\ UNCHANGED <<config, maps, entry, timers, held, pkt, dnatted>>
      /\ sent' = sent \cup {<<pkt[c].orig, pkt[c].port, pkt[c].remote>>}
  BY DEF FilterOut
<1> QED
  BY <1>1, <1>3, <1>4, <1>5

\* An entry that lock() finds exists, and nobody is deleting it.
LEMMA AliveExists ==
  ASSUME Inv, NEW e \in Ids, Alive(e)
  PROVE  entry[e] # None /\ \A c \in Callers : pc[c] \in {"deleter", "stuck"} => hold[c] # e
<1> USE ConstantsAssumption DEF Inv, TypeOK, Held
<1>1. CASE e \in armed
  BY <1>1
<1>2. ASSUME NEW b \in Callers, hold[b] = e, pc[b] \notin {"deleter", "stuck"}
      PROVE  entry[e] # None /\ \A c \in Callers : pc[c] \in {"deleter", "stuck"} => hold[c] # e
  BY <1>2
<1> QED
  BY <1>1, <1>2 DEF Alive

\* Every caller is at a label, with a packet unless it is idle.
LEMMA MoreTypesStep == Inv /\ [Next]_vars => MoreTypes'
<1> SUFFICES ASSUME Inv, [Next]_vars PROVE MoreTypes'
  OBVIOUS
<1> USE ConstantsAssumption
    DEF Inv, MoreTypes, Labels, At, To, Goto, SetPort, Hold, config, maps, timers,
        NoPacket
<1>1. ASSUME NEW c \in Callers, NEW r \in Remotes, NEW p \in IntPorts, Outgoing(c, p, r)
      PROVE  MoreTypes'
  BY <1>1 DEF Outgoing
<1>2. ASSUME NEW c \in Callers, NEW r \in Remotes, NEW p \in Ports, Ingoing(c, p, r)
      PROVE  MoreTypes'
  BY <1>2 DEF Ingoing
<1>3. ASSUME NEW c \in Callers, MapOut(c) PROVE MoreTypes'
  BY <1>3, MapOutSteps DEF Ids
<1>4. ASSUME NEW c \in Callers, MapRearm(c) PROVE MoreTypes'
  BY <1>4 DEF MapRearm, TypeOK, Ways, Held
<1>5. ASSUME NEW c \in Callers, NewPort(c) PROVE MoreTypes'
  BY <1>5, PortInRange DEF NewPort
<1>6. ASSUME NEW c \in Callers, PutInt(c) PROVE MoreTypes'
  BY <1>6 DEF PutInt, Ids
<1>7. ASSUME NEW c \in Callers, PutExt(c) \/ FilterIn(c) PROVE MoreTypes'
  BY <1>7 DEF PutExt, FilterIn
<1>8. ASSUME NEW c \in Callers, MapIn(c) PROVE MoreTypes'
  <2>1. \A e \in MapIds : Alive(e) => entry[e].int \in Ports
    BY AliveExists DEF Ids, TypeOK
  <2> QED
    BY <1>8, <2>1, MapInSteps DEF Ids
<1>9. ASSUME NEW c \in Callers, FilterOut(c) \/ FilterRearm(c) PROVE MoreTypes'
  BY <1>9, FilterOutSteps DEF FilterRearm, Ids
<1>10. ASSUME NEW c \in Callers, FilterPut(c) PROVE MoreTypes'
  BY <1>10 DEF FilterPut, Ids
<1>11. ASSUME NEW c \in Callers, Release(c) \/ ReleaseLocked(c) PROVE MoreTypes'
  BY <1>11 DEF Release, ReleaseLocked, NextCall
<1>12. ASSUME NEW c \in Callers, CallerDeletes(c) PROVE MoreTypes'
  BY <1>12 DEF CallerDeletes, Erase, NextCall
<1>13. ASSUME NEW c \in Callers, Forward(c) \/ Drop(c) PROVE MoreTypes'
  BY <1>13 DEF Forward, Drop
<1>14. ASSUME NEW e \in Ids, Expire(e) \/ PoolDeletes(e) PROVE MoreTypes'
  BY <1>14 DEF Expire, PoolDeletes, Erase
<1>15. ASSUME Tick \/ UNCHANGED vars PROVE MoreTypes'
  BY <1>15 DEF Tick, vars
<1> QED
  BY <1>1, <1>2, <1>3, <1>4, <1>5, <1>6, <1>7, <1>8, <1>9, <1>10, <1>11, <1>12, <1>13,
     <1>14, <1>15 DEF Next, Continue

\* Each label has its direction and its kind of entry.
LEMMA WaysStep == Inv /\ [Next]_vars => Ways'
<1> SUFFICES ASSUME Inv, [Next]_vars PROVE Ways'
  OBVIOUS
<1>0. MoreTypes'
  BY MoreTypesStep
<1> USE <1>0, ConstantsAssumption
    DEF Inv, MoreTypes, Ways, At, To, Goto, SetPort, Hold, config, maps, timers
<1>1. ASSUME NEW c \in Callers, NEW r \in Remotes, NEW p \in IntPorts, Outgoing(c, p, r)
      PROVE  Ways'
  BY <1>1 DEF Outgoing
<1>2. ASSUME NEW c \in Callers, NEW r \in Remotes, NEW p \in Ports, Ingoing(c, p, r)
      PROVE  Ways'
  BY <1>2 DEF Ingoing
<1>3. ASSUME NEW c \in Callers, MapOut(c) PROVE Ways'
  BY <1>3, MapOutSteps
<1>4. ASSUME NEW c \in Callers, MapRearm(c) \/ FilterRearm(c) PROVE Ways'
  BY <1>4 DEF MapRearm, FilterRearm
<1>5. ASSUME NEW c \in Callers, NewPort(c) PROVE Ways'
  BY <1>5 DEF NewPort
<1>6. ASSUME NEW c \in Callers, PutInt(c) PROVE Ways'
  BY <1>6 DEF PutInt
<1>7. ASSUME NEW c \in Callers, PutExt(c) \/ FilterIn(c) PROVE Ways'
  BY <1>7 DEF PutExt, FilterIn
<1>8. ASSUME NEW c \in Callers, MapIn(c) PROVE Ways'
  BY <1>8, MapInSteps
<1>9. ASSUME NEW c \in Callers, FilterOut(c) PROVE Ways'
  BY <1>9, FilterOutSteps
<1>10. ASSUME NEW c \in Callers, FilterPut(c) PROVE Ways'
  BY <1>10 DEF FilterPut
<1>11. ASSUME NEW c \in Callers, Release(c) \/ ReleaseLocked(c) PROVE Ways'
  BY <1>11 DEF Release, ReleaseLocked, NextCall
<1>12. ASSUME NEW c \in Callers, CallerDeletes(c) PROVE Ways'
  BY <1>12 DEF CallerDeletes, NextCall
<1>13. ASSUME NEW c \in Callers, Forward(c) \/ Drop(c) PROVE Ways'
  BY <1>13 DEF Forward, Drop
<1>14. ASSUME NEW e \in Ids, Expire(e) \/ PoolDeletes(e) PROVE Ways'
  BY <1>14 DEF Expire, PoolDeletes
<1>15. ASSUME Tick \/ UNCHANGED vars PROVE Ways'
  BY <1>15 DEF Tick, vars
<1> QED
  BY <1>1, <1>2, <1>3, <1>4, <1>5, <1>6, <1>7, <1>8, <1>9, <1>10, <1>11, <1>12, <1>13,
     <1>14, <1>15 DEF Next, Continue

\* Nobody gets hold of an entry that is being deleted, and nobody deletes one
\* that is held.
LEMMA HeldStep == Inv /\ [Next]_vars => Held'
<1> SUFFICES ASSUME Inv, [Next]_vars PROVE Held'
  OBVIOUS
<1>0. MoreTypes' /\ Ways'
  BY MoreTypesStep, WaysStep
<1> USE <1>0, ConstantsAssumption DEF Inv, MoreTypes, Held, At, To, Goto, Hold, config, maps, timers
<1>1. ASSUME NEW c \in Callers, NEW r \in Remotes,
             (\E p \in IntPorts : Outgoing(c, p, r)) \/ (\E p \in Ports : Ingoing(c, p, r))
      PROVE  Held'
  BY <1>1 DEF Outgoing, Ingoing
<1>2. ASSUME NEW c \in Callers, MapOut(c) PROVE Held'
  BY <1>2, MapOutSteps, AliveExists DEF Ids
<1>3. ASSUME NEW c \in Callers, MapRearm(c) \/ FilterRearm(c) PROVE Held'
  BY <1>3 DEF MapRearm, FilterRearm, ArmTimer
<1>4. ASSUME NEW c \in Callers, NewPort(c) \/ FilterIn(c) PROVE Held'
  BY <1>4 DEF NewPort, FilterIn
<1>5. ASSUME NEW c \in Callers, PutInt(c) PROVE Held'
  <2>1. PICK e \in MapIds :
          /\ entry[e] = None
          /\ entry' = [entry EXCEPT ![e] = [key |-> IntKey(pkt[c].orig, pkt[c].remote),
                                            int |-> pkt[c].orig, ext |-> pkt[c].port]]
          /\ Hold(c, e)
    BY <1>5 DEF PutInt
  <2>2. e \in Ids /\ entry'[e] # None /\ (\A b \in Callers : hold[b] # e) /\ e \notin armed
    BY <1>5, <2>1, NotNone, KeysTyped DEF PutInt, TypeOK, Ids
  <2> QED
    BY <1>5, <2>1, <2>2 DEF PutInt
<1>6. ASSUME NEW c \in Callers, PutExt(c) PROVE Held'
  BY <1>6 DEF PutExt, ArmTimer
<1>7. ASSUME NEW c \in Callers, MapIn(c) PROVE Held'
  BY <1>7, MapInSteps, AliveExists DEF Ids
<1>8. ASSUME NEW c \in Callers, FilterOut(c) PROVE Held'
  BY <1>8, FilterOutSteps, AliveExists DEF Ids
<1>9. ASSUME NEW c \in Callers, FilterPut(c) PROVE Held'
  <2>1. PICK e \in FilterIds :
          /\ entry[e] = None
          /\ entry' = [entry EXCEPT ![e] = [key |-> ConnKey(pkt[c].port, pkt[c].remote)]]
          /\ armed' = armed \cup {e} /\ Hold(c, e)
    BY <1>9 DEF FilterPut, ArmTimer
  <2>2. e \in Ids /\ entry'[e] # None /\ (\A b \in Callers : hold[b] # e)
    BY <1>9, <2>1, NotNone, KeysTyped DEF FilterPut, Ids
  <2> QED
    BY <1>9, <2>1, <2>2 DEF FilterPut
<1>10. ASSUME NEW c \in Callers, Release(c) \/ ReleaseLocked(c) PROVE Held'
  <2>1. \A b \in Callers : pc[b] \in {"deleter", "stuck"} => hold[b] # None
    BY DEF TypeOK
  <2>2. CASE Last(c)
    <3>1. /\ hold' = hold /\ pc' \in {[pc EXCEPT ![c] = l] : l \in {"deleter", "stuck"}}
          /\ UNCHANGED <<entry, armed>>
      BY <1>10, <2>2 DEF Release, ReleaseLocked
    <3> QED
      BY <2>2, <3>1 DEF Last
  <2>3. CASE ~Last(c)
    <3>1. /\ hold' = [hold EXCEPT ![c] = None]
          /\ pc' \in {[pc EXCEPT ![c] = l] : l \in {"filterOut", "forward"}}
          /\ UNCHANGED <<entry, armed>>
      BY <1>10, <2>3 DEF Release, ReleaseLocked, NextCall
    <3> QED
      BY <2>1, <3>1
  <2> QED
    BY <2>2, <2>3
<1>11. ASSUME NEW c \in Callers, CallerDeletes(c) PROVE Held'
  <2>1. \A b \in Callers : pc[b] \in {"deleter", "stuck"} => hold[b] # None
    BY DEF TypeOK
  <2>2. /\ pc[c] = "deleter" /\ pc' \in {[pc EXCEPT ![c] = l] : l \in {"filterOut", "forward"}}
        /\ hold' = [hold EXCEPT ![c] = None] /\ entry' = [entry EXCEPT ![hold[c]] = None]
        /\ UNCHANGED armed
    BY <1>11 DEF CallerDeletes, NextCall, Erase
  <2> QED
    BY <2>1, <2>2
<1>12. ASSUME NEW c \in Callers, Forward(c) \/ Drop(c) PROVE Held'
  BY <1>12 DEF Forward, Drop
<1>13. ASSUME NEW e \in Ids, Expire(e) \/ PoolDeletes(e) PROVE Held'
  BY <1>13 DEF Expire, PoolDeletes, Erase
<1>14. ASSUME Tick \/ UNCHANGED vars PROVE Held'
  BY <1>14 DEF Tick, vars
<1> QED
  BY <1>1, <1>2, <1>3, <1>4, <1>5, <1>6, <1>7, <1>8, <1>9, <1>10, <1>11, <1>12, <1>13,
     <1>14 DEF Next, Continue

\* A timer counts down from the timeout, and the time with the mutex up to it.
LEMMA TimersStep == Inv /\ [Next]_vars => TimersOK'
<1> SUFFICES ASSUME Inv, [Next]_vars PROVE TimersOK'
  OBVIOUS
<1>0. /\ config \in NatOptions /\ connectionTimeout_ \in Nat /\ TimersOK
      /\ Callers = DOMAIN pc
  BY ConstantsAssumption DEF Inv, MoreTypes, TypeOK, config
<1> USE <1>0 DEF TimersOK, MutexHeld, At, To, Goto, config, timers
\* Who does not touch the timers keeps the mutex as well.
<1>a. ASSUME UNCHANGED <<config, timers, held>>,
             \A c \in Callers : MutexHeld(c) => MutexHeld(c)'
      PROVE  TimersOK'
  BY <1>a
\* Who arms one holds its entry.
<1>b. ASSUME NEW e \in Ids, ArmTimer(e), UNCHANGED <<config, held>>,
             \A c \in Callers : MutexHeld(c) => MutexHeld(c)'
      PROVE  TimersOK'
  BY <1>b DEF ArmTimer, Inv, TypeOK, MoreTypes
<1>1. ASSUME NEW c \in Callers, NEW r \in Remotes,
             (\E p \in IntPorts : Outgoing(c, p, r)) \/ (\E p \in Ports : Ingoing(c, p, r))
      PROVE  TimersOK'
  BY <1>1, <1>a DEF Outgoing, Ingoing
<1>2. ASSUME NEW c \in Callers, MapOut(c) PROVE TimersOK'
  BY <1>2, <1>a, MapOutSteps DEF Inv
<1>3. ASSUME NEW c \in Callers, MapRearm(c) \/ FilterRearm(c) \/ PutExt(c) PROVE TimersOK'
  <2>1. hold[c] \in Ids /\ ArmTimer(hold[c]) /\ UNCHANGED <<config, held>>
    BY <1>3 DEF MapRearm, FilterRearm, PutExt, Inv, Ways, Ids
  <2>2. \A b \in Callers : MutexHeld(b) => MutexHeld(b)'
    BY <1>3 DEF MapRearm, FilterRearm, PutExt
  <2> QED
    BY <1>b, <2>1, <2>2
<1>4. ASSUME NEW c \in Callers, NewPort(c) \/ PutInt(c) \/ FilterIn(c) PROVE TimersOK'
  BY <1>4, <1>a DEF NewPort, PutInt, FilterIn
<1>5. ASSUME NEW c \in Callers, MapIn(c) PROVE TimersOK'
  BY <1>5, <1>a, MapInSteps DEF Inv
<1>6. ASSUME NEW c \in Callers, FilterOut(c) PROVE TimersOK'
  BY <1>6, <1>a, FilterOutSteps DEF Inv
<1>7. ASSUME NEW c \in Callers, FilterPut(c) PROVE TimersOK'
  <2>1. PICK e \in FilterIds : ArmTimer(e)
    BY <1>7 DEF FilterPut
  <2>2. UNCHANGED <<config, held>> /\ \A b \in Callers : MutexHeld(b) => MutexHeld(b)'
    BY <1>7 DEF FilterPut
  <2> QED
    BY <1>b, <2>1, <2>2 DEF Ids
<1>8. ASSUME NEW c \in Callers, Release(c) \/ CallerDeletes(c) \/ Forward(c) \/ Drop(c)
      PROVE  TimersOK'
  BY <1>8, <1>a DEF Release, CallerDeletes, Forward, Drop
<1>9. ASSUME NEW c \in Callers, ReleaseLocked(c) PROVE TimersOK'
  <2>1. UNCHANGED <<config, timers>> /\ pc[c] = "releaseLocked"
    BY <1>9 DEF ReleaseLocked
  <2>2. \/ pc' = [pc EXCEPT ![c] = "stuck"] /\ held' = held
        \/ pc' = [pc EXCEPT ![c] = NextCall(c)] /\ held' = [held EXCEPT ![c] = 0]
    BY <1>9 DEF ReleaseLocked
  <2> QED
    BY <2>1, <2>2
<1>10. ASSUME NEW e \in Ids, Expire(e) \/ PoolDeletes(e) PROVE TimersOK'
  BY <1>10 DEF Expire, PoolDeletes
<1>11. ASSUME Tick PROVE TimersOK'
  BY <1>11 DEF Tick
<1>12. ASSUME UNCHANGED vars PROVE TimersOK'
  BY <1>12 DEF vars
<1> QED
  BY <1>1, <1>2, <1>3, <1>4, <1>5, <1>6, <1>7, <1>8, <1>9, <1>10, <1>11, <1>12
  DEF Next, Continue

\* The maps, the entries and the histories keep their types.
LEMMA TypeStep == Inv /\ [Next]_vars => TypeOK'
<1> SUFFICES ASSUME Inv, [Next]_vars PROVE TypeOK'
  OBVIOUS
<1>0. MoreTypes' /\ Ways' /\ Held' /\ TimersOK'
  BY MoreTypesStep, WaysStep, HeldStep, TimersStep
<1>k. type_' = type_ => IntKeys' = IntKeys /\ ConnKeys' = ConnKeys
  BY KeysKept
\* Most steps change but one caller's label, packet and entry.
<1>c. ASSUME NEW c \in Callers, UNCHANGED <<config, maps, entry, armed, dnatted>>,
             sent' \subseteq IntPorts \X Ports \X Remotes,
             \A b \in Callers \ {c} : pc'[b] = pc[b] /\ pkt'[b] = pkt[b] /\ hold'[b] = hold[b],
             hold'[c] # None <=> pc'[c] \in {"mapRearm", "putExt", "filterRearm", "release",
                                             "releaseLocked", "deleter", "stuck"},
             pc'[c] # "idle" <=> pkt'[c] # NoPacket
      PROVE  TypeOK'
  <2>1. /\ \A b \in Callers : hold'[b] # None <=>
              pc'[b] \in {"mapRearm", "putExt", "filterRearm", "release", "releaseLocked",
                          "deleter", "stuck"}
        /\ \A b \in Callers : pc'[b] # "idle" <=> pkt'[b] # NoPacket
    BY <1>c DEF Inv, TypeOK
  <2>2. IntKeys' = IntKeys /\ ConnKeys' = ConnKeys
    BY <1>c, <1>k DEF config
  <2> QED
    BY <1>0, <1>c, <2>1, <2>2 DEF Inv, TypeOK, config, maps
<1> USE <1>0, <1>k, ConstantsAssumption
    DEF Inv, MoreTypes, TypeOK, At, To, Goto, SetPort, Hold, config, maps, timers
<1>1. ASSUME NEW c \in Callers, NEW r \in Remotes,
             (\E p \in IntPorts : Outgoing(c, p, r)) \/ (\E p \in Ports : Ingoing(c, p, r))
      PROVE  TypeOK'
  <2>1. UNCHANGED <<config, maps, entry, armed, hold, sent, dnatted>>
    BY <1>1 DEF Outgoing, Ingoing
  <2>2. /\ pc[c] = "idle" /\ pc'[c] \in {"mapOut", "filterIn"} /\ pkt'[c] # NoPacket
        /\ \A b \in Callers \ {c} : pc'[b] = pc[b] /\ pkt'[b] = pkt[b]
    BY <1>1 DEF Outgoing, Ingoing, NoPacket
  <2> QED
    BY <1>c, <2>1, <2>2
<1>2. ASSUME NEW c \in Callers, MapOut(c) PROVE TypeOK'
  <2>1. /\ pc[c] = "mapOut" /\ UNCHANGED <<config, maps, entry, armed, pkt, sent, dnatted>>
        /\ \A b \in Callers \ {c} : pc'[b] = pc[b] /\ hold'[b] = hold[b]
        /\ \/ pc'[c] \in {"filterOut", "newPort"} /\ hold'[c] = hold[c]
           \/ pc'[c] = "mapRearm" /\ hold'[c] \in MapIds
    BY <1>2, MapOutSteps
  <2>2. hold'[c] # None <=> pc'[c] = "mapRearm"
    BY <2>1 DEF Ids
  <2>3. pc'[c] # "idle" /\ pkt'[c] # NoPacket
    BY <2>1
  <2> QED
    BY <1>c, <2>1, <2>2, <2>3
<1>3. ASSUME NEW c \in Callers, MapRearm(c) \/ FilterRearm(c) PROVE TypeOK'
  <2>1. /\ armed' = armed \cup {hold[c]} /\ UNCHANGED <<config, maps, entry, hold, sent, dnatted>>
        /\ \E l \in {"mapRearm", "filterRearm"} : pc[c] = l
        /\ pc' = [pc EXCEPT ![c] = "release"]
    BY <1>3 DEF MapRearm, FilterRearm, ArmTimer
  <2>2. hold[c] \in Ids /\ entry[hold[c]] # None
    BY <2>1 DEF Held, Ways, Ids
  <2>3. pkt'[c] # NoPacket /\ \A b \in Callers \ {c} : pkt'[b] = pkt[b]
    BY <1>3 DEF MapRearm, FilterRearm, NoPacket
  <2> QED
    BY <2>1, <2>2, <2>3 DEF Ids
<1>4. ASSUME NEW c \in Callers, NewPort(c) \/ FilterIn(c) PROVE TypeOK'
  <2>1. /\ UNCHANGED <<config, maps, entry, armed, hold, sent, dnatted>>
        /\ pc[c] \in {"newPort", "filterIn"} /\ pc'[c] \in {"putInt", "spin", "mapIn", "drop"}
        /\ \A b \in Callers \ {c} : pc'[b] = pc[b] /\ pkt'[b] = pkt[b]
    BY <1>4 DEF NewPort, FilterIn
  <2>2. pkt'[c] # NoPacket
    BY <1>4 DEF NewPort, FilterIn, NoPacket
  <2> QED
    BY <1>c, <2>1, <2>2
<1>5. ASSUME NEW c \in Callers, PutInt(c) PROVE TypeOK'
  <2>1. pc[c] = "putInt" /\ UNCHANGED <<config, extPortMap_, connMap_, armed, pkt, sent, dnatted>>
    BY <1>5 DEF PutInt
  <2> DEFINE key == IntKey(pkt[c].orig, pkt[c].remote)
  <2>2. PICK e \in MapIds :
          /\ entry[e] = None
          /\ entry' = [entry EXCEPT ![e] = [key |-> key, int |-> pkt[c].orig, ext |-> pkt[c].port]]
          /\ intPortMap_' = [intPortMap_ EXCEPT ![key] = e]
          /\ Hold(c, e) /\ To(c, "putExt")
    BY <1>5 DEF PutInt
  <2>3. key \in IntKeys /\ pkt[c].orig \in IntPorts /\ pkt[c].port \in Ports
    BY <2>1, KeysTyped DEF Ways
  <2> HIDE DEF key
  <2>4. entry'[e] # None /\ entry'[e] \in [key : IntKeys, int : IntPorts, ext : Ports]
    BY <2>2, <2>3, NotNone DEF Ids
  <2>5. intPortMap_' \in [IntKeys -> MapIds \cup {None}]
    BY <2>2, <2>3
  <2>6. /\ \A x \in MapIds : entry'[x] # None =>
             entry'[x] \in [key : IntKeys, int : IntPorts, ext : Ports]
        /\ \A x \in FilterIds : entry'[x] = entry[x]
        /\ armed \subseteq {x \in Ids : entry'[x] # None}
    BY <2>2, <2>4 DEF Ids
  <2>7. \A b \in Callers :
          /\ hold'[b] = IF b = c THEN e ELSE hold[b]
          /\ pc'[b] = IF b = c THEN "putExt" ELSE pc[b]
    BY <2>2
  <2> QED
    BY <2>1, <2>2, <2>5, <2>6, <2>7 DEF Ids
<1>6. ASSUME NEW c \in Callers, PutExt(c) PROVE TypeOK'
  BY <1>6 DEF PutExt, ArmTimer, Ways, Held, Ids
<1>7. ASSUME NEW c \in Callers, MapIn(c) PROVE TypeOK'
  <2>1. /\ pc[c] = "mapIn" /\ UNCHANGED <<config, maps, entry, timers, held, sent, dnatted>>
        /\ \A b \in Callers \ {c} : pc'[b] = pc[b] /\ pkt'[b] = pkt[b] /\ hold'[b] = hold[b]
        /\ \/ pc'[c] \in {"forward", "drop"} /\ hold'[c] = hold[c]
           \/ pc'[c] = "release" /\ hold'[c] \in MapIds
    BY <1>7, MapInSteps
  <2>2. hold'[c] # None <=> pc'[c] = "release"
    BY <2>1 DEF Ids
  <2>3. pc'[c] # "idle" /\ pkt'[c] # NoPacket
    BY <2>1 DEF NoPacket
  <2> QED
    BY <1>c, <2>1, <2>2, <2>3
<1>8. ASSUME NEW c \in Callers, FilterOut(c) PROVE TypeOK'
  <2>1. /\ pc[c] = "filterOut" /\ UNCHANGED <<config, maps, entry, timers, held, pkt, dnatted>>
        /\ sent' = sent \cup {<<pkt[c].orig, pkt[c].port, pkt[c].remote>>} /\ pkt[c].dir = "out"
        /\ \A b \in Callers \ {c} : pc'[b] = pc[b] /\ pkt'[b] = pkt[b] /\ hold'[b] = hold[b]
        /\ \/ pc'[c] \in {"forward", "filterPut"} /\ hold'[c] = hold[c]
           \/ pc'[c] = "filterRearm" /\ hold'[c] \in FilterIds
    BY <1>8, FilterOutSteps
  <2>2. hold'[c] # None <=> pc'[c] = "filterRearm"
    BY <2>1 DEF Ids
  <2>3. pc'[c] # "idle" /\ pkt'[c] # NoPacket
    BY <2>1 DEF NoPacket
  <2>4. sent' \subseteq IntPorts \X Ports \X Remotes
    BY <2>1
  <2> QED
    BY <1>c, <2>1, <2>2, <2>3, <2>4
<1>9. ASSUME NEW c \in Callers, FilterPut(c) PROVE TypeOK'
  <2>1. pc[c] = "filterPut" /\ UNCHANGED <<config, intPortMap_, extPortMap_, pkt, sent, dnatted>>
    BY <1>9 DEF FilterPut
  <2> DEFINE key == ConnKey(pkt[c].port, pkt[c].remote)
  <2>2. PICK e \in FilterIds :
          /\ entry[e] = None
          /\ entry' = [entry EXCEPT ![e] = [key |-> key]]
          /\ connMap_' = [connMap_ EXCEPT ![key] = e]
          /\ armed' = armed \cup {e}
          /\ Hold(c, e) /\ To(c, "releaseLocked")
    BY <1>9 DEF FilterPut, ArmTimer
  <2>3. key \in ConnKeys
    BY <2>1, KeysTyped
  <2> HIDE DEF key
  <2>4. entry'[e] # None /\ entry'[e] \in [key : ConnKeys]
    BY <2>2, <2>3, NotNone DEF Ids
  <2>5. connMap_' \in [ConnKeys -> FilterIds \cup {None}]
    BY <2>2, <2>3
  <2>6. /\ \A x \in FilterIds : entry'[x] # None => entry'[x] \in [key : ConnKeys]
        /\ \A x \in MapIds : entry'[x] = entry[x]
        /\ armed' \subseteq {x \in Ids : entry'[x] # None}
    BY <2>2, <2>4 DEF Ids
  <2>7. \A b \in Callers :
          /\ hold'[b] = IF b = c THEN e ELSE hold[b]
          /\ pc'[b] = IF b = c THEN "releaseLocked" ELSE pc[b]
    BY <2>2
  <2> QED
    BY <2>1, <2>2, <2>5, <2>6, <2>7 DEF Ids
<1>10. ASSUME NEW c \in Callers, Release(c) \/ ReleaseLocked(c) PROVE TypeOK'
  BY <1>10 DEF Release, ReleaseLocked, NextCall
<1>11. ASSUME NEW c \in Callers, CallerDeletes(c) PROVE TypeOK'
  <2>1. /\ pc[c] = "deleter" /\ pc' = [pc EXCEPT ![c] = NextCall(c)]
        /\ hold' = [hold EXCEPT ![c] = None]
        /\ UNCHANGED <<config, armed, pkt, sent, dnatted>>
    BY <1>11 DEF CallerDeletes
  <2>2. hold[c] \in Ids /\ entry[hold[c]] # None /\ hold[c] \notin armed
    BY <2>1 DEF Held
  <2>3. /\ entry' = [entry EXCEPT ![hold[c]] = None]
        /\ intPortMap_' \in [IntKeys -> MapIds \cup {None}]
        /\ extPortMap_' \in [Ports -> MapIds \cup {None}]
        /\ connMap_' \in [ConnKeys -> FilterIds \cup {None}]
    BY <1>11, <2>2 DEF CallerDeletes, Erase, Ids
  <2>4. \A b \in Callers : /\ hold'[b] = IF b = c THEN None ELSE hold[b]
                           /\ pc'[b] = IF b = c THEN NextCall(c) ELSE pc[b]
    BY <2>1
  <2> QED
    BY <2>1, <2>2, <2>3, <2>4 DEF NextCall, Ids
<1>12. ASSUME NEW c \in Callers, Forward(c) \/ Drop(c) PROVE TypeOK'
  <2>1. /\ UNCHANGED <<config, maps, entry, armed, hold, sent>>
        /\ pc[c] \in {"forward", "drop"} /\ pc' = [pc EXCEPT ![c] = "idle"]
        /\ pkt' = [pkt EXCEPT ![c] = NoPacket]
    BY <1>12 DEF Forward, Drop
  <2>2. dnatted' \subseteq (DOMAIN DnatRules) \X Remotes
    BY <1>12 DEF Forward, Drop
  <2>3. \A b \in Callers : /\ pc'[b] = IF b = c THEN "idle" ELSE pc[b]
                           /\ pkt'[b] = IF b = c THEN NoPacket ELSE pkt[b]
    BY <2>1
  <2> QED
    BY <2>1, <2>2, <2>3
<1>13. ASSUME NEW e \in Ids, Expire(e) PROVE TypeOK'
  BY <1>13 DEF Expire
<1>14. ASSUME NEW e \in Ids, PoolDeletes(e) PROVE TypeOK'
  <2>1. /\ entry[e] # None /\ e \notin armed
        /\ UNCHANGED <<config, armed, hold, pc, pkt, sent, dnatted>>
    BY <1>14 DEF PoolDeletes
  <2>2. /\ entry' = [entry EXCEPT ![e] = None]
        /\ intPortMap_' \in [IntKeys -> MapIds \cup {None}]
        /\ extPortMap_' \in [Ports -> MapIds \cup {None}]
        /\ connMap_' \in [ConnKeys -> FilterIds \cup {None}]
    BY <1>14, <2>1 DEF PoolDeletes, Erase, Ids
  <2> QED
    BY <2>1, <2>2 DEF Ids
<1>15. ASSUME Tick \/ UNCHANGED vars PROVE TypeOK'
  BY <1>15 DEF Tick, vars
<1> QED
  BY <1>1, <1>2, <1>3, <1>4, <1>5, <1>6, <1>7, <1>8, <1>9, <1>10, <1>11, <1>12, <1>13,
     <1>14, <1>15 DEF Next, Continue

\* The types, and who holds what, as an invariant.
LEMMA InvStep == Inv /\ [Next]_vars => Inv'
BY TypeStep, MoreTypesStep, WaysStep, HeldStep DEF Inv

\* ... of every behaviour.
LEMMA InvSafe == Spec => []Inv
BY InvInit, InvStep, PTL DEF Spec

\* The variables have their types in every reachable state, a caller holds an
\* entry exactly in the steps that use it, and a timer runs only for an entry
\* that exists, for any number of callers.
THEOREM TypeCorrect == Spec => []TypeOK
<1>1. Inv => TypeOK
  BY DEF Inv
<1> QED
  BY <1>1, InvSafe, PTL

-----------------------------------------------------------------------------
(* The slots. *)
\* removeFromMaps() leaves no slot of the entry behind, and those of the others
\* as they were or empty.
LEMMA EraseSlots ==
  ASSUME Inv, NoStaleSlot, NEW e \in Ids, entry[e] # None, Erase(e), type_' = type_
  PROVE  /\ NoStaleSlot'
         /\ \A x \in Ids \ {e} : entry'[x] = entry[x]
         /\ \A p \in Ports :
              extPortMap_'[p] = IF e \in MapIds /\ p = entry[e].ext THEN None ELSE extPortMap_[p]
<1> USE ConstantsAssumption DEF Inv, TypeOK, MoreTypes, Ids
<1>1. entry' = [entry EXCEPT ![e] = None] /\ IntKeys' = IntKeys /\ ConnKeys' = ConnKeys
  BY KeysKept DEF Erase
<1>2. CASE e \in MapIds
  <2>1. /\ intPortMap_' = [intPortMap_ EXCEPT ![entry[e].key] = None]
        /\ extPortMap_' = [extPortMap_ EXCEPT ![entry[e].ext] = None]
        /\ connMap_' = connMap_
    BY <1>2 DEF Erase
  <2> QED
    BY <1>1, <1>2, <2>1 DEF NoStaleSlot
<1>3. CASE e \in FilterIds
  <2>1. /\ connMap_' = [connMap_ EXCEPT ![entry[e].key] = None]
        /\ UNCHANGED <<intPortMap_, extPortMap_>>
    BY <1>3 DEF Erase
  <2> QED
    BY <1>1, <1>3, <2>1 DEF NoStaleSlot
<1> QED
  BY <1>2, <1>3

\* A slot is written with an entry of its key, and erased with the entry.
LEMMA SlotsStep == Inv /\ Slots /\ [Next]_vars => Slots'
<1> SUFFICES ASSUME Inv, Slots, [Next]_vars PROVE Slots'
  OBVIOUS
<1>0. Inv'
  BY InvStep
<1>k. type_' = type_ => IntKeys' = IntKeys /\ ConnKeys' = ConnKeys
  BY KeysKept
<1> USE <1>0, <1>k, ConstantsAssumption
    DEF Inv, MoreTypes, Slots, At, To, Goto, SetPort, Hold, config, maps, timers
<1>1. ASSUME NEW c \in Callers, NEW r \in Remotes,
             (\E p \in IntPorts : Outgoing(c, p, r)) \/ (\E p \in Ports : Ingoing(c, p, r))
      PROVE  Slots'
  BY <1>1 DEF Outgoing, Ingoing, NoStaleSlot
<1>2. ASSUME NEW c \in Callers, MapOut(c) PROVE Slots'
  BY <1>2, MapOutSteps DEF NoStaleSlot
<1>3. ASSUME NEW c \in Callers, MapRearm(c) \/ FilterRearm(c) PROVE Slots'
  BY <1>3 DEF MapRearm, FilterRearm, NoStaleSlot
<1>4. ASSUME NEW c \in Callers, NewPort(c) \/ FilterIn(c) PROVE Slots'
  BY <1>4 DEF NewPort, FilterIn, NoStaleSlot
<1>5. ASSUME NEW c \in Callers, PutInt(c) PROVE Slots'
  <2>1. pc[c] = "putInt" /\ UNCHANGED <<config, extPortMap_, connMap_, pkt>>
    BY <1>5 DEF PutInt
  <2> DEFINE key == IntKey(pkt[c].orig, pkt[c].remote)
  <2>2. PICK e \in MapIds :
          /\ entry[e] = None
          /\ entry' = [entry EXCEPT ![e] = [key |-> key, int |-> pkt[c].orig, ext |-> pkt[c].port]]
          /\ intPortMap_' = [intPortMap_ EXCEPT ![key] = e]
          /\ Hold(c, e) /\ To(c, "putExt")
    BY <1>5 DEF PutInt
  <2>3. key \in IntKeys /\ entry'[e] # None /\ entry'[e].key = key /\ entry'[e].ext = pkt[c].port
    BY <2>1, <2>2, KeysTyped, NotNone DEF Ids, Ports
  <2> HIDE DEF key
  <2>4. \A x \in Ids \ {e} : entry'[x] = entry[x]
    BY <2>2
  <2>5. NoStaleSlot'
    BY <2>1, <2>2, <2>3, <2>4 DEF NoStaleSlot, TypeOK, Ids
  <2>6. \A b \in Callers : pc'[b] = "putExt" => entry'[hold'[b]].ext = pkt'[b].port
    BY <2>1, <2>2, <2>3, <2>4 DEF Ways, Held, Ids
  <2> QED
    BY <2>5, <2>6
<1>6. ASSUME NEW c \in Callers, PutExt(c) PROVE Slots'
  BY <1>6 DEF PutExt, Ways, Held, NoStaleSlot, TypeOK
<1>7. ASSUME NEW c \in Callers, MapIn(c) PROVE Slots'
  BY <1>7, MapInSteps DEF NoStaleSlot
<1>8. ASSUME NEW c \in Callers, FilterOut(c) PROVE Slots'
  BY <1>8, FilterOutSteps DEF NoStaleSlot
<1>9. ASSUME NEW c \in Callers, FilterPut(c) PROVE Slots'
  <2>1. pc[c] = "filterPut" /\ UNCHANGED <<config, intPortMap_, extPortMap_, pkt>>
    BY <1>9 DEF FilterPut
  <2> DEFINE key == ConnKey(pkt[c].port, pkt[c].remote)
  <2>2. PICK e \in FilterIds :
          /\ entry[e] = None
          /\ entry' = [entry EXCEPT ![e] = [key |-> key]]
          /\ connMap_' = [connMap_ EXCEPT ![key] = e]
          /\ Hold(c, e) /\ To(c, "releaseLocked")
    BY <1>9 DEF FilterPut
  <2>3. key \in ConnKeys /\ entry'[e] # None /\ entry'[e].key = key
    BY <2>1, <2>2, KeysTyped, NotNone DEF Ids
  <2> HIDE DEF key
  <2>4. \A x \in Ids \ {e} : entry'[x] = entry[x]
    BY <2>2
  <2>5. NoStaleSlot'
    BY <2>1, <2>2, <2>3, <2>4 DEF NoStaleSlot, TypeOK, Ids
  <2>6. \A b \in Callers : pc'[b] = "putExt" => entry'[hold'[b]].ext = pkt'[b].port
    BY <2>1, <2>2, <2>3, <2>4 DEF Ways, Held, Ids
  <2> QED
    BY <2>5, <2>6
<1>10. ASSUME NEW c \in Callers, Release(c) \/ ReleaseLocked(c) PROVE Slots'
  BY <1>10 DEF Release, ReleaseLocked, NextCall, NoStaleSlot
<1>11. ASSUME NEW c \in Callers, CallerDeletes(c) PROVE Slots'
  <2>1. /\ pc[c] = "deleter" /\ pc' = [pc EXCEPT ![c] = NextCall(c)]
        /\ hold' = [hold EXCEPT ![c] = None] /\ Erase(hold[c])
        /\ UNCHANGED <<config, pkt>>
    BY <1>11 DEF CallerDeletes
  <2>2. hold[c] \in Ids /\ entry[hold[c]] # None
    BY <2>1 DEF Held, TypeOK
  <2>3. NoStaleSlot' /\ \A x \in Ids \ {hold[c]} : entry'[x] = entry[x]
    BY <2>1, <2>2, EraseSlots
  <2>4. \A b \in Callers : pc'[b] = "putExt" => b # c /\ hold[b] # hold[c] /\ pc[b] = "putExt"
    BY <2>1 DEF Held, NextCall
  <2> QED
    BY <2>1, <2>3, <2>4 DEF Ways, Ids
<1>12. ASSUME NEW c \in Callers, Forward(c) \/ Drop(c) PROVE Slots'
  BY <1>12 DEF Forward, Drop, NoStaleSlot
<1>13. ASSUME NEW e \in Ids, Expire(e) PROVE Slots'
  BY <1>13 DEF Expire, NoStaleSlot
<1>14. ASSUME NEW e \in Ids, PoolDeletes(e) PROVE Slots'
  <2>1. NoStaleSlot' /\ \A x \in Ids \ {e} : entry'[x] = entry[x]
    BY <1>14, EraseSlots DEF PoolDeletes
  <2> QED
    BY <1>14, <2>1 DEF PoolDeletes, Ways, Ids
<1>15. ASSUME Tick \/ UNCHANGED vars PROVE Slots'
  BY <1>15 DEF Tick, vars, NoStaleSlot
<1> QED
  BY <1>1, <1>2, <1>3, <1>4, <1>5, <1>6, <1>7, <1>8, <1>9, <1>10, <1>11, <1>12, <1>13,
     <1>14, <1>15 DEF Next, Continue

\* No slot outlives its entry, however the calls that make a connection and the
\* deleters of others with the same keys interleave.
THEOREM NoStaleSlotSafe == Spec => []NoStaleSlot
<1>1. Init => Slots
  BY DEF Init, Slots, NoStaleSlot
<1>2. Slots => NoStaleSlot
  BY DEF Slots
<1> QED
  BY <1>1, <1>2, InvSafe, SlotsStep, PTL DEF Spec

-----------------------------------------------------------------------------
(* The mutexes. *)
\* The thread that looks for a free port keeps the deleters off the map.
LEMMA FullStep == Inv /\ Full /\ [Next]_vars => Full'
<1> SUFFICES ASSUME Inv, Full, [Next]_vars PROVE Full'
  OBVIOUS
<1> USE ConstantsAssumption DEF Inv, MoreTypes, Full, At, To, Goto, Hold, config, maps, timers
<1>1. ASSUME NEW c \in Callers, NEW r \in Remotes,
             (\E p \in IntPorts : Outgoing(c, p, r)) \/ (\E p \in Ports : Ingoing(c, p, r))
      PROVE  Full'
  BY <1>1 DEF Outgoing, Ingoing
<1>2. ASSUME NEW c \in Callers, MapOut(c) PROVE Full'
  BY <1>2, MapOutSteps
<1>3. ASSUME NEW c \in Callers, MapRearm(c) \/ FilterRearm(c) \/ FilterIn(c) PROVE Full'
  BY <1>3 DEF MapRearm, FilterRearm, FilterIn
<1>4. ASSUME NEW c \in Callers, NewPort(c) PROVE Full'
  BY <1>4 DEF NewPort, FreePort
<1>5. ASSUME NEW c \in Callers, PutInt(c) \/ FilterPut(c) PROVE Full'
  BY <1>5 DEF PutInt, FilterPut
<1>6. ASSUME NEW c \in Callers, PutExt(c) PROVE Full'
  BY <1>6 DEF PutExt, TypeOK
<1>7. ASSUME NEW c \in Callers, MapIn(c) PROVE Full'
  BY <1>7, MapInSteps
<1>8. ASSUME NEW c \in Callers, FilterOut(c) PROVE Full'
  BY <1>8, FilterOutSteps
<1>9. ASSUME NEW c \in Callers, Release(c) \/ ReleaseLocked(c) PROVE Full'
  BY <1>9 DEF Release, ReleaseLocked, NextCall
<1>10. ASSUME NEW c \in Callers, CallerDeletes(c) PROVE Full'
  BY <1>10 DEF CallerDeletes, NextCall, MutexFree, Erase
<1>11. ASSUME NEW c \in Callers, Forward(c) \/ Drop(c) PROVE Full'
  BY <1>11 DEF Forward, Drop
<1>12. ASSUME NEW e \in Ids, Expire(e) \/ PoolDeletes(e) PROVE Full'
  BY <1>12 DEF Expire, PoolDeletes, MutexFree, Erase
<1>13. ASSUME Tick \/ UNCHANGED vars PROVE Full'
  BY <1>13 DEF Tick, vars
<1> QED
  BY <1>1, <1>2, <1>3, <1>4, <1>5, <1>6, <1>7, <1>8, <1>9, <1>10, <1>11, <1>12, <1>13
  DEF Next, Continue

\* mapPort() searches for ever only if each port number has a connection, for
\* any number of them and of callers.
THEOREM LostOnlyIfFullSafe == Spec => []LostOnlyIfFull
<1>1. Init => Slots /\ Full
  BY DEF Init, Slots, NoStaleSlot, Full
<1>2. Inv /\ Slots /\ Full => LostOnlyIfFull
  <2> SUFFICES ASSUME Inv, Slots, Full, \E c \in Callers : pc[c] = "spin", NEW p \in Ports
               PROVE  \E e \in MapIds : entry[e] # None /\ entry[e].ext = p
    BY DEF LostOnlyIfFull
  <2>1. extPortMap_[p] \in MapIds /\ extPortMap_[p] # None
    BY DEF Inv, TypeOK, Full
  <2> QED
    BY <2>1 DEF Slots, NoStaleSlot
<1> QED
  BY <1>1, <1>2, InvSafe, SlotsStep, FullStep, PTL DEF Spec

\* The timer holds the entry until its maker has let go of it, unless that takes
\* the maker as long as the timeout.
LEMMA KeptStep == Inv /\ Kept /\ [Next]_vars => Kept'
<1> SUFFICES ASSUME Inv, Kept, [Next]_vars PROVE Kept'
  OBVIOUS
<1>0. /\ config \in NatOptions /\ connectionTimeout_ \in Nat
      /\ left \in [Ids -> Nat] /\ held \in [Callers -> Nat]
      /\ \A c \in Callers : held[c] <= connectionTimeout_
  BY ConstantsAssumption DEF Inv, TypeOK, TimersOK, config
<1> USE <1>0, ConstantsAssumption
    DEF Inv, MoreTypes, Kept, NoSelfDeadlock, At, To, Goto, Hold, config, maps, timers
<1>1. ASSUME NEW c \in Callers, NEW r \in Remotes,
             (\E p \in IntPorts : Outgoing(c, p, r)) \/ (\E p \in Ports : Ingoing(c, p, r))
      PROVE  Kept'
  BY <1>1 DEF Outgoing, Ingoing
<1>2. ASSUME NEW c \in Callers, MapOut(c) PROVE Kept'
  BY <1>2, MapOutSteps
\* Whoever arms a timer, it has all of the timeout to go.
<1>a. ASSUME NEW c \in Callers, NEW e \in Ids, ArmTimer(e), UNCHANGED <<config, held>>,
             \A b \in Callers \ {c} : pc'[b] = pc[b] /\ hold'[b] = hold[b],
             pc'[c] # "stuck", pc'[c] = "releaseLocked" => hold'[c] = e
      PROVE  Kept'
  <2>1. armed' = armed \cup {e} /\ left' = [left EXCEPT ![e] = connectionTimeout_]
    BY <1>a DEF ArmTimer
  <2>2. ASSUME NEW b \in Callers, pc'[b] = "releaseLocked"
        PROVE  \/ hold'[b] \in armed' /\ left'[hold'[b]] + held'[b] >= connectionTimeout_'
               \/ held'[b] = connectionTimeout_'
    <3>1. CASE hold'[b] = e
      BY <1>a, <2>1, <3>1
    <3>2. CASE hold'[b] # e
      <4>1. b # c /\ pc[b] = "releaseLocked" /\ hold'[b] = hold[b] /\ hold[b] \in Ids
        BY <1>a, <2>2, <3>2 DEF TypeOK
      <4>2. left'[hold[b]] = left[hold[b]]
        BY <2>1, <3>2, <4>1
      <4> QED
        BY <1>a, <2>1, <4>1, <4>2
    <3> QED
      BY <3>1, <3>2
  <2> QED
    BY <1>a, <2>2
<1>3. ASSUME NEW c \in Callers, MapRearm(c) \/ FilterRearm(c) \/ PutExt(c) PROVE Kept'
  <2>1. hold[c] \in Ids /\ ArmTimer(hold[c]) /\ UNCHANGED <<config, held, hold>>
    BY <1>3 DEF MapRearm, FilterRearm, PutExt, Ways, Ids
  <2>2. pc'[c] = "release" /\ \A b \in Callers \ {c} : pc'[b] = pc[b]
    BY <1>3 DEF MapRearm, FilterRearm, PutExt
  <2> QED
    BY <1>a, <2>1, <2>2
<1>4. ASSUME NEW c \in Callers, NewPort(c) \/ FilterIn(c) PROVE Kept'
  BY <1>4 DEF NewPort, FilterIn
<1>5. ASSUME NEW c \in Callers, PutInt(c) PROVE Kept'
  BY <1>5 DEF PutInt
<1>6. ASSUME NEW c \in Callers, FilterPut(c) PROVE Kept'
  <2>1. PICK e \in FilterIds : ArmTimer(e) /\ Hold(c, e)
    BY <1>6 DEF FilterPut
  <2>2. UNCHANGED <<config, held>> /\ To(c, "releaseLocked")
    BY <1>6 DEF FilterPut
  <2> QED
    BY <1>a, <2>1, <2>2 DEF Ids
<1>7. ASSUME NEW c \in Callers, MapIn(c) PROVE Kept'
  BY <1>7, MapInSteps
<1>8. ASSUME NEW c \in Callers, FilterOut(c) PROVE Kept'
  BY <1>8, FilterOutSteps
<1>9. ASSUME NEW c \in Callers, Release(c) PROVE Kept'
  BY <1>9 DEF Release, NextCall
<1>10. ASSUME NEW c \in Callers, ReleaseLocked(c) PROVE Kept'
  <2>1. UNCHANGED <<config, timers>> /\ pc[c] = "releaseLocked"
    BY <1>10 DEF ReleaseLocked
  <2>2. CASE Last(c)
    <3>1. pc' = [pc EXCEPT ![c] = "stuck"] /\ UNCHANGED <<hold, held>>
      BY <1>10, <2>2 DEF ReleaseLocked
    <3>2. held[c] = connectionTimeout_
      BY <2>1, <2>2 DEF Last
    <3> QED
      BY <2>1, <3>1, <3>2
  <2>3. CASE ~Last(c)
    BY <1>10, <2>1, <2>3 DEF ReleaseLocked, NextCall
  <2> QED
    BY <2>2, <2>3
<1>11. ASSUME NEW c \in Callers, CallerDeletes(c) PROVE Kept'
  BY <1>11 DEF CallerDeletes, NextCall
<1>12. ASSUME NEW c \in Callers, Forward(c) \/ Drop(c) PROVE Kept'
  BY <1>12 DEF Forward, Drop
\* A timer that is due leaves nothing to wait for but the thread.
<1>13. ASSUME NEW e \in Ids, Expire(e) PROVE Kept'
  <2>1. left[e] = 0 /\ armed' = armed \ {e} /\ UNCHANGED <<config, left, hold, held, pc>>
    BY <1>13 DEF Expire
  <2>2. \A c \in Callers : pc[c] = "releaseLocked" /\ hold[c] = e => held[c] = connectionTimeout_
    BY <2>1
  <2> QED
    BY <2>1, <2>2
<1>14. ASSUME NEW e \in Ids, PoolDeletes(e) PROVE Kept'
  BY <1>14 DEF PoolDeletes
<1>15. ASSUME Tick PROVE Kept'
  <2>1. UNCHANGED <<config, armed, hold, pc>>
    BY <1>15 DEF Tick
  <2>2. \A e \in Ids : left'[e] = IF left[e] > 0 THEN left[e] - 1 ELSE 0
    BY <1>15 DEF Tick
  <2>3. \A c \in Callers : pc[c] \in {"releaseLocked", "stuck"} =>
          held'[c] = IF held[c] < connectionTimeout_ THEN held[c] + 1 ELSE held[c]
    BY <1>15 DEF Tick, MutexHeld
  <2>4. \A c \in Callers : pc[c] = "releaseLocked" => hold[c] \in Ids
    BY DEF Ways, Ids
  <2> QED
    BY <2>1, <2>2, <2>3, <2>4
<1>16. ASSUME UNCHANGED vars PROVE Kept'
  BY <1>16 DEF vars
<1> QED
  BY <1>1, <1>2, <1>3, <1>4, <1>5, <1>6, <1>7, <1>8, <1>9, <1>10, <1>11, <1>12, <1>13, <1>14,
     <1>15, <1>16 DEF Next, Continue

\* A thread waits in a deleter for the mutex it holds itself only when it has
\* held it for as long as --nat-timeout, which is what it takes for the timer of
\* a new entry to be due, whatever the other threads and timers do.
THEOREM NoSelfDeadlockSafe == Spec => []NoSelfDeadlock
<1>1. Init => Kept
  BY DEF Init, Kept, NoSelfDeadlock
<1>2. Kept => NoSelfDeadlock
  BY DEF Kept
<1> QED
  BY <1>1, <1>2, InvSafe, KeptStep, PTL DEF Spec

-----------------------------------------------------------------------------
(* The symmetric mapper's ports. *)
\* The options stay, and what was sent stays sent.
LEMMA Lasting == [Next]_vars => type_' = type_ /\ sent \subseteq sent'
BY DEF Next, Continue, vars, Outgoing, Ingoing, MapOut, MapRearm, NewPort, PutInt, PutExt,
       FilterIn, MapIn, FilterOut, FilterRearm, FilterPut, Release, ReleaseLocked,
       CallerDeletes, Forward, Drop, Expire, Tick, PoolDeletes, config

\* With one caller, nobody takes a port between its choice and its slot.
LEMMA OwnerStep == SingleCaller /\ Inv /\ Slots /\ Owner /\ [Next]_vars => Owner'
<1> SUFFICES ASSUME SingleCaller, Inv, Slots, Owner, [Next]_vars, type_' = "symnat"
             PROVE  Owner'
  BY DEF Owner
<1>0. Inv' /\ type_ = "symnat"
  BY InvStep, Lasting
<1> USE <1>0, ConstantsAssumption
    DEF Inv, MoreTypes, Owner, OwnsExternalPort, At, To, Goto, SetPort, Hold, config, maps, timers
<1>1. ASSUME NEW c \in Callers, NEW r \in Remotes,
             (\E p \in IntPorts : Outgoing(c, p, r)) \/ (\E p \in Ports : Ingoing(c, p, r))
      PROVE  Owner'
  BY <1>1 DEF Outgoing, Ingoing
<1>2. ASSUME NEW c \in Callers, MapOut(c) PROVE Owner'
  BY <1>2, MapOutSteps
<1>3. ASSUME NEW c \in Callers, MapRearm(c) \/ FilterRearm(c) \/ FilterIn(c) PROVE Owner'
  BY <1>3 DEF MapRearm, FilterRearm, FilterIn
<1>4. ASSUME NEW c \in Callers, NewPort(c) PROVE Owner'
  BY <1>4 DEF NewPort, FreePort
<1>5. ASSUME NEW c \in Callers, PutInt(c) PROVE Owner'
  <2>1. pc[c] = "putInt" /\ UNCHANGED <<extPortMap_, pkt>>
    BY <1>5 DEF PutInt
  <2>2. PICK e \in MapIds :
          /\ entry' = [entry EXCEPT ![e] = [key |-> IntKey(pkt[c].orig, pkt[c].remote),
                                            int |-> pkt[c].orig, ext |-> pkt[c].port]]
          /\ Hold(c, e) /\ To(c, "putExt")
    BY <1>5 DEF PutInt
  <2>3. hold'[c] = e /\ pc'[c] = "putExt" /\ \A x \in MapIds \ {e} : entry'[x] = entry[x]
    BY <2>2
  <2>4. \A b \in Callers : b = c
    BY DEF SingleCaller
  <2> QED
    BY <2>1, <2>3, <2>4
<1>6. ASSUME NEW c \in Callers, PutExt(c) PROVE Owner'
  <2>1. /\ pc[c] = "putExt" /\ extPortMap_' = [extPortMap_ EXCEPT ![pkt[c].port] = hold[c]]
        /\ pc'[c] = "release" /\ UNCHANGED <<entry, hold, pkt>>
    BY <1>6 DEF PutExt
  <2>2. entry[hold[c]].ext = pkt[c].port /\ pkt[c].port \in Ports /\ hold[c] \in MapIds
    BY <2>1 DEF Slots, Ways
  <2>3. extPortMap_[pkt[c].port] = None
    BY <2>1
  <2>4. \A b \in Callers : b = c
    BY DEF SingleCaller
  <2>5. \A e \in MapIds : entry[e] # None /\ e # hold[c] =>
          extPortMap_'[entry[e].ext] = e
    BY <2>1, <2>3, <2>4 DEF TypeOK, Ids
  <2> QED
    BY <2>1, <2>2, <2>4, <2>5 DEF TypeOK
<1>7. ASSUME NEW c \in Callers, MapIn(c) PROVE Owner'
  BY <1>7, MapInSteps
<1>8. ASSUME NEW c \in Callers, FilterOut(c) PROVE Owner'
  BY <1>8, FilterOutSteps
<1>9. ASSUME NEW c \in Callers, FilterPut(c) PROVE Owner'
  BY <1>9 DEF FilterPut
<1>10. ASSUME NEW c \in Callers, Release(c) \/ ReleaseLocked(c) PROVE Owner'
  BY <1>10 DEF Release, ReleaseLocked, NextCall
<1>11. ASSUME NEW e \in Ids, entry[e] # None, Erase(e), UNCHANGED <<config, pkt>>,
              \A c \in Callers : pc[c] = "putExt" => hold[c] # e,
              \A c \in Callers : pc'[c] \in {"putInt", "putExt"} => pc'[c] = pc[c] /\ hold'[c] = hold[c],
              \A c \in Callers : pc[c] \in {"putInt", "putExt"} => pc'[c] = pc[c] /\ hold'[c] = hold[c]
       PROVE  Owner'
  <2>1. /\ \A x \in Ids \ {e} : entry'[x] = entry[x]
        /\ \A p \in Ports :
             extPortMap_'[p] = IF e \in MapIds /\ p = entry[e].ext THEN None ELSE extPortMap_[p]
    BY <1>11, EraseSlots DEF Slots
  <2>2. entry'[e] = None
    BY <1>11 DEF Erase
  <2>3. e \in MapIds => extPortMap_[entry[e].ext] = e
    BY <1>11
  <2> QED
    BY <1>11, <2>1, <2>2, <2>3 DEF TypeOK, Ids
<1>12. ASSUME NEW c \in Callers, CallerDeletes(c) PROVE Owner'
  <2>1. /\ pc[c] = "deleter" /\ Erase(hold[c]) /\ UNCHANGED <<config, pkt>>
        /\ \A b \in Callers : b = c
        /\ pc'[c] \notin {"putInt", "putExt"}
    BY <1>12 DEF CallerDeletes, SingleCaller, NextCall
  <2>2. hold[c] \in Ids /\ entry[hold[c]] # None
    BY <2>1 DEF Held, TypeOK
  <2> QED
    BY <1>11, <2>1, <2>2
<1>13. ASSUME NEW c \in Callers, Forward(c) \/ Drop(c) PROVE Owner'
  BY <1>13 DEF Forward, Drop
<1>14. ASSUME NEW e \in Ids, Expire(e) PROVE Owner'
  BY <1>14 DEF Expire
<1>15. ASSUME NEW e \in Ids, PoolDeletes(e) PROVE Owner'
  BY <1>11, <1>15 DEF PoolDeletes
<1>16. ASSUME Tick \/ UNCHANGED vars PROVE Owner'
  BY <1>16 DEF Tick, vars
<1> QED
  BY <1>1, <1>2, <1>3, <1>4, <1>5, <1>6, <1>7, <1>8, <1>9, <1>10, <1>12, <1>13, <1>14, <1>15,
     <1>16 DEF Next, Continue

\* As long as one thread at a time is in the filter, no two connections of the
\* symmetric mapper share an external port, and each port leads back to its
\* connection.  With two threads this fails: makeNewConn() takes no mutex.
THEOREM OwnsExternalPortSafe ==
  ASSUME SingleCaller PROVE Spec => []OwnsExternalPort
<1>1. Init => Slots /\ Owner
  BY DEF Init, Slots, NoStaleSlot, Owner, OwnsExternalPort, Ids
<1>2. Owner => OwnsExternalPort
  BY DEF Owner, OwnsExternalPort
<1>3. Inv /\ Slots /\ Owner /\ [Next]_vars => Owner'
  BY OwnerStep
<1> QED
  BY <1>1, <1>2, <1>3, InvSafe, SlotsStep, PTL DEF Spec

-----------------------------------------------------------------------------
(* What is let in was asked for. *)
\* The filter makes an entry for what has been sent.
LEMMA FilterSentStep == Inv /\ FilterSent /\ [Next]_vars => FilterSent'
<1> SUFFICES ASSUME Inv, FilterSent, [Next]_vars PROVE FilterSent'
  OBVIOUS
<1>0. Inv' /\ type_' = type_ /\ sent \subseteq sent'
  BY InvStep, Lasting
<1>k. \A p, r : ConnKey(p, r)' = ConnKey(p, r)
  BY <1>0, KeysKept
<1>a. ASSUME \A e \in FilterIds : entry'[e] # None => entry'[e] = entry[e],
             \A b \in Callers : pc'[b] = "filterPut" => pc[b] = "filterPut" /\ pkt'[b] = pkt[b]
      PROVE  FilterSent'
  <2>1. \A i, x, r : Sent(i, x, r) => Sent(i, x, r)'
    BY <1>0 DEF Sent
  <2> QED
    BY <1>a, <1>k, <2>1 DEF FilterSent
<1> USE <1>0, ConstantsAssumption
    DEF Inv, MoreTypes, At, To, Goto, SetPort, Hold, config, maps, timers
<1>1. ASSUME NEW c \in Callers, NEW r \in Remotes,
             (\E p \in IntPorts : Outgoing(c, p, r)) \/ (\E p \in Ports : Ingoing(c, p, r))
      PROVE  FilterSent'
  BY <1>1, <1>a DEF Outgoing, Ingoing
<1>2. ASSUME NEW c \in Callers, MapOut(c) PROVE FilterSent'
  BY <1>2, <1>a, MapOutSteps
<1>3. ASSUME NEW c \in Callers, MapRearm(c) \/ FilterRearm(c) \/ FilterIn(c) PROVE FilterSent'
  BY <1>3, <1>a DEF MapRearm, FilterRearm, FilterIn
<1>4. ASSUME NEW c \in Callers, NewPort(c) PROVE FilterSent'
  BY <1>4, <1>a DEF NewPort
<1>5. ASSUME NEW c \in Callers, PutInt(c) \/ PutExt(c) PROVE FilterSent'
  BY <1>5, <1>a DEF PutInt, PutExt, Ids
<1>6. ASSUME NEW c \in Callers, MapIn(c) PROVE FilterSent'
  BY <1>6, <1>a, MapInSteps
<1>7. ASSUME NEW c \in Callers, FilterOut(c) PROVE FilterSent'
  <2>1. /\ UNCHANGED <<config, entry, pkt>>
        /\ sent' = sent \cup {<<pkt[c].orig, pkt[c].port, pkt[c].remote>>}
        /\ \A b \in Callers \ {c} : pc'[b] = pc[b]
    BY <1>7, FilterOutSteps
  <2>2. /\ \A i, x, r : Sent(i, x, r) => Sent(i, x, r)'
        /\ Sent(pkt[c].orig, pkt[c].port, pkt[c].remote)'
    BY <2>1 DEF Sent
  <2>3. \A b \in Callers : pc'[b] = "filterPut" => Sent(pkt[b].orig, pkt[b].port, pkt[b].remote)'
    BY <2>1, <2>2 DEF FilterSent
  <2>4. \A e \in FilterIds : entry[e] # None =>
          \E i \in IntPorts, x \in Ports, r \in Remotes :
            Sent(i, x, r)' /\ entry[e].key = ConnKey(x, r)'
    BY <1>k, <2>2 DEF FilterSent
  <2> QED
    BY <2>1, <2>3, <2>4 DEF FilterSent, Sent
<1>8. ASSUME NEW c \in Callers, FilterPut(c) PROVE FilterSent'
  <2>1. /\ pc[c] = "filterPut" /\ UNCHANGED <<config, pkt, sent>>
        /\ Sent(pkt[c].orig, pkt[c].port, pkt[c].remote)
        /\ pkt[c].orig \in IntPorts /\ pkt[c].port \in Ports /\ pkt[c].remote \in Remotes
    BY <1>8 DEF FilterPut, Ways, FilterSent
  <2>2. PICK e \in FilterIds :
          /\ entry' = [entry EXCEPT ![e] = [key |-> ConnKey(pkt[c].port, pkt[c].remote)]]
          /\ To(c, "releaseLocked")
    BY <1>8 DEF FilterPut
  <2>3. entry'[e].key = ConnKey(pkt[c].port, pkt[c].remote)
    BY <2>2 DEF Ids
  <2>4. \A x \in FilterIds \ {e} : entry'[x] = entry[x]
    BY <2>2
  <2>5. \A b \in Callers : pc'[b] = "filterPut" => pc[b] = "filterPut"
    BY <2>2
  <2>6. \A x \in FilterIds : entry'[x] # None =>
          \E i \in IntPorts, p \in Ports, r \in Remotes :
            Sent(i, p, r)' /\ entry'[x].key = ConnKey(p, r)'
    <3>1. \A i, p, r : Sent(i, p, r) => Sent(i, p, r)'
      BY <2>1 DEF Sent
    <3> QED
      BY <1>k, <2>1, <2>3, <2>4, <3>1 DEF FilterSent
  <2> QED
    BY <2>1, <2>5, <2>6 DEF FilterSent, Sent
<1>9. ASSUME NEW c \in Callers, Release(c) \/ ReleaseLocked(c) PROVE FilterSent'
  BY <1>9, <1>a DEF Release, ReleaseLocked, NextCall
<1>10. ASSUME NEW c \in Callers, CallerDeletes(c) PROVE FilterSent'
  BY <1>10, <1>a DEF CallerDeletes, NextCall, Erase, Ids
<1>11. ASSUME NEW c \in Callers, Forward(c) \/ Drop(c) PROVE FilterSent'
  BY <1>11, <1>a DEF Forward, Drop
<1>12. ASSUME NEW e \in Ids, Expire(e) \/ PoolDeletes(e) PROVE FilterSent'
  BY <1>12, <1>a DEF Expire, PoolDeletes, Erase, Ids
<1>13. ASSUME Tick \/ UNCHANGED vars PROVE FilterSent'
  BY <1>13, <1>a DEF Tick, vars
<1> QED
  BY <1>1, <1>2, <1>3, <1>4, <1>5, <1>6, <1>7, <1>8, <1>9, <1>10, <1>11, <1>12, <1>13
  DEF Next, Continue

\* The mapper makes an entry for what is about to be sent.
LEMMA MapperSentStep == Inv /\ MapperSent /\ [Next]_vars => MapperSent'
<1> SUFFICES ASSUME Inv, MapperSent, [Next]_vars PROVE MapperSent'
  OBVIOUS
<1>0. Inv' /\ sent \subseteq sent'
  BY InvStep, Lasting
<1>a. ASSUME \A e \in MapIds : entry'[e] # None => entry'[e] = entry[e],
             \A b \in Callers : Outbound(b) => Outbound(b)' /\ pkt'[b] = pkt[b]
      PROVE  MapperSent'
  <2>1. \A i, x, r : Sent(i, x, r) => Sent(i, x, r)'
    BY <1>0 DEF Sent
  <2>2. \A e \in MapIds, b \in Callers : entry'[e] # None /\ Sending(b, e) => Sending(b, e)'
    BY <1>a DEF Sending
  <2> QED
    BY <1>a, <2>1, <2>2 DEF MapperSent
<1> USE <1>0, ConstantsAssumption
    DEF Inv, MoreTypes, Outbound, At, To, Goto, SetPort, Hold, config, maps, timers
<1>1. ASSUME NEW c \in Callers, NEW r \in Remotes,
             (\E p \in IntPorts : Outgoing(c, p, r)) \/ (\E p \in Ports : Ingoing(c, p, r))
      PROVE  MapperSent'
  BY <1>1, <1>a DEF Outgoing, Ingoing
<1>2. ASSUME NEW c \in Callers, MapOut(c) PROVE MapperSent'
  BY <1>2, <1>a, MapOutSteps
<1>3. ASSUME NEW c \in Callers, MapRearm(c) \/ FilterRearm(c) \/ FilterIn(c) PROVE MapperSent'
  BY <1>3, <1>a DEF MapRearm, FilterRearm, FilterIn
<1>4. ASSUME NEW c \in Callers, NewPort(c) PROVE MapperSent'
  BY <1>4, <1>a DEF NewPort
<1>5. ASSUME NEW c \in Callers, PutInt(c) PROVE MapperSent'
  <2>1. pc[c] = "putInt" /\ pkt[c].dir = "out" /\ UNCHANGED <<pkt, sent>>
    BY <1>5 DEF PutInt, Ways
  <2>2. PICK e \in MapIds :
          /\ entry' = [entry EXCEPT ![e] = [key |-> IntKey(pkt[c].orig, pkt[c].remote),
                                            int |-> pkt[c].orig, ext |-> pkt[c].port]]
          /\ Hold(c, e) /\ To(c, "putExt")
    BY <1>5 DEF PutInt
  <2>3. entry'[e].int = pkt[c].orig /\ entry'[e].ext = pkt[c].port
    BY <2>2 DEF Ids
  <2>4. Sending(c, e)'
    BY <2>1, <2>2, <2>3 DEF Sending
  <2>5. \A x \in MapIds \ {e} : entry'[x] = entry[x]
    BY <2>2
  <2>6. \A b \in Callers, x \in MapIds \ {e} : Sending(b, x) => Sending(b, x)'
    BY <2>1, <2>2, <2>5 DEF Sending
  <2> QED
    BY <2>1, <2>4, <2>5, <2>6 DEF MapperSent, Sent
<1>6. ASSUME NEW c \in Callers, PutExt(c) PROVE MapperSent'
  BY <1>6, <1>a DEF PutExt
<1>7. ASSUME NEW c \in Callers, MapIn(c) PROVE MapperSent'
  BY <1>7, <1>a, MapInSteps
<1>8. ASSUME NEW c \in Callers, FilterOut(c) PROVE MapperSent'
  <2>1. /\ UNCHANGED <<entry, pkt>> /\ pkt[c].remote \in Remotes
        /\ sent' = sent \cup {<<pkt[c].orig, pkt[c].port, pkt[c].remote>>}
        /\ \A b \in Callers \ {c} : pc'[b] = pc[b] /\ hold'[b] = hold[b]
    BY <1>8, FilterOutSteps
  <2>2. /\ \A i, x, r : Sent(i, x, r) => Sent(i, x, r)'
        /\ Sent(pkt[c].orig, pkt[c].port, pkt[c].remote)'
    BY <2>1 DEF Sent
  <2>3. \A b \in Callers \ {c}, e \in MapIds : Sending(b, e) => Sending(b, e)'
    BY <2>1 DEF Sending
  <2>4. ASSUME NEW e \in MapIds, entry[e] # None
        PROVE  \/ \E r \in Remotes : Sent(entry[e].int, entry[e].ext, r)'
               \/ \E b \in Callers : Sending(b, e)'
    <3>1. CASE \E r \in Remotes : Sent(entry[e].int, entry[e].ext, r)
      BY <2>1, <3>1 DEF Sent
    <3>2. CASE Sending(c, e)
      BY <2>1, <2>2, <3>2 DEF Sending
    <3>3. CASE \E b \in Callers \ {c} : Sending(b, e)
      BY <2>3, <3>3
    <3> QED
      BY <2>4, <3>1, <3>2, <3>3 DEF MapperSent
  <2> QED
    BY <2>1, <2>4 DEF MapperSent, Sent
<1>9. ASSUME NEW c \in Callers, FilterPut(c) PROVE MapperSent'
  BY <1>9, <1>a DEF FilterPut, Ids
<1>10. ASSUME NEW c \in Callers, Release(c) PROVE MapperSent'
  BY <1>10, <1>a DEF Release, NextCall
<1>11. ASSUME NEW c \in Callers, ReleaseLocked(c) PROVE MapperSent'
  BY <1>11, <1>a DEF ReleaseLocked, NextCall
<1>12. ASSUME NEW c \in Callers, CallerDeletes(c) PROVE MapperSent'
  BY <1>12, <1>a DEF CallerDeletes, NextCall, Erase, Ids
<1>13. ASSUME NEW c \in Callers, Forward(c) \/ Drop(c) PROVE MapperSent'
  BY <1>13, <1>a DEF Forward, Drop
<1>14. ASSUME NEW e \in Ids, Expire(e) \/ PoolDeletes(e) PROVE MapperSent'
  BY <1>14, <1>a DEF Expire, PoolDeletes, Erase, Ids
<1>15. ASSUME Tick \/ UNCHANGED vars PROVE MapperSent'
  BY <1>15, <1>a DEF Tick, vars
<1> QED
  BY <1>1, <1>2, <1>3, <1>4, <1>5, <1>6, <1>7, <1>8, <1>9, <1>10, <1>11, <1>12, <1>13,
     <1>14, <1>15 DEF Next, Continue

\* A cone NAT leaves the port as it is, wherever it is kept.
LEMMA ConeStep == Inv /\ Slots /\ Cone /\ [Next]_vars => Cone'
<1> SUFFICES ASSUME Inv, Slots, Cone, [Next]_vars, type_' # "symnat" PROVE Cone'
  BY DEF Cone
<1>0. Inv' /\ type_ # "symnat"
  BY InvStep, Lasting
<1>k. \A p, r : IntKey(p, r) = <<p>>
  BY <1>0 DEF IntKey
<1> USE <1>0, ConstantsAssumption
    DEF Inv, MoreTypes, Cone, Sent, At, To, Goto, SetPort, Hold, config, maps, timers
<1>1. ASSUME NEW c \in Callers, NEW r \in Remotes,
             (\E p \in IntPorts : Outgoing(c, p, r)) \/ (\E p \in Ports : Ingoing(c, p, r))
      PROVE  Cone'
  BY <1>1 DEF Outgoing, Ingoing
<1>2. ASSUME NEW c \in Callers, MapOut(c) PROVE Cone'
  <2>1. \A e \in MapIds : e = intPortMap_[<<pkt[c].orig>>] /\ Alive(e) /\ pc[c] = "mapOut"
          => entry[e].int = pkt[c].orig
    <3>1. pc[c] = "mapOut" => <<pkt[c].orig>> \in IntKeys
      BY <1>k, KeysTyped
    <3> QED
      BY <3>1, AliveExists DEF Slots, NoStaleSlot, Ids
  <2> QED
    BY <1>2, <1>k, <2>1, MapOutSteps
<1>3. ASSUME NEW c \in Callers, MapRearm(c) PROVE Cone'
  <2>1. entry[hold[c]].ext = pkt[c].orig /\ pc[c] = "mapRearm"
    BY <1>3 DEF MapRearm, Held, Ways, TypeOK
  <2> QED
    BY <1>3, <2>1 DEF MapRearm
<1>4. ASSUME NEW c \in Callers, FilterRearm(c) \/ FilterIn(c) PROVE Cone'
  BY <1>4 DEF FilterRearm, FilterIn
<1>5. ASSUME NEW c \in Callers, NewPort(c) PROVE Cone'
  BY <1>5 DEF NewPort
<1>6. ASSUME NEW c \in Callers, PutInt(c) PROVE Cone'
  <2>1. pc[c] = "putInt" /\ pkt[c].port = pkt[c].orig /\ UNCHANGED <<pkt, sent>>
    BY <1>6 DEF PutInt, Ways
  <2>2. PICK e \in MapIds :
          /\ entry[e] = None
          /\ entry' = [entry EXCEPT ![e] = [key |-> IntKey(pkt[c].orig, pkt[c].remote),
                                            int |-> pkt[c].orig, ext |-> pkt[c].port]]
          /\ Hold(c, e) /\ To(c, "putExt")
    BY <1>6 DEF PutInt
  <2>3. /\ entry'[e].int = pkt[c].orig /\ entry'[e].ext = pkt[c].orig
        /\ entry'[e].key = <<pkt[c].orig>>
    BY <1>k, <2>1, <2>2 DEF Ids
  <2>4. \A x \in MapIds \ {e} : entry'[x] = entry[x]
    BY <2>2
  <2>5. \A b \in Callers : pc'[b] = "mapRearm" =>
          pc[b] = "mapRearm" /\ hold'[b] = hold[b] /\ hold[b] \in MapIds \ {e}
    BY <2>1, <2>2 DEF Held, Ways, TypeOK
  <2>6. \A b \in Callers : pc'[b] # "idle" => pc[b] # "idle"
    BY <2>1, <2>2
  <2> QED
    BY <2>1, <2>3, <2>4, <2>5, <2>6
<1>7. ASSUME NEW c \in Callers, PutExt(c) PROVE Cone'
  BY <1>7 DEF PutExt
<1>8. ASSUME NEW c \in Callers, MapIn(c) PROVE Cone'
  BY <1>8, MapInSteps
<1>9. ASSUME NEW c \in Callers, FilterOut(c) PROVE Cone'
  BY <1>9, FilterOutSteps
<1>10. ASSUME NEW c \in Callers, FilterPut(c) PROVE Cone'
  BY <1>10 DEF FilterPut, Ways, Ids
<1>11. ASSUME NEW c \in Callers, Release(c) \/ ReleaseLocked(c) PROVE Cone'
  BY <1>11 DEF Release, ReleaseLocked, NextCall
<1>12. ASSUME NEW c \in Callers, CallerDeletes(c) PROVE Cone'
  <2>1. /\ pc[c] = "deleter" /\ pc' = [pc EXCEPT ![c] = NextCall(c)]
        /\ NextCall(c) \in {"filterOut", "forward"}
        /\ hold' = [hold EXCEPT ![c] = None]
        /\ entry' = [entry EXCEPT ![hold[c]] = None] /\ UNCHANGED <<pkt, sent>>
    BY <1>12 DEF CallerDeletes, Erase, NextCall
  <2>2. \A e \in MapIds : entry'[e] # None => entry'[e] = entry[e]
    BY <2>1 DEF Ids
  <2>3. \A b \in Callers : pc'[b] = "mapRearm" =>
          /\ pc[b] = "mapRearm" /\ hold'[b] = hold[b] /\ entry'[hold[b]] = entry[hold[b]]
    BY <2>1 DEF Held, Ways, Ids
  <2>4. \A b \in Callers : pc'[b] # "idle" => pc[b] # "idle"
    BY <2>1
  <2> QED
    BY <2>1, <2>2, <2>3, <2>4
<1>13. ASSUME NEW c \in Callers, Forward(c) \/ Drop(c) PROVE Cone'
  BY <1>13 DEF Forward, Drop
<1>14. ASSUME NEW e \in Ids, Expire(e) \/ PoolDeletes(e) PROVE Cone'
  BY <1>14 DEF Expire, PoolDeletes, Erase, Ids, Ways
<1>15. ASSUME Tick \/ UNCHANGED vars PROVE Cone'
  BY <1>15 DEF Tick, vars
<1> QED
  BY <1>1, <1>2, <1>3, <1>4, <1>5, <1>6, <1>7, <1>8, <1>9, <1>10, <1>11, <1>12, <1>13,
     <1>14, <1>15 DEF Next, Continue

\* An ingoing packet stays where it is, or comes from the steps of its own.
LEMMA Inbound ==
  ASSUME Inv, [Next]_vars, NEW c \in Callers, pc'[c] # "idle", pkt'[c].dir = "in"
  PROVE  \/ /\ pkt'[c] = pkt[c] /\ pkt[c].dir = "in"
            /\ \/ pc'[c] = pc[c]
               \/ pc[c] \in {"release", "deleter"} /\ pc'[c] \in {"deleter", "forward"}
         \/ pc'[c] = "filterIn" \/ pc'[c] = "drop"
         \/ FilterIn(c) /\ pc'[c] = "mapIn"
         \/ MapIn(c)
<1> USE ConstantsAssumption
    DEF Inv, MoreTypes, Ways, At, To, Goto, SetPort, Hold, config, maps, timers
<1> DEFINE Goal == \/ /\ pkt'[c] = pkt[c] /\ pkt[c].dir = "in"
                      /\ \/ pc'[c] = pc[c]
                         \/ pc[c] \in {"release", "deleter"} /\ pc'[c] \in {"deleter", "forward"}
                   \/ pc'[c] = "filterIn" \/ pc'[c] = "drop"
                   \/ FilterIn(c) /\ pc'[c] = "mapIn"
                   \/ MapIn(c)
<1>1. ASSUME NEW b \in Callers, NEW r \in Remotes,
             (\E p \in IntPorts : Outgoing(b, p, r)) \/ (\E p \in Ports : Ingoing(b, p, r))
      PROVE  Goal
  BY <1>1 DEF Outgoing, Ingoing
<1>2. ASSUME NEW b \in Callers, MapOut(b) \/ FilterOut(b) PROVE Goal
  BY <1>2, MapOutSteps, FilterOutSteps
<1>3. ASSUME NEW b \in Callers, MapRearm(b) \/ FilterRearm(b) PROVE Goal
  BY <1>3 DEF MapRearm, FilterRearm
<1>4. ASSUME NEW b \in Callers, NewPort(b) PROVE Goal
  BY <1>4 DEF NewPort
<1>5. ASSUME NEW b \in Callers, PutInt(b) \/ PutExt(b) \/ FilterPut(b) PROVE Goal
  BY <1>5 DEF PutInt, PutExt, FilterPut
<1>6. ASSUME NEW b \in Callers, FilterIn(b) PROVE Goal
  BY <1>6 DEF FilterIn
<1>7. ASSUME NEW b \in Callers, MapIn(b) PROVE Goal
  BY <1>7, MapInSteps
<1>8. ASSUME NEW b \in Callers, Release(b) \/ ReleaseLocked(b) PROVE Goal
  BY <1>8 DEF Release, ReleaseLocked, NextCall
<1>9. ASSUME NEW b \in Callers, CallerDeletes(b) PROVE Goal
  BY <1>9 DEF CallerDeletes, NextCall
<1>10. ASSUME NEW b \in Callers, Forward(b) \/ Drop(b) PROVE Goal
  BY <1>10 DEF Forward, Drop
<1>11. ASSUME NEW e \in Ids, Expire(e) \/ PoolDeletes(e) PROVE Goal
  BY <1>11 DEF Expire, PoolDeletes
<1>12. ASSUME Tick \/ UNCHANGED vars PROVE Goal
  BY <1>12 DEF Tick, vars
<1> QED
  BY <1>1, <1>2, <1>3, <1>4, <1>5, <1>6, <1>7, <1>8, <1>9, <1>10, <1>11, <1>12
  DEF Next, Continue

\* The filter lets in only who has an entry, or had one.
LEMMA LetInStep == Inv /\ Slots /\ FilterSent /\ LetIn /\ [Next]_vars => LetIn'
<1> SUFFICES ASSUME Inv, Slots, FilterSent, LetIn, [Next]_vars, NEW c \in Callers,
                    pc'[c] \in {"mapIn", "release", "deleter", "forward"}, pkt'[c].dir = "in",
                    type_' # "fullcone", pkt'[c].orig \notin DOMAIN DnatRules
             PROVE  (\E i \in IntPorts, r \in Remotes :
                       Sent(i, pkt[c].orig, r) /\ Answers(pkt[c].remote, r))'
  BY DEF LetIn
<1> SUFFICES ASSUME NEW port, port = pkt'[c].orig, NEW remote, remote = pkt'[c].remote
             PROVE  \E i \in IntPorts, r \in Remotes :
                      Sent(i, port, r)' /\ Answers(remote, r)'
  BY DEF Sent, Answers
<1>1. type_' = type_ /\ sent \subseteq sent'
  BY Lasting
<1>2. /\ \A i, x, r : Sent(i, x, r) => Sent(i, x, r)'
      /\ \A q, r : Answers(q, r)' = Answers(q, r)
  BY <1>1 DEF Sent, Answers
<1>3. CASE pkt'[c] = pkt[c] /\ pc[c] \in {"mapIn", "release", "deleter", "forward"}
  BY <1>1, <1>2, <1>3 DEF LetIn
<1>4. CASE FilterIn(c) /\ pc'[c] = "mapIn"
  <2>1. pc[c] = "filterIn" /\ pkt' = pkt /\ LetsIn(pkt[c]) /\ pkt[c].port = pkt[c].orig
        /\ pkt[c].orig \in Ports /\ pkt[c].remote \in Remotes
    BY <1>4 DEF FilterIn, At, To, Inv, MoreTypes, Ways
  <2> DEFINE key == ConnKey(pkt[c].orig, pkt[c].remote)
  <2>2. key \in ConnKeys /\ connMap_[key] # None
    BY <1>1, <2>1, KeysTyped DEF LetsIn, CheckDnat
  <2>3. connMap_[key] \in FilterIds /\ entry[connMap_[key]] # None /\ entry[connMap_[key]].key = key
    BY <2>2 DEF Inv, TypeOK, Slots, NoStaleSlot
  <2>4. PICK i \in IntPorts, x \in Ports, r \in Remotes : Sent(i, x, r) /\ key = ConnKey(x, r)
    BY <2>3 DEF FilterSent
  <2>5. x = port /\ Answers(remote, r)
    BY <1>1, <2>1, <2>4 DEF ConnKey, Answers
  <2> QED
    BY <1>2, <2>1, <2>4, <2>5
<1>5. CASE MapIn(c)
  <2>1. pc[c] = "mapIn" /\ pkt[c].dir = "in"
        /\ pkt'[c].orig = pkt[c].orig /\ pkt'[c].remote = pkt[c].remote
    BY <1>5, MapInSteps DEF Inv, MoreTypes, SetPort
  <2> QED
    BY <1>1, <1>2, <2>1 DEF LetIn
<1> QED
  BY <1>3, <1>4, <1>5, Inbound

\* The mapper hands it to the port that the connection was made from.
LEMMA MappedStep ==
  Inv /\ Slots /\ Cone /\ MapperSent /\ Mapped /\ [Next]_vars => Mapped'
<1> SUFFICES ASSUME Inv, Slots, Cone, MapperSent, Mapped, [Next]_vars, NEW c \in Callers,
                    pc'[c] \in {"release", "deleter", "forward"}, pkt'[c].dir = "in",
                    pkt'[c].orig \notin DOMAIN DnatRules, NEW port, port = pkt'[c].orig
             PROVE  /\ type_' # "symnat" => pkt'[c].port = port
                    /\ type_' = "fullcone" /\ SingleCaller =>
                         \E i \in IntPorts, r \in Remotes : Sent(i, port, r)'
  BY DEF Mapped, Sent
<1>1. type_' = type_ /\ sent \subseteq sent'
  BY Lasting
<1>2. \A i, x, r : Sent(i, x, r) => Sent(i, x, r)'
  BY <1>1 DEF Sent
<1>3. CASE pkt'[c] = pkt[c] /\ pc[c] \in {"release", "deleter", "forward"}
  BY <1>1, <1>2, <1>3 DEF Mapped
<1>4. CASE MapIn(c)
  <2>1. pc[c] = "mapIn" /\ pkt[c].dir = "in" /\ pkt[c].port = pkt[c].orig
        /\ pkt'[c].orig = pkt[c].orig /\ pkt[c].orig \in Ports
    BY <1>4, MapInSteps DEF Inv, MoreTypes, SetPort
  <2>2. PICK e \in MapIds : e = extPortMap_[pkt[c].orig] /\ Alive(e) /\ SetPort(c, entry[e].int)
    BY <1>4, <2>1, MapInSteps DEF Inv, MoreTypes, To
  <2>3. entry[e] # None /\ entry[e].ext = pkt[c].orig
    BY <2>1, <2>2, ConstantsAssumption DEF Slots, NoStaleSlot, Ids
  <2>4. pkt'[c].port = entry[e].int /\ entry[e].int \in IntPorts
    BY <2>1, <2>2, <2>3 DEF SetPort, Inv, MoreTypes, TypeOK
  <2>5. type_ # "symnat" => pkt'[c].port = pkt'[c].orig
    BY <2>1, <2>3, <2>4 DEF Cone
  <2>6. SingleCaller => \A b \in Callers : ~Sending(b, e)
    BY <2>1 DEF SingleCaller, Sending, Outbound
  <2>7. SingleCaller => \E r \in Remotes : Sent(entry[e].int, entry[e].ext, r)
    BY <2>3, <2>6 DEF MapperSent
  <2> QED
    BY <1>1, <1>2, <2>1, <2>3, <2>4, <2>5, <2>7
<1> QED
  BY <1>3, <1>4, Inbound

\* What is let in without a forwarding rule was asked for, for any number of
\* threads in the filter.  For a full cone NAT, one at a time: there, a second
\* could let an answer in before the packet it answers has passed the filter.
THEOREM SolicitedSafe ==
  ASSUME SingleCaller \/ \A o \in NatOptions : o[1] # "fullcone"
  PROVE  Spec => []Solicited
<1>1. Init => Slots /\ FilterSent /\ MapperSent /\ Cone /\ LetIn /\ Mapped
  BY DEF Init, Slots, NoStaleSlot, FilterSent, MapperSent, Cone, LetIn, Mapped, Sent, Ids
<1>2. Inv /\ Cone /\ LetIn /\ Mapped => Solicited
  <2> SUFFICES ASSUME Inv, Cone, LetIn, Mapped, NEW c \in Callers, pc[c] = "forward",
                      pkt[c].dir = "in", pkt[c].orig \notin DOMAIN DnatRules
               PROVE  \E i \in IntPorts, r \in Remotes :
                        /\ <<i, pkt[c].orig, r>> \in sent
                        /\ Answers(pkt[c].remote, r)
                        /\ type_ # "symnat" => i = pkt[c].port
    BY DEF Solicited
  <2>1. pkt[c].orig \in Ports
    BY DEF Inv, MoreTypes
  <2>2. PICK i \in IntPorts, r \in Remotes : Sent(i, pkt[c].orig, r) /\ Answers(pkt[c].remote, r)
    <3>1. CASE type_ # "fullcone"
      BY <3>1 DEF LetIn
    <3>2. CASE type_ = "fullcone"
      <4>1. SingleCaller
        BY <3>2 DEF Inv, TypeOK, config
      <4> QED
        BY <3>2, <4>1 DEF Mapped, Answers
    <3> QED
      BY <3>1, <3>2
  <2>3. type_ # "symnat" => i = pkt[c].port
    BY <2>1, <2>2 DEF Cone, Mapped
  <2> QED
    BY <2>2, <2>3 DEF Sent
<1> QED
  BY <1>1, <1>2, InvSafe, SlotsStep, FilterSentStep, MapperSentStep, ConeStep, LetInStep,
     MappedStep, PTL DEF Spec
=============================================================================
