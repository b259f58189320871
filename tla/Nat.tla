-------------------------------- MODULE Nat --------------------------------
(* The Nat filter: mapper (nat_mapper.cpp), filter (nat_filters.cpp) and the  *)
(* connection entries whose timers keep them alive (connection_entry.hpp).   *)
(*                                                                            *)
(* A map holds weak_ptrs: an entry lives as long as its timer's handler, or a *)
(* thread that has locked it, holds a shared_ptr.  When the last one goes,    *)
(* lock() fails at once, and only later does the deleter take the mutex and   *)
(* erase the slots with the entry's keys.  Calls of handlePacket() take one   *)
(* step per critical section, or per map they write without the mutex.        *)
(*                                                                            *)
(* There is one internal address, as the README requires, so an internal      *)
(* endpoint is a port.  Time passes between any two steps: a timer is never   *)
(* early but may be late, and a thread may be kept from its next step for any *)
(* time, also with a mutex in its hands.                                      *)
EXTENDS Naturals, FiniteSets

CONSTANTS
  NatOptions,     \* <<--nat-type, --nat-timeout>>
  Callers,        \* the threads in handlePacket()
  PortSpace,      \* how many port numbers there are (2^16 in the code)
  IntPorts,       \* the ports the internal host sends from
  Remotes,        \* the remote endpoints, <<address, port>>
  DnatRules,      \* port forwarding: external port |-> internal port
  MapIds,         \* the mapper's entries (bound: so many at a time)
  FilterIds,      \* the filter's entries (bound: so many at a time)
  None

Ports == 0 .. PortSpace - 1
Ids == MapIds \cup FilterIds

ASSUME ConstantsAssumption ==
  /\ NatOptions \subseteq {"portr", "addrr", "symnat", "fullcone"} \X Nat
  /\ PortSpace \in Nat \ {0}
  /\ IntPorts \subseteq Ports
  /\ DOMAIN DnatRules \subseteq Ports
  /\ \A x \in DOMAIN DnatRules : DnatRules[x] \in Ports
  /\ None \notin Ids
  /\ MapIds \cap FilterIds = {}

\* A null pointer is no entry, of whatever type of NAT.
ASSUME NoneAssumption ==
  \A p, i, x \in Ports, r \in Remotes :
    /\ None # [key |-> <<p>>, int |-> i, ext |-> x]
    /\ None # [key |-> <<p, r>>, int |-> i, ext |-> x]
    /\ None # [key |-> <<p, r>>] /\ None # [key |-> <<p, r[1]>>]

VARIABLES
  type_,      \* which mapper and which filter init() has made
  connectionTimeout_,
  intPortMap_, extPortMap_, connMap_,  \* slot |-> the entry it refers to, or None
  entry,      \* each entry's keys, or None if there is no such entry
  armed,      \* the entries a timer's handler still holds
  left,       \* the ticks before each entry's timer is due
  held,       \* the ticks a caller in "releaseLocked" has been there (bound: the timeout)
  hold,       \* the entry each caller holds, or None
  pc, pkt,    \* where each caller is, and with which packet
  sent,       \* history: <<internal port, external port, remote>> of what went out
  dnatted     \* history: <<external port, remote>> of what port forwarding let in

\* The keys of intPortMap_ and connMap_, from the internal port or the external
\* port and the remote endpoint.
IntKey(port, remote) == IF type_ = "symnat" THEN <<port, remote>> ELSE <<port>>
ConnKey(ext, remote) == IF type_ = "addrr" THEN <<ext, remote[1]>> ELSE <<ext, remote>>

IntKeys == {IntKey(p, r) : p \in Ports, r \in Remotes}
ConnKeys == {ConnKey(p, r) : p \in Ports, r \in Remotes}

maps == <<intPortMap_, extPortMap_, connMap_>>
config == <<type_, connectionTimeout_>>
timers == <<armed, left>>
vars == <<config, maps, entry, timers, hold, held, pc, pkt, sent, dnatted>>

NoPacket == [dir |-> "none"]

Init ==
  /\ \E o \in NatOptions : type_ = o[1] /\ connectionTimeout_ = o[2]
  /\ intPortMap_ = [k \in IntKeys |-> None]
  /\ extPortMap_ = [p \in Ports |-> None]
  /\ connMap_ = [k \in ConnKeys |-> None]
  /\ entry = [e \in Ids |-> None]
  /\ armed = {}
  /\ left = [e \in Ids |-> 0]
  /\ held = [c \in Callers |-> 0]
  /\ hold = [c \in Callers |-> None]
  /\ pc = [c \in Callers |-> "idle"]
  /\ pkt = [c \in Callers |-> NoPacket]
  /\ sent = {}
  /\ dnatted = {}

\* What weak_ptr::lock() finds out: somebody holds the entry, other than a
\* thread that is already in its deleter.
Alive(e) ==
  \/ e \in armed
  \/ \E c \in Callers : hold[c] = e /\ pc[c] \notin {"deleter", "stuck"}

Locked(slot) == IF slot # None /\ Alive(slot) THEN slot ELSE None

At(c, label) == pc[c] = label
To(c, label) == pc' = [pc EXCEPT ![c] = label]
Goto(c, from, to) == At(c, from) /\ To(c, to)
SetPort(c, port) == pkt' = [pkt EXCEPT ![c].port = port]
Hold(c, e) == hold' = [hold EXCEPT ![c] = e]

\* The mutexes of mapper and filter.  The mapper's is held across steps only by a
\* thread that looks for a free port where there is none, the filter's by one that
\* has made an entry and gives up its shared_ptr; "stuck" is a thread that, in the
\* deleter that this calls, waits for the mutex it holds.
MutexHeld(c) == pc[c] \in {"releaseLocked", "stuck"}
MutexFree == \A c \in Callers : pc[c] # "spin" /\ (MutexHeld(c) => hold[c] \notin MapIds)
FilterMutexFree == \A c \in Callers : MutexHeld(c) => hold[c] \notin FilterIds

\* checkDnat(), or a look into dnatRules_: the port is that of a forwarding rule.
CheckDnat(p) == p.port \in DOMAIN DnatRules

-----------------------------------------------------------------------------
\* A packet comes from the internal host (Nat::handlePacket, outgoing branch:
\* the mapper first) or from outside (the filter first).  "port" is its port
\* on our side, "orig" what that was on arrival.
Outgoing(c, port, remote) ==
  /\ Goto(c, "idle", "mapOut")
  /\ pkt' = [pkt EXCEPT ![c] = [dir |-> "out", remote |-> remote, port |-> port, orig |-> port]]
  /\ UNCHANGED <<config, maps, entry, timers, hold, held, sent, dnatted>>

Ingoing(c, port, remote) ==
  /\ Goto(c, "idle", "filterIn")
  /\ pkt' = [pkt EXCEPT ![c] = [dir |-> "in", remote |-> remote, port |-> port, orig |-> port]]
  /\ UNCHANGED <<config, maps, entry, timers, hold, held, sent, dnatted>>

\* mapPacket(), outgoing: checkDnat() leaves the port of a packet that comes
\* from a forwarded port as it is; otherwise intPortMap_ is looked up.
MapOut(c) ==
  LET p == pkt[c]
      ent == Locked(intPortMap_[IntKey(p.port, p.remote)])
  IN  /\ At(c, "mapOut")
      /\ \/ /\ CheckDnat(p)
            /\ To(c, "filterOut")
            /\ UNCHANGED hold
         \/ /\ ~CheckDnat(p) /\ ent # None
            /\ MutexFree
            /\ To(c, "mapRearm")
            /\ Hold(c, ent)
         \/ /\ ~CheckDnat(p) /\ ent = None
            /\ MutexFree
            /\ To(c, "newPort")
            /\ UNCHANGED hold
      /\ UNCHANGED <<config, maps, entry, timers, held, pkt, sent, dnatted>>

\* armTimer(): the handler holds the entry till the timeout has passed, or the
\* timer is armed again.
ArmTimer(e) ==
  /\ armed' = armed \cup {e}
  /\ left' = [left EXCEPT ![e] = connectionTimeout_]

\* A known connection: ent->rearm(), and its external port.
MapRearm(c) ==
  /\ Goto(c, "mapRearm", "release")
  /\ ArmTimer(hold[c])
  /\ SetPort(c, entry[hold[c]].ext)
  /\ UNCHANGED <<config, maps, entry, hold, held, sent, dnatted>>

FreePort(port) == extPortMap_[port] = None

\* Mutant of mapPort(): ports that are taken are not skipped.
NewPortTaken(c) ==
  /\ Goto(c, "newPort", "putInt")
  /\ UNCHANGED <<config, maps, entry, timers, hold, held, pkt, sent, dnatted>>

\* A new connection's external port: the cone mapper keeps the internal port,
\* SymNatMapper::mapPort() takes the first one from there that has no slot in
\* extPortMap_, and spins with the mutex if there is none.
NewPort(c) ==
  LET Nth(i) == (pkt[c].orig + i) % PortSpace IN
  /\ At(c, "newPort")
  /\ IF type_ = "symnat"
     THEN /\ MutexFree
          /\ \/ \E n \in 0 .. PortSpace - 1 :
                  /\ FreePort(Nth(n))
                  /\ \A i \in 0 .. n - 1 : ~FreePort(Nth(i))
                  /\ SetPort(c, Nth(n))
                  /\ To(c, "putInt")
             \/ /\ \A port \in Ports : ~FreePort(port)
                /\ To(c, "spin")
                /\ UNCHANGED pkt
     ELSE /\ To(c, "putInt")
          /\ UNCHANGED pkt
  /\ UNCHANGED <<config, maps, entry, timers, hold, held, sent, dnatted>>

\* makeNewConn(), which takes no mutex: one slot, then the other and the timer.
PutInt(c) ==
  /\ Goto(c, "putInt", "putExt")
  /\ \E e \in MapIds :
       LET key == IntKey(pkt[c].orig, pkt[c].remote)
       IN  /\ entry[e] = None
           /\ entry' = [entry EXCEPT ![e] =
                          [key |-> key, int |-> pkt[c].orig, ext |-> pkt[c].port]]
           /\ intPortMap_' = [intPortMap_ EXCEPT ![key] = e]
           /\ Hold(c, e)
  /\ UNCHANGED <<config, extPortMap_, connMap_, timers, held, pkt, sent, dnatted>>

PutExt(c) ==
  /\ Goto(c, "putExt", "release")
  /\ extPortMap_' = [extPortMap_ EXCEPT ![pkt[c].port] = hold[c]]
  /\ ArmTimer(hold[c])
  /\ UNCHANGED <<config, intPortMap_, connMap_, entry, hold, held, pkt, sent, dnatted>>

\* Mutant of filterPacket(): whoever uses an external port that is open is let in.
LetsInOpenPort(p) ==
  \/ type_ = "fullcone"
  \/ \E r \in Remotes : connMap_[ConnKey(p.port, r)] # None
  \/ CheckDnat(p)

\* Any slot will do, also one whose entry has expired.
LetsIn(p) ==
  \/ type_ = "fullcone"
  \/ connMap_[ConnKey(p.port, p.remote)] # None
  \/ CheckDnat(p)

\* filterPacket(), ingoing.
FilterIn(c) ==
  /\ At(c, "filterIn") /\ FilterMutexFree
  /\ To(c, IF LetsIn(pkt[c]) THEN "mapIn" ELSE "drop")
  /\ UNCHANGED <<config, maps, entry, timers, hold, held, pkt, sent, dnatted>>

\* Mutant of mapPacket(): its shared_ptr is declared behind the lock.
MapInLocked(c) ==
  LET p == pkt[c]
      ent == Locked(extPortMap_[p.port])
  IN  /\ At(c, "mapIn") /\ ~CheckDnat(p) /\ ent # None
      /\ MutexFree
      /\ To(c, "releaseLocked")
      /\ SetPort(c, entry[ent].int)
      /\ Hold(c, ent)
      /\ UNCHANGED <<config, maps, entry, timers, held, sent, dnatted>>

\* mapPacket(), ingoing: port forwarding first, then extPortMap_.
MapIn(c) ==
  LET p == pkt[c]
      ent == Locked(extPortMap_[p.port])
  IN  /\ At(c, "mapIn")
      /\ \/ /\ CheckDnat(p)
            /\ To(c, "forward")
            /\ SetPort(c, DnatRules[p.port])
            /\ UNCHANGED hold
         \/ /\ ~CheckDnat(p) /\ ent # None
            /\ MutexFree
            /\ To(c, "release")
            /\ SetPort(c, entry[ent].int)
            /\ Hold(c, ent)
         \/ /\ ~CheckDnat(p) /\ ent = None
            /\ MutexFree
            /\ To(c, "drop")
            /\ UNCHANGED <<pkt, hold>>
      /\ UNCHANGED <<config, maps, entry, timers, held, sent, dnatted>>

\* filterPacket(), outgoing: connMap_ is looked up with the translated packet.
FilterOut(c) ==
  LET p == pkt[c]
      ent == Locked(connMap_[ConnKey(p.port, p.remote)])
  IN  /\ At(c, "filterOut") /\ (type_ # "fullcone" => FilterMutexFree)
      /\ sent' = sent \cup {<<p.orig, p.port, p.remote>>}
      /\ \/ /\ type_ = "fullcone"
            /\ To(c, "forward")
            /\ UNCHANGED hold
         \/ /\ type_ # "fullcone" /\ ent # None
            /\ To(c, "filterRearm")
            /\ Hold(c, ent)
         \/ /\ type_ # "fullcone" /\ ent = None
            /\ To(c, "filterPut")
            /\ UNCHANGED hold
      /\ UNCHANGED <<config, maps, entry, timers, held, pkt, dnatted>>

FilterRearm(c) ==
  /\ Goto(c, "filterRearm", "release")
  /\ ArmTimer(hold[c])
  /\ UNCHANGED <<config, maps, entry, hold, held, pkt, sent, dnatted>>

\* A new connection.  The shared_ptr is declared behind the lock, and goes first.
FilterPut(c) ==
  /\ Goto(c, "filterPut", "releaseLocked") /\ FilterMutexFree
  /\ \E e \in FilterIds :
       LET key == ConnKey(pkt[c].port, pkt[c].remote)
       IN  /\ entry[e] = None
           /\ entry' = [entry EXCEPT ![e] = [key |-> key]]
           /\ connMap_' = [connMap_ EXCEPT ![key] = e]
           /\ ArmTimer(e)
           /\ Hold(c, e)
  /\ UNCHANGED <<config, intPortMap_, extPortMap_, held, pkt, sent, dnatted>>

\* The end of mapPacket() or filterPacket(): the caller drops its shared_ptr,
\* and runs the deleter itself if it was the last.
NextCall(c) ==
  IF pkt[c].dir = "out" /\ hold[c] \in MapIds THEN "filterOut" ELSE "forward"

Last(c) == hold[c] \notin armed /\ \A d \in Callers \ {c} : hold[d] # hold[c]

Release(c) ==
  /\ Goto(c, "release", IF Last(c) THEN "deleter" ELSE NextCall(c))
  /\ hold' = IF Last(c) THEN hold ELSE [hold EXCEPT ![c] = None]
  /\ UNCHANGED <<config, maps, entry, timers, held, pkt, sent, dnatted>>

\* The same with the mutex held that the deleter takes.
ReleaseLocked(c) ==
  /\ Goto(c, "releaseLocked", IF Last(c) THEN "stuck" ELSE NextCall(c))
  /\ IF Last(c) THEN UNCHANGED <<hold, held>>
     ELSE hold' = [hold EXCEPT ![c] = None] /\ held' = [held EXCEPT ![c] = 0]
  /\ UNCHANGED <<config, maps, entry, timers, pkt, sent, dnatted>>

\* Mutant of removeFromMaps(): the external slot is left behind.
EraseKeepsExt(e) ==
  /\ entry' = [entry EXCEPT ![e] = None]
  /\ IF e \in MapIds
     THEN /\ intPortMap_' = [intPortMap_ EXCEPT ![entry[e].key] = None]
          /\ UNCHANGED <<extPortMap_, connMap_>>
     ELSE /\ connMap_' = [connMap_ EXCEPT ![entry[e].key] = None]
          /\ UNCHANGED <<intPortMap_, extPortMap_>>

\* The deleter: removeFromMaps() erases the slots with the entry's keys,
\* whatever they refer to by now.
Erase(e) ==
  /\ entry' = [entry EXCEPT ![e] = None]
  /\ IF e \in MapIds
     THEN /\ intPortMap_' = [intPortMap_ EXCEPT ![entry[e].key] = None]
          /\ extPortMap_' = [extPortMap_ EXCEPT ![entry[e].ext] = None]
          /\ UNCHANGED connMap_
     ELSE /\ connMap_' = [connMap_ EXCEPT ![entry[e].key] = None]
          /\ UNCHANGED <<intPortMap_, extPortMap_>>

CallerDeletes(c) ==
  /\ Goto(c, "deleter", NextCall(c))
  /\ IF hold[c] \in MapIds THEN MutexFree ELSE FilterMutexFree
  /\ Erase(hold[c])
  /\ Hold(c, None)
  /\ UNCHANGED <<config, timers, held, pkt, sent, dnatted>>

\* Time passes, for the timers and for who holds a mutex.
Tick ==
  /\ left' = [e \in Ids |-> IF left[e] > 0 THEN left[e] - 1 ELSE 0]
  /\ held' = [c \in Callers |-> IF MutexHeld(c) /\ held[c] < connectionTimeout_
                                THEN held[c] + 1 ELSE held[c]]
  /\ UNCHANGED <<config, maps, entry, armed, hold, pc, pkt, sent, dnatted>>

\* The timer is due, its handler has run, and its shared_ptr is gone.
Expire(e) ==
  /\ e \in armed /\ left[e] = 0
  /\ armed' = armed \ {e}
  /\ UNCHANGED <<config, maps, entry, left, hold, held, pc, pkt, sent, dnatted>>

\* Mutant: the deleter runs although the timer has been armed again.
PoolDeletesArmed(e) ==
  /\ entry[e] # None
  /\ \A c \in Callers : hold[c] # e
  /\ IF e \in MapIds THEN MutexFree ELSE FilterMutexFree
  /\ Erase(e)
  /\ UNCHANGED <<config, timers, hold, held, pc, pkt, sent, dnatted>>

\* ... and if it was the last, the thread of the pool runs the deleter.
PoolDeletes(e) ==
  /\ entry[e] # None
  /\ e \notin armed
  /\ \A c \in Callers : hold[c] # e
  /\ IF e \in MapIds THEN MutexFree ELSE FilterMutexFree
  /\ Erase(e)
  /\ UNCHANGED <<config, timers, hold, held, pc, pkt, sent, dnatted>>

\* next_->handlePacket(), or the packet is forgotten (no verdict is set).
Forward(c) ==
  /\ Goto(c, "forward", "idle")
  /\ pkt' = [pkt EXCEPT ![c] = NoPacket]
  /\ dnatted' = IF pkt[c].dir = "in" /\ pkt[c].orig \in DOMAIN DnatRules
                THEN dnatted \cup {<<pkt[c].orig, pkt[c].remote>>} ELSE dnatted
  /\ UNCHANGED <<config, maps, entry, timers, hold, held, sent>>

Drop(c) ==
  /\ Goto(c, "drop", "idle")
  /\ pkt' = [pkt EXCEPT ![c] = NoPacket]
  /\ UNCHANGED <<config, maps, entry, timers, hold, held, sent, dnatted>>

Continue(c) ==
  \/ MapOut(c) \/ MapRearm(c) \/ NewPort(c) \/ PutInt(c) \/ PutExt(c)
  \/ FilterIn(c) \/ MapIn(c)
  \/ FilterOut(c) \/ FilterRearm(c) \/ FilterPut(c)
  \/ Release(c) \/ ReleaseLocked(c) \/ CallerDeletes(c) \/ Forward(c) \/ Drop(c)

Next ==
  \/ \E c \in Callers, r \in Remotes :
       \/ \E p \in IntPorts : Outgoing(c, p, r)
       \/ \E p \in Ports : Ingoing(c, p, r)
  \/ \E c \in Callers : Continue(c)
  \/ \E e \in Ids : Expire(e) \/ PoolDeletes(e)
  \/ Tick

Spec == Init /\ [][Next]_vars

-----------------------------------------------------------------------------
TimersOK ==
  /\ left \in [Ids -> 0 .. connectionTimeout_]
  /\ \A e \in Ids : left[e] # 0 => e \in armed
  /\ held \in [Callers -> 0 .. connectionTimeout_]
  /\ \A c \in Callers : held[c] # 0 => MutexHeld(c)

\* The state has its types; a caller holds an entry exactly in the steps that
\* use it; a timer runs only for an entry that exists, and for --nat-timeout at
\* most.
TypeOK ==
  /\ config \in NatOptions
  /\ intPortMap_ \in [IntKeys -> MapIds \cup {None}]
  /\ extPortMap_ \in [Ports -> MapIds \cup {None}]
  /\ connMap_ \in [ConnKeys -> FilterIds \cup {None}]
  /\ \A e \in MapIds : entry[e] # None =>
       entry[e] \in [key : IntKeys, int : IntPorts, ext : Ports]
  /\ \A e \in FilterIds : entry[e] # None => entry[e] \in [key : ConnKeys]
  /\ armed \subseteq {e \in Ids : entry[e] # None}
  /\ TimersOK
  /\ \A c \in Callers : hold[c] # None <=>
       pc[c] \in {"mapRearm", "putExt", "filterRearm", "release", "releaseLocked", "deleter",
                 "stuck"}
  /\ \A c \in Callers : pc[c] # "idle" <=> pkt[c] # NoPacket
  /\ sent \subseteq IntPorts \X Ports \X Remotes
  /\ dnatted \subseteq (DOMAIN DnatRules) \X Remotes

\* A slot never outlives the entry it refers to: removeFromMaps() works by key,
\* not by entry, and still leaves no slot of a deleted connection behind, which
\* would hold its external port for ever and let its remote in for ever.
NoStaleSlot ==
  /\ \A k \in IntKeys : intPortMap_[k] # None =>
       entry[intPortMap_[k]] # None /\ entry[intPortMap_[k]].key = k
  /\ \A p \in Ports : extPortMap_[p] # None =>
       entry[extPortMap_[p]] # None /\ entry[extPortMap_[p]].ext = p
  /\ \A k \in ConnKeys : connMap_[k] # None =>
       entry[connMap_[k]] # None /\ entry[connMap_[k]].key = k

\* What is let in without a port forwarding rule was asked for: the internal
\* host has sent, from the external port addressed, to the remote (portr,
\* symnat), to its address (addrr), or to anybody (fullcone); and a cone NAT
\* hands it to the internal port that did.
Answers(remote, r) ==
  CASE type_ = "fullcone" -> TRUE
    [] type_ = "addrr" -> remote[1] = r[1]
    [] OTHER -> remote = r

Solicited ==
  \A c \in Callers :
    LET p == pkt[c] IN
    pc[c] = "forward" /\ p.dir = "in" /\ p.orig \notin DOMAIN DnatRules =>
      \E i \in IntPorts, r \in Remotes :
        /\ <<i, p.orig, r>> \in sent
        /\ Answers(p.remote, r)
        /\ type_ # "symnat" => i = p.port

\* Two connections of the symmetric mapper never share an external port, and
\* as long as one lives, its external port leads back to it.
OwnsExternalPort ==
  type_ = "symnat" => \A e \in MapIds :
    entry[e] # None /\ (\A c \in Callers : ~(hold[c] = e /\ pc[c] = "putExt"))
      => extPortMap_[entry[e].ext] = e

\* Connections whose timers run are found: what is answered within the timeout
\* gets in.
Found ==
  \A e \in armed :
    IF e \in MapIds THEN extPortMap_[entry[e].ext] = e ELSE connMap_[entry[e].key] = e

\* "A new connection coming to [...] 'nat-ext-port' will be forwarded [...] on
\* port 'nat-int-port'": what the internal host answers on that connection
\* leaves from the port the remote had addressed.
ForwardedPortAnswers ==
  \A c \in Callers :
    LET p == pkt[c] IN
    pc[c] = "forward" /\ p.dir = "out" =>
      \A x \in DOMAIN DnatRules :
        DnatRules[x] = p.orig /\ <<x, p.remote>> \in dnatted => p.port = x

\* mapPort(), whose search never ends if no port is free and then keeps the
\* deleters from freeing one, is lost only if each port has a connection: the
\* port of a connection that has been deleted is free again.
LostOnlyIfFull ==
  (\E c \in Callers : pc[c] = "spin")
    => \A p \in Ports : \E e \in MapIds : entry[e] # None /\ entry[e].ext = p

\* A thread that gives up the last shared_ptr of an entry, and so calls its
\* deleter, with the deleter's mutex in its hands waits for itself for ever.  It
\* can only be one that has held the mutex for the whole of --nat-timeout, which
\* was to keep the entry alive till then: the timer is started with the mutex
\* held, and whether the thread or the timer is first is up to the scheduler.
NoSelfDeadlock == \A c \in Callers : pc[c] = "stuck" => held[c] = connectionTimeout_
=============================================================================
