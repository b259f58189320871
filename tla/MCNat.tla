------------------------------- MODULE MCNat -------------------------------
(* Values for Nat: remote endpoints, port forwarding rules and timeouts, of   *)
(* a tick or two, or of none.                                                 *)
EXTENDS Nat, TLC

OneRemote == {<<"h1", 1>>}
TwoPorts == {<<"h1", 1>>, <<"h1", 2>>}

AllTypes == {<<"portr", 0>>, <<"addrr", 2>>, <<"symnat", 1>>, <<"fullcone", 1>>}
Fullcone == {<<"fullcone", 1>>}
Portr == {<<"portr", 1>>}

NoRules == [x \in {} |-> 0]
OneToZero == [x \in {1} |-> 0]
ZeroToOne == [x \in {0} |-> 1]

\* Entries are interchangeable.
Symmetry == Permutations(MapIds) \cup Permutations(FilterIds)
=============================================================================
