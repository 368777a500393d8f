----------------------------- MODULE MCEventBus -----------------------------
(* Small instances of EventBus: one event type with two handlers, at most   *)
(* one entry that holds no event.                                           *)
EXTENDS EventBus, TLC

CONSTANTS p1, p2, t1

OneType == {t1}
TwoHandlers == [t \in EventType |-> 2]
ThirdUndecodable == [t \in EventType |-> {3}]
SecondUndecodable == [t \in EventType |-> {2}]
ProcessSymmetry == Permutations(Process)
=============================================================================
