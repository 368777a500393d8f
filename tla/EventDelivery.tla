--------------------------- MODULE EventDelivery ----------------------------
(***************************************************************************)
(* What the event bus promises a subscriber, without consumers, batches or *)
(* processes: at-most-once delivery.  An event waits in its stream, leaves *)
(* the front of it once - trimmed, or handed to somebody - and from then   *)
(* on its handlers are called one after the other until the event is       *)
(* acknowledged or left behind for good.                                   *)
(***************************************************************************)
EXTENDS Integers

CONSTANTS EventType, MaxEvents, Handlers, Undecodable

VARIABLES life,    \* life[t][n]: where event n of type t is
          calls    \* calls[t][n]: how many handlers were called with it

vars == <<life, calls>>

Id == 1 .. MaxEvents

Init == /\ life = [t \in EventType |-> [n \in Id |-> "unsent"]]
        /\ calls = [t \in EventType |-> [n \in Id |-> 0]]

\* S is a non-empty run of events at the front of the queue of t.
Front(t, S) ==
    /\ S # {}
    /\ \A n \in S : /\ life[t][n] = "queued"
                    /\ \A m \in Id : m < n /\ life[t][m] = "queued" => m \in S

\* The next event is queued; old ones may be trimmed to make room.
Send(t) ==
    /\ \E n \in Id, S \in SUBSET Id :
          /\ life[t][n] = "unsent"
          /\ \A m \in Id : m < n => life[t][m] # "unsent"
          /\ S = {} \/ Front(t, S)
          /\ life' = [life EXCEPT ![t] =
                [m \in Id |-> IF m = n THEN "queued"
                              ELSE IF m \in S THEN "trimmed" ELSE @[m]]]
    /\ UNCHANGED calls

\* The front of the queue is handed out, or lost on the way ("left").
HandOut(t) ==
    /\ \E S \in SUBSET Id, there \in {"held", "left"} :
          /\ Front(t, S)
          /\ life' = [life EXCEPT ![t] =
                         [m \in Id |-> IF m \in S THEN there ELSE @[m]]]
    /\ UNCHANGED calls

Call(t, n) ==
    /\ life[t][n] = "held"
    /\ n \notin Undecodable[t]
    /\ calls[t][n] < Handlers[t]
    /\ calls' = [calls EXCEPT ![t][n] = @ + 1]
    /\ UNCHANGED life

Acknowledge(t, n) ==
    /\ life[t][n] = "held"
    /\ n \in Undecodable[t] \/ calls[t][n] = Handlers[t]
    /\ life' = [life EXCEPT ![t][n] = "acked"]
    /\ UNCHANGED calls

\* A handler failed, or the holder of these events died.
LeaveBehind ==
    /\ \E S \in SUBSET (EventType \X Id) :
          /\ S # {}
          /\ \A e \in S : life[e[1]][e[2]] = "held"
          /\ life' = [t \in EventType |-> [n \in Id |->
                         IF <<t, n>> \in S THEN "left" ELSE life[t][n]]]
    /\ UNCHANGED calls

Next == \/ \E t \in EventType : Send(t) \/ HandOut(t)
        \/ \E t \in EventType, n \in Id : Call(t, n) \/ Acknowledge(t, n)
        \/ LeaveBehind

Spec == Init /\ [][Next]_vars
=============================================================================
