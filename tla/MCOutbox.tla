------------------------------ MODULE MCOutbox ------------------------------
(* Instances of Outbox for TLC. *)
EXTENDS Outbox, TLC

CONSTANTS a, b

\* Events alternate between the two types and have keys of their own.
MCTypeOf == [e \in Events |-> IF e % 2 = 1 THEN a ELSE b]
MCKeyOf  == [e \in Events |-> e]

\* An empty list of event types.
CatchAll == [active |-> TRUE, types |-> {}]

\* An endpoint that is there, catching every event, or not.
OnOff == {Inactive, CatchAll}

\* An endpoint that is there, with the events of one type, or not.
OnlyA == {Inactive, [active |-> TRUE, types |-> {a}]}

WorkerSymmetry == Permutations(Workers)
=============================================================================
