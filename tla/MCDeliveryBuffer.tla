-------------------------- MODULE MCDeliveryBuffer --------------------------
(***************************************************************************)
(* Small instances of the delivery buffer for TLC.                         *)
(***************************************************************************)
EXTENDS DeliveryPromises, TLC

\* Every payload of an instance has the same size
UnitSize == [b \in Bodies |-> 1]

Symmetry == Permutations(Deliveries) \cup Permutations(Senders)
=============================================================================
