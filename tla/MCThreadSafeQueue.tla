------------------------- MODULE MCThreadSafeQueue -------------------------
(***************************************************************************)
(* ThreadSafeQueue with two producers, two consumers and one closer.  The  *)
(* pipeline gives every queue one of each; two consumers are what it takes *)
(* to steal an item from a consumer that has just been signalled, and two  *)
(* producers what it takes to signal twice before anybody wakes up.        *)
(***************************************************************************)
EXTENDS ThreadSafeQueue

CONSTANTS p1, p2, c1, c2, k1

MCProducers == {p1, p2}
MCConsumers == {c1, c2}
MCClosers == {k1}
=============================================================================
