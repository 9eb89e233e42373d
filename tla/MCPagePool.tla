----------------------------- MODULE MCPagePool -----------------------------
(* Requests a and b share their first block.                                  *)
EXTENDS PagePool

CONSTANTS a, b, k1, ka, kb, kc

MCKeys == {k1, ka, kb, kc}
MCKeyOf == [q \in Requests |-> IF q = a THEN <<k1, ka>> ELSE <<k1, kb, kc>>]
MCPromptLen == [q \in Requests |-> IF q = a THEN 2 ELSE 4]
=============================================================================
