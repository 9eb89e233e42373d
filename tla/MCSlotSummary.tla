--------------------------- MODULE MCSlotSummary ---------------------------
(* Requests with prompts of two tokens: one full block. *)
EXTENDS SlotSummary

MCPromptLen == [r \in Requests |-> 2]
MCSymmetry == Permutations(Pages) \cup Permutations(Requests)
=============================================================================
