-------------------------- MODULE MCOffloadEngine --------------------------
(* OffloadEngine for TLC.  Requests, pages and slots are model values; a     *)
(* page's content names a logical block, so Values follows from the others.  *)
EXTENDS OffloadEngine, TLC

CONSTANTS
    Short,         \* one of the requests
    ShortPrompt,   \* its prompt tokens
    LongPrompt     \* those of every other request

MCValues == (Requests \X (0 .. MaxBlocks - 1)) \cup {Garbage}

MCPromptLen == [q \in Requests |-> IF q = Short THEN ShortPrompt ELSE LongPrompt]

\* Page and slot numbers are never compared other than for equality.  Requests
\* may be swapped as well where their prompts have the same length.
SlotSymmetry == Permutations(Pages \ {NullPage})
                \cup Permutations(CpuSlots) \cup Permutations(StagingSlots)
Symmetry == SlotSymmetry \cup Permutations(Requests)

=============================================================================
