---------------------------- MODULE MCKVOffload ----------------------------
(* KVOffload for TLC: model values, with the symmetries that are sound (all *)
(* of these sets are used only through equality and membership).            *)
EXTENDS KVOffload, TLC

Symmetry == Permutations(Requests) \cup Permutations(Pages)
            \cup Permutations(CpuSlots) \cup Permutations(StagingSlots)

=============================================================================
