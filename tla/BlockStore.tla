----------------------------- MODULE BlockStore -----------------------------
(***************************************************************************)
(* What the offload tables promise about a logical KV block, with no pages, *)
(* slots or copies in sight.  A block has a value: what a reader that       *)
(* follows the residency table finds.  While the block lives in the GPU     *)
(* pool the model runner may rewrite it.  Once it is offloaded it is        *)
(* frozen: no store, fetch, eviction, release, re-sync or other request's   *)
(* cleanup may change it, and it never turns live again; only dropping it   *)
(* ends that.  offload_package/integration/manager.py:73-76 states the      *)
(* promise ("keep their CPU copy as the source of truth").                  *)
(***************************************************************************)
CONSTANTS Refs, Values, None

VARIABLES val, frozen

vars == <<val, frozen>>

TypeOK ==
    /\ val \in [Refs -> Values \cup {None}]
    /\ frozen \subseteq {r \in Refs : val[r] # None}

Init ==
    /\ val = [r \in Refs |-> None]
    /\ frozen = {}

\* The live blocks may take any value.
Rewrite ==
    /\ frozen' = frozen
    /\ val' \in [Refs -> Values \cup {None}]
    /\ \A r \in frozen : val'[r] = val[r]

\* Offloading: live blocks freeze with the value they have.
Freeze(S) ==
    /\ frozen' = frozen \cup S
    /\ val' = val

\* Blocks are forgotten.
Drop(S) ==
    /\ frozen' = frozen \ S
    /\ val' = [r \in Refs |-> IF r \in S THEN None ELSE val[r]]

Next ==
    \/ Rewrite
    \/ \E S \in SUBSET {r \in Refs : val[r] # None} : Freeze(S)
    \/ \E S \in SUBSET Refs : Drop(S)

Spec == Init /\ [][Next]_vars

=============================================================================
