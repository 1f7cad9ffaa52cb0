------------------------------- MODULE BestK -------------------------------
(***************************************************************************)
(* What the heap `best_k`, shared by the searchers of all row groups,      *)
(* promises: candidates are offered to it, in batches and in any order, and *)
(* at every moment it holds a K-nearest subset of what was offered so far.  *)
(* PDXearch.tla is shown to implement this under exact pruning, with the    *)
(* truncation of a quantized threshold for its tolerance.                   *)
(***************************************************************************)
EXTENDS Naturals, FiniteSets

CONSTANTS
    Rows,       \* the rows that have an embedding
    K,          \* the K of the K-nearest-neighbour query
    Dist,       \* [Rows -> Nat], the distance of each row to the query
    Tolerance   \* [Rows -> Nat], by how much a row that is left out may be nearer

VARIABLES
    best,       \* the valid candidates of the heap
    offered     \* the rows the searchers are done with

vars == <<best, offered>>

\* B keeps everything, or K candidates none of which is farther than a row left out.
IsKBest(B, S) ==
    /\ B \subseteq S
    /\ B = S \/ Cardinality(B) = K
    /\ Cardinality(B) <= K
    /\ \A b \in B, s \in S \ B : Dist[b] <= Dist[s]

\* The same, where a row left out may be nearer by its tolerance.
IsNearlyKBest(B, S) ==
    /\ B \subseteq S
    /\ B = S \/ Cardinality(B) = K
    /\ Cardinality(B) <= K
    /\ \A b \in B, s \in S \ B : Dist[b] <= Dist[s] + Tolerance[s]

\* What is popped from a heap of the rows B, last to first: B in ascending distance.
Ascending(B) ==
    {s \in [1..Cardinality(B) -> B] :
        \A i, j \in DOMAIN s : i < j => s[i] # s[j] /\ Dist[s[i]] <= Dist[s[j]]}

TypeOK ==
    /\ best \in SUBSET Rows
    /\ offered \in SUBSET Rows

Init ==
    /\ best = {}
    /\ offered = {}

\* A batch of rows is considered: merged into the heap or discarded for good.
Offer ==
    /\ offered' \in SUBSET Rows
    /\ offered \subseteq offered'
    /\ best' \in SUBSET (best \cup (offered' \ offered))
    /\ IsNearlyKBest(best', offered')

\* The next query starts with a fresh heap.
Reset ==
    /\ best' = {}
    /\ offered' = {}

Next == Offer \/ Reset

Spec == Init /\ [][Next]_vars

-----------------------------------------------------------------------------
(* The heap is always a K-best subset, nearly, of what was offered to it.   *)
KBest == IsNearlyKBest(best, offered)

=============================================================================
