------------------------------ MODULE KNNQuery ------------------------------
(***************************************************************************)
(* What a search operator promises to the plan above it: it answers the     *)
(* query once, with as many rows as were asked for and exist, nearest       *)
(* first, and then hands over each row of the answer exactly once, in       *)
(* chunks.  The operators of FilteredScan.tla, IndexScan.tla and            *)
(* GlobalSearch.tla are shown to implement this.                            *)
(***************************************************************************)
EXTENDS Naturals, Sequences, FiniteSets

CONSTANTS
    Dist,           \* distance of each row to the query
    K,              \* limit of the query
    VectorSize      \* STANDARD_VECTOR_SIZE: most rows in a chunk

VARIABLES
    asked,          \* the rows that the answer may be drawn from
    answered, answer,
    delivered,      \* the rows handed over so far, in order
    finished        \* the operator has said that there are no more

vars == <<asked, answered, answer, delivered, finished>>

Least(a, b) == IF a <= b THEN a ELSE b

IsAnswer(s) ==
    /\ Len(s) = Least(K, Cardinality(asked))
    /\ \A i \in DOMAIN s : s[i] \in asked
    /\ \A i, j \in DOMAIN s : i < j => s[i] # s[j] /\ Dist[s[i]] <= Dist[s[j]]

Init ==
    /\ ~answered /\ answer = <<>>
    /\ delivered = <<>>
    /\ ~finished

Answer ==
    /\ ~answered
    /\ answered'
    /\ IsAnswer(answer')
    /\ UNCHANGED <<asked, delivered, finished>>

Deliver ==
    /\ answered
    /\ \E n \in 1..VectorSize :
        /\ Len(delivered) + n <= Len(answer)
        /\ delivered' = SubSeq(answer, 1, Len(delivered) + n)
    /\ UNCHANGED <<asked, answered, answer, finished>>

Finish ==
    /\ answered
    /\ delivered = answer
    /\ ~finished
    /\ finished'
    /\ UNCHANGED <<asked, answered, answer, delivered>>

Next == Answer \/ Deliver \/ Finish

Spec == Init /\ [][Next]_vars

\* Every query ends.
Ends == <>finished

FairSpec == Spec /\ Ends

=============================================================================
