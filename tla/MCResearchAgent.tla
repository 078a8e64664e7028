--------------------------- MODULE MCResearchAgent ---------------------------
(***************************************************************************)
(* TLC instance of ResearchAgent: what the model and the search may return *)
(* is chosen so that every check of the controller both passes and fails.  *)
(***************************************************************************)
EXTENDS ResearchAgent, TLC

CONSTANTS
    long, short, other, blank,      \* chunks
    q1, q1Again, q2, q3, qBlank     \* q1Again is q1 up to punctuation

MCSources == {long, short, other, blank}
MCSize == (long :> 4) @@ (short :> 2) @@ (other :> 3) @@ (blank :> 0)

MCQueries == {q1, q1Again, q2, q3, qBlank}
MCNormal == (q1 :> "one") @@ (q1Again :> "one") @@ (q2 :> "two") @@ (q3 :> "three")
            @@ (qBlank :> "")

Upto2(S) == {<<>>} \cup {<<a>> : a \in S} \cup {<<a, b>> : a, b \in S}

Quote(s, end) == [id |-> s, end |-> end]

MCCoverages == Upto2({[index |-> i, ids |-> ids] :
                        i \in {0, 1}, ids \in {{long}, {other}, {long, other}}})

MCConflicts ==
    {[left |-> Quote(long, 1), right |-> Quote(other, 1)],
     [left |-> Quote(long, 1), right |-> Quote(short, 1)],
     [left |-> Quote(long, 1), right |-> Quote(long, 2)],
     [left |-> Quote(other, 0), right |-> Quote(long, 1)],
     [left |-> Quote(other, 1), right |-> Quote(long, 4)]}

MCProposals ==
    {[sufficient |-> TRUE, steps |-> <<Quote(long, 1)>>],
     [sufficient |-> TRUE, steps |-> <<Quote(long, 3), Quote(other, 2)>>],
     [sufficient |-> TRUE, steps |-> <<Quote(long, 4)>>],
     [sufficient |-> TRUE, steps |-> <<>>],
     [sufficient |-> FALSE, steps |-> <<Quote(long, 1)>>]}

MCReports == Upto2({[index |-> i, supported |-> yes] : i \in 0 .. 2, yes \in BOOLEAN})

=============================================================================
