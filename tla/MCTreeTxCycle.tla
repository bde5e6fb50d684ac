--------------------------- MODULE MCTreeTxCycle ---------------------------
(* TreeTx with a last move that comes once the others have left a path that *)
(* is stale.                                                               *)
EXTENDS TreeTx, TLC

CONSTANT Last

Symmetry == Permutations(Ids \ {Root}) \cup Permutations(Reqs \ {Last})

AfterStalePath ==
    tx[Last].pc # "new" =>
        /\ \A t \in Reqs \ {Last} : tx[t].pc = "done"
        /\ ~PathsAreAncestry \/ tx[Last].pc = "done"
=============================================================================
