------------------------- MODULE MCBlockChainSlice --------------------------
(***************************************************************************)
(* BlockChainSlice on a fork: the genesis g, a block p on it, a2 on p, and *)
(* the branches a3, a4 and b3 on a2, with the one transaction in a block   *)
(* of each branch.                                                         *)
(***************************************************************************)
EXTENDS BlockChainSlice, TLC

CONSTANTS g, p, a2, a3, a4, b3, t1

MCBlock == {g, p, a2, a3, a4, b3}

MCParent == g :> NoBlock @@ p :> g @@ a2 :> p @@ a3 :> a2 @@ a4 :> a3 @@ b3 :> a2

MCNumber == g :> 0 @@ p :> 1 @@ a2 :> 2 @@ a3 :> 3 @@ a4 :> 4 @@ b3 :> 3

MCPreference == g :> 0 @@ p :> 1 @@ a2 :> 2 @@ a3 :> 3 @@ a4 :> 5 @@ b3 :> 4

MCTxOf == [b \in MCBlock |-> IF b \in {a3, b3} THEN {t1} ELSE {}]

Events(announce, status, sync, failure, submit, answer) ==
    [announce |-> announce, status |-> status, sync |-> sync, failure |-> failure,
     submit |-> submit, answer |-> answer]

\* Two announcements, of a reorganization or not; one beside a sync; a sync that
\* may fail, and a second one; a transaction that the client sends; a request
\* that is not answered.
SliceBudgets == {Events(2, 0, 0, 0, 0, 0), Events(1, 1, 0, 0, 0, 0),
                 Events(0, 1, 0, 1, 0, 0), Events(0, 0, 2, 0, 0, 0),
                 Events(1, 0, 0, 0, 1, 2), Events(1, 0, 0, 1, 0, 0)}
=============================================================================
