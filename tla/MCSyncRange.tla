---------------------------- MODULE MCSyncRange -----------------------------
(***************************************************************************)
(* SyncRange on a chain of a dozen blocks, with the constants of the code  *)
(* scaled down so that every type of range occurs: small, large, n-ary     *)
(* with and without a remainder, and an n-ary range within another one.    *)
(***************************************************************************)
EXTENDS SyncRange

\* No block, one block or two blocks change the account.
OneOrTwo == {{}} \cup {{a, b} : a, b \in BlockNumber \ {0}}

\* Every length of a sync from the first block, and syncs that begin later or
\* have nothing to do.
FromTo == {<<0, h>> : h \in BlockNumber} \cup {<<4, 10>>, <<9, 3>>}

=============================================================================
