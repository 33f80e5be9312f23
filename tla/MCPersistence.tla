--------------------------- MODULE MCPersistence ---------------------------
(* Two transactions: one in a transition block, saved at once, one in the      *)
(* block at the tip, whose whole window is saved; the interval is two blocks.  *)
EXTENDS Persistence, TLC

MCTxHeight == "t1" :> 2 @@ "t2" :> 5

=============================================================================
