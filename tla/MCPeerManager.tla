--------------------------- MODULE MCPeerManager ---------------------------
(* Small networks for TLC: see the .cfg files for the bounds. *)
EXTENDS PeerManager

CONSTANTS p1, p2, t1, t2

\* the second peer's chain is one block longer
MCLastBlock == [p \in Peer |-> IF p = p2 THEN 2 ELSE 1]

None == [op \in {"connect", "disconnect", "rescan", "publish", "message", "mishap"} |-> 0]

\* connecting, leaving the network and losing it
NetworkBudget == [None EXCEPT !["connect"] = 1, !["disconnect"] = 1, !["rescan"] = 1, !["mishap"] = 1]

\* a publish that peers answer, while connections are lost
PublishBudget == [None EXCEPT !["connect"] = 1, !["publish"] = 1, !["message"] = 1]

\* leaving the network with an unconfirmed transaction in the wallet
LeaveBudget == [None EXCEPT !["connect"] = 1, !["disconnect"] = 1]

\* two transactions that take addresses
AddressBudget == [None EXCEPT !["connect"] = 1, !["message"] = 2]

=============================================================================
