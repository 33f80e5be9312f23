---------------------------- MODULE MCBlockChain ----------------------------
(* A small tree of blocks for TLC, with a difficulty interval of 2:            *)
(*                                                                             *)
(*     g0 - o1 - c2 - m3 - m4 - m5 - m6                                        *)
(*           \     \         \                                                 *)
(*            x2    \          e5 - e6                                         *)
(*                   f3 - f4 - f5 - f6 - f7                                    *)
(*                                                                             *)
(* g0 and c2 are checkpoints, x2 contradicts c2.                               *)
EXTENDS BlockChain

Tree == [g0 |-> <<0, "none">>, o1 |-> <<1, "g0">>, c2 |-> <<2, "o1">>, x2 |-> <<2, "o1">>,
         m3 |-> <<3, "c2">>, m4 |-> <<4, "m3">>, m5 |-> <<5, "m4">>, m6 |-> <<6, "m5">>,
         f3 |-> <<3, "c2">>, f4 |-> <<4, "f3">>, f5 |-> <<5, "f4">>,
         f6 |-> <<6, "f5">>, f7 |-> <<7, "f6">>,
         e5 |-> <<5, "m4">>, e6 |-> <<6, "e5">>]

MCPrev == [b \in Block |-> IF Tree[b][2] \in Block THEN Tree[b][2] ELSE None]

MCHeight == [b \in Block |-> Tree[b][1]]

\* t1 and t3 are mined on several branches, at different heights
MCTxOf == [b \in Block |-> CASE b \in {"m3", "f4"} -> {"t1"}
                             [] b = "m4" -> {"t2"}
                             [] b \in {"f3", "m5", "e6"} -> {"t3"}
                             [] OTHER -> {}]

\* p and r are behind: the main branch and e go on while r is the download peer
MCPeerLastBlock == [p \in Peer |-> CASE p = "p" -> 4 [] p = "q" -> 6 [] p = "r" -> 5]
=============================================================================
