------------------------------ MODULE MCWallet ------------------------------
(* Small wallets for TLC. *)
EXTENDS Wallet

Out(pkh, amount) == [pkh |-> pkh, amount |-> amount]

\* a pays the wallet; b and c both spend a's output, b keeping the change; d
\* spends b's change; x has nothing to do with the wallet
MCInputs ==
    [t \in Tx |-> CASE t = "a" -> {<<Foreign, 1>>}
                    [] t = "b" -> {<<"a", 1>>}
                    [] t = "c" -> {<<"a", 1>>, <<Foreign, 2>>}
                    [] t = "d" -> {<<"b", 1>>}
                    [] t = "e" -> {<<Foreign, 3>>}
                    [] t = "x" -> {<<Foreign, 4>>}]

MCOutputs ==
    [t \in Tx |-> CASE t = "a" -> <<Out(<<"external", 0>>, 4)>>
                    [] t = "b" -> <<Out(<<"internal", 0>>, 3)>>
                    [] t = "c" -> <<Out(Foreign, 2), Out(<<"external", 1>>, 1)>>
                    [] t = "d" -> <<Out(<<"external", 1>>, 2)>>
                    [] t = "e" -> <<Out(<<"internal", 1>>, 5)>>
                    [] t = "x" -> <<Out(Foreign, 4)>>]

\* c may be replaced by fee; b is locked until time 21, e until height 6, above
\* every block
MCSequence == [t \in Tx |-> CASE t = "c" -> "rbf"
                              [] t \in {"b", "e"} -> "nonfinal"
                              [] OTHER -> "final"]

MCLockTime == [t \in Tx |-> CASE t = "b" -> 21 [] t = "e" -> 6 [] OTHER -> 0]

MCGapLimit == [c \in Chain |-> 1]
=============================================================================
