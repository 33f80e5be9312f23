------------------------------- MODULE Wallet -------------------------------
(***************************************************************************)
(* The SPV wallet of bitcoin/BRWallet.c: the list of wallet transactions,  *)
(* the set of all transactions ever registered, and the caches that        *)
(* _BRWalletUpdateBalance rebuilds (UTXOs, spent outputs, invalid and      *)
(* pending transactions, balance).                                         *)
(*                                                                         *)
(* Several threads call the wallet.  wallet->lock is the variable lock: a  *)
(* section that only reads or does one thing is one step, and the two      *)
(* loops that run under the lock, over the hashes of                       *)
(* BRWalletUpdateTransactions and over the list in _BRWalletUpdateBalance, *)
(* take one step per iteration.  What a call still has to do after it has  *)
(* released the lock (recursive removals, new addresses, callbacks, its    *)
(* return) is the thread's stack of frames, calls[th].                     *)
(***************************************************************************)
EXTENDS Naturals, Integers, Sequences, FiniteSets, SequencesExt, FiniteSetsExt

CONSTANTS
    Thread,       \* the threads that call the wallet
    Free,         \* lock = Free: nobody holds wallet->lock
    Tx,           \* transactions; one stands for its hash too
    Foreign,      \* hash of a transaction, or key hash, unknown to the wallet
    Inputs,       \* [Tx -> sets of outpoints <<hash, index>>]
    Outputs,      \* [Tx -> Seq of [pkh, amount]]
    Sequence,     \* [Tx -> the lowest input sequence: "rbf", "nonfinal", "final"]
    LockTime,     \* [Tx -> Nat] tx->lockTime: a height or a time
    Oversize,     \* the transactions larger than TX_MAX_SIZE
    GapLimit,     \* [Chain -> Nat] SEQUENCE_GAP_LIMIT_EXTERNAL / _INTERNAL
    ExtraGap,     \* what callers may ask beyond the gap limit (LoadBloomFilter)
    Heights,      \* block heights given to the wallet
    Timestamps,   \* timestamps given to the wallet, 0 for "unverified"
    Times,        \* the values of the clock
    BlockSize,    \* bound: wallet transactions in one block
    TX_UNCONFIRMED, TX_MAX_LOCK_HEIGHT, TX_MIN_OUTPUT_AMOUNT

Chain == {"external", "internal"}

ASSUME ConstantAssumption ==
    /\ Free \notin Thread
    /\ Foreign \notin Tx
    /\ IsFiniteSet(Tx)
    /\ Inputs \in [Tx -> SUBSET ((Tx \cup {Foreign}) \X Nat)]
    /\ Outputs \in [Tx -> Seq([pkh : (Chain \X Nat) \cup {Foreign}, amount : Nat])]
    /\ Sequence \in [Tx -> {"rbf", "nonfinal", "final"}]
    /\ LockTime \in [Tx -> Nat]
    /\ Oversize \subseteq Tx
    /\ GapLimit \in [Chain -> Nat \ {0}]
    /\ ExtraGap \in Nat
    /\ Heights \subseteq Nat
    /\ Timestamps \subseteq Nat
    /\ Times \subseteq Nat
    /\ BlockSize \in Nat
    /\ TX_UNCONFIRMED \in Nat
    /\ TX_MAX_LOCK_HEIGHT \in Nat
    /\ TX_MIN_OUTPUT_AMOUNT \in Nat
    /\ \A h \in Heights : h < TX_UNCONFIRMED

VARIABLES
    transactions, \* wallet->transactions, oldest first
    allTx,        \* wallet->allTx
    height,       \* tx->blockHeight of every transaction
    timestamp,    \* tx->timestamp of every transaction
    blockHeight,  \* wallet->blockHeight
    chain,        \* lengths of wallet->externalChain and wallet->internalChain
    now,          \* the clock, time(NULL)
    cache,        \* the fields _BRWalletUpdateBalance clears and rebuilds
    balance,      \* wallet->balance
    lock,         \* the owner of wallet->lock, or Free
    upd,          \* locals of the BRWalletUpdateTransactions loop
    bal,          \* locals of the _BRWalletUpdateBalance loop
    calls,        \* [Thread -> Seq(frames)] what each thread has left to do
    shown,        \* the balance last passed to the balanceChanged callback
    stored        \* transactions in the wallet manager's transaction files

listVars == <<transactions, allTx, height, timestamp, blockHeight>>
lockVars == <<cache, balance, lock, upd, bal>>
appVars  == <<shown, stored>>
vars == <<listVars, chain, now, lockVars, calls, appVars>>

-----------------------------------------------------------------------------
(* Transactions and addresses. *)

Parents(t) == {o[1] : o \in Inputs[t]}

Listed == {transactions[i] : i \in 1..Len(transactions)}

\* the outputs of t whose key is in wallet->allPKH, the keys generated so far
OwnOutputs(t) == {n \in 1..Len(Outputs[t]) :
                     /\ Outputs[t][n].pkh # Foreign
                     /\ Outputs[t][n].pkh[2] < chain[Outputs[t][n].pkh[1]]}

\* _BRWalletContainsTx: t pays the wallet, or spends an output of it
ContainsTx(t) ==
    \/ OwnOutputs(t) # {}
    \/ \E o \in Inputs[t] : o[1] \in allTx /\ o[2] \in OwnOutputs(o[1])

-----------------------------------------------------------------------------
(* The order of wallet->transactions. *)

\* the part of _BRWalletTxIsAscending for t1 and t2 of equal height: t1 spends
\* t2, or has a registered ancestor that comes after t2
SpendsLater(h, all, t1, t2) ==
    LET later[n \in 0..Cardinality(Tx), t \in Tx] ==
            \/ t2 \in Parents(t)
            \/ /\ t \notin Parents(t2)
               /\ n > 0
               /\ \E p \in Parents(t) \cap all :
                      \/ h[p] > h[t2]
                      \/ h[p] = h[t2] /\ later[n - 1, p]
    IN  later[Cardinality(Tx), t1]

TxIsAscending(h, all, t1, t2) ==
    \/ h[t1] > h[t2]
    \/ h[t1] = h[t2] /\ SpendsLater(h, all, t1, t2)

\* the highest position in chain c of an output of t, -1 if there is none
TxChainIndex(t, c) ==
    Max({-1} \cup {i \in 0..(chain[c] - 1) :
                      \E n \in 1..Len(Outputs[t]) : Outputs[t][n].pkh = <<c, i>>})

LaterInChain(t1, t2) ==
    LET both(c) == TxChainIndex(t1, c) # -1 /\ TxChainIndex(t2, c) # -1
        after(c) == TxChainIndex(t1, c) > TxChainIndex(t2, c)
    IN  \/ both("internal") /\ after("internal")
        \/ ~both("internal") /\ both("external") /\ after("external")

\* _BRWalletTxCompare(t1, t2) > 0
TxComparesAfter(h, all, t1, t2) ==
    \/ TxIsAscending(h, all, t1, t2)
    \/ ~TxIsAscending(h, all, t2, t1) /\ LaterInChain(t1, t2)

\* mutant: the list is not searched, the transaction goes to the end
InsertPositionsAtEnd(h, all, s, t) == {Len(s) + 1}

\* the positions _BRWalletInsertTx moves past, from the end of the list
InsertPositions(h, all, s, t) ==
    {i \in 1..(Len(s) + 1) : \A j \in i..Len(s) : TxComparesAfter(h, all, s[j], t)}

InsertTx(h, all, s, t) ==
    InsertAt(s, Min(InsertPositions(h, all, s, t)), t)

\* mutant: the scan stops one short and never reaches the first transaction
RemoveTxShort(s, t) ==
    IF \E i \in 2..Len(s) : s[i] = t
    THEN RemoveAt(s, CHOOSE i \in 2..Len(s) : s[i] = t)
    ELSE s

RemoveTx(s, t) ==
    IF \E i \in 1..Len(s) : s[i] = t
    THEN RemoveAt(s, CHOOSE i \in 1..Len(s) : s[i] = t)
    ELSE s

-----------------------------------------------------------------------------
(* Queries. *)

\* a lock time that has not come yet, for the inputs that are not final
FutureLock(t) ==
    /\ Sequence[t] # "final"
    /\ \/ LockTime[t] < TX_MAX_LOCK_HEIGHT /\ LockTime[t] > blockHeight + 1
       \/ LockTime[t] > now

\* what makes an unconfirmed transaction pending by itself
PendingByItself(t) ==
    \/ t \in Oversize
    \/ \E n \in 1..Len(Outputs[t]) : Outputs[t][n].amount < TX_MIN_OUTPUT_AMOUNT
    \/ Inputs[t] # {} /\ (Sequence[t] = "rbf" \/ FutureLock(t))

\* BRWalletTransactionIsPending: it or a registered unconfirmed ancestor is
TransactionIsPending(t) ==
    LET pending[n \in 0..Cardinality(Tx), u \in Tx] ==
            /\ height[u] = TX_UNCONFIRMED
            /\ \/ PendingByItself(u)
               \/ n > 0 /\ \E p \in Parents(u) \cap allTx : pending[n - 1, p]
    IN  pending[Cardinality(Tx), t]

\* BRWalletTransactionIsValid
TransactionIsValid(t) ==
    LET valid[n \in 0..Cardinality(Tx), u \in Tx] ==
            \/ height[u] # TX_UNCONFIRMED
            \/ /\ IF u \in allTx THEN u \notin cache.invalidTx
                                ELSE Inputs[u] \cap cache.spentOutputs = {}
               /\ n > 0 => \A p \in Parents(u) \cap allTx : valid[n - 1, p]
    IN  valid[Cardinality(Tx), t]

-----------------------------------------------------------------------------
(* Frames, and entering and leaving the lock. *)

Frame(op, t) == [op |-> op, tx |-> t]

Idle(th) == lock = Free /\ calls[th] = <<>>

\* th is about to run the frame on top of its stack
Top(th, op) == calls[th] # <<>> /\ Head(calls[th]).op = op

Return(th, frames) == calls' = [calls EXCEPT ![th] = frames \o Tail(@)]

NoUpdate == [todo |-> <<>>, height |-> 0, timestamp |-> 0, done |-> {}, needsUpdate |-> FALSE]

NoBalance == [i |-> 0, balance |-> 0, prevBalance |-> 0]

EmptyCache == [utxos |-> {}, balanceHist |-> <<>>, spentOutputs |-> {}, invalidTx |-> {},
               pendingTx |-> {}, usedPKH |-> {}, totalSent |-> 0, totalReceived |-> 0]

\* mutant: totalReceived is not cleared
BeginBalanceKeepingTotal(th) ==
    /\ lock' = th
    /\ cache' = [EmptyCache EXCEPT !.totalReceived = cache.totalReceived]
    /\ bal' = [NoBalance EXCEPT !.i = 1]

\* the head of _BRWalletUpdateBalance, called with the lock held by th
BeginBalance(th) ==
    /\ lock' = th
    /\ cache' = EmptyCache
    /\ bal' = [NoBalance EXCEPT !.i = 1]

-----------------------------------------------------------------------------
(* _BRWalletUpdateBalance: one step per listed transaction. *)

\* the satoshis of the outputs in S, one by one, and how many they are
Satoshis(S) == UNION {{o} \X (1..Outputs[o[1]][o[2]].amount) : o \in S}

SumAmounts(S) == Cardinality(Satoshis(S))

\* mutant: an input that is already spent does not matter
BalanceInvalidByParent(t) ==
    /\ height[t] = TX_UNCONFIRMED
    /\ \E o \in Inputs[t] : o[1] \in cache.invalidTx

BalanceInvalid(t) ==
    /\ height[t] = TX_UNCONFIRMED
    /\ \E o \in Inputs[t] : o \in cache.spentOutputs \/ o[1] \in cache.invalidTx

BalancePending(t) ==
    /\ height[t] = TX_UNCONFIRMED
    /\ PendingByItself(t) \/ Parents(t) \cap cache.pendingTx # {}

\* check if any inputs are invalid or already spent
BalanceSkipInvalid(t) ==
    /\ BalanceInvalid(t)
    /\ cache' = [cache EXCEPT !.invalidTx = @ \cup {t},
                              !.balanceHist = Append(@, bal.balance)]
    /\ bal' = [bal EXCEPT !.i = @ + 1]

\* add inputs to spent output set, check if tx is pending
BalanceSkipPending(t) ==
    /\ ~BalanceInvalid(t)
    /\ BalancePending(t)
    /\ cache' = [cache EXCEPT !.spentOutputs = @ \cup Inputs[t],
                              !.pendingTx = @ \cup {t},
                              !.balanceHist = Append(@, bal.balance)]
    /\ bal' = [bal EXCEPT !.i = @ + 1]

\* mutant: new outputs are not checked against the spent set
BalanceCountNewOutputs(t) ==
    LET own    == {<<t, n>> : n \in OwnOutputs(t)}
        spent  == cache.spentOutputs \cup Inputs[t]
        utxos  == cache.utxos \cup own
        newBal == bal.balance + SumAmounts(own) - SumAmounts(utxos \cap spent)
        prev   == bal.prevBalance
    IN  /\ ~BalanceInvalid(t)
        /\ ~BalancePending(t)
        /\ cache' = [cache EXCEPT
                !.utxos = (cache.utxos \ spent) \cup own,
                !.spentOutputs = spent,
                !.usedPKH = @ \cup {Outputs[t][n].pkh : n \in OwnOutputs(t)},
                !.totalReceived = IF prev < newBal THEN @ + newBal - prev ELSE @,
                !.totalSent = IF newBal < prev THEN @ + prev - newBal ELSE @,
                !.balanceHist = Append(@, newBal)]
        /\ bal' = [i |-> bal.i + 1, balance |-> newBal, prevBalance |-> newBal]

\* mutant: every input is subtracted, ours or not
BalanceCountUnowned(t) ==
    LET own    == {<<t, n>> : n \in OwnOutputs(t)}
        spent  == cache.spentOutputs \cup Inputs[t]
        utxos  == cache.utxos \cup own
        newBal == bal.balance + SumAmounts(own) - SumAmounts({o \in Inputs[t] : o[1] \in Tx})
        prev   == bal.prevBalance
    IN  /\ ~BalanceInvalid(t)
        /\ ~BalancePending(t)
        /\ cache' = [cache EXCEPT
                !.utxos = utxos \ spent,
                !.spentOutputs = spent,
                !.usedPKH = @ \cup {Outputs[t][n].pkh : n \in OwnOutputs(t)},
                !.totalReceived = IF prev < newBal THEN @ + newBal - prev ELSE @,
                !.totalSent = IF newBal < prev THEN @ + prev - newBal ELSE @,
                !.balanceHist = Append(@, newBal)]
        /\ bal' = [i |-> bal.i + 1, balance |-> newBal, prevBalance |-> newBal]

\* add outputs to UTXO set, then check the entire UTXO set against the spent set
BalanceCount(t) ==
    LET own    == {<<t, n>> : n \in OwnOutputs(t)}
        spent  == cache.spentOutputs \cup Inputs[t]
        utxos  == cache.utxos \cup own
        newBal == bal.balance + SumAmounts(own) - SumAmounts(utxos \cap spent)
        prev   == bal.prevBalance
    IN  /\ ~BalanceInvalid(t)
        /\ ~BalancePending(t)
        /\ cache' = [cache EXCEPT
                !.utxos = utxos \ spent,
                !.spentOutputs = spent,
                !.usedPKH = @ \cup {Outputs[t][n].pkh : n \in OwnOutputs(t)},
                !.totalReceived = IF prev < newBal THEN @ + newBal - prev ELSE @,
                !.totalSent = IF newBal < prev THEN @ + prev - newBal ELSE @,
                !.balanceHist = Append(@, newBal)]
        /\ bal' = [i |-> bal.i + 1, balance |-> newBal, prevBalance |-> newBal]

BalanceStep ==
    /\ bal.i \in 1..Len(transactions)
    /\ LET t == transactions[bal.i]
       IN  BalanceSkipInvalid(t) \/ BalanceSkipPending(t) \/ BalanceCount(t)
    /\ UNCHANGED <<listVars, chain, now, balance, lock, upd, calls, appVars>>

\* the loop is over: wallet->balance is set and the caller releases the lock
BalanceDone ==
    /\ bal.i = Len(transactions) + 1
    /\ balance' = bal.balance
    /\ bal' = NoBalance
    /\ lock' = Free
    /\ UNCHANGED <<listVars, chain, now, cache, upd, calls, appVars>>

-----------------------------------------------------------------------------
(* BRWalletUpdateTransactions: one step per hash, under the lock. *)

UpdateTransactions(th, hashes, h, ts) ==
    /\ Idle(th)
    /\ lock' = th
    /\ blockHeight' = IF h > blockHeight THEN h ELSE blockHeight
    /\ upd' = [NoUpdate EXCEPT !.todo = hashes, !.height = h, !.timestamp = ts]
    /\ UNCHANGED <<transactions, allTx, height, timestamp, chain, now, cache, balance,
                   bal, calls, appVars>>

UpdateLooping == lock # Free /\ bal.i = 0

\* the hash is unknown, or has that height and timestamp already
UpdateSkip(t) ==
    /\ t \notin allTx \/ (height[t] = upd.height /\ timestamp[t] = upd.timestamp)
    /\ upd' = [upd EXCEPT !.todo = Tail(@)]
    /\ UNCHANGED <<transactions, allTx, height, timestamp>>

\* set the height, remove and re-insert a wallet tx, free a confirmed other tx
UpdateSet(t) ==
    /\ t \in allTx
    /\ height[t] # upd.height \/ timestamp[t] # upd.timestamp
    /\ IF ContainsTx(t)
       THEN /\ height' = [height EXCEPT ![t] = upd.height]
            /\ timestamp' = [timestamp EXCEPT ![t] = upd.timestamp]
            /\ transactions' = IF t \in Listed
                               THEN InsertTx(height', allTx, RemoveTx(transactions, t), t)
                               ELSE transactions
            /\ upd' = [upd EXCEPT !.todo = Tail(@), !.done = @ \cup {t},
                         !.needsUpdate = @ \/ t \in cache.pendingTx \cup cache.invalidTx]
            /\ UNCHANGED allTx
       ELSE /\ IF upd.height # TX_UNCONFIRMED
               THEN /\ allTx' = allTx \ {t}  \* freed: a later copy comes unconfirmed
                    /\ height' = [height EXCEPT ![t] = TX_UNCONFIRMED]
                    /\ timestamp' = [timestamp EXCEPT ![t] = 0]
               ELSE /\ timestamp' = [timestamp EXCEPT ![t] = upd.timestamp]
                    /\ height' = [height EXCEPT ![t] = upd.height]
                    /\ UNCHANGED allTx
            /\ upd' = [upd EXCEPT !.todo = Tail(@)]
            /\ UNCHANGED transactions

UpdateStep ==
    /\ UpdateLooping
    /\ upd.todo # <<>>
    /\ UpdateSkip(Head(upd.todo)) \/ UpdateSet(Head(upd.todo))
    /\ UNCHANGED <<blockHeight, chain, now, cache, balance, lock, bal, calls, appVars>>

\* the txUpdated callback to run once the lock is released
UpdatedFrames(txs) == IF txs = {} THEN <<>> ELSE <<[op |-> "updated", txs |-> txs]>>

\* mutant: the balance is never updated
UpdateDoneOnly ==
    /\ UpdateLooping
    /\ upd.todo = <<>>
    /\ lock' = Free /\ UNCHANGED <<cache, bal>>
    /\ calls' = [calls EXCEPT ![lock] = UpdatedFrames(upd.done)]
    /\ upd' = NoUpdate
    /\ UNCHANGED <<listVars, chain, now, balance, appVars>>

UpdateDone ==
    /\ UpdateLooping
    /\ upd.todo = <<>>
    /\ IF upd.needsUpdate THEN BeginBalance(lock) ELSE lock' = Free /\ UNCHANGED <<cache, bal>>
    /\ calls' = [calls EXCEPT ![lock] = UpdatedFrames(upd.done)]
    /\ upd' = NoUpdate
    /\ UNCHANGED <<listVars, chain, now, balance, appVars>>

-----------------------------------------------------------------------------
(* BRWalletSetTxUnconfirmedAfter *)

\* mutant: the scan stops one block too early
TailAfterNext(h) == {i \in 1..Len(transactions) :
                        \A j \in i..Len(transactions) : height[transactions[j]] > h + 1}

\* the end of the list down to the first transaction at or below height h
TailAfter(h) == {i \in 1..Len(transactions) :
                    \A j \in i..Len(transactions) : height[transactions[j]] > h}

SetTxUnconfirmedAfter(th, h) ==
    LET txs == {transactions[i] : i \in TailAfter(h)}
    IN  /\ Idle(th)
        /\ blockHeight' = h
        /\ height' = [t \in Tx |-> IF t \in txs THEN TX_UNCONFIRMED ELSE height[t]]
        /\ IF txs # {} THEN BeginBalance(th) ELSE UNCHANGED <<lock, cache, bal>>
        /\ calls' = [calls EXCEPT ![th] = UpdatedFrames(txs)]
        /\ UNCHANGED <<transactions, allTx, timestamp, chain, now, balance, upd, appVars>>

-----------------------------------------------------------------------------
(* BRWalletRegisterTransaction *)

Registered(t, r) == <<[op |-> "registered", tx |-> t, r |-> r]>>

\* mutant: the txAdded callback is forgotten
AddedFramesSilent(t) ==
    << [op |-> "addrs", chain |-> "external"], [op |-> "addrs", chain |-> "internal"],
       [op |-> "balance"] >> \o Registered(t, TRUE)

\* what is left to do once a transaction was added
AddedFrames(t) ==
    << [op |-> "addrs", chain |-> "external"], [op |-> "addrs", chain |-> "internal"],
       [op |-> "balance"], Frame("added", t) >> \o Registered(t, TRUE)

RegisterTransaction(th, t) ==
    /\ Idle(th)
    /\ \/ /\ t \in allTx
          /\ calls' = [calls EXCEPT ![th] = Registered(t, TRUE)]
          /\ UNCHANGED <<allTx, transactions, lock, cache, bal>>
       \/ /\ t \notin allTx
          /\ ContainsTx(t)
          /\ allTx' = allTx \cup {t}
          /\ transactions' = InsertTx(height, allTx', transactions, t)
          /\ BeginBalance(th)
          /\ calls' = [calls EXCEPT ![th] = AddedFrames(t)]
       \/ /\ t \notin allTx
          /\ ~ContainsTx(t)
          /\ allTx' = IF height[t] = TX_UNCONFIRMED THEN allTx \cup {t} ELSE allTx
          /\ calls' = [calls EXCEPT ![th] = Registered(t, FALSE)]
          /\ UNCHANGED <<transactions, lock, cache, bal>>
    /\ UNCHANGED <<height, timestamp, blockHeight, chain, now, balance, upd, appVars>>

-----------------------------------------------------------------------------
(* BRWalletRemoveTransaction: a frame per recursive call. *)

RemoveTransaction(th, t) ==
    /\ Idle(th)
    /\ calls' = [calls EXCEPT ![th] = <<Frame("remove", t)>>]
    /\ UNCHANGED <<listVars, chain, now, lockVars, appVars>>

\* the listed transactions at the positions in found, oldest first
OldestFirst(found) ==
    [n \in 1..Cardinality(found) |->
        transactions[CHOOSE i \in found : Cardinality({j \in found : j <= i}) = n]]

\* mutant: the scan already stops at t's own height
DependentsAbove(t) ==
    OldestFirst({i \in TailAfter(height[t]) :
                    transactions[i] # t /\ t \in Parents(transactions[i])})

\* the listed transactions that spend t, found from the end of the list down to
\* the first one below t's height; the recursion takes them oldest first
Dependents(t) ==
    OldestFirst({i \in TailAfter(height[t] - 1) :
                    transactions[i] # t /\ t \in Parents(transactions[i])})

\* mutant: t is tried again without removing its dependents
RemoveDependentsAgain(th) ==
    /\ Top(th, "remove") /\ lock = Free
    /\ LET t == Head(calls[th]).tx
       IN  /\ t \notin allTx \/ Dependents(t) # <<>>
           /\ Return(th, IF t \in allTx THEN <<Frame("remove", t)>> ELSE <<>>)
    /\ UNCHANGED <<listVars, chain, now, lockVars, appVars>>

\* an unknown hash, or dependents to remove before t is looked at again
RemoveDependents(th) ==
    /\ Top(th, "remove") /\ lock = Free
    /\ LET t == Head(calls[th]).tx
           deps == Dependents(t)
       IN  /\ t \notin allTx \/ deps # <<>>
           /\ Return(th, IF t \in allTx
                         THEN [i \in 1..Len(deps) |-> Frame("remove", deps[i])]
                                \o <<Frame("remove", t)>>
                         ELSE <<>>)
    /\ UNCHANGED <<listVars, chain, now, lockVars, appVars>>

RemoveListed(th) ==
    /\ Top(th, "remove") /\ lock = Free
    /\ LET t == Head(calls[th]).tx
       IN  /\ t \in allTx
           /\ Dependents(t) = <<>>
           /\ transactions' = RemoveTx(transactions, t)
           /\ BeginBalance(th)
           /\ Return(th, <<[op |-> "balance"], Frame("deleted", t)>>)
    /\ UNCHANGED <<allTx, height, timestamp, blockHeight, chain, now, balance, upd, appVars>>

-----------------------------------------------------------------------------
(* BRWalletUnusedAddrs, and the callbacks, run without the lock. *)

\* addresses are generated until gap unused ones follow the last used one
ChainLength(c, gap) ==
    Min({n \in chain[c]..(chain[c] + gap) :
            /\ gap <= n
            /\ \A i \in 0..(chain[c] - 1) : <<c, i>> \in cache.usedPKH => i + 1 + gap <= n})

UnusedAddrs(c, gap) == chain' = [chain EXCEPT ![c] = ChainLength(c, gap)]

\* after a registration
NewAddrs(th) ==
    /\ Top(th, "addrs") /\ lock = Free
    /\ LET c == Head(calls[th]).chain IN UnusedAddrs(c, GapLimit[c])
    /\ Return(th, <<>>)
    /\ UNCHANGED <<listVars, now, lockVars, appVars>>

\* asked by a caller, with a larger gap when the bloom filter is built
RequestAddrs(th, c, gap) ==
    /\ Idle(th)
    /\ UnusedAddrs(c, gap)
    /\ UNCHANGED <<listVars, now, lockVars, calls, appVars>>

BalanceChanged(th) ==
    /\ Top(th, "balance") /\ lock # th
    /\ shown' = balance
    /\ Return(th, <<>>)
    /\ UNCHANGED <<listVars, chain, now, lockVars, stored>>

\* txAdded, txUpdated and txDeleted: the wallet manager's files
TxAdded(th) ==
    /\ Top(th, "added") /\ lock # th
    /\ stored' = stored \cup {Head(calls[th]).tx}
    /\ Return(th, <<>>)
    /\ UNCHANGED <<listVars, chain, now, lockVars, shown>>

TxUpdated(th) ==
    /\ Top(th, "updated") /\ lock # th
    /\ stored' = stored \cup Head(calls[th]).txs
    /\ Return(th, <<>>)
    /\ UNCHANGED <<listVars, chain, now, lockVars, shown>>

TxDeleted(th) ==
    /\ Top(th, "deleted") /\ lock # th
    /\ stored' = stored \ {Head(calls[th]).tx}
    /\ Return(th, <<>>)
    /\ UNCHANGED <<listVars, chain, now, lockVars, shown>>

RegisterReturns(th) ==
    /\ Top(th, "registered") /\ lock # th
    /\ Return(th, <<>>)
    /\ UNCHANGED <<listVars, chain, now, lockVars, appVars>>

Tick ==
    /\ \E t \in Times : t > now /\ now' = t
    /\ UNCHANGED <<listVars, chain, lockVars, calls, appVars>>

-----------------------------------------------------------------------------
(* BRWalletNew for a wallet with no saved transactions. *)
Init ==
    /\ transactions = <<>>
    /\ allTx = {}
    /\ height = [t \in Tx |-> TX_UNCONFIRMED]
    /\ timestamp = [t \in Tx |-> 0]
    /\ blockHeight = 0
    /\ chain = GapLimit
    /\ now \in Times
    /\ \A t \in Times : now <= t
    /\ cache = EmptyCache
    /\ balance = 0
    /\ lock = Free
    /\ upd = NoUpdate
    /\ bal = NoBalance
    /\ calls = [th \in Thread |-> <<>>]
    /\ shown = 0
    /\ stored = {}

\* the hashes of one block's wallet transactions, in the block's order
Blocks == {s \in UNION {[1..n -> Tx] : n \in 1..BlockSize} :
              \A i, j \in DOMAIN s : s[i] = s[j] => i = j}

\* the calls of the peer manager and of the application
Call(th) ==
    \/ \E t \in Tx : RegisterTransaction(th, t)
    \/ \E t \in Listed : RemoveTransaction(th, t)
    \/ \E t \in allTx, ts \in Timestamps :
          height[t] = TX_UNCONFIRMED /\ UpdateTransactions(th, <<t>>, TX_UNCONFIRMED, ts)
    \/ \E s \in Blocks, h \in Heights, ts \in Timestamps \ {0} : UpdateTransactions(th, s, h, ts)
    \/ \E h \in Heights : SetTxUnconfirmedAfter(th, h)
    \/ \E c \in Chain : RequestAddrs(th, c, GapLimit[c] + ExtraGap)

\* a loop that runs under the lock
Locked == UpdateStep \/ UpdateDone \/ BalanceStep \/ BalanceDone

\* the next thing th does on its own
Continue(th) ==
    \/ RemoveDependents(th) \/ RemoveListed(th)
    \/ NewAddrs(th) \/ BalanceChanged(th)
    \/ TxAdded(th) \/ TxUpdated(th) \/ TxDeleted(th) \/ RegisterReturns(th)

Next == Locked \/ Tick \/ \E th \in Thread : Call(th) \/ Continue(th)

\* a thread inside the lock goes on, and one that waits for the lock gets it
Fairness == WF_vars(Locked) /\ \A th \in Thread : SF_vars(Continue(th))

Spec == Init /\ [][Next]_vars

FairSpec == Spec /\ Fairness

-----------------------------------------------------------------------------
(* Properties. *)

FrameOK(f) ==
    CASE f.op \in {"remove", "added", "deleted"} -> f.tx \in Tx
      [] f.op = "registered" -> f.tx \in Tx /\ f.r \in BOOLEAN
      [] f.op = "updated" -> f.txs \in SUBSET Tx
      [] f.op = "addrs" -> f.chain \in Chain
      [] f.op = "balance" -> TRUE

ListTypeOK ==
    /\ transactions \in Seq(Tx)
    /\ allTx \subseteq Tx
    /\ height \in [Tx -> Nat]
    /\ timestamp \in [Tx -> Nat]
    /\ blockHeight \in Nat
    /\ chain \in [Chain -> Nat]
    /\ now \in Nat
    /\ lock \in Thread \cup {Free}
    /\ upd \in [todo : Seq(Tx), height : Nat, timestamp : Nat, done : SUBSET Tx,
                needsUpdate : BOOLEAN]

\* Types of the wallet's fields, of the loops' locals and of the frames
\* (struct BRWalletStruct); no amount is negative, so no uint64_t wraps.
TypeOK ==
    /\ ListTypeOK
    /\ cache.utxos \subseteq Tx \X Nat
    /\ cache.spentOutputs \subseteq (Tx \cup {Foreign}) \X Nat
    /\ cache.invalidTx \subseteq Tx /\ cache.pendingTx \subseteq Tx
    /\ cache.usedPKH \subseteq Chain \X Nat
    /\ cache.totalSent \in Nat /\ cache.totalReceived \in Nat
    /\ balance \in Nat /\ shown \in Nat
    /\ bal.i \in Nat /\ bal.balance \in Nat /\ bal.prevBalance \in Nat
    /\ stored \subseteq Tx
    /\ \A th \in Thread : \A i \in 1..Len(calls[th]) : FrameOK(calls[th][i])

\* The wallet's transaction list stays sorted by block height whatever
\* registrations, confirmations, removals and reorganisations come in any order:
\* BRWalletSetTxUnconfirmedAfter and BRWalletRemoveTransaction stop their scans at
\* the first lower height and rely on it.
SortedByHeight ==
    \A i, j \in 1..Len(transactions) :
        i < j => height[transactions[i]] <= height[transactions[j]]

\* No listed transaction has been freed and none is listed twice: allTx owns every
\* object that transactions points to (BRWalletUpdateTransactions frees confirmed
\* transactions that _BRWalletContainsTx no longer recognises).
ListedAreRegistered ==
    /\ Listed \subseteq allTx
    /\ \A i, j \in 1..Len(transactions) : transactions[i] = transactions[j] => i = j

\* After a reorganisation to height h no wallet transaction stays confirmed above
\* h, and no later call confirms one above wallet->blockHeight.
ConfirmedBelowTip ==
    \A t \in Listed : height[t] # TX_UNCONFIRMED => height[t] <= blockHeight

\* Nothing but wallet transactions is listed: _BRWalletContainsTx, true when a
\* transaction was registered, stays true although allTx loses transactions.
ListedAreOurs == \A t \in Listed : ContainsTx(t)

\* An output offered for spending is not spent by a listed transaction that
\* counts: only pending and invalid ones may still spend it (wallet->utxos after
\* any sequence of confirmations, reorganisations and removals).
SpendableIsUnspent ==
    lock = Free =>
        \A o \in cache.utxos : \A t \in Listed :
            o \in Inputs[t] => t \in cache.pendingTx \cup cache.invalidTx

\* Of two listed transactions that spend the same output at most one counts,
\* unless blocks have confirmed both (wallet->invalidTx).
OneSpenderCounts ==
    lock = Free =>
        \A t, u \in Listed :
            /\ t # u
            /\ Inputs[t] \cap Inputs[u] # {}
            /\ t \notin cache.invalidTx
            /\ u \notin cache.invalidTx
            => height[t] # TX_UNCONFIRMED /\ height[u] # TX_UNCONFIRMED

\* A confirmed transaction is never left marked invalid or pending, although the
\* sets are rebuilt only when BRWalletUpdateTransactions notices the need.
ConfirmedCounts ==
    lock = Free =>
        \A t \in cache.invalidTx \cup cache.pendingTx :
            t \in Listed /\ height[t] = TX_UNCONFIRMED

\* The balance is what the spendable outputs are worth, and what was received
\* less what was sent.
BalanceAddsUp ==
    lock = Free =>
        /\ balance = SumAmounts(cache.utxos)
        /\ balance = cache.totalReceived - cache.totalSent
        /\ Len(cache.balanceHist) = Len(transactions)

\* Every listed transaction is in the wallet manager's files, or the call that
\* added it is still on its way to the txAdded callback: a restart loses nothing.
ListedIsStored ==
    \A t \in Listed : t \in stored \/
        \E th \in Thread : \E i \in 1..Len(calls[th]) : calls[th][i] = Frame("added", t)

\* Removing a transaction never leaves an unconfirmed transaction that spends it
\* in the list, also when another thread registers one during the recursion.
RemovalTakesDependents ==
    [][\A t \in Listed : t \notin Listed' =>
          ~\E u \in Listed' : t \in Parents(u) /\ height[u] >= height[t]]_vars

\* Every call returns: the recursion of BRWalletRemoveTransaction ends although it
\* gives up the lock and scans the list again.
CallsReturn == \A th \in Thread : calls[th] # <<>> ~> calls[th] = <<>>

-----------------------------------------------------------------------------
(* What comments of BRWallet.c and BRWallet.h say and the code does not do. *)

\* "balanceChanged - called when the wallet balance changes": once every call has
\* returned the last balance passed to balanceChanged is the balance.
\* The code does not have this property: see MCWallet_shown.cfg.
ShownIsBalance ==
    (lock = Free /\ \A th \in Thread : calls[th] = <<>>) => shown = balance

\* "true if transaction cannot be immediately spent": an unconfirmed transaction
\* whose lock height is above every block by more than one is pending.
\* The code does not have this property: see MCWallet_tip.cfg.
FutureLockIsPending ==
    \A t \in Listed :
        /\ height[t] = TX_UNCONFIRMED
        /\ Sequence[t] # "final"
        /\ LockTime[t] < TX_MAX_LOCK_HEIGHT
        /\ \A h \in Heights : LockTime[t] > h + 1
        => TransactionIsPending(t)

\* "current wallet balance, not including transactions known to be invalid": no
\* spendable output belongs to a transaction BRWalletTransactionIsValid rejects.
\* The code does not have this property: see MCWallet_invalid.cfg.
BalanceExcludesInvalid ==
    lock = Free => \A o \in cache.utxos : TransactionIsValid(o[1])
=============================================================================
