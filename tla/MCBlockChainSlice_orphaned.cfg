SPECIFICATION Spec
CONSTANTS
    g = g
    p = p
    a2 = a2
    a3 = a3
    a4 = a4
    b3 = b3
    t1 = t1
    Block <- MCBlock
    NoBlock = NoBlock
    Genesis = g
    Partial = {}
    Parent <- MCParent
    Number <- MCNumber
    Preference <- MCPreference
    Tx = {t1}
    TxOf <- MCTxOf
    NeedsReceipts = {b3}
    NeedsProof = {a3}
    OrphanAge = 1
    SaveCount = 1
    ReorgLimit = 2
    RequestMax = 1
    First = {a2}
    Idle = Idle
    Cut = Cut
    Budgets <- SliceBudgets
INVARIANT OrphanedIsPending
CHECK_DEADLOCK FALSE
