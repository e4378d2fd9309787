CONSTANTS
    t1 = t1
    m1 = m1
    m2 = m2
    BTC = BTC
    Taker = Taker
    Dust = 1
    Half = 8
    Assets <- MCAssets
    Offers <- MCOffers
    Deposits <- TwoDeposits
    Accepts <- MCAccepts
    Wallets <- MCWallets
    None = None
    MaxFunds = 2
    Faults = {"rival", "refund"}
SPECIFICATION Spec
INVARIANTS
    TypeOK
    BuiltTxBalanced
    SubmitsAcceptableTx
    SwapIsExact
    MakerSeesOutcome
PROPERTY
    IsAtomicSwap
CHECK_DEADLOCK FALSE
