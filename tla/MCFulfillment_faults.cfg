CONSTANTS
    t1 = t1
    m1 = m1
    m2 = m2
    BTC = BTC
    Taker = Taker
    Dust = 1
    Half = 8
    Assets <- MCAssets
    Offers <- MCOffers
    Deposits <- MCDeposits
    Accepts <- MCAccepts
    Wallets <- RichWallet
    None = None
    MaxFunds = 2
    Faults = {"rpc", "reply", "db", "crash", "cancel", "expire"}
SPECIFICATION Spec
INVARIANT
    RowsBacked
CHECK_DEADLOCK FALSE
