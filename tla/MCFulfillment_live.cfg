CONSTANTS
    t1 = t1
    m1 = m1
    m2 = m2
    BTC = BTC
    Taker = Taker
    Dust = 1
    Half = 8
    Assets <- MCAssets
    Offers <- LiveOffers
    Deposits <- TwoDeposits
    Accepts <- MCAccepts
    Wallets <- LiveWallets
    None = None
    MaxFunds = 2
    Faults = {"cancel", "refund"}
SPECIFICATION FairSpec
PROPERTIES
    SolvesEnd
    AnsweredIsRecorded
    MatchedIsFulfilled
CHECK_DEADLOCK FALSE
