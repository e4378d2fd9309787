CONSTANTS
    PairRequests <- MCPairRequests
    KnownAssets <- MCKnownAssets
    MetaDecimals <- MCMetaDecimals
    BtcDecimals = 1
    Seeds <- MCSeeds
    Offers <- MCOffers
    Feeds = {"feed"}
    Prices = {0, 1, 2}
    Balances = {5, 20}
    TTL = 2
    MaxClock = 3
    None = None
SPECIFICATION Spec
PROPERTY ConfiguredPairMatches
