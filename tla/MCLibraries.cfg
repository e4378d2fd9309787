CONSTANTS
    Max64 = 8
    Max32 = 4
    Malformed = Malformed
    ShortScript = ShortScript
    OtherScript = OtherScript
    None = None
    Nil = Nil
    Unset = Unset
    Uint64 = 8
    Params <- MCParams
    IntroKeys <- MCIntroKeys
    MakerScripts <- MCMakerScripts
    Signers <- MCSigners
    OwnOffers <- MCOwnOffers
    Fields <- MCFields
    Filters = {"f", "g"}
    Decoders = {"d"}
    Validators = {"v", "w"}
    Solvers = {"s"}
    BuilderTxs <- MCBuilderTxs
    MaxCalls = 5
    MaxMatches = 1
    Txs <- MCTxs
    OutputOpts <- MCOutputOpts
    InputOpts <- MCInputOpts
    Leaves <- MCLeaves
    MaxSteps = 5
SPECIFICATION LibrariesSpec
CHECK_DEADLOCK FALSE
INVARIANTS
    CreatedOfferArrives
    ConsistentPinsTerms
    ReencodesToSame
    PluginsRunAsBuilt
    
