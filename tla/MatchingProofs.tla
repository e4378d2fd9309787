--------------------------- MODULE MatchingProofs ---------------------------
(***************************************************************************)
(* Theorems about Matching, for every set of offers, pairs, feeds and      *)
(* prices, every TTL and every length of run.                              *)
(***************************************************************************)
EXTENDS Matching, FiniteSetTheorems, TLAPS

(* An entry is stamped no later than its price was quoted: get takes the   *)
(* time before it asks the feed.                                           *)
CacheStamps ==
    /\ clock \in Nat
    /\ now \in Nat /\ now <= clock
    /\ \A f \in DOMAIN cache :
          /\ cache[f].fetchedAt \in Nat
          /\ cache[f].quotedAt \in Nat
          /\ cache[f].fetchedAt <= cache[f].quotedAt

(* The price in hand: Match has one from get's return on.                  *)
FreshInv == CacheStamps /\ quotedAt \in Nat /\ PriceFresh

(* While Match runs, the rows of the table are among the rows it could     *)
(* have seen.                                                              *)
ListedInv ==
    /\ pc # "idle" => pairs \subseteq live
    /\ MatchedPairWasListed

(* What each stage of Match has established when the next one begins.      *)
InPrice == {"price", "fetch", "tolerance", "balance", "matched", "nobalance"}
PolicyInv ==
    /\ \A row \in pairs : RowIsRight(row)
    /\ \A f \in DOMAIN cache : cache[f].price \in Nat
    /\ pc # "idle" => offer \in Offers
    /\ pc \in Busy => /\ RowIsRight(pair)
                     /\ Base(pair.pair) = DepositAssetStr(offer)
                     /\ Quote(pair.pair) = WantAssetStr(offer)
    /\ pc \in InPrice => InRange(offer, pair)
    /\ pc \in {"tolerance", "balance", "matched"} => price \in Nat
    /\ pc \in {"balance", "matched"} =>
          ValidatePrice(ComputePrice(offer, pair), FeedPrice(price, pair))

-----------------------------------------------------------------------------
LEMMA CacheStampsStep == CacheStamps /\ [Next]_vars => CacheStamps'
<1> SUFFICES ASSUME CacheStamps, [Next]_vars PROVE CacheStamps'
  OBVIOUS
<1> USE MaxClockAssumption DEF CacheStamps
<1>1. CASE Tick
  BY <1>1 DEF Tick, matchVars
<1>2. CASE GetPrice
  BY <1>2 DEF GetPrice
<1>3. ASSUME NEW p \in Prices, FetchOk(p) PROVE CacheStamps'
  <2>1. DOMAIN cache' = DOMAIN cache \union {pair.feed}
    BY <1>3 DEF FetchOk
  <2>2. ASSUME NEW f \in DOMAIN cache'
        PROVE  cache'[f] = IF f = pair.feed
                             THEN [price |-> p, fetchedAt |-> now, quotedAt |-> clock]
                             ELSE cache[f]
    BY <1>3, <2>1, <2>2 DEF FetchOk
  <2>3. UNCHANGED <<clock, now>>
    BY <1>3 DEF FetchOk
  <2> QED
    BY <2>1, <2>2, <2>3
<1>4. CASE Return
  BY <1>4 DEF Return
<1>5. CASE UNCHANGED <<clock, cache, now>>
  BY <1>5
<1> QED
  BY <1>1, <1>2, <1>3, <1>4, <1>5
  DEF Next, vars, Configure, MatchStep, matchVars, Decode, FindPair, MatchError,
      CheckAmountInRange, FetchFail, CheckPriceTolerance, CheckBTCBalance

LEMMA FreshStep == FreshInv /\ [Next]_vars => FreshInv'
<1> SUFFICES ASSUME FreshInv, [Next]_vars PROVE (quotedAt \in Nat /\ PriceFresh)'
  BY CacheStampsStep DEF FreshInv
<1> USE TTLAssumption DEF FreshInv, CacheStamps, PriceFresh, Goto
<1>1. CASE GetPrice
  <2>1. CASE pc' = "fetch"
    BY <1>1, <2>1 DEF GetPrice
  <2>2. CASE pc' # "fetch"
    <3>1. pair.feed \in DOMAIN cache /\ clock - cache[pair.feed].fetchedAt < TTL
          /\ quotedAt' = cache[pair.feed].quotedAt /\ now' = clock
      BY <1>1, <2>2 DEF GetPrice, Cached
    <3> QED
      BY <3>1
  <2> QED
    BY <2>1, <2>2
<1>2. ASSUME NEW p \in Prices, FetchOk(p) PROVE (quotedAt \in Nat /\ PriceFresh)'
  <2>1. quotedAt' = clock /\ now' = now
    BY <1>2 DEF FetchOk
  <2> QED
    BY <2>1
<1>3. CASE FetchFail
  <2>1. quotedAt' \in Nat
    BY <1>3 DEF FetchFail, Cached
  <2>2. stale' \/ pc' = "skipped"
    BY <1>3 DEF FetchFail
  <2> QED
    BY <2>1, <2>2
<1>4. CASE Return
  BY <1>4 DEF Return
<1>5. CASE UNCHANGED <<quotedAt, now, stale>>
           /\ (pc' \in {"tolerance", "balance", "matched"}
                 => pc \in {"tolerance", "balance", "matched"})
  BY <1>5
<1> QED
  BY <1>1, <1>2, <1>3, <1>4, <1>5
  DEF Next, vars, Tick, Configure, MatchStep, matchVars, Decode, FindPair, MatchError,
      CheckAmountInRange, CheckPriceTolerance, CheckBTCBalance

LEMMA ListedStep == ListedInv /\ [Next]_vars => ListedInv'
<1> SUFFICES ASSUME ListedInv, [Next]_vars PROVE ListedInv'
  OBVIOUS
<1> USE DEF ListedInv, MatchedPairWasListed, Busy, Goto
<1>1. CASE Configure
  BY <1>1 DEF Configure, matchVars
<1>2. CASE FindPair
  BY <1>2 DEF FindPair, MatchingPairs
<1>3. ASSUME NEW o \in Offers, Decode(o) PROVE ListedInv'
  BY <1>3 DEF Decode
<1>4. CASE Return
  BY <1>4 DEF Return
<1>5. CASE UNCHANGED <<pairs, pair, live>> /\ (pc # "idle" <=> pc' # "idle")
           /\ (pc' \in Busy => pc \in Busy)
  BY <1>5
<1> QED
  BY <1>1, <1>2, <1>3, <1>4, <1>5
  DEF Next, vars, Tick, MatchStep, matchVars, MatchError, CheckAmountInRange, GetPrice,
      FetchFail, FetchOk, CheckPriceTolerance, CheckBTCBalance

(* The operations of TakerService keep names unique.                       *)
LEMMA TableStep == IsTable(pairs) /\ [Next]_vars => IsTable(pairs')
<1> SUFFICES ASSUME IsTable(pairs), [Next]_vars PROVE IsTable(pairs')
  OBVIOUS
<1> USE DEF IsTable
<1>1. ASSUME NEW r \in PairRequests, AddPair(r) PROVE IsTable(pairs')
  <2>1. ResolveDecimals(r).pair = r.pair
    BY DEF ResolveDecimals
  <2>2. pairs' = pairs \union {ResolveDecimals(r)} /\ \A row \in pairs : row.pair # r.pair
    BY <1>1 DEF AddPair, PairNames
  <2> QED
    BY <2>1, <2>2, RequestsAssumption
<1>2. ASSUME NEW r \in PairRequests, UpdatePair(r) PROVE IsTable(pairs')
  <2>1. ResolveDecimals(r).pair = r.pair
    BY DEF ResolveDecimals
  <2>2. pairs' = {row \in pairs : row.pair # r.pair} \union {ResolveDecimals(r)}
    BY <1>2 DEF UpdatePair
  <2> QED
    BY <2>1, <2>2, RequestsAssumption
<1>3. ASSUME NEW name \in PairNames, RemovePair(name) PROVE IsTable(pairs')
  BY <1>3 DEF RemovePair
<1>4. CASE UNCHANGED pairs
  BY <1>4
<1> QED
  BY <1>1, <1>2, <1>3, <1>4
  DEF Next, vars, Tick, Configure, PairsStep, MatchStep, matchVars, Decode, FindPair,
      MatchError, CheckAmountInRange, GetPrice, FetchFail, FetchOk,
      CheckPriceTolerance, CheckBTCBalance, Return

(* Two rows for the assets of one offer have one name.                     *)
LEMMA TableHasOneRow == IsTable(pairs) => OnePairPerOffer
<1> SUFFICES ASSUME IsTable(pairs), NEW o \in Offers
             PROVE  Cardinality(MatchingPairs(o)) <= 1
  BY DEF OnePairPerOffer
<1>1. ASSUME NEW x \in MatchingPairs(o), NEW y \in MatchingPairs(o) PROVE x = y
  <2>1. x \in pairs /\ y \in pairs /\ x.pair[1] = y.pair[1] /\ x.pair[2] = y.pair[2]
    BY DEF MatchingPairs, Base, Quote
  <2>2. x.pair = y.pair
    BY <2>1 DEF IsTable
  <2> QED
    BY <2>1, <2>2 DEF IsTable
<1>2. CASE MatchingPairs(o) = {}
  BY <1>2, FS_EmptySet
<1>3. CASE \E x : x \in MatchingPairs(o)
  <2>1. PICK x : x \in MatchingPairs(o)
    BY <1>3
  <2>2. MatchingPairs(o) = {x}
    BY <1>1, <2>1
  <2>3. Cardinality({x}) = 1
    BY FS_Singleton
  <2> QED
    BY <2>2, <2>3
<1> QED
  BY <1>2, <1>3

(* TakerService stores a pair with the decimals of its assets.             *)
LEMMA ResolvedRowIsRight ==
    ASSUME NEW r \in PairRequests, ValidPair(r)
    PROVE  RowIsRight(ResolveDecimals(r))
<1>1. ASSUME NEW side, Resolvable(side) PROVE AssetDecimals(side) \in Nat
  BY <1>1, BtcDecimalsAssumption, MetaAssumption DEF Resolvable, AssetDecimals
<1>2. /\ AssetDecimals(Base(r.pair)) \in Nat /\ AssetDecimals(Quote(r.pair)) \in Nat
      /\ Quote(r.pair) # ""
  BY <1>1 DEF ValidPair
<1>3. r.min \in Nat /\ r.max \in Nat
  BY LimitsAssumption
<1>4. LET row == ResolveDecimals(r)
      IN  /\ row.pair = r.pair /\ row.min = r.min /\ row.max = r.max
          /\ row.baseDecimals = AssetDecimals(Base(r.pair))
          /\ row.quoteDecimals = AssetDecimals(Quote(r.pair))
  BY DEF ResolveDecimals
<1> QED
  BY <1>2, <1>3, <1>4 DEF RowIsRight

LEMMA RowsStayRight ==
    ASSUME \A row \in pairs : RowIsRight(row), PairsStep
    PROVE  \A row \in pairs' : RowIsRight(row)
<1>1. ASSUME NEW r \in PairRequests, AddPair(r) \/ UpdatePair(r)
      PROVE  \A row \in pairs' : RowIsRight(row)
  <2>1. pairs' \subseteq pairs \union {ResolveDecimals(r)} /\ ValidPair(r)
    BY <1>1 DEF AddPair, UpdatePair
  <2> QED
    BY <2>1, ResolvedRowIsRight
<1>2. ASSUME NEW name \in PairNames, RemovePair(name)
      PROVE  \A row \in pairs' : RowIsRight(row)
  BY <1>2 DEF RemovePair
<1> QED
  BY <1>1, <1>2 DEF PairsStep

LEMMA PolicyStep == PolicyInv /\ [Next]_vars => PolicyInv'
<1> SUFFICES ASSUME PolicyInv, [Next]_vars PROVE PolicyInv'
  OBVIOUS
<1> USE DEF PolicyInv, Busy, InPrice, Goto
<1>1. CASE Configure
  <2>1. \A row \in pairs' : RowIsRight(row)
    BY <1>1, RowsStayRight DEF Configure
  <2> QED
    BY <1>1, <2>1 DEF Configure, matchVars
<1>2. ASSUME NEW o \in Offers, Decode(o) PROVE PolicyInv'
  BY <1>2 DEF Decode
<1>3. CASE FindPair
  BY <1>3 DEF FindPair, MatchingPairs
<1>4. CASE CheckAmountInRange
  BY <1>4 DEF CheckAmountInRange, matchVars
<1>5. CASE GetPrice
  BY <1>5 DEF GetPrice, Cached
<1>6. CASE FetchFail
  BY <1>6 DEF FetchFail, Cached
<1>7. ASSUME NEW p \in Prices, FetchOk(p) PROVE PolicyInv'
  <2>1. p \in Nat
    BY PricesAssumption
  <2>2. ASSUME NEW f \in DOMAIN cache' PROVE cache'[f].price \in Nat
    BY <1>7, <2>1 DEF FetchOk
  <2> QED
    BY <1>7, <2>1, <2>2 DEF FetchOk
<1>8. CASE CheckPriceTolerance
  BY <1>8 DEF CheckPriceTolerance, matchVars
<1>9. ASSUME NEW b \in Balances, CheckBTCBalance(b) PROVE PolicyInv'
  BY <1>9 DEF CheckBTCBalance, matchVars
<1>10. CASE MatchError \/ Tick \/ UNCHANGED vars
  BY <1>10 DEF MatchError, Tick, vars, matchVars
<1>11. CASE Return
  BY <1>11 DEF Return
<1> QED
  BY <1>1, <1>2, <1>3, <1>4, <1>5, <1>6, <1>7, <1>8, <1>9, <1>10, <1>11
  DEF Next, MatchStep

(* A matched offer's price by its row is its price in whole units.         *)
LEMMA PolicyMet == PolicyInv => MatchMeetsPolicy
<1> SUFFICES ASSUME PolicyInv, pc = "matched"
             PROVE  /\ offer.wantAmount \in pair.min..pair.max
                    /\ FeedPrice(price, pair)[2] # 0
                    /\ WithinOnePercent(WholeUnitPrice(offer), FeedPrice(price, pair))
  BY DEF MatchMeetsPolicy
<1>1. /\ offer \in Offers /\ RowIsRight(pair) /\ price \in Nat
      /\ Base(pair.pair) = DepositAssetStr(offer)
      /\ Quote(pair.pair) = WantAssetStr(offer)
      /\ InRange(offer, pair)
      /\ ValidatePrice(ComputePrice(offer, pair), FeedPrice(price, pair))
  BY DEF PolicyInv, Busy, InPrice
<1>2. offer.depositAmount \in Nat /\ offer.wantAmount \in Nat /\ offer.want # ""
  BY <1>1, MatchOffersAssumption
<1>3. offer.wantAmount \in pair.min..pair.max
  <2>1. PICK w \in Nat, lo \in Nat, hi \in Nat :
            w = offer.wantAmount /\ lo = pair.min /\ hi = pair.max
    BY <1>1, <1>2 DEF RowIsRight
  <2>2. w >= lo /\ w <= hi
    BY <1>1, <2>1 DEF InRange
  <2>3. w \in lo..hi
    BY <2>2
  <2> QED
    BY <2>1, <2>3
<1>4. ComputePrice(offer, pair) = WholeUnitPrice(offer)
  <2>1. pair.baseDecimals = AssetDecimals(offer.deposit)
    BY <1>1 DEF RowIsRight, DepositAssetStr
  <2>2. pair.quoteDecimals = AssetDecimals(offer.want)
    BY <1>1, <1>2 DEF RowIsRight, WantAssetStr
  <2> QED
    BY <2>1, <2>2 DEF ComputePrice, WholeUnitPrice
<1>5. PICK x1 \in Int, x2 \in Int : ComputePrice(offer, pair) = <<x1, x2>>
  <2>1. PICK d \in Nat, w \in Nat, b \in Nat, q \in Nat :
            /\ d = offer.depositAmount /\ w = offer.wantAmount
            /\ b = pair.baseDecimals /\ q = pair.quoteDecimals
    BY <1>1, <1>2 DEF RowIsRight
  <2>2. d * 10 ^ q \in Int /\ w * 10 ^ b \in Int
    OBVIOUS
  <2> QED
    BY <2>1, <2>2 DEF ComputePrice
<1>6. PICK f1 \in Int, f2 \in Int : FeedPrice(price, pair) = <<f1, f2>>
  BY <1>1 DEF FeedPrice
<1>7. f2 # 0 /\ 100 * x1 * f2 >= 99 * f1 * x2 /\ 100 * x1 * f2 <= 101 * f1 * x2
  BY <1>1, <1>5, <1>6 DEF ValidatePrice
<1>8. WithinOnePercent(<<x1, x2>>, <<f1, f2>>)
  BY <1>7 DEF WithinOnePercent, Abs
<1> QED
  BY <1>3, <1>4, <1>5, <1>6, <1>7, <1>8

-----------------------------------------------------------------------------
(* priceCache.get never passes an old price off as fresh.                  *)
THEOREM CachedPriceIsFresh == Spec => []PriceFresh
<1>1. Init => FreshInv
  BY DEF Init, FreshInv, CacheStamps, PriceFresh
<1>2. FreshInv => PriceFresh
  BY DEF FreshInv
<1> QED
  BY <1>1, <1>2, FreshStep, PTL DEF Spec

(* Match uses a row the table held while it ran.                           *)
THEOREM MatchUsesListedPair == Spec => []MatchedPairWasListed
<1>1. Init => ListedInv
  BY DEF Init, ListedInv, MatchedPairWasListed, Busy
<1>2. ListedInv => MatchedPairWasListed
  BY DEF ListedInv
<1> QED
  BY <1>1, <1>2, ListedStep, PTL DEF Spec

(* Whatever the API is asked to do, findMatchingPair has at most one row   *)
(* to return.                                                              *)
THEOREM OfferHasOnePair == Spec => []OnePairPerOffer
<1>1. Init => IsTable(pairs)
  BY SeedsAssumption DEF Init, PairsInit
<1>2. IsTable(pairs)' <=> IsTable(pairs')
  BY DEF IsTable
<1> QED
  BY <1>1, <1>2, TableStep, TableHasOneRow, PTL DEF Spec

(* Whatever pairs are configured while Match runs, and whatever the feed   *)
(* answers, an offer passes the builder's validators only within its       *)
(* row's limits and at a price, in whole units by the assets' decimals,    *)
(* within one percent of the one used.                                     *)
THEOREM MatchedMeetsPolicy == Spec => []MatchMeetsPolicy
<1>1. Init => PolicyInv
  BY SeedRowsAssumption DEF Init, PairsInit, PolicyInv, Busy, InPrice
<1> QED
  BY <1>1, PolicyStep, PolicyMet, PTL DEF Spec

=============================================================================
