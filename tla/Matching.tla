------------------------------ MODULE Matching ------------------------------
(***************************************************************************)
(* The banco plugin's Match: builder's pipeline of decode and validators   *)
(* with banco's own stages (pair lookup, amount range, price tolerance     *)
(* through the price cache, BTC balance).  Solver.Run calls it for one     *)
(* transaction after the other; the pair table and the clock move while it *)
(* runs, and feed and wallet answer what they like.                        *)
(*                                                                         *)
(* Prices are exact fractions <<numerator, denominator>> where the code    *)
(* has floats.  Transactions that decode to no offer change nothing and    *)
(* are left out.                                                           *)
(***************************************************************************)
EXTENDS Pairs

CONSTANTS
    Offers,      \* [deposit, depositAmount, want, wantAmount]; "BTC" is native
    Feeds,       \* price feed URLs, trimmed
    Prices,      \* what a feed may answer
    Balances,    \* off-chain balances the wallet may have
    TTL,         \* PriceCacheTTL
    None,        \* no offer, no row
    MaxClock     \* bound: the last instant

ASSUME TTLAssumption == TTL \in Nat
ASSUME MaxClockAssumption == MaxClock \in Nat
ASSUME PricesAssumption == Prices \subseteq Nat

(* Amounts are uint64, and an asset's name is never empty.                 *)
ASSUME MatchOffersAssumption ==
    \A o \in Offers : /\ o.depositAmount \in Nat /\ o.wantAmount \in Nat
                      /\ o.want # ""
ASSUME LimitsAssumption == \A r \in PairRequests : r.min \in Nat /\ r.max \in Nat

(* A row with its assets' own decimals, an empty quote being bitcoin.      *)
RowIsRight(row) ==
    /\ row.min \in Nat /\ row.max \in Nat
    /\ row.baseDecimals \in Nat /\ row.quoteDecimals \in Nat
    /\ row.baseDecimals = AssetDecimals(Base(row.pair))
    /\ row.quoteDecimals =
         AssetDecimals(IF Quote(row.pair) = "" THEN "BTC" ELSE Quote(row.pair))

(* Rows of an earlier run are right by this module's own argument; whoever *)
(* writes rows past the service answers for their decimals.                *)
ASSUME SeedRowsAssumption == \A seed \in Seeds : \A row \in seed : RowIsRight(row)

VARIABLES
    clock,
    cache,      \* feed -> entry; an entry is [price, fetchedAt, quotedAt]
    pc,         \* where Match is
    offer,      \* the decoded offer
    pair,       \* the row found for it
    now,        \* priceCache.get's time.Now()
    price,      \* the price get returned
    stale,      \* get returned it with an error
    quotedAt,   \* history: when the feed quoted that price
    live        \* history: rows the table held since this Match began

matchVars == <<offer, pair, now, price, stale, quotedAt>>
vars == <<pairs, clock, cache, pc, offer, pair, now, price,
          stale, quotedAt, live>>

Cached(f) == f \in DOMAIN cache

Init ==
    /\ PairsInit
    /\ clock = 0
    /\ cache = <<>>
    /\ pc = "idle"
    /\ offer = None
    /\ pair = None
    /\ now = 0
    /\ price = 0
    /\ stale = FALSE
    /\ quotedAt = 0
    /\ live = {}

Goto(label) == pc' = label

-----------------------------------------------------------------------------
(* The surroundings.                                                       *)

Tick ==
    /\ clock < MaxClock
    /\ clock' = clock + 1
    /\ UNCHANGED <<pairs, cache, pc, matchVars, live>>

Configure ==
    /\ PairsStep
    /\ live' = IF pc = "idle" THEN {} ELSE live \union pairs'
    /\ UNCHANGED <<clock, cache, pc, matchVars>>

-----------------------------------------------------------------------------
(* Match.                                                                  *)

(* A transaction arrives and decodes to an offer with a deposit.           *)
Decode(o) ==
    /\ pc = "idle"
    /\ o.depositAmount > 0
    /\ offer' = o
    /\ live' = pairs
    /\ Goto("list")
    /\ UNCHANGED <<pairs, clock, cache, pair, now, price, stale, quotedAt>>

DepositAssetStr(o) == o.deposit
WantAssetStr(o) == IF o.want = "BTC" THEN "" ELSE o.want

(* Rows findMatchingPair could return; List has no order of its own.       *)
MatchingPairs(o) ==
    {row \in pairs : Base(row.pair) = DepositAssetStr(o)
                     /\ Quote(row.pair) = WantAssetStr(o)}

(* Mutant: the row found for an earlier offer is used again.               *)
FindPair_Memo ==
    /\ pc = "list"
    /\ IF pair # None /\ Base(pair.pair) = DepositAssetStr(offer)
          /\ Quote(pair.pair) = WantAssetStr(offer)
         THEN pair' = pair /\ Goto("range")
         ELSE IF MatchingPairs(offer) = {}
                THEN Goto("nopair") /\ UNCHANGED pair
                ELSE pair' \in MatchingPairs(offer) /\ Goto("range")
    /\ UNCHANGED <<pairs, clock, cache, offer, now, price, stale, quotedAt, live>>

FindPair ==
    /\ pc = "list"
    /\ IF MatchingPairs(offer) = {}
         THEN Goto("nopair") /\ UNCHANGED pair
         ELSE pair' \in MatchingPairs(offer) /\ Goto("range")
    /\ UNCHANGED <<pairs, clock, cache, offer, now, price, stale, quotedAt, live>>

(* pairs.List failed, or the wallet did not tell its balance: Match        *)
(* answers no.                                                             *)
MatchError ==
    /\ pc = "list" \/ (pc = "balance" /\ offer.want = "BTC")
    /\ Goto("skipped")
    /\ UNCHANGED <<pairs, clock, cache, matchVars, live>>

InRange(o, row) == o.wantAmount >= row.min /\ o.wantAmount <= row.max

CheckAmountInRange ==
    /\ pc = "range"
    /\ Goto(IF InRange(offer, pair) THEN "price" ELSE "skipped")
    /\ UNCHANGED <<pairs, clock, cache, matchVars, live>>

(* priceCache.get: time.Now(), then the entry under the read lock.         *)
GetPrice ==
    /\ pc = "price"
    /\ now' = clock
    /\ IF Cached(pair.feed) /\ clock - cache[pair.feed].fetchedAt < TTL
         THEN /\ price' = cache[pair.feed].price
              /\ quotedAt' = cache[pair.feed].quotedAt
              /\ stale' = FALSE
              /\ Goto("tolerance")
         ELSE Goto("fetch") /\ UNCHANGED <<price, quotedAt, stale>>
    /\ UNCHANGED <<pairs, clock, cache, offer, pair, live>>

(* Fetch answered p; the entry is stamped with the time get began.         *)
FetchOk(p) ==
    /\ pc = "fetch"
    /\ cache' = [f \in DOMAIN cache \union {pair.feed} |->
                   IF f = pair.feed
                     THEN [price |-> p, fetchedAt |-> now, quotedAt |-> clock]
                     ELSE cache[f]]
    /\ price' = p
    /\ quotedAt' = clock
    /\ stale' = FALSE
    /\ Goto("tolerance")
    /\ UNCHANGED <<pairs, clock, offer, pair, now, live>>

(* Mutant: after a failed fetch the old entry is stamped anew.             *)
FetchFail_Restamps ==
    /\ pc = "fetch"
    /\ IF Cached(pair.feed)
         THEN /\ price' = cache[pair.feed].price
              /\ quotedAt' = cache[pair.feed].quotedAt
              /\ cache' = [cache EXCEPT ![pair.feed].fetchedAt = now]
              /\ stale' = TRUE
              /\ Goto("tolerance")
         ELSE Goto("skipped") /\ UNCHANGED <<price, quotedAt, stale, cache>>
    /\ UNCHANGED <<pairs, clock, offer, pair, now, live>>

(* Fetch failed: the old entry, however old, or no price and no match.  A  *)
(* cached price of 0 counts as no price.                                   *)
FetchFail ==
    /\ pc = "fetch"
    /\ IF Cached(pair.feed) /\ cache[pair.feed].price # 0
         THEN /\ price' = cache[pair.feed].price
              /\ quotedAt' = cache[pair.feed].quotedAt
              /\ stale' = TRUE
              /\ Goto("tolerance")
         ELSE Goto("skipped") /\ UNCHANGED <<price, quotedAt, stale>>
    /\ UNCHANGED <<pairs, clock, cache, offer, pair, now, live>>

(* ComputePrice: deposit in whole units over want in whole units.          *)
ComputePrice(o, row) ==
    <<o.depositAmount * 10 ^ row.quoteDecimals, o.wantAmount * 10 ^ row.baseDecimals>>

FeedPrice(p, row) == IF row.invert THEN <<1, p>> ELSE <<p, 1>>

(* validatePrice, over fractions; 1/0 is +Inf, which nothing reaches.      *)
ValidatePrice(x, f) ==
    /\ f[2] # 0
    /\ 100 * x[1] * f[2] >= 99 * f[1] * x[2]
    /\ 100 * x[1] * f[2] <= 101 * f[1] * x[2]

CheckPriceTolerance ==
    /\ pc = "tolerance"
    /\ Goto(IF /\ offer.wantAmount > 0
               /\ ValidatePrice(ComputePrice(offer, pair), FeedPrice(price, pair))
              THEN "balance" ELSE "skipped")
    /\ UNCHANGED <<pairs, clock, cache, matchVars, live>>

(* The wallet answered with an off-chain balance of b.                     *)
CheckBTCBalance(b) ==
    /\ pc = "balance"
    /\ Goto(IF offer.want # "BTC" \/ b >= offer.wantAmount
              THEN "matched" ELSE "nobalance")
    /\ UNCHANGED <<pairs, clock, cache, matchVars, live>>

(* Match returns; the solver goes on with the next transaction.            *)
Return ==
    /\ pc \in {"matched", "skipped", "nopair", "nobalance"}
    /\ Goto("idle")
    /\ offer' = None
    /\ now' = 0 /\ price' = 0 /\ quotedAt' = 0 /\ stale' = FALSE
    /\ live' = {}
    /\ UNCHANGED <<pairs, clock, cache, pair>>

MatchStep ==
    \/ \E o \in Offers : Decode(o)
    \/ FindPair \/ MatchError \/ CheckAmountInRange
    \/ GetPrice \/ FetchFail \/ \E p \in Prices : FetchOk(p)
    \/ CheckPriceTolerance \/ \E b \in Balances : CheckBTCBalance(b)
    \/ Return

Next ==
    \/ Tick
    \/ Configure
    \/ MatchStep

Spec == Init /\ [][Next]_vars

-----------------------------------------------------------------------------
(* Properties.                                                             *)

Busy == {"range", "price", "fetch", "tolerance", "balance", "matched", "nobalance"}

(* A price that get returned without an error was quoted by its feed less  *)
(* than TTL before get was called (or while it ran), also after failed     *)
(* fetches: a failure never makes an old entry look fresh.                 *)
PriceFresh ==
    pc \in {"tolerance", "balance", "matched"} /\ ~stale =>
        quotedAt >= now \/ now - quotedAt < TTL

(* The offer's price in whole units, from the assets' own decimals.        *)
WholeUnitPrice(o) ==
    <<o.depositAmount * 10 ^ AssetDecimals(o.want),
      o.wantAmount * 10 ^ AssetDecimals(o.deposit)>>

Abs(n) == IF n < 0 THEN -n ELSE n
WithinOnePercent(x, f) == 100 * Abs(x[1] * f[2] - f[1] * x[2]) <= f[1] * x[2]

(* What Match lets through is within the row's limits, read as base units  *)
(* of the wanted asset (not as the satoshis the documentation calls them:  *)
(* LimitsAreSats), and its price, computed from the assets' real decimals, *)
(* is within one percent of the price used.                                *)
MatchMeetsPolicy ==
    pc = "matched" =>
        /\ offer.wantAmount \in pair.min..pair.max
        /\ FeedPrice(price, pair)[2] # 0
        /\ WithinOnePercent(WholeUnitPrice(offer), FeedPrice(price, pair))

(* The limits as Pair, the command line and the dashboard describe them:   *)
(* satoshis, so of an offer with bitcoin on one side the bitcoin amount.   *)
LimitsAreSats ==
    pc = "matched" /\ "BTC" \in {offer.deposit, offer.want} =>
        (IF offer.want = "BTC" THEN offer.wantAmount ELSE offer.depositAmount)
          \in pair.min..pair.max

(* Match trades under a row the table held while it ran: a pair removed or *)
(* changed before an offer arrived is not used for it.                     *)
MatchedPairWasListed == pc \in Busy => pair \in live

(* At most one row is for an offer's assets, so "the first pair" that      *)
(* matches is the only one.                                                *)
OnePairPerOffer == \A o \in Offers : Cardinality(MatchingPairs(o)) <= 1

(* An offer is skipped for want of a pair only if no row names its two     *)
(* assets, "BTC" standing for native bitcoin on either side.               *)
ConfiguredPairMatches ==
    [][pc = "list" /\ pc' = "nopair" =>
         \A row \in pairs : row.pair # <<offer.deposit, offer.want>>]_vars

=============================================================================
