-------------------------------- MODULE Pairs --------------------------------
(***************************************************************************)
(* The configured pairs: the table, and the operations of TakerService     *)
(* that the API's handlers call to change it.                              *)
(*                                                                         *)
(* A pair's name "base/quote" is the tuple of its sides as Pair.Base and   *)
(* Pair.Quote split it; a side is "" when it is missing.                   *)
(***************************************************************************)
EXTENDS Integers, FiniteSets

CONSTANTS
    PairRequests,   \* pairs a client may send: [pair, min, max, feed, invert]
    KnownAssets,    \* assets the indexer has decimals metadata for
    MetaDecimals,   \* their decimals
    BtcDecimals,    \* 8
    Seeds           \* tables the database may hold at start-up

ASSUME BtcDecimalsAssumption == BtcDecimals \in Nat
ASSUME MetaAssumption == MetaDecimals \in [KnownAssets -> Nat]

(* A table: rows whose names have two sides and are primary keys.          *)
IsTable(t) ==
    /\ \A row \in t : row.pair = <<row.pair[1], row.pair[2]>>
    /\ \A x, y \in t : x.pair = y.pair => x = y
ASSUME SeedsAssumption == \A seed \in Seeds : IsTable(seed)
ASSUME RequestsAssumption ==
    \A r \in PairRequests : r.pair = <<r.pair[1], r.pair[2]>>

VARIABLE pairs    \* the rows; the name is the primary key

Base(name) == name[1]
Quote(name) == name[2]
PairNames == {row.pair : row \in pairs}

(* assetDecimals, where the indexer has an answer.                         *)
Resolvable(side) == side = "BTC" \/ side \in KnownAssets
AssetDecimals(side) == IF side = "BTC" THEN BtcDecimals ELSE MetaDecimals[side]

(* Mutant: the decimals of the two sides are swapped.                      *)
ResolveDecimals_Swapped(r) ==
    [pair |-> r.pair, min |-> r.min, max |-> r.max, feed |-> r.feed,
     invert |-> r.invert, baseDecimals |-> AssetDecimals(Quote(r.pair)),
     quoteDecimals |-> AssetDecimals(Base(r.pair))]

ResolveDecimals(r) ==
    [pair |-> r.pair, min |-> r.min, max |-> r.max, feed |-> r.feed,
     invert |-> r.invert, baseDecimals |-> AssetDecimals(Base(r.pair)),
     quoteDecimals |-> AssetDecimals(Quote(r.pair))]

(* splitPair, resolveDecimals and validatePair let the request through.    *)
ValidPair(r) ==
    /\ Base(r.pair) # "" /\ Quote(r.pair) # ""
    /\ Resolvable(Base(r.pair)) /\ Resolvable(Quote(r.pair))
    /\ r.min > 0 /\ r.max > 0 /\ r.min <= r.max
    /\ r.feed # ""

PairsInit == pairs \in Seeds

(* Requests that are refused (an invalid pair, an indexer error, a name    *)
(* that is taken, missing or empty) change nothing.                        *)
AddPair(r) ==
    /\ ValidPair(r)
    /\ r.pair \notin PairNames
    /\ pairs' = pairs \union {ResolveDecimals(r)}

(* Mutant: an update leaves the old row in place.                          *)
UpdatePair_KeepsOld(r) ==
    /\ ValidPair(r)
    /\ r.pair \in PairNames
    /\ pairs' = pairs \union {ResolveDecimals(r)}

UpdatePair(r) ==
    /\ ValidPair(r)
    /\ r.pair \in PairNames
    /\ pairs' = {row \in pairs : row.pair # r.pair} \union {ResolveDecimals(r)}

RemovePair(name) ==
    /\ name \in PairNames
    /\ pairs' = {row \in pairs : row.pair # name}

PairsStep ==
    \/ \E r \in PairRequests : AddPair(r) \/ UpdatePair(r)
    \/ \E name \in PairNames : RemovePair(name)

PairsSpec == PairsInit /\ [][PairsStep]_pairs

=============================================================================
