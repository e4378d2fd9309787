------------------------------ MODULE FulfillTx ------------------------------
(***************************************************************************)
(* The swap contract and the transaction that fulfils it, as contract/     *)
(* offer.go and contract/taker.go compute them: what the contract asks of  *)
(* a spending transaction, and the amounts FulfillOffer puts into one.     *)
(*                                                                         *)
(* A coin (VTXO) is a record with an outpoint (tx, vout), the script it is *)
(* locked by, its sats (btc), its units of every asset (assets) and        *)
(* whether it is recoverable, that is, no longer spendable off-chain.      *)
(* An asset is the transaction that issued it (txid) and an index; a       *)
(* maker's 34-byte script is a witness version and a program.  A           *)
(* contract's script is the record of the terms its fulfill script holds.  *)
(* Amounts of offers are uint64; sats and supplies are taken to be small   *)
(* enough that no sum of coins wraps.                                      *)
(***************************************************************************)
EXTENDS Integers, FiniteSets, FiniteSetsExt

CONSTANTS
    Assets,    \* asset ids: records with a field txid
    BTC,       \* a nil WantAsset: the maker wants sats
    Dust,      \* sats carried by an output whose value is its asset (330)
    Half       \* 2^63: the first uint64 that int64 has no room for

ASSUME BTCAssumption == BTC \notin Assets /\ \A a \in Assets : a.txid # BTC
ASSUME DustAssumption == Dust \in Nat
ASSUME HalfAssumption == Half \in Nat \ {0}

Uint64 == 0..(2 * Half - 1)
Int64(n) == IF n < Half THEN n ELSE n - 2 * Half

-----------------------------------------------------------------------------
(* The contract.                                                           *)

(* Offer.VtxoScript and its taproot output.  Of the offer, the fulfill     *)
(* script holds the last 32 bytes of the maker's script, the issuance of   *)
(* the wanted asset and the amount as an int64; two offers that agree in   *)
(* these have the same script.  (The other closures are in OfferCodec.)    *)
SwapPkScript(o) ==
    [program |-> o.maker.program,
     wants |-> IF o.wantAsset = BTC THEN BTC ELSE o.wantAsset.txid,
     amount |-> Int64(o.wantAmount)]

(* Mutant: the value of output 0 is not inspected.                         *)
FulfillScript_NoAmount(terms, tx) ==
    /\ tx.makerScript.version = 1
    /\ tx.makerScript.program = terms.program
    /\ terms.wants # BTC =>
         tx.first # BTC /\ tx.first.txid = terms.wants /\ tx.maker.assets[tx.first] > 0

(* Offer.FulfillScript, run on a transaction: output 0 is a taproot output *)
(* with the maker's program and at least the amount, in sats or in units   *)
(* of the asset at index 0 of the packet, which must be of the wanted      *)
(* issuance and have units for output 0 (INSPECTOUTASSETLOOKUP found it).  *)
FulfillScript(terms, tx) ==
    /\ tx.makerScript.version = 1
    /\ tx.makerScript.program = terms.program
    /\ IF terms.wants = BTC
         THEN tx.maker.btc >= terms.amount
         ELSE /\ tx.first # BTC
              /\ tx.first.txid = terms.wants
              /\ tx.maker.assets[tx.first] > 0
              /\ tx.maker.assets[tx.first] >= terms.amount

-----------------------------------------------------------------------------
(* The fulfillment transaction.                                            *)

(* What coins carry of a unit, which is BTC or an asset.                   *)
Amount(c, unit) == IF unit = BTC THEN c.btc ELSE c.assets[unit]
Total(unit, coins) == MapThenSumSet(LAMBDA c : Amount(c, unit), coins)
TotalBtc(coins) == Total(BTC, coins)
TotalAsset(a, coins) == Total(a, coins)

(* makerBtcAmount and btcChange.                                           *)
MakerBtc(o) == IF o.wantAsset # BTC THEN Dust ELSE Int64(o.wantAmount)
BtcChange(o, mine) == TotalBtc(mine) - MakerBtc(o)

(* buildFulfillAssetPacket.  An asset some input carries has a group: what *)
(* the maker wants goes to output 0, what is left to output 1.             *)
Transfers(ins) == {a \in Assets : TotalAsset(a, ins) > 0}

ToMaker(o, a) == IF a = o.wantAsset THEN o.wantAmount ELSE 0

(* Mutant: the remainder is only returned for assets other than the        *)
(* wanted one.                                                             *)
ToTaker_NoChange(o, a, ins) ==
    IF a # o.wantAsset THEN TotalAsset(a, ins) ELSE 0

ToTaker(o, a, ins) ==
    IF TotalAsset(a, ins) > ToMaker(o, a)
      THEN TotalAsset(a, ins) - ToMaker(o, a)
      ELSE 0

(* The wanted asset is looked for only when there are asset inputs at all. *)
WantMissing(o, ins) ==
    /\ Transfers(ins) # {}
    /\ o.wantAsset # BTC
    /\ o.wantAsset \notin Transfers(ins)

(* Mutant: the groups are in map order, the wanted one not put first.      *)
FirstGroups_MapOrder(o, ins) ==
    IF Transfers(ins) = {} THEN {BTC} ELSE Transfers(ins)

(* The assets that may come first in the packet: the wanted one, or any    *)
(* (Go's map order); BTC when there is no packet.                          *)
FirstGroups(o, ins) ==
    CASE Transfers(ins) = {} -> {BTC}
      [] o.wantAsset \in Transfers(ins) -> {o.wantAsset}
      [] OTHER -> Transfers(ins)

(* Mutant: the taker output carries only the change, not the swapped sats. *)
TakerOutput_NoSwap(o, swap, mine) ==
    [btc |-> BtcChange(o, mine),
     assets |-> [a \in Assets |->
        IF a \in Transfers({swap} \union mine)
          THEN ToTaker(o, a, {swap} \union mine) ELSE 0]]

TakerOutput(o, swap, mine) ==
    [btc |-> swap.btc + BtcChange(o, mine),
     assets |-> [a \in Assets |->
        IF a \in Transfers({swap} \union mine)
          THEN ToTaker(o, a, {swap} \union mine) ELSE 0]]

MakerOutput(o, swap, mine) ==
    [btc |-> MakerBtc(o),
     assets |-> [a \in Assets |->
        IF a \in Transfers({swap} \union mine) THEN ToMaker(o, a) ELSE 0]]

(* The errors of the computation, in one predicate.                        *)
CanBuild(o, swap, mine) ==
    /\ BtcChange(o, mine) >= 0
    /\ ~WantMissing(o, {swap} \union mine)

(* Output 0 has the maker's script as the offer gives it, whatever its     *)
(* version.                                                                *)
FulfillmentTx(o, swap, mine, first) ==
    [swap |-> swap, mine |-> mine, first |-> first,
     revealed |-> SwapPkScript(o), makerScript |-> o.maker,
     maker |-> MakerOutput(o, swap, mine),
     taker |-> TakerOutput(o, swap, mine)]

(* External: arkd lets a transaction move value, never create it, and no   *)
(* output has a negative value.                                            *)
CreatesNothing(tx) ==
    LET ins == {tx.swap} \union tx.mine
    IN  /\ tx.maker.btc >= 0 /\ tx.taker.btc >= 0
        /\ tx.maker.btc + tx.taker.btc <= TotalBtc(ins)
        /\ \A a \in Assets :
              tx.maker.assets[a] + tx.taker.assets[a] <= TotalAsset(a, ins)

=============================================================================
