---------------------------- MODULE MCFulfillment ----------------------------
(***************************************************************************)
(* Fulfillment for TLC.  Two assets A and B come from one issuance.  The   *)
(* taker holds sats, both assets and a recoverable coin, or is short of    *)
(* some of it.  Offers that want sats or A are paid without ado; one wants *)
(* B and has the script of the one that wants A; one names a swap script   *)
(* that is not its own contract; one has a P2WSH maker script; two want    *)
(* more than an int64 holds, of A and of sats (no wallet holds that many   *)
(* sats).  A deposit is big, small, or carries the asset.                  *)
(***************************************************************************)
EXTENDS Fulfillment

CONSTANTS t1, m1, m2

A == [txid |-> t1, index |-> 0]
B == [txid |-> t1, index |-> 1]
Units(a, b) == [x \in {A, B} |-> IF x = A THEN a ELSE b]

P2TR(m) == [version |-> 1, program |-> m]
P2WSH(m) == [version |-> 0, program |-> m]
Consistent(maker, want, n) ==
    LET o == [maker |-> maker, wantAsset |-> want, wantAmount |-> n]
    IN  [maker |-> maker, wantAsset |-> want, wantAmount |-> n,
         swapPkScript |-> SwapPkScript(o)]

WantsBtc == Consistent(P2TR(m1), BTC, 2)
WantsA == Consistent(P2TR(m2), A, 2)
WantsB == Consistent(P2TR(m2), B, 2)
Inconsistent == [Consistent(P2TR(m2), A, 1) EXCEPT !.swapPkScript = WantsA.swapPkScript]
ToP2WSH == Consistent(P2WSH(m1), BTC, 2)
WideA == Consistent(P2TR(m2), A, Half)
WideBtc == Consistent(P2TR(m1), BTC, 2 * Half - 1)

Big == [btc |-> 3, assets |-> Units(0, 0)]
Small == [btc |-> 1, assets |-> Units(0, 0)]
Carrier == [btc |-> 1, assets |-> Units(2, 0)]

MCAssets == {A, B}
MCOffers == {WantsBtc, WantsA, WantsB, Inconsistent, ToP2WSH, WideA, WideBtc}

LiveOffers == {WantsBtc, WantsA}
MCDeposits == {Big, Small, Carrier}
TwoDeposits == {Big, Carrier}
MCAccepts == ({WantsBtc, ToP2WSH, WideBtc} \X {Carrier})
             \union ({WantsA, WantsB, Inconsistent, WideA} \X {Big})

Coin(n, sats, a, b, r) ==
    [tx |-> 0, vout |-> n, script |-> Taker, btc |-> sats, assets |-> Units(a, b),
     recoverable |-> r]
Rich == {Coin(0, 2, 1, 1, FALSE), Coin(1, 2, Half, 0, FALSE), Coin(2, 1, 0, 0, TRUE)}
OneCoin == {Coin(0, 3, 3, 2, FALSE)}
NoAsset == {Coin(0, 2, 0, 1, FALSE)}
OnlySats == {Coin(0, 1, 0, 0, FALSE), Coin(1, 1, 0, 0, TRUE)}
Swept == {Coin(0, 3, 0, 0, TRUE)}
MCWallets == {Rich, OneCoin, NoAsset, OnlySats, Swept}
RichWallet == {Rich}
LiveWallets == {Rich, NoAsset}

=============================================================================
