------------------------- MODULE FulfillmentProofs -------------------------
(***************************************************************************)
(* Theorems about Fulfillment, for any offers, deposits, wallets, number   *)
(* of concurrent solves and choice of faults.                              *)
(*                                                                         *)
(* One inductive invariant carries all of them.  Its heart is Built: what  *)
(* a solve submits is, field by field, what FulfillOffer computes from the *)
(* offer, the coin at its contract and the taker's coins.  What those      *)
(* amounts are needs sums over sets of coins, whose laws come first.       *)
(***************************************************************************)
EXTENDS Fulfillment, FiniteSetTheorems, WellFoundedInduction, TLAPS

(* Coins as the taker and the makers hold them.                            *)
Scripts == {Taker} \union {o.swapPkScript : o \in Offers}
Coins == [tx : Nat, vout : Nat, script : Scripts, btc : Nat,
          assets : [Assets -> Nat], recoverable : BOOLEAN]
TakerCoins(coins) ==
    /\ coins \subseteq Coins
    /\ IsFiniteSet(coins)
    /\ \A c \in coins : c.script = Taker

(* What BuildTx makes of an offer: every field follows from the offer, the *)
(* coin at its contract and the taker's coins.                             *)
Built(o, t) ==
    /\ t = FulfillmentTx(o, t.swap, t.mine, t.first)
    /\ t.swap \in Coins
    /\ t.swap.script = SwapPkScript(o)
    /\ TakerCoins(t.mine)
    /\ CanBuild(o, t.swap, t.mine)
    /\ t.first \in FirstGroups(o, {t.swap} \union t.mine)

-----------------------------------------------------------------------------
(* The inductive invariant, in five parts.                                 *)

LedgerInv ==
    /\ nextTx \in Nat \ {0}
    /\ utxo \subseteq Coins
    /\ IsFiniteSet(utxo)
    /\ \A c \in utxo : c.tx \in TxIds
    /\ refunded \subseteq TxIds

FlagInv == cancelled \in BOOLEAN /\ crashed \in BOOLEAN

Funds == [offer : Offers, deposit : Deposits, txid : Nat]
FundInv ==
    /\ fund \in Seq(Funds)
    /\ Len(fund) <= MaxFunds
    /\ \A i \in 1..Len(fund) : 0 < fund[i].txid /\ fund[i].txid < nextTx
    /\ \A i, k \in 1..Len(fund) : fund[i].txid = fund[k].txid => i = k

PastConfig == {"swap", "wallet", "build", "submit", "reply", "notify"}
PastSwap == PastConfig \ {"swap"}
PastWallet == PastSwap \ {"wallet"}
PastBuild == PastWallet \ {"build"}

(* What a solve at a label has found out about its offer.                  *)
Known(label, o, coin, coins, t) ==
    /\ label \in PastConfig \union {"config"} => o.wantAmount > 0
    /\ label \in PastConfig => o.swapPkScript = SwapPkScript(o)
    /\ label \in PastSwap =>
         coin \in Coins /\ coin.tx \in TxIds /\ coin.script = SwapPkScript(o)
    /\ label \in PastWallet => coins # {}
    /\ label \in PastBuild => Built(o, t)

(* An answer is Refused, or names a fulfillment by the solve that waited.  *)
Answered(s) ==
    /\ arkTxid[s] # 0 /\ arkTxid[s] # Refused =>
         \E e \in settled : e.by = s /\ e.id = arkTxid[s]
    /\ pc[s] = "notify" => arkTxid[s] # 0 /\ arkTxid[s] # Refused

SolveOk(s) ==
    /\ pc[s] = "idle" <=> s > Len(fund)
    /\ TakerCoins(mine[s])
    /\ \A c \in mine[s] : c.tx \in TxIds
    /\ Known(pc[s], Offer(s), swapIn[s], mine[s], tx[s])
    /\ arkTxid[s] \in TxIds \union {Refused}
    /\ Answered(s)

SolveInv ==
    /\ pc \in [Solves -> PcLabels]
    /\ DOMAIN swapIn = Solves /\ DOMAIN tx = Solves
    /\ DOMAIN mine = Solves /\ DOMAIN arkTxid = Solves
    /\ \A s \in Solves : SolveOk(s)

(* What is on its way and what is on the ledger was built for an offer     *)
(* seen; of the ledger's, the contract and arkd approved.                  *)
WireOk(w) == w.by \in 1..Len(fund) /\ Built(Offer(w.by), w.tx)

Approved(o, t) ==
    /\ Built(o, t)
    /\ FulfillScript(SwapPkScript(o), t)
    /\ CreatesNothing(t)
EntryOk(e) ==
    /\ e.id \in 1..(nextTx - 1)
    /\ e.by \in 0..Len(fund)
    /\ e.tx.swap.tx \in TxIds
    /\ e.by # 0 => Approved(Offer(e.by), e.tx)

SentInv ==
    /\ \A w \in wire : WireOk(w)
    /\ \A e \in settled : EntryOk(e)
    /\ \A e, f \in settled : e.id = f.id => e = f

(* A row is one of a solve that is over, about its answer.                 *)
RowOf(r, s) ==
    /\ pc[s] = "over"
    /\ r.pay = Offer(s).wantAsset
    /\ r.amount = Offer(s).wantAmount
    /\ r.offerTxid = fund[s].txid
    /\ \E e \in settled : e.by = s /\ e.id = r.fulfillTxid

Rows == [pay : Assets \union {BTC}, amount : Nat, deposit : Deposits,
         offerTxid : Nat, fulfillTxid : Nat]
RowsInv ==
    /\ trades \in Seq(Rows)
    /\ \A i \in 1..Len(trades) : \E s \in 1..Len(fund) : RowOf(trades[i], s)
    /\ \A i, k \in 1..Len(trades) :
          trades[i].offerTxid = trades[k].offerTxid
            \/ trades[i].fulfillTxid = trades[k].fulfillTxid => i = k

(* The coin a funding transaction makes; only these are not the taker's,   *)
(* and one is unspent until it is either swapped or taken back.            *)
FundCoin(i) ==
    [tx |-> fund[i].txid, vout |-> 0, script |-> fund[i].offer.swapPkScript,
     btc |-> fund[i].deposit.btc, assets |-> fund[i].deposit.assets,
     recoverable |-> FALSE]
Closed(i) == SwapOf(i) # {} \/ fund[i].txid \in refunded
Twice(i) == SwapOf(i) # {} /\ fund[i].txid \in refunded

DepositInv ==
    /\ \A c \in utxo : c.script # Taker => \E i \in 1..Len(fund) : c = FundCoin(i)
    /\ \A c \in utxo : c.script = Taker => \A i \in 1..Len(fund) : c.tx # fund[i].txid
    /\ \A i \in 1..Len(fund) : FundCoin(i) \in utxo <=> ~Closed(i)
    /\ \A i \in 1..Len(fund) : ~Twice(i)

IndInv ==
    /\ LedgerInv /\ FlagInv /\ FundInv /\ SolveInv /\ SentInv /\ RowsInv
    /\ DepositInv

-----------------------------------------------------------------------------
(* Sums over finite sets of coins.  Total is defined by a recursive        *)
(* function over the subsets of a set; that such a function exists is      *)
(* shown by induction on the size of the subsets, and its laws by looking  *)
(* at a smallest subset that would break them.                             *)

Some(s) == CHOOSE x \in s : TRUE
Part(u, s, g) == IF s = {} THEN 0 ELSE Amount(Some(s), u) + g[s \ {Some(s)}]
IsSum(u, S, g) == g = [s \in SUBSET S |-> Part(u, s, g)]

LEMMA TotalIsChoice ==
  ASSUME NEW u, NEW S
  PROVE Total(u, S) = (CHOOSE g : IsSum(u, S, g))[S]
  BY DEF Total, MapThenSumSet, MapThenFoldSet, IsSum, Some, Part

LEMMA SomeIn ==
  ASSUME NEW s, s # {}
  PROVE  Some(s) \in s
  BY DEF Some

LEMMA SumExists ==
  ASSUME NEW u, NEW S, IsFiniteSet(S)
  PROVE  \E g : IsSum(u, S, g)
<1> DEFINE Small(n) == {s \in SUBSET S : Cardinality(s) < n}
<1> DEFINE Good(n) == \E g : g = [s \in Small(n) |-> Part(u, s, g)]
<1> DEFINE Bad == {n \in Nat : ~Good(n)}
<1>1. \A s \in SUBSET S : IsFiniteSet(s) /\ Cardinality(s) \in Nat
  BY FS_Subset, FS_CardinalityType
<1>2. Good(0)
  <2>1. Small(0) = {}
    BY <1>1
  <2>2. \A g : [s \in {} |-> Part(u, s, g)] = [s \in {} |-> 0]
    OBVIOUS
  <2> QED
    BY <2>1, <2>2
<1>3. ASSUME NEW n \in Nat, Good(n) PROVE Good(n + 1)
  <2>1. PICK g : g = [s \in Small(n) |-> Part(u, s, g)]
    BY <1>3
  <2> DEFINE h == [s \in Small(n + 1) |-> Part(u, s, g)]
  <2>2. ASSUME NEW s \in Small(n + 1), s # {} PROVE s \ {Some(s)} \in Small(n)
    BY <1>1, <2>2, SomeIn, FS_RemoveElement
  <2>3. ASSUME NEW s \in Small(n) PROVE s \in Small(n + 1) /\ h[s] = g[s]
    <3>1. s \in Small(n + 1)
      BY <1>1
    <3>2. g[s] = Part(u, s, g)
      <4> HIDE DEF Small
      <4> QED BY <2>1
    <3> HIDE DEF Small
    <3> QED
      BY <3>1, <3>2
  <2>4. ASSUME NEW s \in Small(n + 1) PROVE Part(u, s, g) = Part(u, s, h)
    <3> HIDE DEF Small, h
    <3> QED
     BY <2>2, <2>3 DEF Part
  <2>5. h = [s \in Small(n + 1) |-> Part(u, s, h)]
    <3> HIDE DEF Small
    <3>1. h = [s \in Small(n + 1) |-> Part(u, s, g)]
      OBVIOUS
    <3> HIDE DEF h
    <3> QED
      BY <2>4, <3>1
  <2> HIDE DEF h
  <2> QED
    BY <2>5
<1> HIDE DEF Good
<1>4. Bad = {}
  <2> SUFFICES ASSUME Bad # {} PROVE FALSE
    OBVIOUS
  <2>1. PICK n \in Bad : \A m \in Bad : ~(m < n)
    <3>1. IsWellFoundedOn(OpToRel(<, Nat), Nat)
      BY NatLessThanWellFounded
    <3>2. PICK n \in Bad : \A m \in Bad : <<m, n>> \notin OpToRel(<, Nat)
      BY <3>1, WFMin
    <3> QED
      BY <3>2 DEF OpToRel
  <2>2. n # 0
    BY <1>2
  <2>3. n - 1 \in Nat /\ n - 1 \notin Bad
    BY <2>1, <2>2
  <2> QED
    BY <1>3, <2>3
<1>5. Good(Cardinality(S) + 1)
  BY <1>1, <1>4
<1>6. Small(Cardinality(S) + 1) = SUBSET S
  BY <1>1, FS_Subset
<1> QED
  BY <1>5, <1>6 DEF Good, IsSum

LEMMA MinimalSubset ==
  ASSUME NEW S, IsFiniteSet(S), NEW T \in SUBSET SUBSET S, T # {}
  PROVE  \E A \in T : \A B \in T : B \subseteq A => B = A
<1>1. IsWellFoundedOn(StrictSubsetOrdering(S), SUBSET S)
  BY FS_StrictSubsetOrderingWellFounded, FS_FiniteSubsetsOfFinite
<1>2. PICK A \in T : \A B \in T : <<B, A>> \notin StrictSubsetOrdering(S)
  BY <1>1, WFMin
<1> QED
  BY <1>2 DEF StrictSubsetOrdering

LEMMA SumIsTotal ==
  ASSUME NEW u, NEW S, IsFiniteSet(S), NEW g, IsSum(u, S, g), NEW A \in SUBSET S
  PROVE  g[A] = Total(u, A)
<1> DEFINE h == CHOOSE h : IsSum(u, A, h)
<1>1. IsFiniteSet(A)
  BY FS_Subset
<1>2. IsSum(u, A, h)
  BY <1>1, SumExists
<1> HIDE DEF h
<1> DEFINE T == {s \in SUBSET A : g[s] # h[s]}
<1>3. T = {}
  <2> SUFFICES ASSUME T # {} PROVE FALSE
    OBVIOUS
  <2>1. PICK s \in T : \A r \in T : r \subseteq s => r = s
    <3>1. T \in SUBSET SUBSET A
      OBVIOUS
    <3> HIDE DEF T
    <3> QED
      BY <1>1, <3>1, MinimalSubset
  <2>2. g[s] = Part(u, s, g) /\ h[s] = Part(u, s, h)
    BY <1>2 DEF IsSum
  <2>3. s # {} => Some(s) \in s /\ s \ {Some(s)} \notin T /\ s \ {Some(s)} \in SUBSET A
    BY <2>1, SomeIn
  <2> QED
    BY <2>1, <2>2, <2>3 DEF Part
<1>4. g[A] = h[A]
  BY <1>3
<1> QED
  BY <1>4, TotalIsChoice DEF h

LEMMA TotalUnfolds ==
  ASSUME NEW u, NEW S, IsFiniteSet(S)
  PROVE  /\ Total(u, {}) = 0
         /\ S # {} => Total(u, S) = Amount(Some(S), u) + Total(u, S \ {Some(S)})
<1>1. PICK g : IsSum(u, S, g)
  BY SumExists
<1>2. \A A \in SUBSET S : Total(u, A) = g[A] /\ g[A] = Part(u, A, g)
  <2>1. \A A \in SUBSET S : g[A] = Part(u, A, g)
    BY <1>1 DEF IsSum
  <2> QED
    BY <1>1, <2>1, SumIsTotal
<1>3. S # {} => Some(S) \in S
  BY SomeIn
<1> QED
  BY <1>2, <1>3 DEF Part

LEMMA TotalIsNat ==
  ASSUME NEW u, NEW S, IsFiniteSet(S), \A c \in S : Amount(c, u) \in Nat
  PROVE  Total(u, S) \in Nat
<1> DEFINE T == {s \in SUBSET S : Total(u, s) \notin Nat}
<1>1. T = {}
  <2> SUFFICES ASSUME T # {} PROVE FALSE
    OBVIOUS
  <2>1. PICK s \in T : \A r \in T : r \subseteq s => r = s
    <3>1. T \in SUBSET SUBSET S
      OBVIOUS
    <3> HIDE DEF T
    <3> QED
      BY <3>1, MinimalSubset
  <2>2. IsFiniteSet(s)
    BY FS_Subset
  <2>3. s # {}
    <3>1. Total(u, {}) = 0
      BY TotalUnfolds
    <3> QED
      BY <3>1
  <2>4. Some(s) \in s /\ s \ {Some(s)} \notin T
    BY <2>1, <2>3, SomeIn
  <2> QED
    BY <2>2, <2>3, <2>4, TotalUnfolds
<1> QED
  BY <1>1

LEMMA TotalRemoves ==
  ASSUME NEW u, NEW S, IsFiniteSet(S), \A c \in S : Amount(c, u) \in Nat, NEW x \in S
  PROVE  Total(u, S) = Amount(x, u) + Total(u, S \ {x})
<1> DEFINE T == {s \in SUBSET S : \E y \in s : Total(u, s) # Amount(y, u) + Total(u, s \ {y})}
<1>1. T = {}
  <2> SUFFICES ASSUME T # {} PROVE FALSE
    OBVIOUS
  <2>1. PICK s \in T : \A r \in T : r \subseteq s => r = s
    <3>1. T \in SUBSET SUBSET S
      OBVIOUS
    <3> HIDE DEF T
    <3> QED
      BY <3>1, MinimalSubset
  <2>2. PICK y \in s : Total(u, s) # Amount(y, u) + Total(u, s \ {y})
    BY <2>1
  <2> DEFINE z == Some(s)
  <2>3. z \in s
    BY SomeIn
  <2> HIDE DEF z
  <2>4. \A r \in SUBSET S : IsFiniteSet(r) /\ Total(u, r) \in Nat
    BY FS_Subset, TotalIsNat
  <2>5. Total(u, s) = Amount(z, u) + Total(u, s \ {z})
    BY <2>2, <2>4, TotalUnfolds DEF z
  <2>6. z # y
    BY <2>2, <2>5
  <2>7. s \ {z} \in SUBSET S /\ s \ {y} \in SUBSET S /\ (s \ {z}) \ {y} \in SUBSET S
    OBVIOUS
  <2>8. s \ {z} \notin T /\ s \ {y} \notin T
    BY <2>1, <2>2, <2>3
  <2>9. Total(u, s \ {z}) = Amount(y, u) + Total(u, (s \ {z}) \ {y})
    BY <2>2, <2>6, <2>7, <2>8
  <2>10. Total(u, s \ {y}) = Amount(z, u) + Total(u, (s \ {y}) \ {z})
    BY <2>3, <2>6, <2>7, <2>8
  <2>11. (s \ {y}) \ {z} = (s \ {z}) \ {y}
    OBVIOUS
  <2>12. Amount(y, u) \in Nat /\ Amount(z, u) \in Nat /\ Total(u, (s \ {z}) \ {y}) \in Nat
    BY <2>3, <2>4, <2>7
  <2> HIDE DEF T
  <2>13. Total(u, s) = Amount(y, u) + Total(u, s \ {y})
    BY <2>5, <2>9, <2>10, <2>11, <2>12
  <2> QED
    BY <2>2, <2>13
<1> QED
  BY <1>1

LEMMA TotalAdds ==
  ASSUME NEW u, NEW S, IsFiniteSet(S), NEW x, x \notin S,
         \A c \in S \union {x} : Amount(c, u) \in Nat
  PROVE  Total(u, {x} \union S) = Amount(x, u) + Total(u, S)
<1>1. IsFiniteSet({x} \union S)
  <2>1. {x} \union S = S \union {x}
    OBVIOUS
  <2> QED
   BY <2>1, FS_AddElement
<1>2. ({x} \union S) \ {x} = S
  OBVIOUS
<1> QED
  BY <1>1, <1>2, TotalRemoves

-----------------------------------------------------------------------------
(* The amounts of a built transaction.                                     *)

LEMMA OfferAmounts ==
  ASSUME NEW o \in Offers
  PROVE  /\ o.wantAmount \in Nat /\ o.wantAmount < 2 * Half /\ Half \in Nat
         /\ o.wantAsset \in Assets \union {BTC}
         /\ Int64(o.wantAmount) \in Int /\ Int64(o.wantAmount) < Half
         /\ Int64(o.wantAmount) <= o.wantAmount
         /\ o.wantAmount < Half => Int64(o.wantAmount) = o.wantAmount
         /\ Int64(o.wantAmount) >= 0 => Int64(o.wantAmount) = o.wantAmount
<1>1. PICK n : n = o.wantAmount
  OBVIOUS
<1>2. n \in 0..(2 * Half - 1) /\ Half \in Nat \ {0} /\ o.wantAsset \in Assets \union {BTC}
  BY <1>1, OffersAssumption, HalfAssumption DEF Uint64
<1>3. Int64(n) = IF n < Half THEN n ELSE n - 2 * Half
  BY DEF Int64
<1> QED
  BY <1>1, <1>2, <1>3

LEMMA AmountIsNat ==
  ASSUME NEW c \in Coins, NEW u \in Assets \union {BTC}
  PROVE  Amount(c, u) \in Nat
  BY BTCAssumption DEF Coins, Amount

LEMMA Inputs ==
  ASSUME NEW o \in Offers, NEW t, Built(o, t), NEW u \in Assets \union {BTC}
  PROVE  /\ Total(u, t.mine) \in Nat
         /\ Total(u, {t.swap} \union t.mine) \in Nat
         /\ Total(u, {t.swap} \union t.mine) = Amount(t.swap, u) + Total(u, t.mine)
<1>1. t.swap \notin t.mine
  BY OffersAssumption DEF Built, TakerCoins
<1>2. Amount(t.swap, u) \in Nat /\ \A c \in t.mine : Amount(c, u) \in Nat
  BY AmountIsNat DEF Built, TakerCoins
<1>3. IsFiniteSet(t.mine)
  BY DEF Built, TakerCoins
<1>4. Total(u, t.mine) \in Nat
  BY <1>2, <1>3, TotalIsNat
<1>5. Total(u, {t.swap} \union t.mine) = Amount(t.swap, u) + Total(u, t.mine)
  BY <1>1, <1>2, <1>3, TotalAdds
<1> QED
  BY <1>2, <1>4, <1>5

LEMMA BuiltFields ==
  ASSUME NEW o, NEW t, Built(o, t)
  PROVE  /\ t.revealed = SwapPkScript(o)
         /\ t.makerScript = o.maker
         /\ t.maker = MakerOutput(o, t.swap, t.mine)
         /\ t.taker = TakerOutput(o, t.swap, t.mine)
<1>1. t = FulfillmentTx(o, t.swap, t.mine, t.first)
  BY DEF Built
<1> QED
  BY <1>1 DEF FulfillmentTx

(* Sats in are sats out, and the taker's share is not negative.            *)
LEMMA BuiltSats ==
  ASSUME NEW o \in Offers, NEW t, Built(o, t)
  PROVE  /\ t.maker.btc = MakerBtc(o) /\ MakerBtc(o) \in Int
         /\ t.taker.btc \in Nat
         /\ t.maker.btc + t.taker.btc = TotalBtc({t.swap} \union t.mine)
<1>1. MakerBtc(o) \in Int
  BY OfferAmounts, DustAssumption DEF MakerBtc
<1>2. t.maker.btc = MakerBtc(o) /\ t.taker.btc = t.swap.btc + BtcChange(o, t.mine)
  <2>1. /\ t.maker = MakerOutput(o, t.swap, t.mine)
        /\ t.taker = TakerOutput(o, t.swap, t.mine)
    BY BuiltFields
  <2> QED
    BY <2>1 DEF MakerOutput, TakerOutput
<1>3. BtcChange(o, t.mine) >= 0
  BY DEF Built, CanBuild
<1>4. /\ Total(BTC, t.mine) \in Nat
      /\ Total(BTC, {t.swap} \union t.mine) = t.swap.btc + Total(BTC, t.mine)
  BY Inputs DEF Amount
<1>5. t.swap.btc \in Nat
  BY DEF Built, Coins
<1> QED
  BY <1>1, <1>2, <1>3, <1>4, <1>5 DEF BtcChange, TotalBtc

(* Of an asset, the maker gets what it wants if an input carries any, and  *)
(* the taker what is left.                                                 *)
LEMMA BuiltUnits ==
  ASSUME NEW o \in Offers, NEW t, Built(o, t), NEW a \in Assets
  PROVE  LET n == TotalAsset(a, {t.swap} \union t.mine)
         IN  /\ n \in Nat
             /\ t.maker.assets[a] = IF n > 0 THEN ToMaker(o, a) ELSE 0
             /\ t.taker.assets[a] = IF n > ToMaker(o, a) THEN n - ToMaker(o, a) ELSE 0
             /\ ToMaker(o, a) \in Nat
<1> DEFINE ins == {t.swap} \union t.mine
<1>1. TotalAsset(a, ins) \in Nat
  BY Inputs DEF TotalAsset
<1>2. ToMaker(o, a) \in Nat
  BY OfferAmounts DEF ToMaker
<1>3. /\ t.maker.assets[a] = IF a \in Transfers(ins) THEN ToMaker(o, a) ELSE 0
      /\ t.taker.assets[a] = IF a \in Transfers(ins) THEN ToTaker(o, a, ins) ELSE 0
  <2>1. /\ t.maker = MakerOutput(o, t.swap, t.mine)
        /\ t.taker = TakerOutput(o, t.swap, t.mine)
    BY BuiltFields
  <2> QED
    BY <2>1 DEF MakerOutput, TakerOutput
<1>4. a \in Transfers(ins) <=> TotalAsset(a, ins) > 0
  BY DEF Transfers
<1> QED
  BY <1>1, <1>2, <1>3, <1>4 DEF ToTaker

LEMMA BuiltTaker ==
  ASSUME NEW o \in Offers, NEW t, Built(o, t)
  PROVE  t.taker.btc \in Nat /\ t.taker.assets \in [Assets -> Nat]
<1>1. t.taker.btc \in Nat
  BY BuiltSats
<1>2. t.taker.assets = [a \in Assets |-> t.taker.assets[a]]
  <2>1. t.taker = TakerOutput(o, t.swap, t.mine)
    BY BuiltFields
  <2> QED
    BY <2>1 DEF TakerOutput
<1>3. ASSUME NEW a \in Assets PROVE t.taker.assets[a] \in Nat
  <2> DEFINE n == TotalAsset(a, {t.swap} \union t.mine)
  <2>1. /\ n \in Nat
        /\ t.taker.assets[a] = IF n > ToMaker(o, a) THEN n - ToMaker(o, a) ELSE 0
        /\ ToMaker(o, a) \in Nat
    BY BuiltUnits
  <2> HIDE DEF n
  <2> QED
    BY <2>1
<1> QED
  BY <1>1, <1>2, <1>3

(* What BuiltTxBalanced says of one transaction.                           *)
LEMMA Balanced ==
  ASSUME NEW o \in Offers, NEW t, Built(o, t), NEW a \in Assets
  PROVE  \/ t.maker.assets[a] + t.taker.assets[a] = TotalAsset(a, {t.swap} \union t.mine)
         \/ /\ a = o.wantAsset
            /\ TotalAsset(a, {t.swap} \union t.mine) < o.wantAmount
<1> DEFINE n == TotalAsset(a, {t.swap} \union t.mine)
<1>1. /\ n \in Nat
      /\ t.maker.assets[a] = IF n > 0 THEN ToMaker(o, a) ELSE 0
      /\ t.taker.assets[a] = IF n > ToMaker(o, a) THEN n - ToMaker(o, a) ELSE 0
      /\ ToMaker(o, a) \in Nat
  BY BuiltUnits
<1>2. ToMaker(o, a) = IF a = o.wantAsset THEN o.wantAmount ELSE 0
  BY DEF ToMaker
<1> HIDE DEF n
<1>3. \/ t.maker.assets[a] + t.taker.assets[a] = n
      \/ a = o.wantAsset /\ n < o.wantAmount
  BY <1>1, <1>2
<1> QED
  BY <1>3 DEF n

(* The group of the wanted asset, if there is any group, comes first.      *)
LEMMA WantedFirst ==
  ASSUME NEW o \in Offers, NEW t, Built(o, t), o.wantAsset # BTC,
         Transfers({t.swap} \union t.mine) # {}
  PROVE  /\ o.wantAsset \in Assets /\ t.first = o.wantAsset
         /\ t.maker.assets[o.wantAsset] = o.wantAmount
<1> DEFINE ins == {t.swap} \union t.mine
<1>1. o.wantAsset \in Assets
  BY OfferAmounts
<1>2. o.wantAsset \in Transfers(ins)
  BY DEF Built, CanBuild, WantMissing
<1>3. t.first = o.wantAsset
  <2>1. t.first \in FirstGroups(o, ins)
    BY DEF Built
  <2>2. FirstGroups(o, ins) = {o.wantAsset}
    BY <1>2 DEF FirstGroups
  <2> QED
    BY <2>1, <2>2
<1>4. TotalAsset(o.wantAsset, ins) > 0
  BY <1>2 DEF Transfers
<1>5. t.maker.assets[o.wantAsset] = o.wantAmount
  BY <1>1, <1>4, BuiltUnits DEF ToMaker
<1> QED
  BY <1>1, <1>3, <1>5

(* A built transaction with enough of the wanted asset in it satisfies the *)
(* contract, if the maker's script is P2TR and the sats fit, and creates   *)
(* nothing; that the offer wants something is needed, for of nothing there *)
(* would be no group to look up.                                           *)
LEMMA Acceptable ==
  ASSUME NEW o \in Offers, NEW t, Built(o, t), o.wantAmount > 0,
         o.maker.version = 1, o.wantAsset = BTC => o.wantAmount < Half,
         o.wantAsset = BTC \/ TotalAsset(o.wantAsset, {t.swap} \union t.mine) >= o.wantAmount
  PROVE  FulfillScript(t.revealed, t) /\ CreatesNothing(t)
<1> DEFINE ins == {t.swap} \union t.mine
<1>0. /\ o.wantAmount \in Nat /\ o.wantAsset \in Assets \union {BTC}
      /\ Int64(o.wantAmount) \in Int /\ Int64(o.wantAmount) <= o.wantAmount
  BY OfferAmounts
<1>1. CreatesNothing(t)
  <2>1. t.maker.btc + t.taker.btc <= TotalBtc(ins) /\ t.maker.btc >= 0 /\ t.taker.btc >= 0
    <3>1. /\ t.maker.btc = MakerBtc(o) /\ t.taker.btc \in Nat
          /\ t.maker.btc + t.taker.btc = TotalBtc(ins)
      BY BuiltSats
    <3>2. MakerBtc(o) \in Nat
      BY <1>0, OfferAmounts, DustAssumption DEF MakerBtc
    <3> QED
      BY <3>1, <3>2
  <2>2. ASSUME NEW a \in Assets
        PROVE  t.maker.assets[a] + t.taker.assets[a] <= TotalAsset(a, ins)
    <3>1. TotalAsset(a, ins) \in Nat
      BY BuiltUnits
    <3>2. t.maker.assets[a] + t.taker.assets[a] = TotalAsset(a, ins)
      <4>1. a = o.wantAsset => ~(TotalAsset(a, ins) < o.wantAmount)
        BY <1>0, <3>1, BTCAssumption
      <4> QED
        BY <4>1, Balanced
    <3> QED
      BY <3>1, <3>2
  <2> QED
    BY <2>1, <2>2 DEF CreatesNothing
<1>2. t.revealed = SwapPkScript(o) /\ t.makerScript = o.maker
  BY BuiltFields
<1>3. CASE o.wantAsset = BTC
  <2>1. t.maker.btc = Int64(o.wantAmount)
    BY <1>3, BuiltSats DEF MakerBtc
  <2> QED
    BY <1>0, <1>1, <1>3, <1>2, <2>1 DEF FulfillScript, SwapPkScript
<1>4. CASE o.wantAsset # BTC
  <2>1. o.wantAsset \in Assets
    BY <1>0, <1>4
  <2>2. o.wantAsset \in Transfers(ins)
    <3>1. TotalAsset(o.wantAsset, ins) \in Nat
      BY <2>1, BuiltUnits
    <3> QED
      BY <1>0, <1>4, <2>1, <3>1 DEF Transfers
  <2>3. t.first = o.wantAsset /\ t.maker.assets[o.wantAsset] = o.wantAmount
    BY <1>4, <2>2, WantedFirst
  <2>4. o.wantAsset.txid # BTC
    BY <2>1, BTCAssumption
  <2>5. /\ SwapPkScript(o).program = o.maker.program
        /\ SwapPkScript(o).wants = o.wantAsset.txid
        /\ SwapPkScript(o).amount = Int64(o.wantAmount)
    BY <1>4 DEF SwapPkScript
  <2>6. FulfillScript(SwapPkScript(o), t)
    BY <1>0, <1>2, <1>4, <2>3, <2>4, <2>5 DEF FulfillScript
  <2> QED
    BY <1>1, <1>2, <2>6
<1> QED
  BY <1>3, <1>4

(* If the contract looked for an asset and is satisfied, there is a group. *)
LEMMA Found ==
  ASSUME NEW o \in Offers, NEW t, Built(o, t), FulfillScript(SwapPkScript(o), t),
         o.wantAsset \in Assets
  PROVE  o.wantAsset # BTC /\ Transfers({t.swap} \union t.mine) # {}
<1>1. o.wantAsset # BTC /\ o.wantAsset.txid # BTC
  BY BTCAssumption
<1>2. SwapPkScript(o).wants = o.wantAsset.txid
  BY <1>1 DEF SwapPkScript
<1>3. t.first # BTC
  BY <1>1, <1>2 DEF FulfillScript
<1>4. t.first \in FirstGroups(o, {t.swap} \union t.mine)
  BY DEF Built
<1> QED
  BY <1>1, <1>3, <1>4 DEF FirstGroups

(* A built transaction the contract and arkd approve pays exactly: the     *)
(* contract found a group, so there is one of the wanted asset, and arkd   *)
(* has seen that the sats are not negative, so that they fit.              *)
LEMMA Exact ==
  ASSUME NEW o \in Offers, NEW t, Built(o, t),
         FulfillScript(SwapPkScript(o), t), CreatesNothing(t), NEW a \in Assets
  PROVE  LET n == TotalAsset(a, {t.swap} \union t.mine)
         IN  /\ t.maker.assets[a] = ToMaker(o, a)
             /\ t.taker.assets[a] = n - ToMaker(o, a)
<1> DEFINE n == TotalAsset(a, {t.swap} \union t.mine)
<1>1. /\ n \in Nat
      /\ t.maker.assets[a] = IF n > 0 THEN ToMaker(o, a) ELSE 0
      /\ t.taker.assets[a] = IF n > ToMaker(o, a) THEN n - ToMaker(o, a) ELSE 0
      /\ ToMaker(o, a) \in Nat
  BY BuiltUnits
<1>2. t.maker.assets[a] + t.taker.assets[a] <= n
  BY DEF CreatesNothing
<1>3. a = o.wantAsset => t.maker.assets[a] >= ToMaker(o, a)
  <2> SUFFICES ASSUME a = o.wantAsset PROVE t.maker.assets[a] = ToMaker(o, a)
    BY <1>1
  <2>1. o.wantAsset # BTC /\ Transfers({t.swap} \union t.mine) # {}
    BY Found
  <2> QED
    BY <2>1, WantedFirst DEF ToMaker
<1>4. a # o.wantAsset => ToMaker(o, a) = 0
  BY DEF ToMaker
<1> HIDE DEF n
<1>5. t.maker.assets[a] = ToMaker(o, a) /\ t.taker.assets[a] = n - ToMaker(o, a)
  BY <1>1, <1>2, <1>3, <1>4
<1> QED
  BY <1>5 DEF n

(* The sats an approved transaction pays the maker.                        *)
LEMMA ExactSats ==
  ASSUME NEW o \in Offers, NEW t, Built(o, t), CreatesNothing(t)
  PROVE  t.maker.btc = IF o.wantAsset = BTC THEN o.wantAmount ELSE Dust
<1>1. t.maker.btc = MakerBtc(o) /\ t.maker.btc >= 0
  BY BuiltSats DEF CreatesNothing
<1> QED
  BY <1>1, OfferAmounts DEF MakerBtc

-----------------------------------------------------------------------------
(* What every step keeps.                                                  *)

LEMMA Initial == Init => IndInv
<1> SUFFICES ASSUME Init PROVE IndInv
  OBVIOUS
<1>1. TakerCoins({})
  BY FS_EmptySet DEF TakerCoins
<1>2. LedgerInv
  <2>1. utxo \in Wallets
    BY DEF Init
  <2>2. IsFiniteSet(utxo)
    BY <2>1, WalletsAssumption
  <2>3. ASSUME NEW c \in utxo PROVE c \in Coins /\ c.tx = 0
    <3>1. c \in [tx : {0}, vout : Nat, script : {Taker}, btc : Nat,
                 assets : [Assets -> Nat], recoverable : BOOLEAN]
      BY <2>1, WalletsAssumption
    <3> QED
      BY <3>1 DEF Coins, Scripts
  <2>4. nextTx = 1 /\ refunded = {}
    BY DEF Init
  <2> QED
    BY <2>2, <2>3, <2>4 DEF LedgerInv, TxIds
<1>3. FundInv
  BY MaxFundsAssumption DEF Init, FundInv
<1>4. SolveInv
  <2>1. /\ pc \in [Solves -> PcLabels]
        /\ DOMAIN swapIn = Solves /\ DOMAIN tx = Solves
        /\ DOMAIN mine = Solves /\ DOMAIN arkTxid = Solves
    BY DEF Init, PcLabels
  <2>2. ASSUME NEW s \in Solves PROVE SolveOk(s)
    <3>1. pc[s] = "idle" /\ mine[s] = {} /\ arkTxid[s] = 0 /\ Len(fund) = 0 /\ nextTx = 1
      BY DEF Init
    <3>2. s > Len(fund)
      BY <3>1 DEF Solves
    <3> QED
      BY <1>1, <3>1, <3>2
      DEF SolveOk, Known, Answered, PastConfig, PastSwap, PastWallet, PastBuild, TxIds
  <2> QED
    BY <2>1, <2>2 DEF SolveInv
<1>5. SentInv
  BY DEF Init, SentInv
<1>6. RowsInv
  BY DEF Init, RowsInv
<1>7. DepositInv
  <2>1. \A c \in utxo : c.script = Taker
    BY WalletsAssumption DEF Init
  <2>2. Len(fund) = 0
    BY DEF Init
  <2> QED
    BY <2>1, <2>2 DEF DepositInv
<1>8. FlagInv
  BY DEF Init, FlagInv
<1> QED
  BY <1>2, <1>3, <1>4, <1>5, <1>6, <1>7, <1>8 DEF IndInv

(* A solve's own steps touch neither the ledger nor what was funded.       *)
LEMMA SolveFrame ==
  ASSUME NEW s \in Solves, Match(s) \/ SolveStep(s)
  PROVE  UNCHANGED <<utxo, settled, refunded, nextTx, fund, cancelled, crashed>>
  BY DEF Match, SolveStep, CheckScript, GetSwapVtxo, ListTakerVtxos, BuildTx, SubmitTx,
         SubmitError, SubmitReply, SubmitReplyLost, RpcFail, OnFulfill, OnFulfillFail,
         ledgerVars

LEMMA SolveEnds ==
  ASSUME SolveInv, NEW s \in Solves, Match(s) \/ SolveStep(s)
  PROVE  /\ pc[s] \notin {"idle", "over"}
         /\ \A r \in Solves \ {s} : pc'[r] = pc[r]
<1>1. pc \in [Solves -> PcLabels]
  BY DEF SolveInv
<1>2. CASE Match(s)
  BY <1>1, <1>2 DEF Match, Goto
<1>3. CASE CheckScript(s) \/ GetSwapVtxo(s) \/ ListTakerVtxos(s) \/ BuildTx(s)
  BY <1>1, <1>3 DEF CheckScript, GetSwapVtxo, ListTakerVtxos, BuildTx, Goto, Finish
<1>4. CASE SubmitTx(s) \/ SubmitError(s) \/ SubmitReply(s) \/ SubmitReplyLost(s)
  BY <1>1, <1>4 DEF SubmitTx, SubmitError, SubmitReply, SubmitReplyLost, Goto, Finish
<1>5. CASE RpcFail(s) \/ OnFulfill(s) \/ OnFulfillFail(s)
  BY <1>1, <1>5 DEF RpcFail, OnFulfill, OnFulfillFail, Goto, Finish
<1> QED
  BY <1>2, <1>3, <1>4, <1>5 DEF SolveStep

(* Ids, the ledger and the list of what was funded only grow, and a solve  *)
(* that is over stays over.                                                *)
Grows ==
    /\ nextTx' \in Nat \ {0} /\ nextTx <= nextTx'
    /\ settled \subseteq settled'
    /\ Len(fund') \in Nat /\ Len(fund) <= Len(fund')
    /\ \A i \in 1..Len(fund) : fund'[i] = fund[i]
    /\ \A s \in Solves : pc[s] = "over" => pc'[s] = "over"

LEMMA Monotone == LedgerInv /\ FundInv /\ SolveInv /\ Next => Grows
<1> SUFFICES ASSUME LedgerInv, FundInv, SolveInv, Next PROVE Grows
  OBVIOUS
<1> USE DEF Grows
<1>1. nextTx \in Nat \ {0} /\ Len(fund) \in Nat
  BY DEF LedgerInv, FundInv
<1>2. ASSUME NEW o \in Offers, NEW d \in Deposits, Fund(o, d) PROVE Grows
  <2> DEFINE x == [offer |-> o, deposit |-> d, txid |-> nextTx]
  <2>1. x \in Funds
    BY <1>1 DEF Funds
  <2>2. fund' = Append(fund, x)
    BY <1>2 DEF Fund
  <2> HIDE DEF x
  <2>3. Len(fund') = Len(fund) + 1 /\ \A i \in 1..Len(fund) : fund'[i] = fund[i]
    BY <2>1, <2>2 DEF FundInv
  <2>4. ASSUME NEW s \in Solves, pc[s] = "over" PROVE pc'[s] = "over"
    <3>1. s # Len(fund) + 1
      BY <2>4, <1>1 DEF SolveInv, SolveOk, Solves
    <3> QED
      BY <3>1, <2>4, <1>2 DEF Fund, Goto, SolveInv
  <2> QED
    BY <1>1, <1>2, <2>3, <2>4 DEF Fund
<1>3. ASSUME NEW s \in Solves, Match(s) \/ SolveStep(s) PROVE Grows
  <2>1. UNCHANGED <<settled, nextTx, fund>>
    BY <1>3, SolveFrame
  <2>2. ASSUME NEW r \in Solves, pc[r] = "over" PROVE pc'[r] = "over"
    BY <1>3, <2>2, SolveEnds
  <2> QED
    BY <1>1, <2>1, <2>2
<1>4. ASSUME NEW w \in wire, Settle(w) \/ Refuse(w) PROVE Grows
  BY <1>1, <1>4 DEF Settle, Refuse
<1>5. CASE Cancel
  BY <1>1, <1>5 DEF Cancel, ledgerVars
<1>6. CASE Crash
  BY <1>1, <1>6 DEF Crash, ledgerVars
<1>7. ASSUME NEW c, NEW unit, NEW n, RivalFulfill(c, unit, n) PROVE Grows
  BY <1>1, <1>7 DEF RivalFulfill
<1>8. ASSUME NEW c, MakerRefund(c) \/ Expire(c) PROVE Grows
  BY <1>1, <1>8 DEF MakerRefund, Expire
<1> QED
  BY <1>2, <1>3, <1>4, <1>5, <1>6, <1>7, <1>8 DEF Next

-----------------------------------------------------------------------------
(* The ledger and what was funded.                                         *)

LEMMA Funded ==
  ASSUME FundInv, NEW i \in 1..Len(fund)
  PROVE  /\ i \in Solves /\ Offer(i) \in Offers
         /\ fund[i].deposit \in Deposits
         /\ fund[i].txid \in Nat \ {0} /\ fund[i].txid < nextTx
<1>1. fund[i] \in Funds /\ Len(fund) \in Nat
  BY DEF FundInv
<1>2. i \in Solves
  BY <1>1, MaxFundsAssumption DEF FundInv, Solves
<1>3. 0 < fund[i].txid /\ fund[i].txid < nextTx
  BY DEF FundInv
<1> QED
  BY <1>1, <1>2, <1>3 DEF Funds, Offer

LEMMA WireTx ==
  ASSUME FundInv, SentInv, NEW w \in wire
  PROVE  w.by \in 1..Len(fund) /\ Offer(w.by) \in Offers /\ Built(Offer(w.by), w.tx)
  BY Funded DEF SentInv, WireOk

LEMMA AddCoin ==
  ASSUME NEW S, S \subseteq Coins, IsFiniteSet(S), NEW R, NEW c \in Coins
  PROVE  /\ (S \ R) \union {c} \subseteq Coins
         /\ IsFiniteSet((S \ R) \union {c}) /\ IsFiniteSet(S \ R)
<1>1. IsFiniteSet(S \ R)
  BY FS_Subset
<1>2. IsFiniteSet((S \ R) \union {c})
  BY <1>1, FS_AddElement
<1> QED
  BY <1>1, <1>2

LEMMA LedgerNext == IndInv /\ Next => LedgerInv'
<1> SUFFICES ASSUME IndInv, Next PROVE LedgerInv'
  OBVIOUS
<1> USE DEF IndInv
<1>1. /\ nextTx \in Nat \ {0} /\ utxo \subseteq Coins /\ IsFiniteSet(utxo)
      /\ \A c \in utxo : c.tx \in 0..(nextTx - 1)
      /\ refunded \subseteq 0..(nextTx - 1)
  BY DEF LedgerInv, TxIds
<1>2. ASSUME NEW o \in Offers, NEW d \in Deposits, Fund(o, d) PROVE LedgerInv'
  <2> DEFINE c == [tx |-> nextTx, vout |-> 0, script |-> o.swapPkScript,
                   btc |-> d.btc, assets |-> d.assets, recoverable |-> FALSE]
  <2>1. c \in Coins /\ c.tx = nextTx
    BY <1>1, DepositsAssumption DEF Coins, Scripts
  <2>2. utxo' = (utxo \ {}) \union {c} /\ nextTx' = nextTx + 1
    BY <1>2 DEF Fund
  <2>3. UNCHANGED refunded
    BY <1>2 DEF Fund
  <2> HIDE DEF c
  <2>4. utxo' \subseteq Coins /\ IsFiniteSet(utxo')
    BY <1>1, <2>1, <2>2, AddCoin
  <2> QED
    BY <1>1, <2>1, <2>2, <2>3, <2>4 DEF LedgerInv, TxIds
<1>3. ASSUME NEW s \in Solves, Match(s) \/ SolveStep(s) PROVE LedgerInv'
  BY <1>1, <1>3, SolveFrame DEF LedgerInv, TxIds
<1>4. ASSUME NEW w \in wire, Settle(w) PROVE LedgerInv'
  <2> DEFINE c == [tx |-> nextTx, vout |-> 1, script |-> Taker, btc |-> w.tx.taker.btc,
                   assets |-> w.tx.taker.assets, recoverable |-> FALSE]
  <2> DEFINE R == {w.tx.swap} \union w.tx.mine
  <2>1. w.tx.taker.btc \in Nat /\ w.tx.taker.assets \in [Assets -> Nat]
    BY WireTx, BuiltTaker
  <2>2. c \in Coins /\ c.tx = nextTx
    BY <1>1, <2>1 DEF Coins, Scripts
  <2>3. utxo' = (utxo \ R) \union {c} /\ nextTx' = nextTx + 1
    BY <1>4 DEF Settle
  <2>4. UNCHANGED refunded
    BY <1>4 DEF Settle
  <2> HIDE DEF c, R
  <2>5. utxo' \subseteq Coins /\ IsFiniteSet(utxo')
    BY <1>1, <2>2, <2>3, AddCoin
  <2> QED
    BY <1>1, <2>2, <2>3, <2>4, <2>5 DEF LedgerInv, TxIds
<1>5. ASSUME NEW w \in wire, Refuse(w) PROVE LedgerInv'
  BY <1>1, <1>5 DEF Refuse, LedgerInv, TxIds
<1>6. CASE Cancel
  BY <1>1, <1>6 DEF Cancel, ledgerVars, LedgerInv, TxIds
<1>7. CASE Crash
  BY <1>1, <1>7 DEF Crash, ledgerVars, LedgerInv, TxIds
<1>8. ASSUME NEW c \in utxo, NEW unit, NEW n, RivalFulfill(c, unit, n) PROVE LedgerInv'
  <2>1. IsFiniteSet(utxo \ {c})
    BY <1>1, FS_Subset
  <2>2. utxo' = utxo \ {c} /\ nextTx' = nextTx + 1 /\ refunded' = refunded
    BY <1>8 DEF RivalFulfill
  <2> QED
    BY <1>1, <2>1, <2>2 DEF LedgerInv, TxIds
<1>9. ASSUME NEW c \in utxo, MakerRefund(c) PROVE LedgerInv'
  <2>1. IsFiniteSet(utxo \ {c})
    BY <1>1, FS_Subset
  <2>2. c.tx \in 0..(nextTx - 1)
    BY <1>1 DEF Coins
  <2> QED
    BY <1>1, <1>9, <2>1, <2>2 DEF MakerRefund, LedgerInv, TxIds
<1>10. ASSUME NEW c \in utxo, Expire(c) PROVE LedgerInv'
  <2> DEFINE r == [c EXCEPT !.recoverable = TRUE]
  <2>1. r \in Coins /\ r.tx = c.tx
    BY <1>1 DEF Coins
  <2>2. utxo' = (utxo \ {c}) \union {r}
    BY <1>10 DEF Expire
  <2>3. UNCHANGED <<nextTx, refunded>>
    BY <1>10 DEF Expire
  <2> HIDE DEF r
  <2>4. utxo' \subseteq Coins /\ IsFiniteSet(utxo')
    BY <1>1, <2>1, <2>2, AddCoin
  <2> QED
    BY <1>1, <2>1, <2>2, <2>3, <2>4 DEF LedgerInv, TxIds
<1> QED
  BY <1>2, <1>3, <1>4, <1>5, <1>6, <1>7, <1>8, <1>9, <1>10 DEF Next

LEMMA FlagNext == IndInv /\ Next => FlagInv'
<1> SUFFICES ASSUME IndInv, Next PROVE FlagInv'
  OBVIOUS
<1>1. FlagInv
  BY DEF IndInv
<1>2. UNCHANGED cancelled \/ cancelled' = TRUE
  BY SolveFrame DEF Next, Fund, Settle, Refuse, Cancel, Crash, RivalFulfill, MakerRefund, Expire
<1>3. UNCHANGED crashed \/ crashed' = TRUE
  BY SolveFrame DEF Next, Fund, Settle, Refuse, Cancel, Crash, RivalFulfill, MakerRefund, Expire
<1> QED
  BY <1>1, <1>2, <1>3 DEF FlagInv

(* Only Fund changes what was funded.                                      *)
LEMMA FundOnly ==
  ASSUME Next, ~\E o \in Offers, d \in Deposits : Fund(o, d)
  PROVE  fund' = fund
  BY SolveFrame DEF Next, Settle, Refuse, Cancel, Crash, RivalFulfill, MakerRefund, Expire

LEMMA FundNext == IndInv /\ Next => FundInv'
<1> SUFFICES ASSUME IndInv, Next PROVE FundInv'
  OBVIOUS
<1> USE DEF IndInv
<1>1. Grows
  BY Monotone
<1>2. nextTx \in Nat \ {0}
  BY DEF LedgerInv
<1>3. ASSUME NEW o \in Offers, NEW d \in Deposits, Fund(o, d) PROVE FundInv'
  <2> DEFINE x == [offer |-> o, deposit |-> d, txid |-> nextTx]
  <2>1. x \in Funds /\ x.txid = nextTx
    BY <1>2 DEF Funds
  <2>2. fund' = Append(fund, x) /\ nextTx' = nextTx + 1 /\ Len(fund) < MaxFunds
    BY <1>3 DEF Fund
  <2>3. fund \in Seq(Funds) /\ MaxFunds \in Nat
    BY MaxFundsAssumption DEF FundInv
  <2>4. \A i \in 1..Len(fund) : fund[i].txid < nextTx /\ fund[i].txid \in Nat
    BY Funded
  <2>5. /\ \A i \in 1..Len(fund) : 0 < fund[i].txid /\ fund[i].txid < nextTx
        /\ \A i, k \in 1..Len(fund) : fund[i].txid = fund[k].txid => i = k
    BY DEF FundInv
  <2> HIDE DEF x
  <2>6. fund' \in Seq(Funds) /\ Len(fund') = Len(fund) + 1
    BY <2>1, <2>2, <2>3
  <2>7. /\ \A i \in 1..Len(fund) : fund'[i] = fund[i]
        /\ fund'[Len(fund) + 1] = x
    BY <2>1, <2>2, <2>3
  <2>8. Len(fund) \in Nat
    BY <2>3
  <2>9. \A i \in 1..Len(fund') : i \in 1..Len(fund) \/ i = Len(fund) + 1
    BY <2>6, <2>8
  <2>10. \A i \in 1..Len(fund') : 0 < fund'[i].txid /\ fund'[i].txid < nextTx'
    BY <1>2, <2>1, <2>2, <2>4, <2>5, <2>7, <2>9
  <2>11. \A i, k \in 1..Len(fund') : fund'[i].txid = fund'[k].txid => i = k
    BY <1>2, <2>1, <2>4, <2>5, <2>7, <2>9
  <2> QED
    BY <2>2, <2>3, <2>6, <2>8, <2>10, <2>11 DEF FundInv
<1>4. CASE fund' = fund
  <2>1. \A i \in 1..Len(fund) : fund[i].txid < nextTx /\ fund[i].txid \in Nat
    BY Funded
  <2>2. \A i \in 1..Len(fund) : fund[i].txid < nextTx'
    BY <1>1, <1>2, <2>1 DEF Grows
  <2> QED
    BY <1>4, <2>2 DEF FundInv
<1> QED
  BY <1>3, <1>4, FundOnly

-----------------------------------------------------------------------------
(* What was submitted.                                                     *)

LEMMA WireKept ==
  ASSUME Grows, FundInv, NEW w, WireOk(w)
  PROVE  WireOk(w)'
<1>1. Len(fund) \in Nat
  BY DEF FundInv
<1> QED
  BY <1>1 DEF WireOk, Offer, Grows

LEMMA EntryKept ==
  ASSUME Grows, FundInv, LedgerInv, NEW e, EntryOk(e)
  PROVE  EntryOk(e)'
<1>1. nextTx \in Nat /\ Len(fund) \in Nat
  BY DEF FundInv, LedgerInv
<1>2. e.by # 0 => Offer(e.by)' = Offer(e.by)
  BY <1>1 DEF EntryOk, Offer, Grows
<1> QED
  BY <1>1, <1>2 DEF EntryOk, Grows, TxIds

LEMMA NewEntry ==
  ASSUME LedgerInv, SentInv, NEW e, settled' = settled \union {e}, e.id = nextTx,
         \A x \in settled' : EntryOk(x)', \A w \in wire' : WireOk(w)'
  PROVE  SentInv'
<1>1. \A x \in settled : x.id # nextTx
  BY DEF LedgerInv, SentInv, EntryOk
<1>2. ASSUME NEW x \in settled', NEW y \in settled', x.id = y.id PROVE x = y
  BY <1>1, <1>2 DEF SentInv
<1> QED
  BY <1>2 DEF SentInv

LEMMA SentNext == IndInv /\ Next => SentInv'
<1> SUFFICES ASSUME IndInv, Next PROVE SentInv'
  OBVIOUS
<1> USE DEF IndInv
<1>1. Grows
  BY Monotone
<1>2. \A w \in wire : WireOk(w)'
  BY <1>1, WireKept DEF SentInv
<1>3. \A e \in settled : EntryOk(e)'
  BY <1>1, EntryKept DEF SentInv
<1>4. \A e, f \in settled : e.id = f.id => e = f
  BY DEF SentInv
<1>5. CASE settled' = settled /\ wire' \subseteq wire
  BY <1>2, <1>3, <1>4, <1>5 DEF SentInv
<1>6. ASSUME NEW s \in Solves, SubmitTx(s) PROVE SentInv'
  <2>1. pc[s] = "submit" /\ settled' = settled /\ fund' = fund
    BY <1>6 DEF SubmitTx
  <2>2. SolveOk(s)
    BY DEF SolveInv
  <2>3. s \in 1..Len(fund) /\ Built(Offer(s), tx[s])
    BY <2>1, <2>2 DEF SolveOk, Known, Solves, PastConfig, PastSwap, PastWallet, PastBuild, FundInv
  <2>4. PICK w : w = [by |-> s, tx |-> tx[s]]
    OBVIOUS
  <2>5. WireOk(w)'
    BY <2>1, <2>3, <2>4 DEF WireOk, Offer
  <2>6. \A v \in wire' : WireOk(v)'
    BY <1>2, <1>6, <2>4, <2>5 DEF SubmitTx
  <2> QED
    BY <1>3, <1>4, <2>1, <2>6 DEF SentInv
<1>7. ASSUME NEW w \in wire, Settle(w) PROVE SentInv'
  <2>0. PICK e : e = [id |-> nextTx, by |-> w.by, tx |-> w.tx]
    OBVIOUS
  <2>1. w.by \in 1..Len(fund) /\ Built(Offer(w.by), w.tx)
    BY WireTx
  <2>2. Approved(Offer(w.by), w.tx) /\ w.tx.swap \in utxo
    <3>1. Accepted(w.tx)
      BY <1>7 DEF Settle
    <3>2. w.tx.swap.script = SwapPkScript(Offer(w.by))
      BY <2>1 DEF Built
    <3> QED
      BY <2>1, <3>1, <3>2 DEF Accepted, Approved
  <2>3. w.tx.swap.tx \in TxIds
    BY <2>2 DEF LedgerInv
  <2>4. /\ settled' = settled \union {e} /\ nextTx' = nextTx + 1 /\ fund' = fund
        /\ wire' \subseteq wire
    BY <1>7, <2>0 DEF Settle
  <2>5. EntryOk(e)'
    <3>1. e.id \in 1..(nextTx' - 1)
      BY <2>0, <2>4 DEF LedgerInv
    <3>2. w.tx.swap.tx \in 0..(nextTx' - 1)
      BY <2>3, <2>4 DEF LedgerInv, TxIds
    <3>3. w.by \in 0..Len(fund)
      BY <2>1 DEF FundInv
    <3> QED
      BY <2>0, <2>2, <2>4, <3>1, <3>2, <3>3 DEF EntryOk, TxIds, Offer
  <2>6. e.id = nextTx
    BY <2>0
  <2>7. (\A x \in settled' : EntryOk(x)') /\ (\A v \in wire' : WireOk(v)')
    BY <1>2, <1>3, <2>4, <2>5
  <2> QED
    BY <2>4, <2>6, <2>7, NewEntry
<1>8. ASSUME NEW c \in utxo, NEW unit, NEW n, RivalFulfill(c, unit, n) PROVE SentInv'
  <2>1. PICK e : /\ settled' = settled \union {e}
                 /\ e.id = nextTx /\ e.by = 0 /\ e.tx.swap = c
    <3>1. PICK t : t.swap = c /\ settled' = settled \union {[id |-> nextTx, by |-> 0, tx |-> t]}
      BY <1>8 DEF RivalFulfill
    <3>2. PICK e : e = [id |-> nextTx, by |-> 0, tx |-> t]
      OBVIOUS
    <3> QED
      BY <3>1, <3>2
  <2>2. nextTx' = nextTx + 1 /\ fund' = fund /\ wire' = wire
    BY <1>8 DEF RivalFulfill
  <2>3. c.tx \in TxIds
    BY DEF LedgerInv
  <2>4. EntryOk(e)'
    <3>1. e.id \in 1..(nextTx' - 1)
      BY <2>1, <2>2 DEF LedgerInv
    <3>2. e.tx.swap.tx \in 0..(nextTx' - 1)
      BY <2>1, <2>2, <2>3 DEF LedgerInv, TxIds
    <3>3. e.by \in 0..Len(fund)
      BY <2>1 DEF FundInv
    <3> QED
      BY <2>1, <2>2, <3>1, <3>2, <3>3 DEF EntryOk, TxIds
  <2>5. (\A x \in settled' : EntryOk(x)') /\ (\A v \in wire' : WireOk(v)')
    BY <1>2, <1>3, <2>1, <2>2, <2>4
  <2> QED
    BY <2>1, <2>5, NewEntry
<1>9. ASSUME NEW s \in Solves, Match(s) \/ SolveStep(s), ~SubmitTx(s)
      PROVE  settled' = settled /\ wire' \subseteq wire
  BY <1>9 DEF Match, SolveStep, CheckScript, GetSwapVtxo, ListTakerVtxos, BuildTx,
     SubmitError, SubmitReply, SubmitReplyLost, RpcFail, OnFulfill, OnFulfillFail, ledgerVars
<1>10. ASSUME \/ \E o \in Offers, d \in Deposits : Fund(o, d)
              \/ \E w \in wire : Refuse(w)
              \/ Cancel \/ Crash
              \/ \E c \in utxo : MakerRefund(c) \/ Expire(c)
       PROVE  settled' = settled /\ wire' \subseteq wire
  BY <1>10 DEF Fund, Refuse, Cancel, Crash, MakerRefund, Expire, ledgerVars
<1> QED
  BY <1>5, <1>6, <1>7, <1>8, <1>9, <1>10 DEF Next

-----------------------------------------------------------------------------
(* The solves.                                                             *)

(* A solve's step sets its own locals and no other's.                      *)
OthersKept(s) ==
    /\ pc' \in [Solves -> PcLabels]
    /\ DOMAIN swapIn' = Solves /\ DOMAIN tx' = Solves
    /\ DOMAIN mine' = Solves /\ DOMAIN arkTxid' = Solves
    /\ \A r \in Solves \ {s} :
          /\ pc'[r] = pc[r] /\ swapIn'[r] = swapIn[r] /\ mine'[r] = mine[r]
          /\ tx'[r] = tx[r] /\ arkTxid'[r] = arkTxid[r]

LEMMA SolveLocal ==
  ASSUME SolveInv, NEW s \in Solves, Match(s) \/ SolveStep(s)
  PROVE  OthersKept(s)
<1> USE DEF OthersKept, SolveInv, PcLabels, localVars
<1>1. CASE Match(s)
  BY <1>1 DEF Match, Goto
<1>2. CASE CheckScript(s)
  BY <1>2 DEF CheckScript, Goto, Finish
<1>3. CASE GetSwapVtxo(s)
  BY <1>3 DEF GetSwapVtxo, Goto, Finish
<1>4. CASE ListTakerVtxos(s)
  BY <1>4 DEF ListTakerVtxos, Goto, Finish
<1>5. CASE BuildTx(s)
  BY <1>5 DEF BuildTx, Goto, Finish
<1>6. CASE SubmitTx(s) \/ SubmitReply(s)
  BY <1>6 DEF SubmitTx, SubmitReply, Goto
<1>7. CASE SubmitError(s) \/ SubmitReplyLost(s) \/ RpcFail(s) \/ OnFulfill(s) \/ OnFulfillFail(s)
  BY <1>7 DEF SubmitError, SubmitReplyLost, RpcFail, OnFulfill, OnFulfillFail, Goto, Finish
<1> QED
  BY <1>1, <1>2, <1>3, <1>4, <1>5, <1>6, <1>7 DEF SolveStep

LEMMA IdsGrow ==
  ASSUME LedgerInv, Grows
  PROVE  TxIds \subseteq TxIds' /\ 0 \in TxIds'
<1>1. PICK n \in Nat \ {0} : n = nextTx'
  BY DEF Grows
<1>2. nextTx \in Nat /\ nextTx <= n
  BY <1>1 DEF LedgerInv, Grows
<1>3. TxIds' = 0..(n - 1)
  BY <1>1 DEF TxIds
<1>4. TxIds \subseteq 0..(n - 1) /\ 0 \in 0..(n - 1)
  BY <1>2 DEF TxIds
<1> QED
  BY <1>3, <1>4

LEMMA SolveKept ==
  ASSUME LedgerInv, FundInv, Grows, NEW s \in Solves, SolveOk(s),
         pc'[s] = pc[s], swapIn'[s] = swapIn[s], mine'[s] = mine[s], tx'[s] = tx[s],
         arkTxid'[s] = arkTxid[s], s > Len(fund) => s > Len(fund')
  PROVE  SolveOk(s)'
<1>1. TxIds \subseteq TxIds' /\ Len(fund) \in Nat
  BY DEF TxIds, LedgerInv, Grows, FundInv
<1>2. s > Len(fund) <=> s > Len(fund')
  BY <1>1 DEF Grows, Solves
<1>3. Known(pc[s], Offer(s), swapIn[s], mine[s], tx[s])'
  <2>1. CASE pc[s] = "idle"
    BY <2>1 DEF Known, PastConfig, PastSwap, PastWallet, PastBuild
  <2>2. CASE pc[s] # "idle"
    <3>1. Offer(s)' = Offer(s)
      BY <1>1, <2>2 DEF SolveOk, Offer, Grows, Solves
    <3>2. Known(pc[s], Offer(s), swapIn[s], mine[s], tx[s])
      BY DEF SolveOk
    <3> QED
      BY <1>1, <3>1, <3>2 DEF Known
  <2> QED
    BY <2>1, <2>2
<1>4. Answered(s)'
  BY DEF SolveOk, Answered, Grows
<1> QED
  BY <1>1, <1>2, <1>3, <1>4 DEF SolveOk

LEMMA SolveOver ==
  ASSUME NEW s \in Solves, pc'[s] = "over", mine'[s] = {}, arkTxid'[s] = 0,
         ~(s > Len(fund')), 0 \in TxIds'
  PROVE  SolveOk(s)'
<1>1. TakerCoins({})
  BY FS_EmptySet DEF TakerCoins
<1> QED
  BY <1>1 DEF SolveOk, Known, Answered, PastConfig, PastSwap, PastWallet, PastBuild

(* A step of a solve that goes on: what it knows at its next label is left *)
(* to show.                                                                *)
LEMMA SolveGoesOn ==
  ASSUME NEW s \in Solves, SolveOk(s), UNCHANGED <<nextTx, settled, fund>>,
         pc[s] # "idle", pc'[s] # "idle",
         TakerCoins(mine'[s]), \A c \in mine'[s] : c.tx \in TxIds,
         Known(pc'[s], Offer(s), swapIn'[s], mine'[s], tx'[s]),
         arkTxid'[s] = arkTxid[s],
         pc'[s] = "notify" => arkTxid[s] # 0 /\ arkTxid[s] # Refused
  PROVE  SolveOk(s)'
<1>1. TxIds' = TxIds /\ Offer(s)' = Offer(s)
  BY DEF TxIds, Offer
<1>2. Known(pc[s], Offer(s), swapIn[s], mine[s], tx[s])'
  BY <1>1 DEF Known
<1>3. Answered(s)'
  BY DEF SolveOk, Answered
<1> QED
  BY <1>1, <1>2, <1>3 DEF SolveOk

LEMMA SolveNext == IndInv /\ Next => SolveInv'
<1> SUFFICES ASSUME IndInv, Next PROVE SolveInv'
  OBVIOUS
<1> USE DEF IndInv
<1>1. Grows /\ LedgerInv' /\ FundInv'
  BY Monotone, LedgerNext, FundNext
<1>2. /\ pc \in [Solves -> PcLabels]
      /\ DOMAIN swapIn = Solves /\ DOMAIN tx = Solves
      /\ DOMAIN mine = Solves /\ DOMAIN arkTxid = Solves
      /\ \A s \in Solves : SolveOk(s)
  BY DEF SolveInv
<1>3. 0 \in TxIds' /\ nextTx \in Nat \ {0} /\ Len(fund) \in Nat
  BY <1>1, IdsGrow DEF LedgerInv, FundInv
<1>4. ASSUME NEW o \in Offers, NEW d \in Deposits, Fund(o, d) PROVE SolveInv'
  <2>0. PICK n : n = Len(fund) + 1
    OBVIOUS
  <2>1. /\ UNCHANGED <<swapIn, mine, tx, arkTxid, settled>>
        /\ pc' = [pc EXCEPT ![n] = "seen"]
        /\ Len(fund) < MaxFunds
    BY <1>4, <2>0 DEF Fund, Goto, localVars
  <2>2. Len(fund') = n /\ n \in Solves
    <3>1. fund \in Seq(Funds) /\ [offer |-> o, deposit |-> d, txid |-> nextTx] \in Funds
      BY <1>3 DEF FundInv, Funds
    <3> QED
      BY <1>3, <1>4, <2>0, <2>1, <3>1, MaxFundsAssumption DEF Fund, Solves
  <2>3. pc' \in [Solves -> PcLabels]
    BY <1>2, <2>1, <2>2 DEF PcLabels
  <2>4. ASSUME NEW s \in Solves, s # n PROVE SolveOk(s)'
    <3>1. pc'[s] = pc[s]
      BY <1>2, <2>1, <2>4
    <3>2. s > Len(fund) => s > Len(fund')
      BY <1>3, <2>0, <2>2, <2>4 DEF Solves
    <3>3. SolveOk(s)
      BY <1>2
    <3> QED
      BY <1>1, <2>1, <3>1, <3>2, <3>3, SolveKept
  <2>5. SolveOk(n)'
    <3>1. SolveOk(n)
      BY <1>2, <2>2
    <3>2. pc[n] = "idle"
      BY <1>3, <2>0, <3>1 DEF SolveOk
    <3>3. pc'[n] = "seen" /\ ~(n > Len(fund'))
      BY <1>2, <1>3, <2>0, <2>1, <2>2
    <3>4. TxIds \subseteq TxIds'
      BY <1>1, IdsGrow
    <3>5. Answered(n)'
      BY <2>1, <3>1, <3>3 DEF SolveOk, Answered, Grows
    <3> QED
      BY <2>1, <3>1, <3>3, <3>4, <3>5
      DEF SolveOk, Known, PastConfig, PastSwap, PastWallet, PastBuild
  <2> QED
    BY <1>2, <2>1, <2>3, <2>4, <2>5 DEF SolveInv
<1>5. ASSUME NEW s \in Solves, Match(s) \/ SolveStep(s), SolveOk(s)' PROVE SolveInv'
  <2>1. OthersKept(s)
    BY <1>5, SolveLocal
  <2>2. fund' = fund
    BY <1>5, SolveFrame
  <2>3. ASSUME NEW r \in Solves \ {s} PROVE SolveOk(r)'
    BY <1>1, <1>2, <2>1, <2>2, SolveKept DEF OthersKept
  <2> QED
    BY <1>5, <2>1, <2>3 DEF SolveInv, OthersKept
<1>6. ASSUME NEW s \in Solves, Match(s) \/ SolveStep(s), Finish(s) PROVE SolveInv'
  <2>1. pc'[s] = "over" /\ mine'[s] = {} /\ arkTxid'[s] = 0
    BY <1>2, <1>6 DEF Finish, Goto
  <2>2. fund' = fund
    BY <1>6, SolveFrame
  <2>3. pc[s] # "idle"
    BY <1>6, SolveEnds
  <2>4. SolveOk(s)
    BY <1>2
  <2>5. ~(s > Len(fund'))
    BY <2>2, <2>3, <2>4 DEF SolveOk
  <2>6. SolveOk(s)'
    BY <1>3, <2>1, <2>5, SolveOver
  <2> QED
    BY <1>5, <1>6, <2>6
<1>7. ASSUME NEW s \in Solves, Match(s) \/ SolveStep(s), ~Finish(s) PROVE SolveOk(s)'
  <2> DEFINE o == Offer(s)
  <2>1. UNCHANGED <<nextTx, settled, fund>> /\ pc[s] # "idle" /\ pc[s] \in PcLabels
    BY <1>2, <1>7, SolveFrame, SolveEnds
  <2>2. /\ SolveOk(s) /\ s \in 1..Len(fund)
        /\ TakerCoins(mine[s]) /\ \A c \in mine[s] : c.tx \in TxIds
        /\ Known(pc[s], o, swapIn[s], mine[s], tx[s])
    BY <1>2, <1>3, <2>1 DEF SolveOk, Solves
  <2>3. o \in Offers /\ fund[s].deposit \in Deposits
    BY <2>2, Funded
  <2>4. \A c \in utxo : c \in Coins /\ c.tx \in TxIds
    BY DEF LedgerInv
  <2> USE DEF PastConfig, PastSwap, PastWallet, PastBuild
  <2> HIDE DEF o
  <2> SUFFICES /\ pc'[s] # "idle"
               /\ TakerCoins(mine'[s]) /\ \A c \in mine'[s] : c.tx \in TxIds
               /\ Known(pc'[s], o, swapIn'[s], mine'[s], tx'[s])
               /\ arkTxid'[s] = arkTxid[s]
               /\ pc'[s] = "notify" => arkTxid[s] # 0 /\ arkTxid[s] # Refused
    BY <2>1, <2>2, SolveGoesOn DEF o
  <2>5. CASE Match(s)
    <3>1. <<o, fund[s].deposit>> \in Accepts => o.wantAmount > 0
      BY <2>3, AcceptsAssumption
    <3>2. /\ UNCHANGED <<swapIn, mine, tx, arkTxid>>
          /\ \/ pc'[s] = "over"
             \/ pc'[s] = "config" /\ <<o, fund[s].deposit>> \in Accepts
      BY <1>2, <2>5 DEF Match, Goto, localVars, o
    <3> QED
      BY <2>2, <3>1, <3>2 DEF Known
  <2>6. CASE CheckScript(s)
    <3>1. /\ UNCHANGED <<swapIn, mine, tx, arkTxid>>
          /\ pc[s] = "config" /\ pc'[s] = "swap" /\ SwapPkScript(o) = o.swapPkScript
      BY <1>2, <1>7, <2>6 DEF CheckScript, Goto, localVars, o
    <3> QED
      BY <2>2, <3>1 DEF Known
  <2>7. CASE GetSwapVtxo(s)
    <3>1. /\ UNCHANGED <<mine, tx, arkTxid>>
          /\ pc[s] = "swap" /\ pc'[s] = "wallet" /\ swapIn'[s] \in Spendable(o.swapPkScript)
      BY <1>2, <1>7, <2>7 DEF GetSwapVtxo, Goto, o
    <3>2. swapIn'[s] \in utxo /\ swapIn'[s].script = o.swapPkScript
      BY <3>1 DEF Spendable
    <3> QED
      BY <2>2, <2>4, <3>1, <3>2 DEF Known
  <2>8. CASE ListTakerVtxos(s)
    <3>1. /\ UNCHANGED <<swapIn, tx, arkTxid>>
          /\ pc[s] = "wallet" /\ pc'[s] = "build"
          /\ mine'[s] = Spendable(Taker) /\ Spendable(Taker) # {}
      BY <1>2, <1>7, <2>8 DEF ListTakerVtxos, Goto
    <3>2. TakerCoins(Spendable(Taker)) /\ \A c \in Spendable(Taker) : c.tx \in TxIds
      BY <2>4, FS_Subset DEF Spendable, TakerCoins, LedgerInv
    <3> QED
      BY <2>2, <3>1, <3>2 DEF Known
  <2>9. CASE BuildTx(s)
    <3>1. /\ UNCHANGED <<swapIn, mine, arkTxid>>
          /\ pc[s] = "build" /\ pc'[s] = "submit"
          /\ CanBuild(o, swapIn[s], mine[s])
      BY <1>2, <1>7, <2>9 DEF BuildTx, Goto, o
    <3>2. PICK first \in FirstGroups(o, {swapIn[s]} \union mine[s]) :
             tx'[s] = FulfillmentTx(o, swapIn[s], mine[s], first)
      BY <1>2, <1>7, <2>9 DEF BuildTx, o
    <3>3. tx'[s].swap = swapIn[s] /\ tx'[s].mine = mine[s] /\ tx'[s].first = first
      BY <3>2 DEF FulfillmentTx
    <3>4. Built(o, tx'[s])
      BY <2>2, <3>1, <3>2, <3>3 DEF Known, Built
    <3> QED
      BY <2>2, <3>1, <3>4 DEF Known
  <2>10. CASE SubmitTx(s)
    <3>1. /\ UNCHANGED <<swapIn, mine, tx, arkTxid>>
          /\ pc[s] = "submit" /\ pc'[s] = "reply"
      BY <1>2, <2>10 DEF SubmitTx, Goto, localVars
    <3> QED
      BY <2>2, <3>1 DEF Known
  <2>11. CASE SubmitReply(s)
    <3>1. /\ UNCHANGED <<swapIn, mine, tx, arkTxid>>
          /\ pc[s] = "reply" /\ pc'[s] = "notify"
          /\ arkTxid[s] # 0 /\ arkTxid[s] # Refused
      BY <1>2, <2>11 DEF SubmitReply, Goto, localVars, Refused
    <3> QED
      BY <2>2, <3>1 DEF Known
  <2> QED
    BY <1>7, <2>5, <2>6, <2>7, <2>8, <2>9, <2>10, <2>11
    DEF SolveStep, SubmitError, SubmitReplyLost, RpcFail, OnFulfill, OnFulfillFail
<1>8. ASSUME NEW w \in wire, Settle(w) \/ Refuse(w) PROVE SolveInv'
  <2> DEFINE s == w.by
  <2>1. s \in Solves
    BY WireTx, Funded
  <2>2. UNCHANGED <<fund, pc, swapIn, mine, tx>>
    BY <1>8 DEF Settle, Refuse
  <2>3. ASSUME NEW r \in Solves, arkTxid'[r] = arkTxid[r] PROVE SolveOk(r)'
    BY <1>1, <1>2, <2>2, <2>3, SolveKept
  <2>4. PICK a : arkTxid' = IF pc[s] = "reply" THEN [arkTxid EXCEPT ![s] = a] ELSE arkTxid
    BY <1>8 DEF Settle, Refuse, Answer
  <2>5. DOMAIN arkTxid' = Solves /\ \A r \in Solves \ {s} : arkTxid'[r] = arkTxid[r]
    BY <1>2, <2>4
  <2>6. SolveOk(s)'
    <3>1. CASE pc[s] # "reply"
      BY <2>1, <2>3, <2>4, <3>1
    <3>2. CASE pc[s] = "reply"
      <4>1. \/ arkTxid'[s] = Refused
            \/ /\ arkTxid'[s] = nextTx /\ nextTx' = nextTx + 1
               /\ [id |-> nextTx, by |-> s, tx |-> w.tx] \in settled'
        BY <1>2, <1>8, <2>1, <3>2 DEF Settle, Refuse, Answer
      <4>2. Answered(s)'
        BY <2>2, <3>2, <4>1 DEF Answered, Refused
      <4>3. SolveOk(s)
        BY <1>2, <2>1
      <4>4. TxIds \subseteq TxIds' /\ arkTxid'[s] \in TxIds' \union {Refused}
        BY <1>1, <1>3, <4>1 DEF TxIds, Grows
      <4>5. Offer(s)' = Offer(s)
        BY <2>2 DEF Offer
      <4>6. Known(pc[s], Offer(s), swapIn[s], mine[s], tx[s])'
        BY <2>2, <4>3, <4>4, <4>5 DEF SolveOk, Known
      <4> QED
        BY <2>2, <4>2, <4>3, <4>4, <4>6 DEF SolveOk
    <3> QED
      BY <3>1, <3>2
  <2> HIDE DEF s
  <2>7. \A r \in Solves : SolveOk(r)'
    BY <2>3, <2>5, <2>6
  <2> QED
    BY <1>2, <2>2, <2>5, <2>7 DEF SolveInv
<1>9. ASSUME UNCHANGED <<fund, pc, swapIn, mine, tx, arkTxid>> PROVE SolveInv'
  <2>1. \A r \in Solves : SolveOk(r)'
    BY <1>1, <1>2, <1>9, SolveKept
  <2> QED
    BY <1>2, <1>9, <2>1 DEF SolveInv
<1>10. CASE Crash
  <2>1. /\ pc' = [r \in Solves |-> IF pc[r] = "idle" THEN "idle" ELSE "over"]
        /\ mine' = [r \in Solves |-> {}] /\ arkTxid' = [r \in Solves |-> 0]
        /\ DOMAIN swapIn' = Solves /\ DOMAIN tx' = Solves
        /\ fund' = fund
    BY <1>10 DEF Crash
  <2>2. ASSUME NEW r \in Solves PROVE SolveOk(r)'
    <3>1. SolveOk(r)
      BY <1>2
    <3>2. CASE pc[r] = "idle"
      <4>1. r > Len(fund) /\ TakerCoins({})
        BY <3>1, <3>2, FS_EmptySet DEF SolveOk, TakerCoins
      <4>2. pc'[r] = "idle" /\ mine'[r] = {} /\ arkTxid'[r] = 0
        BY <2>1, <3>2
      <4> QED
        BY <1>3, <2>1, <4>1, <4>2
        DEF SolveOk, Known, Answered, PastConfig, PastSwap, PastWallet, PastBuild
    <3>3. CASE pc[r] # "idle"
      <4>1. ~(r > Len(fund')) /\ pc'[r] = "over" /\ mine'[r] = {} /\ arkTxid'[r] = 0
        BY <2>1, <3>1, <3>3 DEF SolveOk
      <4> QED
        BY <1>3, <4>1, SolveOver
    <3> QED
      BY <3>2, <3>3
  <2>3. pc' \in [Solves -> PcLabels] /\ DOMAIN mine' = Solves /\ DOMAIN arkTxid' = Solves
    BY <2>1 DEF PcLabels
  <2> QED
    BY <2>1, <2>2, <2>3 DEF SolveInv
<1>11. ASSUME \/ Cancel
              \/ \E c, unit, n : RivalFulfill(c, unit, n)
              \/ \E c : MakerRefund(c) \/ Expire(c)
       PROVE  UNCHANGED <<fund, pc, swapIn, mine, tx, arkTxid>>
  BY <1>11 DEF Cancel, RivalFulfill, MakerRefund, Expire, localVars
<1> QED
  BY <1>4, <1>5, <1>6, <1>7, <1>8, <1>9, <1>10, <1>11 DEF Next

-----------------------------------------------------------------------------
(* The trade table.                                                        *)

LEMMA RowKept ==
  ASSUME Grows, FundInv, NEW r, \E s \in 1..Len(fund) : RowOf(r, s)
  PROVE  \E s \in 1..Len(fund') : RowOf(r, s)'
<1>1. PICK s \in 1..Len(fund) : RowOf(r, s)
  OBVIOUS
<1>2. s \in Solves /\ Len(fund) \in Nat
  BY Funded DEF FundInv
<1>3. RowOf(r, s)' /\ s \in 1..Len(fund')
  BY <1>1, <1>2 DEF RowOf, Offer, Grows
<1> QED
  BY <1>3

LEMMA RowsNext == IndInv /\ Next => RowsInv'
<1> SUFFICES ASSUME IndInv, Next PROVE RowsInv'
  OBVIOUS
<1> USE DEF IndInv
<1>1. Grows
  BY Monotone
<1>2. /\ trades \in Seq(Rows) /\ Len(trades) \in Nat
      /\ \A i \in 1..Len(trades) : \E s \in 1..Len(fund) : RowOf(trades[i], s)
      /\ \A i, k \in 1..Len(trades) :
            trades[i].offerTxid = trades[k].offerTxid
              \/ trades[i].fulfillTxid = trades[k].fulfillTxid => i = k
  BY DEF RowsInv
<1>3. ASSUME NEW i \in 1..Len(trades), NEW r, r = trades[i]
      PROVE  \E s \in 1..Len(fund') : RowOf(r, s)'
  BY <1>1, <1>2, <1>3, RowKept
<1>4. CASE trades' = trades
  <2>1. ASSUME NEW i \in 1..Len(trades')
        PROVE  \E s \in 1..Len(fund') : RowOf(trades[i], s)'
    <3>1. PICK r : r = trades'[i]
      OBVIOUS
    <3>2. \E s \in 1..Len(fund') : RowOf(r, s)'
      BY <1>3, <1>4, <3>1
    <3> QED
      BY <3>1, <3>2 DEF RowOf
  <2> QED
    BY <1>2, <1>4, <2>1 DEF RowsInv
<1>5. ASSUME NEW s \in Solves, OnFulfill(s) PROVE RowsInv'
  <2>1. PICK r : r = Row(s)
    OBVIOUS
  <2>2. /\ pc[s] = "notify" /\ pc'[s] = "over" /\ trades' = Append(trades, r)
        /\ UNCHANGED <<fund, settled, nextTx>>
    BY <1>5, <2>1 DEF OnFulfill, Finish, Goto, SolveInv, ledgerVars
  <2>3. SolveOk(s) /\ s \in 1..Len(fund)
    BY <2>2 DEF SolveInv, SolveOk, Solves, FundInv
  <2>4. PICK e \in settled : e.by = s /\ e.id = arkTxid[s]
    BY <2>2, <2>3 DEF SolveOk, Answered
  <2>5. /\ r.pay = Offer(s).wantAsset /\ r.amount = Offer(s).wantAmount
        /\ r.offerTxid = fund[s].txid /\ r.fulfillTxid = e.id
    BY <2>1, <2>4 DEF Row
  <2>6. r \in Rows
    <3>1. Offer(s) \in Offers /\ fund[s].deposit \in Deposits /\ fund[s].txid \in Nat
      BY <2>3, Funded
    <3>2. e.id \in Nat
      BY <2>4 DEF SentInv, EntryOk, LedgerInv
    <3>3. Offer(s).wantAsset \in Assets \union {BTC} /\ Offer(s).wantAmount \in Nat
      BY <3>1, OfferAmounts
    <3> QED
      BY <2>1, <2>4, <3>1, <3>2, <3>3 DEF Row, Rows
  <2>7. RowOf(r, s)'
    BY <2>2, <2>4, <2>5 DEF RowOf, Offer
  <2>8. ASSUME NEW i \in 1..Len(trades)
        PROVE  trades[i].offerTxid # r.offerTxid /\ trades[i].fulfillTxid # r.fulfillTxid
    <3>1. PICK k \in 1..Len(fund) : RowOf(trades[i], k)
      BY <1>2
    <3>2. k # s /\ trades[i].offerTxid = fund[k].txid
      BY <2>2, <3>1 DEF RowOf
    <3>3. PICK f \in settled : f.by = k /\ f.id = trades[i].fulfillTxid
      BY <3>1 DEF RowOf
    <3>4. f.id # e.id
      BY <2>4, <3>2, <3>3 DEF SentInv
    <3> QED
      BY <2>3, <2>5, <3>2, <3>3, <3>4 DEF FundInv
  <2>9. /\ trades' \in Seq(Rows) /\ Len(trades') = Len(trades) + 1
        /\ \A i \in 1..Len(trades) : trades'[i] = trades[i]
        /\ trades'[Len(trades) + 1] = r
    BY <1>2, <2>2, <2>6
  <2>10. \A i \in 1..Len(trades') : i \in 1..Len(trades) \/ i = Len(trades) + 1
    BY <1>2, <2>9
  <2>11. ASSUME NEW i \in 1..Len(trades')
         PROVE  \E k \in 1..Len(fund') : RowOf(trades[i], k)'
    <3>1. PICK x : x = trades'[i]
      OBVIOUS
    <3>2. \E k \in 1..Len(fund') : RowOf(x, k)'
      BY <1>3, <2>2, <2>3, <2>7, <2>9, <2>10, <3>1
    <3> QED
      BY <3>1, <3>2 DEF RowOf
  <2>12. \A i, k \in 1..Len(trades') :
            trades'[i].offerTxid = trades'[k].offerTxid
              \/ trades'[i].fulfillTxid = trades'[k].fulfillTxid => i = k
    BY <1>2, <2>8, <2>9, <2>10
  <2> QED
    BY <2>9, <2>11, <2>12 DEF RowsInv
<1>6. ASSUME NEW s \in Solves, Match(s) \/ SolveStep(s), ~OnFulfill(s)
      PROVE  trades' = trades
  BY <1>6 DEF Match, SolveStep, CheckScript, GetSwapVtxo, ListTakerVtxos, BuildTx, SubmitTx,
     SubmitError, SubmitReply, SubmitReplyLost, RpcFail, OnFulfillFail
<1>7. ASSUME ~\E s \in Solves : Match(s) \/ SolveStep(s) PROVE trades' = trades
  BY <1>7 DEF Next, Fund, Settle, Refuse, Cancel, Crash, RivalFulfill, MakerRefund, Expire
<1> QED
  BY <1>4, <1>5, <1>6, <1>7

-----------------------------------------------------------------------------
(* The deposits.                                                           *)

LEMMA FundCoins ==
  ASSUME FundInv, NEW i \in 1..Len(fund)
  PROVE  /\ FundCoin(i).tx = fund[i].txid
         /\ FundCoin(i).script = Offer(i).swapPkScript /\ FundCoin(i).script # Taker
         /\ \A k \in 1..Len(fund) : FundCoin(k) = FundCoin(i) => k = i
<1>1. Offer(i).swapPkScript # Taker
  BY Funded, OffersAssumption
<1>2. \A k \in 1..Len(fund) : FundCoin(k) = FundCoin(i) => k = i
  BY DEF FundInv, FundCoin
<1> QED
  BY <1>1, <1>2 DEF FundCoin, Offer

(* One coin at most belongs to a funding transaction.                      *)
LEMMA CoinOf ==
  ASSUME FundInv, DepositInv, NEW c \in utxo, NEW i \in 1..Len(fund), c.tx = fund[i].txid
  PROVE  c = FundCoin(i)
<1>1. c.script # Taker
  BY DEF DepositInv
<1>2. PICK k \in 1..Len(fund) : c = FundCoin(k)
  BY <1>1 DEF DepositInv
<1>3. k = i
  BY <1>2, FundCoins DEF FundInv
<1> QED
  BY <1>2, <1>3

(* Deposit k is closed by a step, or (k = 0) none is.                      *)
Closes(k) ==
    /\ fund' = fund
    /\ \A c \in utxo' : c.script # Taker => c \in utxo
    /\ \A c \in utxo' : c.script = Taker =>
          c.tx = nextTx \/ \E b \in utxo : b.script = Taker /\ b.tx = c.tx
    /\ \A i \in 1..Len(fund) : FundCoin(i) \in utxo' <=> FundCoin(i) \in utxo /\ i # k
    /\ \A i \in 1..Len(fund) : Closed(i)' <=> Closed(i) \/ i = k
    /\ \A i \in 1..Len(fund) : ~Twice(i)'

LEMMA DepositClosed ==
  ASSUME LedgerInv, FundInv, DepositInv, NEW k, Closes(k)
  PROVE  DepositInv'
<1> USE DEF Closes
<1>1. \A i \in 1..Len(fund) : FundCoin(i)' = FundCoin(i)
  BY DEF FundCoin
<1>2. \A c \in utxo' : c.script # Taker => \E i \in 1..Len(fund) : c = FundCoin(i)
  BY DEF DepositInv
<1>3. ASSUME NEW c \in utxo', c.script = Taker, NEW i \in 1..Len(fund)
      PROVE  c.tx # fund[i].txid
  <2>1. fund[i].txid # nextTx
    BY Funded DEF LedgerInv
  <2> QED
    BY <1>3, <2>1 DEF DepositInv
<1>4. \A i \in 1..Len(fund) : FundCoin(i) \in utxo <=> ~Closed(i)
  BY DEF DepositInv
<1>5. \A i \in 1..Len(fund) : FundCoin(i) \in utxo' <=> ~Closed(i)'
  BY <1>4
<1>6. /\ \A c \in utxo' : c.script # Taker => \E i \in 1..Len(fund') : c = FundCoin(i)'
      /\ \A c \in utxo' : c.script = Taker => \A i \in 1..Len(fund') : c.tx # fund'[i].txid
      /\ \A i \in 1..Len(fund') : FundCoin(i)' \in utxo' <=> ~Closed(i)'
      /\ \A i \in 1..Len(fund') : ~Twice(i)'
  BY <1>1, <1>2, <1>3, <1>5
<1> QED
  BY <1>6 DEF DepositInv

(* A swap of deposit k is put on the ledger.                               *)
Exchanged(k, e) ==
    /\ k \in 1..Len(fund)
    /\ FundCoin(k) \in utxo
    /\ e.tx.swap = FundCoin(k)
    /\ settled' = settled \union {e}
    /\ refunded' = refunded

LEMMA ExchangedSwaps ==
  ASSUME FundInv, DepositInv, fund' = fund, NEW k, NEW e, Exchanged(k, e)
  PROVE  /\ SwapOf(k)' = {e}
         /\ \A i \in Solves \ {k} : SwapOf(i)' = SwapOf(i)
<1> USE DEF Exchanged
<1>1. SwapOf(k) = {}
  BY DEF DepositInv, Closed
<1>2. FundedCoin(k, e.tx.swap)
  BY FundCoins DEF FundedCoin, FundInv
<1>3. \A i \in Solves \ {k} : ~FundedCoin(i, e.tx.swap)
  <2>1. ASSUME NEW i \in Solves \ {k}, FundedCoin(i, e.tx.swap) PROVE FALSE
    <3>1. i \in 1..Len(fund) /\ fund[i].txid = fund[k].txid
      BY <2>1, FundCoins DEF FundedCoin, Solves, FundInv
    <3> QED
      BY <2>1, <3>1 DEF FundInv
  <2> QED
    BY <2>1
<1>4. \A i : SwapOf(i)' = {x \in settled' : FundedCoin(i, x.tx.swap)}
  BY DEF SwapOf, FundedCoin
<1> QED
  BY <1>1, <1>2, <1>3, <1>4 DEF SwapOf

LEMMA ExchangedCloses ==
  ASSUME FundInv, DepositInv, fund' = fund, NEW k, NEW e, Exchanged(k, e),
         NEW R, FundCoin(k) \in R, \A c \in R : c # FundCoin(k) => c.script = Taker,
         NEW N, utxo' = (utxo \ R) \union N, \A c \in N : c.script = Taker /\ c.tx = nextTx
  PROVE  Closes(k)
<1>1. \A i \in 1..Len(fund) : FundCoin(i) \in utxo' <=> FundCoin(i) \in utxo /\ i # k
  BY FundCoins DEF Exchanged
<1>2. ASSUME NEW i \in 1..Len(fund)
      PROVE  (Closed(i)' <=> Closed(i) \/ i = k) /\ ~Twice(i)'
  <2>1. i \in Solves
    BY Funded
  <2>2. i = k => SwapOf(i)' # {}
    BY ExchangedSwaps
  <2>3. i # k => SwapOf(i)' = SwapOf(i)
    BY <2>1, ExchangedSwaps
  <2>4. i = k => ~Closed(i)
    BY DEF DepositInv, Exchanged
  <2> QED
    BY <2>2, <2>3, <2>4 DEF Closed, Twice, Exchanged, DepositInv
<1> QED
  BY <1>1, <1>2 DEF Closes

LEMMA SettleEffect ==
  ASSUME IndInv, NEW w \in wire, Settle(w)
  PROVE  \E k, e : Exchanged(k, e) /\ Closes(k) /\ e.by = w.by /\ e.tx = w.tx
<1> USE DEF IndInv
<1>1. PICK e : e = [id |-> nextTx, by |-> w.by, tx |-> w.tx]
  OBVIOUS
<1>2. Offer(w.by) \in Offers /\ Built(Offer(w.by), w.tx)
  BY WireTx
<1>3. w.tx.swap.script # Taker /\ \A c \in w.tx.mine : c.script = Taker
  BY <1>2, OffersAssumption DEF Built, TakerCoins
<1>4. w.tx.swap \in utxo
  BY DEF Settle, Accepted
<1>5. PICK k \in 1..Len(fund) : w.tx.swap = FundCoin(k)
  BY <1>3, <1>4 DEF DepositInv
<1>6. Exchanged(k, e) /\ fund' = fund
  BY <1>1, <1>4, <1>5 DEF Exchanged, Settle
<1>7. PICK n : n = [tx |-> nextTx, vout |-> 1, script |-> Taker, btc |-> w.tx.taker.btc,
                   assets |-> w.tx.taker.assets, recoverable |-> FALSE]
  OBVIOUS
<1>8. utxo' = (utxo \ ({w.tx.swap} \union w.tx.mine)) \union {n}
  BY <1>7 DEF Settle
<1>9. Closes(k)
  <2>1. \A c \in {n} : c.script = Taker /\ c.tx = nextTx
    BY <1>7
  <2> DEFINE R == {w.tx.swap} \union w.tx.mine
  <2>2. FundCoin(k) \in R /\ \A c \in R : c # FundCoin(k) => c.script = Taker
    BY <1>3, <1>5
  <2> HIDE DEF R
  <2> QED
    BY <1>6, <1>8, <2>1, <2>2, ExchangedCloses DEF R
<1> QED
  BY <1>1, <1>6, <1>9

LEMMA RivalEffect ==
  ASSUME IndInv, NEW c \in utxo, c.script \in Contracts, NEW unit, NEW n,
         RivalFulfill(c, unit, n)
  PROVE  \E k, e : /\ Exchanged(k, e) /\ Closes(k) /\ e.tx.swap = c
                   /\ FulfillScript(c.script, e.tx) /\ e.tx.first = unit
                   /\ e.tx.maker = [btc |-> IF unit = BTC THEN n ELSE Dust,
                                    assets |-> [a \in Assets |-> IF a = unit THEN n ELSE 0]]
<1> USE DEF IndInv
<1>1. c.script # Taker
  BY OffersAssumption DEF Contracts
<1>2. PICK k \in 1..Len(fund) : c = FundCoin(k)
  BY <1>1 DEF DepositInv
<1>3. PICK t : /\ t.swap = c /\ t.first = unit
               /\ t.maker = [btc |-> IF unit = BTC THEN n ELSE Dust,
                             assets |-> [a \in Assets |-> IF a = unit THEN n ELSE 0]]
               /\ FulfillScript(c.script, t)
               /\ settled' = settled \union {[id |-> nextTx, by |-> 0, tx |-> t]}
  BY DEF RivalFulfill
<1>4. PICK e : e = [id |-> nextTx, by |-> 0, tx |-> t]
  OBVIOUS
<1>5. fund' = fund /\ refunded' = refunded /\ utxo' = utxo \ {c}
  BY DEF RivalFulfill
<1>6. Exchanged(k, e)
  BY <1>2, <1>3, <1>4, <1>5 DEF Exchanged
<1>7. Closes(k)
  <2> DEFINE R == {c}
             N == {}
  <2>1. utxo' = (utxo \ R) \union N
    BY <1>5
  <2>2. FundCoin(k) \in R /\ \A b \in R : b # FundCoin(k) => b.script = Taker
    BY <1>2
  <2>3. \A b \in N : b.script = Taker /\ b.tx = nextTx
    OBVIOUS
  <2> HIDE DEF R, N
  <2> QED
    BY <1>5, <1>6, <2>1, <2>2, <2>3, ExchangedCloses
<1> QED
  BY <1>3, <1>4, <1>6, <1>7

LEMMA RefundEffect ==
  ASSUME IndInv, NEW c \in utxo, c.script # Taker, MakerRefund(c)
  PROVE  \E k \in 1..Len(fund) :
            /\ FundCoin(k) \in utxo /\ Closes(k)
            /\ refunded' = refunded \union {fund[k].txid} /\ settled' = settled
<1> USE DEF IndInv
<1>1. PICK k \in 1..Len(fund) : c = FundCoin(k)
  BY DEF DepositInv
<1>2. /\ utxo' = utxo \ {c} /\ refunded' = refunded \union {fund[k].txid}
      /\ settled' = settled /\ fund' = fund
  BY <1>1, FundCoins DEF MakerRefund
<1>3. \A i \in 1..Len(fund) : FundCoin(i) \in utxo' <=> FundCoin(i) \in utxo /\ i # k
  BY <1>1, <1>2, FundCoins
<1>4. \A i : SwapOf(i)' = SwapOf(i)
  BY <1>2 DEF SwapOf, FundedCoin
<1>5. \A i \in 1..Len(fund) : Closed(i)' <=> Closed(i) \/ i = k
  BY <1>2, <1>4 DEF Closed, FundInv
<1>6. \A i \in 1..Len(fund) : ~Twice(i)'
  <2>1. ~Closed(k)
    BY <1>1 DEF DepositInv
  <2> QED
    BY <1>2, <1>4, <2>1 DEF Twice, Closed, FundInv, DepositInv
<1>7. Closes(k)
  BY <1>2, <1>3, <1>5, <1>6 DEF Closes
<1> QED
  BY <1>1, <1>2, <1>7

LEMMA ExpireEffect ==
  ASSUME IndInv, NEW c \in utxo, c.script = Taker, Expire(c)
  PROVE  Closes(0) /\ settled' = settled /\ refunded' = refunded
<1> USE DEF IndInv
<1>1. PICK r : r = [c EXCEPT !.recoverable = TRUE]
  OBVIOUS
<1>2. /\ utxo' = (utxo \ {c}) \union {r}
      /\ settled' = settled /\ refunded' = refunded /\ fund' = fund
  BY <1>1 DEF Expire
<1>3. r.script = Taker /\ r.tx = c.tx
  BY <1>1 DEF LedgerInv, Coins
<1>4. \A i \in 1..Len(fund) : FundCoin(i) \in utxo' <=> FundCoin(i) \in utxo /\ i # 0
  BY <1>2, <1>3, FundCoins
<1>5. \A i : SwapOf(i)' = SwapOf(i)
  BY <1>2 DEF SwapOf, FundedCoin
<1>6. \A i \in 1..Len(fund) : (Closed(i)' <=> Closed(i) \/ i = 0) /\ ~Twice(i)'
  BY <1>2, <1>5 DEF Closed, Twice, DepositInv
<1>7. /\ \A x \in utxo' : x.script # Taker => x \in utxo
      /\ \A x \in utxo' : x.script = Taker =>
            x.tx = nextTx \/ \E b \in utxo : b.script = Taker /\ b.tx = x.tx
  BY <1>2, <1>3
<1> QED
  BY <1>2, <1>4, <1>6, <1>7 DEF Closes

LEMMA QuietEffect ==
  ASSUME DepositInv, UNCHANGED <<utxo, settled, refunded, fund>>
  PROVE  Closes(0)
<1>1. \A i : SwapOf(i)' = SwapOf(i)
  BY DEF SwapOf, FundedCoin
<1>2. \A i \in 1..Len(fund) : (Closed(i)' <=> Closed(i) \/ i = 0) /\ ~Twice(i)'
  BY <1>1 DEF Closed, Twice, DepositInv
<1>3. \A i \in 1..Len(fund) : FundCoin(i) \in utxo' <=> FundCoin(i) \in utxo /\ i # 0
  OBVIOUS
<1> QED
  BY <1>2, <1>3 DEF Closes

(* The coin of a new funding transaction is open; nothing else changes.    *)
LEMMA FundEffect ==
  ASSUME IndInv, NEW o \in Offers, NEW d \in Deposits, Fund(o, d), NEW n, n = Len(fund) + 1
  PROVE  /\ n \in Solves /\ Len(fund') = n /\ fund'[n].offer = o /\ fund'[n].txid = nextTx
         /\ \A i \in 1..Len(fund) : FundCoin(i)' = FundCoin(i) /\ fund'[i] = fund[i]
         /\ \A i \in Solves : SwapOf(i)' = SwapOf(i)
         /\ utxo' = utxo \union {FundCoin(n)'}
         /\ settled' = settled /\ refunded' = refunded
<1> USE DEF IndInv
<1>1. PICK x : x = [offer |-> o, deposit |-> d, txid |-> nextTx]
  OBVIOUS
<1>2. x \in Funds /\ fund \in Seq(Funds) /\ Len(fund) \in Nat
  BY <1>1 DEF Funds, FundInv, LedgerInv
<1>3. /\ fund' = Append(fund, x) /\ settled' = settled /\ refunded' = refunded
      /\ Len(fund) < MaxFunds
  BY <1>1 DEF Fund
<1>4. n \in Solves
  BY <1>2, <1>3, MaxFundsAssumption DEF Solves
<1>5. Len(fund') = n /\ fund'[n] = x /\ \A i \in 1..Len(fund) : fund'[i] = fund[i]
  BY <1>2, <1>3
<1>6. \A i \in 1..Len(fund) : FundCoin(i)' = FundCoin(i)
  BY <1>5 DEF FundCoin
<1>7. utxo' = utxo \union {FundCoin(n)'}
  BY <1>1, <1>5 DEF FundCoin, Fund
<1>8. ASSUME NEW i \in Solves, NEW e \in settled
      PROVE  FundedCoin(i, e.tx.swap)' <=> FundedCoin(i, e.tx.swap)
  <2>1. e.tx.swap.tx \in TxIds
    BY DEF SentInv, EntryOk
  <2>2. e.tx.swap.tx # nextTx
    BY <2>1 DEF TxIds, LedgerInv
  <2>3. CASE i <= Len(fund)
    BY <1>2, <1>5, <2>3 DEF FundedCoin, Solves
  <2>4. CASE i = n
    BY <1>1, <1>2, <1>5, <2>2, <2>4 DEF FundedCoin
  <2>5. CASE i > n
    BY <1>2, <1>5, <2>5 DEF FundedCoin, Solves
  <2> QED
    BY <1>2, <2>3, <2>4, <2>5 DEF Solves
<1>9. \A i \in Solves : SwapOf(i)' = SwapOf(i)
  BY <1>3, <1>8 DEF SwapOf, FundedCoin
<1> QED
  BY <1>1, <1>3, <1>4, <1>5, <1>6, <1>7, <1>9

(* Steps that are none of the above leave coins and deposits alone.        *)
LEMMA QuietSteps ==
  ASSUME Next, ~\E o \in Offers, d \in Deposits : Fund(o, d), ~\E w \in wire : Settle(w),
         ~\E c \in {u \in utxo : u.script \in Contracts} :
             \E unit \in PayableIn(c.script), n \in 0..Owed(c.script) :
                RivalFulfill(c, unit, n),
         ~\E c \in {u \in utxo : u.script # Taker} : MakerRefund(c),
         ~\E c \in {u \in utxo : u.script = Taker} : Expire(c)
  PROVE  UNCHANGED <<utxo, settled, refunded, fund>>
  BY SolveFrame DEF Next, Refuse, Cancel, Crash, ledgerVars

LEMMA DepositNext == IndInv /\ Next => DepositInv'
<1> SUFFICES ASSUME IndInv, Next PROVE DepositInv'
  OBVIOUS
<1>1. ASSUME NEW k, Closes(k) PROVE DepositInv'
  BY <1>1, DepositClosed DEF IndInv
<1>2. ASSUME NEW o \in Offers, NEW d \in Deposits, Fund(o, d) PROVE DepositInv'
  <2>1. PICK n : n = Len(fund) + 1
    OBVIOUS
  <2>2. /\ n \in Solves /\ Len(fund') = n /\ fund'[n].offer = o /\ fund'[n].txid = nextTx
        /\ \A i \in 1..Len(fund) : FundCoin(i)' = FundCoin(i) /\ fund'[i] = fund[i]
        /\ \A i \in Solves : SwapOf(i)' = SwapOf(i)
        /\ utxo' = utxo \union {FundCoin(n)'}
        /\ settled' = settled /\ refunded' = refunded
    BY <1>2, <2>1, FundEffect
  <2>3. Len(fund) \in Nat /\ nextTx \in Nat
    BY DEF IndInv, LedgerInv, FundInv
  <2>4. \A i \in 1..Len(fund') : i \in 1..Len(fund) \/ i = n
    BY <2>1, <2>2, <2>3
  <2>5. FundCoin(n)'.tx = nextTx /\ FundCoin(n)'.script # Taker
    BY <2>2, OffersAssumption DEF FundCoin
  <2>6. \A c \in utxo : c.tx # nextTx
    BY DEF IndInv, LedgerInv, TxIds
  <2>7. \A i \in 1..Len(fund) : i \in Solves /\ FundCoin(i).tx # nextTx
    BY Funded, FundCoins DEF IndInv, LedgerInv
  <2>8. \A c \in utxo' : c.script # Taker => \E i \in 1..Len(fund') : c = FundCoin(i)'
    <3>1. 1..Len(fund) \subseteq 1..Len(fund') /\ n \in 1..Len(fund')
      BY <2>1, <2>2, <2>3
    <3> QED
      BY <2>2, <3>1 DEF IndInv, DepositInv
  <2>9. \A c \in utxo' : c.script = Taker => \A i \in 1..Len(fund') : c.tx # fund'[i].txid
    BY <2>2, <2>4, <2>5, <2>6 DEF IndInv, DepositInv
  <2>10. ASSUME NEW i \in 1..Len(fund) PROVE (FundCoin(i)' \in utxo' <=> ~Closed(i)') /\ ~Twice(i)'
    <3>1. (Closed(i)' <=> Closed(i)) /\ (Twice(i)' <=> Twice(i))
      BY <2>2, <2>7 DEF Closed, Twice
    <3>2. (FundCoin(i) \in utxo <=> ~Closed(i)) /\ ~Twice(i)
      BY DEF IndInv, DepositInv
    <3> QED
      BY <2>2, <2>5, <2>7, <3>1, <3>2
  <2>11. FundCoin(n)' \in utxo' /\ ~Closed(n)' /\ ~Twice(n)'
    <3>1. SwapOf(n) = {}
      BY <2>1, <2>3 DEF SwapOf, FundedCoin
    <3>2. nextTx \notin refunded
      BY DEF IndInv, LedgerInv, TxIds
    <3> QED
      BY <2>2, <3>1, <3>2 DEF Closed, Twice
  <2> QED
    BY <2>4, <2>8, <2>9, <2>10, <2>11 DEF DepositInv
<1>3. ASSUME NEW w \in wire, Settle(w) PROVE DepositInv'
  BY <1>1, <1>3, SettleEffect
<1>4. ASSUME NEW c \in {u \in utxo : u.script \in Contracts}, NEW unit, NEW n,
             RivalFulfill(c, unit, n)
      PROVE  DepositInv'
  BY <1>1, <1>4, RivalEffect
<1>5. ASSUME NEW c \in {u \in utxo : u.script # Taker}, MakerRefund(c) PROVE DepositInv'
  BY <1>1, <1>5, RefundEffect
<1>6. ASSUME NEW c \in {u \in utxo : u.script = Taker}, Expire(c) PROVE DepositInv'
  BY <1>1, <1>6, ExpireEffect
<1>7. CASE UNCHANGED <<utxo, settled, refunded, fund>>
  BY <1>1, <1>7, QuietEffect DEF IndInv
<1> QED
  BY <1>2, <1>3, <1>4, <1>5, <1>6, <1>7, QuietSteps

-----------------------------------------------------------------------------
(* The theorems.                                                           *)

(* Whatever the other solves, the rivals, the makers and the faults do,    *)
(* every step of plugin.fulfill keeps the invariant.                       *)
THEOREM Invariance == Spec => []IndInv
<1>1. Init => IndInv
  BY Initial
<1>2. IndInv /\ [Next]_vars => IndInv'
  <2>1. IndInv /\ Next => IndInv'
    BY LedgerNext, FlagNext, FundNext, SolveNext, SentNext, RowsNext, DepositNext DEF IndInv
  <2>2. IndInv /\ UNCHANGED vars => IndInv'
    <3> SUFFICES ASSUME IndInv, UNCHANGED vars PROVE IndInv'
      OBVIOUS
    <3> USE DEF IndInv, vars
    <3>1. LedgerInv' /\ FlagInv' /\ FundInv'
      BY DEF LedgerInv, FlagInv, FundInv, TxIds
    <3>2. SolveInv'
      BY DEF SolveInv, SolveOk, Known, Answered, TxIds, Offer
    <3>3. SentInv' /\ RowsInv'
      BY DEF SentInv, WireOk, EntryOk, RowsInv, RowOf, TxIds, Offer
    <3>4. DepositInv'
      BY DEF DepositInv, FundCoin, Closed, Twice, SwapOf, FundedCoin
    <3> QED
      BY <3>1, <3>2, <3>3, <3>4
  <2> QED
    BY <2>1, <2>2
<1> QED
  BY <1>1, <1>2, PTL DEF Spec

(* Every variable has its type, and a goroutine that runs FulfillOffer has *)
(* set the locals its next call needs.                                     *)
THEOREM TypeCorrect == Spec => []TypeOK
<1>1. IndInv => TypeOK
  <2> SUFFICES ASSUME IndInv PROVE TypeOK
    OBVIOUS
  <2> USE DEF IndInv
  <2>1. \A c \in Coins : c.tx \in TxIds => IsCoin(c)
    BY DEF Coins, IsCoin
  <2>2. nextTx \in Nat \ {0} /\ (\A c \in utxo : IsCoin(c)) /\ refunded \subseteq TxIds
    BY <2>1 DEF LedgerInv
  <2>3. /\ Len(fund) <= MaxFunds
        /\ \A i \in DOMAIN fund :
              /\ fund[i].offer \in Offers /\ fund[i].deposit \in Deposits
              /\ fund[i].txid \in TxIds
    <3>1. DOMAIN fund = 1..Len(fund) /\ Len(fund) <= MaxFunds
      BY DEF FundInv
    <3> QED
      BY <3>1, Funded DEF Offer, TxIds, LedgerInv
  <2>4. \A e \in settled : e.id \in TxIds /\ e.by \in Solves \union {0}
    <3>1. ASSUME NEW e \in settled PROVE e.id \in TxIds /\ e.by \in Solves \union {0}
      <4>1. e.id \in 1..(nextTx - 1) /\ e.by \in 0..Len(fund)
        BY DEF SentInv, EntryOk
      <4>2. e.by # 0 => e.by \in 1..Len(fund)
        BY <4>1 DEF FundInv
      <4> QED
        BY <4>1, <4>2, Funded DEF TxIds, LedgerInv
    <3> QED
      BY <3>1
  <2>5. ASSUME NEW s \in Solves
        PROVE  /\ pc[s] = "idle" <=> s > Len(fund)
               /\ pc[s] \in {"wallet", "build", "submit", "reply", "notify"} => IsCoin(swapIn[s])
               /\ pc[s] \in {"build", "submit", "reply", "notify"} => mine[s] # {}
               /\ \A c \in mine[s] : IsCoin(c)
               /\ arkTxid[s] \in TxIds \union {Refused}
    <3>1. SolveOk(s)
      BY DEF SolveInv
    <3>2. pc[s] \in PastSwap => IsCoin(swapIn[s])
      BY <2>1, <3>1 DEF SolveOk, Known
    <3>3. pc[s] \in PastWallet => mine[s] # {}
      BY <3>1 DEF SolveOk, Known
    <3>4. \A c \in mine[s] : IsCoin(c)
      BY <2>1, <3>1 DEF SolveOk, TakerCoins
    <3> QED
      BY <3>1, <3>2, <3>3, <3>4 DEF SolveOk, PastConfig, PastSwap, PastWallet
  <2>6. \A w \in wire : w.by \in Solves
    BY WireTx, Funded
  <2>7. cancelled \in BOOLEAN /\ crashed \in BOOLEAN
    BY DEF FlagInv
  <2>8. pc \in [Solves -> PcLabels]
    BY DEF SolveInv
  <2> QED
    BY <2>2, <2>3, <2>4, <2>5, <2>6, <2>7, <2>8 DEF TypeOK
<1> QED
  BY <1>1, Invariance, PTL

(* A solve that is about to submit has built its transaction for an offer  *)
(* that wants something.                                                   *)
LEMMA Submitting ==
  ASSUME IndInv, NEW s \in Solves, pc[s] = "submit"
  PROVE  Offer(s) \in Offers /\ Offer(s).wantAmount > 0 /\ Built(Offer(s), tx[s])
<1>1. SolveOk(s) /\ s \in 1..Len(fund)
  BY DEF IndInv, SolveInv, SolveOk, FundInv, Solves
<1>2. Offer(s) \in Offers
  BY <1>1, Funded DEF IndInv
<1> QED
  BY <1>1, <1>2 DEF SolveOk, Known, PastConfig, PastSwap, PastWallet, PastBuild

(* What FulfillOffer submits moves the value of its inputs and none but    *)
(* it: sats in are sats out, for any coins the indexer and the wallet      *)
(* listed.                                                                 *)
THEOREM Balance == Spec => []BuiltTxBalanced
<1>1. IndInv => BuiltTxBalanced
  <2> SUFFICES ASSUME IndInv, NEW s \in Solves, pc[s] = "submit"
               PROVE  LET t == tx[s]
                          ins == {t.swap} \union t.mine
                      IN  /\ t.maker.btc + t.taker.btc = TotalBtc(ins)
                          /\ t.taker.btc >= 0
                          /\ \/ t.maker.btc >= 0
                             \/ Offer(s).wantAsset = BTC /\ Offer(s).wantAmount >= Half
                          /\ \A a \in Assets :
                                \/ t.maker.assets[a] + t.taker.assets[a] = TotalAsset(a, ins)
                                \/ /\ a = Offer(s).wantAsset
                                   /\ TotalAsset(a, ins) < Offer(s).wantAmount
    BY DEF BuiltTxBalanced
  <2>1. PICK o \in Offers : o = Offer(s) /\ Built(o, tx[s])
    BY Submitting
  <2>2. PICK t : t = tx[s]
    OBVIOUS
  <2>3. Built(o, t)
    BY <2>1, <2>2
  <2>4. /\ t.maker.btc + t.taker.btc = TotalBtc({t.swap} \union t.mine)
        /\ t.taker.btc >= 0
        /\ t.maker.btc >= 0 \/ (o.wantAsset = BTC /\ o.wantAmount >= Half)
    <3>1. /\ t.maker.btc = MakerBtc(o) /\ t.taker.btc \in Nat
          /\ t.maker.btc + t.taker.btc = TotalBtc({t.swap} \union t.mine)
      BY <2>3, BuiltSats
    <3>2. MakerBtc(o) >= 0 \/ (o.wantAsset = BTC /\ o.wantAmount >= Half)
      BY OfferAmounts, DustAssumption DEF MakerBtc
    <3> QED
      BY <3>1, <3>2
  <2>5. \A a \in Assets :
           \/ t.maker.assets[a] + t.taker.assets[a] = TotalAsset(a, {t.swap} \union t.mine)
           \/ a = o.wantAsset /\ TotalAsset(a, {t.swap} \union t.mine) < o.wantAmount
    BY <2>3, Balanced
  <2> QED
    BY <2>1, <2>2, <2>4, <2>5
<1> QED
  BY <1>1, Invariance, PTL

(* What FulfillOffer submits for a P2TR maker script and for sats that fit *)
(* an int64 satisfies the contract it reveals and creates nothing, unless  *)
(* the taker is short of the asset: the wanted group is first in the       *)
(* packet.                                                                 *)
THEOREM Acceptability == Spec => []SubmitsAcceptableTx
<1>1. IndInv => SubmitsAcceptableTx
  <2> SUFFICES ASSUME IndInv, NEW s \in Solves, pc[s] = "submit"
               PROVE  LET o == Offer(s)
                      IN  \/ FulfillScript(tx[s].revealed, tx[s]) /\ CreatesNothing(tx[s])
                          \/ o.maker.version # 1
                          \/ o.wantAsset = BTC /\ o.wantAmount >= Half
                          \/ Short(o, tx[s])
    BY DEF SubmitsAcceptableTx
  <2>1. PICK o \in Offers : o = Offer(s) /\ o.wantAmount > 0 /\ Built(o, tx[s])
    BY Submitting
  <2>2. PICK t : t = tx[s]
    OBVIOUS
  <2>3. PICK n : n = TotalAsset(o.wantAsset, {t.swap} \union t.mine)
    OBVIOUS
  <2>4. n \in Nat /\ o.wantAmount \in Nat /\ Half \in Nat
    BY <2>1, <2>2, <2>3, OfferAmounts, Inputs DEF TotalAsset
  <2>5. /\ o.wantAsset = BTC \/ n >= o.wantAmount
        /\ o.maker.version = 1
        /\ o.wantAsset = BTC => o.wantAmount < Half
        => FulfillScript(t.revealed, t) /\ CreatesNothing(t)
    BY <2>1, <2>2, <2>3, Acceptable
  <2>6. n >= o.wantAmount \/ n < o.wantAmount
    BY <2>4
  <2>7. o.wantAmount < Half \/ o.wantAmount >= Half
    BY <2>4
  <2> QED
    BY <2>1, <2>2, <2>3, <2>5, <2>6, <2>7 DEF Short
<1> QED
  BY <1>1, Invariance, PTL

LEMMA IndInvExact == IndInv => SwapIsExact
<1> SUFFICES ASSUME IndInv, NEW e \in settled, e.by # 0
             PROVE  LET o == Offer(e.by)
                        ins == {e.tx.swap} \union e.tx.mine
                        sats == IF o.wantAsset = BTC THEN o.wantAmount ELSE Dust
                    IN  /\ e.tx.makerScript = o.maker
                        /\ e.tx.maker.btc = sats
                        /\ e.tx.taker.btc = TotalBtc(ins) - sats
                        /\ \A a \in Assets :
                              /\ e.tx.maker.assets[a] = ToMaker(o, a)
                              /\ e.tx.taker.assets[a] = TotalAsset(a, ins) - ToMaker(o, a)
  BY DEF SwapIsExact
<1>1. e.by \in 1..Len(fund) /\ Approved(Offer(e.by), e.tx)
  BY DEF IndInv, SentInv, EntryOk, FundInv
<1>2. PICK o \in Offers : o = Offer(e.by)
  BY <1>1, Funded DEF IndInv
<1>3. PICK t : t = e.tx
  OBVIOUS
<1>4. Built(o, t) /\ FulfillScript(SwapPkScript(o), t) /\ CreatesNothing(t)
  BY <1>1, <1>2, <1>3 DEF Approved
<1>5. t.makerScript = o.maker
  BY <1>4, BuiltFields
<1>6. PICK sats : sats = IF o.wantAsset = BTC THEN o.wantAmount ELSE Dust
  OBVIOUS
<1>7. t.maker.btc = sats
  BY <1>4, <1>6, ExactSats
<1>8. t.taker.btc = TotalBtc({t.swap} \union t.mine) - sats
  <2>1. /\ t.maker.btc = MakerBtc(o) /\ MakerBtc(o) \in Int /\ t.taker.btc \in Nat
        /\ t.maker.btc + t.taker.btc = TotalBtc({t.swap} \union t.mine)
    BY <1>4, BuiltSats
  <2> QED
    BY <1>7, <2>1
<1>9. \A a \in Assets :
         /\ t.maker.assets[a] = ToMaker(o, a)
         /\ t.taker.assets[a] = TotalAsset(a, {t.swap} \union t.mine) - ToMaker(o, a)
  BY <1>4, Exact
<1> QED
  BY <1>2, <1>3, <1>5, <1>6, <1>7, <1>8, <1>9

(* The fulfillments of the bot that are on the ledger pay what the offer   *)
(* it matched wants, in sats or in the very asset, to the maker's script,  *)
(* not a sat or unit more, and leave the rest to the taker.                *)
THEOREM Exactness == Spec => []SwapIsExact
  BY IndInvExact, Invariance, PTL

(* In the unit the maker wants, it is paid what its offer asks for.        *)
LEMMA PaidInFull ==
  ASSUME IndInv, NEW e \in settled, e.by # 0
  PROVE  /\ Offer(e.by) \in Offers
         /\ e.tx.swap.script = SwapPkScript(Offer(e.by))
         /\ Offer(e.by).wantAmount = IF Offer(e.by).wantAsset = BTC THEN e.tx.maker.btc
                                       ELSE e.tx.maker.assets[Offer(e.by).wantAsset]
<1>1. e.by \in 1..Len(fund) /\ Built(Offer(e.by), e.tx)
  BY DEF IndInv, SentInv, EntryOk, Approved, FundInv
<1>2. PICK o \in Offers : o = Offer(e.by)
  BY <1>1, Funded DEF IndInv
<1>3. e.tx.swap.script = SwapPkScript(o)
  BY <1>1, <1>2 DEF Built
<1>4. /\ e.tx.maker.btc = IF o.wantAsset = BTC THEN o.wantAmount ELSE Dust
      /\ \A a \in Assets : e.tx.maker.assets[a] = ToMaker(o, a)
  BY <1>2, IndInvExact DEF SwapIsExact
<1>5. o.wantAsset \in Assets \union {BTC}
  BY OfferAmounts
<1>6. o.wantAmount = IF o.wantAsset = BTC THEN e.tx.maker.btc ELSE e.tx.maker.assets[o.wantAsset]
  BY <1>4, <1>5 DEF ToMaker
<1> QED
  BY <1>2, <1>3, <1>6

(* The rows OnFulfill inserts name the bot's own fulfillments with what    *)
(* they paid, and no fulfillment and no offer has two, whatever fails, is  *)
(* cancelled or crashes in between.                                        *)
THEOREM RowsTellTruth == Spec => []RowsBacked
<1>1. IndInv => RowsBacked
  <2> SUFFICES ASSUME IndInv PROVE RowsBacked
    OBVIOUS
  <2>1. DOMAIN trades = 1..Len(trades)
    BY DEF IndInv, RowsInv
  <2>2. ASSUME NEW i \in 1..Len(trades)
        PROVE  \E e \in settled :
                  /\ e.by # 0
                  /\ e.id = trades[i].fulfillTxid
                  /\ trades[i].pay = Offer(e.by).wantAsset
                  /\ trades[i].amount = IF trades[i].pay = BTC THEN e.tx.maker.btc
                                          ELSE e.tx.maker.assets[trades[i].pay]
    <3>1. PICK s \in 1..Len(fund) : RowOf(trades[i], s)
      BY DEF IndInv, RowsInv
    <3>2. PICK e \in settled : e.by = s /\ e.id = trades[i].fulfillTxid
      BY <3>1 DEF RowOf
    <3>3. s # 0
      BY DEF IndInv, FundInv
    <3>4. /\ e.tx.swap.script = SwapPkScript(Offer(s))
          /\ Offer(s).wantAmount = IF Offer(s).wantAsset = BTC THEN e.tx.maker.btc
                                     ELSE e.tx.maker.assets[Offer(s).wantAsset]
      BY <3>2, <3>3, PaidInFull
    <3>5. trades[i].pay = Offer(s).wantAsset /\ trades[i].amount = Offer(s).wantAmount
      BY <3>1 DEF RowOf
    <3> QED
      BY <3>2, <3>3, <3>4, <3>5
  <2>3. \A i, k \in 1..Len(trades) : i # k =>
           /\ trades[i].fulfillTxid # trades[k].fulfillTxid
           /\ trades[i].offerTxid # trades[k].offerTxid
    BY DEF IndInv, RowsInv
  <2> QED
    BY <2>1, <2>2, <2>3 DEF RowsBacked
<1> QED
  BY <1>1, Invariance, PTL

(* A deposit is indexed as unspent exactly while it is not closed.         *)
LEMMA UnspentIsOpen ==
  ASSUME IndInv, NEW i \in 1..Len(fund)
  PROVE  (\A c \in utxo : c.tx # fund[i].txid) <=> Closed(i)
<1>1. FundCoin(i).tx = fund[i].txid
  BY FundCoins DEF IndInv
<1>2. FundCoin(i) \in utxo <=> ~Closed(i)
  BY DEF IndInv, DepositInv
<1>3. \A c \in utxo : c.tx = fund[i].txid => c = FundCoin(i)
  BY CoinOf DEF IndInv
<1> QED
  BY <1>1, <1>2, <1>3

(* GetOffers tells a maker the truth: a deposit is there once, with its    *)
(* value, and spendable exactly until it is swapped, by whomever, or taken *)
(* back.                                                                   *)
THEOREM MakerInformed == Spec => []MakerSeesOutcome
<1>1. IndInv => MakerSeesOutcome
  <2> SUFFICES ASSUME IndInv, NEW i \in DOMAIN fund
      PROVE {st \in GetOffers(fund[i].offer.swapPkScript) : st.txid = fund[i].txid}
              = {[txid |-> fund[i].txid, value |-> fund[i].deposit.btc,
                  spendable |-> SwapOf(i) = {} /\ fund[i].txid \notin refunded]}
    BY DEF MakerSeesOutcome
  <2> DEFINE script == fund[i].offer.swapPkScript
             spent(k) == \A c \in utxo : c.tx # fund[k].txid
             vtxo(k) == [txid |-> fund[k].txid, amount |-> fund[k].deposit.btc,
                         spent |-> spent(k)]
             answer == [txid |-> fund[i].txid, value |-> fund[i].deposit.btc,
                        spendable |-> SwapOf(i) = {} /\ fund[i].txid \notin refunded]
  <2>1. DOMAIN fund = 1..Len(fund)
    BY DEF IndInv, FundInv
  <2>2. (~spent(i)) = (SwapOf(i) = {} /\ fund[i].txid \notin refunded)
    BY <2>1, UnspentIsOpen DEF Closed
  <2>3. Status(vtxo(i)) = answer
    BY <2>2 DEF Status
  <2>4. IndexedVtxos(script) =
          {vtxo(k) : k \in {k \in DOMAIN fund : fund[k].offer.swapPkScript = script}}
    BY DEF IndexedVtxos
  <2>5. vtxo(i) \in IndexedVtxos(script)
    BY <2>4
  <2>6. answer \in GetOffers(script) /\ answer.txid = fund[i].txid
    BY <2>3, <2>5 DEF GetOffers
  <2>7. ASSUME NEW st \in GetOffers(script), st.txid = fund[i].txid PROVE st = answer
    <3>1. PICK k \in DOMAIN fund : st = Status(vtxo(k))
      BY <2>4 DEF GetOffers
    <3>2. fund[k].txid = fund[i].txid
      BY <2>7, <3>1 DEF Status
    <3>3. k = i
      BY <2>1, <3>2 DEF IndInv, FundInv
    <3> QED
      BY <2>3, <3>1, <3>3
  <2> HIDE DEF answer, script
  <2>8. {st \in GetOffers(script) : st.txid = fund[i].txid} = {answer}
    BY <2>6, <2>7
  <2> QED
    BY <2>8 DEF answer, script
<1> QED
  BY <1>1, Invariance, PTL

-----------------------------------------------------------------------------
(* Fulfillment implements AtomicSwap.                                      *)

(* The state of a deposit, once the coins that exist are known.            *)
StatesAre ==
    \A i \in Solves :
        DepositState(i) =
          IF i > Len(fund) THEN "absent"
          ELSE IF FundCoin(i) \in utxo THEN "open"
          ELSE IF SwapOf(i) # {} THEN "swapped" ELSE "refunded"

LEMMA States == IndInv => StatesAre
<1> SUFFICES ASSUME IndInv, NEW i \in Solves
             PROVE  DepositState(i) =
                      IF i > Len(fund) THEN "absent"
                      ELSE IF FundCoin(i) \in utxo THEN "open"
                      ELSE IF SwapOf(i) # {} THEN "swapped" ELSE "refunded"
  BY DEF StatesAre
<1>0. Len(fund) \in Nat
  BY DEF IndInv, FundInv
<1>1. CASE i > Len(fund)
  <2>1. SwapOf(i) = {} /\ ~\E c \in utxo : FundedCoin(i, c)
    BY <1>0, <1>1 DEF SwapOf, FundedCoin, Solves
  <2>2. ~(i <= Len(fund))
    BY <1>0, <1>1 DEF Solves
  <2> QED
    BY <1>1, <2>1, <2>2 DEF DepositState
<1>2. CASE ~(i > Len(fund))
  <2>1. i \in 1..Len(fund) /\ i <= Len(fund)
    BY <1>0, <1>2 DEF Solves
  <2>2. (\E c \in utxo : FundedCoin(i, c)) <=> FundCoin(i) \in utxo
    BY <2>1, FundCoins, CoinOf DEF FundedCoin, IndInv
  <2>3. FundCoin(i) \notin utxo => SwapOf(i) # {} \/ fund[i].txid \in refunded
    BY <2>1 DEF IndInv, DepositInv, Closed
  <2>4. /\ FundCoin(i) \in utxo => SwapOf(i) = {} /\ fund[i].txid \notin refunded
        /\ ~(SwapOf(i) # {} /\ fund[i].txid \in refunded)
    BY <2>1 DEF IndInv, DepositInv, Closed, Twice
  <2>5. CASE FundCoin(i) \in utxo
    BY <1>2, <2>1, <2>2, <2>4, <2>5 DEF DepositState
  <2>6. CASE FundCoin(i) \notin utxo /\ SwapOf(i) # {}
    BY <1>2, <2>1, <2>2, <2>4, <2>6 DEF DepositState
  <2>7. CASE FundCoin(i) \notin utxo /\ SwapOf(i) = {}
    BY <1>2, <2>1, <2>2, <2>3, <2>7 DEF DepositState
  <2> QED
    BY <2>5, <2>6, <2>7
<1> QED
  BY <1>1, <1>2

(* What a contract's script makes its spender pay at least is an amount.   *)
LEMMA PriceIsAmount ==
  ASSUME NEW script \in Contracts
  PROVE  Owed(script) \in Uint64 /\ script.amount \in Int /\ script.amount <= Owed(script)
<1>1. PICK o \in Offers : script = SwapPkScript(o)
  BY DEF Contracts
<1>2. PICK n : n = Int64(o.wantAmount)
  OBVIOUS
<1>3. script.amount = n
  BY <1>1, <1>2 DEF SwapPkScript
<1>4. n \in Int /\ n < Half /\ Half \in Nat \ {0}
  BY <1>2, OfferAmounts, HalfAssumption
<1>5. PICK least \in {0, 1} : least = IF script.wants = BTC THEN 0 ELSE 1
  OBVIOUS
<1>6. Owed(script) = IF n > least THEN n ELSE least
  BY <1>3, <1>5 DEF Owed
<1> QED
  BY <1>3, <1>4, <1>5, <1>6 DEF Uint64

(* The maker's receipt for a swap.                                         *)
PaidBy(e) ==
    IF e.tx.swap.script.wants = BTC THEN e.tx.maker.btc ELSE e.tx.maker.assets[e.tx.first]

LEMMA PaidSame ==
  ASSUME NEW i, SwapOf(i)' = SwapOf(i)
  PROVE  Paid(i)' = Paid(i)
  BY DEF Paid

LEMMA ExchangeStep ==
  ASSUME IndInv, IndInv', NEW k, NEW e, Exchanged(k, e), Closes(k),
         PaidBy(e) \in Uint64, PaidBy(e) >= Price(k)
  PROVE  Swap!Exchange(k)
<1>1. /\ k \in Solves /\ k \in 1..Len(fund) /\ fund' = fund
      /\ ~(k > Len(fund)) /\ Len(fund) \in Nat
  BY Funded DEF IndInv, Exchanged, Closes, FundInv
<1>2. StatesAre /\ StatesAre'
  BY States, PTL
<1>3. SwapOf(k)' = {e} /\ \A i \in Solves \ {k} : SwapOf(i)' = SwapOf(i)
  BY <1>1, ExchangedSwaps DEF IndInv
<1>4. \A i : FundCoin(i)' = FundCoin(i) /\ Price(i)' = Price(i)
  BY <1>1 DEF FundCoin, Price
<1>5. DepositState(k) = "open" /\ DepositState(k)' = "swapped"
  <2>1. FundCoin(k) \in utxo /\ FundCoin(k)' \notin utxo'
    BY <1>1, <1>4 DEF Exchanged, Closes
  <2> QED
    BY <1>1, <1>2, <1>3, <2>1 DEF StatesAre
<1>6. ASSUME NEW i \in Solves \ {k} PROVE DepositState(i)' = DepositState(i)
  <2>1. CASE i > Len(fund)
    BY <1>1, <1>2, <2>1 DEF StatesAre
  <2>2. CASE ~(i > Len(fund))
    <3>1. i \in 1..Len(fund)
      BY <1>1, <2>2 DEF Solves
    <3>2. FundCoin(i)' \in utxo' <=> FundCoin(i) \in utxo
      BY <1>4, <3>1 DEF Closes
    <3> QED
      BY <1>1, <1>2, <1>3, <2>2, <3>2 DEF StatesAre
  <2> QED
    BY <2>1, <2>2
<1>7. Paid(k)' = PaidBy(e) /\ \A i \in Solves \ {k} : Paid(i)' = Paid(i)
  <2>1. (CHOOSE x \in {e} : TRUE) = e
    OBVIOUS
  <2>2. Paid(k)' = PaidBy(e)
    <3>1. Paid(k)' = LET t == (CHOOSE x \in {e} : TRUE).tx
                     IN  IF t.swap.script.wants = BTC
                           THEN t.maker.btc ELSE t.maker.assets[t.first]
      BY <1>3 DEF Paid
    <3> QED
      BY <2>1, <3>1 DEF PaidBy
  <2>3. \A i \in Solves \ {k} : Paid(i)' = Paid(i)
    BY <1>3, PaidSame
  <2> QED
    BY <2>2, <2>3
<1>8. [i \in Solves |-> DepositState(i)]' =
         [[i \in Solves |-> DepositState(i)] EXCEPT ![k] = "swapped"]
  BY <1>1, <1>5, <1>6
<1>9. [i \in Solves |-> Paid(i)]' = [[i \in Solves |-> Paid(i)] EXCEPT ![k] = PaidBy(e)]
  BY <1>1, <1>7
<1>10. [i \in Solves |-> Price(i)]' = [i \in Solves |-> Price(i)]
  BY <1>4
<1> QED
  BY <1>1, <1>5, <1>8, <1>9, <1>10 DEF Swap!Exchange

LEMMA RefundStep ==
  ASSUME IndInv, IndInv', NEW k \in 1..Len(fund), FundCoin(k) \in utxo, Closes(k),
         refunded' = refunded \union {fund[k].txid}, settled' = settled
  PROVE  Swap!Refund(k)
<1>1. k \in Solves /\ fund' = fund /\ ~(k > Len(fund)) /\ Len(fund) \in Nat
  BY Funded DEF IndInv, Closes, FundInv
<1>2. StatesAre /\ StatesAre'
  BY States, PTL
<1>3. \A i : SwapOf(i)' = SwapOf(i)
  BY <1>1 DEF SwapOf, FundedCoin
<1>4. \A i : FundCoin(i)' = FundCoin(i) /\ Price(i)' = Price(i) /\ Paid(i)' = Paid(i)
  <2>1. \A i : Paid(i)' = Paid(i)
    BY <1>3, PaidSame
  <2> QED
    BY <1>1, <2>1 DEF FundCoin, Price
<1>5. DepositState(k) = "open" /\ DepositState(k)' = "refunded"
  <2>1. FundCoin(k)' \notin utxo'
    BY <1>1, <1>4 DEF Closes
  <2>2. SwapOf(k) = {}
    BY DEF IndInv, DepositInv, Closed
  <2> QED
    BY <1>1, <1>2, <1>3, <2>1, <2>2 DEF StatesAre
<1>6. ASSUME NEW i \in Solves \ {k} PROVE DepositState(i)' = DepositState(i)
  <2>1. CASE i > Len(fund)
    BY <1>1, <1>2, <2>1 DEF StatesAre
  <2>2. CASE ~(i > Len(fund))
    <3>1. i \in 1..Len(fund)
      BY <1>1, <2>2 DEF Solves
    <3>2. FundCoin(i)' \in utxo' <=> FundCoin(i) \in utxo
      BY <1>4, <3>1 DEF Closes
    <3> QED
      BY <1>1, <1>2, <1>3, <2>2, <3>2 DEF StatesAre
  <2> QED
    BY <2>1, <2>2
<1>7. [i \in Solves |-> DepositState(i)]' =
         [[i \in Solves |-> DepositState(i)] EXCEPT ![k] = "refunded"]
  BY <1>1, <1>5, <1>6
<1>8. /\ [i \in Solves |-> Price(i)]' = [i \in Solves |-> Price(i)]
      /\ [i \in Solves |-> Paid(i)]' = [i \in Solves |-> Paid(i)]
  BY <1>4
<1> QED
  BY <1>1, <1>5, <1>7, <1>8 DEF Swap!Refund

LEMMA DepositStep ==
  ASSUME IndInv, IndInv', NEW o \in Offers, NEW d \in Deposits, Fund(o, d),
         NEW n, n = Len(fund) + 1
  PROVE  n \in Solves /\ Swap!Deposit(n)
<1>1. /\ n \in Solves /\ Len(fund') = n /\ fund'[n].offer = o /\ fund'[n].txid = nextTx
      /\ \A i \in 1..Len(fund) : FundCoin(i)' = FundCoin(i) /\ fund'[i] = fund[i]
      /\ \A i \in Solves : SwapOf(i)' = SwapOf(i)
      /\ utxo' = utxo \union {FundCoin(n)'}
      /\ settled' = settled /\ refunded' = refunded
  BY FundEffect
<1>2. StatesAre /\ StatesAre' /\ Len(fund) \in Nat
  <2>1. StatesAre /\ StatesAre'
    BY States, PTL
  <2> QED
    BY <2>1 DEF IndInv, FundInv
<1>3. DepositState(n) = "absent" /\ DepositState(n)' = "open"
  BY <1>1, <1>2 DEF StatesAre
<1>4. ASSUME NEW i \in Solves \ {n}
      PROVE  DepositState(i)' = DepositState(i) /\ Price(i)' = Price(i)
  <2>1. CASE i > Len(fund)
    <3>1. i > Len(fund') /\ ~(i <= Len(fund)) /\ ~(i <= Len(fund'))
      BY <1>1, <1>2, <2>1 DEF Solves
    <3> QED
      BY <1>2, <2>1, <3>1 DEF StatesAre, Price
  <2>2. CASE ~(i > Len(fund))
    <3>1. i \in 1..Len(fund) /\ ~(i > Len(fund')) /\ i <= Len(fund) /\ i <= Len(fund')
      BY <1>1, <1>2, <2>2 DEF Solves
    <3>2. FundCoin(i).tx # nextTx /\ FundCoin(n)'.tx = nextTx
      BY <1>1, <3>1, FundCoins, Funded DEF IndInv, LedgerInv, FundCoin
    <3>3. FundCoin(i)' \in utxo' <=> FundCoin(i) \in utxo
      BY <1>1, <3>1, <3>2
    <3>4. DepositState(i)' = DepositState(i)
      BY <1>1, <1>2, <2>2, <3>1, <3>3 DEF StatesAre
    <3> QED
      BY <1>1, <3>1, <3>4 DEF Price
  <2> QED
    BY <2>1, <2>2
<1>5. \A i \in Solves : Paid(i)' = Paid(i)
  BY <1>1, PaidSame
<1>6. Price(n)' \in Uint64
  <2>1. n <= Len(fund')
    BY <1>1, <1>2
  <2>2. Price(n)' = IF o.swapPkScript \in Contracts THEN Owed(o.swapPkScript) ELSE 0
    BY <1>1, <2>1 DEF Price
  <2> QED
    BY <2>2, PriceIsAmount, HalfAssumption DEF Uint64
<1>7. [i \in Solves |-> DepositState(i)]' =
         [[i \in Solves |-> DepositState(i)] EXCEPT ![n] = "open"]
  BY <1>1, <1>3, <1>4
<1>8. PICK p \in Uint64 : p = Price(n)'
  BY <1>6
<1>9. [i \in Solves |-> Price(i)]' = [[i \in Solves |-> Price(i)] EXCEPT ![n] = p]
  BY <1>1, <1>4, <1>8
<1>10. [i \in Solves |-> Paid(i)]' = [i \in Solves |-> Paid(i)]
  BY <1>5
<1> QED
  BY <1>1, <1>3, <1>7, <1>8, <1>9, <1>10 DEF Swap!Deposit

LEMMA SwapStutter ==
  ASSUME IndInv, IndInv', Closes(0), settled' = settled, refunded' = refunded
  PROVE  UNCHANGED Swap!swapVars
<1>1. fund' = fund /\ Len(fund) \in Nat
  BY DEF Closes, IndInv, FundInv
<1>2. StatesAre /\ StatesAre'
  BY States, PTL
<1>3. \A i : SwapOf(i)' = SwapOf(i)
  BY <1>1 DEF SwapOf, FundedCoin
<1>4. \A i : FundCoin(i)' = FundCoin(i) /\ Price(i)' = Price(i) /\ Paid(i)' = Paid(i)
  <2>1. \A i : Paid(i)' = Paid(i)
    BY <1>3, PaidSame
  <2> QED
    BY <1>1, <2>1 DEF FundCoin, Price
<1>5. ASSUME NEW i \in Solves PROVE DepositState(i)' = DepositState(i)
  <2>1. CASE i > Len(fund)
    BY <1>1, <1>2, <2>1 DEF StatesAre
  <2>2. CASE ~(i > Len(fund))
    <3>1. i \in 1..Len(fund) /\ i # 0
      BY <1>1, <2>2 DEF Solves
    <3>2. FundCoin(i)' \in utxo' <=> FundCoin(i) \in utxo
      BY <1>4, <3>1 DEF Closes
    <3> QED
      BY <1>1, <1>2, <1>3, <2>2, <3>2 DEF StatesAre
  <2> QED
    BY <2>1, <2>2
<1>6. /\ [i \in Solves |-> DepositState(i)]' = [i \in Solves |-> DepositState(i)]
      /\ [i \in Solves |-> Price(i)]' = [i \in Solves |-> Price(i)]
      /\ [i \in Solves |-> Paid(i)]' = [i \in Solves |-> Paid(i)]
  BY <1>4, <1>5
<1> QED
  BY <1>6 DEF Swap!swapVars

(* A swap, by the bot or by a rival, pays the price of the deposit.        *)
LEMMA SettlePays ==
  ASSUME IndInv, IndInv', NEW w \in wire, Settle(w)
  PROVE  \E k \in Solves : Swap!Exchange(k)
<1>1. PICK k, e : Exchanged(k, e) /\ Closes(k) /\ e.by = w.by /\ e.tx = w.tx
  BY SettleEffect
<1>2. PICK o \in Offers : o = Offer(w.by) /\ Built(o, w.tx) /\ w.by # 0
  BY WireTx DEF IndInv, FundInv
<1>3. w.tx.swap.script = SwapPkScript(o) /\ w.tx.swap.script \in Contracts
  BY <1>2 DEF Built, Contracts
<1>4. FulfillScript(SwapPkScript(o), w.tx) /\ CreatesNothing(w.tx)
  BY <1>3 DEF Settle, Accepted
<1>5. o.wantAmount = PaidBy(e)
  <2>1. CASE o.wantAsset = BTC
    <3>1. SwapPkScript(o).wants = BTC
      BY <2>1 DEF SwapPkScript
    <3> QED
      BY <1>1, <1>2, <1>3, <1>4, <2>1, <3>1, ExactSats DEF PaidBy
  <2>2. CASE o.wantAsset # BTC
    <3>1. o.wantAsset \in Assets
      BY <2>2, OfferAmounts
    <3>2. SwapPkScript(o).wants # BTC
      BY <2>2, <3>1, BTCAssumption DEF SwapPkScript
    <3>3. w.tx.first = o.wantAsset /\ w.tx.maker.assets[o.wantAsset] = o.wantAmount
      BY <1>2, <1>4, <3>1, Found, WantedFirst
    <3> QED
      BY <1>1, <1>3, <3>2, <3>3 DEF PaidBy
  <2> QED
    BY <2>1, <2>2
<1>6. k \in 1..Len(fund) /\ k \in Solves /\ k <= Len(fund)
  BY <1>1, Funded DEF Exchanged, IndInv, FundInv
<1>7. Price(k) = Owed(SwapPkScript(o))
  <2>1. fund[k].offer.swapPkScript = SwapPkScript(o)
    BY <1>1, <1>3, <1>6, FundCoins DEF Exchanged, IndInv, Offer
  <2> QED
    BY <1>3, <1>6, <2>1 DEF Price
<1>8. PaidBy(e) \in Uint64 /\ PaidBy(e) >= Price(k)
  <2>1. o.wantAsset # BTC => SwapPkScript(o).wants # BTC /\ o.wantAmount > 0
    <3> SUFFICES ASSUME o.wantAsset # BTC
                 PROVE  SwapPkScript(o).wants # BTC /\ o.wantAmount > 0
      OBVIOUS
    <3>1. o.wantAsset \in Assets
      BY OfferAmounts
    <3>2. SwapPkScript(o).wants # BTC
      BY <3>1, BTCAssumption DEF SwapPkScript
    <3>3. w.tx.first = o.wantAsset /\ w.tx.maker.assets[o.wantAsset] = o.wantAmount
      BY <1>2, <1>4, <3>1, Found, WantedFirst
    <3> QED
      BY <1>4, <3>2, <3>3 DEF FulfillScript
  <2>2. o.wantAmount \in Uint64 /\ o.wantAmount \in Nat /\ Int64(o.wantAmount) <= o.wantAmount
    BY OffersAssumption, OfferAmounts
  <2>3. /\ SwapPkScript(o).amount = Int64(o.wantAmount)
        /\ o.wantAsset = BTC => SwapPkScript(o).wants = BTC
    BY DEF SwapPkScript
  <2>4. Owed(SwapPkScript(o)) <= o.wantAmount
    BY <2>1, <2>2, <2>3, OfferAmounts DEF Owed
  <2> QED
    BY <1>5, <1>7, <2>2, <2>4
<1> QED
  BY <1>1, <1>6, <1>8, ExchangeStep

LEMMA RivalPays ==
  ASSUME IndInv, IndInv', NEW c \in {u \in utxo : u.script \in Contracts},
         NEW unit \in PayableIn(c.script), NEW n \in 0..Owed(c.script),
         RivalFulfill(c, unit, n)
  PROVE  \E k \in Solves : Swap!Exchange(k)
<1>1. PICK k, e : /\ Exchanged(k, e) /\ Closes(k) /\ e.tx.swap = c
                  /\ FulfillScript(c.script, e.tx) /\ e.tx.first = unit
                  /\ e.tx.maker = [btc |-> IF unit = BTC THEN n ELSE Dust,
                                   assets |-> [a \in Assets |-> IF a = unit THEN n ELSE 0]]
  BY RivalEffect
<1>2. Owed(c.script) \in Uint64 /\ c.script.amount \in Int /\ c.script.amount <= Owed(c.script)
  BY PriceIsAmount
<1>3. n \in Nat /\ n <= Owed(c.script)
  BY <1>2 DEF Uint64
<1>4. PaidBy(e) = n
  BY <1>1, BTCAssumption DEF PaidBy, PayableIn
<1>5. n >= Owed(c.script)
  <2>1. CASE c.script.wants = BTC
    <3>1. e.tx.maker.btc = n
      BY <1>1, <2>1 DEF PayableIn
    <3>2. n >= c.script.amount
      BY <1>1, <2>1, <3>1 DEF FulfillScript
    <3> QED
      BY <1>2, <1>3, <2>1, <3>2 DEF Owed
  <2>2. CASE c.script.wants # BTC
    <3>1. e.tx.maker.assets[e.tx.first] = n
      BY <1>1, <2>2 DEF PayableIn
    <3>2. n >= c.script.amount /\ n > 0
      BY <1>1, <2>2, <3>1 DEF FulfillScript
    <3> QED
      BY <1>2, <1>3, <2>2, <3>2 DEF Owed
  <2> QED
    BY <2>1, <2>2
<1>6. n \in Uint64
  <2>1. PICK p \in 0..(2 * Half - 1) : p = Owed(c.script)
    BY <1>2 DEF Uint64
  <2> QED
    BY <1>3, <2>1, HalfAssumption DEF Uint64
<1>7. k \in 1..Len(fund) /\ k \in Solves /\ k <= Len(fund)
  BY <1>1, Funded DEF Exchanged, IndInv, FundInv
<1>8. Price(k) = Owed(c.script)
  <2>1. fund[k].offer.swapPkScript = c.script
    BY <1>1, <1>7, FundCoins DEF Exchanged, IndInv, Offer
  <2> QED
    BY <1>7, <2>1 DEF Price
<1>9. PaidBy(e) \in Uint64 /\ PaidBy(e) >= Price(k)
  BY <1>4, <1>5, <1>6, <1>8
<1> QED
  BY <1>1, <1>7, <1>9, ExchangeStep

(* A deposit at a contract is swapped for at least what its script names   *)
(* (Owed: an amount of some asset of the issuance, next to nothing when    *)
(* the offer's is past int64), refunded, or still there: each step of the  *)
(* bot, of rival takers and of makers is a step of AtomicSwap or leaves    *)
(* the deposits alone.                                                     *)
THEOREM ImplementsAtomicSwap == Spec => IsAtomicSwap
<1>1. Init => Swap!SwapInit
  <2> SUFFICES ASSUME Init PROVE Swap!SwapInit
    OBVIOUS
  <2>1. StatesAre
    BY Initial, States
  <2>2. Len(fund) = 0 /\ settled = {}
    BY DEF Init
  <2>3. \A i \in Solves : i > Len(fund) /\ ~(i <= Len(fund)) /\ SwapOf(i) = {}
    BY <2>2 DEF Solves, SwapOf
  <2>4. \A i \in Solves : DepositState(i) = "absent" /\ Price(i) = 0 /\ Paid(i) = 0
    BY <2>1, <2>3 DEF StatesAre, Price, Paid
  <2> QED
    BY <2>4 DEF Swap!SwapInit
<1>2. IndInv /\ IndInv' /\ [Next]_vars => [Swap!SwapNext]_(Swap!swapVars)
  <2> SUFFICES ASSUME IndInv, IndInv', [Next]_vars PROVE [Swap!SwapNext]_(Swap!swapVars)
    OBVIOUS
  <2>1. CASE UNCHANGED vars
    <3>1. UNCHANGED <<utxo, settled, refunded, fund>>
      BY <2>1 DEF vars
    <3>2. UNCHANGED Swap!swapVars
      BY <3>1, QuietEffect, SwapStutter DEF IndInv
    <3> QED
      BY <3>2
  <2>2. ASSUME NEW o \in Offers, NEW d \in Deposits, Fund(o, d) PROVE Swap!SwapNext
    <3>1. PICK n : n = Len(fund) + 1
      OBVIOUS
    <3> QED
      BY <2>2, <3>1, DepositStep DEF Swap!SwapNext
  <2>3. ASSUME NEW w \in wire, Settle(w) PROVE Swap!SwapNext
    BY <2>3, SettlePays DEF Swap!SwapNext
  <2>4. ASSUME NEW c \in {u \in utxo : u.script \in Contracts},
               NEW unit \in PayableIn(c.script), NEW n \in 0..Owed(c.script),
               RivalFulfill(c, unit, n)
        PROVE  Swap!SwapNext
    BY <2>4, RivalPays DEF Swap!SwapNext
  <2>5. ASSUME NEW c \in {u \in utxo : u.script # Taker}, MakerRefund(c) PROVE Swap!SwapNext
    <3>1. PICK k \in 1..Len(fund) :
             /\ FundCoin(k) \in utxo /\ Closes(k)
             /\ refunded' = refunded \union {fund[k].txid} /\ settled' = settled
      BY <2>5, RefundEffect
    <3>2. k \in Solves
      BY Funded DEF IndInv
    <3> QED
      BY <3>1, <3>2, RefundStep DEF Swap!SwapNext
  <2>6. ASSUME NEW c \in {u \in utxo : u.script = Taker}, Expire(c) PROVE UNCHANGED Swap!swapVars
    BY <2>6, ExpireEffect, SwapStutter
  <2>7. CASE UNCHANGED <<utxo, settled, refunded, fund>>
    BY <2>7, QuietEffect, SwapStutter DEF IndInv
  <2> QED
    BY <2>1, <2>2, <2>3, <2>4, <2>5, <2>6, <2>7, QuietSteps
<1> QED
  BY <1>1, <1>2, Invariance, PTL DEF Spec, IsAtomicSwap, Swap!SwapSpec

=============================================================================
