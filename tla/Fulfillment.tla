----------------------------- MODULE Fulfillment -----------------------------
(***************************************************************************)
(* Concurrent fulfillments: one goroutine per matched offer runs           *)
(* plugin.fulfill, that is, contract.FulfillOffer and then the listener's  *)
(* OnFulfill, against services it shares with the others and the world:    *)
(* arkd's ledger of coins, the introspector that submits the transaction,  *)
(* and the trade table.                                                    *)
(*                                                                         *)
(* Every call to another service is a step of its own; what it answered is *)
(* what the goroutine knows from then on.  A submission is three: it is    *)
(* sent, the ledger takes it as one step, and the answer comes back.       *)
(***************************************************************************)
EXTENDS FulfillTx, Sequences

CONSTANTS
    Offers,        \* [maker, wantAsset, wantAmount, swapPkScript], with
                   \* maker a script: [version, program]
    Deposits,      \* [btc, assets] a maker may lock
    Accepts,       \* <<offer, deposit>> that pass the range and price checks
    Taker,         \* the bot's script
    Wallets,       \* sets of coins it may start with
    None,          \* a local variable that is not set
    MaxFunds,      \* bound: offers funded in a behaviour
    Faults         \* which of AllFaults may happen

AllFaults == {"rpc", "reply", "db", "crash", "cancel", "rival", "refund", "expire"}

ASSUME MaxFundsAssumption == MaxFunds \in Nat
ASSUME OffersAssumption ==
    \A o \in Offers :
        /\ o.wantAsset \in Assets \union {BTC}
        /\ o.wantAmount \in Uint64
        /\ Taker \notin {SwapPkScript(o), o.swapPkScript}
ASSUME DepositsAssumption ==
    \A d \in Deposits : d.btc \in Nat /\ d.assets \in [Assets -> Nat]
(* Offer.ComputePrice has no price for an offer that wants nothing.         *)
ASSUME AcceptsAssumption ==
    \A o \in Offers, d \in Deposits : <<o, d>> \in Accepts => o.wantAmount > 0
ASSUME WalletsAssumption ==
    \A wallet \in Wallets :
        /\ IsFiniteSet(wallet)
        /\ wallet \subseteq [tx : {0}, vout : Nat, script : {Taker}, btc : Nat,
                             assets : [Assets -> Nat], recoverable : BOOLEAN]
ASSUME FaultsAssumption == Faults \subseteq AllFaults

(* A solve works for the funding transaction it was started by.            *)
Solves == 1..MaxFunds

VARIABLES
    utxo,       \* unspent coins of the taker and at swap scripts
    fund,       \* the funding transactions seen: [offer, deposit, txid]
    settled,    \* fulfillments on the ledger: [id, by, tx], by a solve or 0
    refunded,   \* funding txids whose deposit the maker took back
    trades,     \* rows of the trade table
    nextTx,     \* the next transaction id
    cancelled,  \* the solver's context is cancelled
    crashed,    \* the process was killed once
    pc,         \* where each solve is
    swapIn,     \* the coin it found at the swap script
    mine,       \* the taker coins it listed
    tx,         \* the transaction it built
    wire,       \* submissions the introspector has yet to handle: [by, tx]
    arkTxid     \* SubmitTx's answer: an id or Refused; 0 before it

ledgerVars == <<utxo, settled, refunded, nextTx, wire>>
localVars == <<swapIn, mine, tx, arkTxid>>
vars == <<utxo, fund, settled, refunded, trades, nextTx, cancelled, crashed,
          pc, swapIn, mine, tx, wire, arkTxid>>

Refused == -1

(* Scripts that are contracts: they can be spent as FulfillScript says.    *)
Contracts == {SwapPkScript(o) : o \in Offers}

Init ==
    /\ utxo \in Wallets
    /\ fund = <<>>
    /\ settled = {}
    /\ refunded = {}
    /\ trades = <<>>
    /\ nextTx = 1
    /\ cancelled = FALSE
    /\ crashed = FALSE
    /\ pc = [s \in Solves |-> "idle"]
    /\ swapIn = [s \in Solves |-> None]
    /\ mine = [s \in Solves |-> {}]
    /\ tx = [s \in Solves |-> None]
    /\ wire = {}
    /\ arkTxid = [s \in Solves |-> 0]

Goto(s, label) == pc' = [pc EXCEPT ![s] = label]

(* fulfill returns; on an error it has only logged it.                     *)
Finish(s) ==
    /\ Goto(s, "over")
    /\ swapIn' = [swapIn EXCEPT ![s] = None]
    /\ mine' = [mine EXCEPT ![s] = {}]
    /\ tx' = [tx EXCEPT ![s] = None]
    /\ arkTxid' = [arkTxid EXCEPT ![s] = 0]

Offer(s) == fund[s].offer

-----------------------------------------------------------------------------
(* A maker locks a deposit at the script its offer names and announces the *)
(* offer in the same transaction; the bot sees it once.                    *)
Fund(o, d) ==
    /\ Len(fund) < MaxFunds
    /\ fund' = Append(fund, [offer |-> o, deposit |-> d, txid |-> nextTx])
    /\ utxo' = utxo \union
         {[tx |-> nextTx, vout |-> 0, script |-> o.swapPkScript,
           btc |-> d.btc, assets |-> d.assets, recoverable |-> FALSE]}
    /\ nextTx' = nextTx + 1
    /\ Goto(Len(fund) + 1, "seen")
    /\ UNCHANGED <<settled, refunded, wire, trades, cancelled, crashed, localVars>>

(* checkBTCBalance compares with the wallet's whole off-chain balance.     *)
BalanceOk(o) ==
    \/ o.wantAsset # BTC
    \/ TotalBtc({c \in utxo : c.script = Taker}) >= o.wantAmount

(* Match: the offer passes the plugin's validators and its Solve starts,   *)
(* or it is skipped.                                                       *)
Match(s) ==
    /\ pc[s] = "seen"
    /\ Goto(s, IF <<Offer(s), fund[s].deposit>> \in Accepts /\ BalanceOk(Offer(s))
                 THEN "config" ELSE "over")
    /\ UNCHANGED <<ledgerVars, fund, trades, cancelled, crashed, localVars>>

(* GetConfigData, and the contract reconstructed from the offer's terms.   *)
CheckScript(s) ==
    /\ pc[s] = "config"
    /\ IF SwapPkScript(Offer(s)) = Offer(s).swapPkScript
         THEN Goto(s, "swap") /\ UNCHANGED localVars
         ELSE Finish(s)
    /\ UNCHANGED <<ledgerVars, fund, trades, cancelled, crashed>>

Spendable(script) == {c \in utxo : c.script = script /\ ~c.recoverable}

(* Mutant: no coin at the swap script is waited for instead of reported.   *)
GetSwapVtxo_Polls(s) ==
    /\ pc[s] = "swap"
    /\ ~cancelled
    /\ \E c \in Spendable(Offer(s).swapPkScript) :
          swapIn' = [swapIn EXCEPT ![s] = c]
    /\ Goto(s, "wallet")
    /\ UNCHANGED <<ledgerVars, fund, trades, cancelled, crashed, mine, tx, arkTxid>>

(* Indexer.GetVtxos: the first coin of the answer, in the indexer's order. *)
GetSwapVtxo(s) ==
    /\ pc[s] = "swap"
    /\ ~cancelled
    /\ IF Spendable(Offer(s).swapPkScript) = {}
         THEN Finish(s)
         ELSE /\ \E c \in Spendable(Offer(s).swapPkScript) :
                    swapIn' = [swapIn EXCEPT ![s] = c]
              /\ Goto(s, "wallet")
              /\ UNCHANGED <<mine, tx, arkTxid>>
    /\ UNCHANGED <<ledgerVars, fund, trades, cancelled, crashed>>

(* Mutant: an empty wallet is not noticed.                                 *)
ListTakerVtxos_NoEmptyCheck(s) ==
    /\ pc[s] = "wallet"
    /\ mine' = [mine EXCEPT ![s] = Spendable(Taker)]
    /\ Goto(s, "build")
    /\ UNCHANGED <<ledgerVars, fund, trades, cancelled, crashed, swapIn, tx, arkTxid>>

(* ListSpendableVtxos and GetAddresses: every coin of the taker that is    *)
(* not recoverable goes into the transaction.                              *)
ListTakerVtxos(s) ==
    /\ pc[s] = "wallet"
    /\ IF Spendable(Taker) = {}
         THEN Finish(s)
         ELSE /\ mine' = [mine EXCEPT ![s] = Spendable(Taker)]
              /\ Goto(s, "build")
              /\ UNCHANGED <<swapIn, tx, arkTxid>>
    /\ UNCHANGED <<ledgerVars, fund, trades, cancelled, crashed>>

(* From NewOffchainAddress to the last SignTransaction.                    *)
BuildTx(s) ==
    /\ pc[s] = "build"
    /\ IF CanBuild(Offer(s), swapIn[s], mine[s])
         THEN /\ \E first \in FirstGroups(Offer(s), {swapIn[s]} \union mine[s]) :
                    tx' = [tx EXCEPT ![s] =
                              FulfillmentTx(Offer(s), swapIn[s], mine[s], first)]
              /\ Goto(s, "submit")
              /\ UNCHANGED <<swapIn, mine, arkTxid>>
         ELSE Finish(s)
    /\ UNCHANGED <<ledgerVars, fund, trades, cancelled, crashed>>

(* Introspector.SubmitTx: the request is on its way.                       *)
SubmitTx(s) ==
    /\ pc[s] = "submit"
    /\ ~cancelled
    /\ wire' = wire \union {[by |-> s, tx |-> tx[s]]}
    /\ Goto(s, "reply")
    /\ UNCHANGED <<utxo, settled, refunded, nextTx, fund, trades, cancelled,
                   crashed, localVars>>

(* External: the introspector runs the fulfill script, arkd checks that    *)
(* the inputs are unspent and that no value is created.                    *)
Accepted(t) ==
    /\ {t.swap} \union t.mine \subseteq utxo
    /\ t.revealed = t.swap.script
    /\ t.swap.script \in Contracts
    /\ FulfillScript(t.swap.script, t)
    /\ CreatesNothing(t)

(* An answer reaches a solve that still waits for it.                      *)
Answer(s, a) ==
    arkTxid' = IF pc[s] = "reply" THEN [arkTxid EXCEPT ![s] = a] ELSE arkTxid

(* External: a submission is put on the ledger as one step, whether or not *)
(* the goroutine that sent it still waits.                                 *)
Settle(w) ==
    /\ Accepted(w.tx)
    /\ wire' = wire \ {w}
    /\ utxo' = (utxo \ ({w.tx.swap} \union w.tx.mine)) \union
         {[tx |-> nextTx, vout |-> 1, script |-> Taker, btc |-> w.tx.taker.btc,
           assets |-> w.tx.taker.assets, recoverable |-> FALSE]}
    /\ settled' = settled \union {[id |-> nextTx, by |-> w.by, tx |-> w.tx]}
    /\ nextTx' = nextTx + 1
    /\ Answer(w.by, nextTx)
    /\ UNCHANGED <<fund, refunded, trades, cancelled, crashed, pc, swapIn, mine, tx>>

(* External: it is refused, or dropped because the service failed or saw   *)
(* the cancellation.                                                       *)
Refuse(w) ==
    /\ ~Accepted(w.tx) \/ cancelled \/ "rpc" \in Faults
    /\ wire' = wire \ {w}
    /\ Answer(w.by, Refused)
    /\ UNCHANGED <<utxo, settled, refunded, nextTx, fund, trades, cancelled,
                   crashed, pc, swapIn, mine, tx>>

(* Mutant: an error of SubmitTx is not looked at.                          *)
SubmitError_Ignored(s) ==
    /\ pc[s] = "reply"
    /\ arkTxid[s] = Refused
    /\ Goto(s, "notify")
    /\ UNCHANGED <<ledgerVars, fund, trades, cancelled, crashed, localVars>>

(* SubmitTx returned an error.                                             *)
SubmitError(s) ==
    /\ pc[s] = "reply"
    /\ arkTxid[s] = Refused
    /\ Finish(s)
    /\ UNCHANGED <<ledgerVars, fund, trades, cancelled, crashed>>

(* SubmitTx answered with the finalized transaction.                       *)
SubmitReply(s) ==
    /\ pc[s] = "reply"
    /\ arkTxid[s] > 0
    /\ Goto(s, "notify")
    /\ UNCHANGED <<ledgerVars, fund, trades, cancelled, crashed, localVars>>

(* The answer does not come: the connection broke, or the context was      *)
(* cancelled while it was awaited.  FulfillOffer returns an error.         *)
SubmitReplyLost(s) ==
    /\ pc[s] = "reply"
    /\ cancelled \/ "reply" \in Faults
    /\ Finish(s)
    /\ UNCHANGED <<ledgerVars, fund, trades, cancelled, crashed>>

(* Any other call to a service may fail, and does when the context is      *)
(* cancelled.                                                              *)
RpcFail(s) ==
    /\ pc[s] \in {"config", "swap", "wallet", "build", "submit"}
    /\ cancelled \/ "rpc" \in Faults
    /\ Finish(s)
    /\ UNCHANGED <<ledgerVars, fund, trades, cancelled, crashed>>

Row(s) ==
    [pay |-> Offer(s).wantAsset, amount |-> Offer(s).wantAmount,
     deposit |-> fund[s].deposit, offerTxid |-> fund[s].txid,
     fulfillTxid |-> arkTxid[s]]

(* Mutant: the insert uses the caller's context.                           *)
OnFulfill_CallersContext(s) ==
    /\ pc[s] = "notify"
    /\ trades' = IF cancelled THEN trades ELSE Append(trades, Row(s))
    /\ Finish(s)
    /\ UNCHANGED <<ledgerVars, fund, cancelled, crashed>>

(* fulfill hands the event to the listener, which inserts the trade under  *)
(* a context of its own.                                                   *)
OnFulfill(s) ==
    /\ pc[s] = "notify"
    /\ trades' = Append(trades, Row(s))
    /\ Finish(s)
    /\ UNCHANGED <<ledgerVars, fund, cancelled, crashed>>

(* The insert failed or timed out: only logged.                            *)
OnFulfillFail(s) ==
    /\ pc[s] = "notify"
    /\ "db" \in Faults
    /\ Finish(s)
    /\ UNCHANGED <<ledgerVars, fund, trades, cancelled, crashed>>

SolveStep(s) ==
    \/ CheckScript(s) \/ GetSwapVtxo(s) \/ ListTakerVtxos(s) \/ BuildTx(s)
    \/ SubmitTx(s) \/ SubmitError(s) \/ SubmitReply(s) \/ SubmitReplyLost(s)
    \/ RpcFail(s)
    \/ OnFulfill(s) \/ OnFulfillFail(s)

-----------------------------------------------------------------------------
(* What the maker sees.                                                    *)

(* External: the indexer's answer for a script, spent coins included.      *)
IndexedVtxos(script) ==
    {[txid |-> fund[i].txid, amount |-> fund[i].deposit.btc,
      spent |-> \A c \in utxo : c.tx # fund[i].txid] :
        i \in {i \in DOMAIN fund : fund[i].offer.swapPkScript = script}}

Status(v) == [txid |-> v.txid, value |-> v.amount, spendable |-> ~v.spent]

(* Mutant: only spendable coins are asked for.                             *)
GetOffers_SpendableOnly(script) ==
    {Status(v) : v \in {v \in IndexedVtxos(script) : ~v.spent}}

GetOffers(script) == {Status(v) : v \in IndexedVtxos(script)}

-----------------------------------------------------------------------------
(* The rest of the world.                                                  *)

(* main cancels the context on shutdown.                                   *)
Cancel ==
    /\ "cancel" \in Faults
    /\ ~cancelled
    /\ cancelled' = TRUE
    /\ UNCHANGED <<ledgerVars, fund, trades, crashed, pc, localVars>>

(* The process is killed and started again: the goroutines and what they   *)
(* had seen are gone, ledger and database are not.                         *)
Crash ==
    /\ "crash" \in Faults
    /\ ~crashed
    /\ crashed' = TRUE
    /\ pc' = [s \in Solves |-> IF pc[s] = "idle" THEN "idle" ELSE "over"]
    /\ swapIn' = [s \in Solves |-> None]
    /\ mine' = [s \in Solves |-> {}]
    /\ tx' = [s \in Solves |-> None]
    /\ arkTxid' = [s \in Solves |-> 0]
    /\ UNCHANGED <<ledgerVars, fund, trades, cancelled>>

(* What the fulfill script of a contract makes its spender pay at least:   *)
(* an amount past int64 is negative there and asks for no more than one    *)
(* unit, or no sat at all.                                                 *)
Owed(terms) ==
    LET least == IF terms.wants = BTC THEN 0 ELSE 1
    IN  IF terms.amount > least THEN terms.amount ELSE least

(* What may be paid with: sats, or any asset of the wanted issuance.       *)
PayableIn(terms) ==
    IF terms.wants = BTC THEN {BTC} ELSE {a \in Assets : a.txid = terms.wants}

(* Another taker fulfils a contract with its own coins, for as little as   *)
(* the fulfill script lets it pay, in whatever it lets it pay with.        *)
RivalFulfill(c, unit, n) ==
    LET terms == c.script
        t == [swap |-> c, mine |-> {}, first |-> unit, revealed |-> terms,
              makerScript |-> [version |-> 1, program |-> terms.program],
              maker |-> [btc |-> IF unit = BTC THEN n ELSE Dust,
                         assets |-> [a \in Assets |-> IF a = unit THEN n ELSE 0]],
              taker |-> [btc |-> c.btc, assets |-> c.assets]]
    IN  /\ "rival" \in Faults
        /\ FulfillScript(terms, t)
        /\ utxo' = utxo \ {c}
        /\ settled' = settled \union {[id |-> nextTx, by |-> 0, tx |-> t]}
        /\ nextTx' = nextTx + 1
        /\ UNCHANGED <<fund, refunded, wire, trades, cancelled, crashed, pc, localVars>>

(* The maker takes a deposit back through the cancel or the exit path.     *)
MakerRefund(c) ==
    /\ "refund" \in Faults
    /\ utxo' = utxo \ {c}
    /\ refunded' = refunded \union {c.tx}
    /\ UNCHANGED <<fund, settled, wire, trades, nextTx, cancelled, crashed, pc,
                   localVars>>

(* One of the taker's coins expires and becomes recoverable.               *)
Expire(c) ==
    /\ "expire" \in Faults
    /\ ~c.recoverable
    /\ utxo' = (utxo \ {c}) \union {[c EXCEPT !.recoverable = TRUE]}
    /\ UNCHANGED <<fund, settled, refunded, wire, trades, nextTx, cancelled, crashed,
                   pc, localVars>>

Next ==
    \/ \E o \in Offers, d \in Deposits : Fund(o, d)
    \/ \E s \in Solves : Match(s) \/ SolveStep(s)
    \/ \E w \in wire : Settle(w) \/ Refuse(w)
    \/ Cancel \/ Crash
    \/ \E c \in {u \in utxo : u.script \in Contracts} :
          \E unit \in PayableIn(c.script), n \in 0..Owed(c.script) :
             RivalFulfill(c, unit, n)
    \/ \E c \in {u \in utxo : u.script # Taker} : MakerRefund(c)
    \/ \E c \in {u \in utxo : u.script = Taker} : Expire(c)

Spec == Init /\ [][Next]_vars

(* A goroutine goes on and the services answer.                            *)
Fairness ==
    /\ \A s \in Solves : WF_vars(Match(s)) /\ WF_vars(SolveStep(s))
    /\ WF_vars(\E w \in wire : Settle(w) \/ Refuse(w))

FairSpec == Spec /\ Fairness

-----------------------------------------------------------------------------
(* Properties.                                                             *)

PcLabels == {"idle", "seen", "config", "swap", "wallet", "build", "submit",
             "reply", "notify", "over"}
TxIds == 0..(nextTx - 1)

IsCoin(c) ==
    /\ c.tx \in TxIds
    /\ c.btc \in Nat
    /\ c.assets \in [Assets -> Nat]
    /\ c.recoverable \in BOOLEAN

(* Every variable has its type; a solve's locals are set when it is past   *)
(* the step that sets them.                                                *)
TypeOK ==
    /\ nextTx \in Nat \ {0}
    /\ \A c \in utxo : IsCoin(c)
    /\ Len(fund) <= MaxFunds
    /\ \A i \in DOMAIN fund :
          fund[i].offer \in Offers /\ fund[i].deposit \in Deposits /\ fund[i].txid \in TxIds
    /\ \A e \in settled : e.id \in TxIds /\ e.by \in Solves \union {0}
    /\ refunded \subseteq TxIds
    /\ cancelled \in BOOLEAN /\ crashed \in BOOLEAN
    /\ pc \in [Solves -> PcLabels]
    /\ \A s \in Solves :
          /\ pc[s] = "idle" <=> s > Len(fund)
          /\ pc[s] \in {"wallet", "build", "submit", "reply", "notify"} => IsCoin(swapIn[s])
          /\ pc[s] \in {"build", "submit", "reply", "notify"} => mine[s] # {}
          /\ \A c \in mine[s] : IsCoin(c)
          /\ arkTxid[s] \in TxIds \union {Refused}
    /\ \A w \in wire : w.by \in Solves

(* A transaction that is submitted moves all its inputs' value and none    *)
(* but it: sats in equal sats out, and of every asset too, unless the      *)
(* taker holds less of the wanted asset than the maker wants, which arkd   *)
(* refuses.  No output is negative, unless the maker wants more sats than  *)
(* an int64 holds.                                                         *)
BuiltTxBalanced ==
    \A s \in Solves : pc[s] = "submit" =>
        LET t == tx[s]
            ins == {t.swap} \union t.mine
        IN  /\ t.maker.btc + t.taker.btc = TotalBtc(ins)
            /\ t.taker.btc >= 0
            /\ t.maker.btc >= 0 \/ (Offer(s).wantAsset = BTC /\ Offer(s).wantAmount >= Half)
            /\ \A a \in Assets :
                  \/ t.maker.assets[a] + t.taker.assets[a] = TotalAsset(a, ins)
                  \/ a = Offer(s).wantAsset /\ TotalAsset(a, ins) < Offer(s).wantAmount

(* The bot's fulfillments pay the maker what the offer it matched wants, in*)
(* sats or in the very asset, to the maker's own script, and not a sat or  *)
(* unit more, and leave everything else to the taker, although contract    *)
(* and ledger would let it pay in another asset of the issuance.           *)
SwapIsExact ==
    \A e \in settled : e.by # 0 =>
        LET o == Offer(e.by)
            ins == {e.tx.swap} \union e.tx.mine
            sats == IF o.wantAsset = BTC THEN o.wantAmount ELSE Dust
        IN  /\ e.tx.makerScript = o.maker
            /\ e.tx.maker.btc = sats
            /\ e.tx.taker.btc = TotalBtc(ins) - sats
            /\ \A a \in Assets :
                  /\ e.tx.maker.assets[a] = ToMaker(o, a)
                  /\ e.tx.taker.assets[a] = TotalAsset(a, ins) - ToMaker(o, a)

(* The taker holds less of the wanted asset than the maker wants.          *)
Short(o, t) ==
    o.wantAsset # BTC /\ TotalAsset(o.wantAsset, {t.swap} \union t.mine) < o.wantAmount

(* What is submitted for a maker whose script is P2TR and who does not     *)
(* want more sats than an int64 holds satisfies the contract it reveals,   *)
(* with the wanted group first whatever else the inputs carry, and arkd,   *)
(* unless the taker holds too little of the asset.  For another maker      *)
(* script it never does: see CovenantAcceptsPayment.                       *)
SubmitsAcceptableTx ==
    \A s \in Solves : pc[s] = "submit" =>
        LET o == Offer(s)
        IN  \/ FulfillScript(tx[s].revealed, tx[s]) /\ CreatesNothing(tx[s])
            \/ o.maker.version # 1
            \/ o.wantAsset = BTC /\ o.wantAmount >= Half
            \/ Short(o, tx[s])

(* The comment on FulfillScript: for a BTC swap it checks that output 0    *)
(* pays wantAmount to makerPkScript, so a transaction that does satisfies  *)
(* it.                                                                     *)
CovenantAcceptsPayment ==
    \A s \in Solves :
        /\ pc[s] = "submit"
        /\ Offer(s).wantAsset = BTC
        /\ tx[s].makerScript = Offer(s).maker
        /\ tx[s].maker.btc >= Offer(s).wantAmount
        => FulfillScript(tx[s].revealed, tx[s])

(* The trade table tells the truth about what was paid: a row names one of *)
(* the bot's own fulfillments on the ledger, with the unit its offer       *)
(* wanted and the amount that fulfillment paid the maker of it, and        *)
(* neither a fulfillment nor an offer has two rows, whatever failed, was   *)
(* cancelled or crashed in between.                                        *)
RowsBacked ==
    /\ \A i \in DOMAIN trades : \E e \in settled :
          /\ e.by # 0
          /\ e.id = trades[i].fulfillTxid
          /\ trades[i].pay = Offer(e.by).wantAsset
          /\ trades[i].amount =
               IF trades[i].pay = BTC THEN e.tx.maker.btc
                                      ELSE e.tx.maker.assets[trades[i].pay]
    /\ \A i, k \in DOMAIN trades : i # k =>
          /\ trades[i].fulfillTxid # trades[k].fulfillTxid
          /\ trades[i].offerTxid # trades[k].offerTxid

(* What was paid for deposit i, in units of what its maker wants.          *)
FundedCoin(i, c) == i <= Len(fund) /\ c.tx = fund[i].txid /\ c.script # Taker
SwapOf(i) == {e \in settled : FundedCoin(i, e.tx.swap)}
Price(i) ==
    IF i <= Len(fund) /\ fund[i].offer.swapPkScript \in Contracts
      THEN Owed(fund[i].offer.swapPkScript) ELSE 0
Paid(i) ==
    IF SwapOf(i) = {} THEN 0
      ELSE LET t == (CHOOSE e \in SwapOf(i) : TRUE).tx
           IN  IF t.swap.script.wants = BTC THEN t.maker.btc ELSE t.maker.assets[t.first]
DepositState(i) ==
    CASE \E c \in utxo : FundedCoin(i, c) -> "open"
      [] SwapOf(i) # {} -> "swapped"
      [] i <= Len(fund) /\ fund[i].txid \in refunded -> "refunded"
      [] OTHER -> "absent"

(* The maker who asks for the status of an offer finds each deposit made   *)
(* to its script once, with its value, and finds it spendable exactly as   *)
(* long as it is neither swapped, by whomever, nor taken back.             *)
MakerSeesOutcome ==
    \A i \in DOMAIN fund :
        {st \in GetOffers(fund[i].offer.swapPkScript) : st.txid = fund[i].txid}
          = {[txid |-> fund[i].txid, value |-> fund[i].deposit.btc,
              spendable |-> SwapOf(i) = {} /\ fund[i].txid \notin refunded]}

(* A deposit at a contract is swapped for at least what its script names,  *)
(* by the bot or by any other taker, or refunded, or still there, and one  *)
(* payment never stands for two deposits.  What a script names is less     *)
(* than what an offer says: an amount of some asset of the issuance, paid  *)
(* to the taproot output of the program, and next to nothing when the      *)
(* offer's amount is past int64 (Owed).                                    *)
Swap == INSTANCE AtomicSwap WITH
    Ids <- Solves,
    Prices <- Uint64,
    price <- [i \in Solves |-> Price(i)],
    state <- [i \in Solves |-> DepositState(i)],
    paid <- [i \in Solves |-> Paid(i)]
IsAtomicSwap == Swap!SwapSpec

(* A solve ends, whoever else spends the coins it found.                   *)
SolvesEnd == \A s \in Solves : pc[s] = "config" ~> pc[s] = "over"

RowFor(s) ==
    s <= Len(fund) /\ \E i \in DOMAIN trades : trades[i].offerTxid = fund[s].txid

(* Once the answer of SubmitTx is in, the trade is recorded, also when the *)
(* daemon shuts down in between (the comment on persistTimeout).           *)
AnsweredIsRecorded ==
    \A s \in Solves : pc[s] = "notify" ~> pc[s] = "over" /\ RowFor(s)

(* The taker can pay for the offer of s with the coins it has now, and the *)
(* contract lets it: the maker's script is P2TR.                           *)
Affordable(s) ==
    LET o == Offer(s)
        coins == Spendable(Taker)
    IN  /\ SwapPkScript(o) = o.swapPkScript
        /\ o.maker.version = 1
        /\ IF o.wantAsset = BTC
             THEN o.wantAmount < Half /\ TotalBtc(coins) >= o.wantAmount
             ELSE TotalBtc(coins) >= Dust /\ TotalAsset(o.wantAsset, coins) >= o.wantAmount

(* Somebody else took a deposit, or coins the bot counted on went into     *)
(* another of its own fulfillments, or the daemon shuts down.              *)
Disturbed(s) == cancelled \/ refunded # {} \/ \E e \in settled : e.by # s

(* A matched offer with a P2TR maker script the taker can pay for is       *)
(* fulfilled and recorded, unless somebody was quicker or it shuts down.   *)
MatchedIsFulfilled ==
    \A s \in Solves : (pc[s] = "config" /\ Affordable(s)) ~> (RowFor(s) \/ Disturbed(s))

(* What the bot takes in exchange is a deposit its checks accepted.        *)
SettledWithinPolicy ==
    \A e \in settled : e.by # 0 =>
        <<Offer(e.by), [btc |-> e.tx.swap.btc, assets |-> e.tx.swap.assets]>> \in Accepts

=============================================================================
