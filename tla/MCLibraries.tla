----------------------------- MODULE MCLibraries -----------------------------
(***************************************************************************)
(* The packages other programs import, for TLC: the offer contract with    *)
(* its packet, the plugin builder and the transaction predicates.  They    *)
(* share no state, so a behaviour is one package's; the others stay in     *)
(* their initial states.                                                   *)
(***************************************************************************)
EXTENDS OfferFlow, PluginBuilder, TxMatch

CONSTANT OtherScript    \* a script that is nobody's contract
VARIABLE part           \* the package that runs

packages == <<vars, builderVars, txmatchVars, part>>

LibrariesInit ==
    /\ Init /\ BuilderInit /\ TxMatchInit
    /\ part \in {"contract", "builder", "txmatch"}
    /\ part # "contract" => signer = CHOOSE keys \in [{"maker", "taker"} -> Signers] : TRUE

LibrariesNext ==
    \/ part = "contract" /\ Next /\ UNCHANGED <<builderVars, txmatchVars, part>>
    \/ part = "builder" /\ BuilderNext /\ UNCHANGED <<vars, txmatchVars, part>>
    \/ part = "txmatch" /\ TxMatchNext /\ UNCHANGED <<vars, builderVars, part>>

LibrariesSpec == LibrariesInit /\ [][LibrariesNext]_packages

-----------------------------------------------------------------------------
(* OfferFlow: eight-byte integers have three bits and 32-bit ones two, so  *)
(* a delay of 5 is read as 1.  Assets 1 and 2 have the same issuance       *)
(* transaction.                                                            *)
Key(x, odd) == [x |-> x, odd |-> odd]
P2TR(k) == [version |-> 1, program |-> k]
P2WSH(k) == [version |-> 0, program |-> k]
Asset(i) == [txid |-> "t", index |-> i]

Param(n, a, c, e) == [wantAmount |-> n, wantAsset |-> a, cancelAt |-> c, exitDelay |-> e]
MCParams ==
    {Param(1, None, 0, None), Param(5, Asset(1), 0, None), Param(1, None, 1, None)}
MCIntroKeys == {Key("i", TRUE)}
MCMakerScripts == {P2TR("m")}
MCSigners == {Key("s", FALSE), Key("r", TRUE)}

Block(n) == [type |-> "block", value |-> n]
Second(n) == [type |-> "second", value |-> n]
MCOwnOffers ==
    {[EmptyOffer EXCEPT !.wantAmount = 1, !.ratioNum = 1, !.ratioDen = 1,
        !.cancelAt = 1, !.makerPkScript = P2TR("m"), !.offerAsset = Asset(1),
        !.makerPublicKey = Key("k", TRUE), !.introspectorPubkey = Key("i", FALSE),
        !.exitDelay = Second(1)]}

Field(t, v) == [tag |-> t, val |-> v]
MCFields ==
    {Field("swapPkScript", OtherScript)} \union
    {Field("wantAmount", n) : n \in {1, 5}} \union
    {Field("wantAsset", Asset(i)) : i \in {1, 2}} \union
    {Field("ratioNum", 1), Field("ratioDen", 1)} \union
    {Field("cancelAt", n) : n \in {1, 5}} \union
    {Field("makerPkScript", s) : s \in {P2TR("m"), P2WSH("m"), ShortScript}} \union
    {Field("makerPublicKey", k) : k \in {"k", "j"}} \union
    {Field("introspectorPubkey", "i")} \union
    {Field("exitDelay", [kind |-> k, delay |-> 1]) : k \in 0..2} \union
    {Field("exitDelay", [kind |-> 1, delay |-> 5])} \union
    {Field("wantAmount", Malformed), Field("unknown", 1)}

-----------------------------------------------------------------------------
(* PluginBuilder: transactions with and without an extension.              *)
BuilderTx(present, ext, who) == [present |-> present, ext |-> ext, who |-> who]
MCBuilderTxs ==
    {BuilderTx(FALSE, "none", Filters), BuilderTx(TRUE, "none", Filters), BuilderTx(TRUE, "bad", Filters),
     BuilderTx(TRUE, "good", {}), BuilderTx(TRUE, "good", Filters)}

-----------------------------------------------------------------------------
(* TxMatch: transactions of zero to two outputs and inputs; scripts and    *)
(* outpoints are 1 and 2.                                                  *)
Tx(outs, ins, lock, unknowns) ==
    [unsigned |-> TRUE, outs |-> outs, ins |-> ins, lock |-> lock, unknowns |-> unknowns]

Small == <<1, 1>>
Large == <<5, 1>>
Other == <<5, 2>>
Negative == <<-2, 2>>
MCTxs ==
    {Nil, [Tx(<<>>, <<>>, 0, {"k"}) EXCEPT !.unsigned = FALSE],
     Tx(<<>>, <<>>, 0, {}), Tx(<<Small>>, <<<<1, 0>>>>, 0, {"k"}),
     Tx(<<Large, Small>>, <<<<1, 1>>, <<2, 0>>>>, 7, {}),
     Tx(<<<<1, 2>>, Large>>, <<<<2, 1>>>>, 7, {"k"}), Tx(<<Other>>, <<Nil>>, 0, {}),
     Tx(<<Negative>>, <<<<1, 0>>>>, 0, {})}

MCOutputOpts ==
    {[index |-> -1], [index |-> 1],
     [first |-> 2..7], [first |-> 0..4], [second |-> {1}]}
MCInputOpts == {[index |-> 0], [first |-> {1}], [second |-> {0}]}

MCLeaves ==
    {[Always |-> TRUE], [HasOutputCount |-> 2], [HasInputCount |-> 1],
     [HasLockTime |-> 7], [HasUnknownGlobalField |-> "k"], [Nil |-> Nil]}

=============================================================================
