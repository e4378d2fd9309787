------------------------------ MODULE OfferFlow ------------------------------
(***************************************************************************)
(* An offer's way from its maker to a taker: CreateOffer (or a maker that  *)
(* fills an Offer itself) funds a swap script and publishes the packet;    *)
(* the taker's bot finds a packet in a transaction, decodes it field by    *)
(* field and rebuilds the contract to compare it with the script named in  *)
(* the packet.  The packet the bot reads is the maker's, or one that       *)
(* anybody put together from any fields, also with the maker's script.     *)
(***************************************************************************)
EXTENDS OfferCodec

CONSTANTS
    Params,        \* CreateOffer's params: [wantAmount, wantAsset, cancelAt, exitDelay]
    IntroKeys,     \* keys the introspector may have, [x, odd]
    MakerScripts,  \* scripts of the maker's new address
    Signers,       \* server keys in a client's configuration, [x, odd]
    OwnOffers,     \* offers a maker fills in itself, without a swap script
    Fields         \* fields anybody may put into a packet

(* The Offer that CreateOffer fills, with the introspector's key and the   *)
(* script it was given; it refuses a cancel or an exit path.               *)
Refused(p) == p.cancelAt # 0 \/ p.exitDelay # None
Draft(p, key, script) ==
    [EmptyOffer EXCEPT !.wantAmount = p.wantAmount, !.wantAsset = p.wantAsset,
        !.cancelAt = p.cancelAt, !.makerPkScript = script, !.introspectorPubkey = key]
Drafts ==
    OwnOffers \union
    {Draft(p, k, s) : p \in {q \in Params : ~Refused(q)}, k \in IntroKeys, s \in MakerScripts}
Scripted(o, server) == [o EXCEPT !.swapPkScript = VtxoScript(o, server)]

(* Offers makers publish: the required fields are there, and the maker's   *)
(* key when a path needs it, and no field's bytes are nil or malformed.    *)
IsDraft(o) ==
    /\ DOMAIN o = Tags
    /\ o.wantAmount # None /\ o.makerPkScript \notin {None, ShortScript}
    /\ o.introspectorPubkey # None
    /\ o.cancelAt \in Nat
    /\ o.exitDelay # None =>
          /\ o.exitDelay = [type |-> o.exitDelay.type, value |-> o.exitDelay.value]
          /\ o.exitDelay.type \in {"second", "block"}
          /\ o.exitDelay.value \in 0..(Max32 - 1)
    /\ ~Panics(o)
    /\ \A t \in KeyTags : o[t] # None => Lift(o[t].x) # None
    /\ \A s \in Signers :
          LET made == Scripted(o, s)
          IN  /\ made # None /\ made.swapPkScript # None
              /\ \A t \in Tags : Present(made, t) => EncodeValue(t, made[t]) # Malformed
ASSUME DraftsAssumption == \A o \in Drafts : IsDraft(o)

ASSUME FieldsAssumption ==
    \A f \in Fields : Readable(f) =>
        /\ f.tag = "cancelAt" => f.val \in Nat
        /\ f.tag = "exitDelay" => f.val.delay \in Nat
ASSUME MalformedAssumption ==
    \A k \in {0, 1}, d \in 0..(Max32 - 1) : [kind |-> k, delay |-> d] # Malformed

VARIABLES
    signer,    \* [maker, taker]: the server key each side is configured with
    made,      \* the maker's offer with its swap script, or None
    asked,     \* history: CreateOffer's params for it, or None
    packet,    \* the maker's packet
    own,       \* the packet being read is the maker's
    next,      \* of that packet, the field to read next
    offer,     \* what DeserializeOffer has so far
    pc         \* where the bot is with it

makerVars == <<signer, made, asked, packet>>
vars == <<signer, made, asked, packet, own, next, offer, pc>>

Init ==
    /\ signer \in [{"maker", "taker"} -> Signers]
    /\ made = None
    /\ asked = None
    /\ packet = <<>>
    /\ own = FALSE
    /\ next = 1
    /\ offer = EmptyOffer
    /\ pc = "idle"

-----------------------------------------------------------------------------
(* The maker.                                                              *)

(* Mutant: the packet is encoded before the swap script is set.            *)
Publish_EncodesFirst(o) ==
    /\ made' = o
    /\ packet' = Serialize([o EXCEPT !.swapPkScript = None])
    /\ UNCHANGED <<signer, own, next, offer, pc>>

Publish(o) ==
    /\ made' = o
    /\ packet' = Serialize(o)
    /\ UNCHANGED <<signer, own, next, offer, pc>>

WithSwapScript(o) == Scripted(o, signer.maker)

(* CreateOffer, with the introspector key and the address it was given; it *)
(* returns an error and no offer when one of the three services does.      *)
CreateOffer(p, key, script) ==
    /\ pc = "idle" /\ made = None
    /\ ~Refused(p)
    /\ asked' = p
    /\ Publish(WithSwapScript(Draft(p, key, script)))

(* A maker with cancel or exit paths fills the exported Offer itself.      *)
OwnOffer(o) ==
    /\ pc = "idle" /\ made = None
    /\ UNCHANGED asked
    /\ Publish(WithSwapScript(o))

-----------------------------------------------------------------------------
(* The taker's bot.                                                        *)

(* FindBancoOffer hands a packet of the banco type to DeserializeOffer:    *)
(* the maker's, or another.                                                *)
Find(mine) ==
    /\ pc = "idle"
    /\ mine => made # None
    /\ own' = mine
    /\ next' = 1
    /\ offer' = EmptyOffer
    /\ pc' = "reading"
    /\ UNCHANGED makerVars

(* The fields that may come next.  In a packet of unknown origin the swap  *)
(* script may be the maker's.                                              *)
Incoming ==
    IF own THEN {packet[i] : i \in {next} \intersect DOMAIN packet}
      ELSE Fields \union
           (IF made = None THEN {}
              ELSE {[tag |-> "swapPkScript", val |-> made.swapPkScript]})

Read(f) ==
    /\ pc = "reading"
    /\ IF Readable(f)
         THEN offer' = ReadField(offer, f) /\ UNCHANGED pc
         ELSE pc' = "rejected" /\ UNCHANGED offer
    /\ next' = IF own THEN next + 1 ELSE next
    /\ UNCHANGED <<makerVars, own>>

(* The packet ends within a field.                                         *)
Truncated ==
    /\ pc = "reading" /\ ~own
    /\ pc' = "rejected"
    /\ UNCHANGED <<makerVars, own, next, offer>>

(* The packet ends after a field.                                          *)
EndOfData ==
    /\ pc = "reading"
    /\ own => next > Len(packet)
    /\ pc' = IF Complete(offer) THEN "decoded" ELSE "rejected"
    /\ UNCHANGED <<makerVars, own, next, offer>>

(* FulfillOffer rebuilds the contract with the taker's server key and      *)
(* compares it with the script in the packet.                              *)
CheckScript ==
    /\ pc = "decoded"
    /\ pc' = CASE Panics(offer) -> "panicked"
               [] ~Panics(offer) /\ VtxoScript(offer, signer.taker) = offer.swapPkScript
                    -> "consistent"
               [] OTHER -> "inconsistent"
    /\ UNCHANGED <<makerVars, own, next, offer>>

(* The bot is done with it.                                                *)
Done ==
    /\ pc \in {"rejected", "consistent", "inconsistent", "panicked"}
    /\ pc' = "idle"
    /\ own' = FALSE
    /\ next' = 1
    /\ offer' = EmptyOffer
    /\ UNCHANGED makerVars

Next ==
    \/ \E p \in Params, k \in IntroKeys, s \in MakerScripts : CreateOffer(p, k, s)
    \/ \E o \in OwnOffers : OwnOffer(o)
    \/ \E mine \in BOOLEAN : Find(mine)
    \/ \E f \in Incoming : Read(f)
    \/ Truncated
    \/ EndOfData
    \/ CheckScript
    \/ Done

Spec == Init /\ [][Next]_vars

-----------------------------------------------------------------------------
(* Properties.                                                             *)

(* An offer as it reads on the other side: keys lose their parity.         *)
Normal(o) ==
    [t \in Tags |-> IF t \in KeyTags /\ o[t] # None THEN Lift(o[t].x) ELSE o[t]]

(* The maker's own packet gives the taker the maker's offer, field by      *)
(* field, with what CreateOffer was asked for; and unless the two sides    *)
(* have different server keys, the taker's contract is the funded one.     *)
CreatedOfferArrives ==
    own /\ pc \notin {"idle", "reading"} =>
        /\ pc # "rejected" /\ pc # "panicked"
        /\ offer = Normal(made)
        /\ asked # None =>
             offer.wantAmount = asked.wantAmount /\ offer.wantAsset = asked.wantAsset
        /\ pc = "consistent" => signer.maker.x = signer.taker.x
        /\ pc = "inconsistent" => signer.maker.x # signer.taker.x

(* Whatever packet points at the maker's funded script, the taker acts on  *)
(* it only with the terms the script pins: the amount, BTC or the issuance *)
(* of the asset, the program the maker is paid to, the server's and the    *)
(* introspector's key, and the maker's ways out with its key and with the  *)
(* delays the script has, not the wider ones a packet may carry.  The      *)
(* script pins neither the asset's index nor the version of the maker's    *)
(* script, so a consistent packet may name another asset of the issuance   *)
(* or a P2WSH output of that program; such a packet is not refused here    *)
(* but by the covenant (module FulfillTx).                                 *)
ConsistentPinsTerms ==
    pc = "consistent" /\ made # None /\ offer.swapPkScript = made.swapPkScript =>
        /\ offer.wantAmount = made.wantAmount
        /\ (offer.wantAsset = None) <=> (made.wantAsset = None)
        /\ made.wantAsset # None => offer.wantAsset.txid = made.wantAsset.txid
        /\ offer.makerPkScript.program = made.makerPkScript.program
        /\ signer.taker.x = signer.maker.x
        /\ offer.introspectorPubkey.x = made.introspectorPubkey.x
        /\ (offer.cancelAt > 0) <=> (made.cancelAt > 0)
        /\ offer.cancelAt % Max32 = made.cancelAt % Max32
        /\ offer.exitDelay = made.exitDelay
        /\ made.cancelAt > 0 \/ made.exitDelay # None =>
              offer.makerPublicKey.x = made.makerPublicKey.x

(* What was decoded can be passed on: encoding an accepted offer and       *)
(* decoding that packet gives the same offer, though the packet it came    *)
(* from may have had fields twice, in any order or too wide.               *)
ReencodesToSame ==
    pc = "decoded" => DeserializeOffer(Serialize(offer)) = offer

=============================================================================
