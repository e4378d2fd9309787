----------------------------- MODULE OfferCodec -----------------------------
(***************************************************************************)
(* The offer packet: Offer.Serialize, the fields DeserializeOffer reads    *)
(* back one after the other, and the swap script Offer.VtxoScript builds   *)
(* from an offer.                                                          *)
(*                                                                         *)
(* A packet is a sequence of fields [tag, val].  A field's tag is the name *)
(* of the Offer field it carries.  Byte strings are abstract: an integer   *)
(* of eight bytes is its value below Max64, a key on the wire is its x     *)
(* coordinate, and Malformed is a value whose length or content the        *)
(* decoder refuses.  A maker's script is its witness version and program,  *)
(* or ShortScript when it is not 34 bytes long.                            *)
(***************************************************************************)
EXTENDS Integers, Sequences, FiniteSets, FiniteSetsExt

CONSTANTS
    Max64,        \* one more than the largest uint64
    Max32,        \* one more than the largest uint32
    Malformed,
    ShortScript,
    None          \* nil

ASSUME WidthAssumption == Max32 \in Nat \ {0} /\ Max64 \in Nat /\ Max32 <= Max64

(* Serialize's order of the fields.                                        *)
Order == <<"swapPkScript", "wantAmount", "wantAsset", "ratioNum", "ratioDen",
           "offerAsset", "cancelAt", "makerPkScript", "makerPublicKey",
           "introspectorPubkey", "exitDelay">>

Tags == {Order[i] : i \in DOMAIN Order}
Required == {"swapPkScript", "wantAmount", "makerPkScript", "introspectorPubkey"}
KeyTags == {"makerPublicKey", "introspectorPubkey"}

(* DeserializeOffer's &Offer{} and its four has flags: a required field is *)
(* None until a field of the packet sets it.                               *)
EmptyOffer ==
    [t \in Tags |-> IF t \in {"ratioNum", "ratioDen", "cancelAt"} THEN 0 ELSE None]

-----------------------------------------------------------------------------
(* Encoding.                                                               *)

(* schnorr.ParsePubKey takes the point with the even y.                    *)
Lift(x) == [x |-> x, odd |-> FALSE]

EncodeValue(tag, v) ==
    CASE tag \in KeyTags -> v.x
      [] tag = "exitDelay" ->
           [kind |-> IF v.type = "second" THEN 1 ELSE 0, delay |-> v.value]
      [] OTHER -> v

(* Mutant: a ratio's denominator is written when it is more than one.      *)
Present_DenAboveOne(o, tag) ==
    \/ tag \in {"swapPkScript", "wantAmount", "makerPkScript"}
    \/ o[tag] # EmptyOffer[tag] /\ (tag = "ratioDen" => o.ratioDen > 1)

(* Fields that are always written, and the others when they are set.       *)
Present(o, tag) ==
    \/ tag \in {"swapPkScript", "wantAmount", "makerPkScript"}
    \/ o[tag] # EmptyOffer[tag]

Written(o) == {i \in DOMAIN Order : Present(o, Order[i])}
Rank(S, i) == Cardinality({j \in S : j <= i})

(* The k-th field of a packet is the k-th in Order that is written.        *)
FieldAt(o, k) == Order[CHOOSE i \in Written(o) : Rank(Written(o), i) = k]
Serialize(o) ==
    [k \in 1..Cardinality(Written(o)) |->
        [tag |-> FieldAt(o, k), val |-> EncodeValue(FieldAt(o, k), o[FieldAt(o, k)])]]

-----------------------------------------------------------------------------
(* Decoding.                                                               *)

(* The switch of DeserializeOffer has a case for the field's tag, and its  *)
(* value has that case's length and parses.                                *)
Readable(f) == f.tag \in Tags /\ f.val # Malformed

DecodeValue(f) ==
    CASE f.tag \in KeyTags -> Lift(f.val)
      [] f.tag = "exitDelay" ->
           [type |-> IF f.val.kind = 1 THEN "second" ELSE "block",
            value |-> f.val.delay % Max32]
      [] OTHER -> f.val

(* One round of the loop; a field that comes again replaces the first.     *)
ReadField(o, f) == [o EXCEPT ![f.tag] = DecodeValue(f)]

(* The checks after the loop.                                              *)
Complete(o) ==
    /\ \A t \in Required : o[t] # None
    /\ o.makerPkScript # ShortScript

(* DeserializeOffer on a whole packet: the last field of a tag counts.     *)
DeserializeOffer(packet) ==
    LET at(t) == {i \in DOMAIN packet : packet[i].tag = t}
        o == [t \in Tags |-> IF at(t) = {} THEN EmptyOffer[t]
                                           ELSE DecodeValue(packet[Max(at(t))])]
    IN  IF (\A i \in DOMAIN packet : Readable(packet[i])) /\ Complete(o)
          THEN o ELSE None

-----------------------------------------------------------------------------
(* The contract.                                                           *)

(* The terms FulfillScript checks: the maker's witness program (with       *)
(* version 1), the amount, and of the asset its issuance transaction.      *)
FulfillTerms(o) ==
    [program |-> o.makerPkScript.program,
     amount |-> o.wantAmount,
     asset |-> IF o.wantAsset = None THEN <<>> ELSE <<o.wantAsset.txid>>]

(* A closure with a nil key cannot be encoded: TapTree panics.             *)
Panics(o) ==
    /\ o.cancelAt > 0 \/ o.exitDelay # None
    /\ o.makerPublicKey = None

(* Mutant: the exit path is left out of the taptree.                       *)
VtxoScript_NoExit(o, server) ==
    [fulfill |-> FulfillTerms(o), server |-> server.x,
     introspector |-> o.introspectorPubkey.x,
     cancel |-> IF o.cancelAt > 0
                  THEN <<o.makerPublicKey.x, o.cancelAt % Max32>> ELSE <<>>,
     exit |-> <<>>]

(* The taproot script of Offer.VtxoScript is determined by what goes into  *)
(* its closures, <<>> standing for one that is left out; keys are x-only    *)
(* there and lock times 32 bits wide.                                      *)
VtxoScript(o, server) ==
    [fulfill |-> FulfillTerms(o), server |-> server.x,
     introspector |-> o.introspectorPubkey.x,
     cancel |-> IF o.cancelAt > 0
                  THEN <<o.makerPublicKey.x, o.cancelAt % Max32>> ELSE <<>>,
     exit |-> IF o.exitDelay # None
                THEN <<o.makerPublicKey.x, o.exitDelay>> ELSE <<>>]

=============================================================================
