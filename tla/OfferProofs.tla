----------------------------- MODULE OfferProofs -----------------------------
(***************************************************************************)
(* Theorems about OfferFlow, for all offers, packets, keys and widths of   *)
(* integers.                                                               *)
(***************************************************************************)
EXTENDS OfferFlow, FiniteSetTheorems, TLAPS

-----------------------------------------------------------------------------
(* The packet Serialize writes has one field for each tag that is present. *)

LEMMA OrderOnce ==
    /\ DOMAIN Order = 1..11
    /\ \A i, j \in 1..11 : Order[i] = Order[j] => i = j
    /\ \A i \in 1..11 : Order[i] \in Tags
    /\ \A t \in Tags : \E i \in 1..11 : t = Order[i]
<1>1. DOMAIN Order = 1..11
  BY DEF Order
<1>2. \A i, j \in 1..11 : Order[i] = Order[j] => i = j
  BY DEF Order
<1> QED
  BY <1>1, <1>2 DEF Tags

(* A finite set of integers, counted from below.                           *)
LEMMA RankIsBijective ==
    ASSUME NEW S \in SUBSET (1..11)
    PROVE  /\ IsFiniteSet(S) /\ Cardinality(S) \in Nat
           /\ \A i \in S : Rank(S, i) \in 1..Cardinality(S)
           /\ \A i, j \in S : Rank(S, i) = Rank(S, j) => i = j
           /\ \A k \in 1..Cardinality(S) : \E i \in S : Rank(S, i) = k
<1> DEFINE Below(i) == {j \in S : j <= i}
<1>1. IsFiniteSet(S) /\ Cardinality(S) \in Nat
  <2>0. PICK a \in Int, b \in Int : a = 1 /\ b = 11
    OBVIOUS
  <2>1. IsFiniteSet(1..11)
    BY <2>0, FS_Interval
  <2> QED
    BY ONLY <2>1, S \in SUBSET (1..11), FS_Subset, FS_CardinalityType
<1>2. ASSUME NEW i \in S
      PROVE  /\ IsFiniteSet(Below(i)) /\ Cardinality(Below(i)) \in Nat
             /\ Cardinality(Below(i)) <= Cardinality(S)
             /\ Cardinality(Below(i)) # 0
  <2>1. Below(i) \subseteq S /\ i \in Below(i)
    OBVIOUS
  <2> HIDE DEF Below
  <2>2. IsFiniteSet(Below(i)) /\ Cardinality(Below(i)) <= Cardinality(S)
    BY <1>1, <2>1, FS_Subset
  <2> QED
    BY <2>1, <2>2, FS_CardinalityType, FS_EmptySet
<1>3. ASSUME NEW i \in S, NEW j \in S, i < j
      PROVE  Cardinality(Below(i)) < Cardinality(Below(j))
  <2>1. S \subseteq Int /\ i \in Int /\ j \in Int
    OBVIOUS
  <2>a. Below(i) \subseteq Below(j) /\ j \in Below(j) /\ j \notin Below(i)
    <3>1. \A x \in S : x <= i => x <= j
      BY <1>3, <2>1
    <3>2. j <= j /\ ~(j <= i)
      BY <1>3, <2>1
    <3> QED
      BY <3>1, <3>2
  <2>2. IsFiniteSet(Below(j)) /\ Cardinality(Below(i)) \in Nat /\ Cardinality(Below(j)) \in Nat
    BY <1>2
  <2> HIDE DEF Below
  <2>3. Cardinality(Below(i)) <= Cardinality(Below(j))
        /\ (Cardinality(Below(i)) = Cardinality(Below(j)) => Below(i) = Below(j))
    BY <2>a, <2>2, FS_Subset
  <2> QED
    BY <2>a, <2>2, <2>3
<1>4. \A i \in S : Rank(S, i) = Cardinality(Below(i))
  BY DEF Rank
<1> HIDE DEF Below
<1>5. \A i \in S : Rank(S, i) \in 1..Cardinality(S)
  <2> SUFFICES ASSUME NEW i \in S PROVE Rank(S, i) \in 1..Cardinality(S)
    OBVIOUS
  <2>1. PICK r \in Nat, n \in Nat : r = Rank(S, i) /\ n = Cardinality(S) /\ r <= n /\ r # 0
    BY <1>1, <1>2, <1>4
  <2>2. r \in 1..n
    BY <2>1
  <2> QED
    BY <2>1, <2>2
<1>6. \A i, j \in S : Rank(S, i) = Rank(S, j) => i = j
  <2> SUFFICES ASSUME NEW i \in S, NEW j \in S, Rank(S, i) = Rank(S, j) PROVE i = j
    OBVIOUS
  <2>1. i \in Int /\ j \in Int
    OBVIOUS
  <2>2. PICK a \in Nat, b \in Nat : a = Cardinality(Below(i)) /\ b = Cardinality(Below(j))
    BY <1>2
  <2>3. a = b
    BY <1>4, <2>2
  <2>4. ~(i < j)
    <3> SUFFICES ASSUME i < j PROVE FALSE
      OBVIOUS
    <3>1. Cardinality(Below(i)) < Cardinality(Below(j))
      BY <1>3
    <3>2. a < b
      BY <2>2, <3>1
    <3> QED
      BY <2>3, <3>2
  <2>5. ~(j < i)
    <3> SUFFICES ASSUME j < i PROVE FALSE
      OBVIOUS
    <3>1. Cardinality(Below(j)) < Cardinality(Below(i))
      BY <1>3
    <3>2. b < a
      BY <2>2, <3>1
    <3> QED
      BY <2>3, <3>2
  <2> QED
    BY <2>1, <2>4, <2>5
<1>7. \A k \in 1..Cardinality(S) : \E i \in S : Rank(S, i) = k
  <2> DEFINE n == Cardinality(S)
             f == [i \in S |-> Rank(S, i)]
  <2>1. f \in [S -> 1..n] /\ \A i, j \in S : f[i] = f[j] => i = j
    BY <1>5, <1>6
  <2>2. f \in Injection(S, 1..n)
    BY <2>1 DEF Injection, IsInjective
  <2>3. IsFiniteSet(1..n) /\ Cardinality(1..n) = n
    <3> HIDE DEF f
    <3>1. PICK m \in Nat : m = n
      BY <1>1
    <3>2. IsFiniteSet(1..m) /\ Cardinality(1..m) = m
      BY FS_Interval
    <3> QED
      BY <3>1, <3>2
  <2>4. f \in Surjection(S, 1..n)
    <3> HIDE DEF f, n
    <3>1. Cardinality(S) = Cardinality(1..n)
      BY <2>3 DEF n
    <3> QED
      BY <2>2, <2>3, <3>1, FS_Injection
  <2>5. \A k \in 1..n : \E i \in S : f[i] = k
    BY <2>4 DEF Surjection
  <2> QED
    BY <2>5
<1> QED
  BY <1>1, <1>5, <1>6, <1>7

LEMMA SerializedFields ==
    ASSUME NEW o, NEW p, p = Serialize(o)
    PROVE  \E n \in Nat :
             /\ p = [k \in 1..n |-> p[k]] /\ DOMAIN p = 1..n
             /\ \A k \in 1..n : /\ p[k].tag \in Tags /\ Present(o, p[k].tag)
                                /\ p[k].val = EncodeValue(p[k].tag, o[p[k].tag])
                                /\ p[k] = [tag |-> p[k].tag, val |-> p[k].val]
             /\ \A k, m \in 1..n : p[k].tag = p[m].tag => k = m
             /\ \A t \in Tags : Present(o, t) => \E k \in 1..n : p[k].tag = t
<1> DEFINE S == Written(o)
           Nth(k) == CHOOSE i \in S : Rank(S, i) = k
<1>1. S \in SUBSET (1..11) /\ \A i \in S : Present(o, Order[i])
  BY OrderOnce DEF Written
<1>2. \A i \in 1..11 : Present(o, Order[i]) => i \in S
  BY OrderOnce DEF Written
<1> HIDE DEF S
<1>3. PICK n \in Nat : n = Cardinality(S)
  BY <1>1, RankIsBijective
<1>4. \A k \in 1..n : Nth(k) \in S /\ Rank(S, Nth(k)) = k
  BY <1>1, <1>3, RankIsBijective
<1>5. \A i \in S : Rank(S, i) \in 1..n /\ Nth(Rank(S, i)) = i
  <2>1. \A i \in S : Rank(S, i) \in 1..n
    BY <1>1, <1>3, RankIsBijective
  <2>2. \A i \in S : Nth(Rank(S, i)) \in S /\ Rank(S, Nth(Rank(S, i))) = Rank(S, i)
    BY <1>4, <2>1
  <2>3. \A i, j \in S : Rank(S, i) = Rank(S, j) => i = j
    BY <1>1, RankIsBijective
  <2> HIDE DEF Nth
  <2> QED
    BY <2>1, <2>2, <2>3
<1>6. \A k : FieldAt(o, k) = Order[Nth(k)]
  BY DEF FieldAt, S
<1>7. p = [k \in 1..n |-> [tag |-> FieldAt(o, k),
                           val |-> EncodeValue(FieldAt(o, k), o[FieldAt(o, k)])]]
  BY <1>3 DEF Serialize, S
<1> HIDE DEF Nth
<1>8. DOMAIN p = 1..n /\ \A k \in 1..n :
         p[k] = [tag |-> FieldAt(o, k), val |-> EncodeValue(FieldAt(o, k), o[FieldAt(o, k)])]
  BY <1>7
<1>9. p = [k \in 1..n |-> p[k]]
  BY <1>7
<1>10. \A k \in 1..n : /\ p[k].tag = Order[Nth(k)]
                       /\ p[k].val = EncodeValue(p[k].tag, o[p[k].tag])
                       /\ p[k] = [tag |-> p[k].tag, val |-> p[k].val]
  BY <1>6, <1>8
<1>11. \A k \in 1..n : p[k].tag \in Tags /\ Present(o, p[k].tag)
  BY <1>1, <1>4, <1>10, OrderOnce
<1>12. \A k, m \in 1..n : p[k].tag = p[m].tag => k = m
  <2> SUFFICES ASSUME NEW k \in 1..n, NEW m \in 1..n, p[k].tag = p[m].tag PROVE k = m
    OBVIOUS
  <2>1. Nth(k) \in 1..11 /\ Nth(m) \in 1..11 /\ Order[Nth(k)] = Order[Nth(m)]
    BY <1>1, <1>4, <1>10
  <2>2. Nth(k) = Nth(m)
    BY <2>1, OrderOnce
  <2> QED
    BY <1>4, <2>2
<1>13. \A t \in Tags : Present(o, t) => \E k \in 1..n : p[k].tag = t
  <2> SUFFICES ASSUME NEW t \in Tags, Present(o, t) PROVE \E k \in 1..n : p[k].tag = t
    OBVIOUS
  <2>1. PICK i \in 1..11 : t = Order[i]
    BY OrderOnce
  <2>2. i \in S
    BY <1>2, <2>1
  <2> QED
    BY <1>5, <1>10, <2>1, <2>2
<1> QED
  BY <1>8, <1>9, <1>10, <1>11, <1>12, <1>13

-----------------------------------------------------------------------------
(* One field, written and read back.                                       *)

LEMMA TagNames ==
    /\ Tags = {"swapPkScript", "wantAmount", "wantAsset", "ratioNum", "ratioDen",
               "offerAsset", "cancelAt", "makerPkScript", "makerPublicKey",
               "introspectorPubkey", "exitDelay"}
    /\ \A t \in Tags : EmptyOffer[t] =
          IF t \in {"ratioNum", "ratioDen", "cancelAt"} THEN 0 ELSE None
<1>1. \A t \in Tags : t \in {"swapPkScript", "wantAmount", "wantAsset", "ratioNum", "ratioDen",
               "offerAsset", "cancelAt", "makerPkScript", "makerPublicKey",
               "introspectorPubkey", "exitDelay"}
  BY OrderOnce DEF Order
<1>2. \A t \in {"swapPkScript", "wantAmount", "wantAsset", "ratioNum", "ratioDen",
               "offerAsset", "cancelAt", "makerPkScript", "makerPublicKey",
               "introspectorPubkey", "exitDelay"} : t \in Tags
  <2>1. /\ Order[1] = "swapPkScript" /\ Order[2] = "wantAmount" /\ Order[3] = "wantAsset"
        /\ Order[4] = "ratioNum" /\ Order[5] = "ratioDen" /\ Order[6] = "offerAsset"
        /\ Order[7] = "cancelAt" /\ Order[8] = "makerPkScript" /\ Order[9] = "makerPublicKey"
        /\ Order[10] = "introspectorPubkey" /\ Order[11] = "exitDelay"
    BY DEF Order
  <2>2. \A i \in 1..11 : Order[i] \in Tags
    BY OrderOnce
  <2> QED
    BY <2>1, <2>2
<1> QED
  BY <1>1, <1>2 DEF EmptyOffer

(* A value that is read back as it was written.                            *)
Reencodes(t, v) ==
    /\ EncodeValue(t, v) # Malformed
    /\ DecodeValue([tag |-> t, val |-> EncodeValue(t, v)]) = v

LEMMA DecodedReencodes ==
    ASSUME NEW f, Readable(f), f.tag = "exitDelay" => f.val.delay \in Nat
    PROVE  Reencodes(f.tag, DecodeValue(f))
<1>1. CASE f.tag \in KeyTags
  <2>1. DecodeValue(f) = Lift(f.val)
    BY <1>1 DEF DecodeValue, KeyTags
  <2>2. EncodeValue(f.tag, Lift(f.val)) = f.val
    BY <1>1 DEF EncodeValue, KeyTags, Lift
  <2>3. DecodeValue([tag |-> f.tag, val |-> f.val]) = Lift(f.val)
    BY <1>1 DEF DecodeValue, KeyTags
  <2> QED
    BY <2>1, <2>2, <2>3 DEF Readable, Reencodes
<1>2. CASE f.tag = "exitDelay"
  <2>1. PICK d \in Nat : d = f.val.delay
    BY <1>2
  <2>2. PICK m \in Nat : m = d % Max32 /\ m \in 0..(Max32 - 1) /\ m % Max32 = m
    <3>1. Max32 \in Nat /\ Max32 # 0
      BY WidthAssumption
    <3> QED
      BY <2>1, <3>1
  <2>3. PICK ty : ty = (IF f.val.kind = 1 THEN "second" ELSE "block")
    OBVIOUS
  <2>4. PICK w : w = [type |-> ty, value |-> m]
    OBVIOUS
  <2>5. DecodeValue(f) = w
    BY <1>2, <2>1, <2>2, <2>3, <2>4 DEF DecodeValue, KeyTags
  <2>6. PICK k \in {0, 1} : k = (IF ty = "second" THEN 1 ELSE 0)
    OBVIOUS
  <2>7. EncodeValue(f.tag, w) = [kind |-> k, delay |-> m]
    BY <1>2, <2>4, <2>6 DEF EncodeValue, KeyTags
  <2>8. [kind |-> k, delay |-> m] # Malformed
    BY <2>2, MalformedAssumption
  <2>9. (IF k = 1 THEN "second" ELSE "block") = ty
    BY <2>3, <2>6
  <2>10. DecodeValue([tag |-> f.tag, val |-> [kind |-> k, delay |-> m]]) = w
    BY <1>2, <2>2, <2>4, <2>9 DEF DecodeValue, KeyTags
  <2> QED
    BY <2>5, <2>7, <2>8, <2>10 DEF Reencodes
<1>3. CASE f.tag \notin KeyTags /\ f.tag # "exitDelay"
  BY <1>3 DEF DecodeValue, EncodeValue, Readable, Reencodes
<1> QED
  BY <1>1, <1>2, <1>3

(* A decoded offer has the fields of the struct, each empty or readable.   *)
Shape(o) ==
    /\ o = [t \in Tags |-> o[t]]
    /\ \A t \in Tags : o[t] = EmptyOffer[t] \/ Reencodes(t, o[t])

LEMMA EmptyShape == Shape(EmptyOffer)
  BY DEF Shape, EmptyOffer

LEMMA ReadKeepsShape ==
    ASSUME NEW o, NEW f, Shape(o), Readable(f),
           f.tag = "exitDelay" => f.val.delay \in Nat
    PROVE  /\ Shape(ReadField(o, f))
           /\ \A t \in Tags : ReadField(o, f)[t] = IF t = f.tag THEN DecodeValue(f) ELSE o[t]
<1>1. PICK d : d = DecodeValue(f)
  OBVIOUS
<1>2. PICK q : q = [o EXCEPT ![f.tag] = d]
  OBVIOUS
<1>3. q = ReadField(o, f)
  BY <1>1, <1>2 DEF ReadField
<1>4. DOMAIN o = Tags
  BY DEF Shape
<1>5. q = [t \in Tags |-> q[t]] /\ \A t \in Tags : q[t] = IF t = f.tag THEN d ELSE o[t]
  BY <1>2, <1>4
<1>6. Reencodes(f.tag, d)
  BY <1>1, DecodedReencodes
<1> QED
  BY <1>1, <1>3, <1>5, <1>6 DEF Shape

(* A whole offer, written and read back.                                   *)
LEMMA ShapeReencodes ==
    ASSUME NEW o, Shape(o), Complete(o)
    PROVE  DeserializeOffer(Serialize(o)) = o
<1>1. PICK p : p = Serialize(o)
  OBVIOUS
<1>2. PICK n \in Nat :
         /\ p = [k \in 1..n |-> p[k]] /\ DOMAIN p = 1..n
         /\ \A k \in 1..n : /\ p[k].tag \in Tags /\ Present(o, p[k].tag)
                            /\ p[k].val = EncodeValue(p[k].tag, o[p[k].tag])
                            /\ p[k] = [tag |-> p[k].tag, val |-> p[k].val]
         /\ \A k, m \in 1..n : p[k].tag = p[m].tag => k = m
         /\ \A t \in Tags : Present(o, t) => \E k \in 1..n : p[k].tag = t
  BY <1>1, SerializedFields
<1>3. \A t \in Tags : Present(o, t) => Reencodes(t, o[t])
  <2> SUFFICES ASSUME NEW t \in Tags, Present(o, t) PROVE Reencodes(t, o[t])
    OBVIOUS
  <2>1. CASE o[t] # EmptyOffer[t]
    BY <2>1 DEF Shape
  <2>2. CASE t \in {"swapPkScript", "wantAmount", "makerPkScript"}
    <3>1. o[t] # None
      BY <2>2 DEF Complete, Required
    <3>2. EmptyOffer[t] = None
      BY <2>2, TagNames
    <3> QED
      BY <3>1, <3>2 DEF Shape
  <2> QED
    BY <2>1, <2>2 DEF Present
<1> DEFINE at(t) == {i \in DOMAIN p : p[i].tag = t}
           Back(t) == IF at(t) = {} THEN EmptyOffer[t] ELSE DecodeValue(p[Max(at(t))])
<1>4. ASSUME NEW t \in Tags PROVE Back(t) = o[t]
  <2>1. CASE Present(o, t)
    <3>1. PICK k \in 1..n : p[k].tag = t
      BY <1>2, <2>1
    <3>2. at(t) = {k}
      BY <1>2, <3>1
    <3>3. Max({k}) = k
      <4>1. k \in Int
        OBVIOUS
      <4> QED
        BY <4>1 DEF Max
    <3>4. p[k] = [tag |-> t, val |-> EncodeValue(t, o[t])]
      BY <1>2, <3>1
    <3>5. DecodeValue(p[k]) = o[t]
      BY <1>3, <2>1, <3>4 DEF Reencodes
    <3>6. Back(t) = DecodeValue(p[Max({k})])
      BY <3>2
    <3> QED
      BY <3>3, <3>5, <3>6
  <2>2. CASE ~Present(o, t)
    <3>1. at(t) = {}
      BY <1>2, <2>2
    <3>2. o[t] = EmptyOffer[t]
      BY <2>2 DEF Present
    <3> QED
      BY <3>1, <3>2
  <2> QED
    BY <2>1, <2>2
<1>5. \A i \in DOMAIN p : Readable(p[i])
  BY <1>2, <1>3 DEF Readable, Reencodes
<1>6. [t \in Tags |-> Back(t)] = o
  <2> HIDE DEF Back
  <2>1. [t \in Tags |-> Back(t)] = [t \in Tags |-> o[t]]
    BY <1>4
  <2> QED
    BY <2>1 DEF Shape
<1>7. DeserializeOffer(p) =
        IF (\A i \in DOMAIN p : Readable(p[i])) /\ Complete([t \in Tags |-> Back(t)])
          THEN [t \in Tags |-> Back(t)] ELSE None
  BY DEF DeserializeOffer
<1> HIDE DEF Back, at
<1> QED
  BY <1>1, <1>5, <1>6, <1>7

-----------------------------------------------------------------------------
(* What the maker publishes.                                               *)

(* An offer with its script: its fields, what its packet is read as, and   *)
(* that losing the keys' parity changes nothing in the contract.           *)
IsMade(m, s) ==
    /\ m # None
    /\ m = [t \in Tags |-> m[t]]
    /\ m.swapPkScript = VtxoScript(m, s)
    /\ m.cancelAt \in Nat
    /\ m.exitDelay # None => m.exitDelay.value \in Nat
    /\ \A t \in Tags : Present(m, t) =>
          /\ EncodeValue(t, m[t]) # Malformed
          /\ DecodeValue([tag |-> t, val |-> EncodeValue(t, m[t])]) = Normal(m)[t]
    /\ \A t \in Tags : ~Present(m, t) => Normal(m)[t] = EmptyOffer[t]
    /\ Complete(Normal(m)) /\ ~Panics(Normal(m))
    /\ \A r \in Signers : VtxoScript(Normal(m), r) = VtxoScript(m, r)

LEMMA DraftIsMade ==
    ASSUME NEW o \in Drafts, NEW s \in Signers
    PROVE  /\ IsMade(Scripted(o, s), s)
           /\ \A t \in Tags \ {"swapPkScript"} : Scripted(o, s)[t] = o[t]
<1>1. IsDraft(o)
  BY DraftsAssumption
<1>2. PICK m, v : m = Scripted(o, s) /\ v = VtxoScript(o, s) /\ m = [o EXCEPT !.swapPkScript = v]
  BY DEF Scripted
<1>3. DOMAIN o = Tags
  BY <1>1 DEF IsDraft
<1>4. /\ m = [t \in Tags |-> m[t]]
      /\ \A t \in Tags \ {"swapPkScript"} : m[t] = o[t]
      /\ m.swapPkScript = v
  BY <1>2, <1>3, TagNames
<1>5. /\ m.wantAmount = o.wantAmount /\ m.wantAsset = o.wantAsset
      /\ m.cancelAt = o.cancelAt /\ m.makerPkScript = o.makerPkScript
      /\ m.makerPublicKey = o.makerPublicKey
      /\ m.introspectorPubkey = o.introspectorPubkey /\ m.exitDelay = o.exitDelay
  BY <1>4, TagNames
<1>6. VtxoScript(m, s) = v
  BY <1>2, <1>5 DEF VtxoScript, FulfillTerms
<1>7. /\ m # None /\ m.swapPkScript # None
      /\ \A t \in Tags : Present(m, t) => EncodeValue(t, m[t]) # Malformed
  BY <1>1, <1>2 DEF IsDraft
<1>8. PICK n : n = Normal(m)
  OBVIOUS
<1>9. \A t \in Tags : n[t] = IF t \in KeyTags /\ m[t] # None THEN Lift(m[t].x) ELSE m[t]
  BY <1>8 DEF Normal
<1>10. /\ n.wantAmount = m.wantAmount /\ n.wantAsset = m.wantAsset
       /\ n.cancelAt = m.cancelAt /\ n.makerPkScript = m.makerPkScript
       /\ n.exitDelay = m.exitDelay /\ n.swapPkScript = m.swapPkScript
  BY <1>9, TagNames DEF KeyTags
<1>11. \A t \in KeyTags : /\ t \in Tags /\ EmptyOffer[t] = None
                          /\ m[t] # None => n[t] = Lift(m[t].x) /\ n[t] # None /\ n[t].x = m[t].x
                          /\ m[t] = None => n[t] = None
  <2>1. \A t \in KeyTags : t \in Tags /\ EmptyOffer[t] = None
    BY TagNames DEF KeyTags
  <2>2. \A t \in KeyTags : o[t] # None => Lift(o[t].x) # None
    BY <1>1 DEF IsDraft
  <2>3. \A t \in KeyTags : m[t] = o[t]
    BY <1>4, <2>1 DEF KeyTags
  <2>4. \A x : Lift(x).x = x
    BY DEF Lift
  <2> QED
    BY <1>9, <2>1, <2>2, <2>3, <2>4
<1>12. m.introspectorPubkey # None /\ (m.cancelAt > 0 \/ m.exitDelay # None => m.makerPublicKey # None)
  BY <1>1, <1>5 DEF IsDraft, Panics
<1>13. /\ n.introspectorPubkey # None /\ n.introspectorPubkey.x = m.introspectorPubkey.x
       /\ m.makerPublicKey # None => n.makerPublicKey # None /\ n.makerPublicKey.x = m.makerPublicKey.x
  BY <1>11, <1>12 DEF KeyTags
<1>14. Complete(n)
  BY <1>1, <1>5, <1>7, <1>10, <1>13 DEF Complete, Required, IsDraft
<1>15. ~Panics(n)
  BY <1>10, <1>12, <1>13 DEF Panics
<1>16. \A r \in Signers : VtxoScript(n, r) = VtxoScript(m, r)
  <2>1. FulfillTerms(n) = FulfillTerms(m)
    BY <1>10 DEF FulfillTerms
  <2> QED
    BY <1>10, <1>12, <1>13, <2>1 DEF VtxoScript
<1>17. m.cancelAt \in Nat /\ (m.exitDelay # None => m.exitDelay.value \in Nat)
  BY <1>1, <1>5 DEF IsDraft
<1>18. ASSUME NEW t \in Tags, Present(m, t)
       PROVE  DecodeValue([tag |-> t, val |-> EncodeValue(t, m[t])]) = n[t]
  <2>1. CASE t \in KeyTags
    <3>1. m[t] # None
      BY <1>11, <1>18, <2>1 DEF Present, KeyTags
    <3>2. PICK x : x = m[t].x
      OBVIOUS
    <3>3. EncodeValue(t, m[t]) = x
      BY <2>1, <3>2 DEF EncodeValue, KeyTags
    <3>4. DecodeValue([tag |-> t, val |-> x]) = Lift(x)
      BY <2>1 DEF DecodeValue, KeyTags
    <3> QED
      BY <1>11, <2>1, <3>1, <3>2, <3>3, <3>4
  <2>2. CASE t = "exitDelay"
    <3>1. m.exitDelay # None
      BY <1>18, <2>2, TagNames DEF Present
    <3>2. PICK ty, d : m.exitDelay = [type |-> ty, value |-> d] /\ ty \in {"second", "block"}
                       /\ d \in 0..(Max32 - 1)
      BY <1>1, <1>5, <3>1 DEF IsDraft
    <3>3. d % Max32 = d
      <4>1. Max32 \in Nat /\ Max32 # 0
        BY WidthAssumption
      <4> QED
        BY <3>2, <4>1
    <3>4. PICK k \in {0, 1} : k = IF ty = "second" THEN 1 ELSE 0
      OBVIOUS
    <3>5. (IF k = 1 THEN "second" ELSE "block") = ty
      BY <3>2, <3>4
    <3>6. EncodeValue(t, m[t]) = [kind |-> k, delay |-> d]
      BY <2>2, <3>2, <3>4 DEF EncodeValue, KeyTags
    <3>7. DecodeValue([tag |-> t, val |-> [kind |-> k, delay |-> d]]) = [type |-> ty, value |-> d]
      BY <2>2, <3>3, <3>5 DEF DecodeValue, KeyTags
    <3>8. n[t] = [type |-> ty, value |-> d]
      BY <1>10, <2>2, <3>2
    <3> QED
      BY <3>6, <3>7, <3>8
  <2>3. CASE t \notin KeyTags /\ t # "exitDelay"
    <3>1. n[t] = m[t]
      BY <1>9, <2>3
    <3> QED
      BY <2>3, <3>1 DEF EncodeValue, DecodeValue
  <2> QED
    BY <2>1, <2>2, <2>3
<1>19. \A t \in Tags : ~Present(m, t) => n[t] = EmptyOffer[t]
  BY <1>9, <1>11 DEF Present
<1>20. IsMade(m, s)
  BY <1>4, <1>6, <1>7, <1>8, <1>14, <1>15, <1>16, <1>17, <1>18, <1>19 DEF IsMade
<1> QED
  BY <1>2, <1>4, <1>20

(* The maker's packet, field by field.                                     *)
LEMMA MadePacket ==
    ASSUME NEW m, NEW s, IsMade(m, s), NEW p, p = Serialize(m)
    PROVE  \E n \in Nat :
             /\ p = [k \in 1..n |-> p[k]] /\ DOMAIN p = 1..n /\ Len(p) = n
             /\ \A k \in 1..n : /\ Readable(p[k])
                                /\ DecodeValue(p[k]) = Normal(m)[p[k].tag]
                                /\ p[k].tag = "cancelAt" => p[k].val \in Nat
                                /\ p[k].tag = "exitDelay" => p[k].val.delay \in Nat
             /\ \A t \in Tags : (\A k \in 1..n : p[k].tag # t) => Normal(m)[t] = EmptyOffer[t]
<1>1. PICK n \in Nat :
         /\ p = [k \in 1..n |-> p[k]] /\ DOMAIN p = 1..n
         /\ \A k \in 1..n : /\ p[k].tag \in Tags /\ Present(m, p[k].tag)
                            /\ p[k].val = EncodeValue(p[k].tag, m[p[k].tag])
                            /\ p[k] = [tag |-> p[k].tag, val |-> p[k].val]
         /\ \A k, j \in 1..n : p[k].tag = p[j].tag => k = j
         /\ \A t \in Tags : Present(m, t) => \E k \in 1..n : p[k].tag = t
  BY SerializedFields
<1>2. Len(p) = n
  <2>1. p \in [1..n -> {p[k] : k \in 1..n}]
    BY <1>1
  <2>2. p \in Seq({p[k] : k \in 1..n})
    BY <2>1
  <2> QED
    BY <1>1, <2>2
<1>3. ASSUME NEW k \in 1..n
      PROVE  /\ Readable(p[k]) /\ DecodeValue(p[k]) = Normal(m)[p[k].tag]
             /\ p[k].tag = "cancelAt" => p[k].val \in Nat
             /\ p[k].tag = "exitDelay" => p[k].val.delay \in Nat
  <2>0. PICK t, v : t = p[k].tag /\ v = p[k].val
    OBVIOUS
  <2>1. t \in Tags /\ Present(m, t) /\ v = EncodeValue(t, m[t]) /\ p[k] = [tag |-> t, val |-> v]
    BY <1>1, <2>0
  <2>2. v # Malformed /\ DecodeValue([tag |-> t, val |-> v]) = Normal(m)[t]
    BY <2>1 DEF IsMade
  <2>3. t = "cancelAt" => v \in Nat
    BY <2>1 DEF EncodeValue, KeyTags, IsMade
  <2>4. t = "exitDelay" => v.delay \in Nat
    <3>1. t = "exitDelay" => m.exitDelay # None
      BY <2>1, TagNames DEF Present
    <3> QED
      BY <2>1, <3>1 DEF EncodeValue, KeyTags, IsMade
  <2> QED
    BY <2>0, <2>1, <2>2, <2>3, <2>4 DEF Readable
<1>4. \A t \in Tags : (\A k \in 1..n : p[k].tag # t) => Normal(m)[t] = EmptyOffer[t]
  BY <1>1 DEF IsMade
<1> QED
  BY <1>1, <1>2, <1>3, <1>4

-----------------------------------------------------------------------------
(* The inductive invariant.                                                *)

MakerInv ==
    /\ signer \in [{"maker", "taker"} -> Signers]
    /\ made # None => IsMade(made, signer.maker) /\ packet = Serialize(made)
    /\ made = None => asked = None
    /\ asked # None =>
         made.wantAmount = asked.wantAmount /\ made.wantAsset = asked.wantAsset

DecodeInv ==
    /\ Shape(offer) /\ offer.cancelAt \in Nat
    /\ pc = "decoded" => Complete(offer)
    /\ pc = "consistent" => VtxoScript(offer, signer.taker) = offer.swapPkScript

(* Of the maker's own packet, the fields before next are in the offer.     *)
OwnInv ==
    /\ pc = "idle" => ~own
    /\ own =>
         /\ made # None /\ next \in Nat \ {0}
         /\ pc = "reading" => \A t \in Tags :
              offer[t] = IF \E k \in DOMAIN packet : k < next /\ packet[k].tag = t
                           THEN Normal(made)[t] ELSE EmptyOffer[t]
         /\ pc # "reading" =>
              /\ pc \in {"decoded", "consistent", "inconsistent"}
              /\ offer = Normal(made)
              /\ pc = "consistent" => signer.maker.x = signer.taker.x
              /\ pc = "inconsistent" => signer.maker.x # signer.taker.x

IndInv == MakerInv /\ DecodeInv /\ OwnInv

LEMMA InitInv == Init => IndInv
<1> SUFFICES ASSUME Init PROVE IndInv
  OBVIOUS
<1>1. MakerInv
  BY DEF Init, MakerInv
<1>2. DecodeInv
  <2>1. EmptyOffer.cancelAt = 0
    BY TagNames
  <2> QED
    BY <2>1, EmptyShape DEF Init, DecodeInv
<1>3. OwnInv
  BY DEF Init, OwnInv
<1> QED
  BY <1>1, <1>2, <1>3 DEF IndInv

(* A maker publishes only while the bot is idle.                           *)
LEMMA PublishStep ==
    ASSUME IndInv, NEW o \in Drafts, pc = "idle", made = None,
           Publish(WithSwapScript(o)),
           \/ asked' = asked
           \/ asked'.wantAmount = o.wantAmount /\ asked'.wantAsset = o.wantAsset
    PROVE  IndInv'
<1>1. signer.maker \in Signers /\ signer' = signer
  BY DEF IndInv, MakerInv, Publish
<1>2. PICK m : m = Scripted(o, signer.maker)
  OBVIOUS
<1>3. IsMade(m, signer.maker) /\ \A t \in Tags \ {"swapPkScript"} : m[t] = o[t]
  BY <1>1, <1>2, DraftIsMade
<1>4. made' = m /\ packet' = Serialize(m)
  BY <1>2 DEF Publish, WithSwapScript
<1>5. m # None
  BY <1>3 DEF IsMade
<1>6. m.wantAmount = o.wantAmount /\ m.wantAsset = o.wantAsset
  BY <1>3, TagNames
<1>7. asked' # None => made'.wantAmount = asked'.wantAmount /\ made'.wantAsset = asked'.wantAsset
  <2>1. CASE asked' = asked
    BY <2>1 DEF IndInv, MakerInv
  <2>2. CASE asked'.wantAmount = o.wantAmount /\ asked'.wantAsset = o.wantAsset
    BY <1>4, <1>6, <2>2
  <2> QED
    BY <2>1, <2>2
<1>8. IsMade(made', signer'.maker) /\ packet' = Serialize(made')
  BY <1>1, <1>3, <1>4
<1>9. signer' \in [{"maker", "taker"} -> Signers]
  BY <1>1 DEF IndInv, MakerInv
<1>10. MakerInv'
  BY <1>4, <1>5, <1>7, <1>8, <1>9 DEF MakerInv
<1>11. DecodeInv'
  BY <1>1 DEF IndInv, DecodeInv, Publish
<1>12. OwnInv'
  BY DEF IndInv, OwnInv, Publish
<1> QED
  BY <1>10, <1>11, <1>12 DEF IndInv

(* The fields the bot meets are typed as the wire is.                      *)
LEMMA IncomingTyped ==
    ASSUME IndInv, NEW f \in Incoming, Readable(f)
    PROVE  /\ f.tag = "cancelAt" => f.val \in Nat
           /\ f.tag = "exitDelay" => f.val.delay \in Nat
<1>1. CASE own
  <2>1. made # None /\ IsMade(made, signer.maker) /\ packet = Serialize(made)
    BY <1>1 DEF IndInv, OwnInv, MakerInv
  <2>2. next \in DOMAIN packet /\ f = packet[next]
    BY <1>1 DEF Incoming
  <2>3. PICK n \in Nat :
           /\ DOMAIN packet = 1..n
           /\ \A k \in 1..n : /\ packet[k].tag = "cancelAt" => packet[k].val \in Nat
                              /\ packet[k].tag = "exitDelay" => packet[k].val.delay \in Nat
    BY <2>1, MadePacket
  <2> QED
    BY <2>2, <2>3
<1>2. CASE ~own /\ f \in Fields
  BY <1>2, FieldsAssumption
<1>3. CASE ~own /\ f = [tag |-> "swapPkScript", val |-> made.swapPkScript]
  BY <1>3
<1> QED
  BY <1>1, <1>2, <1>3 DEF Incoming

LEMMA ReadStep ==
    ASSUME IndInv, NEW f \in Incoming, Read(f)
    PROVE  IndInv'
<1>1. MakerInv'
  BY DEF IndInv, MakerInv, Read, makerVars
<1>2. /\ signer' = signer /\ made' = made /\ packet' = packet /\ own' = own
      /\ pc = "reading"
  BY DEF Read, makerVars
<1>3. CASE Readable(f)
  <2>1. PICK q : q = ReadField(offer, f)
    OBVIOUS
  <2>2. offer' = q /\ pc' = "reading"
    BY <1>2, <1>3, <2>1 DEF Read
  <2>3. /\ Shape(q)
        /\ \A t \in Tags : q[t] = IF t = f.tag THEN DecodeValue(f) ELSE offer[t]
    BY <1>3, <2>1, IncomingTyped, ReadKeepsShape DEF IndInv, DecodeInv
  <2>4. q.cancelAt \in Nat
    <3>1. CASE f.tag = "cancelAt"
      <4>1. DecodeValue(f) = f.val
        BY <3>1 DEF DecodeValue, KeyTags
      <4>2. f.val \in Nat
        BY <1>3, <3>1, IncomingTyped
      <4> QED
        BY <2>3, <3>1, <4>1, <4>2, TagNames
    <3>2. CASE f.tag # "cancelAt"
      BY <2>3, <3>2, TagNames DEF IndInv, DecodeInv
    <3> QED
      BY <3>1, <3>2
  <2>5. DecodeInv'
    BY <2>2, <2>3, <2>4 DEF DecodeInv
  <2>6. ASSUME own PROVE OwnInv'
    <3>1. made # None /\ IsMade(made, signer.maker) /\ packet = Serialize(made)
      BY <2>6 DEF IndInv, OwnInv, MakerInv
    <3>2. next \in DOMAIN packet /\ f = packet[next]
      BY <2>6 DEF Incoming
    <3>3. PICK n \in Nat : /\ DOMAIN packet = 1..n
                           /\ \A k \in 1..n : DecodeValue(packet[k]) = Normal(made)[packet[k].tag]
      BY <3>1, MadePacket
    <3>4. PICK j \in 1..n : j = next
      BY <3>2, <3>3
    <3>5. next' = j + 1
      BY <2>6, <3>4 DEF Read
    <3>6. \A t \in Tags : offer[t] = IF \E k \in 1..n : k < j /\ packet[k].tag = t
                                       THEN Normal(made)[t] ELSE EmptyOffer[t]
      BY <1>2, <2>6, <3>3, <3>4 DEF IndInv, OwnInv
    <3>7. DecodeValue(f) = Normal(made)[f.tag] /\ f = packet[j]
      BY <3>2, <3>3, <3>4
    <3>8. \A t \in Tags : q[t] = IF \E k \in 1..n : k < j + 1 /\ packet[k].tag = t
                                   THEN Normal(made)[t] ELSE EmptyOffer[t]
      <4> SUFFICES ASSUME NEW t \in Tags
                   PROVE  q[t] = IF \E k \in 1..n : k < j + 1 /\ packet[k].tag = t
                                   THEN Normal(made)[t] ELSE EmptyOffer[t]
        OBVIOUS
      <4>1. CASE t = f.tag
        <5>1. j \in 1..n /\ j < j + 1 /\ packet[j].tag = t
          BY <3>7, <4>1
        <5> QED
          BY <2>3, <3>7, <4>1, <5>1
      <4>2. CASE t # f.tag
        <5>1. \A k \in 1..n : k < j + 1 /\ packet[k].tag = t => k < j
          BY <3>7, <4>2
        <5>2. \A k \in 1..n : k < j => k < j + 1
          OBVIOUS
        <5> QED
          BY <2>3, <3>6, <4>2, <5>1, <5>2
      <4> QED
        BY <4>1, <4>2
    <3>9. next' \in Nat \ {0}
      BY <3>5
    <3>10. \A t \in Tags : offer'[t] = IF \E k \in DOMAIN packet' : k < next' /\ packet'[k].tag = t
                                         THEN Normal(made')[t] ELSE EmptyOffer[t]
      BY <1>2, <2>2, <3>3, <3>5, <3>8
    <3> QED
      BY <1>2, <2>2, <3>1, <3>9, <3>10 DEF OwnInv
  <2>7. ASSUME ~own PROVE OwnInv'
    BY <1>2, <2>7 DEF OwnInv
  <2> QED
    BY <1>1, <2>5, <2>6, <2>7 DEF IndInv
<1>4. CASE ~Readable(f)
  <2>1. pc' = "rejected" /\ offer' = offer
    BY <1>4 DEF Read
  <2>2. ~own
    <3> SUFFICES ASSUME own PROVE FALSE
      OBVIOUS
    <3>1. made # None /\ IsMade(made, signer.maker) /\ packet = Serialize(made)
      BY DEF IndInv, OwnInv, MakerInv
    <3>2. next \in DOMAIN packet /\ f = packet[next]
      BY DEF Incoming
    <3>3. \A k \in DOMAIN packet : Readable(packet[k])
      BY <3>1, MadePacket
    <3> QED
      BY <1>4, <3>2, <3>3
  <2>3. DecodeInv'
    BY <1>2, <2>1 DEF IndInv, DecodeInv
  <2>4. OwnInv'
    BY <1>2, <2>1, <2>2 DEF OwnInv
  <2> QED
    BY <1>1, <2>3, <2>4 DEF IndInv
<1> QED
  BY <1>3, <1>4

(* When the maker's packet ends, every field it has was read.              *)
LEMMA EndStep ==
    ASSUME IndInv, EndOfData
    PROVE  IndInv'
<1>1. MakerInv'
  BY DEF IndInv, MakerInv, EndOfData, makerVars
<1>2. /\ signer' = signer /\ made' = made /\ packet' = packet /\ own' = own
      /\ next' = next /\ offer' = offer /\ pc = "reading"
      /\ pc' = IF Complete(offer) THEN "decoded" ELSE "rejected"
  BY DEF EndOfData, makerVars
<1>3. DecodeInv'
  BY <1>2 DEF IndInv, DecodeInv
<1>4. ASSUME own PROVE offer = Normal(made) /\ Complete(offer)
  <2>1. made # None /\ IsMade(made, signer.maker) /\ packet = Serialize(made)
    BY <1>4 DEF IndInv, OwnInv, MakerInv
  <2>2. PICK n \in Nat :
           /\ DOMAIN packet = 1..n /\ Len(packet) = n
           /\ \A t \in Tags : (\A k \in 1..n : packet[k].tag # t) => Normal(made)[t] = EmptyOffer[t]
    BY <2>1, MadePacket
  <2>3. PICK j \in Nat : j = next /\ j > n
    BY <1>4, <2>2 DEF IndInv, OwnInv, EndOfData
  <2>4. \A t \in Tags : offer[t] = IF \E k \in 1..n : k < j /\ packet[k].tag = t
                                     THEN Normal(made)[t] ELSE EmptyOffer[t]
    BY <1>2, <1>4, <2>2, <2>3 DEF IndInv, OwnInv
  <2>5. \A k \in 1..n : k < j
    BY <2>3
  <2>6. \A t \in Tags : offer[t] = Normal(made)[t]
    BY <2>2, <2>4, <2>5
  <2>7. offer = [t \in Tags |-> offer[t]]
    BY DEF IndInv, DecodeInv, Shape
  <2>8. Normal(made) = [t \in Tags |-> Normal(made)[t]]
    BY DEF Normal
  <2>9. offer = Normal(made)
    BY <2>6, <2>7, <2>8
  <2> QED
    BY <2>1, <2>9 DEF IsMade
<1>5. OwnInv'
  <2>1. CASE own
    BY <1>2, <1>4, <2>1 DEF IndInv, OwnInv
  <2>2. CASE ~own
    BY <1>2, <2>2 DEF OwnInv
  <2> QED
    BY <2>1, <2>2
<1> QED
  BY <1>1, <1>3, <1>5 DEF IndInv

(* The taker rebuilds the maker's contract exactly when both sides have    *)
(* the same server key.                                                    *)
LEMMA CheckStep ==
    ASSUME IndInv, CheckScript
    PROVE  IndInv'
<1>1. MakerInv'
  BY DEF IndInv, MakerInv, CheckScript, makerVars
<1>2. /\ signer' = signer /\ made' = made /\ packet' = packet /\ own' = own
      /\ next' = next /\ offer' = offer /\ pc = "decoded"
  BY DEF CheckScript, makerVars
<1>3. /\ pc' \in {"panicked", "consistent", "inconsistent"}
      /\ pc' = "panicked" => Panics(offer)
      /\ pc' = "consistent" => VtxoScript(offer, signer.taker) = offer.swapPkScript
      /\ pc' = "inconsistent" => VtxoScript(offer, signer.taker) # offer.swapPkScript
  BY DEF CheckScript
<1>4. DecodeInv'
  BY <1>2, <1>3 DEF IndInv, DecodeInv
<1>5. OwnInv'
  <2>1. CASE ~own
    BY <1>2, <1>3, <2>1 DEF OwnInv
  <2>2. CASE own
    <3>1. /\ made # None /\ IsMade(made, signer.maker) /\ offer = Normal(made)
          /\ signer.taker \in Signers
      BY <1>2, <2>2 DEF IndInv, OwnInv, MakerInv
    <3>2. PICK a, b, v : a = signer.maker /\ b = signer.taker /\ v = made.swapPkScript
      OBVIOUS
    <3>3. v = VtxoScript(made, a) /\ VtxoScript(offer, b) = VtxoScript(made, b) /\ ~Panics(offer)
      BY <3>1, <3>2 DEF IsMade
    <3>4. offer.swapPkScript = v
      BY <3>1, <3>2, TagNames DEF Normal, KeyTags
    <3>5. VtxoScript(made, a) = VtxoScript(made, b) <=> a.x = b.x
      BY DEF VtxoScript
    <3>6. /\ pc' # "panicked"
          /\ pc' = "consistent" => signer.maker.x = signer.taker.x
          /\ pc' = "inconsistent" => signer.maker.x # signer.taker.x
      BY <1>3, <3>2, <3>3, <3>4, <3>5
    <3> QED
      BY <1>2, <1>3, <2>2, <3>1, <3>6 DEF IndInv, OwnInv
  <2> QED
    BY <2>1, <2>2
<1> QED
  BY <1>1, <1>4, <1>5 DEF IndInv

LEMMA NextInv == IndInv /\ [Next]_vars => IndInv'
<1> SUFFICES ASSUME IndInv, [Next]_vars PROVE IndInv'
  OBVIOUS
<1>0. EmptyOffer.cancelAt = 0 /\ Shape(EmptyOffer)
  BY TagNames, EmptyShape
<1>1. ASSUME NEW p \in Params, NEW k \in IntroKeys, NEW s \in MakerScripts, CreateOffer(p, k, s)
      PROVE  IndInv'
  <2>1. PICK o : o = Draft(p, k, s)
    OBVIOUS
  <2>2. o \in Drafts
    BY <1>1, <2>1 DEF CreateOffer, Drafts
  <2>3. o.wantAmount = p.wantAmount /\ o.wantAsset = p.wantAsset
    BY <2>1, TagNames DEF Draft, EmptyOffer
  <2>4. asked' = p /\ pc = "idle" /\ made = None /\ Publish(WithSwapScript(o))
    BY <1>1, <2>1 DEF CreateOffer
  <2> QED
    BY <2>2, <2>3, <2>4, PublishStep
<1>2. ASSUME NEW o \in OwnOffers, OwnOffer(o) PROVE IndInv'
  BY <1>2, PublishStep DEF OwnOffer, Drafts
<1>3. ASSUME NEW mine \in BOOLEAN, Find(mine) PROVE IndInv'
  <2>1. MakerInv'
    BY <1>3 DEF IndInv, MakerInv, Find, makerVars
  <2>2. DecodeInv'
    BY <1>0, <1>3 DEF Find, DecodeInv
  <2>3. OwnInv'
    <3>1. /\ own' = mine /\ next' = 1 /\ offer' = EmptyOffer /\ pc' = "reading"
          /\ made' = made /\ packet' = packet /\ (mine => made # None)
      BY <1>3 DEF Find, makerVars
    <3>2. ASSUME mine PROVE \A i \in DOMAIN packet : ~(i < 1)
      <4>1. made # None /\ IsMade(made, signer.maker) /\ packet = Serialize(made)
        BY <3>1, <3>2 DEF IndInv, MakerInv
      <4>2. \E n \in Nat : DOMAIN packet = 1..n
        BY <4>1, MadePacket
      <4> QED
        BY <4>2
    <3> QED
      BY <3>1, <3>2 DEF OwnInv
  <2> QED
    BY <2>1, <2>2, <2>3 DEF IndInv
<1>4. ASSUME NEW f \in Incoming, Read(f) PROVE IndInv'
  BY <1>4, ReadStep
<1>5. ASSUME Truncated PROVE IndInv'
  <2>1. MakerInv'
    BY <1>5 DEF IndInv, MakerInv, Truncated, makerVars
  <2>2. DecodeInv'
    BY <1>5 DEF IndInv, DecodeInv, Truncated, makerVars
  <2>3. OwnInv'
    BY <1>5 DEF OwnInv, Truncated
  <2> QED
    BY <2>1, <2>2, <2>3 DEF IndInv
<1>6. ASSUME Done PROVE IndInv'
  <2>1. MakerInv'
    BY <1>6 DEF IndInv, MakerInv, Done, makerVars
  <2>2. DecodeInv'
    BY <1>0, <1>6 DEF Done, DecodeInv
  <2>3. OwnInv'
    BY <1>6 DEF OwnInv, Done
  <2> QED
    BY <2>1, <2>2, <2>3 DEF IndInv
<1>7. CASE UNCHANGED vars
  <2>1. MakerInv'
    BY <1>7 DEF IndInv, MakerInv, vars
  <2>2. DecodeInv'
    BY <1>7 DEF IndInv, DecodeInv, vars
  <2>3. OwnInv'
    BY <1>7 DEF IndInv, OwnInv, vars
  <2> QED
    BY <2>1, <2>2, <2>3 DEF IndInv
<1> QED
  BY <1>1, <1>2, <1>3, <1>4, <1>5, <1>6, <1>7, EndStep, CheckStep DEF Next

-----------------------------------------------------------------------------
(* The theorems.                                                           *)

(* The inductive invariant holds.                                          *)
THEOREM Invariance == Spec => []IndInv
<1>1. Init => IndInv
  BY InitInv
<1>2. IndInv /\ [Next]_vars => IndInv'
  BY NextInv
<1> QED
  BY <1>1, <1>2, PTL DEF Spec

(* Whatever packet a bot decodes, DeserializeOffer of the Serialize of the *)
(* decoded offer is that offer: the codec of offer.go agrees with itself   *)
(* on every offer that can be received.                                    *)
THEOREM DecodedCanBePassedOn == Spec => []ReencodesToSame
<1>1. IndInv => ReencodesToSame
  BY ShapeReencodes DEF IndInv, DecodeInv, ReencodesToSame
<1> QED
  BY <1>1, Invariance, PTL

(* The offer that CreateOffer or a maker of its own serializes is the      *)
(* offer that DeserializeOffer gives the bot, and the contract that        *)
(* Offer.VtxoScript rebuilds for it is the funded one.                     *)
THEOREM MadeOfferArrives == Spec => []CreatedOfferArrives
<1>1. IndInv => CreatedOfferArrives
  <2> SUFFICES ASSUME IndInv, own, pc \notin {"idle", "reading"}
               PROVE  /\ pc # "rejected" /\ pc # "panicked"
                      /\ offer = Normal(made)
                      /\ asked # None =>
                           offer.wantAmount = asked.wantAmount /\ offer.wantAsset = asked.wantAsset
                      /\ pc = "consistent" => signer.maker.x = signer.taker.x
                      /\ pc = "inconsistent" => signer.maker.x # signer.taker.x
    BY DEF CreatedOfferArrives
  <2>1. /\ pc \in {"decoded", "consistent", "inconsistent"} /\ offer = Normal(made)
        /\ pc = "consistent" => signer.maker.x = signer.taker.x
        /\ pc = "inconsistent" => signer.maker.x # signer.taker.x
    BY DEF IndInv, OwnInv
  <2>2. offer.wantAmount = made.wantAmount /\ offer.wantAsset = made.wantAsset
    BY <2>1, TagNames DEF Normal, KeyTags
  <2>3. asked # None =>
           offer.wantAmount = asked.wantAmount /\ offer.wantAsset = asked.wantAsset
    BY <2>2 DEF IndInv, MakerInv
  <2> QED
    BY <2>1, <2>3
<1> QED
  BY <1>1, Invariance, PTL

(* FulfillOffer's comparison of the rebuilt script with the packet's pins  *)
(* what the contract is built from, also when anybody else put the packet  *)
(* together: amount, issuance (not the asset's index), witness program     *)
(* (not its version), the x-only keys and the maker's ways out with their  *)
(* delays.                                                                 *)
THEOREM ScriptPinsTerms == Spec => []ConsistentPinsTerms
<1>1. IndInv => ConsistentPinsTerms
  <2> SUFFICES ASSUME IndInv, pc = "consistent", made # None,
                      offer.swapPkScript = made.swapPkScript
               PROVE  /\ offer.wantAmount = made.wantAmount
                      /\ (offer.wantAsset = None) <=> (made.wantAsset = None)
                      /\ made.wantAsset # None => offer.wantAsset.txid = made.wantAsset.txid
                      /\ offer.makerPkScript.program = made.makerPkScript.program
                      /\ signer.taker.x = signer.maker.x
                      /\ offer.introspectorPubkey.x = made.introspectorPubkey.x
                      /\ (offer.cancelAt > 0) <=> (made.cancelAt > 0)
                      /\ offer.cancelAt % Max32 = made.cancelAt % Max32
                      /\ offer.exitDelay = made.exitDelay
                      /\ made.cancelAt > 0 \/ made.exitDelay # None =>
                            offer.makerPublicKey.x = made.makerPublicKey.x
    BY DEF ConsistentPinsTerms
  <2>1. PICK v, w : v = VtxoScript(offer, signer.taker) /\ w = VtxoScript(made, signer.maker)
    OBVIOUS
  <2>2. v = w
    BY <2>1 DEF IndInv, DecodeInv, MakerInv, IsMade
  <2>3. v.fulfill = FulfillTerms(offer) /\ w.fulfill = FulfillTerms(made)
    BY <2>1 DEF VtxoScript
  <2>4. PICK c \in Nat, d \in Nat : c = offer.cancelAt /\ d = made.cancelAt
    BY DEF IndInv, DecodeInv, MakerInv, IsMade
  <2>5. /\ v.introspector = offer.introspectorPubkey.x
        /\ w.introspector = made.introspectorPubkey.x
        /\ v.server = signer.taker.x /\ w.server = signer.maker.x
    BY <2>1 DEF VtxoScript
  <2>6. /\ v.cancel = IF c > 0 THEN <<offer.makerPublicKey.x, c % Max32>> ELSE <<>>
        /\ w.cancel = IF d > 0 THEN <<made.makerPublicKey.x, d % Max32>> ELSE <<>>
    BY <2>1, <2>4 DEF VtxoScript
  <2>7. /\ v.exit = IF offer.exitDelay # None
                      THEN <<offer.makerPublicKey.x, offer.exitDelay>> ELSE <<>>
        /\ w.exit = IF made.exitDelay # None
                      THEN <<made.makerPublicKey.x, made.exitDelay>> ELSE <<>>
    BY <2>1 DEF VtxoScript
  <2>8. \A x, y : /\ <<x, y>> # <<>> /\ <<x>> # <<>> /\ <<x>>[1] = x
                /\ <<x, y>>[1] = x /\ <<x, y>>[2] = y
    OBVIOUS
  <2>9. offer.exitDelay = made.exitDelay
    BY <2>2, <2>7, <2>8
  <2>10. c % Max32 = d % Max32
    <3>1. CASE c > 0 \/ d > 0
      BY <2>2, <2>6, <2>8, <3>1
    <3>2. CASE ~(c > 0) /\ ~(d > 0)
      BY <2>4, <3>2
    <3> QED
      BY <3>1, <3>2
  <2>10a. (c > 0) <=> (d > 0)
    BY <2>2, <2>6, <2>8
  <2>10b. ASSUME d > 0 \/ made.exitDelay # None
          PROVE  offer.makerPublicKey.x = made.makerPublicKey.x
    BY <2>2, <2>6, <2>7, <2>8, <2>9, <2>10a, <2>10b
  <2>11. /\ offer.makerPkScript.program = made.makerPkScript.program
         /\ offer.wantAmount = made.wantAmount
    BY <2>2, <2>3 DEF FulfillTerms
  <2>12. (IF offer.wantAsset = None THEN <<>> ELSE <<offer.wantAsset.txid>>)
           = (IF made.wantAsset = None THEN <<>> ELSE <<made.wantAsset.txid>>)
    BY <2>2, <2>3 DEF FulfillTerms
  <2>13. /\ (offer.wantAsset = None) <=> (made.wantAsset = None)
         /\ made.wantAsset # None => offer.wantAsset.txid = made.wantAsset.txid
    BY <2>8, <2>12
  <2> QED
    BY <2>2, <2>4, <2>5, <2>9, <2>10, <2>10a, <2>10b, <2>11, <2>13
<1> QED
  BY <1>1, Invariance, PTL

=============================================================================
