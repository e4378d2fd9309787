--------------------------- MODULE DashboardProofs ---------------------------
(***************************************************************************)
(* Theorems about Dashboard, for any number of names, values, operations   *)
(* under way and changes by other clients.                                 *)
(***************************************************************************)
EXTENDS Dashboard, TLAPS

Ops == [kind : {"load", "add", "update", "remove"}, name : Names \union {""},
        value : Values \union {0}, form : BOOLEAN, phase : {"sent", "answered", "over"},
        ok : BOOLEAN, data : PairMaps]

(* What the table, the page, a rollback and the answer of a load consist   *)
(* of are rows the table has held.                                         *)
RowsInv ==
    /\ Rows(table) \subseteq ever
    /\ Rows(cache) \subseteq ever
    /\ \A i \in DOMAIN ops : Rows(ops[i].data) \subseteq ever

-----------------------------------------------------------------------------
(* Maps.                                                                   *)

LEMMA EmptyMap == Empty \in PairMaps /\ Rows(Empty) = {}
  BY DEF Empty, PairMaps, Rows

LEMMA WithoutMap ==
  ASSUME NEW t \in PairMaps, NEW n
  PROVE  Without(t, n) \in PairMaps /\ Rows(Without(t, n)) \subseteq Rows(t)
<1>1. PICK ns \in SUBSET Names : t \in [ns -> Values]
  BY DEF PairMaps
<1>2. Without(t, n) \in [ns \ {n} -> Values]
  BY <1>1 DEF Without
<1>3. ns \ {n} \in SUBSET Names
  OBVIOUS
<1>4. Without(t, n) \in PairMaps
  BY <1>2, <1>3 DEF PairMaps
<1>5. Rows(Without(t, n)) \subseteq Rows(t)
  BY DEF Rows, Without
<1> QED
  BY <1>4, <1>5

LEMMA WithMap ==
  ASSUME NEW t \in PairMaps, NEW n \in Names, NEW v \in Values
  PROVE  With(t, n, v) \in PairMaps
<1>1. PICK ns \in SUBSET Names : t \in [ns -> Values]
  BY DEF PairMaps
<1>2. With(t, n, v) \in [ns \union {n} -> Values]
  BY <1>1 DEF With
<1>3. ns \union {n} \in SUBSET Names
  OBVIOUS
<1> QED
  BY <1>2, <1>3 DEF PairMaps

LEMMA ValueInMap ==
  ASSUME NEW t \in PairMaps, NEW n \in DOMAIN t
  PROVE  n \in Names /\ t[n] \in Values
  BY DEF PairMaps

-----------------------------------------------------------------------------
(* The list of operations: a new one, or one that goes on.                 *)

WellFormed(op) ==
    op \in Ops /\ (op.kind # "load" => op.name \in Names /\ op.value \in Values)

OpsType == ops \in Seq(Ops) /\ \A i \in DOMAIN ops : WellFormed(ops[i])

LEMMA LoadOp ==
  ASSUME NEW form \in BOOLEAN
  PROVE  WellFormed(LoadFor(form)) /\ LoadFor(form).data = Empty
  BY EmptyMap DEF WellFormed, LoadFor, Op, Ops

LEMMA StartOps ==
  ASSUME OpsType, NEW op, WellFormed(op), Start(op)
  PROVE  /\ OpsType'
         /\ \A i \in DOMAIN ops' : ops'[i] = op \/ (i \in DOMAIN ops /\ ops'[i] = ops[i])
  BY DEF OpsType, WellFormed, Start

LEMMA ReplaceOps ==
  ASSUME OpsType, NEW i \in DOMAIN ops, NEW op, WellFormed(op),
         ops' = [ops EXCEPT ![i] = op]
  PROVE  /\ OpsType'
         /\ \A k \in DOMAIN ops' :
               k \in DOMAIN ops /\ (ops'[k] = ops[k] \/ ops'[k] = op)
  BY DEF OpsType, WellFormed

(* The operation that Answer and Over put in the place of op.              *)
Answered(op, ok) ==
    [op EXCEPT !.phase = "answered", !.ok = ok,
               !.data = IF op.kind = "load" THEN table ELSE op.data]
Ended(op) == [op EXCEPT !.phase = "over", !.data = Empty]

LEMMA AnswerOps ==
  ASSUME OpsType, table \in PairMaps, NEW i \in DOMAIN ops, NEW ok \in BOOLEAN,
         Answer(i, ok)
  PROVE  /\ OpsType'
         /\ \A k \in DOMAIN ops' :
               k \in DOMAIN ops /\ ops'[k].data \in {ops[k].data, table}
<1>1. ops[i] \in Ops /\ WellFormed(ops[i])
  BY DEF OpsType, WellFormed
<1>2. WellFormed(Answered(ops[i], ok))
  BY <1>1 DEF WellFormed, Answered, Ops
<1>3. ops' = [ops EXCEPT ![i] = Answered(ops[i], ok)]
  BY DEF Answer, Answered
<1>4. Answered(ops[i], ok).data \in {ops[i].data, table}
  BY <1>1 DEF Answered, Ops
<1>5. \A k \in DOMAIN ops' : k \in DOMAIN ops
         /\ ops'[k] = IF k = i THEN Answered(ops[i], ok) ELSE ops[k]
  BY <1>3 DEF OpsType
<1> QED
  BY <1>2, <1>3, <1>4, <1>5, ReplaceOps

LEMMA OverOps ==
  ASSUME OpsType, NEW i \in DOMAIN ops, Over(i)
  PROVE  /\ OpsType'
         /\ \A k \in DOMAIN ops' :
               k \in DOMAIN ops /\ ops'[k].data \in {ops[k].data, Empty}
<1>1. ops[i] \in Ops /\ WellFormed(ops[i])
  BY DEF OpsType, WellFormed
<1>2. WellFormed(Ended(ops[i]))
  BY <1>1, EmptyMap DEF WellFormed, Ended, Ops
<1>3. ops' = [ops EXCEPT ![i] = Ended(ops[i])]
  BY DEF Over, Ended
<1>4. Ended(ops[i]).data = Empty
  BY <1>1 DEF Ended, Ops
<1>5. \A k \in DOMAIN ops' : k \in DOMAIN ops
         /\ ops'[k] = IF k = i THEN Ended(ops[i]) ELSE ops[k]
  BY <1>3 DEF OpsType
<1> QED
  BY <1>2, <1>3, <1>4, <1>5, ReplaceOps

-----------------------------------------------------------------------------
Inv ==
    /\ OpsType
    /\ table \in PairMaps /\ cache \in PairMaps /\ view \in PairMaps
    /\ toasts \subseteq Names \X Values
    /\ view \in {cache, Empty}
    /\ RowsInv

LEMMA AppliedMap ==
  ASSUME table \in PairMaps, NEW op, WellFormed(op)
  PROVE  After(op) \in PairMaps
<1>1. op.kind \in {"load", "add", "update", "remove"}
  BY DEF WellFormed, Ops
<1>2. CASE op.kind = "load"
  BY <1>2 DEF After
<1>3. CASE op.kind \in {"add", "update"}
  BY <1>3, WithMap DEF After, WellFormed
<1>4. CASE op.kind = "remove"
  BY <1>4, WithoutMap DEF After
<1> QED
  BY <1>1, <1>2, <1>3, <1>4

LEMMA InvStep == Inv /\ [Next]_vars => Inv'
<1> SUFFICES ASSUME Inv, [Next]_vars PROVE Inv'
  OBVIOUS
<1>0. /\ OpsType /\ table \in PairMaps /\ cache \in PairMaps /\ view \in PairMaps
      /\ toasts \subseteq Names \X Values /\ view \in {cache, Empty}
      /\ RowsInv
  BY DEF Inv
<1>1. CASE LoadPairs
  <2>1. WellFormed(Load) /\ Load.data = Empty
    BY LoadOp DEF Load
  <2> QED
    BY <1>0, <1>1, <2>1, StartOps, EmptyMap DEF LoadPairs, page, RowsInv, Inv
<1>2. ASSUME NEW kind \in {"add", "update"}, NEW n \in Names, NEW v \in Values,
             Submit(kind, n, v)
      PROVE  Inv'
  <2> DEFINE op == Op(kind, n, v, TRUE, Empty)
  <2>1. WellFormed(op) /\ op.data = Empty
    BY EmptyMap DEF WellFormed, Op, Ops
  <2>2. Start(op)
    BY <1>2 DEF Submit
  <2> HIDE DEF op
  <2> QED
    BY <1>0, <1>2, <2>1, <2>2, StartOps, EmptyMap DEF Submit, page, RowsInv, Inv
<1>3. ASSUME NEW n \in Names, DeletePair(n) PROVE Inv'
  <2> DEFINE op == Op("remove", n, view[n], FALSE, cache)
  <2>1. WellFormed(op) /\ op.data = cache
    BY <1>0, <1>3, ValueInMap DEF WellFormed, Op, Ops, DeletePair
  <2>2. Start(op)
    BY <1>3 DEF DeletePair
  <2> HIDE DEF op
  <2>3. /\ cache' = Without(cache, n) /\ view' = cache'
        /\ UNCHANGED <<table, toasts, ever>>
    BY <1>3 DEF DeletePair
  <2>4. cache' \in PairMaps /\ Rows(cache') \subseteq Rows(cache)
    BY <1>0, <2>3, WithoutMap
  <2> QED
    BY <1>0, <2>1, <2>2, <2>3, <2>4, StartOps DEF RowsInv, Inv
<1>4. ASSUME NEW t \in toasts, Undo(t) PROVE Inv'
  <2> DEFINE op == Op("add", t[1], t[2], FALSE, Empty)
  <2>1. WellFormed(op) /\ op.data = Empty
    BY <1>0, EmptyMap DEF WellFormed, Op, Ops
  <2>2. Start(op)
    BY <1>4 DEF Undo
  <2> HIDE DEF op
  <2> QED
    BY <1>0, <1>4, <2>1, <2>2, StartOps, EmptyMap DEF Undo, RowsInv, Inv
<1>5. ASSUME NEW t \in toasts, ToastExpires(t) PROVE Inv'
  BY <1>0, <1>5 DEF ToastExpires, RowsInv, OpsType, Inv
<1>6. ASSUME NEW i \in DOMAIN ops, NEW arrives \in BOOLEAN, Serve(i, arrives) PROVE Inv'
  <2>1. WellFormed(ops[i])
    BY <1>0 DEF OpsType
  <2>2. table' \in PairMaps
    BY <1>0, <1>6, <2>1, AppliedMap DEF Serve
  <2>3. (Applies(ops[i]) /\ arrives) \in BOOLEAN
    OBVIOUS
  <2>4. /\ OpsType'
        /\ \A k \in DOMAIN ops' :
              k \in DOMAIN ops /\ ops'[k].data \in {ops[k].data, table}
    BY <1>0, <1>6, <2>3, AnswerOps DEF Serve
  <2>5. ever' = ever \union Rows(table') /\ UNCHANGED <<cache, view, toasts>>
    BY <1>6 DEF Serve, page
  <2> QED
    BY <1>0, <2>2, <2>4, <2>5 DEF RowsInv, Inv
<1>7. ASSUME NEW i \in DOMAIN ops, Fail(i) PROVE Inv'
  <2>1. /\ OpsType'
        /\ \A k \in DOMAIN ops' :
              k \in DOMAIN ops /\ ops'[k].data \in {ops[k].data, table}
    BY <1>0, <1>7, AnswerOps DEF Fail
  <2> QED
    BY <1>0, <1>7, <2>1 DEF Fail, page, RowsInv, Inv
<1>8. ASSUME NEW i \in DOMAIN ops, HandleLoad(i) PROVE Inv'
  <2>1. /\ OpsType'
        /\ \A k \in DOMAIN ops' :
              k \in DOMAIN ops /\ ops'[k].data \in {ops[k].data, Empty}
    BY <1>0, <1>8, OverOps DEF HandleLoad
  <2>2. ops[i].data \in PairMaps /\ Rows(ops[i].data) \subseteq ever
    BY <1>0 DEF OpsType, WellFormed, Ops, RowsInv
  <2> QED
    BY <1>0, <1>8, <2>1, <2>2, EmptyMap DEF HandleLoad, RowsInv, Inv
<1>9. ASSUME NEW i \in DOMAIN ops, HandleSave(i) PROVE Inv'
  <2>1. CASE ops[i].ok
    <3> DEFINE op == LoadFor(ops[i].form)
    <3>1. ops' = [ops EXCEPT ![i] = op]
      BY <1>9, <2>1 DEF HandleSave
    <3>2. WellFormed(op) /\ op.data = Empty
      <4>1. ops[i].form \in BOOLEAN
        BY <1>0 DEF OpsType, WellFormed, Ops
      <4> QED
        BY <4>1, LoadOp
    <3> HIDE DEF op
    <3>3. /\ OpsType'
          /\ \A k \in DOMAIN ops' :
                k \in DOMAIN ops /\ (ops'[k] = ops[k] \/ ops'[k] = op)
      BY <1>0, <3>1, <3>2, ReplaceOps
    <3> QED
      BY <1>0, <1>9, <3>2, <3>3, EmptyMap DEF HandleSave, page, RowsInv, Inv
  <2>2. CASE ~ops[i].ok
    <3>1. /\ OpsType'
          /\ \A k \in DOMAIN ops' :
                k \in DOMAIN ops /\ ops'[k].data \in {ops[k].data, Empty}
      BY <1>0, <1>9, <2>2, OverOps DEF HandleSave
    <3> QED
      BY <1>0, <1>9, <3>1, EmptyMap DEF HandleSave, page, RowsInv, Inv
  <2> QED
    BY <2>1, <2>2
<1>10. ASSUME NEW i \in DOMAIN ops, HandleRemove(i) PROVE Inv'
  <2>1. /\ OpsType'
        /\ \A k \in DOMAIN ops' :
              k \in DOMAIN ops /\ ops'[k].data \in {ops[k].data, Empty}
    BY <1>0, <1>10, OverOps DEF HandleRemove
  <2>2. ops[i].data \in PairMaps /\ Rows(ops[i].data) \subseteq ever
    BY <1>0 DEF OpsType, WellFormed, Ops, RowsInv
  <2>3. ops[i].name \in Names /\ ops[i].value \in Values
    BY <1>0, <1>10 DEF HandleRemove, OpsType, WellFormed
  <2> QED
    BY <1>0, <1>10, <2>1, <2>2, <2>3, EmptyMap DEF HandleRemove, RowsInv, Inv
<1>11. ASSUME NEW n \in Names, NEW v \in Values, OtherClient(n, v) PROVE Inv'
  <2>1. table' \in PairMaps
    BY <1>0, <1>11, WithMap, WithoutMap DEF OtherClient
  <2> QED
    BY <1>0, <1>11, <2>1 DEF OtherClient, page, RowsInv, OpsType, Inv
<1>12. CASE UNCHANGED vars
  BY <1>0, <1>12 DEF vars, RowsInv, OpsType, Inv
<1> QED
  BY <1>1, <1>2, <1>3, <1>4, <1>5, <1>6, <1>7, <1>8, <1>9, <1>10, <1>11, <1>12
  DEF Next

LEMMA InvInit == Init => Inv
<1> SUFFICES ASSUME Init PROVE Inv
  OBVIOUS
<1>1. ops = <<Load>> /\ WellFormed(Load) /\ Load.data = Empty
  BY LoadOp DEF Init, Load
<1>2. OpsType /\ \A i \in DOMAIN ops : ops[i] = Load
  <2> HIDE DEF Load
  <2> QED
    BY <1>1 DEF OpsType, WellFormed
<1> QED
  BY <1>1, <1>2, EmptyMap, TablesAssumption DEF Init, Inv, RowsInv

-----------------------------------------------------------------------------
(* What an undisturbed operation relies on at its continuation: a load on  *)
(* its answer, a refused save on the page as it was, a delete on the list  *)
(* it keeps or on the row it has taken away.                               *)
QuietOp(op) ==
    /\ op.kind = "load" /\ op.phase = "answered" => op.ok /\ op.data = table
    /\ op.kind \in {"add", "update"} /\ ~(op.phase = "answered" /\ op.ok) =>
          view = table /\ cache = table
    /\ op.kind = "remove" /\ op.phase = "sent" =>
          op.data = table /\ cache = Without(table, op.name) /\ view = cache
    /\ op.kind = "remove" /\ op.phase = "answered" =>
          IF op.ok THEN view = table /\ cache = table ELSE op.data = table

QuietInv ==
    ~disturbed =>
        /\ \A i, j \in InFlight : i = j
        /\ InFlight = {} => view = table /\ cache = table
        /\ \A i \in InFlight : QuietOp(ops[i])

LEMMA StartQuiet ==
  ASSUME OpsType, QuietInv, NEW op, WellFormed(op), op.phase = "sent", Start(op),
         ~disturbed /\ InFlight = {} => QuietOp(op)'
  PROVE  QuietInv'
<1> SUFFICES ASSUME ~disturbed' PROVE QuietInv'
  BY DEF QuietInv
<1>1. ~disturbed /\ InFlight = {}
  BY DEF Start
<1>2. ops \in Seq(Ops) /\ op \in Ops /\ ops' = Append(ops, op)
  BY DEF OpsType, WellFormed, Start
<1>3. PICK n \in Nat : n = Len(ops)
  BY <1>2
<1>4. /\ DOMAIN ops = 1..n
      /\ DOMAIN ops' = 1..(n + 1) /\ ops'[n + 1] = op
      /\ \A i \in 1..n : ops'[i] = ops[i]
  <2> HIDE DEF Ops
  <2> QED
    BY <1>2, <1>3
<1>5. \A i \in 1..n : ops[i].phase = "over"
  BY <1>1, <1>4 DEF InFlight
<1>6. \A i \in InFlight' : i = n + 1
  BY <1>4, <1>5 DEF InFlight
<1>7. n + 1 \in InFlight'
  BY <1>4 DEF InFlight
<1>8. QuietOp(ops[n + 1])'
  BY <1>1, <1>4 DEF QuietOp
<1> QED
  BY <1>4, <1>6, <1>7, <1>8 DEF QuietInv, QuietOp

(* An operation that goes on, and is still under way.                      *)
LEMMA GoOnQuiet ==
  ASSUME OpsType, QuietInv, NEW i \in InFlight, NEW op, op.phase # "over",
         ops' = [ops EXCEPT ![i] = op],
         ~disturbed' => ~disturbed /\ QuietOp(op)'
  PROVE  QuietInv'
<1> SUFFICES ASSUME ~disturbed' PROVE QuietInv'
  BY DEF QuietInv
<1>1. i \in DOMAIN ops /\ DOMAIN ops' = DOMAIN ops
      /\ \A k \in DOMAIN ops : ops'[k] = IF k = i THEN op ELSE ops[k]
  BY DEF InFlight, OpsType
<1>2. InFlight' = InFlight
  BY <1>1 DEF InFlight
<1>3. InFlight = {i}
  BY DEF QuietInv
<1>4. QuietOp(ops[i])'
  BY <1>1 DEF QuietOp
<1> QED
  BY <1>2, <1>3, <1>4 DEF QuietInv, QuietOp

(* An operation that is over.                                              *)
LEMMA OverQuiet ==
  ASSUME OpsType, QuietInv, NEW i \in InFlight, Over(i),
         ~disturbed' => ~disturbed /\ view' = table' /\ cache' = table'
  PROVE  QuietInv'
<1> SUFFICES ASSUME ~disturbed' PROVE QuietInv'
  BY DEF QuietInv
<1>1. i \in DOMAIN ops /\ ops' = [ops EXCEPT ![i] = Ended(ops[i])] /\ ops[i] \in Ops
  BY DEF InFlight, Over, Ended, OpsType, WellFormed
<1>2. Ended(ops[i]).phase = "over"
  BY <1>1 DEF Ended, Ops
<1>3. DOMAIN ops' = DOMAIN ops
      /\ \A k \in DOMAIN ops : ops'[k] = IF k = i THEN Ended(ops[i]) ELSE ops[k]
  BY <1>1 DEF OpsType
<1>4. \A k \in InFlight' : k \in InFlight /\ k # i
  BY <1>2, <1>3 DEF InFlight
<1>5. InFlight' = {}
  BY <1>4 DEF QuietInv
<1> QED
  BY <1>5 DEF QuietInv

LEMMA AnsweredOp ==
  ASSUME NEW op \in Ops, NEW ok \in BOOLEAN
  PROVE  /\ Answered(op, ok).kind = op.kind /\ Answered(op, ok).name = op.name
         /\ Answered(op, ok).phase = "answered" /\ Answered(op, ok).ok = ok
         /\ Answered(op, ok).data = IF op.kind = "load" THEN table ELSE op.data
  BY DEF Answered, Ops

LEMMA QuietStep == Inv /\ QuietInv /\ [Next]_vars => QuietInv'
<1> SUFFICES ASSUME Inv, QuietInv, [Next]_vars PROVE QuietInv'
  OBVIOUS
<1>0. OpsType /\ table \in PairMaps /\ cache \in PairMaps /\ view \in PairMaps
      /\ toasts \subseteq Names \X Values
  BY DEF Inv
<1>a. ASSUME NEW i \in DOMAIN ops
      PROVE  /\ ops[i] \in Ops /\ WellFormed(ops[i])
             /\ ops[i].kind \in {"load", "add", "update", "remove"}
             /\ ops[i].ok \in BOOLEAN
  BY <1>0 DEF OpsType, WellFormed, Ops
<1>b. ASSUME NEW i \in DOMAIN ops, ops[i].phase # "over" PROVE i \in InFlight
  BY <1>b DEF InFlight
<1>c. ASSUME NEW i \in InFlight, ~disturbed PROVE QuietOp(ops[i])
  BY <1>c DEF QuietInv
<1>1. CASE LoadPairs
  <2>1. WellFormed(Load) /\ Load.phase = "sent" /\ Load.kind = "load"
    BY LoadOp DEF Load, LoadFor, Op
  <2>2. Start(Load)
    BY <1>1 DEF LoadPairs
  <2>3. QuietOp(Load)'
    BY <2>1 DEF QuietOp
  <2> QED
    BY <1>0, <2>1, <2>2, <2>3, StartQuiet
<1>2. ASSUME NEW kind \in {"add", "update"}, NEW n \in Names, NEW v \in Values,
             NEW form \in BOOLEAN, Start(Op(kind, n, v, form, Empty)),
             UNCHANGED <<table, cache, view>>
      PROVE  QuietInv'
  <2>1. PICK op : op = Op(kind, n, v, form, Empty)
    OBVIOUS
  <2>2. WellFormed(op) /\ op.phase = "sent" /\ op.kind = kind
    BY <2>1, EmptyMap DEF WellFormed, Op, Ops
  <2>3. ~disturbed /\ InFlight = {} => QuietOp(op)'
    BY <1>2, <2>2 DEF QuietOp, QuietInv
  <2> QED
    BY <1>0, <1>2, <2>1, <2>2, <2>3, StartQuiet
<1>3. ASSUME NEW n \in Names, DeletePair(n) PROVE QuietInv'
  <2>1. PICK op : op = Op("remove", n, view[n], FALSE, cache)
    OBVIOUS
  <2>2. WellFormed(op)
    BY <1>0, <1>3, <2>1, ValueInMap DEF WellFormed, Op, Ops, DeletePair
  <2>3. op.phase = "sent" /\ op.kind = "remove" /\ op.name = n /\ op.data = cache
    BY <2>1 DEF Op
  <2>4. Start(op) /\ cache' = Without(cache, n) /\ view' = cache' /\ table' = table
    BY <1>3, <2>1 DEF DeletePair
  <2>5. ASSUME ~disturbed, InFlight = {} PROVE QuietOp(op)'
    <3>1. cache = table
      BY <2>5 DEF QuietInv
    <3>2. op.data = table' /\ cache' = Without(table', op.name) /\ view' = cache'
      BY <3>1, <2>3, <2>4
    <3> QED
      BY <2>3, <3>2 DEF QuietOp
  <2> QED
    BY <1>0, <2>2, <2>3, <2>4, <2>5, StartQuiet
<1>4. ASSUME NEW t \in toasts, Undo(t) PROVE QuietInv'
  <2>1. t[1] \in Names /\ t[2] \in Values
    BY <1>0
  <2>2. Start(Op("add", t[1], t[2], FALSE, Empty)) /\ UNCHANGED <<table, cache, view>>
    BY <1>4 DEF Undo
  <2> QED
    BY <1>2, <2>1, <2>2
<1>5. ASSUME NEW i \in DOMAIN ops, NEW arrives \in BOOLEAN, Serve(i, arrives)
      PROVE  QuietInv'
  <2>1. PICK ok \in BOOLEAN : ok = (Applies(ops[i]) /\ arrives)
    OBVIOUS
  <2>2. PICK op : op = Answered(ops[i], ok)
    OBVIOUS
  <2>3. /\ ops' = [ops EXCEPT ![i] = op]
        /\ table' = (IF Applies(ops[i]) THEN After(ops[i]) ELSE table)
        /\ disturbed' = (disturbed \/ ~arrives)
        /\ UNCHANGED <<cache, view>>
        /\ ops[i].phase = "sent"
    BY <1>5, <2>1, <2>2 DEF Serve, Answer, Answered, page
  <2>4. /\ op.kind = ops[i].kind /\ op.phase = "answered" /\ op.ok = ok
        /\ op.data = IF ops[i].kind = "load" THEN table ELSE ops[i].data
    BY <1>a, <2>2, AnsweredOp
  <2>5. i \in InFlight
    BY <1>b, <2>3
  <2>6. ASSUME ~disturbed' PROVE ~disturbed /\ QuietOp(op)'
    <3>1. ~disturbed /\ arrives
      BY <2>3, <2>6
    <3>2. QuietOp(ops[i])
      BY <1>c, <2>5, <3>1
    <3>3. ok <=> Applies(ops[i])
      BY <2>1, <3>1
    <3>4. CASE ops[i].kind = "load"
      <4>1. Applies(ops[i]) /\ After(ops[i]) = table
        BY <3>4 DEF Applies, After
      <4>2. op.ok /\ op.data = table'
        BY <2>3, <2>4, <3>3, <3>4, <4>1
      <4> QED
        BY <2>4, <3>1, <3>4, <4>2 DEF QuietOp
    <3>5. CASE ops[i].kind \in {"add", "update"}
      <4>1. op.ok \/ (table' = table /\ view = table /\ cache = table)
        BY <2>3, <2>4, <3>2, <3>3, <3>5 DEF QuietOp
      <4> QED
        BY <2>3, <2>4, <3>1, <3>5, <4>1 DEF QuietOp
    <3>6. CASE ops[i].kind = "remove"
      <4>1. Applies(ops[i]) /\ After(ops[i]) = Without(table, ops[i].name)
        BY <3>6 DEF Applies, After
      <4>2. op.ok /\ cache' = table' /\ view' = table'
        BY <2>3, <2>4, <3>2, <3>3, <3>6, <4>1 DEF QuietOp
      <4> QED
        BY <2>4, <3>1, <3>6, <4>2 DEF QuietOp
    <3> QED
      BY <1>a, <3>4, <3>5, <3>6
  <2> QED
    BY <1>0, <2>3, <2>4, <2>5, <2>6, GoOnQuiet
<1>6. ASSUME NEW i \in DOMAIN ops, Fail(i) PROVE QuietInv'
  <2>2. PICK op : op = Answered(ops[i], FALSE)
    OBVIOUS
  <2>3. /\ ops' = [ops EXCEPT ![i] = op]
        /\ disturbed' = (disturbed \/ ops[i].kind = "load")
        /\ UNCHANGED <<table, cache, view>>
        /\ ops[i].phase = "sent"
    BY <1>6, <2>2 DEF Fail, Answer, Answered, page
  <2>4. /\ op.kind = ops[i].kind /\ op.phase = "answered" /\ op.ok = FALSE
        /\ op.data = IF ops[i].kind = "load" THEN table ELSE ops[i].data
    BY <1>a, <2>2, AnsweredOp
  <2>5. i \in InFlight
    BY <1>b, <2>3
  <2>6. ASSUME ~disturbed' PROVE ~disturbed /\ QuietOp(op)'
    <3>1. ~disturbed /\ ops[i].kind # "load"
      BY <2>3, <2>6
    <3>2. QuietOp(ops[i])
      BY <1>c, <2>5, <3>1
    <3> QED
      BY <2>3, <2>4, <3>1, <3>2 DEF QuietOp
  <2> QED
    BY <1>0, <2>3, <2>4, <2>5, <2>6, GoOnQuiet
<1>7. ASSUME NEW i \in DOMAIN ops, HandleLoad(i) PROVE QuietInv'
  <2>1. i \in InFlight /\ Over(i) /\ disturbed' = disturbed /\ table' = table
    BY <1>7, <1>b DEF HandleLoad
  <2>2. ASSUME ~disturbed PROVE view' = table /\ cache' = table
    <3>1. QuietOp(ops[i])
      BY <1>c, <2>1, <2>2
    <3> QED
      BY <1>7, <3>1 DEF HandleLoad, QuietOp
  <2> QED
    BY <1>0, <2>1, <2>2, OverQuiet
<1>8. ASSUME NEW i \in DOMAIN ops, HandleSave(i) PROVE QuietInv'
  <2>1. /\ i \in InFlight /\ UNCHANGED <<table, cache, view, disturbed>>
        /\ ops[i].kind \in {"add", "update"} /\ ops[i].phase = "answered"
    BY <1>8, <1>b DEF HandleSave, page
  <2>2. CASE ops[i].ok
    <3>1. PICK op : op = LoadFor(ops[i].form)
      OBVIOUS
    <3>2. ops' = [ops EXCEPT ![i] = op]
      BY <1>8, <2>2, <3>1 DEF HandleSave
    <3>3. op.kind = "load" /\ op.phase = "sent"
      BY <3>1 DEF LoadFor, Op
    <3>4. QuietOp(op)'
      BY <3>3 DEF QuietOp
    <3> QED
      BY <1>0, <2>1, <3>2, <3>3, <3>4, GoOnQuiet
  <2>3. CASE ~ops[i].ok
    <3>1. Over(i)
      BY <1>8, <2>3 DEF HandleSave
    <3>2. ASSUME ~disturbed PROVE view = table /\ cache = table
      <4>1. QuietOp(ops[i])
        BY <1>c, <2>1, <3>2
      <4> QED
        BY <2>1, <2>3, <4>1 DEF QuietOp
    <3> QED
      BY <1>0, <2>1, <3>1, <3>2, OverQuiet
  <2> QED
    BY <2>2, <2>3
<1>9. ASSUME NEW i \in DOMAIN ops, HandleRemove(i) PROVE QuietInv'
  <2>1. i \in InFlight /\ Over(i) /\ disturbed' = disturbed /\ table' = table
    BY <1>9, <1>b DEF HandleRemove
  <2>2. ASSUME ~disturbed PROVE view' = table /\ cache' = table
    <3>1. QuietOp(ops[i])
      BY <1>c, <2>1, <2>2
    <3> QED
      BY <1>9, <3>1 DEF HandleRemove, QuietOp
  <2> QED
    BY <1>0, <2>1, <2>2, OverQuiet
<1>10. ASSUME NEW n \in Names, NEW v \in Values, OtherClient(n, v) PROVE QuietInv'
  BY <1>10 DEF OtherClient, QuietInv
<1>11. CASE UNCHANGED <<table, cache, view, ops, disturbed>>
  BY <1>11 DEF QuietInv, QuietOp, InFlight
<1>12. ASSUME NEW t \in toasts, ToastExpires(t) PROVE QuietInv'
  BY <1>11, <1>12 DEF ToastExpires
<1>13. ASSUME NEW kind \in {"add", "update"}, NEW n \in Names, NEW v \in Values,
              Submit(kind, n, v)
       PROVE  QuietInv'
  BY <1>2, <1>13 DEF Submit, page
<1>14. CASE UNCHANGED vars
  BY <1>11, <1>14 DEF vars
<1> QED
  BY <1>1, <1>13, <1>3, <1>4, <1>5, <1>6, <1>7, <1>8, <1>9, <1>10, <1>12, <1>14
  DEF Next

LEMMA QuietInit == Init => QuietInv
<1> SUFFICES ASSUME Init PROVE QuietInv
  OBVIOUS
<1>1. ops = <<Load>> /\ Load.kind = "load" /\ Load.phase = "sent"
  BY DEF Init, Load, LoadFor, Op
<1>2. DOMAIN ops = {1} /\ ops[1] = Load
  <2> HIDE DEF Load
  <2> QED
    BY <1>1
<1> QED
  BY <1>1, <1>2 DEF QuietInv, QuietOp, InFlight

-----------------------------------------------------------------------------
(* The page keeps and shows maps from names to values, and shows what it   *)
(* keeps or nothing (loadPairs, deletePair).                               *)
THEOREM DashboardTypeCorrect == Spec => []TypeOK
<1>1. Inv => TypeOK
  BY DEF Inv, TypeOK
<1> QED
  BY <1>1, InvInit, InvStep, PTL DEF Spec

(* No order of answers, rollbacks and Undos makes the page show a row that *)
(* never was (loadPairs, deletePair).                                      *)
THEOREM PageInventsNothing == Spec => []ShownWasThere
<1>1. Inv => ShownWasThere
  BY EmptyMap DEF Inv, RowsInv, ShownWasThere
<1> QED
  BY <1>1, InvInit, InvStep, PTL DEF Spec

(* While nothing overlaps or is lost, what the operator sees at rest is    *)
(* the table: a refused delete is rolled back, and a save or an Undo is    *)
(* followed by a load that shows it (loadPairs, savePair, deletePair).     *)
THEOREM QuietPageIsTrue == Spec => []QuietViewIsTrue
<1>1. QuietInv => QuietViewIsTrue
  BY DEF QuietInv, QuietViewIsTrue
<1> QED
  BY <1>1, InvInit, InvStep, QuietInit, QuietStep, PTL DEF Spec

=============================================================================
