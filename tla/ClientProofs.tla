---------------------------- MODULE ClientProofs ----------------------------
(***************************************************************************)
(* Theorems about the taker's HTTP side: Api, for any commands, tables and *)
(* number of overlapping invocations and any width of the integers,        *)
(* PriceFeed, for every set of bodies a feed may send, and TradeLog, for   *)
(* any number of solves, rows and lists.                                   *)
(***************************************************************************)
EXTENDS Api, PriceFeed, TradeLog, FiniteSetTheorems, TLAPS

-----------------------------------------------------------------------------
(* A uint64 survives the signed column, and so does a pair.                *)

LEMMA AmountRoundTrip ==
    ASSUME NEW n \in Amounts PROVE ToUint64(ToInt64(n)) = n
<1>1. Half64 \in Nat \ {0} /\ n \in 0..(2 * Half64 - 1)
  BY Half64Assumption DEF Amounts
<1>2. n % (2 * Half64) = n /\ (n - 2 * Half64) % (2 * Half64) = n
  BY <1>1
<1> QED
  BY <1>2 DEF ToUint64, ToInt64

(* A row as the statements write it.                                       *)
IsColumns(row) == \E p : IsPair(p) /\ row = ToColumns(p)

Record(a, b, c, d, e, f, g) ==
    [pair |-> a, min |-> b, max |-> c, feed |-> d,
     invert |-> e, baseDecimals |-> f, quoteDecimals |-> g]

WithAmounts(p, x, y) == [p EXCEPT !.min = x, !.max = y]

LEMMA RecordWithAmounts ==
    ASSUME NEW a, NEW b, NEW c, NEW d, NEW e, NEW f, NEW g, NEW p,
           p = Record(a, b, c, d, e, f, g), NEW x, NEW y
    PROVE  WithAmounts(p, x, y) = Record(a, x, y, d, e, f, g)
<1>1. [p EXCEPT !.min = x] = Record(a, x, c, d, e, f, g)
  BY DEF Record
<1>2. [Record(a, x, c, d, e, f, g) EXCEPT !.max = y] = Record(a, x, y, d, e, f, g)
  BY DEF Record
<1>3. WithAmounts(p, x, y) = [[p EXCEPT !.min = x] EXCEPT !.max = y]
  BY DEF WithAmounts
<1> QED
  BY <1>1, <1>2, <1>3

LEMMA ColumnsOf ==
    ASSUME NEW p, IsPair(p)
    PROVE  /\ ToColumns(p).pair = p.pair
           /\ ToDomainPair(ToColumns(p)) = p
<1>1. p = Record(p.pair, p.min, p.max, p.feed, p.invert, p.baseDecimals, p.quoteDecimals)
  BY DEF IsPair, Record
<1>2. PICK a, b, c, d, e, f, g : p = Record(a, b, c, d, e, f, g)
  BY <1>1
<1>3. p.pair = a /\ p.min = b /\ p.max = c
  BY <1>2 DEF Record
<1>4. b \in Amounts /\ c \in Amounts
  BY <1>3 DEF IsPair
<1>5. PICK x, y : x = ToInt64(b) /\ y = ToInt64(c)
  OBVIOUS
<1>6. PICK q : q = ToColumns(p)
  OBVIOUS
<1>7. q = WithAmounts(p, x, y)
  BY <1>3, <1>5, <1>6 DEF ToColumns, WithAmounts
<1>8. q = Record(a, x, y, d, e, f, g)
  BY <1>2, <1>7, RecordWithAmounts
<1>9. q.pair = a /\ q.min = x /\ q.max = y
  BY <1>8 DEF Record
<1>10. ToUint64(x) = b /\ ToUint64(y) = c
  BY <1>4, <1>5, AmountRoundTrip
<1>11. ToDomainPair(q) = WithAmounts(q, b, c)
  BY <1>9, <1>10 DEF ToDomainPair, WithAmounts
<1>12. ToDomainPair(q) = Record(a, b, c, d, e, f, g)
  BY <1>8, <1>11, RecordWithAmounts
<1> QED
  BY <1>2, <1>3, <1>6, <1>9, <1>12

LEMMA ColumnsKeepName ==
    ASSUME NEW row, IsColumns(row) PROVE ToDomainPair(row).pair = row.pair
  BY ColumnsOf DEF IsColumns

LEMMA ResolvedIsPair ==
    ASSUME NEW r \in PairRequests
    PROVE  IsPair(Config!ResolveDecimals(r)) /\ Config!ResolveDecimals(r).pair = r.pair
  BY ApiRequestsAssumption DEF Config!ResolveDecimals, IsPair

-----------------------------------------------------------------------------
(* Tables: rows have the shape the statements give them, names are keys.   *)
IsRows(t) ==
    /\ \A row \in t : IsColumns(row)
    /\ \A x, y \in t : x.pair = y.pair => x = y

Domain(t) == {ToDomainPair(row) : row \in t}

(* The statements, as operations on tables.                                *)
Removed(t, name) == {row \in t : row.pair # name}
Stored(t, r) == Removed(t, r.pair) \union {ToColumns(Config!ResolveDecimals(r))}

LEMMA RemovedRows ==
    ASSUME NEW t, IsRows(t), NEW name
    PROVE  /\ IsRows(Removed(t, name))
           /\ Domain(Removed(t, name)) = {p \in Domain(t) : p.pair # name}
<1>1. IsRows(Removed(t, name))
  BY DEF IsRows, Removed
<1>2. \A row \in t : ToDomainPair(row).pair = row.pair
  BY ColumnsKeepName DEF IsRows
<1>3. Domain(Removed(t, name)) = {p \in Domain(t) : p.pair # name}
  BY <1>2 DEF Domain, Removed
<1> QED
  BY <1>1, <1>3

LEMMA StoredRows ==
    ASSUME NEW t, IsRows(t), NEW r \in PairRequests
    PROVE  /\ IsRows(Stored(t, r))
           /\ Domain(Stored(t, r)) =
                {p \in Domain(t) : p.pair # r.pair} \union {Config!ResolveDecimals(r)}
<1>1. PICK p : p = Config!ResolveDecimals(r)
  OBVIOUS
<1>2. IsPair(p) /\ p.pair = r.pair
  BY <1>1, ResolvedIsPair
<1>3. PICK row : row = ToColumns(p)
  OBVIOUS
<1>4. IsColumns(row) /\ row.pair = r.pair /\ ToDomainPair(row) = p
  BY <1>2, <1>3, ColumnsOf DEF IsColumns
<1>5. Stored(t, r) = Removed(t, r.pair) \union {row}
  BY <1>1, <1>3 DEF Stored
<1>6. IsRows(Stored(t, r))
  BY <1>4, <1>5 DEF IsRows, Removed
<1>7. Domain(Stored(t, r)) = Domain(Removed(t, r.pair)) \union {p}
  BY <1>4, <1>5 DEF Domain
<1> QED
  BY <1>1, <1>6, <1>7, RemovedRows

LEMMA DomainNames ==
    ASSUME NEW t, IsRows(t)
    PROVE  {p.pair : p \in Domain(t)} = {row.pair : row \in t}
<1>1. \A row \in t : ToDomainPair(row).pair = row.pair
  BY ColumnsKeepName DEF IsRows
<1> QED
  BY <1>1 DEF Domain

-----------------------------------------------------------------------------
(* The invariant.  A request is checked before it reaches its statement,   *)
(* an invocation has written nothing before it is answered, and the code   *)
(* of the answer says whether it has.                                      *)
RequestInv(i) ==
    /\ cli[i] = "new" => srv[i] = "idle"
    /\ srv[i] # "idle" => cmd[i] \in Commands
    /\ srv[i] \in {"resolve", "store"} /\ cmd[i].op \in {"add", "update"} =>
          cmd[i].pair \in PairRequests
    /\ srv[i] = "store" /\ cmd[i].op \in {"add", "update"} =>
          Config!ValidPair(cmd[i].pair)

AnswerInv(i) ==
    /\ srv[i] # "answered" => effect[i] = {} /\ cli[i] # "ok"
    /\ srv[i] = "answered" => code[i] \in {200, 400, 404, 500}
    /\ srv[i] = "answered" /\ code[i] # 200 => effect[i] = {}
    /\ srv[i] = "answered" /\ code[i] = 200 /\ cmd[i].op \in {"add", "update"} =>
          \E t : /\ effect[i] = {[before |-> t, after |-> Stored(t, cmd[i].pair)]}
                 /\ IsRows(t) /\ cmd[i].pair \in PairRequests
    /\ srv[i] = "answered" /\ cli[i] = "ok" => code[i] = 200
    /\ cli[i] = "failed" => srv[i] = "idle" \/ (srv[i] = "answered" /\ code[i] # 200)

Domains ==
    /\ DOMAIN cmd = Invocations /\ DOMAIN cli = Invocations
    /\ DOMAIN srv = Invocations /\ DOMAIN code = Invocations
    /\ DOMAIN effect = Invocations

Inv ==
    /\ Domains
    /\ IsRows(rows)
    /\ \A i \in Invocations : RequestInv(i) /\ AnswerInv(i)

-----------------------------------------------------------------------------
(* A step is one invocation's; the others stay where they are.             *)
Same(i) ==
    /\ cmd'[i] = cmd[i] /\ cli'[i] = cli[i] /\ srv'[i] = srv[i]
    /\ code'[i] = code[i] /\ effect'[i] = effect[i]

LEMMA SameKeeps ==
    ASSUME NEW i \in Invocations, RequestInv(i), AnswerInv(i), Same(i)
    PROVE  RequestInv(i)' /\ AnswerInv(i)'
<1>1. RequestInv(i)'
  BY DEF RequestInv, Same, Config!ValidPair, Config!Base, Config!Quote,
         Config!Resolvable
<1>2. AnswerInv(i)'
  BY DEF AnswerInv, Same
<1> QED
  BY <1>1, <1>2

LEMMA OneMoves ==
    ASSUME Domains, NEW j \in Invocations, ClientStep(j) \/ ServerStep(j)
    PROVE  Domains' /\ \A i \in Invocations : i # j => Same(i)
<1> USE DEF Domains, Same
<1>1. CASE ClientStep(j)
  BY <1>1 DEF ClientStep, Invoke, InvokeFails, PrintResponse, ClientTimeout
<1>2. CASE Gateway(j) \/ Resolve(j) \/ ResolveFails(j) \/ Read(j) \/ StoreFails(j)
  BY <1>2 DEF Gateway, Resolve, ResolveFails, Read, StoreFails, Goto, Reply
<1>3. CASE StoreAdd(j) \/ StoreUpdate(j) \/ StoreRemove(j)
  BY <1>3 DEF StoreAdd, StoreUpdate, StoreRemove, Writes, Reply
<1> QED
  BY <1>1, <1>2, <1>3 DEF ServerStep

LEMMA HttpCodes ==
    ASSUME NEW status
    PROVE  /\ HttpCode(status) \in {200, 400, 404, 500}
           /\ HttpCode("OK") = 200
           /\ status # "OK" => HttpCode(status) # 200
  BY DEF HttpCode

LEMMA Replied ==
    ASSUME Domains, NEW j \in Invocations, NEW status, Reply(j, status)
    PROVE  srv'[j] = "answered" /\ code'[j] = HttpCode(status)
  BY DEF Domains, Reply

(* An invocation that is answered without having written anything.         *)
LEMMA RefusedKeeps ==
    ASSUME Inv, NEW j \in Invocations, srv[j] \notin {"idle", "answered"},
           NEW status, Reply(j, status), status # "OK" \/ cmd[j].op \notin {"add", "update"},
           UNCHANGED <<cmd, cli, effect>>
    PROVE  RequestInv(j)' /\ AnswerInv(j)'
<1>1. srv'[j] = "answered" /\ code'[j] = HttpCode(status)
  BY Replied DEF Inv
<1>2. HttpCode(status) \in {200, 400, 404, 500} /\ (status # "OK" => HttpCode(status) # 200)
  BY HttpCodes
<1>3. RequestInv(j) /\ AnswerInv(j)
  BY DEF Inv
<1> QED
  BY <1>1, <1>2, <1>3 DEF RequestInv, AnswerInv

(* One that goes on.                                                       *)
LEMMA GoesOnKeeps ==
    ASSUME Inv, NEW j \in Invocations, srv[j] \in {"gateway", "resolve"},
           NEW label \in {"resolve", "store"}, Goto(j, label),
           UNCHANGED <<cmd, cli, effect>>,
           cmd[j].op \in {"add", "update"} =>
              cmd[j].pair \in PairRequests
              /\ (label = "store" => Config!ValidPair(cmd[j].pair))
    PROVE  RequestInv(j)' /\ AnswerInv(j)'
<1>1. srv'[j] = label /\ code' = code
  BY DEF Inv, Domains, Goto
<1>2. RequestInv(j) /\ AnswerInv(j)
  BY DEF Inv
<1> QED
  <2>1. RequestInv(j)'
    BY <1>1, <1>2 DEF RequestInv, Config!ValidPair, Config!Base, Config!Quote,
                      Config!Resolvable
  <2>2. AnswerInv(j)'
    BY <1>1, <1>2 DEF AnswerInv
  <2> QED
    BY <2>1, <2>2

(* An add or an update that writes.                                        *)
LEMMA SavedKeeps ==
    ASSUME Inv, NEW j \in Invocations, srv[j] = "store", cmd[j].op \in {"add", "update"},
           rows' = Stored(rows, cmd[j].pair), Writes(j, rows'), Reply(j, "OK"),
           UNCHANGED <<cmd, cli>>
    PROVE  IsRows(rows') /\ RequestInv(j)' /\ AnswerInv(j)'
<1>1. srv'[j] = "answered" /\ code'[j] = 200
  BY Replied, HttpCodes DEF Inv
<1>2. RequestInv(j) /\ AnswerInv(j) /\ IsRows(rows)
  BY DEF Inv
<1>3. PICK r \in PairRequests : r = cmd[j].pair
  BY <1>2 DEF RequestInv
<1>4. PICK t : t = rows
  OBVIOUS
<1>5. effect'[j] = {[before |-> t, after |-> Stored(t, r)]}
  BY <1>3, <1>4 DEF Writes, Inv, Domains
<1>6. cmd'[j].pair = r /\ cmd'[j].op = cmd[j].op /\ cli'[j] = cli[j]
  BY <1>3
<1>7. RequestInv(j)'
  BY <1>1, <1>2, <1>6 DEF RequestInv
<1>8. AnswerInv(j)'
  <2>1. IsRows(t)
    BY <1>2, <1>4
  <2> QED
    BY <1>1, <1>2, <1>5, <1>6, <2>1 DEF AnswerInv
<1>9. IsRows(rows')
  BY <1>2, <1>3, StoredRows
<1> QED
  BY <1>7, <1>8, <1>9

LEMMA InvStep == Inv /\ [ApiNext]_apiVars => Inv'
<1> SUFFICES ASSUME Inv, [ApiNext]_apiVars PROVE Inv'
  OBVIOUS
<1>0. Domains /\ IsRows(rows) /\ \A i \in Invocations : RequestInv(i) /\ AnswerInv(i)
  BY DEF Inv
<1>1. ASSUME NEW j \in Invocations, ClientStep(j) \/ ServerStep(j)
      PROVE  Inv'
  <2>1. Domains' /\ \A i \in Invocations : i # j => Same(i)
    BY <1>0, <1>1, OneMoves
  <2>2. \A i \in Invocations : i # j => RequestInv(i)' /\ AnswerInv(i)'
    BY <1>0, <2>1, SameKeeps
  <2>0. SUFFICES IsRows(rows') /\ RequestInv(j)' /\ AnswerInv(j)'
    BY <2>1, <2>2 DEF Inv
  <2>j. RequestInv(j) /\ AnswerInv(j)
    BY <1>0
  <2>3. CASE ClientStep(j)
    <3>1. IsRows(rows')
      BY <1>0, <2>3 DEF ClientStep, Invoke, InvokeFails, PrintResponse, ClientTimeout
    <3>2. ASSUME NEW c \in Commands, Invoke(j, c) PROVE RequestInv(j)' /\ AnswerInv(j)'
      <4>1. /\ cli[j] = "new" /\ srv'[j] = "gateway" /\ cmd'[j] = c /\ cli'[j] = "waiting"
            /\ UNCHANGED <<code, effect>>
        BY <1>0, <3>2 DEF Invoke, Domains
      <4>2. RequestInv(j)'
        BY <2>j, <4>1 DEF RequestInv
      <4>3. AnswerInv(j)'
        BY <2>j, <4>1 DEF RequestInv, AnswerInv
      <4> QED
        BY <4>2, <4>3
    <3>3. CASE InvokeFails(j)
      <4>1. /\ srv[j] = "gateway" /\ srv'[j] = "idle" /\ cli'[j] = "failed"
            /\ UNCHANGED <<cmd, code, effect>>
        BY <1>0, <3>3 DEF InvokeFails, Domains
      <4>2. RequestInv(j)'
        BY <2>j, <4>1 DEF RequestInv
      <4>3. AnswerInv(j)'
        BY <2>j, <4>1 DEF AnswerInv
      <4> QED
        BY <3>1, <4>2, <4>3
    <3>4. CASE PrintResponse(j)
      <4>1. /\ srv[j] = "answered"
            /\ cli'[j] = IF code[j] >= 400 THEN "failed" ELSE "ok"
            /\ UNCHANGED <<cmd, srv, code, effect>>
        BY <1>0, <3>4 DEF PrintResponse, Domains
      <4>2. RequestInv(j)'
        BY <2>j, <4>1 DEF RequestInv
      <4>3. code[j] \in {200, 400, 404, 500}
        BY <2>j, <4>1 DEF AnswerInv
      <4>4. (cli'[j] = "ok" /\ code[j] = 200) \/ (cli'[j] = "failed" /\ code[j] # 200)
        BY <4>1, <4>3
      <4>5. AnswerInv(j)'
        BY <2>j, <4>1, <4>4 DEF AnswerInv
      <4> QED
        BY <3>1, <4>2, <4>5
    <3>5. CASE ClientTimeout(j)
      <4>1. cli[j] = "waiting" /\ cli'[j] = "timedout" /\ UNCHANGED <<cmd, srv, code, effect>>
        BY <1>0, <3>5 DEF ClientTimeout, Domains
      <4>2. RequestInv(j)'
        BY <2>j, <4>1 DEF RequestInv
      <4>3. AnswerInv(j)'
        BY <2>j, <4>1 DEF AnswerInv
      <4> QED
        BY <3>1, <4>2, <4>3
    <3> QED
      BY <2>3, <3>1, <3>2, <3>3, <3>4, <3>5 DEF ClientStep
  <2>4. CASE Gateway(j)
    <3>1. /\ srv[j] = "gateway" /\ UNCHANGED <<rows, cmd, cli, effect>>
      BY <2>4 DEF Gateway
    <3>2. cmd[j] \in Commands
      BY <2>j, <3>1 DEF RequestInv
    <3>3. CASE cmd[j].op \in {"add", "update"} /\ cmd[j].pair \in {BadBody, None}
      <4>1. Reply(j, "InvalidArgument")
        BY <2>4, <3>3 DEF Gateway
      <4> QED
        BY <1>0, <3>1, <4>1, RefusedKeeps
    <3>4. CASE cmd[j].op \in {"add", "update"} /\ cmd[j].pair \notin {BadBody, None}
      <4>1. Goto(j, "resolve")
        BY <2>4, <3>4 DEF Gateway
      <4>2. cmd[j].pair \in PairRequests
        BY <3>2, <3>4 DEF PairRequests
      <4> QED
        BY <1>0, <3>1, <4>1, <4>2, GoesOnKeeps
    <3>5. CASE cmd[j].op \notin {"add", "update"}
      <4>1. Goto(j, "store") \/ Reply(j, "NotFound")
        BY <2>4, <3>5 DEF Gateway
      <4>2. CASE Goto(j, "store")
        BY <1>0, <3>1, <3>5, <4>2, GoesOnKeeps
      <4>3. CASE Reply(j, "NotFound")
        BY <1>0, <3>1, <4>3, RefusedKeeps
      <4> QED
        BY <4>1, <4>2, <4>3
    <3> QED
      BY <3>3, <3>4, <3>5
  <2>5. CASE Resolve(j)
    <3>1. /\ srv[j] = "resolve" /\ UNCHANGED <<rows, cmd, cli, effect>>
      BY <2>5 DEF Resolve
    <3>2. CASE Config!ValidPair(cmd[j].pair)
      <4>1. Goto(j, "store")
        BY <2>5, <3>2 DEF Resolve
      <4>2. cmd[j].op \in {"add", "update"} => cmd[j].pair \in PairRequests
        BY <2>j, <3>1 DEF RequestInv
      <4> QED
        BY <1>0, <3>1, <3>2, <4>1, <4>2, GoesOnKeeps
    <3>3. CASE ~Config!ValidPair(cmd[j].pair)
      <4>1. Reply(j, "InvalidArgument")
        BY <2>5, <3>3 DEF Resolve
      <4> QED
        BY <1>0, <3>1, <4>1, RefusedKeeps
    <3> QED
      BY <3>2, <3>3
  <2>6. CASE ResolveFails(j)
    BY <1>0, <2>6, RefusedKeeps DEF ResolveFails
  <2>7. CASE StoreFails(j)
    <3>1. PICK status \in {"Internal", "InvalidArgument"} : Reply(j, status)
      BY <2>7 DEF StoreFails
    <3> QED
      BY <1>0, <2>7, <3>1, RefusedKeeps DEF StoreFails
  <2>8. CASE Read(j)
    BY <1>0, <2>8, RefusedKeeps DEF Read
  <2>9. CASE StoreAdd(j)
    <3>1. srv[j] = "store" /\ cmd[j].op = "add" /\ UNCHANGED <<cmd, cli>>
      BY <2>9 DEF StoreAdd
    <3>2. CASE RowsOf(cmd[j].pair.pair) = {}
      <4>1. /\ Writes(j, rows \union {ToColumns(Config!ResolveDecimals(cmd[j].pair))})
            /\ Reply(j, "OK")
        BY <2>9, <3>2 DEF StoreAdd
      <4>2. rows' = Stored(rows, cmd[j].pair) /\ Writes(j, rows')
        BY <3>2, <4>1 DEF Writes, Stored, Removed, RowsOf
      <4> QED
        BY <3>1, <4>1, <4>2, SavedKeeps
    <3>3. CASE RowsOf(cmd[j].pair.pair) # {}
      <4>1. Reply(j, "InvalidArgument") /\ UNCHANGED <<rows, effect>>
        BY <2>9, <3>3 DEF StoreAdd
      <4> QED
        BY <1>0, <3>1, <4>1, RefusedKeeps
    <3> QED
      BY <3>2, <3>3
  <2>10. CASE StoreUpdate(j)
    <3>1. srv[j] = "store" /\ cmd[j].op = "update" /\ UNCHANGED <<cmd, cli>>
      BY <2>10 DEF StoreUpdate
    <3>2. CASE RowsOf(cmd[j].pair.pair) # {}
      <4>1. /\ Writes(j, (rows \ RowsOf(cmd[j].pair.pair)) \union
                           {ToColumns(Config!ResolveDecimals(cmd[j].pair))})
            /\ Reply(j, "OK")
        BY <2>10, <3>2 DEF StoreUpdate
      <4>2. rows' = Stored(rows, cmd[j].pair) /\ Writes(j, rows')
        BY <3>2, <4>1 DEF Writes, Stored, Removed, RowsOf
      <4> QED
        BY <3>1, <4>1, <4>2, SavedKeeps
    <3>3. CASE RowsOf(cmd[j].pair.pair) = {}
      <4>1. Reply(j, "NotFound") /\ UNCHANGED <<rows, effect>>
        BY <2>10, <3>3 DEF StoreUpdate
      <4> QED
        BY <1>0, <3>1, <4>1, RefusedKeeps
    <3> QED
      BY <3>2, <3>3
  <2>11. CASE StoreRemove(j)
    <3>1. /\ srv[j] = "store" /\ cmd[j].op = "remove" /\ UNCHANGED <<cmd, cli>>
          /\ Reply(j, "OK") /\ rows' = rows \ RowsOf(cmd[j].name)
      BY <2>11 DEF StoreRemove, Writes
    <3>2. rows' = Removed(rows, cmd[j].name)
      BY <3>1 DEF Removed, RowsOf
    <3>3. IsRows(rows')
      BY <1>0, <3>2, RemovedRows
    <3>4. srv'[j] = "answered" /\ code'[j] = 200
      BY <1>0, <3>1, Replied, HttpCodes
    <3>5. RequestInv(j)'
      BY <2>j, <3>1, <3>4 DEF RequestInv
    <3>6. AnswerInv(j)'
      BY <2>j, <3>1, <3>4 DEF AnswerInv
    <3> QED
      BY <3>3, <3>5, <3>6
  <2> QED
    BY <1>1, <2>3, <2>4, <2>5, <2>6, <2>7, <2>8, <2>9, <2>10, <2>11 DEF ServerStep
<1>2. CASE UNCHANGED apiVars
  <2>1. Domains' /\ IsRows(rows') /\ \A i \in Invocations : Same(i)
    BY <1>0, <1>2 DEF apiVars, Domains, Same
  <2> QED
    BY <1>0, <2>1, SameKeeps DEF Inv
<1> QED
  BY <1>1, <1>2 DEF ApiNext

LEMMA SeededRows ==
    ASSUME NEW seed \in Seeds
    PROVE  /\ IsRows({ToColumns(p) : p \in seed})
           /\ Domain({ToColumns(p) : p \in seed}) = seed
<1>1. \A p \in seed : IsPair(p) /\ ToColumns(p).pair = p.pair
                      /\ ToDomainPair(ToColumns(p)) = p
  BY ApiSeedsAssumption, ColumnsOf
<1>2. \A p, q \in seed : p.pair = q.pair => p = q
  BY ApiSeedsAssumption
<1>3. IsRows({ToColumns(p) : p \in seed})
  BY <1>1, <1>2 DEF IsRows, IsColumns
<1>4. Domain({ToColumns(p) : p \in seed}) = seed
  BY <1>1 DEF Domain
<1> QED
  BY <1>3, <1>4

LEMMA InvInit == ApiInit => Inv
<1> SUFFICES ASSUME ApiInit PROVE Inv
  OBVIOUS
<1>1. IsRows(rows)
  BY SeededRows DEF ApiInit
<1>2. Domains
  BY DEF ApiInit, Domains
<1>3. \A i \in Invocations : cli[i] = "new" /\ srv[i] = "idle" /\ effect[i] = {}
  BY DEF ApiInit
<1>4. \A i \in Invocations : RequestInv(i) /\ AnswerInv(i)
  BY <1>3 DEF RequestInv, AnswerInv
<1> QED
  BY <1>1, <1>2, <1>4 DEF Inv

-----------------------------------------------------------------------------
(* An add or an update that reports success has stored its pair, with the  *)
(* amounts as they were given, and one that reports an error has changed   *)
(* nothing, whatever runs at the same time (printResponse, httpGRPCError,  *)
(* pairRepository).                                                        *)
THEOREM OutcomesAreTrue == ApiSpec => []OutcomeIsTrue
<1>1. Inv => OutcomeIsTrue
  <2> SUFFICES ASSUME Inv, NEW i \in Invocations
               PROVE  /\ cli[i] = "ok" /\ cmd[i].op \in {"add", "update"} =>
                           \E e \in effect[i] :
                              {ToDomainPair(row) : row \in e.after} =
                                {ToDomainPair(row) : row \in
                                     {r \in e.before : r.pair # cmd[i].pair.pair}}
                                  \union {Config!ResolveDecimals(cmd[i].pair)}
                      /\ cli[i] = "failed" => effect[i] = {}
    BY DEF OutcomeIsTrue
  <2>1. AnswerInv(i)
    BY DEF Inv
  <2>2. cli[i] = "failed" => effect[i] = {}
    BY <2>1 DEF AnswerInv
  <2>3. ASSUME cli[i] = "ok", cmd[i].op \in {"add", "update"}
        PROVE  \E e \in effect[i] :
                  {ToDomainPair(row) : row \in e.after} =
                    {ToDomainPair(row) : row \in
                         {r \in e.before : r.pair # cmd[i].pair.pair}}
                      \union {Config!ResolveDecimals(cmd[i].pair)}
    <3>1. srv[i] = "answered" /\ code[i] = 200
      BY <2>1, <2>3 DEF AnswerInv
    <3>2. PICK t : /\ effect[i] = {[before |-> t, after |-> Stored(t, cmd[i].pair)]}
                   /\ IsRows(t) /\ cmd[i].pair \in PairRequests
      BY <2>1, <2>3, <3>1 DEF AnswerInv
    <3>3. PICK r \in PairRequests : r = cmd[i].pair
      BY <3>2
    <3>4. PICK e : e = [before |-> t, after |-> Stored(t, r)]
      OBVIOUS
    <3>5. e \in effect[i] /\ e.before = t /\ e.after = Stored(t, r)
      BY <3>2, <3>3, <3>4
    <3>6. Domain(Stored(t, r)) = Domain(Removed(t, r.pair)) \union {Config!ResolveDecimals(r)}
      BY <3>2, StoredRows, RemovedRows
    <3> QED
      BY <3>3, <3>5, <3>6 DEF Domain, Removed
  <2> QED
    BY <2>2, <2>3
<1> QED
  BY <1>1, InvInit, InvStep, PTL DEF ApiSpec

-----------------------------------------------------------------------------
(* The statements implement the operations of Pairs.                       *)
LEMMA ListIsDomain == ListPairs = Domain(rows) /\ ListPairs' = Domain(rows')
  BY DEF ListPairs, Domain, ToDomainPair, ToUint64

LEMMA NamesListed ==
    ASSUME IsRows(rows), NEW name
    PROVE  name \in Config!PairNames <=> RowsOf(name) # {}
<1>1. Config!PairNames = {row.pair : row \in rows}
  BY ListIsDomain, DomainNames DEF Config!PairNames
<1> QED
  BY <1>1 DEF RowsOf

LEMMA StatementsImplement ==
    Inv /\ [ApiNext]_apiVars => [Config!PairsStep]_ListPairs
<1> SUFFICES ASSUME Inv, [ApiNext]_apiVars
             PROVE  Config!PairsStep \/ ListPairs' = ListPairs
  OBVIOUS
<1>1. IsRows(rows) /\ \A i \in Invocations : RequestInv(i)
  BY DEF Inv
<1>2. ASSUME rows' = rows PROVE ListPairs' = ListPairs
  BY <1>2, ListIsDomain
<1>3. ASSUME NEW j \in Invocations, StoreAdd(j) \/ StoreUpdate(j), rows' # rows
      PROVE  Config!PairsStep
  <2>1. PICK r \in PairRequests : r = cmd[j].pair /\ Config!ValidPair(r)
    BY <1>1, <1>3 DEF RequestInv, StoreAdd, StoreUpdate
  <2>2. ASSUME StoreAdd(j) PROVE Config!AddPair(r)
    <3>1. RowsOf(r.pair) = {} /\ rows' = rows \union {ToColumns(Config!ResolveDecimals(r))}
      BY <1>3, <2>1, <2>2 DEF StoreAdd, Writes
    <3>2. r.pair \notin Config!PairNames
      BY <1>1, <3>1, NamesListed
    <3>3. rows' = Stored(rows, r) /\ Removed(rows, r.pair) = rows
      BY <3>1 DEF Stored, Removed, RowsOf
    <3>4. Domain(rows') = Domain(rows) \union {Config!ResolveDecimals(r)}
      BY <1>1, <3>3, StoredRows, RemovedRows
    <3> QED
      BY <2>1, <3>2, <3>4, ListIsDomain DEF Config!AddPair
  <2>3. ASSUME StoreUpdate(j) PROVE Config!UpdatePair(r)
    <3>1. RowsOf(r.pair) # {} /\ rows' = Stored(rows, r)
      BY <1>3, <2>1, <2>3 DEF StoreUpdate, Writes, Stored, Removed, RowsOf
    <3>2. r.pair \in Config!PairNames
      BY <1>1, <3>1, NamesListed
    <3>3. Domain(rows') = {p \in Domain(rows) : p.pair # r.pair}
                             \union {Config!ResolveDecimals(r)}
      BY <1>1, <3>1, StoredRows
    <3> QED
      BY <2>1, <3>2, <3>3, ListIsDomain DEF Config!UpdatePair
  <2> QED
    BY <1>3, <2>2, <2>3 DEF Config!PairsStep
<1>4. ASSUME NEW j \in Invocations, StoreRemove(j), rows' # rows
      PROVE  Config!PairsStep
  <2>1. PICK name : name = cmd[j].name
    OBVIOUS
  <2>2. rows' = Removed(rows, name) /\ RowsOf(name) # {}
    BY <1>4, <2>1 DEF StoreRemove, Writes, Removed, RowsOf
  <2>3. name \in Config!PairNames
    BY <1>1, <2>2, NamesListed
  <2>4. Domain(rows') = {p \in Domain(rows) : p.pair # name}
    BY <1>1, <2>2, RemovedRows
  <2>5. Config!RemovePair(name)
    BY <2>3, <2>4, ListIsDomain DEF Config!RemovePair
  <2> QED
    BY <2>3, <2>5 DEF Config!PairsStep
<1>5. rows' = rows \/ \E j \in Invocations : StoreAdd(j) \/ StoreUpdate(j) \/ StoreRemove(j)
  BY DEF ApiNext, apiVars, ClientStep, ServerStep, Invoke, InvokeFails, PrintResponse,
         ClientTimeout, Gateway, Resolve, ResolveFails, Read, StoreFails
<1> QED
  BY <1>2, <1>3, <1>4, <1>5

(* Overlapping invocations, down to the SQL statements and their signed    *)
(* columns, take the pair configuration through the steps of Pairs only:   *)
(* no interleaving loses, doubles or alters a pair, and no amount is       *)
(* changed by its column (TakerService, pairRepository).                   *)
THEOREM StatementsImplementPairs == ApiSpec => ImplementsPairs
<1>1. ApiInit => Config!PairsInit
  BY SeededRows, ListIsDomain DEF ApiInit, Config!PairsInit
<1> QED
  BY <1>1, InvInit, InvStep, StatementsImplement, PTL
  DEF ApiSpec, ImplementsPairs, Config!PairsSpec

-----------------------------------------------------------------------------
(* Counting writes.  An invocation writes once, so an add that takes       *)
(* effect is a new one and its row is new, and likewise for a removal.     *)
Wrote(op, name) == {i \in Invocations : Did(i, op, name)}
Balanced(name) ==
    /\ Cardinality(RowsOf(name)) <= 1
    /\ Cardinality(Wrote("add", name)) - Cardinality(Wrote("remove", name)) \in
          {Cardinality(RowsOf(name)), Cardinality(RowsOf(name)) - 1}

LEMMA WroteIsFinite ==
    ASSUME NEW op, NEW name
    PROVE  IsFiniteSet(Wrote(op, name)) /\ Cardinality(Wrote(op, name)) \in Nat
<1>1. IsFiniteSet(Invocations)
  BY FS_Interval, MaxInvocationsAssumption DEF Invocations
<1>2. IsFiniteSet(Wrote(op, name))
  BY <1>1, FS_Subset DEF Wrote
<1> QED
  BY <1>2, FS_CardinalityType

LEMMA OneRowOf ==
    ASSUME NEW t, \A x, y \in t : x = y
    PROVE  Cardinality(t) = IF t = {} THEN 0 ELSE 1
<1>1. CASE t = {}
  BY <1>1, FS_EmptySet
<1>2. CASE t # {}
  <2>1. PICK x : t = {x}
    BY <1>2
  <2> QED
    BY <1>2, <2>1, FS_Singleton
<1> QED
  BY <1>1, <1>2

LEMMA RowsOfCount ==
    ASSUME IsRows(rows), NEW name
    PROVE  Cardinality(RowsOf(name)) = IF RowsOf(name) = {} THEN 0 ELSE 1
<1>1. \A x, y \in RowsOf(name) : x = y
  BY DEF RowsOf, IsRows
<1> QED
  BY <1>1, OneRowOf

(* What a step does to the writes that count.                              *)
LEMMA WroteStep ==
    ASSUME Inv, NEW j \in Invocations, ClientStep(j) \/ ServerStep(j), NEW op, NEW name
    PROVE  /\ \A i \in Invocations \ {j} : i \in Wrote(op, name)' <=> i \in Wrote(op, name)
           /\ effect'[j] = effect[j] =>
                (j \in Wrote(op, name)' <=> j \in Wrote(op, name))
           /\ effect'[j] # effect[j] => j \notin Wrote(op, name)
<1>1. \A i \in Invocations \ {j} : Same(i)
  BY OneMoves DEF Inv
<1>2. \A i \in Invocations \ {j} : i \in Wrote(op, name)' <=> i \in Wrote(op, name)
  BY <1>1 DEF Wrote, Did, Same
<1>3. RequestInv(j) /\ AnswerInv(j) /\ Domains
  BY DEF Inv
<1>4. cmd'[j] = cmd[j] \/ (effect[j] = {} /\ effect' = effect)
  <2>1. CASE \E c \in Commands : Invoke(j, c)
    BY <1>3, <2>1 DEF Invoke, RequestInv, AnswerInv
  <2>2. CASE cmd' = cmd
    BY <2>2
  <2> QED
    BY <2>1, <2>2 DEF ClientStep, ServerStep, InvokeFails, PrintResponse, ClientTimeout,
       Gateway, Resolve, ResolveFails, StoreAdd, StoreUpdate, StoreRemove, Read, StoreFails
<1>5. effect'[j] = effect[j] => (j \in Wrote(op, name)' <=> j \in Wrote(op, name))
  BY <1>4 DEF Wrote, Did
<1>6. effect'[j] = effect[j] \/ effect[j] = {}
  <2>1. CASE StoreAdd(j) \/ StoreUpdate(j) \/ StoreRemove(j)
    BY <1>3, <2>1 DEF StoreAdd, StoreUpdate, StoreRemove, AnswerInv
  <2>2. CASE effect' = effect
    BY <2>2
  <2> QED
    BY <2>1, <2>2 DEF ClientStep, ServerStep, Invoke, InvokeFails, PrintResponse,
       ClientTimeout, Gateway, Resolve, ResolveFails, Read, StoreFails
<1>7. effect'[j] # effect[j] => j \notin Wrote(op, name)
  BY <1>6 DEF Wrote, Did
<1> QED
  BY <1>2, <1>5, <1>7

(* A step that counts as a write of op for name, or does not.              *)
LEMMA CountStep ==
    ASSUME Inv, NEW j \in Invocations, ClientStep(j) \/ ServerStep(j), NEW op, NEW name
    PROVE  /\ effect'[j] = effect[j] \/ ~Did(j, op, name)' =>
                Cardinality(Wrote(op, name)') = Cardinality(Wrote(op, name))
           /\ effect'[j] # effect[j] /\ Did(j, op, name)' =>
                Cardinality(Wrote(op, name)') = Cardinality(Wrote(op, name)) + 1
<1>1. /\ \A i \in Invocations \ {j} : i \in Wrote(op, name)' <=> i \in Wrote(op, name)
      /\ effect'[j] = effect[j] => (j \in Wrote(op, name)' <=> j \in Wrote(op, name))
      /\ effect'[j] # effect[j] => j \notin Wrote(op, name)
  BY WroteStep
<1>2. Wrote(op, name) \subseteq Invocations /\ Wrote(op, name)' \subseteq Invocations
  BY DEF Wrote
<1>3. j \in Wrote(op, name)' <=> Did(j, op, name)'
  BY DEF Wrote
<1>4. PICK old, new : old = Wrote(op, name) /\ new = Wrote(op, name)'
  OBVIOUS
<1>5. IsFiniteSet(old)
  BY <1>4, WroteIsFinite
<1>6. effect'[j] = effect[j] \/ ~Did(j, op, name)' => new = old
  BY <1>1, <1>2, <1>3, <1>4
<1>7. effect'[j] # effect[j] /\ Did(j, op, name)' => new = old \union {j} /\ j \notin old
  BY <1>1, <1>2, <1>3, <1>4
<1>8. j \notin old => Cardinality(old \union {j}) = Cardinality(old) + 1
  BY <1>5, FS_AddElement
<1> QED
  BY <1>4, <1>6, <1>7, <1>8

LEMMA BalancedStep ==
    ASSUME Inv, [ApiNext]_apiVars, NEW name, Balanced(name)
    PROVE  Balanced(name)'
<1>0. IsRows(rows) /\ Domains /\ IsRows(rows') /\ Domains'
  BY InvStep DEF Inv, IsRows
<1>1. PICK n : n = Cardinality(RowsOf(name))
  OBVIOUS
<1>2. PICK m : m = Cardinality(RowsOf(name)')
  OBVIOUS
<1>3. n = IF RowsOf(name) = {} THEN 0 ELSE 1
  BY <1>0, <1>1, RowsOfCount
<1>4. m = IF RowsOf(name)' = {} THEN 0 ELSE 1
  <2>1. \A x, y \in RowsOf(name)' : x = y
    BY <1>0 DEF RowsOf, IsRows
  <2> QED
    BY <1>2, <2>1, OneRowOf
<1>5. PICK a \in Nat, r \in Nat :
         a = Cardinality(Wrote("add", name)) /\ r = Cardinality(Wrote("remove", name))
  BY WroteIsFinite
<1>6. PICK b, q : b = Cardinality(Wrote("add", name)') /\ q = Cardinality(Wrote("remove", name)')
  OBVIOUS
<1>7. a - r \in {n, n - 1}
  BY <1>1, <1>5 DEF Balanced
<1>8. SUFFICES b - q \in {m, m - 1}
  BY <1>2, <1>4, <1>6 DEF Balanced
<1>9. CASE UNCHANGED apiVars
  <2>1. b = a /\ q = r /\ m = n
    BY <1>9, <1>1, <1>2, <1>5, <1>6 DEF apiVars, Wrote, Did, RowsOf
  <2> QED
    BY <1>7, <2>1
<1>10. ASSUME NEW j \in Invocations, ClientStep(j) \/ ServerStep(j)
       PROVE  b - q \in {m, m - 1}
  <2>1. /\ effect'[j] = effect[j] \/ ~Did(j, "add", name)' => b = a
        /\ effect'[j] # effect[j] /\ Did(j, "add", name)' => b = a + 1
        /\ effect'[j] = effect[j] \/ ~Did(j, "remove", name)' => q = r
        /\ effect'[j] # effect[j] /\ Did(j, "remove", name)' => q = r + 1
    BY <1>5, <1>6, <1>10, CountStep
  <2>2. CASE rows' = rows /\ effect' = effect
    <3>1. b = a /\ q = r
      BY <2>1, <2>2
    <3>2. m = n
      BY <1>1, <1>2, <2>2 DEF RowsOf
    <3> QED
      BY <1>7, <3>1, <3>2
  <2>3. AnswerInv(j) /\ RequestInv(j)
    BY DEF Inv
  <2>4. ASSUME cmd[j].op \in {"add", "update"}, cmd' = cmd, srv[j] = "store",
               Writes(j, Stored(rows, cmd[j].pair)),
               cmd[j].op = "add" <=> RowsOf(cmd[j].pair.pair) = {}
        PROVE  b - q \in {m, m - 1}
    <3>1. PICK pr \in PairRequests : pr = cmd[j].pair
      BY <2>3, <2>4 DEF RequestInv
    <3>2. PICK row : row = ToColumns(Config!ResolveDecimals(pr))
      OBVIOUS
    <3>3. row.pair = pr.pair
      BY <3>1, <3>2, ResolvedIsPair, ColumnsOf
    <3>4. rows' = Removed(rows, pr.pair) \union {row}
      BY <2>4, <3>1, <3>2 DEF Writes, Stored
    <3>5. effect'[j] = {[before |-> rows, after |-> rows']} /\ effect[j] = {}
      BY <1>0, <2>3, <2>4 DEF Writes, Domains, AnswerInv
    <3>6. ~Did(j, "remove", name)'
      BY <2>4 DEF Did
    <3>7. q = r
      BY <2>1, <3>6
    <3>8. CASE name # pr.pair
      <4>1. RowsOf(name)' = RowsOf(name)
        BY <3>3, <3>4, <3>8 DEF RowsOf, Removed
      <4>2. ~Did(j, "add", name)'
        BY <2>4, <3>1, <3>8 DEF Did
      <4> QED
        BY <1>1, <1>2, <1>7, <2>1, <3>7, <4>1, <4>2
    <3>9. CASE name = pr.pair /\ cmd[j].op = "add"
      <4>1. RowsOf(name) = {} /\ row \notin rows /\ row \in rows'
        BY <2>4, <3>1, <3>3, <3>4, <3>9 DEF RowsOf
      <4>2. row \in RowsOf(name)'
        BY <3>3, <3>9, <4>1 DEF RowsOf
      <4>3. n = 0 /\ m = 1
        BY <1>3, <1>4, <4>1, <4>2
      <4>4. Did(j, "add", name)'
        <5>1. PICK e : e = [before |-> rows, after |-> rows']
          OBVIOUS
        <5>2. e \in effect'[j] /\ e.before # e.after
          BY <3>5, <4>1, <5>1
        <5>3. cmd'[j].op = "add" /\ name = cmd'[j].pair.pair
          BY <2>4, <3>1, <3>9
        <5> QED
          BY <5>2, <5>3 DEF Did
      <4>5. effect'[j] # effect[j]
        BY <3>5
      <4>6. b = a + 1
        BY <2>1, <4>4, <4>5
      <4> QED
        BY <1>7, <3>7, <4>3, <4>6
    <3>10. CASE name = pr.pair /\ cmd[j].op = "update"
      <4>1. RowsOf(name) # {} /\ row \in rows'
        BY <2>4, <3>1, <3>4, <3>10
      <4>2. row \in RowsOf(name)'
        BY <3>3, <3>10, <4>1 DEF RowsOf
      <4>3. n = 1 /\ m = 1
        BY <1>3, <1>4, <4>1, <4>2
      <4>4. ~Did(j, "add", name)'
        BY <2>4, <3>10 DEF Did
      <4> QED
        BY <1>7, <2>1, <3>7, <4>3, <4>4
    <3> QED
      BY <2>4, <3>8, <3>9, <3>10
  <2>5. CASE StoreRemove(j)
    <3>1. PICK nm : nm = cmd[j].name
      OBVIOUS
    <3>2. /\ rows' = Removed(rows, nm) /\ cmd' = cmd /\ cmd[j].op = "remove"
          /\ effect'[j] = {[before |-> rows, after |-> rows']} /\ effect[j] = {}
      BY <1>0, <2>3, <2>5, <3>1
      DEF StoreRemove, Writes, Domains, AnswerInv, Removed, RowsOf
    <3>3. ~Did(j, "add", name)'
      BY <3>2 DEF Did
    <3>4. b = a
      BY <2>1, <3>3
    <3>5. CASE name # nm
      <4>1. RowsOf(name)' = RowsOf(name)
        BY <3>2, <3>5 DEF RowsOf, Removed
      <4>2. ~Did(j, "remove", name)'
        BY <3>1, <3>2, <3>5 DEF Did
      <4> QED
        BY <1>1, <1>2, <1>7, <2>1, <3>4, <4>1, <4>2
    <3>6. CASE name = nm /\ RowsOf(name) = {}
      <4>1. rows' = rows
        BY <3>2, <3>6 DEF RowsOf, Removed
      <4>2. ~Did(j, "remove", name)'
        <5>1. \A e \in effect'[j] : e.before = e.after
          BY <3>2, <4>1
        <5> QED
          BY <5>1 DEF Did
      <4>3. m = n
        BY <1>1, <1>2, <4>1 DEF RowsOf
      <4> QED
        BY <1>7, <2>1, <3>4, <4>2, <4>3
    <3>7. CASE name = nm /\ RowsOf(name) # {}
      <4>1. rows' # rows /\ RowsOf(name)' = {}
        BY <3>2, <3>7 DEF RowsOf, Removed
      <4>2. n = 1 /\ m = 0
        BY <1>3, <1>4, <3>7, <4>1
      <4>3. Did(j, "remove", name)'
        <5>1. PICK e : e = [before |-> rows, after |-> rows']
          OBVIOUS
        <5>2. e \in effect'[j] /\ e.before # e.after
          BY <3>2, <4>1, <5>1
        <5>3. cmd'[j].op = "remove" /\ name = cmd'[j].name
          BY <3>1, <3>2, <3>7
        <5> QED
          BY <5>2, <5>3 DEF Did
      <4>4. effect'[j] # effect[j]
        BY <3>2
      <4>5. q = r + 1
        BY <2>1, <4>3, <4>4
      <4> QED
        BY <1>7, <3>4, <4>2, <4>5
    <3> QED
      BY <3>5, <3>6, <3>7
  <2>6. CASE StoreAdd(j) /\ RowsOf(cmd[j].pair.pair) = {}
    <3>1. /\ cmd[j].op = "add" /\ cmd' = cmd /\ srv[j] = "store"
          /\ Writes(j, rows \union {ToColumns(Config!ResolveDecimals(cmd[j].pair))})
      BY <2>6 DEF StoreAdd
    <3>2. rows \union {ToColumns(Config!ResolveDecimals(cmd[j].pair))} =
            Stored(rows, cmd[j].pair)
      BY <2>6 DEF Stored, Removed, RowsOf
    <3> QED
      BY <2>4, <2>6, <3>1, <3>2
  <2>7. CASE StoreUpdate(j) /\ RowsOf(cmd[j].pair.pair) # {}
    <3>1. /\ cmd[j].op = "update" /\ cmd' = cmd /\ srv[j] = "store"
          /\ Writes(j, (rows \ RowsOf(cmd[j].pair.pair)) \union
                         {ToColumns(Config!ResolveDecimals(cmd[j].pair))})
      BY <2>7 DEF StoreUpdate
    <3>2. (rows \ RowsOf(cmd[j].pair.pair)) \union
             {ToColumns(Config!ResolveDecimals(cmd[j].pair))} = Stored(rows, cmd[j].pair)
      BY DEF Stored, Removed, RowsOf
    <3> QED
      BY <2>4, <2>7, <3>1, <3>2
  <2> QED
    BY <1>10, <2>2, <2>5, <2>6, <2>7
    DEF ClientStep, ServerStep, Invoke, InvokeFails, PrintResponse, ClientTimeout,
        Gateway, Resolve, ResolveFails, Read, StoreFails, StoreAdd, StoreUpdate
<1> QED
  BY <1>9, <1>10 DEF ApiNext

CountInv == \A name \in AddedNames : Balanced(name)

(* However often clients repeat an add, and whatever runs in between, the  *)
(* adds of a name that took effect and its removals alternate (InsertPair, *)
(* DeletePair).                                                            *)
THEOREM RetriedAddsAreSafe == ApiSpec => []RetriedAddIsSafe
<1>1. ApiInit => CountInv
  <2> SUFFICES ASSUME ApiInit, NEW name \in AddedNames PROVE Balanced(name)
    BY DEF CountInv
  <2>1. Cardinality(RowsOf(name)) = IF RowsOf(name) = {} THEN 0 ELSE 1
    BY InvInit, RowsOfCount DEF Inv
  <2>2. Wrote("add", name) = {} /\ Wrote("remove", name) = {}
    BY DEF ApiInit, Wrote, Did
  <2>3. Cardinality({}) = 0
    BY FS_EmptySet
  <2>4. PICK n : n = Cardinality(RowsOf(name))
    OBVIOUS
  <2>5. n \in {0, 1}
    BY <2>1, <2>4
  <2>6. n <= 1 /\ 0 - 0 \in {n, n - 1}
    BY <2>5
  <2> QED
    BY <2>2, <2>3, <2>4, <2>6 DEF Balanced
<1>2. Inv /\ CountInv /\ [ApiNext]_apiVars => CountInv'
  <2> SUFFICES ASSUME Inv, CountInv, [ApiNext]_apiVars, NEW name \in AddedNames
               PROVE  Balanced(name)'
    BY DEF CountInv
  <2> QED
    BY BalancedStep DEF CountInv
<1>3. CountInv => RetriedAddIsSafe
  BY DEF CountInv, Balanced, Wrote, RetriedAddIsSafe
<1> QED
  BY <1>1, <1>2, <1>3, InvInit, InvStep, PTL DEF ApiSpec

-----------------------------------------------------------------------------
(* CoinGecko.Fetch.                                                        *)

LEMMA PriceStep == PriceWasSent /\ [FeedNext]_feedVars => PriceWasSent'
<1> SUFFICES ASSUME PriceWasSent, [FeedNext]_feedVars PROVE PriceWasSent'
  OBVIOUS
<1> USE DEF PriceWasSent
<1>1. CASE Extract
  <2>1. CASE PricesIn(body) = {}
    BY <1>1, <2>1 DEF Extract, Return
  <2>2. CASE PricesIn(body) # {}
    <3>1. PICK price \in PricesIn(body) : Return(price)
      BY <1>1, <2>2 DEF Extract
    <3> QED
      BY <1>1, <3>1 DEF Extract, Return
  <2> QED
    BY <2>1, <2>2
<1>2. CASE Return(Nothing)
  BY <1>2 DEF Return
<1>3. CASE Request \/ Done
  BY <1>3 DEF Request, Done
<1>4. ASSUME NEW okay \in BOOLEAN, NEW text, Respond(okay, text) PROVE PriceWasSent'
  BY <1>4 DEF Respond
<1>5. CASE UNCHANGED <<pc, ok, body, answer>>
  BY <1>5
<1> QED
  BY <1>1, <1>2, <1>3, <1>4, <1>5
  DEF FeedNext, feedVars, BadStatus, Breaks, Timeout, Cancel, CancelledReturn

(* What Fetch returns without an error is one of the prices in a 200       *)
(* answer of the feed, a null one read as 0; no failure, cancellation or   *)
(* answer without a price turns into a number (CoinGecko.Fetch).           *)
THEOREM FetchedPriceWasSent == FeedSpec => []PriceWasSent
<1>1. FeedInit => PriceWasSent
  BY DEF FeedInit, PriceWasSent
<1> QED
  BY <1>1, PriceStep, PTL DEF FeedSpec

-----------------------------------------------------------------------------
(* The list of trades.  Before orders the rows: a row has one place.       *)

IsLog ==
    /\ trade \in Seq([id : Nat, by : Solves, createdAt : Nat])
    /\ \A i \in DOMAIN trade : trade[i].id = i

(* Where row i stands among the rows, as numbers.                          *)
LEMMA BeforeOrders ==
    ASSUME IsLog
    PROVE  /\ \A i, j \in DOMAIN trade :
                 Before(trade[i], trade[j]) <=>
                    \/ trade[i].createdAt > trade[j].createdAt
                    \/ trade[i].createdAt = trade[j].createdAt /\ i > j
           /\ \A i \in DOMAIN trade : ~Before(trade[i], trade[i])
           /\ \A i, j \in DOMAIN trade :
                 \/ i = j
                 \/ Before(trade[i], trade[j])
                 \/ Before(trade[j], trade[i])
           /\ \A i, j \in DOMAIN trade :
                 Before(trade[i], trade[j]) => ~Before(trade[j], trade[i])
           /\ \A i, j, k \in DOMAIN trade :
                 Before(trade[i], trade[j]) /\ Before(trade[j], trade[k])
                    => Before(trade[i], trade[k])
<1> DEFINE At(i) == trade[i].createdAt
<1>1. \A i \in DOMAIN trade : i \in Nat /\ At(i) \in Nat /\ trade[i].id = i
  <2> SUFFICES ASSUME NEW i \in DOMAIN trade
               PROVE  i \in Nat /\ trade[i].createdAt \in Nat /\ trade[i].id = i
    OBVIOUS
  <2>1. trade[i] \in [id : Nat, by : Solves, createdAt : Nat]
    <3>1. PICK R : R = [id : Nat, by : Solves, createdAt : Nat]
      OBVIOUS
    <3>2. trade \in Seq(R)
      BY <3>1 DEF IsLog
    <3>3. trade[i] \in R
      BY <3>2
    <3> QED
      BY <3>1, <3>3
  <2> QED
    BY <2>1 DEF IsLog
<1>2. \A i, j \in DOMAIN trade :
         Before(trade[i], trade[j]) <=> At(i) > At(j) \/ (At(i) = At(j) /\ i > j)
  BY <1>1 DEF Before
<1> HIDE DEF At
<1>3. \A i \in DOMAIN trade : ~Before(trade[i], trade[i])
  BY <1>1, <1>2
<1>4. \A i, j \in DOMAIN trade :
         i = j \/ Before(trade[i], trade[j]) \/ Before(trade[j], trade[i])
  BY <1>1, <1>2
<1>5. \A i, j \in DOMAIN trade : Before(trade[i], trade[j]) => ~Before(trade[j], trade[i])
  BY <1>1, <1>2
<1>6. \A i, j, k \in DOMAIN trade :
         Before(trade[i], trade[j]) /\ Before(trade[j], trade[k]) => Before(trade[i], trade[k])
  BY <1>1, <1>2
<1> QED
  BY <1>2, <1>3, <1>4, <1>5, <1>6 DEF At

(* Counting the rows before a row numbers the table without gaps.          *)
LEMMA PlaceIsOne ==
    ASSUME IsLog
    PROVE  /\ \A i \in DOMAIN trade : Place(i) \in DOMAIN trade
           /\ \A i, j \in DOMAIN trade : Before(trade[i], trade[j]) => Place(i) < Place(j)
           /\ \A k \in DOMAIN trade : \E i \in DOMAIN trade : Place(i) = k
<1>1. PICK n \in Nat : n = Len(trade) /\ DOMAIN trade = 1..n
  BY DEF IsLog
<1>2. IsFiniteSet(1..n) /\ Cardinality(1..n) = n
  <2>1. PICK a \in Int, b \in Int : a = 1 /\ b = n
    OBVIOUS
  <2>2. IsFiniteSet(a..b) /\ Cardinality(a..b) = IF a > b THEN 0 ELSE b - a + 1
    BY FS_Interval
  <2> QED
    BY <2>1, <2>2
<1>3. ASSUME NEW i \in 1..n
      PROVE  /\ IsFiniteSet(Ahead(i)) /\ Cardinality(Ahead(i)) \in Nat
             /\ Cardinality(Ahead(i)) < n
  <2>1. Ahead(i) \subseteq 1..n /\ i \notin Ahead(i)
    BY <1>1, BeforeOrders DEF Ahead
  <2>2. /\ IsFiniteSet(Ahead(i)) /\ Cardinality(Ahead(i)) <= n
        /\ (n = Cardinality(Ahead(i)) => 1..n = Ahead(i))
    BY <1>2, <2>1, FS_Subset
  <2>3. Cardinality(Ahead(i)) \in Nat
    BY <2>2, FS_CardinalityType
  <2> QED
    BY <2>1, <2>2, <2>3
<1>4. ASSUME NEW i \in 1..n, NEW j \in 1..n, Before(trade[i], trade[j])
      PROVE  Cardinality(Ahead(i)) < Cardinality(Ahead(j))
  <2>1. Ahead(i) \subseteq Ahead(j) /\ i \in Ahead(j) /\ i \notin Ahead(i)
    BY <1>1, <1>4, BeforeOrders DEF Ahead
  <2>2. IsFiniteSet(Ahead(j)) /\ Cardinality(Ahead(i)) \in Nat /\ Cardinality(Ahead(j)) \in Nat
    BY <1>3
  <2>3. /\ Cardinality(Ahead(i)) <= Cardinality(Ahead(j))
        /\ (Cardinality(Ahead(j)) = Cardinality(Ahead(i)) => Ahead(j) = Ahead(i))
    BY <2>1, <2>2, FS_Subset
  <2> QED
    BY <2>1, <2>2, <2>3
<1>5. \A i \in 1..n : Place(i) \in 1..n
  <2> TAKE i \in 1..n
  <2>1. PICK c \in Nat : c = Cardinality(Ahead(i)) /\ c < n
    BY <1>3
  <2> QED
    BY <2>1 DEF Place
<1>6. \A i, j \in 1..n : Before(trade[i], trade[j]) => Place(i) < Place(j)
  <2> SUFFICES ASSUME NEW i \in 1..n, NEW j \in 1..n, Before(trade[i], trade[j])
               PROVE  Place(i) < Place(j)
    OBVIOUS
  <2>1. PICK c \in Nat, d \in Nat : c = Cardinality(Ahead(i)) /\ d = Cardinality(Ahead(j))
    BY <1>3
  <2> QED
    BY <1>4, <2>1 DEF Place
<1>7. PICK f : f = [i \in 1..n |-> Place(i)]
  OBVIOUS
<1>8. f \in Injection(1..n, 1..n)
  <2>1. \A i, j \in 1..n : i # j => Place(i) # Place(j)
    BY <1>1, <1>5, <1>6, BeforeOrders
  <2> QED
    BY <1>5, <1>7, <2>1 DEF Injection, IsInjective
<1>9. f \in Surjection(1..n, 1..n)
  BY <1>2, <1>8, FS_Injection
<1>10. \A k \in 1..n : \E i \in 1..n : Place(i) = k
  BY <1>7, <1>9 DEF Surjection
<1> QED
  BY <1>1, <1>5, <1>6, <1>10

(* What a list holds: the first rows in that order, and no other row has   *)
(* a place before one of them.                                             *)
IsListOf(t, total) ==
    /\ \A i \in DOMAIN t : \E k \in 1..total : t[i] = trade[k]
    /\ \A i, j \in DOMAIN t : i < j => Before(t[i], t[j])
    /\ \A k \in 1..total :
          \/ \E i \in DOMAIN t : t[i] = trade[k]
          \/ \A i \in DOMAIN t : Before(t[i], trade[k])

(* A list holds the first rows of that numbering, down to its limit.       *)
LEMMA SortedIsList ==
    ASSUME IsLog, NEW limit \in Nat
    PROVE  /\ IsListOf(Sorted(limit), Len(trade))
           /\ Len(Sorted(limit)) = IF Len(trade) < limit THEN Len(trade) ELSE limit
<1>1. PICK n \in Nat : n = Len(trade) /\ DOMAIN trade = 1..n
  BY DEF IsLog
<1>2. PICK m \in Nat : m = IF n < limit THEN n ELSE limit
  OBVIOUS
<1>3. {p \in 1..n : p <= limit} = 1..m
  BY <1>2
<1> DEFINE at(k) == CHOOSE i \in DOMAIN trade : Place(i) = k
<1>4. PICK t : t = Sorted(limit)
  OBVIOUS
<1>5. t = [k \in 1..m |-> trade[at(k)]]
  BY <1>1, <1>3, <1>4 DEF Sorted
<1>6. \A k \in 1..n : at(k) \in 1..n /\ Place(at(k)) = k
  BY <1>1, PlaceIsOne
<1> HIDE DEF at
<1>7. \A k \in 1..m : k \in 1..n /\ t[k] = trade[at(k)]
  BY <1>2, <1>5
<1>8. DOMAIN t = 1..m /\ Len(t) = m
  BY <1>5
<1>9. \A i \in 1..n : Place(i) \in 1..n
  BY <1>1, PlaceIsOne
<1>10. \A i, j \in 1..n : Place(i) < Place(j) => Before(trade[i], trade[j])
  <2> SUFFICES ASSUME NEW i \in 1..n, NEW j \in 1..n, Place(i) < Place(j)
               PROVE  Before(trade[i], trade[j])
    OBVIOUS
  <2>1. PICK c \in Nat, d \in Nat : c = Place(i) /\ d = Place(j) /\ c < d
    BY <1>9
  <2>2. i # j /\ ~Before(trade[j], trade[i])
    <3>1. Before(trade[j], trade[i]) => d < c
      BY <1>1, <2>1, PlaceIsOne
    <3> QED
      BY <2>1, <3>1
  <2> QED
    BY <1>1, <2>2, BeforeOrders
<1>11. \A i \in 1..m : \E k \in 1..n : t[i] = trade[k]
  BY <1>6, <1>7
<1>12. \A i, j \in 1..m : i < j => Before(t[i], t[j])
  BY <1>6, <1>7, <1>10
<1>13. ASSUME NEW k \in 1..n
       PROVE  (\E i \in 1..m : t[i] = trade[k]) \/ (\A i \in 1..m : Before(t[i], trade[k]))
  <2>1. PICK c \in Nat : c = Place(k) /\ c \in 1..n
    BY <1>9
  <2>2. CASE c <= m
    <3>1. at(c) = k
      <4>1. at(c) \in 1..n /\ Place(at(c)) = c
        BY <1>6, <2>1
      <4>2. ~Before(trade[at(c)], trade[k]) /\ ~Before(trade[k], trade[at(c)])
        <5>1. PICK i \in 1..n : i = at(c)
          BY <4>1
        <5>2. Place(i) = c /\ ~(c < c)
          BY <4>1, <5>1
        <5>3. (Before(trade[i], trade[k]) => Place(i) < Place(k))
              /\ (Before(trade[k], trade[i]) => Place(k) < Place(i))
          BY <1>1, PlaceIsOne
        <5> QED
          BY <2>1, <5>1, <5>2, <5>3
      <4> QED
        BY <1>1, <4>1, <4>2, BeforeOrders
    <3> QED
      BY <1>7, <2>1, <2>2, <3>1
  <2>3. CASE c > m
    BY <1>6, <1>7, <1>10, <2>1, <2>3
  <2> QED
    BY <2>2, <2>3
<1> QED
  BY <1>1, <1>2, <1>4, <1>8, <1>11, <1>12, <1>13 DEF IsListOf

-----------------------------------------------------------------------------
(* The inductive invariant.  A solve's timestamp is not later than the     *)
(* clock; whoever was recorded before a solve took its timestamp has a row *)
(* of the same second at most, and a smaller id.                           *)

LogTypes ==
    /\ IsLog
    /\ clock \in Nat
    /\ stamp \in [Solves -> Int \union {Absent}]
    /\ since \in [Solves -> (SUBSET Solves) \union {Absent}]

Waiting ==
    \A s \in Solves : stamp[s] # Absent =>
        /\ stamp[s] \in 0..clock
        /\ since[s] # Absent
        /\ s \notin Recorded

Earlier ==
    /\ \A i \in DOMAIN trade : /\ since[trade[i].by] # Absent
                               /\ trade[i].createdAt <= clock \div Second
    /\ \A s \in Solves : since[s] # Absent => since[s] \subseteq Recorded

Pending ==
    \A s \in Solves : stamp[s] # Absent =>
        \A i \in DOMAIN trade :
            trade[i].by \in since[s] => trade[i].createdAt <= stamp[s] \div Second

Ordered ==
    \A i, k \in DOMAIN trade :
        trade[i].by \in since[trade[k].by] => Before(trade[k], trade[i])

ListInv ==
    listed # Absent =>
        /\ listed.total \in 0..Len(trade)
        /\ IsListOf(listed.trades, listed.total)
        /\ LimitHonoured

LogInv == LogTypes /\ Waiting /\ Earlier /\ Pending /\ Ordered /\ ListInv

LEMMA DivMonotone ==
    ASSUME NEW a \in Nat, NEW b \in Nat, a <= b
    PROVE  a \div Second \in Nat /\ b \div Second \in Nat /\ a \div Second <= b \div Second
BY SecondAssumption

(* A list stays right when a row is added behind the rows it was made of.  *)
LEMMA ListKept ==
    ASSUME IsLog, IsLog', ListInv, UNCHANGED listed, Len(trade') >= Len(trade),
           \A k \in DOMAIN trade : trade'[k] = trade[k]
    PROVE  ListInv'
<1> SUFFICES ASSUME listed # Absent
             PROVE  /\ listed.total \in 0..Len(trade')
                    /\ IsListOf(listed.trades, listed.total)'
                    /\ LimitHonoured'
  BY DEF ListInv
<1>1. PICK t, total : t = listed.trades /\ total = listed.total
  OBVIOUS
<1>2. PICK n \in Nat : n = Len(trade) /\ DOMAIN trade = 1..n /\ n <= Len(trade')
  BY DEF IsLog
<1>3. total \in 0..n
  BY <1>1, <1>2 DEF ListInv
<1>4. PICK n2 \in Nat : n2 = Len(trade')
  BY DEF IsLog
<1>5. total \in 0..n2
  BY <1>2, <1>3, <1>4
<1>6. IsListOf(t, total) => IsListOf(t, total)'
  <2>1. \A k \in 1..total : trade'[k] = trade[k]
    BY <1>2, <1>3
  <2> QED
    BY <2>1 DEF IsListOf, Before
<1>7. LimitHonoured'
  BY DEF ListInv, LimitHonoured
<1>8. t' = listed'.trades /\ total' = listed'.total
  BY <1>1
<1> QED
  BY <1>1, <1>4, <1>5, <1>6, <1>7 DEF ListInv

(* A row is inserted behind those its solve has to follow.                 *)
LEMMA InsertKeeps ==
    ASSUME LogInv, NEW s \in Solves, InsertTrade(s)
    PROVE  LogInv'
<1>1. PICK n \in Nat : n = Len(trade) /\ DOMAIN trade = 1..n
  BY DEF LogInv, LogTypes, IsLog
<1>2. PICK a \in Nat : a = stamp[s] /\ a <= clock
  BY DEF LogInv, LogTypes, Waiting, InsertTrade
<1>3. PICK c \in Nat : c = a \div Second /\ c <= clock \div Second
  BY <1>2, DivMonotone DEF LogInv, LogTypes
<1>4. PICK row : row = [id |-> n + 1, by |-> s, createdAt |-> c]
  OBVIOUS
<1>5. row.id = n + 1 /\ row.by = s /\ row.createdAt = c
  BY <1>4
<1>6. PICK R : R = [id : Nat, by : Solves, createdAt : Nat]
  OBVIOUS
<1>7. row \in R /\ trade \in Seq(R)
  BY <1>4, <1>6 DEF LogInv, LogTypes, IsLog
<1>8. trade' = Append(trade, row) /\ UNCHANGED <<clock, since, listed>>
      /\ stamp' = [stamp EXCEPT ![s] = Absent]
  BY <1>1, <1>2, <1>3, <1>4 DEF InsertTrade
<1>9. /\ trade' \in Seq(R) /\ Len(trade') = n + 1 /\ DOMAIN trade' = 1..(n + 1)
      /\ \A k \in 1..n : trade'[k] = trade[k]
      /\ trade'[n + 1] = row
  BY <1>1, <1>7, <1>8
<1>10. IsLog'
  <2>1. \A i \in 1..n : trade[i].id = i
    BY <1>1 DEF LogInv, LogTypes, IsLog
  <2> QED
    BY <1>5, <1>6, <1>9, <2>1 DEF IsLog
<1>11. Recorded' = Recorded \union {s} /\ s \notin Recorded
  <2>1. s \notin Recorded
    BY DEF LogInv, Waiting, InsertTrade
  <2> QED
    BY <1>1, <1>5, <1>9, <2>1 DEF Recorded
<1>12. LogTypes'
  BY <1>8, <1>10 DEF LogInv, LogTypes
<1>13. Waiting'
  <2>1. stamp \in [Solves -> Int \union {Absent}]
    BY DEF LogInv, LogTypes
  <2>2. \A r \in Solves : stamp'[r] # Absent => r # s /\ stamp'[r] = stamp[r]
    BY <1>8, <2>1
  <2> QED
    BY <1>8, <1>11, <2>2 DEF LogInv, Waiting
<1>14. Earlier'
  <2>1. since[s] # Absent
    BY DEF LogInv, Waiting, InsertTrade
  <2>2. \A i \in 1..n : since[trade[i].by] # Absent /\ trade[i].createdAt <= clock \div Second
    BY <1>1 DEF LogInv, Earlier
  <2>3. \A i \in 1..(n + 1) : i \in 1..n \/ i = n + 1
    OBVIOUS
  <2>4. \A i \in 1..(n + 1) : /\ since[trade'[i].by] # Absent
                              /\ trade'[i].createdAt <= clock \div Second
    BY <1>3, <1>5, <1>9, <2>1, <2>2, <2>3
  <2>5. \A r \in Solves : since[r] # Absent => since[r] \subseteq Recorded'
    BY <1>11 DEF LogInv, Earlier
  <2> QED
    BY <1>8, <1>9, <2>4, <2>5 DEF Earlier
<1>15. Pending'
  <2>1. stamp \in [Solves -> Int \union {Absent}]
    BY DEF LogInv, LogTypes
  <2>2. \A r \in Solves : stamp'[r] # Absent =>
           stamp'[r] = stamp[r] /\ since[r] # Absent /\ s \notin since[r]
    <3>1. \A r \in Solves : stamp'[r] # Absent => stamp'[r] = stamp[r]
      BY <1>8, <2>1
    <3> QED
      BY <1>11, <3>1 DEF LogInv, Waiting, Earlier
  <2> SUFFICES ASSUME NEW r \in Solves, stamp'[r] # Absent, NEW i \in 1..(n + 1),
                      trade'[i].by \in since[r]
               PROVE  trade'[i].createdAt <= stamp'[r] \div Second
    BY <1>8, <1>9 DEF Pending
  <2>3. i \in 1..n
    BY <1>5, <1>9, <2>2
  <2>4. trade'[i] = trade[i]
    BY <1>9, <2>3
  <2> QED
    BY <1>1, <2>2, <2>3, <2>4 DEF LogInv, Pending
<1>16. Ordered'
  <2> SUFFICES ASSUME NEW i \in 1..(n + 1), NEW k \in 1..(n + 1),
                      trade'[i].by \in since[trade'[k].by]
               PROVE  Before(trade'[k], trade'[i])
    BY <1>8, <1>9 DEF Ordered, Before
  <2>1. since[trade'[k].by] # Absent /\ trade'[k].by \in Solves
    <3>1. since'[trade'[k].by] # Absent
      BY <1>9, <1>14 DEF Earlier
    <3>2. trade'[k] \in R
      BY <1>9
    <3> QED
      BY <1>6, <1>8, <3>1, <3>2
  <2>2. since[trade'[k].by] \subseteq Recorded
    BY <2>1 DEF LogInv, Earlier
  <2>3. i \in 1..n
    BY <1>5, <1>9, <1>11, <2>2
  <2>4. trade'[i] = trade[i]
    BY <1>9, <2>3
  <2>5. CASE k \in 1..n
    <3>1. trade'[k] = trade[k]
      BY <1>9, <2>5
    <3> QED
      BY <1>1, <2>3, <2>4, <2>5, <3>1 DEF LogInv, Ordered
  <2>6. CASE k = n + 1
    <3>1. trade'[k] = row /\ trade[i].by \in since[s]
      BY <1>5, <1>9, <2>4, <2>6
    <3>2. trade[i].createdAt <= c
      BY <1>1, <1>2, <1>3, <2>3, <3>1 DEF LogInv, Pending, InsertTrade
    <3>3. trade[i] \in R
      BY <1>1, <1>7, <2>3
    <3>4. PICK d \in Nat : d = trade[i].createdAt
      BY <1>6, <3>3
    <3>5. trade[i].id = i
      BY <1>1, <2>3 DEF LogInv, LogTypes, IsLog
    <3>6. c > d \/ (c = d /\ n + 1 > i)
      BY <2>3, <3>2, <3>4
    <3> QED
      BY <1>5, <2>4, <3>1, <3>4, <3>5, <3>6 DEF Before
  <2> QED
    BY <2>5, <2>6
<1>17. ListInv'
  BY <1>1, <1>8, <1>9, <1>10, ListKept DEF LogInv, LogTypes
<1> QED
  BY <1>12, <1>13, <1>14, <1>15, <1>16, <1>17 DEF LogInv

(* A timestamp is not before the rows that are there when it is taken.     *)
LEMMA TimestampKeeps ==
    ASSUME LogInv, NEW s \in Solves, TakeTimestamp(s)
    PROVE  LogInv'
<1>1. /\ UNCHANGED <<clock, trade, listed>> /\ since[s] = Absent
      /\ stamp' = [stamp EXCEPT ![s] = clock]
      /\ since' = [since EXCEPT ![s] = Recorded]
  BY DEF TakeTimestamp
<1>2. IsLog /\ clock \in Nat /\ stamp \in [Solves -> Int \union {Absent}]
      /\ since \in [Solves -> (SUBSET Solves) \union {Absent}]
  BY DEF LogInv, LogTypes
<1>3. \A i \in DOMAIN trade : trade[i].by \in Solves /\ trade[i].by # s
  <2>1. \A i \in DOMAIN trade : trade[i].by # s
    BY <1>1 DEF LogInv, Earlier
  <2>2. PICK R : R = [id : Nat, by : Solves, createdAt : Nat]
    OBVIOUS
  <2>3. trade \in Seq(R)
    BY <1>2, <2>2 DEF IsLog
  <2>4. \A i \in DOMAIN trade : trade[i] \in R
    BY <2>3
  <2> QED
    BY <2>1, <2>2, <2>4
<1>4. Recorded \subseteq Solves /\ s \notin Recorded /\ Recorded # Absent
  <2>1. Recorded \subseteq Solves /\ s \notin Recorded
    BY <1>3 DEF Recorded
  <2> QED
    BY <2>1, AbsentAssumption
<1>5. Recorded' = Recorded
  BY <1>1 DEF Recorded
<1>6. /\ stamp'[s] = clock /\ since'[s] = Recorded
      /\ \A r \in Solves \ {s} : stamp'[r] = stamp[r] /\ since'[r] = since[r]
  BY <1>1, <1>2
<1>7. LogTypes'
  <2>1. stamp' \in [Solves -> Int \union {Absent}]
    BY <1>1, <1>2
  <2>2. since' \in [Solves -> (SUBSET Solves) \union {Absent}]
    BY <1>1, <1>2, <1>4
  <2> QED
    BY <1>1, <1>2, <2>1, <2>2 DEF LogTypes, IsLog
<1>8. Waiting'
  <2>1. clock \in 0..clock
    BY <1>2
  <2> QED
    BY <1>1, <1>4, <1>5, <1>6, <2>1 DEF LogInv, Waiting
<1>9. Earlier'
  BY <1>1, <1>3, <1>4, <1>5, <1>6 DEF LogInv, Earlier
<1>10. Pending'
  <2>1. \A i \in DOMAIN trade : trade[i].createdAt <= clock \div Second
    BY DEF LogInv, Earlier
  <2> QED
    BY <1>1, <1>6, <2>1 DEF LogInv, Pending
<1>11. Ordered'
  BY <1>1, <1>3, <1>6 DEF LogInv, Ordered, Before
<1>12. ListInv'
  BY <1>1, <1>2, <1>7, ListKept DEF LogInv, LogTypes, IsLog
<1> QED
  BY <1>7, <1>8, <1>9, <1>10, <1>11, <1>12 DEF LogInv

(* A new answer lists the table as it is.                                  *)
LEMMA ListKeeps ==
    ASSUME LogInv, NEW n \in Asked, ListTrades(n)
    PROVE  LogInv'
<1>1. UNCHANGED <<clock, stamp, trade, since>>
  BY DEF ListTrades
<1>2. LogTypes' /\ Waiting' /\ Earlier' /\ Pending' /\ Ordered'
  BY <1>1 DEF LogInv, LogTypes, IsLog, Waiting, Earlier, Pending, Ordered, Recorded, Before
<1>3. PICK limit : limit = RepoLimit(GatewayLimit(n))
  OBVIOUS
<1>4. n \in Int /\ limit \in Nat /\ (n \in 1..MaxLimit => limit = n)
  BY <1>3, LimitAssumption, AskedAssumption DEF RepoLimit, GatewayLimit
<1>5. PICK t : t = Sorted(limit)
  OBVIOUS
<1>6. PICK total : total = Len(trade)
  OBVIOUS
<1>7. IsLog /\ total \in Nat
  BY <1>6 DEF LogInv, LogTypes, IsLog
<1>8. IsListOf(t, total) /\ Len(t) = IF total < limit THEN total ELSE limit
  BY <1>4, <1>5, <1>6, <1>7, SortedIsList
<1>9. listed' = [asked |-> n, total |-> total, trades |-> t]
  BY <1>3, <1>5, <1>6 DEF ListTrades
<1>10. listed'.asked = n /\ listed'.total = total /\ listed'.trades = t
  BY <1>9
<1>11. IsListOf(t, total)'
  BY <1>1, <1>8 DEF IsListOf, Before
<1>12. total \in 0..Len(trade')
  BY <1>1, <1>6, <1>7
<1>13. LimitHonoured'
  <2> SUFFICES ASSUME n \in 1..MaxLimit
               PROVE  Len(t) = IF total < n THEN total ELSE n
    BY <1>10 DEF LimitHonoured
  <2> QED
    BY <1>4, <1>8
<1>14. ListInv'
  BY <1>10, <1>11, <1>12, <1>13 DEF ListInv
<1> QED
  BY <1>2, <1>14 DEF LogInv

LEMMA LogInvStep == LogInv /\ [TradeLogNext]_tradeLogVars => LogInv'
<1> SUFFICES ASSUME LogInv, [TradeLogNext]_tradeLogVars
             PROVE  LogInv'
  OBVIOUS
<1>1. ASSUME Tick PROVE LogInv'
  <2>1. UNCHANGED <<stamp, trade, since, listed>> /\ clock' = clock + 1 /\ clock \in Nat
    BY <1>1 DEF Tick, LogInv, LogTypes
  <2>2. LogTypes' /\ Pending' /\ Ordered'
    BY <2>1 DEF LogInv, LogTypes, IsLog, Pending, Ordered, Before
  <2>3. Waiting'
    <3>1. \A a : a \in 0..clock => a \in 0..clock'
      BY <2>1
    <3> QED
      BY <2>1, <3>1 DEF LogInv, Waiting, Recorded
  <2>4. Earlier'
    <3>1. PICK a \in Nat, b \in Nat : a = clock /\ b = clock' /\ a <= b
      BY <2>1
    <3>2. PICK c \in Nat, d \in Nat : c = clock \div Second /\ d = clock' \div Second /\ c <= d
      BY <3>1, DivMonotone
    <3>3. ASSUME NEW i \in DOMAIN trade PROVE trade[i].createdAt <= d
      <4>1. trade[i].createdAt <= c
        BY <3>2 DEF LogInv, Earlier
      <4>2. PICK R : R = [id : Nat, by : Solves, createdAt : Nat]
        OBVIOUS
      <4>3. trade \in Seq(R)
        BY <4>2 DEF LogInv, LogTypes, IsLog
      <4>4. trade[i] \in R
        BY <4>3
      <4>5. PICK e \in Nat : e = trade[i].createdAt
        BY <4>2, <4>4
      <4> QED
        BY <3>2, <4>1, <4>5
    <3> QED
      BY <2>1, <3>2, <3>3 DEF LogInv, Earlier, Recorded
  <2>5. ListInv'
    BY <2>1, <2>2, ListKept DEF LogInv, LogTypes, IsLog
  <2> QED
    BY <2>2, <2>3, <2>4, <2>5 DEF LogInv
<1>2. ASSUME NEW s \in Solves, InsertFails(s) PROVE LogInv'
  <2>1. UNCHANGED <<clock, trade, since, listed>> /\ stamp' = [stamp EXCEPT ![s] = Absent]
        /\ stamp \in [Solves -> Int \union {Absent}]
    BY <1>2 DEF InsertFails, LogInv, LogTypes
  <2>2. \A r \in Solves : stamp'[r] # Absent => stamp'[r] = stamp[r]
    BY <2>1
  <2>3. LogTypes'
    <3>1. stamp' \in [Solves -> Int \union {Absent}]
      BY <2>1
    <3> QED
      BY <2>1, <3>1 DEF LogInv, LogTypes, IsLog
  <2>4. Waiting' /\ Earlier' /\ Pending' /\ Ordered'
    BY <2>1, <2>2 DEF LogInv, Waiting, Earlier, Pending, Ordered, Recorded, Before
  <2>5. ListInv'
    BY <2>1, <2>3, ListKept DEF LogInv, LogTypes, IsLog
  <2> QED
    BY <2>3, <2>4, <2>5 DEF LogInv
<1>3. CASE UNCHANGED tradeLogVars
  BY <1>3 DEF tradeLogVars, LogInv, LogTypes, IsLog, Waiting, Earlier, Pending, Ordered, ListInv,
              Recorded, Before, IsListOf, LimitHonoured
<1> QED
  BY <1>1, <1>2, <1>3, InsertKeeps, TimestampKeeps, ListKeeps DEF TradeLogNext

LEMMA LogInvInit == TradeLogInit => LogInv
<1> SUFFICES ASSUME TradeLogInit PROVE LogInv
  OBVIOUS
<1>1. clock = 0 /\ trade = <<>> /\ listed = Absent
      /\ stamp = [s \in Solves |-> Absent] /\ since = [s \in Solves |-> Absent]
  BY DEF TradeLogInit
<1>2. DOMAIN trade = {} /\ trade \in Seq([id : Nat, by : Solves, createdAt : Nat])
  BY <1>1
<1>3. LogTypes
  BY <1>1, <1>2 DEF LogTypes, IsLog
<1>4. Waiting /\ Earlier /\ Pending /\ Ordered /\ ListInv
  BY <1>1, <1>2 DEF Waiting, Earlier, Pending, Ordered, ListInv
<1> QED
  BY <1>3, <1>4 DEF LogInv

(* Every list of trades is newest first, cut at the old end, and as long   *)
(* as it was asked to be (ListTrades in query.sql.go and trade_repo.go),   *)
(* for any number of solves that end together, any limits and any length   *)
(* of a second.                                                            *)
THEOREM ListsAreRight == TradeLogSpec => []ListIsRight
<1>1. LogInv => ListIsRight
  <2> SUFFICES ASSUME LogInv, listed # Absent PROVE ListIsNewestFirst /\ LimitHonoured
    BY DEF ListIsRight, ListIsNewestFirst, LimitHonoured
  <2>1. LimitHonoured
    BY DEF LogInv, ListInv
  <2>2. PICK t, total : t = listed.trades /\ total = listed.total
    OBVIOUS
  <2>3. IsListOf(t, total) /\ total \in 0..Len(trade) /\ IsLog
    BY <2>2 DEF LogInv, LogTypes, ListInv
  <2>4. PICK n \in Nat : n = Len(trade) /\ DOMAIN trade = 1..n
    BY <2>3 DEF IsLog
  <2>5. \A k \in 1..total : k \in DOMAIN trade
    BY <2>3, <2>4
  <2>6. \A i, k \in DOMAIN trade : Before(trade[i], trade[k]) => ~Newer(trade[k].by, trade[i].by)
    BY <2>3, BeforeOrders DEF LogInv, Ordered, Newer
  <2>7. \A i \in DOMAIN t : \E k \in DOMAIN trade : t[i] = trade[k]
    BY <2>3, <2>5 DEF IsListOf
  <2>8. \A i, k \in DOMAIN t : i < k => ~Newer(t[k].by, t[i].by)
    BY <2>3, <2>6, <2>7 DEF IsListOf
  <2>9. \A k \in 1..total : \/ trade[k] \in {t[i] : i \in DOMAIN t}
                            \/ \A i \in DOMAIN t : ~Newer(trade[k].by, t[i].by)
    BY <2>3, <2>5, <2>6, <2>7 DEF IsListOf
  <2> QED
    BY <2>1, <2>2, <2>8, <2>9 DEF ListIsNewestFirst
<1> QED
  BY <1>1, LogInvInit, LogInvStep, PTL DEF TradeLogSpec
=============================================================================
