--------------------------------- MODULE Api ---------------------------------
(***************************************************************************)
(* Invocations of the banco command line client against the daemon: one    *)
(* HTTP request each, through the gateway, the gRPC handler, TakerService  *)
(* and the pair repository down to the SQL statement, and the status code  *)
(* back.  Invocations overlap, a client stops waiting after its timeout    *)
(* while the daemon goes on, and the indexer and the database may fail.    *)
(*                                                                         *)
(* A command is [op, pair, name]: pair is the request's pair, or None     *)
(* when the body has none, without the decimals of the command line, which *)
(* protoToDomain drops.  BadBody is a body that is not JSON or too large;  *)
(* the name <<>> is empty.                                                 *)
(***************************************************************************)
EXTENDS Integers, FiniteSets

CONSTANTS
    Commands,      \* what a client may be told to do
    BadBody,       \* a request body the gateway cannot decode
    None,
    Half64,        \* 2^63
    MaxInvocations,\* bound: invocations in a behaviour
    KnownAssets, MetaDecimals, BtcDecimals, Seeds    \* as in Pairs

ASSUME Half64Assumption == Half64 \in Nat \ {0}
ASSUME MaxInvocationsAssumption == MaxInvocations \in Nat

Invocations == 1..MaxInvocations

VARIABLES
    rows,      \* the table banco_pair, amounts as signed integers
    cmd,       \* each invocation's command
    cli,       \* the client: new, waiting, ok, failed or timedout
    srv,       \* the daemon's side: idle, gateway, resolve, store or answered
    code,      \* the HTTP status it answered with
    effect     \* history: the write of each invocation that made one

apiVars == <<rows, cmd, cli, srv, code, effect>>

-----------------------------------------------------------------------------
(* Columns: int64(x) of a uint64 and back.                                 *)

ToInt64(n) == IF n < Half64 THEN n ELSE n - 2 * Half64
ToUint64(i) == i % (2 * Half64)

(* Mutant: a negative column is read as zero.                              *)
ToDomainPair_Clamps(row) ==
    [row EXCEPT !.min = IF row.min < 0 THEN 0 ELSE row.min,
                !.max = IF row.max < 0 THEN 0 ELSE row.max]

ToDomainPair(row) == [row EXCEPT !.min = ToUint64(row.min), !.max = ToUint64(row.max)]
ToColumns(pair) == [pair EXCEPT !.min = ToInt64(pair.min), !.max = ToInt64(pair.max)]

(* A pair of the domain, amounts as uint64.                                *)
Amounts == 0..(2 * Half64 - 1)
IsPair(p) ==
    /\ p = [pair |-> p.pair, min |-> p.min, max |-> p.max, feed |-> p.feed,
            invert |-> p.invert, baseDecimals |-> p.baseDecimals,
            quoteDecimals |-> p.quoteDecimals]
    /\ p.min \in Amounts /\ p.max \in Amounts

ASSUME ApiSeedsAssumption ==
    \A seed \in Seeds : /\ \A p \in seed : IsPair(p)
                        /\ \A p, q \in seed : p.pair = q.pair => p = q

ListPairs == {ToDomainPair(row) : row \in rows}
RowsOf(name) == {row \in rows : row.pair = name}

(* The pair configuration as the rest of the daemon sees it.               *)
PairRequests == {c.pair : c \in {d \in Commands : d.pair \notin {None, BadBody}}}
Config == INSTANCE Pairs WITH pairs <- ListPairs

ASSUME ApiRequestsAssumption ==
    \A r \in PairRequests : r.min \in Amounts /\ r.max \in Amounts

ApiInit ==
    /\ rows \in {{ToColumns(p) : p \in seed} : seed \in Seeds}
    /\ cmd = [i \in Invocations |-> None]
    /\ cli = [i \in Invocations |-> "new"]
    /\ srv = [i \in Invocations |-> "idle"]
    /\ code = [i \in Invocations |-> 0]
    /\ effect = [i \in Invocations |-> {}]

-----------------------------------------------------------------------------
(* The command line client.                                                *)

(* Invocations are numbered in the order they start.                       *)
Invoke(i, c) ==
    /\ cli[i] = "new"
    /\ i > 1 => cli[i - 1] # "new"
    /\ cli' = [cli EXCEPT ![i] = "waiting"]
    /\ cmd' = [cmd EXCEPT ![i] = c]
    /\ srv' = [srv EXCEPT ![i] = "gateway"]
    /\ UNCHANGED <<rows, code, effect>>

(* The daemon is not reached.                                              *)
InvokeFails(i) ==
    /\ cli[i] = "waiting" /\ srv[i] = "gateway"
    /\ cli' = [cli EXCEPT ![i] = "failed"]
    /\ srv' = [srv EXCEPT ![i] = "idle"]
    /\ UNCHANGED <<rows, cmd, code, effect>>

(* printResponse: a status of 400 or more is an error.                     *)
PrintResponse(i) ==
    /\ cli[i] = "waiting" /\ srv[i] = "answered"
    /\ cli' = [cli EXCEPT ![i] = IF code[i] >= 400 THEN "failed" ELSE "ok"]
    /\ UNCHANGED <<rows, cmd, srv, code, effect>>

(* Mutant: the client has no timeout of its own.                           *)
ClientTimeout_Missing(i) ==
    /\ cli[i] = "waiting" /\ srv[i] = "answered"
    /\ cli' = [cli EXCEPT ![i] = "timedout"]
    /\ UNCHANGED <<rows, cmd, srv, code, effect>>

(* httpClient.Timeout, or a connection that breaks: the client has no      *)
(* answer, and the daemon goes on.                                         *)
ClientTimeout(i) ==
    /\ cli[i] = "waiting"
    /\ cli' = [cli EXCEPT ![i] = "timedout"]
    /\ UNCHANGED <<rows, cmd, srv, code, effect>>

-----------------------------------------------------------------------------
(* The daemon.                                                             *)

Goto(i, label) == srv' = [srv EXCEPT ![i] = label] /\ UNCHANGED code

(* httpGRPCError and jsonResponse.                                         *)
HttpCode(status) ==
    CASE status = "OK" -> 200
      [] status = "InvalidArgument" -> 400
      [] status = "NotFound" -> 404
      [] OTHER -> 500
Reply(i, status) ==
    /\ srv' = [srv EXCEPT ![i] = "answered"]
    /\ code' = [code EXCEPT ![i] = HttpCode(status)]

(* The gateway decodes the body; the handler and the service look at what  *)
(* must be there.                                                          *)
Gateway(i) ==
    /\ srv[i] = "gateway"
    /\ CASE cmd[i].op \in {"add", "update"} ->
              IF cmd[i].pair \in {BadBody, None} THEN Reply(i, "InvalidArgument")
                                                 ELSE Goto(i, "resolve")
         [] cmd[i].op = "remove" ->
              IF cmd[i].name = <<>> THEN Reply(i, "NotFound") ELSE Goto(i, "store")
         [] OTHER -> Goto(i, "store")
    /\ UNCHANGED <<rows, cmd, cli, effect>>

(* resolveDecimals asks the indexer, validatePair looks at the result.     *)
Resolve(i) ==
    /\ srv[i] = "resolve"
    /\ IF Config!ValidPair(cmd[i].pair) THEN Goto(i, "store")
                                        ELSE Reply(i, "InvalidArgument")
    /\ UNCHANGED <<rows, cmd, cli, effect>>

(* The indexer fails.                                                      *)
ResolveFails(i) ==
    /\ srv[i] = "resolve"
    /\ Reply(i, "InvalidArgument")
    /\ UNCHANGED <<rows, cmd, cli, effect>>

Writes(i, new) ==
    /\ rows' = new
    /\ effect' = [effect EXCEPT ![i] = {[before |-> rows, after |-> new]}]

(* Mutant: an insert replaces a row of that name.                          *)
StoreAdd_Replaces(i) ==
    /\ srv[i] = "store" /\ cmd[i].op = "add"
    /\ Writes(i, (rows \ RowsOf(cmd[i].pair.pair)) \union
                   {ToColumns(Config!ResolveDecimals(cmd[i].pair))})
    /\ Reply(i, "OK")
    /\ UNCHANGED <<cmd, cli>>

(* InsertPair: the name is the primary key.                                *)
StoreAdd(i) ==
    /\ srv[i] = "store" /\ cmd[i].op = "add"
    /\ IF RowsOf(cmd[i].pair.pair) = {}
         THEN /\ Writes(i, rows \union {ToColumns(Config!ResolveDecimals(cmd[i].pair))})
              /\ Reply(i, "OK")
         ELSE Reply(i, "InvalidArgument") /\ UNCHANGED <<rows, effect>>
    /\ UNCHANGED <<cmd, cli>>

(* Mutant: the number of rows changed is not looked at.                    *)
StoreUpdate_AnyRows(i) ==
    /\ srv[i] = "store" /\ cmd[i].op = "update"
    /\ IF RowsOf(cmd[i].pair.pair) = {}
         THEN UNCHANGED <<rows, effect>>
         ELSE Writes(i, (rows \ RowsOf(cmd[i].pair.pair)) \union
                          {ToColumns(Config!ResolveDecimals(cmd[i].pair))})
    /\ Reply(i, "OK")
    /\ UNCHANGED <<cmd, cli>>

(* UpdatePair: ErrPairNotFound when no row has the name.                   *)
StoreUpdate(i) ==
    /\ srv[i] = "store" /\ cmd[i].op = "update"
    /\ IF RowsOf(cmd[i].pair.pair) = {}
         THEN Reply(i, "NotFound") /\ UNCHANGED <<rows, effect>>
         ELSE /\ Writes(i, (rows \ RowsOf(cmd[i].pair.pair)) \union
                             {ToColumns(Config!ResolveDecimals(cmd[i].pair))})
              /\ Reply(i, "OK")
    /\ UNCHANGED <<cmd, cli>>

(* DeletePair: a name that is not there is not an error.                   *)
StoreRemove(i) ==
    /\ srv[i] = "store" /\ cmd[i].op = "remove"
    /\ Writes(i, rows \ RowsOf(cmd[i].name))
    /\ Reply(i, "OK")
    /\ UNCHANGED <<cmd, cli>>

(* ListPairs, GetStatus, GetBalance, and GetAddress, whose two calls use   *)
(* up addresses of the wallet only.                                        *)
Read(i) ==
    /\ srv[i] = "store" /\ cmd[i].op = "read"
    /\ Reply(i, "OK")
    /\ UNCHANGED <<rows, cmd, cli, effect>>

(* The statement, or a call to the wallet, fails.                          *)
StoreFails(i) ==
    /\ srv[i] = "store"
    /\ Reply(i, IF cmd[i].op = "read" THEN "Internal" ELSE "InvalidArgument")
    /\ UNCHANGED <<rows, cmd, cli, effect>>

ClientStep(i) ==
    \/ \E c \in Commands : Invoke(i, c)
    \/ InvokeFails(i) \/ PrintResponse(i) \/ ClientTimeout(i)
ServerStep(i) ==
    \/ Gateway(i) \/ Resolve(i) \/ ResolveFails(i)
    \/ StoreAdd(i) \/ StoreUpdate(i) \/ StoreRemove(i)
    \/ Read(i) \/ StoreFails(i)

ApiNext == \E i \in Invocations : ClientStep(i) \/ ServerStep(i)

ApiSpec == ApiInit /\ [][ApiNext]_apiVars

(* Only the client's own timer is sure to go off: handlers have no         *)
(* deadline and wait for the indexer as long as it takes.                  *)
ApiFairness == \A i \in Invocations : WF_apiVars(ClientTimeout(i))

-----------------------------------------------------------------------------
(* Properties.                                                             *)

(* What the client is told is what happened: an add or an update that      *)
(* reports success put the row for its request into the table, one that    *)
(* reports an error changed nothing.  Only a timeout says neither.         *)
OutcomeIsTrue ==
    \A i \in Invocations :
        /\ cli[i] = "ok" /\ cmd[i].op \in {"add", "update"} =>
             \E e \in effect[i] :
                {ToDomainPair(row) : row \in e.after} =
                  {ToDomainPair(row) : row \in
                       {r \in e.before : r.pair # cmd[i].pair.pair}}
                    \union {Config!ResolveDecimals(cmd[i].pair)}
        /\ cli[i] = "failed" => effect[i] = {}

Did(i, op, name) ==
    /\ \E e \in effect[i] : e.before # e.after
    /\ cmd[i].op = op
    /\ name = IF op = "remove" THEN cmd[i].name ELSE cmd[i].pair.pair

AddedNames == {p.pair : p \in PairRequests}

(* Repeating an add whose outcome is unknown never adds twice: of the adds *)
(* of one name, at most one more took effect than removals of it (the row  *)
(* of the start counted), and exactly one more when the row is there.      *)
RetriedAddIsSafe ==
    \A name \in AddedNames :
        LET adds == Cardinality({i \in Invocations : Did(i, "add", name)})
            removals == Cardinality({i \in Invocations : Did(i, "remove", name)})
            present == Cardinality(RowsOf(name))
        IN  present <= 1 /\ adds - removals \in {present, present - 1}

(* The tables the SQL statements leave behind are the ones the pair        *)
(* configuration goes through, with every amount as it was given.          *)
ImplementsPairs == Config!PairsSpec

(* A command ends, also when the daemon or the indexer does not answer.    *)
CommandEnds == \A i \in Invocations : cli[i] = "waiting" ~> cli[i] # "waiting"

=============================================================================
