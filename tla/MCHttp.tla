------------------------------- MODULE MCHttp -------------------------------
(***************************************************************************)
(* The four parts that talk HTTP, for TLC: the dashboard's page, the       *)
(* command line client with the API behind it, the list of trades and the  *)
(* price feed client.  They share no state, so a behaviour is one part's;  *)
(* the others stay in their initial states.                                *)
(***************************************************************************)
EXTENDS Dashboard, Api, TradeLog, PriceFeed

VARIABLE part    \* the part that runs

parts == <<vars, apiVars, tradeLogVars, feedVars, part>>

HttpInit ==
    /\ Init /\ ApiInit /\ TradeLogInit /\ FeedInit
    /\ part \in {"page", "command", "list", "feed"}
    /\ part # "command" => rows = {}

HttpNext ==
    \/ /\ part = "page" /\ Next
       /\ UNCHANGED <<apiVars, tradeLogVars, feedVars, part>>
    \/ /\ part = "command" /\ ApiNext
       /\ UNCHANGED <<vars, tradeLogVars, feedVars, part>>
    \/ /\ part = "list" /\ TradeLogNext
       /\ UNCHANGED <<vars, apiVars, feedVars, part>>
    \/ /\ part = "feed" /\ FeedNext
       /\ UNCHANGED <<vars, apiVars, tradeLogVars, part>>

HttpSpec ==
    HttpInit /\ [][HttpNext]_parts /\ ApiFairness /\ FeedFairness

-----------------------------------------------------------------------------
(* Dashboard: a table with one row.                                        *)
MCTables == {[n \in {"a"} |-> 1]}

(* Api: uint64 has three bits, so amounts from 4 on are negative columns.  *)
MCKnownAssets == {"A"}
MCMetaDecimals == [a \in MCKnownAssets |-> 2]

PairRequest(b, q, lo, hi) ==
    [pair |-> <<b, q>>, min |-> lo, max |-> hi, feed |-> "feed", invert |-> FALSE]
Command(op, pair, name) == [op |-> op, pair |-> pair, name |-> name]

MCCommands ==
    {Command("add", PairRequest("BTC", "A", 1, 6), None),
     Command("add", BadBody, None),
     Command("update", PairRequest("BTC", "A", 3, 7), None),
     Command("remove", None, <<"BTC", "A">>),
     Command("read", None, None)}

SeededPair ==
    [pair |-> <<"BTC", "A">>, min |-> 2, max |-> 3, feed |-> "feed", invert |-> FALSE,
     baseDecimals |-> 8, quoteDecimals |-> 2]
MCSeeds == {{}, {SeededPair}}

(* PriceFeed: no coin, a coin without currencies, one price, two           *)
(* currencies, two coins, a repeated coin, a price of null alone and in    *)
(* the place of a number.                                                  *)
Usd == <<"usd", 5>>
Eur == <<"eur", 4>>
MCBodies ==
    {<<>>, <<<<"btc", <<>>>>>>, <<<<"btc", <<Usd>>>>>>, <<<<"btc", <<Usd, Eur>>>>>>,
     <<<<"btc", <<Usd>>>>, <<"eth", <<<<"usd", 3>>>>>>>>,
     <<<<"btc", <<Usd>>>>, <<"btc", <<Eur>>>>>>,
     <<<<"btc", <<<<"usd", Null>>>>>>>>, <<<<"btc", <<Usd, <<"usd", Null>>>>>>>>}

-----------------------------------------------------------------------------
(* Property of the two clients: the command line client and Fetch come to  *)
(* an end, though the daemon or the feed may stay silent.                  *)
ClientsEnd == CommandEnds /\ FetchReturns

=============================================================================
