------------------------------ MODULE TradeLog ------------------------------
(***************************************************************************)
(* The trade table as its readers see it.  Solves that end at the same     *)
(* time take their event's timestamp and insert their row in whatever      *)
(* order they get to it; a list is asked for over HTTP with a limit and    *)
(* answered from the table, newest trades first.                           *)
(*                                                                         *)
(* Time is counted in ticks, Second of which make a second: the table      *)
(* keeps seconds.  The clock is not set back.                              *)
(***************************************************************************)
EXTENDS Integers, Sequences, FiniteSets

CONSTANTS
    Solves,        \* goroutines that fulfill an offer
    Asked,         \* limits a client may ask for
    MaxLimit,      \* the largest limit the gateway passes on (1000)
    DefaultLimit,  \* the repository's own (100)
    Second,        \* ticks in a second
    MaxClock,      \* bound: the last tick
    Absent

ASSUME LimitAssumption == MaxLimit \in Nat /\ DefaultLimit \in Nat
ASSUME SecondAssumption == Second \in Nat \ {0}
ASSUME MaxClockAssumption == MaxClock \in Nat
ASSUME AskedAssumption == Asked \subseteq Int
ASSUME AbsentAssumption ==
    Absent \notin 0..MaxClock /\ \A some \in SUBSET Solves : some # Absent

VARIABLES
    clock,
    stamp,    \* each solve's event timestamp, Absent before and after
    trade,    \* the rows in the order of their ids: [id, by, createdAt]
    since,    \* history: the solves with a row when a solve took its timestamp
    listed    \* the last answer to a list: [asked, trades, total]

tradeLogVars == <<clock, stamp, trade, since, listed>>

Recorded == {trade[i].by : i \in DOMAIN trade}

TradeLogInit ==
    /\ clock = 0
    /\ stamp = [s \in Solves |-> Absent]
    /\ trade = <<>>
    /\ since = [s \in Solves |-> Absent]
    /\ listed = Absent

Tick ==
    /\ clock < MaxClock
    /\ clock' = clock + 1
    /\ UNCHANGED <<stamp, trade, since, listed>>

-----------------------------------------------------------------------------
(* fulfill: the event, with time.Now().                                    *)
TakeTimestamp(s) ==
    /\ since[s] = Absent
    /\ stamp' = [stamp EXCEPT ![s] = clock]
    /\ since' = [since EXCEPT ![s] = Recorded]
    /\ UNCHANGED <<clock, trade, listed>>

(* TradeRepository.Add: the next id, and the timestamp's Unix seconds.     *)
InsertTrade(s) ==
    /\ stamp[s] # Absent
    /\ trade' = Append(trade, [id |-> Len(trade) + 1, by |-> s,
                               createdAt |-> stamp[s] \div Second])
    /\ stamp' = [stamp EXCEPT ![s] = Absent]
    /\ UNCHANGED <<clock, since, listed>>

(* The insert fails: logged, and the trade has no row.                     *)
InsertFails(s) ==
    /\ stamp[s] # Absent
    /\ stamp' = [stamp EXCEPT ![s] = Absent]
    /\ UNCHANGED <<clock, trade, since, listed>>

-----------------------------------------------------------------------------
(* Listing.                                                                *)

(* Mutant: rows of one second come in the order of their ids.              *)
Before_OldestFirst(a, b) ==
    a.createdAt > b.createdAt \/ (a.createdAt = b.createdAt /\ a.id < b.id)

(* ORDER BY created_at DESC, id DESC.                                      *)
Before(a, b) ==
    a.createdAt > b.createdAt \/ (a.createdAt = b.createdAt /\ a.id > b.id)

(* Mutant: the largest limit is refused too.                               *)
GatewayLimit_Below(n) == IF n > 0 /\ n < MaxLimit THEN n ELSE 0

(* The gateway passes a limit on if it is in its range, else zero.         *)
GatewayLimit(n) == IF n > 0 /\ n <= MaxLimit THEN n ELSE 0
RepoLimit(n) == IF n <= 0 THEN DefaultLimit ELSE n

(* The k-th row of a list has k - 1 rows before it.                        *)
Ahead(i) == {j \in DOMAIN trade : Before(trade[j], trade[i])}
Place(i) == Cardinality(Ahead(i)) + 1
Sorted(limit) ==
    [k \in {p \in DOMAIN trade : p <= limit} |->
        trade[CHOOSE i \in DOMAIN trade : Place(i) = k]]

ListTrades(n) ==
    /\ listed' = [asked |-> n, total |-> Len(trade),
                  trades |-> Sorted(RepoLimit(GatewayLimit(n)))]
    /\ UNCHANGED <<clock, stamp, trade, since>>

TradeLogNext ==
    \/ Tick
    \/ \E s \in Solves : TakeTimestamp(s) \/ InsertTrade(s) \/ InsertFails(s)
    \/ \E n \in Asked : ListTrades(n)

TradeLogSpec == TradeLogInit /\ [][TradeLogNext]_tradeLogVars

-----------------------------------------------------------------------------
(* Properties.                                                             *)

(* Trade b was fulfilled after a was recorded.                             *)
Newer(b, a) == a \in since[b]

(* A list is newest first and cut at the old end: a trade fulfilled after  *)
(* another was recorded stands before it, and is not the one left out,     *)
(* also when both fall into the same second.                               *)
ListIsNewestFirst ==
    listed # Absent =>
        LET t == listed.trades
        IN  /\ \A i, k \in DOMAIN t : i < k => ~Newer(t[k].by, t[i].by)
            /\ \A k \in 1..listed.total :
                  trade[k] \in {t[i] : i \in DOMAIN t}
                    \/ \A i \in DOMAIN t : ~Newer(trade[k].by, t[i].by)

(* A limit within the gateway's range is honoured: that many trades, or    *)
(* all there are.                                                          *)
LimitHonoured ==
    listed # Absent /\ listed.asked \in 1..MaxLimit =>
        Len(listed.trades) = IF listed.total < listed.asked
                               THEN listed.total ELSE listed.asked

(* What a client is shown of the trades: the newest, as many as it asked.  *)
ListIsRight == ListIsNewestFirst /\ LimitHonoured

=============================================================================
