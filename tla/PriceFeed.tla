------------------------------ MODULE PriceFeed ------------------------------
(***************************************************************************)
(* CoinGecko.Fetch: one GET under a client timeout and the caller's        *)
(* context, and the price taken from the answer.  The plugin calls it from *)
(* Match, so until it returns the solver looks at no other transaction.    *)
(*                                                                         *)
(* A body is Nothing when it is not JSON of the wanted shape, or a         *)
(* sequence of <<coin, currencies>>, currencies being a sequence of        *)
(* <<currency, price>>, in the order of the text; a price may be Null, and *)
(* null for a coin or for the whole decodes to an empty map.               *)
(***************************************************************************)
EXTENDS Naturals, Sequences

CONSTANTS
    Bodies,     \* what the feed may send
    Nothing,    \* no body, no price
    Null,       \* the literal null
    MaxFetches  \* bound: calls of Fetch

ASSUME MaxFetchesAssumption == MaxFetches \in Nat

VARIABLES
    pc,         \* "idle", "waiting", "reading" or "returned"
    ok,         \* the status code was 200
    body,       \* the body that is being read
    answer,     \* the price; Nothing with an error
    cancelled,  \* the caller's context is done
    fetches

feedVars == <<pc, ok, body, answer, cancelled, fetches>>

FeedInit ==
    /\ pc = "idle" /\ ok = FALSE /\ body = Nothing /\ answer = Nothing
    /\ cancelled = FALSE
    /\ fetches = 0

-----------------------------------------------------------------------------
(* Of equal keys the last one is kept.                                     *)
Kept(entries, i) == \A k \in DOMAIN entries : k > i => entries[k][1] # entries[i][1]

(* json.Unmarshal leaves a float64 zero for null and reports no error.     *)
Decoded(price) == IF price = Null THEN 0 ELSE price

(* The prices of the decoded map of maps; none of what cannot be decoded.  *)
PricesIn(text) ==
    IF text = Nothing THEN {} ELSE
    UNION {{Decoded(text[i][2][j][2]) : j \in {j \in DOMAIN text[i][2] : Kept(text[i][2], j)}} :
              i \in {i \in DOMAIN text : Kept(text, i)}}

-----------------------------------------------------------------------------
Request ==
    /\ pc = "idle" /\ fetches < MaxFetches
    /\ pc' = "waiting" /\ fetches' = fetches + 1
    /\ UNCHANGED <<ok, body, answer, cancelled>>

(* The feed sends a status and then a body; it may also stay silent at     *)
(* either point.                                                           *)
Respond(okay, text) ==
    /\ pc = "waiting"
    /\ pc' = "reading" /\ ok' = okay /\ body' = text
    /\ UNCHANGED <<answer, cancelled, fetches>>

Return(price) ==
    /\ pc' = "returned" /\ answer' = price
    /\ UNCHANGED <<ok, body, cancelled, fetches>>

(* Mutant: an answer without a price is a price of 0.                      *)
Extract_ZeroIfNone ==
    /\ pc = "reading" /\ ok
    /\ IF PricesIn(body) = {} THEN Return(0)
                              ELSE \E price \in PricesIn(body) : Return(price)

(* The body has been read: no price, or the one the iteration over the     *)
(* maps meets first, in no particular order.                               *)
Extract ==
    /\ pc = "reading" /\ ok
    /\ IF PricesIn(body) = {} THEN Return(Nothing)
                              ELSE \E price \in PricesIn(body) : Return(price)

(* A status other than 200 is an error before the body is read.            *)
BadStatus == pc = "reading" /\ ~ok /\ Return(Nothing)

(* The connection fails.                                                   *)
Breaks == pc \in {"waiting", "reading"} /\ Return(Nothing)

(* Mutant: the client has no timeout.                                      *)
Timeout_Missing == FALSE /\ Return(Nothing)

(* The client's ten seconds are over, headers and body included.           *)
Timeout == pc \in {"waiting", "reading"} /\ Return(Nothing)

(* The caller's context ends, and with it the request.                     *)
Cancel ==
    /\ ~cancelled
    /\ cancelled' = TRUE
    /\ UNCHANGED <<pc, ok, body, answer, fetches>>

CancelledReturn == pc \in {"waiting", "reading"} /\ cancelled /\ Return(Nothing)

(* The caller has the answer.                                              *)
Done ==
    /\ pc = "returned"
    /\ pc' = "idle" /\ ok' = FALSE /\ body' = Nothing /\ answer' = Nothing
    /\ UNCHANGED <<cancelled, fetches>>

FeedNext ==
    \/ Request
    \/ \E okay \in BOOLEAN, text \in Bodies \union {Nothing} : Respond(okay, text)
    \/ Extract \/ BadStatus \/ Breaks \/ Timeout
    \/ Cancel \/ CancelledReturn
    \/ Done

FeedSpec == FeedInit /\ [][FeedNext]_feedVars

(* Only the timers are sure to act: the feed may stay silent for ever.     *)
FeedFairness == WF_feedVars(Timeout) /\ WF_feedVars(CancelledReturn)

-----------------------------------------------------------------------------
(* Properties.                                                             *)

(* A price that is returned without an error stands in a 200 answer of the *)
(* feed, under some coin and currency that no later entry of the same name *)
(* replaced: an answer that has none, or any failure, is never a number.   *)
(* A price of null counts as 0, and of several prices any may be returned, *)
(* not the first key's first as the comment on Fetch has it.               *)
PriceWasSent ==
    (pc = "returned" /\ answer # Nothing) => ok /\ answer \in PricesIn(body)

(* Fetch returns, also when the feed stays silent, so that Match and the   *)
(* solver's loop go on.                                                    *)
FetchReturns == pc = "waiting" ~> pc = "returned"

=============================================================================
