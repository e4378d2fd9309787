----------------------------- MODULE MCMatching -----------------------------
(***************************************************************************)
(* Matching for TLC.  BTC has one decimal and asset A none, so prices have *)
(* to be scaled; offers sit on, inside and outside the edges of the range  *)
(* and of the one percent.  The database starts empty or with a row whose  *)
(* quote is empty, written past the service's validation as the            *)
(* end-to-end test does it (test/e2e/banco_test.go:36).                    *)
(***************************************************************************)
EXTENDS Matching

MCKnownAssets == {"A"}
MCMetaDecimals == [a \in MCKnownAssets |-> 0]

Request(b, q, lo, hi, inv) ==
    [pair |-> <<b, q>>, min |-> lo, max |-> hi, feed |-> "feed", invert |-> inv]
MCPairRequests ==
    {Request("BTC", "A", 5, 10, FALSE), Request("BTC", "A", 6, 10, TRUE),
     Request("A", "BTC", 5, 10, FALSE), Request("A", "", 5, 10, FALSE),
     Request("A", "X", 5, 10, FALSE), Request("A", "BTC", 10, 5, FALSE)}

EmptyQuote ==
    [pair |-> <<"A", "">>, min |-> 5, max |-> 10, feed |-> "feed", invert |-> FALSE,
     baseDecimals |-> 0, quoteDecimals |-> BtcDecimals]
MCSeeds == {{}, {EmptyQuote}}

MCOffer(d, dn, w, wn) == [deposit |-> d, depositAmount |-> dn, want |-> w, wantAmount |-> wn]
MCOffers ==
    {MCOffer("BTC", 101, "A", 10), MCOffer("BTC", 102, "A", 10),
     MCOffer("BTC", 99, "A", 10), MCOffer("BTC", 50, "A", 10),
     MCOffer("BTC", 1, "A", 10), MCOffer("BTC", 100, "A", 5), MCOffer("A", 2, "BTC", 10), MCOffer("BTC", 0, "A", 5)}

=============================================================================
