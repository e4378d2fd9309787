----------------------------- MODULE AtomicSwap -----------------------------
(***************************************************************************)
(* What a swap contract promises: a deposit either stays where it is, or   *)
(* goes back to the maker, or is exchanged, in one step, for at least the  *)
(* amount its script asks for.                                             *)
(***************************************************************************)
EXTENDS Naturals

CONSTANTS
    Ids,      \* deposits
    Prices    \* amounts

VARIABLES
    price,    \* what the maker asks for each deposit
    state,    \* "absent", "open", "swapped" or "refunded"
    paid      \* what the maker was paid for it

swapVars == <<price, state, paid>>

SwapInit ==
    /\ price = [i \in Ids |-> 0]
    /\ state = [i \in Ids |-> "absent"]
    /\ paid = [i \in Ids |-> 0]

Deposit(i) ==
    /\ state[i] = "absent"
    /\ state' = [state EXCEPT ![i] = "open"]
    /\ \E n \in Prices : price' = [price EXCEPT ![i] = n]
    /\ UNCHANGED paid

Exchange(i) ==
    /\ state[i] = "open"
    /\ state' = [state EXCEPT ![i] = "swapped"]
    /\ \E n \in Prices : n >= price[i] /\ paid' = [paid EXCEPT ![i] = n]
    /\ UNCHANGED price

Refund(i) ==
    /\ state[i] = "open"
    /\ state' = [state EXCEPT ![i] = "refunded"]
    /\ UNCHANGED <<price, paid>>

SwapNext == \E i \in Ids : Deposit(i) \/ Exchange(i) \/ Refund(i)

SwapSpec == SwapInit /\ [][SwapNext]_swapVars

=============================================================================
