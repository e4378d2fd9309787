--------------------------- MODULE SolverContract ---------------------------
(***************************************************************************)
(* What Solver.Run promises its caller, without channels, goroutines or a  *)
(* WaitGroup: work is taken on only while it runs, each piece at most      *)
(* once, and it returns with none of it unfinished.                        *)
(***************************************************************************)
CONSTANT Jobs

VARIABLES
    offered,    \* jobs a plugin was asked about
    inFlight,   \* the ones it accepted and has not finished
    returned

contractVars == <<offered, inFlight, returned>>

ContractInit ==
    /\ offered = {}
    /\ inFlight = {}
    /\ returned = FALSE

Decline(j) ==
    /\ ~returned
    /\ j \notin offered
    /\ offered' = offered \union {j}
    /\ UNCHANGED <<inFlight, returned>>

Accept(j) ==
    /\ ~returned
    /\ j \notin offered
    /\ offered' = offered \union {j}
    /\ inFlight' = inFlight \union {j}
    /\ UNCHANGED returned

Finish(j) ==
    /\ j \in inFlight
    /\ inFlight' = inFlight \ {j}
    /\ UNCHANGED <<offered, returned>>

Return ==
    /\ ~returned
    /\ inFlight = {}
    /\ returned' = TRUE
    /\ UNCHANGED <<offered, inFlight>>

ContractNext ==
    \/ \E j \in Jobs : Decline(j) \/ Accept(j) \/ Finish(j)
    \/ Return

ContractSpec == ContractInit /\ [][ContractNext]_contractVars

=============================================================================
