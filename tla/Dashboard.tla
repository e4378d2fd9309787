------------------------------ MODULE Dashboard ------------------------------
(***************************************************************************)
(* The pairs section of the operator's dashboard (static/app.js): what it  *)
(* keeps, what it shows, and the requests it has under way.  The page runs *)
(* one function at a time up to its next await; requests are served and    *)
(* answered in any order, may be refused or fail, and other clients change *)
(* the table meanwhile.                                                    *)
(***************************************************************************)
EXTENDS Naturals, Sequences, FiniteSets

CONSTANTS
    Names,       \* pair names
    Values,      \* the rest of a pair
    Tables,      \* tables the daemon may start with: partial functions
    MaxOps,      \* bound: operations of the page
    MaxOthers    \* bound: changes by other clients

(* Pairs as a map from their names.                                        *)
PairMaps == UNION {[ns -> Values] : ns \in SUBSET Names}

ASSUME TablesAssumption == Tables \subseteq PairMaps
ASSUME BoundsAssumption == MaxOps \in Nat \ {0} /\ MaxOthers \in Nat

VARIABLES
    table,      \* the daemon's pairs: name -> value
    cache,      \* pairsCache
    view,       \* the rows renderPairs drew last
    ops,        \* operations: [kind, name, value, form, phase, ok, data]; form
                \* says that the submit button is disabled until it is over,
                \* data is the answer of a load or what a delete keeps for its
                \* rollback
    toasts,     \* Undo buttons shown: <<name, value>>
    others,     \* changes by other clients
    ever,       \* history: <<name, value>> the table has held
    disturbed   \* history: operations overlapped, an answer or a load was
                \* lost, or another client changed the table

vars == <<table, cache, view, ops, toasts, others, ever, disturbed>>
page == <<cache, view, toasts>>

Empty == [n \in {} |-> 0]
Without(t, n) == [k \in DOMAIN t \ {n} |-> t[k]]
With(t, n, v) == [k \in DOMAIN t \union {n} |-> IF k = n THEN v ELSE t[k]]
Rows(t) == {<<n, t[n]>> : n \in DOMAIN t}

Op(kind, n, v, form, data) ==
    [kind |-> kind, name |-> n, value |-> v, form |-> form,
     phase |-> "sent", ok |-> FALSE, data |-> data]
LoadFor(form) == Op("load", "", 0, form, Empty)
Load == LoadFor(FALSE)
InFlight == {i \in DOMAIN ops : ops[i].phase # "over"}

Init ==
    /\ table \in Tables
    /\ cache = Empty /\ view = Empty
    /\ ops = <<Load>>
    /\ toasts = {}
    /\ others = 0
    /\ ever = Rows(table)
    /\ disturbed = FALSE

-----------------------------------------------------------------------------
(* The operator.                                                           *)

Start(op) ==
    /\ Len(ops) < MaxOps
    /\ ops' = Append(ops, op)
    /\ disturbed' = (disturbed \/ InFlight # {})

(* The section is opened.                                                  *)
LoadPairs ==
    /\ Start(Load)
    /\ UNCHANGED <<table, page, others, ever>>

(* The form is submitted: any name to add, or a row to edit, which may be  *)
(* gone since the dialog was opened.                                       *)
Submit(kind, n, v) ==
    /\ \A i \in InFlight : ~ops[i].form
    /\ kind = "update" => \E row \in ever : row[1] = n
    /\ Start(Op(kind, n, v, TRUE, Empty))
    /\ UNCHANGED <<table, page, others, ever>>

(* Delete removes the row at once and keeps the list for a rollback.       *)
DeletePair(n) ==
    /\ n \in DOMAIN view
    /\ Start(Op("remove", n, view[n], FALSE, cache))
    /\ cache' = Without(cache, n)
    /\ view' = cache'
    /\ UNCHANGED <<table, toasts, others, ever>>

Undo(t) ==
    /\ Start(Op("add", t[1], t[2], FALSE, Empty))
    /\ toasts' = toasts \ {t}
    /\ UNCHANGED <<table, cache, view, others, ever>>

ToastExpires(t) ==
    /\ toasts' = toasts \ {t}
    /\ UNCHANGED <<table, cache, view, ops, others, ever, disturbed>>

-----------------------------------------------------------------------------
(* The daemon: an operation of Pairs, as one step.  A delete of a name     *)
(* that is not there is answered like any other.                           *)

Applies(op) ==
    CASE op.kind \in {"load", "remove"} -> TRUE
      [] op.kind = "add" -> op.name \notin DOMAIN table
      [] op.kind = "update" -> op.name \in DOMAIN table

After(op) ==
    CASE op.kind = "load" -> table
      [] op.kind \in {"add", "update"} -> With(table, op.name, op.value)
      [] op.kind = "remove" -> Without(table, op.name)

Answer(i, ok) ==
    ops' = [ops EXCEPT ![i].phase = "answered", ![i].ok = ok,
                       ![i].data = IF ops[i].kind = "load" THEN table ELSE @]

(* The request is served; its answer arrives or is lost.                   *)
Serve(i, arrives) ==
    /\ ops[i].phase = "sent"
    /\ table' = IF Applies(ops[i]) THEN After(ops[i]) ELSE table
    /\ Answer(i, Applies(ops[i]) /\ arrives)
    /\ ever' = ever \union Rows(table')
    /\ disturbed' = (disturbed \/ ~arrives)
    /\ UNCHANGED <<page, others>>

(* The request is refused or does not reach the daemon.                    *)
Fail(i) ==
    /\ ops[i].phase = "sent"
    /\ Answer(i, FALSE)
    /\ disturbed' = (disturbed \/ ops[i].kind = "load")
    /\ UNCHANGED <<table, page, others, ever>>

OtherClient(n, v) ==
    /\ others < MaxOthers /\ others' = others + 1
    /\ \/ table' = With(table, n, v)
       \/ n \in DOMAIN table /\ table' = Without(table, n)
    /\ ever' = ever \union Rows(table')
    /\ disturbed' = TRUE
    /\ UNCHANGED <<page, ops>>

-----------------------------------------------------------------------------
(* The continuations after the awaits.                                     *)

Over(i) == ops' = [ops EXCEPT ![i].phase = "over", ![i].data = Empty]

HandleLoad(i) ==
    /\ ops[i].kind = "load" /\ ops[i].phase = "answered"
    /\ IF ops[i].ok
         THEN cache' = ops[i].data /\ view' = ops[i].data
         ELSE view' = Empty /\ UNCHANGED cache
    /\ Over(i)
    /\ UNCHANGED <<table, toasts, others, ever, disturbed>>

(* Mutant: the row is drawn from the form, whatever was answered.          *)
HandleSave_FromForm(i) ==
    /\ ops[i].kind \in {"add", "update"} /\ ops[i].phase = "answered"
    /\ cache' = With(cache, ops[i].name, ops[i].value)
    /\ view' = cache'
    /\ Over(i)
    /\ UNCHANGED <<table, toasts, others, ever, disturbed>>

(* A saved pair is followed by loadPairs, and so is an Undo.               *)
HandleSave(i) ==
    /\ ops[i].kind \in {"add", "update"} /\ ops[i].phase = "answered"
    /\ IF ops[i].ok THEN ops' = [ops EXCEPT ![i] = LoadFor(ops[i].form)]
                 ELSE Over(i)
    /\ UNCHANGED <<table, page, others, ever, disturbed>>

(* Mutant: a delete that failed is not rolled back.                        *)
HandleRemove_NoRollback(i) ==
    /\ ops[i].kind = "remove" /\ ops[i].phase = "answered"
    /\ IF ops[i].ok
         THEN toasts' = toasts \union {<<ops[i].name, ops[i].value>>}
         ELSE UNCHANGED toasts
    /\ Over(i)
    /\ UNCHANGED <<table, cache, view, others, ever, disturbed>>

HandleRemove(i) ==
    /\ ops[i].kind = "remove" /\ ops[i].phase = "answered"
    /\ IF ops[i].ok
         THEN /\ toasts' = toasts \union {<<ops[i].name, ops[i].value>>}
              /\ UNCHANGED <<cache, view>>
         ELSE cache' = ops[i].data /\ view' = ops[i].data /\ UNCHANGED toasts
    /\ Over(i)
    /\ UNCHANGED <<table, others, ever, disturbed>>

Next ==
    \/ LoadPairs
    \/ \E kind \in {"add", "update"}, n \in Names, v \in Values : Submit(kind, n, v)
    \/ \E n \in Names : DeletePair(n)
    \/ \E t \in toasts : Undo(t) \/ ToastExpires(t)
    \/ \E i \in DOMAIN ops :
          \/ \E arrives \in BOOLEAN : Serve(i, arrives)
          \/ Fail(i) \/ HandleLoad(i) \/ HandleSave(i) \/ HandleRemove(i)
    \/ \E n \in Names, v \in Values : OtherClient(n, v)

Spec == Init /\ [][Next]_vars

-----------------------------------------------------------------------------
(* Properties.                                                             *)

(* Tables are partial functions; the page shows what it keeps, or nothing  *)
(* after a load that failed.                                               *)
TypeOK ==
    /\ {table, cache, view} \subseteq PairMaps
    /\ view \in {cache, Empty}

(* Every row the page shows is one the table has held, values included:    *)
(* optimistic deletes, rollbacks, late answers and Undo invent nothing.    *)
ShownWasThere == Rows(view) \subseteq ever

(* As long as operations do not overlap, answers arrive, loads succeed and *)
(* nobody else writes, the page at rest shows the table, refused deletes,  *)
(* saves and Undos included.                                               *)
QuietViewIsTrue == (~disturbed /\ InFlight = {}) => view = table

=============================================================================
