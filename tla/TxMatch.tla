------------------------------- MODULE TxMatch -------------------------------
(***************************************************************************)
(* Package txmatch: predicates over parsed transactions, put together by   *)
(* a plugin's author from options and from one another.                    *)
(*                                                                         *)
(* A predicate is a function from transactions to BOOLEAN, or Nil.         *)
(* A transaction is Nil or [unsigned, outs, ins, lock, unknowns]:          *)
(* unsigned says whether UnsignedTx is set; outs and ins are sequences of  *)
(* entries <<first, second>>, which are value and script of an output,     *)
(* previous outpoint and sequence number of an input.  An entry may be Nil *)
(* and the value of an output negative, as wire.TxOut's int64 may.         *)
(* HasOutput and HasInput are one algorithm over such entries.             *)
(***************************************************************************)
EXTENDS Integers, Sequences

CONSTANTS
    Txs,           \* transactions a predicate may be asked about
    Nil,           \* nil
    Uint64,        \* one more than the largest uint64
    OutputOpts,    \* options: records of one field, index (a position), first
    InputOpts,     \* or second (the set of accepted values)
    Leaves,        \* the other constructors: records of one field, the name
                   \* of the constructor, that holds its argument
    MaxSteps       \* bound: calls of constructors and options

ASSUME Uint64Assumption == Uint64 \in Nat

ASSUME OptionsAssumption ==
    \A opt \in OutputOpts \union InputOpts :
        \/ DOMAIN opt = {"index"} /\ opt.index \in Int /\ opt.index # Nil
        \/ DOMAIN opt = {"first"} /\ opt.first # Nil
        \/ DOMAIN opt = {"second"} /\ opt.second # Nil

ASSUME LeavesAssumption ==
    \A l \in Leaves :
        \/ DOMAIN l = {"Always"} /\ l.Always \in BOOLEAN
        \/ \E name \in {"HasOutputCount", "HasInputCount", "HasLockTime",
                        "HasUnknownGlobalField", "Nil"} : DOMAIN l = {name}

ASSUME NilAssumption == Nil \notin [Txs -> BOOLEAN]

ASSUME TxsAssumption ==
    \A tx \in Txs : tx # Nil /\ tx.unsigned =>
        /\ \A s \in {tx.outs, tx.ins} : Len(s) \in Nat /\ s = [i \in 1..Len(s) |-> s[i]]
        /\ \A i \in DOMAIN tx.outs : tx.outs[i] # Nil =>
              <<tx.outs[i][1] % Uint64, tx.outs[i][2]>> # Nil

VARIABLES
    crit,      \* the criteria the options have set
    given,     \* history: the options given, in order
    args,      \* predicates made so far: [pred, means]; means is the set of
               \* transactions the comments of its constructors say it accepts
    steps

txmatchVars == <<crit, given, args, steps>>

-----------------------------------------------------------------------------
(* Constructors.                                                           *)

Parsed(tx) == tx # Nil /\ tx.unsigned

Always(v) == [tx \in Txs |-> v]

All(ps) == [tx \in Txs |-> \A i \in DOMAIN ps : ps[i] # Nil /\ ps[i][tx]]

Any(ps) == [tx \in Txs |-> \E i \in DOMAIN ps : ps[i] # Nil /\ ps[i][tx]]

Not(p) == [tx \in Txs |-> p # Nil /\ ~p[tx]]

HasOutputCount(n) == [tx \in Txs |-> Parsed(tx) /\ Len(tx.outs) = n]
HasInputCount(n) == [tx \in Txs |-> Parsed(tx) /\ Len(tx.ins) = n]
HasLockTime(n) == [tx \in Txs |-> Parsed(tx) /\ tx.lock = n]
HasUnknownGlobalField(key) == [tx \in Txs |-> tx # Nil /\ key \in tx.unknowns]

-----------------------------------------------------------------------------
(* Criteria.                                                               *)

NoCriteria == [index |-> Nil, first |-> Nil, second |-> Nil]

(* An option sets its part of the criteria.                                *)
Apply(c, opt) ==
    [part \in DOMAIN c |-> IF part \in DOMAIN opt THEN opt[part] ELSE c[part]]

(* Mutant: one criterion that holds is enough.                             *)
MatchEntry_AnyCriterion(e, c) ==
    /\ e # Nil
    /\ \/ c.first = Nil \/ e[1] \in c.first
       \/ c.second = Nil \/ e[2] \in c.second

(* matchOutput and matchInput.                                             *)
MatchEntry(e, c) ==
    /\ e # Nil
    /\ c.first = Nil \/ e[1] \in c.first
    /\ c.second = Nil \/ e[2] \in c.second

(* An amount option is given the value as uint64, a negative one wrapped.  *)
OutputEntry(e) == IF e = Nil THEN Nil ELSE <<e[1] % Uint64, e[2]>>

(* The indexed entry, counted from 0, or any.                              *)
Search(entries, c) ==
    IF c.index # Nil
      THEN /\ c.index >= 0 /\ c.index < Len(entries)
           /\ MatchEntry(entries[c.index + 1], c)
      ELSE \E i \in DOMAIN entries : MatchEntry(entries[i], c)

HasOutput(c) ==
    [tx \in Txs |-> Parsed(tx)
        /\ Search([i \in DOMAIN tx.outs |-> OutputEntry(tx.outs[i])], c)]
HasInput(c) == [tx \in Txs |-> Parsed(tx) /\ Search(tx.ins, c)]

-----------------------------------------------------------------------------
(* What a predicate accepts by the comments of its constructors: of the    *)
(* options of one kind the last is the one configured.                     *)

Real == {tx \in Txs : Parsed(tx)}

Configured(opts) ==
    {opts[i] : i \in {i \in DOMAIN opts :
        \A k \in DOMAIN opts : k > i => DOMAIN opts[k] # DOMAIN opts[i]}}

Satisfies(first, second, i, opt) ==
    /\ "index" \in DOMAIN opt => i - 1 = opt.index
    /\ "first" \in DOMAIN opt => first \in opt.first
    /\ "second" \in DOMAIN opt => second \in opt.second

MeansOutput(opts) ==
    {tx \in Real : \E i \in DOMAIN tx.outs : tx.outs[i] # Nil /\
        \A opt \in Configured(opts) :
            Satisfies(tx.outs[i][1] % Uint64, tx.outs[i][2], i, opt)}
MeansInput(opts) ==
    {tx \in Real : \E i \in DOMAIN tx.ins : tx.ins[i] # Nil /\
        \A opt \in Configured(opts) : Satisfies(tx.ins[i][1], tx.ins[i][2], i, opt)}

-----------------------------------------------------------------------------
(* The author.                                                             *)

TxMatchInit ==
    /\ crit = NoCriteria
    /\ given = <<>>
    /\ args = <<>>
    /\ steps = 0

OneStep == steps < MaxSteps /\ steps' = steps + 1

Made(pred, means) == [pred |-> pred, means |-> means]

Option(opt) ==
    /\ OneStep
    /\ Append(given, opt) \in Seq(OutputOpts) \union Seq(InputOpts)
    /\ crit' = Apply(crit, opt)
    /\ given' = Append(given, opt)
    /\ UNCHANGED args

Push(made) ==
    /\ OneStep
    /\ args' = Append(args, made)
    /\ crit' = NoCriteria
    /\ given' = <<>>

MakeHasOutput ==
    given \in Seq(OutputOpts) /\ Push(Made(HasOutput(crit), MeansOutput(given)))
MakeHasInput ==
    given \in Seq(InputOpts) /\ Push(Made(HasInput(crit), MeansInput(given)))

LeafPred(l) ==
    CASE DOMAIN l = {"Always"} -> Always(l.Always)
      [] DOMAIN l = {"HasOutputCount"} -> HasOutputCount(l.HasOutputCount)
      [] DOMAIN l = {"HasInputCount"} -> HasInputCount(l.HasInputCount)
      [] DOMAIN l = {"HasLockTime"} -> HasLockTime(l.HasLockTime)
      [] DOMAIN l = {"HasUnknownGlobalField"} ->
            HasUnknownGlobalField(l.HasUnknownGlobalField)
      [] DOMAIN l = {"Nil"} -> Nil

LeafMeans(l) ==
    {tx \in Txs :
        /\ "Always" \in DOMAIN l => l.Always
        /\ "HasOutputCount" \in DOMAIN l => tx \in Real /\ Len(tx.outs) = l.HasOutputCount
        /\ "HasInputCount" \in DOMAIN l => tx \in Real /\ Len(tx.ins) = l.HasInputCount
        /\ "HasLockTime" \in DOMAIN l => tx \in Real /\ tx.lock = l.HasLockTime
        /\ "HasUnknownGlobalField" \in DOMAIN l =>
              tx # Nil /\ l.HasUnknownGlobalField \in tx.unknowns
        /\ "Nil" \notin DOMAIN l}

MakeLeaf(l) == given = <<>> /\ Push(Made(LeafPred(l), LeafMeans(l)))

Preds == [i \in DOMAIN args |-> args[i].pred]

Combine(pred, means) ==
    /\ OneStep
    /\ args' = <<Made(pred, means)>>
    /\ UNCHANGED <<crit, given>>

MakeAll ==
    given = <<>> /\ Combine(All(Preds),
                {tx \in Txs : \A i \in DOMAIN args : tx \in args[i].means})
MakeAny ==
    given = <<>> /\ Combine(Any(Preds),
                {tx \in Txs : \E i \in DOMAIN args : tx \in args[i].means})
(* Of a nil predicate there is nothing to negate.                          *)
MakeNot ==
    /\ given = <<>> /\ Len(args) = 1
    /\ Combine(Not(args[1].pred),
               IF args[1].pred = Nil THEN {} ELSE Txs \ args[1].means)

TxMatchNext ==
    \/ \E opt \in OutputOpts \union InputOpts : Option(opt)
    \/ MakeHasOutput \/ MakeHasInput
    \/ \E l \in Leaves : MakeLeaf(l)
    \/ MakeAll \/ MakeAny \/ MakeNot

TxMatchSpec == TxMatchInit /\ [][TxMatchNext]_txmatchVars

-----------------------------------------------------------------------------
(* Properties.                                                             *)

Accepted(a, tx) == a.pred # Nil /\ a.pred[tx]

(* However it was put together, a predicate accepts exactly the            *)
(* transactions that the comments of the constructors it is made of say,   *)
(* nil ones and ones without UnsignedTx included: an output's value is     *)
(* read as uint64, a later option replaces an earlier one of its kind, and *)
(* a nil predicate accepts nothing and has no negation.  A transaction     *)
(* that is nil or not parsed is accepted by Always(true), by All of        *)
(* nothing, by the Not of what refuses it and, if it is there, by          *)
(* HasUnknownGlobalField; the comment on Predicate says that every         *)
(* constructor yields false for it.                                        *)
PredicatesMeanWhatTheySay ==
    \A i \in DOMAIN args, tx \in Txs : Accepted(args[i], tx) <=> tx \in args[i].means

=============================================================================
