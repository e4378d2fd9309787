--------------------------- MODULE LibraryProofs ----------------------------
(***************************************************************************)
(* Theorems about the packages a plugin's author imports: TxMatch, for any *)
(* options, transactions and number of constructor calls, and              *)
(* PluginBuilder, for any stages, transactions and number of calls.        *)
(***************************************************************************)
EXTENDS TxMatch, PluginBuilder, WellFoundedInduction, TLAPS

-----------------------------------------------------------------------------
(* TxMatch: the criteria are the options configured.                       *)

Kinds == {"index", "first", "second"}

CriteriaInv ==
    /\ DOMAIN crit = Kinds
    /\ given \in Seq(OutputOpts) \union Seq(InputOpts)
    /\ \A part \in Kinds :
          /\ \A opt \in Configured(given) : part \in DOMAIN opt => crit[part] = opt[part]
          /\ (\A opt \in Configured(given) : part \notin DOMAIN opt) => crit[part] = Nil

Right(a) == \A tx \in Txs : Accepted(a, tx) <=> tx \in a.means

(* A predicate that was made is right, and is nil or a function.           *)
Predicates == [pred : [Txs -> BOOLEAN] \union {Nil}, means : SUBSET Txs]

ArgsInv ==
    /\ args \in Seq(Predicates)
    /\ \A i \in DOMAIN args : Right(args[i])

TxMatchInv == CriteriaInv /\ ArgsInv

(* An option sets one part of the criteria.                                *)
LEMMA OptionKinds ==
    ASSUME NEW opt \in OutputOpts \union InputOpts
    PROVE  /\ DOMAIN opt \subseteq Kinds
           /\ \E part \in Kinds : DOMAIN opt = {part}
           /\ "index" \in DOMAIN opt => opt.index \in Int
           /\ \A part \in DOMAIN opt : opt[part] # Nil
BY OptionsAssumption DEF Kinds

(* What is configured was given.                                           *)
LEMMA ConfiguredAreOptions ==
    ASSUME CriteriaInv
    PROVE  \A opt \in Configured(given) : opt \in OutputOpts \union InputOpts
BY DEF CriteriaInv, Configured

(* The option given last replaces the one of its kind.                     *)
LEMMA ConfiguredByAppend ==
    ASSUME NEW S, NEW s \in Seq(S), NEW opt \in S
    PROVE  Configured(Append(s, opt)) =
              {o \in Configured(s) : DOMAIN o # DOMAIN opt} \union {opt}
<1>1. PICK n \in Nat : n = Len(s) /\ DOMAIN s = 1..n
  OBVIOUS
<1>2. PICK t : t = Append(s, opt)
  OBVIOUS
<1>3. DOMAIN t = 1..(n + 1) /\ t[n + 1] = opt /\ \A i \in 1..n : t[i] = s[i]
  BY <1>1, <1>2
<1>4. \A o : o \in Configured(t) <=>
         \E i \in 1..(n + 1) : /\ o = t[i]
                               /\ \A k \in 1..(n + 1) : k > i => DOMAIN t[k] # DOMAIN t[i]
  BY <1>3 DEF Configured
<1>5. \A o : o \in Configured(s) <=>
         \E i \in 1..n : /\ o = s[i]
                         /\ \A k \in 1..n : k > i => DOMAIN s[k] # DOMAIN s[i]
  BY <1>1 DEF Configured
<1>6. ASSUME NEW o, o \in Configured(t)
      PROVE  o = opt \/ (o \in Configured(s) /\ DOMAIN o # DOMAIN opt)
  <2>1. PICK i \in 1..(n + 1) : /\ o = t[i]
                                /\ \A k \in 1..(n + 1) : k > i => DOMAIN t[k] # DOMAIN t[i]
    BY <1>4, <1>6
  <2>2. CASE i = n + 1
    BY <1>3, <2>1, <2>2
  <2>3. CASE i # n + 1
    <3>1. i \in 1..n /\ n + 1 > i /\ n + 1 \in 1..(n + 1)
      BY <2>3
    <3>2. DOMAIN o # DOMAIN opt
      BY <1>3, <2>1, <3>1
    <3>3. \A k \in 1..n : k \in 1..(n + 1)
      OBVIOUS
    <3> QED
      BY <1>3, <1>5, <2>1, <3>1, <3>2, <3>3
  <2> QED
    BY <2>2, <2>3
<1>7. ASSUME NEW o, o \in Configured(s), DOMAIN o # DOMAIN opt PROVE o \in Configured(t)
  <2>1. PICK i \in 1..n : /\ o = s[i]
                          /\ \A k \in 1..n : k > i => DOMAIN s[k] # DOMAIN s[i]
    BY <1>5, <1>7
  <2>2. ASSUME NEW k \in 1..(n + 1), k > i PROVE DOMAIN t[k] # DOMAIN t[i]
    <3>1. CASE k = n + 1
      BY <1>3, <1>7, <2>1, <3>1
    <3>2. CASE k # n + 1
      <4>1. k \in 1..n
        BY <3>2
      <4> QED
        BY <1>3, <2>1, <2>2, <4>1
    <3> QED
      BY <3>1, <3>2
  <2>3. i \in 1..(n + 1) /\ o = t[i]
    BY <1>3, <2>1
  <2> QED
    BY <1>4, <2>2, <2>3
<1>8. opt \in Configured(t)
  <2>1. n + 1 \in 1..(n + 1) /\ \A k \in 1..(n + 1) : ~(k > n + 1)
    OBVIOUS
  <2> QED
    BY <1>3, <1>4, <2>1
<1> QED
  BY <1>2, <1>6, <1>7, <1>8

(* Without options nothing is configured.                                  *)
LEMMA NothingConfigured == Configured(<<>>) = {}
BY DEF Configured

(* One entry against the criteria, and against the options behind them.    *)
LEMMA EntryMeans ==
    ASSUME CriteriaInv, NEW e
    PROVE  MatchEntry(e, crit) <=>
              /\ e # Nil
              /\ \A opt \in Configured(given) :
                    /\ "first" \in DOMAIN opt => e[1] \in opt.first
                    /\ "second" \in DOMAIN opt => e[2] \in opt.second
<1>1. ASSUME NEW part \in Kinds
      PROVE  /\ \A opt \in Configured(given) : part \in DOMAIN opt =>
                    crit[part] = opt[part] /\ crit[part] # Nil
             /\ (\A opt \in Configured(given) : part \notin DOMAIN opt) => crit[part] = Nil
  BY ConfiguredAreOptions, OptionKinds DEF CriteriaInv
<1>2. (crit.first = Nil \/ e[1] \in crit.first) <=>
         \A opt \in Configured(given) : "first" \in DOMAIN opt => e[1] \in opt.first
  <2>1. "first" \in Kinds
    BY DEF Kinds
  <2> QED
    BY <1>1, <2>1
<1>3. (crit.second = Nil \/ e[2] \in crit.second) <=>
         \A opt \in Configured(given) : "second" \in DOMAIN opt => e[2] \in opt.second
  <2>1. "second" \in Kinds
    BY DEF Kinds
  <2> QED
    BY <1>1, <2>1
<1> QED
  BY <1>2, <1>3 DEF MatchEntry

(* Some entry meets all options.                                           *)
SomeEntry(s, opts) ==
    \E i \in DOMAIN s : s[i] # Nil /\ \A opt \in opts : Satisfies(s[i][1], s[i][2], i, opt)

(* Searching by criteria is searching by the options that set them.        *)
LEMMA SearchMeans ==
    ASSUME CriteriaInv, NEW s, Len(s) \in Nat, DOMAIN s = 1..Len(s)
    PROVE  Search(s, crit) <=> SomeEntry(s, Configured(given))
<1>1. PICK opts : opts = Configured(given)
  OBVIOUS
<1>2. SomeEntry(s, opts) <=>
         \E i \in 1..Len(s) : /\ MatchEntry(s[i], crit)
                              /\ \A opt \in opts : "index" \in DOMAIN opt => i - 1 = opt.index
  <2>1. \A i \in 1..Len(s) : MatchEntry(s[i], crit) <=>
           /\ s[i] # Nil
           /\ \A opt \in opts : /\ "first" \in DOMAIN opt => s[i][1] \in opt.first
                                /\ "second" \in DOMAIN opt => s[i][2] \in opt.second
    BY <1>1, EntryMeans
  <2> QED
    BY <2>1 DEF SomeEntry, Satisfies
<1>3. "index" \in Kinds
  BY DEF Kinds
<1>4. CASE \A opt \in opts : "index" \notin DOMAIN opt
  <2>1. crit.index = Nil
    BY <1>1, <1>3, <1>4 DEF CriteriaInv
  <2> QED
    BY <1>1, <1>2, <1>4, <2>1 DEF Search
<1>5. CASE \E opt \in opts : "index" \in DOMAIN opt
  <2>1. PICK o \in opts : "index" \in DOMAIN o
    BY <1>5
  <2>2. \A opt \in opts : "index" \in DOMAIN opt => opt.index = crit.index
    BY <1>1, <1>3 DEF CriteriaInv
  <2>3. PICK c \in Int : c = crit.index /\ c # Nil
    BY <1>1, <2>1, <2>2, ConfiguredAreOptions, OptionKinds
  <2>4. PICK n \in Nat : n = Len(s)
    OBVIOUS
  <2>5. SomeEntry(s, opts) <=> \E i \in 1..n : MatchEntry(s[i], crit) /\ i - 1 = c
    BY <1>2, <2>1, <2>2, <2>3, <2>4
  <2>6. Search(s, crit) <=> c >= 0 /\ c < n /\ MatchEntry(s[c + 1], crit)
    BY <2>3, <2>4 DEF Search
  <2>7. \A i \in 1..n : i - 1 = c <=> i = c + 1 /\ c >= 0 /\ c < n
    BY <2>3
  <2>8. c >= 0 /\ c < n => c + 1 \in 1..n
    BY <2>3
  <2> QED
    BY <1>1, <2>5, <2>6, <2>7, <2>8
<1> QED
  BY <1>1, <1>4, <1>5

(* The outputs and inputs of a parsed transaction are sequences.           *)
LEMMA TxSequences ==
    ASSUME NEW tx \in Real
    PROVE  /\ Len(tx.outs) \in Nat /\ DOMAIN tx.outs = 1..Len(tx.outs)
           /\ Len(tx.ins) \in Nat /\ DOMAIN tx.ins = 1..Len(tx.ins)
<1>1. tx \in Txs /\ tx # Nil /\ tx.unsigned
  BY DEF Real, Parsed
<1>2. \A s \in {tx.outs, tx.ins} : Len(s) \in Nat /\ s = [i \in 1..Len(s) |-> s[i]]
  BY <1>1, TxsAssumption
<1>3. PICK s, t : s = tx.outs /\ t = tx.ins
  OBVIOUS
<1>4. DOMAIN s = 1..Len(s) /\ DOMAIN t = 1..Len(t) /\ Len(s) \in Nat /\ Len(t) \in Nat
  BY <1>2, <1>3
<1> QED
  BY <1>3, <1>4

(* HasOutput searches the outputs with their values read as uint64.        *)
LEMMA OutputMeans ==
    ASSUME CriteriaInv, NEW tx \in Real
    PROVE  Search([i \in DOMAIN tx.outs |-> OutputEntry(tx.outs[i])], crit)
              <=> tx \in MeansOutput(given)
<1>1. PICK outs : outs = tx.outs
  OBVIOUS
<1>2. PICK n \in Nat : n = Len(outs) /\ DOMAIN outs = 1..n
  BY <1>1, TxSequences
<1>3. PICK s : s = [i \in 1..n |-> OutputEntry(outs[i])]
  OBVIOUS
<1>4. Len(s) = n /\ DOMAIN s = 1..n /\ \A i \in 1..n : s[i] = OutputEntry(outs[i])
  BY <1>3
<1>5. Search(s, crit) <=> SomeEntry(s, Configured(given))
  BY <1>4, SearchMeans
<1>6. PICK opts : opts = Configured(given)
  OBVIOUS
<1>7. /\ \A x, y : <<x, y>>[1] = x /\ <<x, y>>[2] = y
      /\ \A i \in 1..n : outs[i] # Nil => <<outs[i][1] % Uint64, outs[i][2]>> # Nil
  <2>1. tx \in Txs /\ tx # Nil /\ tx.unsigned
    BY DEF Real, Parsed
  <2>2. \A i \in 1..n : outs[i] # Nil => <<outs[i][1] % Uint64, outs[i][2]>> # Nil
    BY <1>1, <1>2, <2>1, TxsAssumption
  <2> QED
    BY <2>2
<1>8. SomeEntry(s, opts) <=>
         \E i \in 1..n : outs[i] # Nil
            /\ \A opt \in opts : Satisfies(outs[i][1] % Uint64, outs[i][2], i, opt)
  BY <1>4, <1>7 DEF SomeEntry, OutputEntry
<1> QED
  BY <1>1, <1>2, <1>3, <1>5, <1>6, <1>8 DEF MeansOutput

(* HasInput searches the inputs as they are.                               *)
LEMMA InputMeans ==
    ASSUME CriteriaInv, NEW tx \in Real
    PROVE  Search(tx.ins, crit) <=> tx \in MeansInput(given)
<1>1. Search(tx.ins, crit) <=> SomeEntry(tx.ins, Configured(given))
  BY TxSequences, SearchMeans
<1> QED
  BY <1>1 DEF MeansInput, SomeEntry

(* A predicate that agrees with its meaning is right.                      *)
LEMMA MadeRight ==
    ASSUME NEW p \in [Txs -> BOOLEAN], NEW means \in SUBSET Txs,
           \A tx \in Txs : p[tx] <=> tx \in means
    PROVE  Made(p, means) \in Predicates /\ Right(Made(p, means))
<1>1. PICK a : a = Made(p, means)
  OBVIOUS
<1>2. a.pred = p /\ a.means = means /\ a \in Predicates
  BY <1>1 DEF Made, Predicates
<1>3. a.pred # Nil
  BY <1>2, NilAssumption
<1>4. Right(a)
  BY <1>2, <1>3 DEF Right, Accepted
<1> QED
  BY <1>1, <1>2, <1>4

(* The criteria before any option.                                         *)
LEMMA NoOptions ==
    ASSUME NEW c, c = NoCriteria
    PROVE  DOMAIN c = Kinds /\ \A part \in Kinds : c[part] = Nil
BY DEF NoCriteria, Kinds

(* A new predicate is added to the arguments, and the options start anew.  *)
LEMMA PushKeeps ==
    ASSUME TxMatchInv, NEW a \in Predicates, Right(a), Push(a)
    PROVE  TxMatchInv'
<1>1. args' = Append(args, a) /\ crit' = NoCriteria /\ given' = <<>>
  BY DEF Push
<1>2. args \in Seq(Predicates) /\ \A i \in DOMAIN args : Right(args[i])
  BY DEF TxMatchInv, ArgsInv
<1>3. /\ args' \in Seq(Predicates)
      /\ \A i \in DOMAIN args' : args'[i] = a \/ (i \in DOMAIN args /\ args'[i] = args[i])
  <2> HIDE DEF Predicates
  <2> QED
    BY <1>1, <1>2
<1>4. ArgsInv'
  <2>1. \A i \in DOMAIN args' : Right(args'[i])
    BY <1>2, <1>3
  <2> QED
    BY <1>3, <2>1 DEF ArgsInv, Predicates, Right, Accepted
<1>5. CriteriaInv'
  <2>1. DOMAIN crit' = Kinds /\ \A part \in Kinds : crit'[part] = Nil
    BY <1>1, NoOptions
  <2>2. Configured(given') = {} /\ given' \in Seq(OutputOpts)
    BY <1>1, NothingConfigured
  <2> QED
    BY <2>1, <2>2 DEF CriteriaInv
<1> QED
  BY <1>4, <1>5 DEF TxMatchInv

(* A combinator replaces its arguments by one predicate.                   *)
LEMMA CombineKeeps ==
    ASSUME TxMatchInv, NEW p \in [Txs -> BOOLEAN], NEW means \in SUBSET Txs,
           Combine(p, means), \A tx \in Txs : p[tx] <=> tx \in means
    PROVE  TxMatchInv'
<1>1. PICK a : a = Made(p, means)
  OBVIOUS
<1>2. a \in Predicates /\ Right(a)
  BY <1>1, MadeRight
<1>3. args' = <<a>> /\ UNCHANGED <<crit, given>>
  BY <1>1 DEF Combine
<1>4. CriteriaInv'
  BY <1>3 DEF TxMatchInv, CriteriaInv, Configured
<1>5. args' \in Seq(Predicates) /\ DOMAIN args' = {1} /\ args'[1] = a
  BY <1>2, <1>3
<1>6. ArgsInv'
  BY <1>2, <1>5 DEF ArgsInv
<1> QED
  BY <1>4, <1>6 DEF TxMatchInv

(* An option given sets its part of the criteria and no other.             *)
LEMMA OptionKeeps ==
    ASSUME TxMatchInv, NEW opt \in OutputOpts \union InputOpts, Option(opt)
    PROVE  TxMatchInv'
<1>1. /\ given' = Append(given, opt) /\ crit' = Apply(crit, opt) /\ UNCHANGED args
      /\ given' \in Seq(OutputOpts) \union Seq(InputOpts)
  BY DEF Option
<1>2. PICK kind \in Kinds : DOMAIN opt = {kind}
  BY OptionKinds
<1>3. DOMAIN crit' = Kinds
      /\ \A part \in Kinds : crit'[part] = IF part = kind THEN opt[part] ELSE crit[part]
  BY <1>1, <1>2 DEF Apply, TxMatchInv, CriteriaInv
<1>4. PICK before : before = Configured(given)
  OBVIOUS
<1>5. Configured(given') = {o \in before : DOMAIN o # DOMAIN opt} \union {opt}
  <2>1. PICK S : S = OutputOpts \union InputOpts
    OBVIOUS
  <2>2. given \in Seq(S)
    BY <2>1 DEF TxMatchInv, CriteriaInv
  <2> QED
    BY <1>1, <1>4, <2>1, <2>2, ConfiguredByAppend
<1>6. \A o \in before : \E part \in Kinds : DOMAIN o = {part}
  BY <1>4, ConfiguredAreOptions, OptionKinds DEF TxMatchInv
<1>7. ASSUME NEW part \in Kinds
      PROVE  /\ \A o \in Configured(given') : part \in DOMAIN o => crit'[part] = o[part]
             /\ (\A o \in Configured(given') : part \notin DOMAIN o) => crit'[part] = Nil
  <2>1. /\ \A o \in before : part \in DOMAIN o => crit[part] = o[part]
        /\ (\A o \in before : part \notin DOMAIN o) => crit[part] = Nil
    BY <1>4 DEF TxMatchInv, CriteriaInv
  <2>2. CASE part = kind
    <3>1. \A o \in before : part \in DOMAIN o => DOMAIN o = DOMAIN opt
      BY <1>2, <1>6, <2>2
    <3> QED
      BY <1>2, <1>3, <1>5, <2>2, <3>1
  <2>3. CASE part # kind
    <3>1. part \notin DOMAIN opt
      BY <1>2, <2>3
    <3>2. \A o \in before : part \in DOMAIN o => DOMAIN o # DOMAIN opt
      BY <3>1
    <3>3. crit'[part] = crit[part]
      BY <1>3, <2>3
    <3> QED
      BY <1>5, <2>1, <3>1, <3>2, <3>3
  <2> QED
    BY <2>2, <2>3
<1>8. CriteriaInv'
  BY <1>1, <1>3, <1>7 DEF CriteriaInv
<1>9. ArgsInv'
  BY <1>1 DEF TxMatchInv, ArgsInv
<1> QED
  BY <1>8, <1>9 DEF TxMatchInv

(* The constructors without options mean what they say.                    *)
LEMMA LeafRight ==
    ASSUME NEW l \in Leaves
    PROVE  /\ Made(LeafPred(l), LeafMeans(l)) \in Predicates
           /\ Right(Made(LeafPred(l), LeafMeans(l)))
<1>1. \A tx \in Txs : tx \in Real <=> Parsed(tx)
  BY DEF Real
<1>2. LeafMeans(l) \in SUBSET Txs
  BY DEF LeafMeans
<1>3. CASE DOMAIN l = {"Nil"}
  <2>1. LeafPred(l) = Nil /\ LeafMeans(l) = {}
    BY <1>3 DEF LeafPred, LeafMeans
  <2> QED
    BY <2>1 DEF Made, Predicates, Right, Accepted
<1>4. CASE DOMAIN l # {"Nil"}
  <2>1. LeafPred(l) \in [Txs -> BOOLEAN] /\ \A tx \in Txs : LeafPred(l)[tx] <=> tx \in LeafMeans(l)
    <3>1. CASE DOMAIN l = {"Always"}
      <4>1. LeafPred(l) = Always(l.Always) /\ l.Always \in BOOLEAN
        BY <3>1, LeavesAssumption DEF LeafPred
      <4>2. \A tx \in Txs : tx \in LeafMeans(l) <=> l.Always
        BY <3>1 DEF LeafMeans
      <4> QED
        BY <1>1, <4>1, <4>2 DEF Always
    <3>2. CASE DOMAIN l = {"HasOutputCount"}
      <4>1. LeafPred(l) = HasOutputCount(l.HasOutputCount)
        BY <3>2 DEF LeafPred
      <4>2. \A tx \in Txs : tx \in LeafMeans(l) <=> tx \in Real /\ Len(tx.outs) = l.HasOutputCount
        BY <3>2 DEF LeafMeans
      <4> QED
        BY <1>1, <4>1, <4>2 DEF HasOutputCount
    <3>3. CASE DOMAIN l = {"HasInputCount"}
      <4>1. LeafPred(l) = HasInputCount(l.HasInputCount)
        BY <3>3 DEF LeafPred
      <4>2. \A tx \in Txs : tx \in LeafMeans(l) <=> tx \in Real /\ Len(tx.ins) = l.HasInputCount
        BY <3>3 DEF LeafMeans
      <4> QED
        BY <1>1, <4>1, <4>2 DEF HasInputCount
    <3>4. CASE DOMAIN l = {"HasLockTime"}
      <4>1. LeafPred(l) = HasLockTime(l.HasLockTime)
        BY <3>4 DEF LeafPred
      <4>2. \A tx \in Txs : tx \in LeafMeans(l) <=> tx \in Real /\ tx.lock = l.HasLockTime
        BY <3>4 DEF LeafMeans
      <4> QED
        BY <1>1, <4>1, <4>2 DEF HasLockTime
    <3>5. CASE DOMAIN l = {"HasUnknownGlobalField"}
      <4>1. LeafPred(l) = HasUnknownGlobalField(l.HasUnknownGlobalField)
        BY <3>5 DEF LeafPred
      <4>2. \A tx \in Txs : tx \in LeafMeans(l) <=>
             tx # Nil /\ l.HasUnknownGlobalField \in tx.unknowns
        BY <3>5 DEF LeafMeans
      <4> QED
        BY <1>1, <4>1, <4>2 DEF HasUnknownGlobalField
    <3> QED
      BY <1>4, <3>1, <3>2, <3>3, <3>4, <3>5, LeavesAssumption
  <2>2. PICK p \in [Txs -> BOOLEAN], means \in SUBSET Txs : p = LeafPred(l) /\ means = LeafMeans(l)
    BY <1>2, <2>1
  <2>3. \A tx \in Txs : p[tx] <=> tx \in means
    BY <2>1, <2>2
  <2> QED
    BY <2>2, <2>3, MadeRight
<1> QED
  BY <1>3, <1>4

LEMMA TxMatchStep == TxMatchInv /\ [TxMatchNext]_txmatchVars => TxMatchInv'
<1> SUFFICES ASSUME TxMatchInv, [TxMatchNext]_txmatchVars
             PROVE  TxMatchInv'
  OBVIOUS
<1>1. CriteriaInv /\ ArgsInv /\ \A tx \in Txs : tx \in Real <=> Parsed(tx)
  BY DEF TxMatchInv, Real
<1>3. CASE MakeHasOutput
  <2>1. PICK p, means : p = HasOutput(crit) /\ means = MeansOutput(given)
    OBVIOUS
  <2>2. p \in [Txs -> BOOLEAN] /\ means \in SUBSET Txs
    BY <2>1 DEF HasOutput, MeansOutput, Real
  <2>3. ASSUME NEW tx \in Txs PROVE p[tx] <=> tx \in means
    <3>1. p[tx] <=> tx \in Real
             /\ Search([i \in DOMAIN tx.outs |-> OutputEntry(tx.outs[i])], crit)
      BY <1>1, <2>1 DEF HasOutput
    <3>2. tx \in Real => (p[tx] <=> tx \in means)
      BY <1>1, <2>1, <3>1, OutputMeans
    <3>3. tx \in means => tx \in Real
      BY <2>1 DEF MeansOutput
    <3> QED
      BY <3>1, <3>2, <3>3
  <2>4. Made(p, means) \in Predicates /\ Right(Made(p, means))
    BY <2>2, <2>3, MadeRight
  <2>5. Push(Made(p, means))
    BY <1>3, <2>1 DEF MakeHasOutput
  <2> QED
    BY <2>4, <2>5, PushKeeps
<1>4. CASE MakeHasInput
  <2>1. PICK p, means : p = HasInput(crit) /\ means = MeansInput(given)
    OBVIOUS
  <2>2. p \in [Txs -> BOOLEAN] /\ means \in SUBSET Txs
    BY <2>1 DEF HasInput, MeansInput, Real
  <2>3. ASSUME NEW tx \in Txs PROVE p[tx] <=> tx \in means
    <3>1. p[tx] <=> tx \in Real /\ Search(tx.ins, crit)
      BY <1>1, <2>1 DEF HasInput
    <3>2. tx \in Real => (p[tx] <=> tx \in means)
      BY <1>1, <2>1, <3>1, InputMeans
    <3>3. tx \in means => tx \in Real
      BY <2>1 DEF MeansInput
    <3> QED
      BY <3>1, <3>2, <3>3
  <2>4. Made(p, means) \in Predicates /\ Right(Made(p, means))
    BY <2>2, <2>3, MadeRight
  <2>5. Push(Made(p, means))
    BY <1>4, <2>1 DEF MakeHasInput
  <2> QED
    BY <2>4, <2>5, PushKeeps
<1>5. ASSUME NEW l \in Leaves, MakeLeaf(l) PROVE TxMatchInv'
  BY <1>5, LeafRight, PushKeeps DEF MakeLeaf
<1>6. ASSUME NEW i \in DOMAIN args, NEW tx \in Txs
      PROVE  (Preds[i] # Nil /\ Preds[i][tx]) <=> tx \in args[i].means
  BY <1>1 DEF ArgsInv, Right, Accepted, Preds
<1>7. DOMAIN Preds = DOMAIN args
  BY DEF Preds
<1>8. CASE MakeAll
  <2>1. PICK p, means : p = All(Preds)
           /\ means = {tx \in Txs : \A i \in DOMAIN args : tx \in args[i].means}
    OBVIOUS
  <2>2. p \in [Txs -> BOOLEAN] /\ means \in SUBSET Txs
    BY <2>1 DEF All
  <2>3. \A tx \in Txs : p[tx] <=> tx \in means
    BY <1>6, <1>7, <2>1 DEF All
  <2>4. Combine(p, means)
    BY <1>8, <2>1 DEF MakeAll
  <2> QED
    BY <2>2, <2>3, <2>4, CombineKeeps
<1>9. CASE MakeAny
  <2>1. PICK p, means : p = Any(Preds)
           /\ means = {tx \in Txs : \E i \in DOMAIN args : tx \in args[i].means}
    OBVIOUS
  <2>2. p \in [Txs -> BOOLEAN] /\ means \in SUBSET Txs
    BY <2>1 DEF Any
  <2>3. \A tx \in Txs : p[tx] <=> tx \in means
    BY <1>6, <1>7, <2>1 DEF Any
  <2>4. Combine(p, means)
    BY <1>9, <2>1 DEF MakeAny
  <2> QED
    BY <2>2, <2>3, <2>4, CombineKeeps
<1>10. CASE MakeNot
  <2>1. PICK p, means : p = Not(args[1].pred)
           /\ means = IF args[1].pred = Nil THEN {} ELSE Txs \ args[1].means
    OBVIOUS
  <2>2. p \in [Txs -> BOOLEAN] /\ means \in SUBSET Txs
    BY <2>1 DEF Not
  <2>3. 1 \in DOMAIN args
    BY <1>1, <1>10 DEF MakeNot, ArgsInv
  <2>4. Right(args[1])
    BY <1>1, <2>3 DEF ArgsInv
  <2>5. \A tx \in Txs : p[tx] <=> tx \in means
    BY <2>1, <2>4 DEF Right, Accepted, Not
  <2>6. Combine(p, means)
    BY <1>10, <2>1 DEF MakeNot
  <2> QED
    BY <2>2, <2>5, <2>6, CombineKeeps
<1>11. CASE UNCHANGED txmatchVars
  BY <1>11 DEF txmatchVars, TxMatchInv, CriteriaInv, ArgsInv, Configured
<1> QED
  BY <1>3, <1>4, <1>5, <1>8, <1>9, <1>10, <1>11, OptionKeeps DEF TxMatchNext

LEMMA TxMatchStart == TxMatchInit => TxMatchInv
<1> SUFFICES ASSUME TxMatchInit PROVE TxMatchInv
  OBVIOUS
<1>1. crit = NoCriteria /\ given = <<>> /\ args = <<>>
  BY DEF TxMatchInit
<1>2. DOMAIN crit = Kinds /\ \A part \in Kinds : crit[part] = Nil
  BY <1>1, NoOptions
<1>3. args \in Seq(Predicates) /\ DOMAIN args = {}
  BY <1>1
<1>4. Configured(given) = {} /\ given \in Seq(OutputOpts)
  BY <1>1, NothingConfigured
<1> QED
  BY <1>2, <1>3, <1>4 DEF TxMatchInv, CriteriaInv, ArgsInv

(* A predicate of txmatch accepts exactly the transactions that the        *)
(* comments of its constructors say (HasOutput, HasInput, All, Any, Not    *)
(* and the others in txmatch.go), nil ones and ones without UnsignedTx     *)
(* included, however deep it was composed, whichever options overwrite one *)
(* another and whatever the transactions hold.                             *)
THEOREM PredicatesAreRight == TxMatchSpec => []PredicatesMeanWhatTheySay
<1>1. TxMatchInv => PredicatesMeanWhatTheySay
  BY DEF TxMatchInv, ArgsInv, Right, PredicatesMeanWhatTheySay
<1> QED
  BY <1>1, TxMatchStart, TxMatchStep, PTL DEF TxMatchSpec

-----------------------------------------------------------------------------
(* PluginBuilder: what a list of calls registers, call by call.            *)

(* A set of naturals that is not empty has a least member.                 *)
LEMMA LeastNat ==
    ASSUME NEW S \in SUBSET Nat, S # {}
    PROVE  \E n \in S : \A k \in S : ~(k < n)
<1>1. IsWellFoundedOn(OpToRel(<, Nat), Nat)
  BY NatLessThanWellFounded
<1>2. PICK n \in S : \A k \in S : <<k, n>> \notin OpToRel(<, Nat)
  BY <1>1, WFMin
<1> QED
  BY <1>2 DEF OpToRel

UpTo(kind, cs, f, k) == IF k = 0 THEN <<>> ELSE f[k - 1] \o Adds(kind, cs[k])
IsUpTo(kind, cs, n, f) == f = [k \in 0..n |-> UpTo(kind, cs, f, k)]

(* Registered reads the last value of a function that satisfies its        *)
(* equation.                                                               *)
LEMMA RegisteredIsChoice ==
    ASSUME NEW kind, NEW cs
    PROVE  Registered(kind, cs) = (CHOOSE f : IsUpTo(kind, cs, Len(cs), f))[Len(cs)]
BY DEF Registered, IsUpTo, UpTo

(* Such a function exists for every list of calls.                         *)
LEMMA UpToExists ==
    ASSUME NEW kind, NEW cs, NEW n \in Nat
    PROVE  \E f : IsUpTo(kind, cs, n, f)
<1> DEFINE Bad == {k \in Nat : ~\E f : IsUpTo(kind, cs, k, f)}
<1>1. 0 \notin Bad
  <2>1. PICK f : f = [k \in 0..0 |-> <<>>]
    OBVIOUS
  <2>2. \A k \in 0..0 : UpTo(kind, cs, f, k) = <<>>
    BY DEF UpTo
  <2>3. IsUpTo(kind, cs, 0, f)
    BY <2>1, <2>2 DEF IsUpTo
  <2> QED
    BY <2>3
<1>2. ASSUME NEW k \in Nat, k \notin Bad PROVE k + 1 \notin Bad
  <2>1. PICK f : IsUpTo(kind, cs, k, f)
    BY <1>2
  <2>2. PICK g : g = [j \in 0..(k + 1) |-> UpTo(kind, cs, f, j)]
    OBVIOUS
  <2>3. \A j \in 0..k : g[j] = f[j]
    <3>1. \A j \in 0..k : f[j] = UpTo(kind, cs, f, j)
      BY <2>1 DEF IsUpTo
    <3>2. \A j \in 0..k : j \in 0..(k + 1)
      OBVIOUS
    <3> QED
      BY <2>2, <3>1, <3>2
  <2>4. \A j \in 0..(k + 1) : UpTo(kind, cs, g, j) = UpTo(kind, cs, f, j)
    <3>1. \A j \in 0..(k + 1) : j # 0 => j - 1 \in 0..k
      OBVIOUS
    <3> QED
      BY <2>3, <3>1 DEF UpTo
  <2>5. IsUpTo(kind, cs, k + 1, g)
    BY <2>2, <2>4 DEF IsUpTo
  <2> QED
    BY <2>5
<1>3. Bad = {}
  <2> SUFFICES ASSUME Bad # {} PROVE FALSE
    OBVIOUS
  <2>1. Bad \in SUBSET Nat
    OBVIOUS
  <2> HIDE DEF Bad
  <2>2. PICK k \in Bad : \A j \in Bad : ~(j < k)
    BY <2>1, LeastNat
  <2>3. k \in Nat /\ k # 0
    BY <1>1, <2>1
  <2>4. k - 1 \in Nat /\ k - 1 \notin Bad
    BY <2>2, <2>3
  <2> QED
    BY <1>2, <2>3, <2>4
<1> QED
  BY <1>3

SameUpTo(n, cs, ds) == \A j \in 1..n : cs[j] = ds[j]

(* Two such functions agree on the calls their lists share.                *)
LEMMA UpToAgree ==
    ASSUME NEW kind, NEW cs, NEW ds, NEW n \in Nat, NEW k \in Nat, n <= k,
           NEW f, IsUpTo(kind, cs, n, f), NEW g, IsUpTo(kind, ds, k, g),
           SameUpTo(n, cs, ds)
    PROVE  \A j \in 0..n : f[j] = g[j]
<1> DEFINE Bad == {j \in 0..n : f[j] # g[j]}
<1>1. \A j \in 0..n : f[j] = UpTo(kind, cs, f, j) /\ g[j] = UpTo(kind, ds, g, j)
  <2>1. \A j \in 0..n : j \in 0..k
    OBVIOUS
  <2> QED
    BY <2>1 DEF IsUpTo
<1>2. 0 \notin Bad
  BY <1>1 DEF UpTo
<1>3. ASSUME NEW j \in 1..n, j - 1 \notin Bad PROVE j \notin Bad
  <2>1. j - 1 \in 0..n /\ j \in 0..n /\ j # 0
    OBVIOUS
  <2>2. f[j - 1] = g[j - 1] /\ cs[j] = ds[j]
    BY <1>3, <2>1 DEF SameUpTo
  <2> QED
    BY <1>1, <2>1, <2>2 DEF UpTo
<1>4. Bad = {}
  <2> SUFFICES ASSUME Bad # {} PROVE FALSE
    OBVIOUS
  <2>1. Bad \in SUBSET Nat /\ Bad \in SUBSET (0..n)
    OBVIOUS
  <2> HIDE DEF Bad
  <2>2. PICK j \in Bad : \A i \in Bad : ~(i < j)
    BY <2>1, LeastNat
  <2>3. j \in 1..n /\ j - 1 \in Nat /\ j - 1 \notin Bad
    BY <1>2, <2>1, <2>2
  <2> QED
    BY <1>3, <2>2, <2>3
<1> QED
  BY <1>4

(* One call more adds what the call adds.                                  *)
LEMMA RegisteredAppend ==
    ASSUME NEW kind, NEW S, NEW cs \in Seq(S), NEW c \in S
    PROVE  Registered(kind, Append(cs, c)) = Registered(kind, cs) \o Adds(kind, c)
<1>1. PICK n \in Nat : n = Len(cs)
  OBVIOUS
<1>2. PICK ds : ds = Append(cs, c)
  OBVIOUS
<1>3. PICK k \in Nat : k = n + 1 /\ k # 0 /\ k - 1 = n /\ n <= k
  OBVIOUS
<1>4. Len(ds) = k /\ ds[k] = c /\ \A j \in 1..n : cs[j] = ds[j]
  BY <1>1, <1>2, <1>3
<1>5. PICK f : IsUpTo(kind, cs, n, f) /\ Registered(kind, cs) = f[n]
  BY <1>1, UpToExists, RegisteredIsChoice
<1>6. PICK g : IsUpTo(kind, ds, k, g) /\ Registered(kind, ds) = g[k]
  BY <1>4, UpToExists, RegisteredIsChoice
<1>7. f[n] = g[n]
  <2>1. \A j \in 0..n : f[j] = g[j]
    <3>1. n <= k /\ IsUpTo(kind, cs, n, f) /\ IsUpTo(kind, ds, k, g)
      BY <1>3, <1>5, <1>6
    <3>2. SameUpTo(n, cs, ds)
      BY <1>4 DEF SameUpTo
    <3> QED
      BY <3>1, <3>2, UpToAgree
  <2> QED
    BY <2>1
<1>8. g[k] = UpTo(kind, ds, g, k)
  <2>1. k \in 0..k
    OBVIOUS
  <2> QED
    BY <1>6, <2>1 DEF IsUpTo
<1>9. UpTo(kind, ds, g, k) = g[n] \o Adds(kind, c)
  BY <1>3, <1>4 DEF UpTo
<1> QED
  BY <1>2, <1>5, <1>6, <1>7, <1>8, <1>9

LEMMA RegisteredEmpty ==
    ASSUME NEW kind PROVE Registered(kind, <<>>) = <<>>
<1>1. PICK f : IsUpTo(kind, <<>>, 0, f) /\ Registered(kind, <<>>) = f[0]
  <2>1. Len(<<>>) = 0
    OBVIOUS
  <2> QED
    BY <2>1, UpToExists, RegisteredIsChoice
<1> QED
  BY <1>1 DEF IsUpTo, UpTo

(* The last call of a method.                                              *)
LEMMA LastCalls ==
    ASSUME NEW methods, NEW S, NEW cs \in Seq(S), NEW c \in S
    PROVE  /\ c[1] \in methods => IsLast(methods, Append(cs, c), Len(cs) + 1)
           /\ \A k \in DOMAIN cs :
                 c[1] \notin methods /\ IsLast(methods, cs, k)
                    => IsLast(methods, Append(cs, c), k)
           /\ \A k \in DOMAIN cs : IsLast(methods, cs, k) => LastOf(methods, cs) = cs[k]
<1>1. PICK n \in Nat : n = Len(cs) /\ DOMAIN cs = 1..n
  OBVIOUS
<1>2. PICK ds : ds = Append(cs, c)
  OBVIOUS
<1>3. DOMAIN ds = 1..(n + 1) /\ ds[n + 1] = c /\ \A j \in 1..n : cs[j] = ds[j]
  BY <1>1, <1>2
<1>4. \A j \in 1..(n + 1) : j \in 1..n \/ j = n + 1
  OBVIOUS
<1>5. c[1] \in methods => IsLast(methods, ds, n + 1)
  BY <1>3 DEF IsLast
<1>6. ASSUME NEW k \in 1..n, c[1] \notin methods, IsLast(methods, cs, k)
      PROVE  IsLast(methods, ds, k)
  BY <1>1, <1>3, <1>4, <1>6 DEF IsLast
<1>7. ASSUME NEW k \in 1..n, IsLast(methods, cs, k) PROVE LastOf(methods, cs) = cs[k]
  <2>1. PICK j \in 1..n : LastOf(methods, cs) = cs[j] /\ IsLast(methods, cs, j)
    BY <1>1, <1>7 DEF LastOf
  <2>2. j <= k /\ k <= j
    BY <1>1, <1>7, <2>1 DEF IsLast
  <2> QED
    BY <2>1, <2>2
<1> QED
  BY <1>1, <1>2, <1>5, <1>6, <1>7

-----------------------------------------------------------------------------
(* The invariant.  The Builder holds what its calls registered, a plugin   *)
(* what the calls before its Build did.                                    *)

FilterStages == Filters \union {HasArkExtension}
DecodeStages == {Parsing(d) : d \in Decoders} \union {Plain(d) : d \in Decoders}
AllStages == FilterStages \union DecodeStages \union Validators \union Solvers

Builders ==
    [filters : Seq(FilterStages), decode : DecodeStages \union {Unset},
     validators : Seq(Validators), solve : Solvers \union {Unset}]

AllCalls ==
    {"ForExtension", "Filter", "Decode", "Validate", "Solve", "Build"}
        \X (Filters \union Decoders \union Validators \union Solvers \union {Unset})

AsCalled(st, cs) ==
    /\ st.filters = Registered("Filter", cs)
    /\ st.validators = Registered("Validate", cs)
    /\ st.decode # Unset => \E k \in DOMAIN cs :
          IsLast({"ForExtension", "Decode"}, cs, k) /\ st.decode = Decoding(cs[k])
    /\ st.solve # Unset => \E k \in DOMAIN cs :
          IsLast({"Solve"}, cs, k) /\ st.solve = cs[k][2]

BuilderOK ==
    /\ b \in Builders
    /\ calls \in Seq(AllCalls)
    /\ AsCalled(b, calls)

PluginsOK ==
    /\ plugins \in Seq([stages : Builders, since : Nat])
    /\ \A i \in DOMAIN plugins :
          /\ plugins[i].since <= Len(calls)
          /\ AsCalled(plugins[i].stages, Given(i))
          /\ plugins[i].stages.decode # Unset
          /\ plugins[i].stages.solve \in Solvers \ {Unset}

MakeBuilder(fs, d, vs, s) == [filters |-> fs, decode |-> d, validators |-> vs, solve |-> s]

LEMMA BuilderFields ==
    ASSUME NEW st \in Builders
    PROVE  /\ st.filters \in Seq(FilterStages) /\ st.decode \in DecodeStages \union {Unset}
           /\ st.validators \in Seq(Validators) /\ st.solve \in Solvers \union {Unset}
           /\ st = MakeBuilder(st.filters, st.decode, st.validators, st.solve)
BY DEF Builders, MakeBuilder

LEMMA MadeFields ==
    ASSUME NEW fs, NEW d, NEW vs, NEW s
    PROVE  /\ MakeBuilder(fs, d, vs, s).filters = fs
           /\ MakeBuilder(fs, d, vs, s).decode = d
           /\ MakeBuilder(fs, d, vs, s).validators = vs
           /\ MakeBuilder(fs, d, vs, s).solve = s
BY DEF MakeBuilder

(* What a call changes of the Builder, field by field.                     *)
LEMMA BuilderChanged ==
    ASSUME NEW st \in Builders, NEW x, NEW y
    PROVE  /\ [st EXCEPT !.filters = x] = MakeBuilder(x, st.decode, st.validators, st.solve)
           /\ [st EXCEPT !.decode = x] = MakeBuilder(st.filters, x, st.validators, st.solve)
           /\ [st EXCEPT !.validators = x] = MakeBuilder(st.filters, st.decode, x, st.solve)
           /\ [st EXCEPT !.solve = x] = MakeBuilder(st.filters, st.decode, st.validators, x)
           /\ [st EXCEPT !.filters = x, !.decode = y]
                 = MakeBuilder(x, y, st.validators, st.solve)
<1>1. PICK fs, d, vs, s : /\ st = MakeBuilder(fs, d, vs, s)
                          /\ st.filters = fs /\ st.decode = d
                          /\ st.validators = vs /\ st.solve = s
  BY BuilderFields
<1>2. [st EXCEPT !.filters = x] = MakeBuilder(x, d, vs, s)
  BY <1>1 DEF MakeBuilder
<1>3. [st EXCEPT !.decode = x] = MakeBuilder(fs, x, vs, s)
  BY <1>1 DEF MakeBuilder
<1>4. [st EXCEPT !.validators = x] = MakeBuilder(fs, d, x, s)
  BY <1>1 DEF MakeBuilder
<1>5. [st EXCEPT !.solve = x] = MakeBuilder(fs, d, vs, x)
  BY <1>1 DEF MakeBuilder
<1>6. [MakeBuilder(x, d, vs, s) EXCEPT !.decode = y] = MakeBuilder(x, y, vs, s)
  BY DEF MakeBuilder
<1>7. [st EXCEPT !.filters = x, !.decode = y] = [[st EXCEPT !.filters = x] EXCEPT !.decode = y]
  OBVIOUS
<1> QED
  BY <1>1, <1>2, <1>3, <1>4, <1>5, <1>6, <1>7

(* A stage that the new call is not about stays as it was called for.      *)
Called(st, c, ds) ==
    /\ Registered("Filter", ds) = st.filters \o Adds("Filter", c)
    /\ Registered("Validate", ds) = st.validators \o Adds("Validate", c)
    /\ c[1] \notin {"ForExtension", "Decode"} /\ st.decode # Unset =>
          \E k \in DOMAIN ds : IsLast({"ForExtension", "Decode"}, ds, k)
                               /\ st.decode = Decoding(ds[k])
    /\ c[1] # "Solve" /\ st.solve # Unset =>
          \E k \in DOMAIN ds : IsLast({"Solve"}, ds, k) /\ st.solve = ds[k][2]
    /\ \E n \in DOMAIN ds : ds[n] = c /\ \A methods : c[1] \in methods => IsLast(methods, ds, n)

(* A call keeps the Builder in step with the history.                      *)
LEMMA CallKeeps ==
    ASSUME NEW cs \in Seq(AllCalls), NEW c \in AllCalls,
           NEW st \in Builders, AsCalled(st, cs)
    PROVE  Called(st, c, Append(cs, c))
<1>0. PICK ds : ds = Append(cs, c)
  OBVIOUS
<1>1. \A k \in DOMAIN cs : k \in DOMAIN ds /\ ds[k] = cs[k]
  BY <1>0 DEF AllCalls
<1>2. Len(ds) = Len(cs) + 1 /\ Len(cs) + 1 \in DOMAIN ds /\ ds[Len(cs) + 1] = c
  BY <1>0
<1>3. Registered("Filter", ds) = st.filters \o Adds("Filter", c)
      /\ Registered("Validate", ds) = st.validators \o Adds("Validate", c)
  BY <1>0, RegisteredAppend DEF AsCalled
<1>4. ASSUME c[1] \notin {"ForExtension", "Decode"}, st.decode # Unset
      PROVE  \E k \in DOMAIN ds : IsLast({"ForExtension", "Decode"}, ds, k)
                                  /\ st.decode = Decoding(ds[k])
  <2>1. PICK k \in DOMAIN cs : IsLast({"ForExtension", "Decode"}, cs, k)
                               /\ st.decode = Decoding(cs[k])
    BY <1>4 DEF AsCalled
  <2>2. IsLast({"ForExtension", "Decode"}, ds, k)
    BY <1>4, <2>1, <1>0, LastCalls
  <2> QED
    BY <1>1, <2>1, <2>2
<1>5. ASSUME c[1] # "Solve", st.solve # Unset
      PROVE  \E k \in DOMAIN ds : IsLast({"Solve"}, ds, k) /\ st.solve = ds[k][2]
  <2>1. PICK k \in DOMAIN cs : IsLast({"Solve"}, cs, k) /\ st.solve = cs[k][2]
    BY <1>5 DEF AsCalled
  <2>2. IsLast({"Solve"}, ds, k)
    BY <1>5, <2>1, <1>0, LastCalls
  <2> QED
    BY <1>1, <2>1, <2>2
<1>6. \A methods : c[1] \in methods => IsLast(methods, ds, Len(cs) + 1)
  BY <1>0, LastCalls
<1> QED
  BY <1>0, <1>2, <1>3, <1>4, <1>5, <1>6 DEF Called

LEMMA SeqEnds ==
    ASSUME NEW S, NEW s \in Seq(S), NEW x
    PROVE  /\ s \o <<>> = s
           /\ x \in S => Append(s, x) = s \o <<x>> /\ s \o <<x>> \in Seq(S)
OBVIOUS

(* The plugins do not notice a call.                                       *)
LEMMA GivenKept ==
    ASSUME NEW cs \in Seq(AllCalls), NEW c \in AllCalls, NEW n \in Nat, n <= Len(cs)
    PROVE  /\ SubSeq(Append(cs, c), 1, n) = SubSeq(cs, 1, n)
           /\ SubSeq(cs, 1, Len(cs)) = cs
           /\ SubSeq(cs, 1, n) \in Seq(AllCalls)
<1> HIDE DEF AllCalls
<1> QED
  OBVIOUS

(* The plugins built so far do not notice a call.                          *)
LEMMA PluginsKept ==
    ASSUME BuilderOK, PluginsOK, UNCHANGED plugins,
           NEW c \in AllCalls, calls' = Append(calls, c)
    PROVE  PluginsOK'
<1>1. calls \in Seq(AllCalls) /\ Len(calls) \in Nat /\ Len(calls') = Len(calls) + 1
  BY DEF BuilderOK
<1>2. ASSUME NEW i \in DOMAIN plugins
      PROVE  /\ plugins[i].since <= Len(calls')
             /\ AsCalled(plugins'[i].stages, Given(i)')
  <2>1. PICK R : R = [stages : Builders, since : Nat]
    OBVIOUS
  <2>2. plugins[i] \in R
    <3>1. plugins \in Seq(R)
      BY <2>1 DEF PluginsOK
    <3> QED
      BY <3>1
  <2>3. PICK n \in Nat : n = plugins[i].since /\ n <= Len(calls)
    BY <2>1, <2>2 DEF PluginsOK
  <2>4. n <= Len(calls')
    BY <1>1, <2>3
  <2>5. Given(i)' = Given(i)
    BY <1>1, <2>3, GivenKept DEF Given
  <2> QED
    BY <2>3, <2>4, <2>5 DEF PluginsOK
<1> QED
  BY <1>2 DEF PluginsOK

(* Build adds a plugin with what was registered before it.                 *)
LEMMA PluginAdded ==
    ASSUME BuilderOK, PluginsOK, b.decode # Unset, b.solve # Unset,
           plugins' = Append(plugins, [stages |-> b, since |-> Len(calls)]),
           NEW c \in AllCalls, calls' = Append(calls, c)
    PROVE  /\ PluginsOK'
           /\ \A i \in DOMAIN plugins : i \in DOMAIN plugins' /\ plugins'[i] = plugins[i]
<1>1. calls \in Seq(AllCalls) /\ Len(calls) \in Nat /\ Len(calls') = Len(calls) + 1
      /\ b \in Builders /\ AsCalled(b, calls)
  BY DEF BuilderOK
<1>2. PICK R : R = [stages : Builders, since : Nat]
  OBVIOUS
<1>3. PICK new : new = [stages |-> b, since |-> Len(calls)]
  OBVIOUS
<1>4. new \in R /\ plugins \in Seq(R) /\ new.stages = b /\ new.since = Len(calls)
  BY <1>1, <1>2, <1>3 DEF PluginsOK
<1>5. /\ plugins' \in Seq(R)
      /\ \A i \in DOMAIN plugins : i \in DOMAIN plugins' /\ plugins'[i] = plugins[i]
      /\ \A i \in DOMAIN plugins' : i \in DOMAIN plugins \/ plugins'[i] = new
  BY <1>3, <1>4
<1>6. ASSUME NEW i \in DOMAIN plugins'
      PROVE  /\ plugins'[i].since <= Len(calls')
             /\ AsCalled(plugins'[i].stages, SubSeq(calls', 1, plugins'[i].since))
             /\ plugins'[i].stages.decode # Unset
             /\ plugins'[i].stages.solve \in Solvers \ {Unset}
  <2>1. CASE i \in DOMAIN plugins
    <3>1. plugins'[i] = plugins[i] /\ plugins[i] \in R
      BY <1>4, <1>5, <2>1
    <3>2. PICK n \in Nat : n = plugins[i].since /\ n <= Len(calls)
      BY <1>2, <2>1, <3>1 DEF PluginsOK
    <3>3. n <= Len(calls')
      BY <1>1, <3>2
    <3>4. SubSeq(calls', 1, n) = Given(i)
      BY <1>1, <3>2, GivenKept DEF Given
    <3> QED
      BY <2>1, <3>1, <3>2, <3>3, <3>4 DEF PluginsOK
  <2>2. CASE plugins'[i] = new
    <3>1. SubSeq(calls', 1, Len(calls)) = calls /\ Len(calls) <= Len(calls')
      <4>1. PICK n \in Nat : n = Len(calls) /\ n <= Len(calls) /\ n <= n + 1
        BY <1>1
      <4>2. SubSeq(calls', 1, n) = SubSeq(calls, 1, n)
        BY <1>1, <4>1, GivenKept
      <4>3. SubSeq(calls, 1, n) = calls
        BY <1>1, <4>1, GivenKept
      <4> QED
        BY <1>1, <4>1, <4>2, <4>3
    <3>2. b.solve \in Solvers \ {Unset}
      BY <1>1, BuilderFields
    <3> QED
      BY <1>1, <1>4, <2>2, <3>1, <3>2
  <2> QED
    BY <1>5, <2>1, <2>2
<1> QED
  BY <1>2, <1>5, <1>6 DEF PluginsOK, Given

(* What each method adds to the two lists.                                 *)
LEMMA AddsOf ==
    ASSUME NEW arg
    PROVE  /\ Adds("Filter", <<"Filter", arg>>) = IF arg = Unset THEN <<>> ELSE <<arg>>
           /\ Adds("Filter", <<"ForExtension", arg>>) =
                 IF arg = Unset THEN <<>> ELSE <<HasArkExtension>>
           /\ Adds("Validate", <<"Validate", arg>>) = IF arg = Unset THEN <<>> ELSE <<arg>>
           /\ \A name \in {"Decode", "Validate", "Solve", "Build"} :
                 Adds("Filter", <<name, arg>>) = <<>>
           /\ \A name \in {"ForExtension", "Filter", "Decode", "Solve", "Build"} :
                 Adds("Validate", <<name, arg>>) = <<>>
BY DEF Adds

(* The decoder and the terminal action after a call.                       *)
DecodeAfter(d2, d, c) ==
    \/ d2 = Unset
    \/ d2 = d /\ c[1] \notin {"ForExtension", "Decode"}
    \/ d2 = Decoding(c) /\ c[1] \in {"ForExtension", "Decode"}
SolveAfter(s2, s, c) ==
    \/ s2 = Unset
    \/ s2 = s /\ c[1] # "Solve"
    \/ s2 = c[2] /\ c[1] = "Solve"

(* Whatever the author calls, plugins that were built stay as they are.    *)
LEMMA AuthorKeeps ==
    ASSUME BuilderOK, PluginsOK, AuthorStep
    PROVE  /\ BuilderOK' /\ PluginsOK' /\ UNCHANGED <<m, matches>>
           /\ panicked' \in {panicked, TRUE}
           /\ \A i \in DOMAIN plugins : i \in DOMAIN plugins' /\ plugins'[i] = plugins[i]
<1> DEFINE Goal ==
       /\ BuilderOK' /\ PluginsOK' /\ UNCHANGED <<m, matches>>
       /\ panicked' \in {panicked, TRUE}
       /\ \A i \in DOMAIN plugins : i \in DOMAIN plugins' /\ plugins'[i] = plugins[i]
<1>1. b \in Builders /\ calls \in Seq(AllCalls) /\ AsCalled(b, calls)
  BY DEF BuilderOK
<1>2. PICK fs \in Seq(FilterStages), d \in DecodeStages \union {Unset},
           vs \in Seq(Validators), s \in Solvers \union {Unset} :
        fs = b.filters /\ d = b.decode /\ vs = b.validators /\ s = b.solve
        /\ b = MakeBuilder(fs, d, vs, s)
  BY <1>1, BuilderFields
<1>3. fs \o <<>> = fs /\ vs \o <<>> = vs
  BY SeqEnds
(* What is left to show of a call: the Builder's four fields.              *)
<1>4. ASSUME NEW c \in AllCalls, calls' = Append(calls, c), UNCHANGED <<m, matches, plugins>>,
             panicked' \in {panicked, TRUE},
             NEW fs2 \in Seq(FilterStages), NEW d2 \in DecodeStages \union {Unset},
             NEW vs2 \in Seq(Validators), NEW s2 \in Solvers \union {Unset},
             b' = MakeBuilder(fs2, d2, vs2, s2),
             fs2 = fs \o Adds("Filter", c), vs2 = vs \o Adds("Validate", c),
             DecodeAfter(d2, d, c), SolveAfter(s2, s, c)
      PROVE  Goal
  <2>1. calls' \in Seq(AllCalls)
    BY <1>1, <1>4 DEF AllCalls
  <2>2. b' \in Builders /\ b'.filters = fs2 /\ b'.decode = d2 /\ b'.validators = vs2 /\ b'.solve = s2
    <3>1. PICK st : st = b' /\ st = MakeBuilder(fs2, d2, vs2, s2)
      BY <1>4
    <3>2. st \in Builders /\ st.filters = fs2 /\ st.decode = d2 /\ st.validators = vs2 /\ st.solve = s2
      <4>1. MakeBuilder(fs2, d2, vs2, s2) \in Builders
        BY DEF Builders, MakeBuilder
      <4> QED
        BY <3>1, <4>1, MadeFields
    <3> QED
      BY <3>1, <3>2
  <2>3. PICK ds, cs : ds = calls' /\ cs = calls /\ ds = Append(cs, c)
    BY <1>4
  <2>4. Called(b, c, ds)
    BY <1>1, <2>3, CallKeeps
  <2>5. Registered("Filter", ds) = fs2 /\ Registered("Validate", ds) = vs2
    BY <1>2, <1>4, <2>4 DEF Called
  <2>6. d2 # Unset => \E k \in DOMAIN ds :
           IsLast({"ForExtension", "Decode"}, ds, k) /\ d2 = Decoding(ds[k])
    BY <1>2, <1>4, <2>4 DEF Called, DecodeAfter
  <2>7. s2 # Unset => \E k \in DOMAIN ds : IsLast({"Solve"}, ds, k) /\ s2 = ds[k][2]
    BY <1>2, <1>4, <2>4 DEF Called, SolveAfter
  <2>8. AsCalled(b', calls')
    BY <2>2, <2>3, <2>5, <2>6, <2>7 DEF AsCalled
  <2>9. BuilderOK'
    BY <2>1, <2>2, <2>8 DEF BuilderOK
  <2>10. PluginsOK'
    BY <1>4, PluginsKept
  <2> QED
    BY <1>4, <2>9, <2>10
<1>5. ASSUME NEW a \in Filters \union Decoders \union Validators \union Solvers \union {Unset},
             NEW name \in {"ForExtension", "Filter", "Decode", "Validate", "Solve", "Build"}
      PROVE  <<name, a>> \in AllCalls /\ <<name, a>>[1] = name /\ <<name, a>>[2] = a
  BY DEF AllCalls
<1> HIDE DEF Goal
<1>6. ASSUME NEW a \in Decoders \union {Unset}, ForExtension(a) PROVE Goal
  <2>1. PICK c : c = <<"ForExtension", a>>
    OBVIOUS
  <2>2. c \in AllCalls /\ c[1] = "ForExtension" /\ c[2] = a
    BY <1>5, <2>1
  <2>3. calls' = Append(calls, c) /\ UNCHANGED <<m, matches, plugins>> /\ calls = <<>>
    BY <1>6, <2>1 DEF ForExtension, Call
  <2>4. Adds("Validate", c) = <<>>
    BY <2>1, AddsOf
  <2>5. CASE a = Unset
    <3>1. b' = b /\ panicked' = TRUE
      BY <1>6, <2>5 DEF ForExtension
    <3>2. Adds("Filter", c) = <<>>
      BY <2>1, <2>5, AddsOf
    <3>3. d = Unset
      <4>1. DOMAIN calls = {}
        BY <2>3
      <4> QED
        BY <1>1, <1>2, <4>1 DEF AsCalled
    <3>4. DecodeAfter(d, d, c) /\ SolveAfter(s, s, c)
      BY <2>2, <3>3 DEF DecodeAfter, SolveAfter
    <3> QED
      BY <1>2, <1>3, <1>4, <2>2, <2>3, <2>4, <3>1, <3>2, <3>3, <3>4
  <2>6. CASE a # Unset
    <3>1. b' = [b EXCEPT !.filters = Append(b.filters, HasArkExtension), !.decode = Parsing(a)]
          /\ panicked' = panicked
      BY <1>6, <2>6 DEF ForExtension
    <3>2. PICK fs2, d2 : fs2 = Append(fs, HasArkExtension) /\ d2 = Parsing(a)
      OBVIOUS
    <3>3. b' = MakeBuilder(fs2, d2, vs, s)
      <4>1. b' = [b EXCEPT !.filters = fs2, !.decode = d2]
        BY <1>2, <3>1, <3>2
      <4>2. [b EXCEPT !.filters = fs2, !.decode = d2]
               = MakeBuilder(fs2, d2, b.validators, b.solve)
        BY <1>1, BuilderChanged
      <4> QED
        BY <1>2, <4>1, <4>2
    <3>4. Adds("Filter", c) = <<HasArkExtension>>
      BY <2>1, <2>6, AddsOf
    <3>5. fs2 = fs \o Adds("Filter", c) /\ fs2 \in Seq(FilterStages)
      <4>1. HasArkExtension \in FilterStages
        BY DEF FilterStages
      <4>2. Append(fs, HasArkExtension) = fs \o <<HasArkExtension>>
            /\ fs \o <<HasArkExtension>> \in Seq(FilterStages)
        BY <4>1, SeqEnds
      <4> QED
        BY <3>2, <3>4, <4>2
    <3>6. d2 = Decoding(c) /\ d2 \in DecodeStages
      BY <2>2, <2>6, <3>2 DEF Decoding, DecodeStages
    <3>7. DecodeAfter(d2, d, c) /\ SolveAfter(s, s, c)
      BY <2>2, <3>6 DEF DecodeAfter, SolveAfter
    <3> QED
      BY <1>3, <1>4, <2>2, <2>3, <2>4, <3>1, <3>3, <3>5, <3>6, <3>7
  <2> QED
    BY <2>5, <2>6
<1>7. ASSUME NEW a \in Decoders \union {Unset}, Decode(a) PROVE Goal
  <2>1. PICK c : c = <<"Decode", a>>
    OBVIOUS
  <2>2. c \in AllCalls /\ c[1] = "Decode" /\ c[2] = a
    BY <1>5, <2>1
  <2>3. calls' = Append(calls, c) /\ UNCHANGED <<m, matches, plugins, panicked>>
    BY <1>7, <2>1 DEF Decode, Call
  <2>4. Adds("Filter", c) = <<>> /\ Adds("Validate", c) = <<>>
    BY <2>1, AddsOf
  <2>5. PICK d2 : d2 = IF a = Unset THEN Unset ELSE Plain(a)
    OBVIOUS
  <2>6. b' = [b EXCEPT !.decode = d2]
    BY <1>7, <2>5 DEF Decode
  <2>7. b' = MakeBuilder(fs, d2, vs, s)
    BY <1>1, <1>2, <2>6, BuilderChanged
  <2>8. d2 \in DecodeStages \union {Unset} /\ (d2 = Unset \/ d2 = Decoding(c))
    BY <2>2, <2>5 DEF DecodeStages, Decoding
  <2>9. DecodeAfter(d2, d, c) /\ SolveAfter(s, s, c)
    BY <2>2, <2>8 DEF DecodeAfter, SolveAfter
  <2> QED
    BY <1>3, <1>4, <2>2, <2>3, <2>4, <2>7, <2>8, <2>9
<1>8. ASSUME NEW a \in Filters \union {Unset}, Filter(a) PROVE Goal
  <2>1. PICK c : c = <<"Filter", a>>
    OBVIOUS
  <2>2. c \in AllCalls /\ c[1] = "Filter" /\ c[2] = a
    BY <1>5, <2>1
  <2>3. calls' = Append(calls, c) /\ UNCHANGED <<m, matches, plugins, panicked>>
    BY <1>8, <2>1 DEF Filter, Call
  <2>4. Adds("Validate", c) = <<>> /\ Adds("Filter", c) = IF a = Unset THEN <<>> ELSE <<a>>
    BY <2>1, AddsOf
  <2>5. PICK fs2 : fs2 = IF a = Unset THEN b.filters ELSE Append(b.filters, a)
    OBVIOUS
  <2>6. b' = [b EXCEPT !.filters = fs2]
    BY <1>8, <2>5 DEF Filter
  <2>7. b' = MakeBuilder(fs2, d, vs, s)
    BY <1>1, <1>2, <2>6, BuilderChanged
  <2>8. fs2 = fs \o Adds("Filter", c) /\ fs2 \in Seq(FilterStages)
    <3>1. CASE a = Unset
      BY <1>2, <1>3, <2>4, <2>5, <3>1
    <3>2. CASE a # Unset
      <4>1. a \in FilterStages
        BY <3>2 DEF FilterStages
      <4>2. Append(fs, a) = fs \o <<a>> /\ fs \o <<a>> \in Seq(FilterStages)
        BY <4>1, SeqEnds
      <4> QED
        BY <1>2, <2>4, <2>5, <3>2, <4>2
    <3> QED
      BY <3>1, <3>2
  <2>9. DecodeAfter(d, d, c) /\ SolveAfter(s, s, c)
    BY <2>2 DEF DecodeAfter, SolveAfter
  <2> QED
    BY <1>3, <1>4, <2>2, <2>3, <2>4, <2>7, <2>8, <2>9
<1>9. ASSUME NEW a \in Validators \union {Unset}, Validate(a) PROVE Goal
  <2>1. PICK c : c = <<"Validate", a>>
    OBVIOUS
  <2>2. c \in AllCalls /\ c[1] = "Validate" /\ c[2] = a
    BY <1>5, <2>1
  <2>3. calls' = Append(calls, c) /\ UNCHANGED <<m, matches, plugins, panicked>>
    BY <1>9, <2>1 DEF Validate, Call
  <2>4. Adds("Filter", c) = <<>> /\ Adds("Validate", c) = IF a = Unset THEN <<>> ELSE <<a>>
    BY <2>1, AddsOf
  <2>5. PICK vs2 : vs2 = IF a = Unset THEN b.validators ELSE Append(b.validators, a)
    OBVIOUS
  <2>6. b' = [b EXCEPT !.validators = vs2]
    BY <1>9, <2>5 DEF Validate
  <2>7. b' = MakeBuilder(fs, d, vs2, s)
    BY <1>1, <1>2, <2>6, BuilderChanged
  <2>8. vs2 = vs \o Adds("Validate", c) /\ vs2 \in Seq(Validators)
    <3>1. CASE a = Unset
      BY <1>2, <1>3, <2>4, <2>5, <3>1
    <3>2. CASE a # Unset
      <4>1. Append(vs, a) = vs \o <<a>> /\ vs \o <<a>> \in Seq(Validators)
        BY <3>2, SeqEnds
      <4> QED
        BY <1>2, <2>4, <2>5, <3>2, <4>1
    <3> QED
      BY <3>1, <3>2
  <2>9. DecodeAfter(d, d, c) /\ SolveAfter(s, s, c)
    BY <2>2 DEF DecodeAfter, SolveAfter
  <2> QED
    BY <1>3, <1>4, <2>2, <2>3, <2>4, <2>7, <2>8, <2>9
<1>10. ASSUME NEW a \in Solvers \union {Unset}, Solve(a) PROVE Goal
  <2>1. PICK c : c = <<"Solve", a>>
    OBVIOUS
  <2>2. c \in AllCalls /\ c[1] = "Solve" /\ c[2] = a
    BY <1>5, <2>1
  <2>3. calls' = Append(calls, c) /\ UNCHANGED <<m, matches, plugins, panicked>>
        /\ b' = [b EXCEPT !.solve = a]
    BY <1>10, <2>1 DEF Solve, Call
  <2>4. Adds("Filter", c) = <<>> /\ Adds("Validate", c) = <<>>
    BY <2>1, AddsOf
  <2>5. b' = MakeBuilder(fs, d, vs, a)
    BY <1>1, <1>2, <2>3, BuilderChanged
  <2>6. DecodeAfter(d, d, c) /\ SolveAfter(a, s, c)
    BY <2>2 DEF DecodeAfter, SolveAfter
  <2> QED
    BY <1>3, <1>4, <2>2, <2>3, <2>4, <2>5, <2>6
<1>11. ASSUME Build PROVE Goal
  <2>1. PICK c : c = <<"Build", Unset>>
    OBVIOUS
  <2>2. c \in AllCalls /\ c[1] = "Build"
    BY <1>5, <2>1
  <2>3. calls' = Append(calls, c) /\ UNCHANGED <<m, matches, b>>
    BY <1>11, <2>1 DEF Build, Call
  <2>4. Adds("Filter", c) = <<>> /\ Adds("Validate", c) = <<>>
    BY <2>1, AddsOf
  <2>5. DecodeAfter(d, d, c) /\ SolveAfter(s, s, c)
    BY <2>2 DEF DecodeAfter, SolveAfter
  <2>6. CASE b.decode = Unset \/ b.solve = Unset
    <3>1. panicked' = TRUE /\ UNCHANGED plugins
      BY <1>11, <2>6 DEF Build
    <3> QED
      BY <1>2, <1>3, <1>4, <2>2, <2>3, <2>4, <2>5, <3>1
  <2>7. CASE ~(b.decode = Unset \/ b.solve = Unset)
    <3>1. plugins' = Append(plugins, [stages |-> b, since |-> Len(calls)]) /\ panicked' = panicked
      BY <1>11, <2>7 DEF Build
    <3>2. /\ PluginsOK'
          /\ \A i \in DOMAIN plugins : i \in DOMAIN plugins' /\ plugins'[i] = plugins[i]
      BY <2>2, <2>3, <2>7, <3>1, PluginAdded
    <3>3. BuilderOK'
      <4>1. calls' \in Seq(AllCalls)
        BY <1>1, <2>2, <2>3 DEF AllCalls
      <4>2. PICK ds : ds = calls'
        OBVIOUS
      <4>3. AsCalled(b, ds)
        <5>1. c[1] # "Solve" /\ c[1] \notin {"ForExtension", "Decode"}
          BY <2>2
        <5>2. Called(b, c, ds)
          BY <1>1, <2>2, <2>3, <4>2, CallKeeps
        <5> QED
          BY <1>1, <1>2, <1>3, <2>4, <5>1, <5>2 DEF AsCalled, Called
      <4> QED
        BY <1>1, <2>3, <4>1, <4>2, <4>3 DEF BuilderOK
    <3> QED
      BY <2>3, <3>1, <3>2, <3>3 DEF Goal
  <2> QED
    BY <2>6, <2>7
<1> QED
  BY <1>6, <1>7, <1>8, <1>9, <1>10, <1>11 DEF AuthorStep, Goal

-----------------------------------------------------------------------------
(* A match follows the line of its plugin's stages.                        *)

Line(st) == ((st.filters \o <<st.decode>>) \o st.validators) \o <<st.solve>>

IsJoin(u, A, s, t, i, j) ==
    /\ u \in Seq(A) /\ Len(u) = i + j
    /\ \A k \in 1..i : u[k] = s[k]
    /\ \A k \in 1..j : u[i + k] = t[k]

LEMMA JoinAt ==
    ASSUME NEW A, NEW s \in Seq(A), NEW t \in Seq(A), NEW i \in Nat, NEW j \in Nat,
           Len(s) = i, Len(t) = j
    PROVE  IsJoin(s \o t, A, s, t, i, j)
BY DEF IsJoin

(* The line of a plugin, place by place.                                   *)
LEMMA LineAt ==
    ASSUME NEW st \in Builders, st.decode # Unset, st.solve \in Solvers
    PROVE  \E nf, nv \in Nat :
           /\ nf = Len(st.filters) /\ nv = Len(st.validators)
           /\ Len(Line(st)) = nf + nv + 2
           /\ \A k \in 1..nf : Line(st)[k] = st.filters[k] /\ st.filters[k] \in AllStages
           /\ Line(st)[nf + 1] = st.decode /\ st.decode \in AllStages
           /\ \A k \in 1..nv : /\ Line(st)[nf + 1 + k] = st.validators[k]
                               /\ st.validators[k] \in AllStages
           /\ Line(st)[nf + nv + 2] = st.solve /\ st.solve \in AllStages
<1>1. PICK A : A = AllStages
  OBVIOUS
<1>2. PICK fs, d, vs, s : fs = st.filters /\ d = st.decode /\ vs = st.validators /\ s = st.solve
  OBVIOUS
<1>3. fs \in Seq(FilterStages) /\ vs \in Seq(Validators) /\ d \in DecodeStages /\ s \in Solvers
  BY <1>2, BuilderFields
<1>4. FilterStages \subseteq A /\ Validators \subseteq A /\ DecodeStages \subseteq A /\ Solvers \subseteq A
  BY <1>1 DEF AllStages
<1>5. PICK nf \in Nat, nv \in Nat : Len(fs) = nf /\ Len(vs) = nv
  BY <1>3
<1>6. fs \in Seq(A) /\ vs \in Seq(A) /\ d \in A /\ s \in A
  BY <1>3, <1>4
<1>7. PICK one \in Nat, n1 \in Nat, n2 \in Nat, n3 \in Nat :
         one = 1 /\ n1 = nf + 1 /\ n2 = n1 + nv /\ n3 = n2 + 1
  OBVIOUS
<1>8. PICK ds, ss : ds = <<d>> /\ ss = <<s>>
  OBVIOUS
<1>9. /\ ds \in Seq(A) /\ Len(ds) = one /\ ds[1] = d
      /\ ss \in Seq(A) /\ Len(ss) = one /\ ss[1] = s
  BY <1>6, <1>7, <1>8
<1>10. PICK x : x = fs \o ds
  OBVIOUS
<1>11. /\ x \in Seq(A) /\ Len(x) = n1
       /\ \A k \in 1..nf : x[k] = fs[k]
       /\ x[n1] = d
  <2>1. IsJoin(x, A, fs, ds, nf, one)
    BY <1>5, <1>6, <1>9, <1>10, JoinAt
  <2> QED
    BY <1>7, <1>9, <2>1 DEF IsJoin
<1>12. PICK y : y = x \o vs
  OBVIOUS
<1>13. /\ y \in Seq(A) /\ Len(y) = n2
       /\ \A k \in 1..n1 : y[k] = x[k]
       /\ \A k \in 1..nv : y[n1 + k] = vs[k]
  <2>1. IsJoin(y, A, x, vs, n1, nv)
    BY <1>5, <1>6, <1>11, <1>12, JoinAt
  <2> QED
    BY <1>7, <2>1 DEF IsJoin
<1>14. PICK z : z = y \o ss
  OBVIOUS
<1>15. /\ Len(z) = n3
       /\ \A k \in 1..n2 : z[k] = y[k]
       /\ z[n3] = s
  <2>1. IsJoin(z, A, y, ss, n2, one)
    BY <1>9, <1>13, <1>14, JoinAt
  <2> QED
    BY <1>7, <1>9, <2>1 DEF IsJoin
<1>16. Line(st) = z
  BY <1>2, <1>8, <1>10, <1>12, <1>14 DEF Line
<1>17. \A k \in 1..nf : z[k] = fs[k] /\ fs[k] \in A
  <2> TAKE k \in 1..nf
  <2>1. k \in 1..n1 /\ k \in 1..n2
    BY <1>7
  <2>2. fs[k] \in A
    BY <1>5, <1>6
  <2> QED
    BY <1>11, <1>13, <1>15, <2>1, <2>2
<1>18. z[n1] = d
  <2>1. n1 \in 1..n1 /\ n1 \in 1..n2
    BY <1>7
  <2> QED
    BY <1>11, <1>13, <1>15, <2>1
<1>19. \A k \in 1..nv : z[n1 + k] = vs[k] /\ vs[k] \in A
  <2> TAKE k \in 1..nv
  <2>1. n1 + k \in 1..n2
    BY <1>7
  <2>2. vs[k] \in A
    BY <1>5, <1>6
  <2> QED
    BY <1>13, <1>15, <2>1, <2>2
<1>20. n3 = nf + nv + 2
  BY <1>7
<1> WITNESS nf \in Nat, nv \in Nat
<1> QED
  BY <1>1, <1>2, <1>5, <1>6, <1>7, <1>15, <1>16, <1>17, <1>18, <1>19, <1>20

(* How far a match is, by its program counter; what it has asked is the    *)
(* beginning of the line.                                                  *)
FarAs(pc, n, nf, nv) ==
    /\ n <= nf + nv + 2
    /\ pc = "filters" => n <= nf
    /\ pc = "validators" => nf + 1 <= n /\ n <= nf + 1 + nv
    /\ pc = "hit" => n = nf + 1 + nv
    /\ pc = "solved" => n = nf + nv + 2

Follows(asked, st) == \A k \in DOMAIN asked : asked[k] = Line(st)[k]

Passed(pc, tx, asked, reported, nf) ==
    pc # "miss" => /\ ~reported
                   /\ \A k \in DOMAIN asked : k <= nf => Accepts(asked[k], tx)

Decoded(tx, asked, nf) ==
    nf + 1 \in DOMAIN asked /\ asked[nf + 1][1] = "parse" => tx.present /\ tx.ext = "good"

OnLine(pc, tx, asked, reported, st) ==
    /\ FarAs(pc, Len(asked), Len(st.filters), Len(st.validators))
    /\ Follows(asked, st)
    /\ Passed(pc, tx, asked, reported, Len(st.filters))
    /\ Decoded(tx, asked, Len(st.filters))

Matches ==
    [pc : {"idle", "filters", "validators", "hit", "miss", "solved"}, plugin : Nat,
     tx : BuilderTxs \union {Unset}, asked : Seq(AllStages), reported : BOOLEAN]

MatchOK ==
    /\ m \in Matches
    /\ m.pc # "idle" =>
          /\ m.plugin \in DOMAIN plugins /\ m.tx \in BuilderTxs
          /\ OnLine(m.pc, m.tx, m.asked, m.reported, Stages(m.plugin))

PluginBuilderInv == BuilderOK /\ PluginsOK /\ panicked \in BOOLEAN /\ MatchOK

MakeMatch(pc, plugin, tx, asked, reported) ==
    [pc |-> pc, plugin |-> plugin, tx |-> tx, asked |-> asked, reported |-> reported]

LEMMA MatchFields ==
    ASSUME NEW a \in Matches
    PROVE  /\ a.pc \in {"idle", "filters", "validators", "hit", "miss", "solved"}
           /\ a.plugin \in Nat /\ a.tx \in BuilderTxs \union {Unset}
           /\ a.asked \in Seq(AllStages) /\ a.reported \in BOOLEAN
           /\ a = MakeMatch(a.pc, a.plugin, a.tx, a.asked, a.reported)
BY DEF Matches, MakeMatch

LEMMA MadeMatch ==
    ASSUME NEW pc, NEW plugin, NEW tx, NEW asked, NEW reported
    PROVE  /\ MakeMatch(pc, plugin, tx, asked, reported).pc = pc
           /\ MakeMatch(pc, plugin, tx, asked, reported).plugin = plugin
           /\ MakeMatch(pc, plugin, tx, asked, reported).tx = tx
           /\ MakeMatch(pc, plugin, tx, asked, reported).asked = asked
           /\ MakeMatch(pc, plugin, tx, asked, reported).reported = reported
BY DEF MakeMatch

WithPc(a, x) == [a EXCEPT !.pc = x]
WithAsked(a, x) == [a EXCEPT !.asked = x]
WithReported(a, x) == [a EXCEPT !.reported = x]

Turned(a, x, z) == [a EXCEPT !.pc = x, !.reported = z]
Stepped(a, x, y, z) == [a EXCEPT !.pc = x, !.asked = y, !.reported = z]

(* What a step changes of a match, field by field.                         *)
LEMMA MatchChanged ==
    ASSUME NEW a, NEW pc, NEW plugin, NEW tx, NEW asked, NEW reported,
           a = MakeMatch(pc, plugin, tx, asked, reported),
           NEW pc2, NEW asked2, NEW reported2
    PROVE  /\ Turned(a, pc2, reported2) = MakeMatch(pc2, plugin, tx, asked, reported2)
           /\ Stepped(a, pc2, asked2, reported2) = MakeMatch(pc2, plugin, tx, asked2, reported2)
<1>1. WithPc(a, pc2) = MakeMatch(pc2, plugin, tx, asked, reported)
  BY DEF MakeMatch, WithPc
<1>2. WithReported(MakeMatch(pc2, plugin, tx, asked, reported), reported2)
         = MakeMatch(pc2, plugin, tx, asked, reported2)
  BY DEF MakeMatch, WithReported
<1>3. WithAsked(MakeMatch(pc2, plugin, tx, asked, reported), asked2)
         = MakeMatch(pc2, plugin, tx, asked2, reported)
  BY DEF MakeMatch, WithAsked
<1>4. WithReported(MakeMatch(pc2, plugin, tx, asked2, reported), reported2)
         = MakeMatch(pc2, plugin, tx, asked2, reported2)
  BY DEF MakeMatch, WithReported
<1>5. Turned(a, pc2, reported2) = WithReported(WithPc(a, pc2), reported2)
  BY DEF Turned, WithPc, WithReported
<1>6. Stepped(a, pc2, asked2, reported2)
         = WithReported(WithAsked(WithPc(a, pc2), asked2), reported2)
  BY DEF Stepped, WithPc, WithAsked, WithReported
<1> QED
  BY <1>1, <1>2, <1>3, <1>4, <1>5, <1>6

(* Asking the next stage of the line, and turning without asking.          *)
LEMMA AskedNext ==
    ASSUME NEW st, NEW nf \in Nat, nf = Len(st.filters), NEW nv \in Nat, nv = Len(st.validators),
           NEW asked \in Seq(AllStages), NEW n \in Nat, n = Len(asked),
           NEW pc, NEW tx, NEW reported, OnLine(pc, tx, asked, reported, st), pc # "miss",
           NEW stage \in AllStages, stage = Line(st)[n + 1],
           NEW pc2, NEW reported2, FarAs(pc2, n + 1, nf, nv),
           pc2 # "miss" => ~reported2 /\ (n < nf => Accepts(stage, tx)),
           n = nf /\ stage[1] = "parse" => tx.present /\ tx.ext = "good"
    PROVE  /\ OnLine(pc2, tx, Append(asked, stage), reported2, st)
           /\ Append(asked, stage) \in Seq(AllStages)
<1>1. PICK new : new = Append(asked, stage)
  OBVIOUS
<1>2. /\ new \in Seq(AllStages) /\ Len(new) = n + 1 /\ DOMAIN new = 1..(n + 1)
      /\ DOMAIN asked = 1..n /\ new[n + 1] = stage
      /\ \A k \in 1..n : new[k] = asked[k]
  <2>1. PICK A : A = AllStages
    OBVIOUS
  <2>2. asked \in Seq(A) /\ stage \in A
    BY <2>1
  <2>3. /\ new \in Seq(A) /\ Len(new) = n + 1 /\ DOMAIN new = 1..(n + 1)
        /\ DOMAIN asked = 1..n /\ new[n + 1] = stage
        /\ \A k \in 1..n : new[k] = asked[k]
    BY <1>1, <2>2
  <2> QED
    BY <2>1, <2>3
<1>3. \A k \in 1..(n + 1) : k \in 1..n \/ k = n + 1
  OBVIOUS
<1>4. Follows(new, st)
  BY <1>2, <1>3 DEF OnLine, Follows
<1>5. Passed(pc2, tx, new, reported2, nf)
  <2>1. n + 1 <= nf => n < nf
    OBVIOUS
  <2> QED
    BY <1>2, <1>3, <2>1 DEF OnLine, Passed
<1>6. Decoded(tx, new, nf)
  <2>1. nf + 1 = n + 1 => n = nf
    OBVIOUS
  <2> QED
    BY <1>2, <1>3, <2>1 DEF OnLine, Decoded
<1> QED
  BY <1>1, <1>2, <1>4, <1>5, <1>6 DEF OnLine

(* A step of Match or Solve stays on the line of its plugin.               *)
LEMMA MatchKeeps ==
    ASSUME PluginBuilderInv, MatchStep
    PROVE  MatchOK' /\ UNCHANGED <<b, panicked, calls, plugins>>
<1>1. m \in Matches /\ PluginsOK
  BY DEF PluginBuilderInv, MatchOK
<1>2. PICK pc, plugin, tx, asked, reported :
         /\ m = MakeMatch(pc, plugin, tx, asked, reported)
         /\ m.pc = pc /\ m.plugin = plugin /\ m.tx = tx
         /\ m.asked = asked /\ m.reported = reported
  BY <1>1, MatchFields
<1>3. /\ pc \in {"idle", "filters", "validators", "hit", "miss", "solved"}
      /\ plugin \in Nat /\ tx \in BuilderTxs \union {Unset}
      /\ asked \in Seq(AllStages) /\ reported \in BOOLEAN
  BY <1>1, <1>2, MatchFields
<1>4. PICK st : st = Stages(plugin)
  OBVIOUS
<1>5. ASSUME pc # "idle"
      PROVE  /\ plugin \in DOMAIN plugins /\ tx \in BuilderTxs
             /\ OnLine(pc, tx, asked, reported, st)
             /\ st \in Builders /\ st.decode # Unset /\ st.solve \in Solvers
  <2>1. plugin \in DOMAIN plugins /\ tx \in BuilderTxs /\ OnLine(pc, tx, asked, reported, st)
    BY <1>2, <1>4, <1>5 DEF PluginBuilderInv, MatchOK
  <2>2. PICK R : R = [stages : Builders, since : Nat]
    OBVIOUS
  <2>3. plugins \in Seq(R)
    BY <1>1, <2>2 DEF PluginsOK
  <2>4. plugins[plugin] \in R
    BY <2>1, <2>3
  <2>5. st \in Builders
    BY <1>4, <2>2, <2>4 DEF Stages
  <2> QED
    BY <1>1, <1>4, <2>1, <2>5 DEF PluginsOK, Stages
(* It is enough to know the fields of the next match.                      *)
<1>6. ASSUME NEW pc2 \in {"filters", "validators", "hit", "miss", "solved"},
             NEW asked2 \in Seq(AllStages), NEW reported2 \in BOOLEAN, pc # "idle",
             m' = MakeMatch(pc2, plugin, tx, asked2, reported2),
             UNCHANGED <<b, panicked, calls, plugins>>,
             OnLine(pc2, tx, asked2, reported2, st)
      PROVE  MatchOK' /\ UNCHANGED <<b, panicked, calls, plugins>>
  <2>1. m'.pc = pc2 /\ m'.plugin = plugin /\ m'.tx = tx
        /\ m'.asked = asked2 /\ m'.reported = reported2
    BY <1>6, MadeMatch
  <2>2. m' \in Matches
    BY <1>3, <1>6 DEF Matches, MakeMatch
  <2>3. plugin \in DOMAIN plugins' /\ tx \in BuilderTxs /\ st = Stages(plugin)'
    BY <1>4, <1>5, <1>6 DEF Stages
  <2>4. plugins'[m'.plugin].stages = st
    BY <2>1, <2>3 DEF Stages
  <2>5. OnLine(m'.pc, m'.tx, m'.asked, m'.reported, plugins'[m'.plugin].stages)
    BY <1>6, <2>1, <2>4, Zenon
  <2> QED
    BY <1>6, <2>1, <2>2, <2>3, <2>5 DEF MatchOK, Stages
(* Asking one stage more.                                                  *)
<1>7. ASSUME pc \in {"filters", "validators", "hit"},
             NEW pc2 \in {"filters", "validators", "miss", "solved"},
             NEW stage \in AllStages, NEW reported2 \in BOOLEAN,
             Step(pc2, stage, reported2),
             NEW nf \in Nat, nf = Len(st.filters), NEW nv \in Nat, nv = Len(st.validators),
             NEW n \in Nat, n = Len(asked), stage = Line(st)[n + 1],
             FarAs(pc2, n + 1, nf, nv),
             pc2 # "miss" => ~reported2 /\ (n < nf => Accepts(stage, tx)),
             n = nf /\ stage[1] = "parse" => tx.present /\ tx.ext = "good"
      PROVE  MatchOK' /\ UNCHANGED <<b, panicked, calls, plugins>>
  <2>1. pc # "idle" /\ pc # "miss" /\ OnLine(pc, tx, asked, reported, st)
    BY <1>5, <1>7
  <2>2. PICK asked2 : asked2 = Append(asked, stage)
    OBVIOUS
  <2>3. OnLine(pc2, tx, asked2, reported2, st) /\ asked2 \in Seq(AllStages)
    BY <1>3, <1>7, <2>1, <2>2, AskedNext
  <2>4. m' = Stepped(m, pc2, asked2, reported2) /\ UNCHANGED <<b, panicked, calls, plugins>>
    BY <1>2, <1>7, <2>2 DEF Step, Stepped
  <2>5. m' = MakeMatch(pc2, plugin, tx, asked2, reported2)
    BY <1>2, <2>4, MatchChanged
  <2> QED
    BY <1>6, <1>7, <2>1, <2>3, <2>4, <2>5
<1> DEFINE Goal == MatchOK' /\ UNCHANGED <<b, panicked, calls, plugins>>
(* The line of the match's plugin, stage by stage.                         *)
<1>8. ASSUME pc # "idle"
      PROVE  \E nf, nv, n \in Nat :
             /\ nf = Len(st.filters) /\ nv = Len(st.validators) /\ n = Len(asked)
             /\ FarAs(pc, n, nf, nv)
             /\ \A k \in 1..nf : Line(st)[k] = st.filters[k] /\ st.filters[k] \in AllStages
             /\ Line(st)[nf + 1] = st.decode /\ st.decode \in AllStages
             /\ \A k \in 1..nv : /\ Line(st)[nf + 1 + k] = st.validators[k]
                                 /\ st.validators[k] \in AllStages
             /\ Line(st)[nf + nv + 2] = st.solve /\ st.solve \in AllStages
  <2>1. st \in Builders /\ st.decode # Unset /\ st.solve \in Solvers
        /\ OnLine(pc, tx, asked, reported, st)
    BY <1>5, <1>8
  <2>2. PICK nf \in Nat, nv \in Nat :
             /\ nf = Len(st.filters) /\ nv = Len(st.validators)
             /\ \A k \in 1..nf : Line(st)[k] = st.filters[k] /\ st.filters[k] \in AllStages
             /\ Line(st)[nf + 1] = st.decode /\ st.decode \in AllStages
             /\ \A k \in 1..nv : /\ Line(st)[nf + 1 + k] = st.validators[k]
                                 /\ st.validators[k] \in AllStages
             /\ Line(st)[nf + nv + 2] = st.solve /\ st.solve \in AllStages
    BY <2>1, LineAt
  <2>3. PICK n \in Nat : n = Len(asked)
    BY <1>3
  <2>4. FarAs(pc, n, nf, nv)
    BY <2>1, <2>2, <2>3 DEF OnLine
  <2> QED
    BY <2>2, <2>3, <2>4
<1>9. ASSUME NEW i \in DOMAIN plugins, NEW t \in BuilderTxs, MatchBegin(i, t) PROVE Goal
  <2>1. m' = [Idle EXCEPT !.pc = "filters", !.plugin = i, !.tx = t]
        /\ UNCHANGED <<b, panicked, calls, plugins>>
    BY <1>9 DEF MatchBegin
  <2>2. m' = MakeMatch("filters", i, t, <<>>, FALSE)
    BY <2>1 DEF Idle, MakeMatch
  <2>3. m'.pc = "filters" /\ m'.plugin = i /\ m'.tx = t /\ m'.asked = <<>> /\ m'.reported = FALSE
    <3>1. PICK a : a = m' /\ a = MakeMatch("filters", i, t, <<>>, FALSE)
      BY <2>2
    <3>2. a.pc = "filters" /\ a.plugin = i /\ a.tx = t /\ a.asked = <<>>
      BY <3>1 DEF MakeMatch
    <3>3. a.reported = FALSE
      <4>1. PICK no : no = FALSE
        OBVIOUS
      <4>2. a = MakeMatch("filters", i, t, <<>>, no)
        BY <3>1, <4>1, Zenon
      <4>3. a.reported = no
        BY <4>2 DEF MakeMatch
      <4> QED
        BY <4>1, <4>3, Zenon
    <3> QED
      BY <3>1, <3>2, <3>3
  <2>4. PICK R : R = [stages : Builders, since : Nat]
    OBVIOUS
  <2>5. plugins \in Seq(R) /\ i \in Nat
    BY <1>1, <2>4 DEF PluginsOK
  <2>6. plugins[i] \in R
    BY <2>5
  <2>7. PICK s : s = plugins[i].stages /\ s \in Builders
    BY <2>4, <2>6
  <2>8. PICK nf \in Nat, nv \in Nat : nf = Len(s.filters) /\ nv = Len(s.validators)
    BY <2>7, BuilderFields
  <2>9. OnLine("filters", t, <<>>, FALSE, s)
    <3>1. FarAs("filters", 0, nf, nv)
      BY DEF FarAs
    <3>2. Len(<<>>) = 0 /\ DOMAIN <<>> = {}
      OBVIOUS
    <3> QED
      BY <2>8, <3>1, <3>2 DEF OnLine, Follows, Passed, Decoded
  <2>10. m' \in Matches
    <3>1. <<>> \in Seq(AllStages)
      OBVIOUS
    <3> QED
      BY <2>2, <2>5, <3>1 DEF Matches, MakeMatch
  <2>11. plugins'[m'.plugin].stages = s
    BY <2>1, <2>3, <2>7
  <2>12. OnLine(m'.pc, m'.tx, m'.asked, m'.reported, plugins'[m'.plugin].stages)
    BY <2>3, <2>9, <2>11, Zenon
  <2> QED
    BY <2>1, <2>3, <2>10, <2>12 DEF MatchOK, Stages
<1>10. CASE FilterStep
  <2>1. pc = "filters"
    BY <1>2, <1>10 DEF FilterStep
  <2>2. PICK nf \in Nat, nv \in Nat, n \in Nat :
             /\ nf = Len(st.filters) /\ nv = Len(st.validators) /\ n = Len(asked)
             /\ FarAs(pc, n, nf, nv)
             /\ \A k \in 1..nf : Line(st)[k] = st.filters[k] /\ st.filters[k] \in AllStages
    BY <1>8, <2>1
  <2>3. PICK f, pc2 : f = st.filters[n + 1] /\ pc2 = IF Accepts(f, tx) THEN "filters" ELSE "miss"
    OBVIOUS
  <2>4. n < nf /\ Step(pc2, f, FALSE)
    BY <1>2, <1>4, <1>10, <2>2, <2>3 DEF FilterStep
  <2>5. n + 1 \in 1..nf /\ n # nf
    BY <2>4
  <2>6. f = Line(st)[n + 1] /\ f \in AllStages
    BY <2>2, <2>3, <2>5
  <2>7. FarAs(pc2, n + 1, nf, nv)
    BY <2>3, <2>5 DEF FarAs
  <2>8. pc2 \in {"filters", "validators", "miss", "solved"} /\ (pc2 # "miss" => Accepts(f, tx))
    BY <2>3
  <2> QED
    BY <1>7, <2>1, <2>2, <2>4, <2>5, <2>6, <2>7, <2>8
<1>11. CASE DecodeStep
  <2>1. pc = "filters"
    BY <1>2, <1>11 DEF DecodeStep
  <2>2. PICK nf \in Nat, nv \in Nat, n \in Nat :
             /\ nf = Len(st.filters) /\ nv = Len(st.validators) /\ n = Len(asked)
             /\ FarAs(pc, n, nf, nv)
             /\ Line(st)[nf + 1] = st.decode /\ st.decode \in AllStages
    BY <1>8, <2>1
  <2>3. PICK d : d = st.decode
    OBVIOUS
  <2>4. n = nf
    BY <1>2, <1>4, <1>11, <2>2 DEF DecodeStep
  <2>5. CASE CallsDecoder(d)
    <3>1. PICK pc2 \in {"validators", "miss"}, reported2 \in BOOLEAN :
             Step(pc2, d, reported2) /\ (pc2 # "miss" => ~reported2)
      <4>1. Step("validators", d, FALSE) \/ Step("miss", d, FALSE) \/ Step("miss", d, TRUE)
        BY <1>2, <1>4, <1>11, <2>3, <2>5 DEF DecodeStep
      <4> QED
        BY <4>1
    <3>2. d[1] = "parse" => tx.present /\ tx.ext = "good"
      BY <1>2, <2>5 DEF CallsDecoder
    <3>3. FarAs(pc2, n + 1, nf, nv)
      BY <2>4, <3>1 DEF FarAs
    <3>4. d = Line(st)[n + 1] /\ d \in AllStages /\ ~(n < nf)
      BY <2>2, <2>3, <2>4
    <3>5. pc2 \in {"filters", "validators", "miss", "solved"}
      BY <3>1
    <3> QED
      BY <1>7, <2>1, <2>2, <3>1, <3>2, <3>3, <3>4, <3>5
  <2>6. CASE ~CallsDecoder(d)
    <3>1. PICK reported2 \in BOOLEAN : Turn("miss", reported2)
      BY <1>2, <1>4, <1>11, <2>3, <2>6 DEF DecodeStep
    <3>2. m' = Turned(m, "miss", reported2) /\ UNCHANGED <<b, panicked, calls, plugins>>
      BY <3>1 DEF Turn, Turned
    <3>3. m' = MakeMatch("miss", plugin, tx, asked, reported2)
      BY <1>2, <3>2, MatchChanged
    <3>4. OnLine("miss", tx, asked, reported2, st)
      <4>1. OnLine(pc, tx, asked, reported, st)
        BY <1>5, <2>1
      <4>2. FarAs("miss", n, nf, nv)
        BY <2>2 DEF FarAs
      <4> QED
        BY <2>2, <4>1, <4>2 DEF OnLine, Passed
    <3> QED
      BY <1>3, <1>6, <2>1, <3>2, <3>3, <3>4
  <2> QED
    BY <2>5, <2>6
<1>12. CASE ValidateStep
  <2>1. pc = "validators"
    BY <1>2, <1>12 DEF ValidateStep
  <2>2. PICK nf \in Nat, nv \in Nat, n \in Nat :
             /\ nf = Len(st.filters) /\ nv = Len(st.validators) /\ n = Len(asked)
             /\ FarAs(pc, n, nf, nv)
             /\ \A k \in 1..nv : /\ Line(st)[nf + 1 + k] = st.validators[k]
                                 /\ st.validators[k] \in AllStages
    BY <1>8, <2>1
  <2>3. PICK k \in Int : k = n - nf
    OBVIOUS
  <2>4. k <= nv /\ (\/ Step("validators", st.validators[k], FALSE)
                    \/ Step("miss", st.validators[k], FALSE)
                    \/ Step("miss", st.validators[k], TRUE))
    BY <1>2, <1>4, <1>12, <2>2, <2>3 DEF ValidateStep
  <2>5. nf + 1 <= n
    BY <2>1, <2>2 DEF FarAs
  <2>6. k \in 1..nv /\ nf + 1 + k = n + 1 /\ ~(n < nf) /\ n # nf
    BY <2>3, <2>4, <2>5
  <2>7. PICK v : v = st.validators[k]
    OBVIOUS
  <2>8. v = Line(st)[n + 1] /\ v \in AllStages
    BY <2>2, <2>6, <2>7
  <2>9. PICK pc2 \in {"validators", "miss"}, reported2 \in BOOLEAN :
           Step(pc2, v, reported2) /\ (pc2 # "miss" => ~reported2)
    BY <2>4, <2>7
  <2>10. FarAs(pc2, n + 1, nf, nv)
    BY <2>3, <2>4, <2>5, <2>9 DEF FarAs
  <2>11. pc2 \in {"filters", "validators", "miss", "solved"}
    BY <2>9
  <2>12. nf = Len(st.filters) /\ nv = Len(st.validators) /\ n = Len(asked)
    BY <2>2
  <2>13. /\ pc2 # "miss" => ~reported2 /\ (n < nf => Accepts(v, tx))
         /\ n = nf /\ v[1] = "parse" => tx.present /\ tx.ext = "good"
    BY <2>6, <2>9
  <2>14. pc \in {"filters", "validators", "hit"} /\ Step(pc2, v, reported2)
    BY <2>1, <2>9
  <2> QED
    BY <1>7, <2>8, <2>10, <2>11, <2>12, <2>13, <2>14
<1>13. CASE MatchHit
  <2>1. pc = "validators" /\ Turn("hit", reported)
    BY <1>2, <1>13 DEF MatchHit
  <2>2. PICK nf \in Nat, nv \in Nat, n \in Nat :
             nf = Len(st.filters) /\ nv = Len(st.validators) /\ n = Len(asked)
    BY <1>8, <2>1
  <2>3. n = nf + 1 + nv
    BY <1>2, <1>4, <1>13, <2>2 DEF MatchHit
  <2>4. m' = Turned(m, "hit", reported) /\ UNCHANGED <<b, panicked, calls, plugins>>
    BY <2>1 DEF Turn, Turned
  <2>5. m' = MakeMatch("hit", plugin, tx, asked, reported)
    BY <1>2, <2>4, MatchChanged
  <2>6. OnLine("hit", tx, asked, reported, st)
    <3>1. OnLine(pc, tx, asked, reported, st)
      BY <1>5, <2>1
    <3>2. FarAs("hit", n, nf, nv)
      BY <2>3 DEF FarAs
    <3> QED
      BY <2>1, <2>2, <3>1, <3>2 DEF OnLine, Passed
  <2> QED
    BY <1>3, <1>6, <2>1, <2>4, <2>5, <2>6
<1>14. CASE SolveStep
  <2>1. pc = "hit" /\ Step("solved", st.solve, reported)
    BY <1>2, <1>4, <1>14 DEF SolveStep
  <2>2. PICK nf \in Nat, nv \in Nat, n \in Nat :
             /\ nf = Len(st.filters) /\ nv = Len(st.validators) /\ n = Len(asked)
             /\ FarAs(pc, n, nf, nv)
             /\ Line(st)[nf + nv + 2] = st.solve /\ st.solve \in AllStages
    BY <1>8, <2>1
  <2>3. n = nf + 1 + nv
    BY <2>1, <2>2 DEF FarAs
  <2>4. ~reported
    BY <1>5, <2>1 DEF OnLine, Passed
  <2>5. n + 1 = nf + nv + 2 /\ ~(n < nf) /\ n # nf
    BY <2>3
  <2>6. FarAs("solved", n + 1, nf, nv)
    BY <2>5 DEF FarAs
  <2>7. PICK s \in AllStages : s = st.solve /\ s = Line(st)[n + 1] /\ Step("solved", s, reported)
    BY <2>1, <2>2, <2>5
  <2> QED
    BY <1>3, <1>7, <2>1, <2>2, <2>4, <2>5, <2>6, <2>7
<1>15. CASE MatchEnd
  <2>1. m' = Idle /\ UNCHANGED <<b, panicked, calls, plugins>>
    BY <1>15 DEF MatchEnd
  <2>2. m' \in Matches /\ m'.pc = "idle"
    <3>1. <<>> \in Seq(AllStages)
      OBVIOUS
    <3> QED
      BY <2>1, <3>1 DEF Idle, Matches
  <2> QED
    BY <2>1, <2>2 DEF MatchOK
<1> QED
  BY <1>9, <1>10, <1>11, <1>12, <1>13, <1>14, <1>15 DEF MatchStep

LEMMA PluginBuilderStep ==
    PluginBuilderInv /\ [BuilderNext]_builderVars => PluginBuilderInv'
<1> SUFFICES ASSUME PluginBuilderInv, [BuilderNext]_builderVars PROVE PluginBuilderInv'
  OBVIOUS
<1>1. CASE AuthorStep
  <2>1. /\ BuilderOK' /\ PluginsOK' /\ UNCHANGED m
        /\ panicked' \in {panicked, TRUE}
        /\ \A i \in DOMAIN plugins : i \in DOMAIN plugins' /\ plugins'[i] = plugins[i]
    BY <1>1, AuthorKeeps DEF PluginBuilderInv
  <2>2. MatchOK'
    BY <2>1 DEF PluginBuilderInv, MatchOK, Stages
  <2>3. panicked' \in BOOLEAN
    BY <2>1 DEF PluginBuilderInv
  <2> QED
    BY <2>1, <2>2, <2>3 DEF PluginBuilderInv
<1>2. CASE MatchStep
  <2>1. MatchOK' /\ UNCHANGED <<b, panicked, calls, plugins>>
    BY <1>2, MatchKeeps
  <2> QED
    BY <2>1 DEF PluginBuilderInv, BuilderOK, PluginsOK, Given
<1>3. CASE UNCHANGED builderVars
  BY <1>3 DEF builderVars, PluginBuilderInv, BuilderOK, PluginsOK, MatchOK, Given, Stages
<1> QED
  BY <1>1, <1>2, <1>3 DEF BuilderNext

LEMMA PluginBuilderStart == BuilderInit => PluginBuilderInv
<1> SUFFICES ASSUME BuilderInit PROVE PluginBuilderInv
  OBVIOUS
<1>1. /\ b = MakeBuilder(<<>>, Unset, <<>>, Unset) /\ panicked = FALSE
      /\ calls = <<>> /\ plugins = <<>> /\ m = Idle
  BY DEF BuilderInit, MakeBuilder
<1>2. /\ b.filters = <<>> /\ b.decode = Unset /\ b.validators = <<>> /\ b.solve = Unset
  BY <1>1, MadeFields
<1>3. b \in Builders
  BY <1>1 DEF Builders, MakeBuilder
<1>4. AsCalled(b, calls)
  BY <1>1, <1>2, RegisteredEmpty DEF AsCalled
<1>5. calls \in Seq(AllCalls)
  BY <1>1
<1>6. PluginsOK
  BY <1>1 DEF PluginsOK
<1>7. MatchOK
  <2>1. <<>> \in Seq(AllStages)
    OBVIOUS
  <2> QED
    BY <1>1, <2>1 DEF MatchOK, Matches, Idle
<1> QED
  BY <1>1, <1>3, <1>4, <1>5, <1>6, <1>7 DEF PluginBuilderInv, BuilderOK

(* A plugin asks the stages registered before its Build, in the documented *)
(* order, gives ForExtension's decoder only parsed extensions, and is a    *)
(* hit only when no stage refused or failed (Builder and builtPlugin in    *)
(* builder.go and extension.go), for any number of stages, of later calls  *)
(* on the Builder and of transactions.                                     *)
THEOREM PluginsAreAsBuilt == BuilderSpec => []PluginsRunAsBuilt
<1>1. PluginBuilderInv => PluginsRunAsBuilt
  <2> SUFFICES ASSUME PluginBuilderInv PROVE PluginsRunAsBuilt
    OBVIOUS
  <2>1. m \in Matches /\ PluginsOK /\ panicked \in BOOLEAN
    BY DEF PluginBuilderInv, MatchOK
  <2>2. TypeOK
    <3>1. m.pc \in {"idle", "filters", "validators", "hit", "miss", "solved"}
      BY <2>1, MatchFields
    <3> QED
      BY <2>1, <3>1 DEF PluginBuilderInv, MatchOK, PluginsOK, TypeOK
  <2>3. ASSUME m.pc # "idle" PROVE AskedAsRegistered /\ HitIsClean /\ DecoderSeesExtension
    <3>1. PICK i, st, cs : i = m.plugin /\ st = plugins[i].stages /\ cs = Given(i)
      OBVIOUS
    <3>2. i \in DOMAIN plugins /\ OnLine(m.pc, m.tx, m.asked, m.reported, st)
      BY <2>3, <3>1 DEF PluginBuilderInv, MatchOK, Stages
    <3>3. PICK n \in Nat : n = plugins[i].since /\ st \in Builders /\ n <= Len(calls)
      <4>1. PICK R : R = [stages : Builders, since : Nat]
        OBVIOUS
      <4>2. plugins \in Seq(R)
        BY <2>1, <4>1 DEF PluginsOK
      <4>3. plugins[i] \in R
        BY <3>2, <4>2
      <4> QED
        BY <2>1, <3>1, <3>2, <4>1, <4>3 DEF PluginsOK
    <3>4. AsCalled(st, cs) /\ st.decode # Unset /\ st.solve \in Solvers /\ st.solve # Unset
      BY <2>1, <3>1, <3>2 DEF PluginsOK
    <3>5. cs \in Seq(AllCalls)
      BY <3>1, <3>3, GivenKept DEF Given, PluginBuilderInv, BuilderOK
    <3>6. Decoding(LastOf({"ForExtension", "Decode"}, cs)) = st.decode
      <4>1. PICK k \in DOMAIN cs :
               IsLast({"ForExtension", "Decode"}, cs, k) /\ st.decode = Decoding(cs[k])
        BY <3>4 DEF AsCalled
      <4> QED
        BY <3>5, <4>1, LastCalls
    <3>7. LastOf({"Solve"}, cs)[2] = st.solve
      <4>1. PICK k \in DOMAIN cs : IsLast({"Solve"}, cs, k) /\ st.solve = cs[k][2]
        BY <3>4 DEF AsCalled
      <4> QED
        BY <3>5, <4>1, LastCalls
    <3>8. Pipeline(i) = Line(st)
      BY <3>1, <3>4, <3>6, <3>7 DEF Pipeline, Line, AsCalled
    <3>9. PICK nf \in Nat, nv \in Nat :
             /\ nf = Len(st.filters) /\ nv = Len(st.validators) /\ Len(Line(st)) = nf + nv + 2
      BY <3>3, <3>4, LineAt
    <3>10. PICK asked : asked = m.asked
      OBVIOUS
    <3>10a. PICK a \in Nat : a = Len(asked) /\ DOMAIN asked = 1..a
      <4>1. asked \in Seq(AllStages)
        BY <2>1, <3>10, MatchFields
      <4> QED
        BY <4>1
    <3>11. FarAs(m.pc, a, nf, nv) /\ Follows(asked, st)
           /\ Passed(m.pc, m.tx, asked, m.reported, nf) /\ Decoded(m.tx, asked, nf)
      BY <3>2, <3>9, <3>10, <3>10a DEF OnLine
    <3>12. AskedAsRegistered
      <4>1. a <= nf + nv + 2 /\ (m.pc = "solved" => a = nf + nv + 2)
        BY <3>11 DEF FarAs
      <4> QED
        BY <3>1, <3>8, <3>9, <3>10, <3>10a, <3>11, <4>1 DEF AskedAsRegistered, Follows
    <3>13. Registered("Filter", cs) = st.filters /\ DOMAIN st.filters = 1..nf
      BY <3>3, <3>4, <3>9, BuilderFields DEF AsCalled
    <3>14. HitIsClean
      <4> SUFFICES ASSUME m.pc \in {"hit", "solved"}
                   PROVE  ~m.reported /\ \A k \in 1..nf : Accepts(asked[k], m.tx)
        BY <3>1, <3>10, <3>10a, <3>13 DEF HitIsClean
      <4>1. nf <= a
        BY <3>11 DEF FarAs
      <4>2. \A k \in 1..nf : k \in 1..a /\ k <= nf
        BY <4>1
      <4> QED
        BY <3>10, <3>10a, <3>11, <4>2 DEF Passed
    <3>15. DecoderSeesExtension
      BY <3>1, <3>9, <3>10, <3>10a, <3>11, <3>13 DEF DecoderSeesExtension, Decoded
    <3> QED
      BY <3>12, <3>14, <3>15
  <2> QED
    BY <2>2, <2>3 DEF PluginsRunAsBuilt
<1> QED
  BY <1>1, PluginBuilderStart, PluginBuilderStep, PTL DEF BuilderSpec
=============================================================================
