---------------------------- MODULE PluginBuilder ----------------------------
(***************************************************************************)
(* Package builder: an author adds stages to a Builder, builds plugins     *)
(* from it, may go on adding stages and build again, while the solver      *)
(* asks the plugins built so far about transactions.                       *)
(*                                                                         *)
(* A stage is a name; Unset is nil.  A transaction is [present, ext, who]: *)
(* present says that it and its UnsignedTx are not nil, ext is "none",     *)
(* "bad" (an extension output that does not parse) or "good", who is the   *)
(* set of the author's filters that accept it.  A decoder or validator     *)
(* may do I/O, so its answer is chosen when it is called.                  *)
(***************************************************************************)
EXTENDS Naturals, Sequences

CONSTANTS
    Filters,       \* predicates of the author
    Decoders,      \* decoders of the author
    Validators,    \* validators of the author
    Solvers,       \* terminal actions of the author
    BuilderTxs,    \* transactions
    Unset,         \* nil
    MaxCalls,      \* bound: calls of the author
    MaxMatches     \* bound: calls of Match

VARIABLES
    b,          \* the Builder: [filters, decode, validators, solve]
    panicked,   \* ForExtension or Build has panicked
    calls,      \* history: the calls of the author, <<method, argument>>
    plugins,    \* the plugins built: [stages, since], since is how many calls
                \* preceded Build
    m,          \* the call of Match: [pc, plugin, tx, asked, reported]
    matches     \* calls of Match so far

builderVars == <<b, panicked, calls, plugins, m, matches>>

HasArkExtension == "HasArkExtension"
(* The Decode stage of ForExtension(d).                                    *)
Parsing(d) == <<"parse", d>>
Plain(d) == <<"plain", d>>

Idle == [pc |-> "idle", plugin |-> 0, tx |-> Unset, asked |-> <<>>, reported |-> FALSE]

BuilderInit ==
    /\ b = [filters |-> <<>>, decode |-> Unset, validators |-> <<>>, solve |-> Unset]
    /\ panicked = FALSE
    /\ calls = <<>>
    /\ plugins = <<>>
    /\ m = Idle
    /\ matches = 0

-----------------------------------------------------------------------------
(* The author.                                                             *)

Call(method, arg) ==
    /\ ~panicked /\ Len(calls) < MaxCalls
    /\ calls' = Append(calls, <<method, arg>>)
    /\ UNCHANGED <<m, matches>>

(* A Builder starts empty, with For, or with the two stages of             *)
(* ForExtension.                                                           *)
ForExtension(d) ==
    /\ calls = <<>>
    /\ Call("ForExtension", d)
    /\ IF d = Unset
         THEN panicked' = TRUE /\ UNCHANGED b
         ELSE /\ b' = [b EXCEPT !.filters = Append(@, HasArkExtension),
                                !.decode = Parsing(d)]
              /\ UNCHANGED panicked
    /\ UNCHANGED plugins

Filter(p) ==
    /\ Call("Filter", p)
    /\ b' = [b EXCEPT !.filters = IF p = Unset THEN @ ELSE Append(@, p)]
    /\ UNCHANGED <<panicked, plugins>>

Decode(d) ==
    /\ Call("Decode", d)
    /\ b' = [b EXCEPT !.decode = IF d = Unset THEN Unset ELSE Plain(d)]
    /\ UNCHANGED <<panicked, plugins>>

Validate(v) ==
    /\ Call("Validate", v)
    /\ b' = [b EXCEPT !.validators = IF v = Unset THEN @ ELSE Append(@, v)]
    /\ UNCHANGED <<panicked, plugins>>

Solve(s) ==
    /\ Call("Solve", s)
    /\ b' = [b EXCEPT !.solve = s]
    /\ UNCHANGED <<panicked, plugins>>

(* Mutant: the required stages are not checked for.                        *)
Build_Unchecked ==
    /\ Call("Build", Unset)
    /\ plugins' = Append(plugins, [stages |-> b, since |-> Len(calls)])
    /\ UNCHANGED <<b, panicked>>

Build ==
    /\ Call("Build", Unset)
    /\ IF b.decode = Unset \/ b.solve = Unset
         THEN panicked' = TRUE /\ UNCHANGED plugins
         ELSE /\ plugins' = Append(plugins, [stages |-> b, since |-> Len(calls)])
              /\ UNCHANGED panicked
    /\ UNCHANGED b

-----------------------------------------------------------------------------
(* Match and Solve of a plugin, stage by stage.                            *)

(* Mutant: a plugin reads the list of validators of its Builder.           *)
Stages_OfBuilder(i) == [plugins[i].stages EXCEPT !.validators = b.validators]

Stages(i) == plugins[i].stages

MatchBegin(i, tx) ==
    /\ m.pc = "idle" /\ matches < MaxMatches
    /\ m' = [Idle EXCEPT !.pc = "filters", !.plugin = i, !.tx = tx]
    /\ matches' = matches + 1
    /\ UNCHANGED <<b, panicked, calls, plugins>>

(* Where Match goes from here, after it asked a stage or without.          *)
Turn(pc, reported) ==
    /\ m' = [m EXCEPT !.pc = pc, !.reported = reported]
    /\ UNCHANGED <<b, panicked, calls, plugins, matches>>
Step(pc, stage, reported) ==
    /\ m' = [m EXCEPT !.pc = pc, !.asked = Append(@, stage), !.reported = reported]
    /\ UNCHANGED <<b, panicked, calls, plugins, matches>>

Accepts(f, tx) ==
    IF f = HasArkExtension THEN tx.present /\ tx.ext # "none" ELSE f \in tx.who

FilterStep ==
    /\ m.pc = "filters"
    /\ Len(m.asked) < Len(Stages(m.plugin).filters)
    /\ LET f == Stages(m.plugin).filters[Len(m.asked) + 1]
       IN Step(IF Accepts(f, m.tx) THEN "filters" ELSE "miss", f, FALSE)

(* Mutant: an extension that does not parse is handed to the decoder.      *)
CallsDecoder_Unparsed(d) == d[1] = "plain" \/ m.tx.ext # "none"

(* The stage of ForExtension calls the author's decoder only with a parsed *)
(* extension.                                                              *)
CallsDecoder(d) == d[1] = "plain" \/ (m.tx.present /\ m.tx.ext = "good")

(* A failed parse is reported, a missing transaction or extension is not.  *)
DecodeStep ==
    /\ m.pc = "filters"
    /\ Len(m.asked) = Len(Stages(m.plugin).filters)
    /\ LET d == Stages(m.plugin).decode IN
         IF CallsDecoder(d)
           THEN \/ Step("validators", d, FALSE)    \* an intent
                \/ Step("miss", d, FALSE)          \* ErrSkip
                \/ Step("miss", d, TRUE)           \* another error
           ELSE Turn("miss", m.tx.present /\ m.tx.ext = "bad")

(* Mutant: an error of a validator is reported and the match goes on.      *)
ValidateStep_ReportsOnly ==
    /\ m.pc = "validators"
    /\ LET vs == Stages(m.plugin).validators
           k == Len(m.asked) - Len(Stages(m.plugin).filters)
       IN /\ k <= Len(vs)
          /\ \/ Step("validators", vs[k], FALSE)
             \/ Step("miss", vs[k], FALSE)
             \/ Step("validators", vs[k], TRUE)

ValidateStep ==
    /\ m.pc = "validators"
    /\ LET vs == Stages(m.plugin).validators
           k == Len(m.asked) - Len(Stages(m.plugin).filters)
       IN /\ k <= Len(vs)
          /\ \/ Step("validators", vs[k], FALSE)   \* true
             \/ Step("miss", vs[k], FALSE)         \* false, or ErrSkip
             \/ Step("miss", vs[k], TRUE)          \* another error

MatchHit ==
    /\ m.pc = "validators"
    /\ Len(m.asked) = Len(Stages(m.plugin).filters) + 1
                      + Len(Stages(m.plugin).validators)
    /\ Turn("hit", m.reported)

(* Solve runs the terminal action on an intent of the plugin's own type    *)
(* and ignores any other; the solver hands back what Match returned.       *)
SolveStep ==
    /\ m.pc = "hit"
    /\ Step("solved", Stages(m.plugin).solve, m.reported)

MatchEnd ==
    /\ m.pc \in {"miss", "solved"}
    /\ m' = Idle
    /\ UNCHANGED <<b, panicked, calls, plugins, matches>>

-----------------------------------------------------------------------------
AuthorStep ==
    \/ \E d \in Decoders \union {Unset} : ForExtension(d) \/ Decode(d)
    \/ \E p \in Filters \union {Unset} : Filter(p)
    \/ \E v \in Validators \union {Unset} : Validate(v)
    \/ \E s \in Solvers \union {Unset} : Solve(s)
    \/ Build

(* A panic of the author ends the process.                                 *)
MatchStep ==
    /\ ~panicked
    /\ \/ \E i \in DOMAIN plugins, tx \in BuilderTxs : MatchBegin(i, tx)
       \/ FilterStep \/ DecodeStep \/ ValidateStep
       \/ MatchHit \/ SolveStep \/ MatchEnd

BuilderNext == AuthorStep \/ MatchStep

BuilderSpec == BuilderInit /\ [][BuilderNext]_builderVars

-----------------------------------------------------------------------------
(* Properties.  What the author asked for is read off the history of       *)
(* calls, never off the Builder.                                           *)

Given(i) == SubSeq(calls, 1, plugins[i].since)

(* The stages a call adds to the list of a kind, and all of a list.        *)
Adds(kind, c) ==
    IF c[2] = Unset THEN <<>>
    ELSE IF c[1] = kind THEN <<c[2]>>
    ELSE IF kind = "Filter" /\ c[1] = "ForExtension" THEN <<HasArkExtension>>
    ELSE <<>>
Registered(kind, cs) ==
    LET upTo[k \in 0..Len(cs)] ==
          IF k = 0 THEN <<>> ELSE upTo[k - 1] \o Adds(kind, cs[k])
    IN upTo[Len(cs)]

(* The last call of one of the methods, which overrides the ones before.   *)
IsLast(methods, cs, k) ==
    /\ cs[k][1] \in methods
    /\ \A j \in DOMAIN cs : cs[j][1] \in methods => j <= k
LastOf(methods, cs) == cs[CHOOSE k \in DOMAIN cs : IsLast(methods, cs, k)]

Decoding(c) == IF c[1] = "Decode" THEN Plain(c[2]) ELSE Parsing(c[2])

(* The stages in the order the documentation of Builder promises.          *)
Pipeline(i) ==
    ((Registered("Filter", Given(i))
      \o <<Decoding(LastOf({"ForExtension", "Decode"}, Given(i)))>>)
     \o Registered("Validate", Given(i)))
    \o <<LastOf({"Solve"}, Given(i))[2]>>

(* A plugin only ever holds the required stages, and a match that is under *)
(* way belongs to a plugin (Build panics otherwise).                       *)
TypeOK ==
    /\ panicked \in BOOLEAN
    /\ \A i \in DOMAIN plugins : /\ plugins[i].stages.decode # Unset
                                 /\ plugins[i].stages.solve \in Solvers
    /\ m.pc \in {"idle", "filters", "validators", "hit", "miss", "solved"}
    /\ m.pc # "idle" => m.plugin \in DOMAIN plugins /\ m.tx \in BuilderTxs

(* However the author goes on with the Builder, a plugin asks the stages   *)
(* registered before its Build, in registration order, filters first, then *)
(* the decoder, then the validators, and solves only when all were asked.  *)
AskedAsRegistered ==
    LET line == Pipeline(m.plugin) IN
       /\ Len(m.asked) <= Len(line)
       /\ \A k \in DOMAIN m.asked : m.asked[k] = line[k]
       /\ m.pc = "solved" => Len(m.asked) = Len(line)

(* A match is a hit only when every filter accepts the transaction and no  *)
(* stage reported an error.                                                *)
HitIsClean ==
    m.pc \in {"hit", "solved"} =>
        /\ ~m.reported
        /\ \A k \in DOMAIN Registered("Filter", Given(m.plugin)) :
              Accepts(m.asked[k], m.tx)

(* The decoder given to ForExtension is only called with an extension that *)
(* has been parsed, whatever filters surround it.                          *)
DecoderSeesExtension ==
    LET n == Len(Registered("Filter", Given(m.plugin))) + 1 IN
       n \in DOMAIN m.asked /\ m.asked[n][1] = "parse" =>
          m.tx.present /\ m.tx.ext = "good"

(* However the author goes on with the Builder, a plugin asks the stages   *)
(* registered before its Build, in the documented order, calls the decoder *)
(* of ForExtension only with a parsed extension, and reports a hit only    *)
(* when no stage refused or failed.                                        *)
PluginsRunAsBuilt ==
    /\ TypeOK
    /\ m.pc # "idle" => AskedAsRegistered /\ HitIsClean /\ DecoderSeesExtension

=============================================================================
