----------------------------- MODULE DslMeaning -----------------------------
(***************************************************************************)
(* What a program of the language means, against what the program that     *)
(* DslCompile emits for it leaves in its variables.                        *)
(***************************************************************************)
EXTENDS DslCompile

-----------------------------------------------------------------------------
(* What a program means, said of its own parameters and names.             *)
Builtin(name, a) ==
  LET truth(b) == IF b THEN 1 ELSE 0
  IN  CASE name = "identity" -> a[1]
        [] name = "not" -> truth(a[1] = 0)
        [] name = "plus" -> a[1] + a[2]
        [] name = "minus" -> a[1] - a[2]
        [] name = "mul" -> a[1] * a[2]
        [] name = "div" -> Quotient(a[1], a[2])
        [] name = "mod" -> a[1] - a[2] * Quotient(a[1], a[2])
        [] name = "eq" -> truth(a[1] = a[2])
        [] name = "neq" -> truth(a[1] # a[2])
        [] name = "lt" -> truth(a[1] < a[2])
        [] name = "lte" -> truth(a[1] <= a[2])
        [] name = "gt" -> truth(a[1] > a[2])
        [] name = "gte" -> truth(a[1] >= a[2])
        [] name = "and" -> truth(a[1] # 0 /\ a[2] # 0)
        [] name = "or" -> truth(a[1] # 0 \/ a[2] # 0)

UnaryBuiltins == {"identity", "not"}
Builtins == UnaryBuiltins \union DOMAIN BuiltinOps

RECURSIVE Meant(_, _), Applied(_, _)
Meant(x, env) ==
  LET args == [i \in DOMAIN x.args |-> Meant(x.args[i], env)]
  IN  CASE x.e = "number" -> Numbers[x.t]
        [] x.e = "ident" -> IF x.t \in DOMAIN env THEN env[x.t]
                            ELSE globals[x.t]
        [] x.e = "call" -> IF x.t \in Builtins THEN Builtin(x.t, args)
                           ELSE Applied(x.t, args)

Applied(f, args) ==
  LET fn == Functions[FunctionIndex(f)]
  IN  Meant(fn.body, [p \in Range(fn.params) |->
                        args[SelectInSeq(fn.params, LAMBDA q : q = p)]])

AppliedUnary(f, v) == Applied(f, << v >>)
AppliedPred(f, v) == Applied(f, << v >>) # 0
AppliedAccum(a, v) == Applied(Accumulator, << a, v >>)

Dsl == INSTANCE RxReference WITH
         Done <- -1000001, Stray <- -1000002, Pred <- AppliedPred,
         Mapper <- AppliedUnary, Accum <- AppliedAccum, Key <- AppliedUnary

(* A scan without a seed starts from 0, and so does a reduction.           *)
MeantStage(op) ==
  [op |-> IF op.kind = "reduce" THEN "scanfrom" ELSE op.kind,
   arg |-> CASE op.kind \in FunctionOps \ {"scan"} -> op.symbol
             [] op.kind \in LiteralOps \union {"scanfrom"} ->
                  ValueOf(op.extra)
             [] op.kind = "reduce" /\ op.extra # "" -> ValueOf(op.extra)
             [] OTHER -> 0]

(* What the target holds after the chain: the last item it emits; a        *)
(* reduction's is its seed when it is given nothing.                       *)
MeantTarget(chain) ==
  LET out == Dsl!Rx([i \in DOMAIN chain.ops |-> MeantStage(chain.ops[i])],
                    Items(chain.source)).out
      reduces == chain.ops # << >> /\ Last(chain.ops).kind = "reduce"
  IN  IF out # << >> THEN Last(out)
      ELSE IF reduces THEN MeantStage(Last(chain.ops)).arg
      ELSE globals[chain.target]

LastOr(out, target) == IF out = << >> THEN globals[target] ELSE Last(out)

-----------------------------------------------------------------------------
(* Where the loop is known to differ from the chain's meaning.             *)

(* Two operators of a kind with state count, seed or remember as one.      *)
SharesSlot(chain) ==
  \E s \in Range(Slots) :
    Cardinality({i \in DOMAIN chain.ops : chain.ops[i].kind \in s.ops}) > 1

(* What follows a reduction or a last is given its every step.             *)
AggregatesInside(chain) ==
  \E i \in DOMAIN chain.ops :
    i < Len(chain.ops) /\ chain.ops[i].kind \in {"reduce", "last"}

(* An operator that drops the awaited item also skips takeUntil's break.   *)
Dropping == {"filter", "skip", "skipWhile", "skipUntil",
             "distinctUntilChanged"}
DropsAwaited(chain) ==
  \E i, j \in DOMAIN chain.ops :
    /\ i < j
    /\ chain.ops[i].kind = "takeUntil" /\ chain.ops[j].kind \in Dropping

(* Without items the loop is never called, and a seed not emitted.         *)
NeverCalled(chain) ==
  Items(chain.source) = << >> /\ "reduce" \in OpKinds(chain)

(* A function means what its C does when its parameters have the names the *)
(* generator gives them and nothing else has.                              *)
Conventional(i) ==
  LET params == Functions[i].params
  IN  /\ params \in IF kinds[i] = "accumulator"
                    THEN {<< "accum", "next" >>, << "accum", "x" >>}
                    ELSE {<< "x" >>, << "next" >>}
      /\ Functions[i].name \notin Builtins

ConventionalNames ==
  /\ \A i \in Used : Conventional(i)
  /\ GlobalNames \intersect {"x", "next", "accum"} = {}

Running == phase = "run" /\ next \in DOMAIN Chains
IsFused(i) == backends[i] = "fused"

(* The loop emitted for a chain leaves in its target what the chain means, *)
(* but for the cases above.                                                *)
FusedComputesMeaning ==
  Running /\ IsFused(next) =>
    LET chain == Chains[next]
    IN  \/ ~ConventionalNames
        \/ SharesSlot(chain) \/ AggregatesInside(chain)
        \/ DropsAwaited(chain) \/ NeverCalled(chain)
        \/ LastOr(FusedOut(chain), chain.target) = MeantTarget(chain)

(* Where the runtime is known to differ from the loop.                     *)
SeedDropped(chain) ==
  \E i \in DOMAIN chain.ops :
    /\ chain.ops[i].kind = "reduce" /\ chain.ops[i].extra # ""
    /\ ValueOf(chain.ops[i].extra) # 0

(* The runtime's take tests its count after an item has passed.            *)
TakesNone(chain) ==
  \E i \in DOMAIN chain.ops :
    chain.ops[i].kind = "take" /\ ValueOf(chain.ops[i].extra) <= 0

(* The runtime's distinctUntilChanged starts from the key 0, the loop's    *)
(* from none.                                                              *)
NullKey(chain) ==
  \E i \in DOMAIN chain.ops :
    LET reaches == Rt(globals)!Rx(SubSeq(RuntimeStages(chain), 1, i - 1),
                                  Items(chain.source)).out
    IN  /\ chain.ops[i].kind = "distinctUntilChanged"
        /\ reaches # << >>
        /\ Emitted(chain.ops[i].symbol, << reaches[1] >>, globals) = 0

(* The variables that an expression reads, its calls included.             *)
RECURSIVE Reads(_)
Reads(x) ==
  SymbolsIn(x) \union UNION {Reads(emitted[f].ret) : f \in CalledIn(x)}

(* The streaming path assigns the target while the chain's functions are   *)
(* still being called.                                                     *)
ReadsTarget(chain) ==
  /\ IsStreamed(RuntimeStages(chain))
  /\ \E i \in DOMAIN chain.ops :
       /\ chain.ops[i].symbol \in DOMAIN emitted
       /\ chain.target \in Reads(emitted[chain.ops[i].symbol].ret)

(* The runtime marks the end of a stream by a token among the items, and   *)
(* takeUntil does not take the items after it away.  What does not look    *)
(* for the token reads on, and last may find it alone.                     *)
ReadsOn == {"filter", "distinctUntilChanged", "take", "skip", "takeWhile",
            "skipWhile", "last"}
ReadsToken(chain) ==
  \E i, j \in DOMAIN chain.ops :
    LET stop == chain.ops[i].kind
        reader == chain.ops[j].kind
    IN  /\ i < j
        /\ \/ stop = "takeUntil" /\ reader \in ReadsOn
           \/ stop = "take" /\ reader = "last" /\ j > i + 1
           \/ stop = "takeWhile" /\ reader = "last"

(* The planner's choice of back end does not show: the calls of the        *)
(* runtime a chain could also have become leave the same in its target.    *)
(* (first is left out: the runtime's is called without a declaration.)     *)
BackendsAgree ==
  Running /\ IsFused(next) =>
    LET chain == Chains[next]
    IN  \/ SharesSlot(chain) \/ AggregatesInside(chain)
        \/ DropsAwaited(chain) \/ SeedDropped(chain) \/ TakesNone(chain)
        \/ ReadsToken(chain) \/ NullKey(chain) \/ ReadsTarget(chain)
        \/ "first" \in OpKinds(chain)
        \/ LastOr(FusedOut(chain), chain.target)
             = LastOr(RuntimeOut(chain), chain.target)

(* A program compiles that gives each name once, whose functions use only  *)
(* their parameters, variables, builtins and functions marked before them, *)
(* and whose values and seeds are there.                                   *)
RECURSIVE UsesOnly(_, _, _)
UsesOnly(x, names, functions) ==
  CASE x.e = "number" -> TRUE
    [] x.e = "ident" -> x.t \in names
    [] x.e = "call" ->
         /\ \/ x.t \in UnaryBuiltins /\ Len(x.args) = 1
            \/ x.t \in DOMAIN BuiltinOps /\ Len(x.args) = 2
            \/ \E f \in functions : f.name = x.t /\ Len(f.params) = Len(x.args)
         /\ \A i \in DOMAIN x.args : UsesOnly(x.args[i], names, functions)

CleanFunction(i) ==
  /\ Conventional(i)
  /\ UsesOnly(Functions[i].body, Range(Functions[i].params) \union GlobalNames,
              {Functions[j] : j \in {k \in Used : k < i}})

CleanChain(chain) ==
  /\ chain.source.kind \in {"range", "of", "empty", "never", "interval",
                            "timer"}
  /\ \A i \in DOMAIN chain.source.values :
       chain.source.values[i] \in
         IF chain.source.kind = "of" THEN DOMAIN Numbers
         ELSE DOMAIN Numbers \union GlobalNames
  /\ \A i \in DOMAIN chain.ops :
       LET op == chain.ops[i]
       IN  /\ op.kind \notin SourceOps
           /\ \/ op.extra \in DOMAIN Numbers \union GlobalNames
              \/ op.extra = "" /\ op.kind # "scanfrom"

Clean ==
  LET named == Cardinality(DOMAIN Defines) + Len(Targets) + Cardinality(Used)
      names == GlobalNames \union {Functions[i].name : i \in Used}
  IN  /\ Cardinality(names) = named
      /\ names \intersect (Reserved \union {"x", "next", "accum"}) = {}
      /\ \A i \in Used : CleanFunction(i)
      /\ \A i \in DOMAIN Chains : CleanChain(Chains[i])

CleanProgramsCompile == phase = "uncompiled" => ~Clean
=============================================================================
