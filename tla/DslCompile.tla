----------------------------- MODULE DslCompile -----------------------------
(***************************************************************************)
(* core/tools/pipeline_codegen: from the text of a program to what the     *)
(* program it emits leaves in its variables.  Texts are parsed statement   *)
(* by statement, chains are lowered one by one, the plan chooses a back    *)
(* end for each, and the emitted main runs the chains in turn, Runs times. *)
(*                                                                         *)
(* phase is where the compiler stands; it stops in rejected (by the        *)
(* parser), refused (by lowering), undefined (main is written from a chain *)
(* that does not exist), uncompiled (by the C compiler), unfollowed (the   *)
(* program needs timers, inner observables, addresses or more of the       *)
(* runtime's names than the language gives it) or done.                    *)
(***************************************************************************)
EXTENDS DslSyntax, CSyntax, FiniteSets, TLC

CONSTANTS
  Texts,        \* the programs, as token sequences
  WellFormed,   \* those among them that are written as the grammar says
  Defines,      \* the values of --define, by name
  Runs          \* the value of --runs

VARIABLES
  phase, text,
  at,           \* the token the parser has reached
  program,      \* the statements read: [is, from, to, tree]
  lowered,      \* how many chains have been lowered
  kinds,        \* what each function is used as, "unknown" until it is
  backends,     \* the plan, by chain
  emitted,      \* the C functions of the emitted program, by name
  globals,      \* and its variables
  next, run,    \* the chain main is at and the run it is in
  first         \* what the first run left

vars == << phase, text, at, program, lowered, kinds, backends, emitted,
           globals, next, run, first >>

TreesOf(is) ==
  LET statements == SelectSeq(program, LAMBDA s : s.is = is)
  IN  [i \in DOMAIN statements |-> statements[i].tree]

Functions == TreesOf("fn")
Chains == TreesOf("chain")

-----------------------------------------------------------------------------
(* operator_registry.c.                                                    *)
Fusible == (FunctionOps \union LiteralOps \union FunctionAndLiteralOps
            \union BareOps) \ {"distinct", "throttleTime"}

FunctionKind(op) ==
  CASE op \in {"filter", "takeWhile", "skipWhile"} -> "predicate"
    [] op \in {"reduce", "scan", "scanfrom"} -> "accumulator"
    [] op \in {"distinct", "distinctUntilChanged"} -> "projector"
    [] op = "map" -> "value"

Kinds == {"unknown", "value", "predicate", "accumulator", "projector"}
FunctionIndex(name) == SelectInSeq(Functions, LAMBDA f : f.name = name)

-----------------------------------------------------------------------------
(* Functions in C.  Whatever a function calls its parameters, x and next   *)
(* are its argument and accum its accumulator.                             *)
(* Mutant: next is not known.                                              *)
EmitIdentNoNext(t, kind) ==
  CASE t = "x" -> Var(IF kind = "accumulator" THEN "next" ELSE "x")
    [] t = "accum" /\ kind = "accumulator" -> Var("accum")
    [] OTHER -> Symbol(t)

EmitIdent(t, kind) ==
  CASE t \in {"x", "next"} -> Var(IF kind = "accumulator" THEN "next" ELSE "x")
    [] t = "accum" /\ kind = "accumulator" -> Var("accum")
    [] OTHER -> Symbol(t)

BuiltinOps ==
  [plus |-> "+", minus |-> "-", mul |-> "*", div |-> "/", mod |-> "%",
   eq |-> "==", neq |-> "!=", lt |-> "<", lte |-> "<=", gt |-> ">",
   gte |-> ">=", and |-> "&&", or |-> "||"]

RECURSIVE EmitExpr(_, _)
EmitExpr(x, kind) ==
  LET args == [i \in DOMAIN x.args |-> EmitExpr(x.args[i], kind)]
  IN  CASE x.e = "number" -> Num(Numbers[x.t])
        [] x.e = "ident" -> EmitIdent(x.t, kind)
        [] x.t = "identity" /\ Len(args) = 1 -> args[1]
        [] x.t = "not" /\ Len(args) = 1 -> Negation(args[1])
        [] x.t \in DOMAIN BuiltinOps /\ Len(args) = 2 ->
             Bin(BuiltinOps[x.t], args[1], args[2])
        [] OTHER -> Call(x.t, args)

EmitFunction(i) ==
  LET body == EmitExpr(Functions[i].body, kinds[i])
  IN  [params |-> IF kinds[i] = "accumulator" THEN << "accum", "next" >>
                  ELSE << "x" >>,
       ret |-> IF kinds[i] = "predicate" THEN Negation(Negation(body))
               ELSE body]

Used == {i \in DOMAIN Functions : kinds[i] # "unknown"}

EmitFunctions ==
  [f \in {Functions[i].name : i \in Used} |-> EmitFunction(FunctionIndex(f))]

(* What an emitted expression is worth where its variables are env and the *)
(* program's hold held.                                                    *)
RECURSIVE CValue(_, _, _)
CValue(x, env, held) ==
  CASE x.e = "num" -> x.n
    [] x.e = "var" -> env[x.v]
    [] x.e = "symbol" -> held[x.id]
    [] x.e = "not" -> Truth(CValue(x.l, env, held) = 0)
    [] x.e = "call" ->
         CValue(emitted[x.f].ret,
                [p \in Range(emitted[x.f].params) |->
                   CValue(x.args[SelectInSeq(emitted[x.f].params,
                                             LAMBDA q : q = p)], env, held)],
                held)
    [] x.e \in BinOps ->
         Arith(x.e, CValue(x.l, env, held), CValue(x.r, env, held))

(* What a block does; go is "on" until it continues or breaks.  No block   *)
(* assigns a variable of the program.                                      *)
RECURSIVE CRun(_, _)
CStep(now, c) ==
  CASE c.s \in {"decl", "set"} ->
         [now EXCEPT !.env = (c.v :> CValue(c.x, now.env, globals)) @@ @]
    [] c.s = "push" ->
         [now EXCEPT !.env[c.v] = Append(@, CValue(c.x, now.env, globals))]
    [] c.s = "if" ->
         IF CValue(c.x, now.env, globals) # 0 THEN CRun(now, c.then) ELSE now
    [] c.s \in {"continue", "break"} -> [now EXCEPT !.go = c.s]

CRun(start, block) ==
  FoldLeft(LAMBDA now, c : IF now.go = "on" THEN CStep(now, c) ELSE now,
           start, block)

(* A value is a number or the name of a variable.                          *)
Literal(t) == IF t \in DOMAIN Numbers THEN Num(Numbers[t]) ELSE Symbol(t)
ValueOf(t) == IF t \in DOMAIN Numbers THEN Numbers[t] ELSE globals[t]

(* The length of a range is not negative; pop_all does not return from one *)
(* that is.                                                                *)
Items(source) ==
  CASE source.kind = "range" ->
         LET low == ValueOf(source.values[1])
             high == ValueOf(source.values[2])
         IN  [i \in 1..(high - low + 1) |-> low + i - 1]
    [] source.kind = "of" ->
         [i \in DOMAIN source.values |-> ValueOf(source.values[i])]
    [] source.kind \in {"empty", "never"} -> << >>

-----------------------------------------------------------------------------
(* emit_fused_chain: a whole chain as one loop, whose operators of a kind  *)
(* share one slot.                                                         *)
Slots ==
  << [ops |-> {"take", "first"}, slots |-> << "take_count" >>],
     [ops |-> {"skip"}, slots |-> << "skip_count" >>],
     [ops |-> {"skipWhile"}, slots |-> << "skip_while_passed" >>],
     [ops |-> {"skipUntil"}, slots |-> << "skip_until_started" >>],
     [ops |-> {"scan", "scanfrom"}, slots |-> << "scan_accum" >>],
     [ops |-> {"reduce"}, slots |-> << "reduce_accum" >>],
     [ops |-> {"last"}, slots |-> << "last_value", "has_last_value" >>],
     [ops |-> {"distinctUntilChanged"},
      slots |-> << "last_key", "has_last_key" >>] >>

OpKinds(chain) == {chain.ops[i].kind : i \in DOMAIN chain.ops}

FusedDecls(chain) ==
  FlattenSeq([i \in DOMAIN Slots |->
    IF Slots[i].ops \intersect OpKinds(chain) = {} THEN << >>
    ELSE [j \in DOMAIN Slots[i].slots |-> Decl(Slots[i].slots[j], Num(0))]])

FusedSeeds(chain) ==
  FlattenSeq([i \in DOMAIN chain.ops |->
    LET op == chain.ops[i]
    IN  CASE op.kind = "scanfrom" ->
               << Set("scan_accum", Literal(op.extra)) >>
          [] op.kind = "reduce" /\ op.extra # "" ->
               << Set("reduce_accum", Literal(op.extra)) >>
          [] OTHER -> << >>])

Increment(v) == Set(v, Bin("+", Var(v), Num(1)))
Block(statements) == If(Num(1), statements)

(* Mutant: one item too many.                                              *)
TakeCodeOneMore(limit) ==
  << If(Bin(">", Var("take_count"), limit), Break), Increment("take_count") >>

TakeCode(limit) ==
  << If(Bin(">=", Var("take_count"), limit), Break), Increment("take_count") >>

(* Mutant: it goes on skipping after an item has passed.                   *)
SkipWhileCodeForgets(test) ==
  << If(Bin("&&", Negation(Var("skip_while_passed")), test), Continue) >>

SkipWhileCode(test) ==
  << If(Bin("&&", Negation(Var("skip_while_passed")), test), Continue),
     Set("skip_while_passed", Num(1)) >>

FusedOp(op) ==
  LET of(arg) == Call(op.symbol, << arg >>)
      value == Var("value")
      isValue == Bin("==", value, Literal(op.extra))
      accumulate(slot) ==
        Set(slot, Call(op.symbol, << Var(slot), value >>))
  IN  CASE op.kind = "map" -> << Set("value", of(value)) >>
        [] op.kind = "filter" -> << If(Negation(of(value)), Continue) >>
        [] op.kind = "mapTo" -> << Set("value", Literal(op.extra)) >>
        [] op.kind = "take" -> TakeCode(Literal(op.extra))
        [] op.kind = "first" -> TakeCode(Num(1))
        [] op.kind = "skip" ->
             << If(Bin("<", Var("skip_count"), Literal(op.extra)),
                   << Increment("skip_count") >> \o Continue) >>
        [] op.kind = "takeWhile" -> << If(Negation(of(value)), Break) >>
        [] op.kind = "skipWhile" -> SkipWhileCode(of(value))
        [] op.kind \in {"scan", "scanfrom"} ->
             << accumulate("scan_accum"), Set("value", Var("scan_accum")) >>
        [] op.kind = "reduce" ->
             << accumulate("reduce_accum"), Set("emit_value", Num(0)) >>
        [] op.kind = "last" ->
             << Set("last_value", value), Set("has_last_value", Num(1)),
                Set("emit_value", Num(0)) >>
        [] op.kind = "distinctUntilChanged" ->
             << Block(
                  << Decl("key", of(value)),
                     If(Bin("&&", Var("has_last_key"),
                                  Bin("==", Var("key"), Var("last_key"))),
                        Continue),
                     Set("last_key", Var("key")),
                     Set("has_last_key", Num(1)) >>) >>
        [] op.kind = "takeUntil" ->
             << If(isValue, << Set("break_after_emit", Num(1)) >>) >>
        [] op.kind = "skipUntil" ->
             << If(Negation(Var("skip_until_started")),
                   << If(Negation(isValue), Continue),
                      Set("skip_until_started", Num(1)) >>) >>

FusedBody(chain) ==
  << Decl("emit_value", Num(1)), Decl("break_after_emit", Num(0)) >>
  \o FlattenSeq([i \in DOMAIN chain.ops |-> FusedOp(chain.ops[i])])
  \o << If(Var("emit_value"), << Push("result", Var("value")) >>),
        If(Var("break_after_emit"), Break) >>

(* pop_all calls the loop once, if the source has items.                   *)
FusedLoop(chain, items, body) ==
  FoldLeft(LAMBDA st, item :
             IF st.go = "break" THEN st
             ELSE CRun([env |-> ("value" :> item) @@ st.env, go |-> "on"],
                       body),
           CRun([env |-> [result |-> << >>], go |-> "on"],
                FusedDecls(chain) \o FusedSeeds(chain)), items)

FusedResult(chain, end) ==
  CASE "reduce" \in OpKinds(chain) -> Append(end.result, end.reduce_accum)
    [] "reduce" \notin OpKinds(chain) /\ "last" \in OpKinds(chain) ->
         IF end.has_last_value = 0 THEN end.result
         ELSE Append(end.result, end.last_value)
    [] OTHER -> end.result

FusedOut(chain) ==
  IF Items(chain.source) = << >> THEN << >>
  ELSE FusedResult(chain,
         FusedLoop(chain, Items(chain.source), FusedBody(chain)).env)

-----------------------------------------------------------------------------
(* emit_runtime_chain: the chain as a call of pipe.  A program has at most *)
(* one accumulator here.  The field that of leaves unset is taken to be    *)
(* NULL, as in fresh memory; no value that is computed is the completion   *)
(* token, and no function divides by zero.                                 *)
Emitted(f, args, held) ==
  CValue(emitted[f].ret, [p \in Range(emitted[f].params) |->
    args[SelectInSeq(emitted[f].params, LAMBDA q : q = p)]], held)

Accumulator ==
  Functions[CHOOSE i \in DOMAIN Functions : kinds[i] = "accumulator"].name

(* The operators, with functions that read the program's variables.        *)
Rt(held) ==
  INSTANCE RxReference WITH
    Done <- -1000001, Stray <- -1000002,
    Pred <- LAMBDA f, v : Emitted(f, << v >>, held) # 0,
    Mapper <- LAMBDA f, v : Emitted(f, << v >>, held),
    Key <- LAMBDA f, v : Emitted(f, << v >>, held),
    Accum <- LAMBDA a, v : Emitted(Accumulator, << a, v >>, held)

(* The seed of a reduce is not passed on.                                  *)
RuntimeStage(op) ==
  [op |-> op.kind,
   arg |-> CASE op.kind \in FunctionOps \ {"scan"} -> op.symbol
             [] op.kind \in LiteralOps \union {"scanfrom"} ->
                  ValueOf(op.extra)
             [] OTHER -> 0]

NewContexts(stages) ==
  [i \in DOMAIN stages |-> Rt(globals)!NewContext(stages[i])]

(* The streaming path: the subscriber assigns an item to the target before *)
(* the next goes through the chain.                                        *)
Streamed(target, stages, items) ==
  LET compiled == Rt(globals)!Compile(stages)
      assigned(out) ==
        IF out = << >> THEN globals ELSE [globals EXCEPT ![target] = Last(out)]
      end ==
        FoldLeft(LAMBDA st, item :
                   Rt(assigned(st.out))!StreamItem(stages, compiled, st, item),
                 [out |-> << >>, ctxs |-> NewContexts(stages), value |-> 0,
                  keep |-> TRUE, reduced |-> << >>, last |-> << >>], items)
  IN  end.out \o (IF end.reduced # << >> THEN end.reduced ELSE end.last)

(* The generic path: the whole batch goes through the chain before the     *)
(* subscriber is given any of it.                                          *)
Popped(stages, items) ==
  Rt(globals)!UpToDone(
    Rt(globals)!GenericBatch(stages, NewContexts(stages), items, FALSE).out)

IsStreamed(stages) == Rt(globals)!Streamable(Rt(globals)!Compile(stages))

PoppedAll(target, stages, items) ==
  CASE items = << >> \/ stages = << >> -> items
    [] items # << >> /\ stages # << >> /\ IsStreamed(stages) ->
         Streamed(target, stages, items)
    [] OTHER -> Popped(stages, items)

RuntimeStages(chain) ==
  [i \in DOMAIN chain.ops |-> RuntimeStage(chain.ops[i])]

RuntimeOut(chain) ==
  PoppedAll(chain.target, RuntimeStages(chain), Items(chain.source))

ChainOut(i) ==
  IF backends[i] = "fused" THEN FusedOut(Chains[i]) ELSE RuntimeOut(Chains[i])

-----------------------------------------------------------------------------
(* Whether a C compiler and linker accept the emitted program: gcc before  *)
(* version 14, for which -w silences numbers taken for pointers.           *)
Targets == [i \in DOMAIN Chains |-> Chains[i].target]
GlobalNames == DOMAIN Defines \union Range(Targets)

FunctionNames == {Functions[i].name : i \in Used}

(* The names that the headers of the runtime declare; first is not among   *)
(* them.  The words of C, its library's names and those of the emitted     *)
(* code itself are not used by a program.                                  *)
Reserved ==
  (SourceKinds \union FunctionOps \union LiteralOps
     \union FunctionAndLiteralOps \union BareOps \union SourceOps \union
   {"main", "create_observable", "subscribe", "push_observable", "pop_all",
    "pipe", "pair_left", "pair_right", "init_list",
    "init_list_with_capacity", "list_reserve", "push_back", "push_front",
    "pop", "peek", "popstart", "list_isempty", "resize", "freelist",
    "list_get", "list_remove", "profiler_now_ns", "profiler_reset",
    "profiler_print_report", "g_bench_profile", "PROFILE_NOW_NS",
    "PROFILE_INC", "PROFILE_ADD", "ENABLE_PROFILER", "OBSERVABLE_H",
    "LIST_H", "PROFILER_H", "List", "Observable", "Query", "QueryKind",
    "Subscriber", "BooleanFunction", "ModifierFunction",
    "AccumulatorFunction", "ComparisonFunction", "FilterCtx",
    "TakeWhileCtx", "SkipWhileCtx", "MapCtx", "CompiledMapChain",
    "MapToCtx", "PairValue", "NestedPairValue", "ScanCtx", "ReduceCtx",
    "TakeUntilCtx", "SkipUntilCtx", "TakeCtx", "IntervalCtx", "BufferCtx",
    "ThrottleCtx", "DistinctCtx", "DistinctUntilChangedCtx", "PipeFunc",
    "FactoryFn", "CompiledStage", "CompiledPipeline", "BenchProfile",
    "QUERY_KIND_GENERIC", "QUERY_KIND_FILTER", "QUERY_KIND_MAP",
    "QUERY_KIND_REDUCE", "QUERY_KIND_SCAN",
    "QUERY_KIND_DISTINCT_UNTIL_CHANGED", "QUERY_KIND_SKIP_WHILE",
    "QUERY_KIND_LAST", "QUERY_KIND_MAP_CHAIN"}) \ {"first"}

(* Values and expressions.  A function's name is a value: its address,     *)
(* which the compiler makes a number of with no more than a warning.       *)
ValueCompiles(t) ==
  t \in DOMAIN Numbers \union GlobalNames \union FunctionNames

RECURSIVE ExprCompiles(_, _)
ExprCompiles(x, visible) ==
  CASE x.e = "symbol" ->
         x.id \in GlobalNames \union {Functions[i].name : i \in visible}
    [] x.e = "call" ->
         /\ \E i \in visible :
              /\ Functions[i].name = x.f
              /\ Len(EmitFunction(i).params) = Len(x.args)
         /\ \A j \in DOMAIN x.args : ExprCompiles(x.args[j], visible)
    [] x.e = "not" -> ExprCompiles(x.l, visible)
    [] x.e \in BinOps ->
         ExprCompiles(x.l, visible) /\ ExprCompiles(x.r, visible)
    [] OTHER -> TRUE

(* What emit_source_expr writes of a source's values: as many as the call  *)
(* takes, and nothing where an inner source lacks one.                     *)
Arity(source) ==
  CASE source.kind \in {"range", "timer"} -> 2
    [] source.kind \in {"interval", "defer", "from"} -> 1
    [] source.kind = "of" -> Len(source.values)
    [] source.kind \in {"empty", "never", "zip"} -> 0

RECURSIVE WrittenBy(_)
WrittenBy(source) ==
  {IF i \in DOMAIN source.values THEN source.values[i] ELSE "" :
     i \in 1..Arity(source)}
  \union UNION {WrittenBy(source.sources[i]) : i \in DOMAIN source.sources}

WrittenByOp(op, backend) ==
  CASE op.kind \in LiteralOps \union {"scanfrom"} -> {op.extra}
    [] op.kind = "reduce" /\ op.extra # "" /\ backend = "fused" -> {op.extra}
    [] op.kind \in SourceOps -> WrittenBy(op.source)
    [] OTHER -> {}

Written(i) ==
  WrittenBy(Chains[i].source)
  \union UNION {WrittenByOp(Chains[i].ops[j], backends[i]) :
                  j \in DOMAIN Chains[i].ops}

Values == UNION {Written(i) : i \in DOMAIN Chains}
Bodies == {EmitFunction(i).ret : i \in Used}

(* A fused of puts its values in a static array.                           *)
EmittedCompiles ==
  /\ IsInjective(Targets)
  /\ Range(Targets) \intersect DOMAIN Defines = {}
  /\ FunctionNames \intersect (GlobalNames \union Reserved) = {}
  /\ GlobalNames \intersect Reserved = {}
  /\ \A i \in Used :
       ExprCompiles(EmitFunction(i).ret, {j \in Used : j <= i})
  /\ \A v \in Values : ValueCompiles(v)
  /\ \A i \in DOMAIN Chains :
       backends[i] = "fused" /\ Chains[i].source.kind = "of" =>
         WrittenBy(Chains[i].source) \intersect GlobalNames = {}

(* A program that names what the runtime declares is not judged, and one   *)
(* with addresses among its values is not run.                             *)
Named == Values \union UNION {CalledIn(x) \union SymbolsIn(x) : x \in Bodies}
NamesRuntime == Named \intersect (Reserved \union {"first"}) # {}

HoldsAddresses ==
  FunctionNames \intersect (Values \union UNION {SymbolsIn(x) : x \in Bodies})
    # {}

(* The runtime's first is called without a declaration, so that its        *)
(* pointer comes back as an int.                                           *)
Followed(i) ==
  /\ Chains[i].source.kind \in {"range", "of", "empty", "never"}
  /\ OpKinds(Chains[i]) \intersect (SourceOps \union {"throttleTime"}) = {}
  /\ backends[i] = "runtime" => "first" \notin OpKinds(Chains[i])

-----------------------------------------------------------------------------
(* parse_program_text.                                                     *)
Statement ==
  IF Token(text, at) = "fn" THEN ParseFnDef(text, at) ELSE ParseChain(text, at)

(* The statement is taken, or the whole text rejected.                     *)
ParseStatement ==
  /\ phase = "parse"
  /\ KindAt(text, at) # "eof"
  /\ \E read \in {Statement} :
         \/ /\ read.at # 0
            /\ at' = read.at
            /\ program' = Append(program,
                 [is |-> IF Token(text, at) = "fn" THEN "fn" ELSE "chain",
                  from |-> at, to |-> read.at - 1, tree |-> read.tree])
            /\ UNCHANGED phase
         \/ /\ read.at = 0
            /\ phase' = "rejected"
            /\ UNCHANGED << at, program >>
  /\ UNCHANGED << text, lowered, kinds, backends, emitted, globals, next, run,
                  first >>

(* The end of the text, or a character that is no token.                   *)
ParseEnd ==
  /\ phase = "parse"
  /\ KindAt(text, at) = "eof"
  /\ phase' = "lower"
  /\ kinds' = [i \in DOMAIN Functions |-> "unknown"]
  /\ UNCHANGED << text, at, program, lowered, backends, emitted, globals,
                  next, run, first >>

-----------------------------------------------------------------------------
(* lower_program.                                                          *)
ValidSource(source) ==
  LET values == Len(source.values)
  IN  CASE source.kind \in {"range", "timer"} -> values = 2
        [] source.kind = "of" -> values >= 1
        [] source.kind \in {"interval", "defer", "from"} -> values = 1
        [] source.kind = "zip" -> Len(source.sources) >= 2
        [] source.kind \in {"empty", "never"} -> TRUE

(* mark_function_usage.                                                    *)
Mark(marked, op) ==
  LET i == FunctionIndex(op.symbol)
      kind == FunctionKind(op.kind)
  IN  IF ~marked.ok \/ op.kind \notin FunctionOps \union FunctionAndLiteralOps
      THEN marked
      ELSE IF i = 0 \/ marked.kinds[i] \notin {"unknown", kind}
      THEN [marked EXCEPT !.ok = FALSE]
      ELSE [marked EXCEPT !.kinds[i] = kind]

Marked(chain) == FoldLeft(Mark, [ok |-> TRUE, kinds |-> kinds], chain.ops)

LowerChain ==
  /\ phase = "lower" /\ lowered < Len(Chains)
  /\ LET chain == Chains[lowered + 1]
     IN  \/ /\ ValidSource(chain.source) /\ Marked(chain).ok
            /\ kinds' = Marked(chain).kinds
            /\ lowered' = lowered + 1
            /\ UNCHANGED phase
         \/ /\ ~ValidSource(chain.source) \/ ~Marked(chain).ok
            /\ phase' = "refused"
            /\ UNCHANGED << kinds, lowered >>
  /\ UNCHANGED << text, at, program, backends, emitted, globals, next, run,
                  first >>

(* build_execution_plan.                                                   *)
IsFusible(chain) ==
  /\ chain.source.kind \in {"range", "of", "empty"}
  /\ OpKinds(chain) \subseteq Fusible

Plan ==
  /\ phase = "lower" /\ lowered = Len(Chains)
  /\ phase' = "emit"
  /\ backends' = [i \in DOMAIN Chains |->
                    IF IsFusible(Chains[i]) THEN "fused" ELSE "runtime"]
  /\ UNCHANGED << text, at, program, lowered, kinds, emitted, globals, next,
                  run, first >>

(* emit_program_c and gcc.  main prints the target of the last chain.      *)
Emit ==
  /\ phase = "emit"
  /\ phase' = IF Chains = << >> THEN "undefined"
              ELSE IF NamesRuntime THEN "unfollowed"
              ELSE IF ~EmittedCompiles THEN "uncompiled"
              ELSE IF HoldsAddresses \/ \E i \in DOMAIN Chains : ~Followed(i)
              THEN "unfollowed"
              ELSE "run"
  /\ globals' = [v \in GlobalNames |->
                   IF v \in DOMAIN Defines THEN Defines[v] ELSE 0]
  /\ emitted' = EmitFunctions
  /\ next' = Len(Chains) + 1
  /\ UNCHANGED << text, at, program, lowered, kinds, backends, run, first >>

-----------------------------------------------------------------------------
(* The emitted main.                                                       *)
BetweenRuns == phase = "run" /\ next > Len(Chains)

(* Mutant: the variables keep what the last run left.                      *)
StartRunKeeps ==
  /\ BetweenRuns /\ run < Runs
  /\ run' = run + 1
  /\ next' = 1
  /\ first' = IF run = 1 THEN globals ELSE first
  /\ UNCHANGED << phase, text, at, program, lowered, kinds, backends, emitted,
                  globals >>

(* Mutant: one run too many.                                               *)
StartRunAgain ==
  /\ BetweenRuns /\ run <= Runs
  /\ run' = run + 1
  /\ next' = 1
  /\ globals' = [v \in GlobalNames |->
                   IF v \in Range(Targets) THEN 0 ELSE globals[v]]
  /\ first' = IF run = 1 THEN globals ELSE first
  /\ UNCHANGED << phase, text, at, program, lowered, kinds, backends,
                  emitted >>

StartRun ==
  /\ BetweenRuns /\ run < Runs
  /\ run' = run + 1
  /\ next' = 1
  /\ globals' = [v \in GlobalNames |->
                   IF v \in Range(Targets) THEN 0 ELSE globals[v]]
  /\ first' = IF run = 1 THEN globals ELSE first
  /\ UNCHANGED << phase, text, at, program, lowered, kinds, backends,
                  emitted >>

(* The subscriber assigns every item that comes out.                       *)
RunChain ==
  /\ phase = "run" /\ next <= Len(Chains)
  /\ globals' = LET out == ChainOut(next)
                IN  IF out = << >> THEN globals
                    ELSE [globals EXCEPT ![Targets[next]] = Last(out)]
  /\ next' = next + 1
  /\ UNCHANGED << phase, text, at, program, lowered, kinds, backends, emitted,
                  run, first >>

EndRuns ==
  /\ BetweenRuns /\ run = Runs
  /\ phase' = "done"
  /\ UNCHANGED << text, at, program, lowered, kinds, backends, emitted,
                  globals, next, run, first >>

Init ==
  /\ phase = "parse"
  /\ text \in Texts
  /\ at = 1
  /\ program = << >> /\ kinds = << >> /\ backends = << >>
  /\ emitted = << >> /\ globals = << >> /\ first = << >>
  /\ lowered = 0 /\ next = 1 /\ run = 0

Next ==
  \/ ParseStatement \/ ParseEnd
  \/ LowerChain \/ Plan \/ Emit
  \/ StartRun \/ RunChain \/ EndRuns

Spec == Init /\ [][Next]_vars

-----------------------------------------------------------------------------
Stopped == {"rejected", "refused", "undefined", "uncompiled", "unfollowed",
            "done"}

(* The compiler and the program it emits stay within their types: positions *)
(* in the text, functions with one kind, a back end for every chain, whole *)
(* numbers in every variable, no run beyond the last (pipeline_codegen.c). *)
TypeOK ==
  /\ phase \in {"parse", "lower", "emit", "run"} \union Stopped
  /\ text \in Texts
  /\ at \in 1..(Len(text) + 1)
  /\ lowered \in 0..Len(Chains)
  /\ \A i \in DOMAIN kinds : kinds[i] \in Kinds
  /\ \A i \in DOMAIN backends : backends[i] \in {"fused", "runtime"}
  /\ \A v \in DOMAIN globals : globals[v] \in Int
  /\ run \in 0..Runs

(* The parser reads a program as it is written: what it has accepted are   *)
(* the statements the text begins with, each written as the tree it made   *)
(* of it; it rejects no text written as the grammar says, and it stops     *)
(* only where the text ends or a character is no token.                    *)
ParserIsExact ==
  /\ \A i \in DOMAIN program :
       LET s == program[i]
           part == SubSeq(text, s.from, s.to)
       IN  /\ s.from = IF i = 1 THEN 1 ELSE program[i - 1].to + 1
           /\ IF s.is = "fn" THEN part = WriteFn(s.tree)
              ELSE IsWritingOf(part, s.tree)
  /\ phase = "rejected" => text \notin WellFormed
  /\ phase \notin {"parse", "rejected"} =>
       Token(text, at) \in {EndToken, Stray}
  /\ phase # "parse" /\ text \in WellFormed => at = Len(text) + 1

(* Every run of the program leaves what the first one left: nothing an     *)
(* earlier run computed reaches a later one.                               *)
RunsRepeat == phase = "done" /\ Runs > 1 => globals = first
=============================================================================
