----------------------------- MODULE GraphCode ------------------------------
(***************************************************************************)
(* The graph optimiser of core/planner/graph_opt.c: the helpers' returned  *)
(* expressions are parsed, composed along the pipeline and simplified, and *)
(* the loop computes them without a call.  What it cannot read makes it    *)
(* give up, and the plain loop is emitted instead.                         *)
(***************************************************************************)
EXTENDS LoopCode

(* The parser knows + - * / == < and identifiers.                          *)
ParsedOps == {"+", "-", "*", "/", "<", "=="}

RECURSIVE Readable(_)
Readable(x) ==
  CASE x.e \in {"num", "var"} -> TRUE
    [] x.e \in ParsedOps -> Readable(x.l) /\ Readable(x.r)
    [] OTHER -> FALSE

(* A statement other than a cast of a parameter and a return is not read.  *)
GraphReads(f) == Helper(f).ifs = << >> /\ Readable(Helper(f).ret)

(* The optimiser expects its own parameter names; an identifier it does    *)
(* not know stays the name of a variable.                                  *)
RECURSIVE Substitute(_, _)
Substitute(x, args) ==
  CASE x.e = "var" -> IF x.v \in DOMAIN args THEN args[x.v] ELSE x
    [] x.e = "num" -> x
    [] OTHER -> Bin(x.e, Substitute(x.l, args), Substitute(x.r, args))

IsNum(x) == x.e = "num"
IsNumOf(x, n) == IsNum(x) /\ x.n = n

Offset(base, n) ==
  IF n = 0 THEN base
  ELSE IF n > 0 THEN Bin("+", base, Num(n)) ELSE Bin("-", base, Num(-n))

Sign(op) == IF op = "+" THEN 1 ELSE -1

Folded(op, a, b) == IF op = "/" /\ b = 0 THEN 0 ELSE Arith(op, a, b)

(* Mutant: a product by any constant is taken for the product by 1.        *)
SimplifyNodeDropsFactor(op, l, r) ==
  IF op = "*" /\ IsNum(r) THEN l ELSE Bin(op, l, r)

(* One node, its operands simplified: constants are folded, neutral        *)
(* operands dropped, and (x o a) +- b becomes one offset.  The offset      *)
(* takes a as it stands, whichever operator o is.                          *)
SimplifyNode(op, l, r) ==
  IF IsNum(l) /\ IsNum(r) THEN Num(Folded(op, l.n, r.n))
  ELSE IF op \in {"+", "-"} /\ IsNumOf(r, 0) THEN l
  ELSE IF op \in {"+", "-"} /\ IsNum(r) /\ l.e \in {"+", "-"} /\ IsNum(l.r)
  THEN Offset(l.l, l.r.n + Sign(op) * r.n)
  ELSE IF op \in {"*", "/"} /\ IsNumOf(r, 1) THEN l
  ELSE Bin(op, l, r)

RECURSIVE Simplify(_)
Simplify(x) ==
  IF x.e \in {"num", "var"} THEN x
  ELSE SimplifyNode(x.e, Simplify(x.l), Simplify(x.r))

(* try_parse_function_expression.                                          *)
Composed(f, args) == Simplify(Substitute(Helper(f).ret, args))

-----------------------------------------------------------------------------
(* g is [ok, code, cur, declared]: the code so far, the expression of the  *)
(* current item (none before a zip's first stage) and whether `value' has  *)
(* been declared for it.                                                   *)
Emitted(g, code) == [g EXCEPT !.code = @ \o code]
GiveUp(g) == [g EXCEPT !.ok = FALSE]
IfReads(g, op, next) == IF GraphReads(Fn(op)) THEN next ELSE GiveUp(g)

(* Tests need the item in a variable.                                      *)
Materialize(g) ==
  IF g.cur = Var("value") THEN g
  ELSE IF g.declared \/ "value" \in Uses(g.cur)
  THEN [Emitted(g, << Set("value", g.cur) >>) EXCEPT !.cur = Var("value")]
  ELSE [Emitted(g, << Decl("value", g.cur) >>) EXCEPT
          !.cur = Var("value"), !.declared = TRUE]

Becomes(g, expr) == [g EXCEPT !.cur = expr, !.declared = FALSE]

OfItem(g, op) == Composed(Fn(op), "raw" :> g.cur)

GraphPairMap(g, op) ==
  IfReads(g, op, Becomes(g, Composed(Fn(op),
    ("left_raw" :> Var("left")) @@ ("right_raw" :> Var("right")))))

GraphTripleMap(g, op) ==
  IfReads(g, op, Becomes(g, Composed(Fn(op),
    ("zipped_left_raw" :> Var("zipped_left"))
    @@ ("zipped_right_raw" :> Var("zipped_right"))
    @@ ("right_raw" :> Var("right")))))

GraphMap(g, op) == IfReads(g, op, Becomes(g, OfItem(g, op)))

GraphFilter(g, op) ==
  LET m == Materialize(g)
  IN  IfReads(g, op, Emitted(m, << If(Negation(OfItem(m, op)), Continue) >>))

GraphAccumulate(p, g, op) ==
  LET name == SlotName(p, op.slot)
      next == Composed(Fn(op), ("raw_accum" :> Var(name))
                               @@ ("raw_next" :> g.cur))
  IN  IfReads(g, op, Becomes(Emitted(g, << Set(name, next) >>), Var(name)))
GraphReduce(p, g, op) == GraphAccumulate(p, g, op)

GraphTake(p, g, op) ==
  LET count == SlotName(p, op.slot)
      full == Negation(Bin("<", Var(count), Num(Literal(op))))
  IN  Emitted(g, << If(full, Break),
                    Set(count, Bin("+", Var(count), Num(1))),
                    If(full, << Set("should_break", Num(1)) >>) >>)

GraphSkip(p, g, op) ==
  LET count == SlotName(p, op.slot)
  IN  Emitted(g, << If(Bin("<", Var(count), Num(Literal(op))),
                       << Set(count, Bin("+", Var(count), Num(1))) >>
                       \o Continue) >>)

GraphTakeWhile(g, op) ==
  LET m == Materialize(g)
  IN  IfReads(g, op, Emitted(m, << If(Negation(OfItem(m, op)), Break) >>))

(* The key has one name, whatever the operation's index.                   *)
GraphDistinctUntilChanged(p, g, op) ==
  LET m == Materialize(g)
      same == Bin("==", Var("key"), SlotVar(p, op.slot))
  IN  IfReads(g, op, Emitted(m,
        << Decl("key", OfItem(m, op)),
           If(Bin("&&", SlotVar(p, op.aux), same), Continue),
           Set(SlotName(p, op.slot), Var("key")),
           Set(SlotName(p, op.aux), Num(1)) >>))

GraphSkipWhile(p, g, op) ==
  LET m == Materialize(g)
      passed == SlotVar(p, op.slot)
  IN  IfReads(g, op, Emitted(m,
        << If(Bin("&&", Negation(passed), OfItem(m, op)), Continue),
           Set(SlotName(p, op.slot), Num(1)) >>))

GraphLast(p, g, op) ==
  LET m == Materialize(g)
  IN  Emitted(m, << Set(SlotName(p, op.slot), m.cur),
                    Set(SlotName(p, op.aux), Num(1)) >>)

GraphFirst(g) == Emitted(Materialize(g), << Set("should_break", Num(1)) >>)

GraphOp(p, g, i) ==
  LET op == p.ops[i]
  IN  CASE op.kind = "pairMap" -> GraphPairMap(g, op)
        [] op.kind = "tripleMap" -> GraphTripleMap(g, op)
        [] op.kind = "map" -> GraphMap(g, op)
        [] op.kind = "filter" -> GraphFilter(g, op)
        [] op.kind = "scan" -> GraphAccumulate(p, g, op)
        [] op.kind = "reduce" -> GraphReduce(p, g, op)
        [] op.kind = "take" -> GraphTake(p, g, op)
        [] op.kind = "skip" -> GraphSkip(p, g, op)
        [] op.kind = "takeWhile" -> GraphTakeWhile(g, op)
        [] op.kind = "distinctUntilChanged" ->
             GraphDistinctUntilChanged(p, g, op)
        [] op.kind = "skipWhile" -> GraphSkipWhile(p, g, op)
        [] op.kind = "last" -> GraphLast(p, g, op)
        [] op.kind = "first" -> GraphFirst(g)
        [] OTHER -> GiveUp(g)

(* The zips' items have no `value' here.                                   *)
GraphItemDecls(p) ==
  IF p.source \in ZipSources
  THEN << Decl("left", Var("src")), Decl("right", Var("src")) >>
  ELSE IF p.source = "zip_merge_map_range"
  THEN << Decl("zipped_left", Var("src")), Decl("zipped_right", Var("src")) >>
  ELSE << >>

GraphStart(p) ==
  [ok |-> p.source \notin ExternalSources,
   code |-> GraphItemDecls(p) \o BreakFlag(p),
   cur |-> Var("src"), declared |-> FALSE]

GraphLoop(p) ==
  LET end == FoldLeftDomain(
               LAMBDA g, i : IF g.ok THEN GraphOp(p, g, i) ELSE g,
               GraphStart(p), p.ops)
  IN  [end EXCEPT !.code = @ \o BreakTest(p)]

-----------------------------------------------------------------------------
(* rx_build_c_program: the tree first, then the optimiser when it is asked *)
(* for and has the helpers' source, then the plain loop.                   *)
LoopKernel(p, options) ==
  Kernel(p, LoopBody(options.helpers, p), Externs(p, options))
AstKernel(p, options) == Kernel(p, AstBody(p), Externs(p, options))
GraphKernel(p, options) == Kernel(p, GraphLoop(p).code, Externs(p, options))

UsesGraph(p, options) ==
  options.graph /\ options.helpers /\ ~AstSupports(p) /\ GraphLoop(p).ok

EmitProgram(p, options) ==
  IF AstSupports(p) THEN AstKernel(p, options)
  ELSE IF UsesGraph(p, options) THEN GraphKernel(p, options)
  ELSE LoopKernel(p, options)
=============================================================================
