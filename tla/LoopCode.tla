------------------------------ MODULE LoopCode ------------------------------
(***************************************************************************)
(* The C that core/planner/astgen.c emits for a lowered pipeline, as data, *)
(* and what that C does.                                                   *)
(*                                                                         *)
(* A pipeline is [source, count, inner, slots, ops], as Planner lowers it. *)
(* A kernel is the emitted run_ function: the declarations of its slots,   *)
(* the shape of its loop, the statements of the loop's body and what it    *)
(* returns.  Two emitters are here: emit_loop_body, which prints text and  *)
(* may inline helpers, and build_segment_ast_body, which builds a tree and *)
(* covers only some pipelines over an external buffer.                     *)
(*                                                                         *)
(* The program's helpers are C functions of their own.  Helper(f) is       *)
(* [params, ifs, ret]: `if (cond) return then;` for every element of ifs,  *)
(* then `return ret;`.  A helper that is called for its effect stores ret  *)
(* through its first parameter.                                            *)
(***************************************************************************)
EXTENDS CSyntax, SequencesExt, Bitwise, TLC

CONSTANTS
  Helper(_),      \* the definition of a helper function
  Address(_),     \* where a symbol's object lives
  Records,        \* the contents of an external buffer
  Garbage         \* what an uninitialised variable holds

-----------------------------------------------------------------------------
(* What C expressions mean.                                                *)
RECURSIVE Uses(_)
Uses(x) ==
  CASE x.e = "var" -> {x.v}
    [] x.e \in {"call", "inlined"} ->
         UNION {Uses(x.args[i]) : i \in DOMAIN x.args}
    [] x.e = "not" -> Uses(x.l)
    [] x.e \in BinOps -> Uses(x.l) \union Uses(x.r)
    [] OTHER -> {}

(* A helper reads what its pointer arguments point at.                     *)
Content(mem, v) == IF v \in DOMAIN mem THEN mem[v] ELSE v

RECURSIVE Eval(_, _, _)
Eval(x, env, mem) ==
  LET called(f, params) ==
        LET taken == SelectInSeq(Helper(f).ifs,
                       LAMBDA c : Eval(c.cond, params, mem) # 0)
        IN  IF taken # 0 THEN Eval(Helper(f).ifs[taken].then, params, mem)
            ELSE Eval(Helper(f).ret, params, mem)
      \* `return e;' becomes `result = e; goto done;', of which an unbraced
      \* if guards only the first half: nothing after the first if runs.
      spliced(f, params) ==
        IF Helper(f).ifs = << >> THEN Eval(Helper(f).ret, params, mem)
        ELSE IF Eval(Helper(f).ifs[1].cond, params, mem) = 0 THEN 0
        ELSE Eval(Helper(f).ifs[1].then, params, mem)
      param(f, i) == Helper(f).params[i]
      \* `decl p = arg;` one after the other in a block: an argument that
      \* names p reads the new, uninitialised p.
      bound == FoldLeftDomain(
                 LAMBDA e, i :
                   (param(x.f, i) :>
                      IF param(x.f, i) \in Uses(x.args[i]) THEN Garbage
                      ELSE Content(mem, Eval(x.args[i], e, mem))) @@ e,
                 env, x.args)
      passed == [p \in Range(Helper(x.f).params) |->
                   LET i == SelectInSeq(Helper(x.f).params,
                                        LAMBDA q : q = p)
                   IN  Content(mem, Eval(x.args[i], env, mem))]
  IN  CASE x.e = "num" -> x.n
        [] x.e = "var" -> env[x.v]
        [] x.e = "symbol" -> Address(x.id)
        [] x.e = "not" -> Truth(Eval(x.l, env, mem) = 0)
        [] x.e = "call" -> called(x.f, passed)
        [] x.e = "inlined" -> spliced(x.f, bound)
        [] OTHER -> Arith(x.e, Eval(x.l, env, mem), Eval(x.r, env, mem))

-----------------------------------------------------------------------------
(* What C statements do.                                                   *)

(* What a statement evaluates: an effect's helper stores what it returns.  *)
Evaluated(c) ==
  CASE c.s = "effect" ->
         IF c.inline THEN Inlined(c.f, << c.dst, c.src >>)
         ELSE Call(c.f, << c.dst, c.src >>)
    [] c.s \in {"continue", "break"} -> Num(0)
    [] OTHER -> c.x

(* st is [env, mem, go]; go is what the last statement did.  A step after  *)
(* the value of the statement and the address it stores to are known.      *)
RECURSIVE Exec(_, _)
Step(now, c, value, at) ==
  CASE c.s \in {"decl", "set"} -> [now EXCEPT !.env = (c.v :> value) @@ @]
    [] c.s = "push" -> [now EXCEPT !.env[c.v] = Append(@, value)]
    [] c.s = "effect" -> [now EXCEPT !.mem[at] = value]
    [] c.s = "if" -> IF value # 0 THEN Exec(now, c.then) ELSE now
    [] c.s \in {"continue", "break"} -> [now EXCEPT !.go = c.s]

Exec(st, block) ==
  FoldLeft(
    LAMBDA now, c :
      IF now.go # "on" THEN now
      ELSE Step(now, c, Eval(Evaluated(c), now.env, now.mem),
                IF c.s = "effect" THEN Eval(c.dst, now.env, now.mem) ELSE 0),
    st, block)

(* The variables a block declares, in order, and those it reads or writes  *)
(* before it has declared them.                                            *)
Declared(block) ==
  LET decls == SelectSeq(block, LAMBDA c : c.s = "decl")
  IN  [i \in DOMAIN decls |-> decls[i].v]

UsedBy(c) ==
  CASE c.s = "decl" -> Uses(c.x)
    [] c.s \in {"set", "push"} -> Uses(c.x) \union {c.v}
    [] c.s = "effect" -> Uses(c.dst) \union Uses(c.src)
    [] c.s = "if" ->
         Uses(c.x) \union UNION {IF "v" \in DOMAIN c.then[i]
                                 THEN {c.then[i].v} ELSE {} :
                                 i \in DOMAIN c.then}
    [] OTHER -> {}

Called(c) ==
  CASE c.s \in {"decl", "set", "push", "if"} -> CalledIn(c.x)
    [] c.s = "effect" -> IF c.inline THEN {} ELSE {c.f}
    [] OTHER -> {}

Symbols(c) == SymbolsIn(Evaluated(c))

-----------------------------------------------------------------------------
(* A pipeline's slots and loop.                                            *)
SlotName(p, i) == p.slots[i].kind
SlotVar(p, i) == Var(SlotName(p, i))

SlotInit(slot) ==
  IF slot.init.is = "symbol" THEN Symbol(slot.init.id) ELSE Num(slot.init.n)

SlotDecls(p) ==
  [i \in DOMAIN p.slots |-> Decl(SlotName(p, i), SlotInit(p.slots[i]))]

ExternalSources == {"external_buffer", "external_window"}
ZipSources == {"zip", "zip_range"}

Smaller(a, b) == IF a < b THEN a ELSE b

(* How many times the loop over src runs for an argument n, and where src  *)
(* starts.                                                                 *)
Trips(p, n) ==
  CASE p.source = "synthetic_records" -> p.count
    [] p.source = "zip" -> Smaller(p.count, p.inner)
    [] p.source = "external_window" ->
         IF n < p.inner THEN 0 ELSE n - p.inner + 1
    [] OTHER -> n

FirstSrc(p) == IF p.source \in ExternalSources THEN 0 ELSE 1

(* The loops over src: one, or one for every value of right.               *)
Rounds(p) ==
  IF p.source = "zip_merge_map_range" THEN [r \in 1..p.inner |-> r]
  ELSE << 0 >>

(* What the loop headers declare.                                          *)
LoopVars(p) ==
  {"src"} \union (IF p.source = "zip_merge_map_range" THEN {"right"} ELSE {})

(* The items of an external_window are one array, filled again for every   *)
(* item of the loop; the sum of the records stands for its content.        *)
Window == Address("window_items")
WindowContent(p, src) ==
  FoldLeft(LAMBDA a, i : a + Records[src + i], 0, [i \in 1..p.inner |-> i])

(* The first statements of the body: the item.                             *)
ItemDecls(p) ==
  CASE p.source \in ZipSources ->
         << Decl("left", Var("src")), Decl("right", Var("src")),
            Decl("value", Num(0)) >>
    [] p.source = "zip_merge_map_range" ->
         << Decl("zipped_left", Var("src")), Decl("zipped_right", Var("src")),
            Decl("value", Num(0)) >>
    [] p.source \in ExternalSources -> << Decl("value", Var("*src")) >>
    [] OTHER -> << Decl("value", Var("src")) >>

HasBreakingOp(p) ==
  \E i \in DOMAIN p.ops : p.ops[i].kind \in {"take", "takeWhile", "first"}

BreakFlag(p) ==
  IF HasBreakingOp(p) THEN << Decl("should_break", Num(0)) >> ELSE << >>
BreakTest(p) ==
  IF HasBreakingOp(p) THEN << If(Var("should_break"), Break) >> ELSE << >>

Kernel(p, body, externs) ==
  [p |-> p, decls |-> SlotDecls(p), body |-> body, externs |-> externs]

LastOp(p) == p.ops[Len(p.ops)]

(* first has no result of its own: a kernel that ends in it returns 0.     *)
ReturnExpr(p, st) ==
  LET slot(i) == st.env[SlotName(p, i)]
      op == LastOp(p)
  IN  IF p.ops = << >> THEN 0
      ELSE CASE op.kind = "last" -> IF slot(op.aux) # 0 THEN slot(op.slot)
                                    ELSE 0
             [] op.kind \in {"reduce", "reduceMut"} -> slot(op.slot)
             [] OTHER -> 0

(* One loop over src; a break leaves this loop only.                       *)
RunRound(k, start, right, n) ==
  LET p == k.p
      src(i) == FirstSrc(p) + i - 1
      item(i) == IF p.source = "external_buffer" THEN Records[src(i) + 1]
                 ELSE Window
      slots(env) == [v \in Range(Declared(k.decls)) |-> env[v]]
      fill(mem, i) == IF p.source = "external_window"
                      THEN (Window :> WindowContent(p, src(i))) @@ mem
                      ELSE mem
  IN  FoldLeft(LAMBDA st, i :
                 IF st.go = "break" THEN st
                 ELSE Exec([env |-> ("src" :> src(i)) @@ ("*src" :> item(i))
                                    @@ ("right" :> right) @@ slots(st.env),
                            mem |-> fill(st.mem, i), go |-> "on"], k.body),
               [start EXCEPT !.go = "on"],
               [i \in 1..Trips(p, n) |-> i])

(* run_<pipeline>(n): the result and the memory it leaves.  The window is  *)
(* a local array: what still points at it points nowhere.                  *)
Run(k, n, mem) ==
  LET start == Exec([env |-> << >>, mem |-> mem, go |-> "on"], k.decls)
      end == FoldLeft(LAMBDA st, right : RunRound(k, st, right, n),
                      start, Rounds(k.p))
      left == [a \in DOMAIN mem |-> end.mem[a]]
  IN  [result |-> Content(left, ReturnExpr(k.p, end)), mem |-> left]

Distinct(names) ==
  \A i, j \in DOMAIN names : i # j => names[i] # names[j]

(* Whether a C compiler accepts the kernel: no scope declares a name       *)
(* twice, no function is declared with two types, and every name is        *)
(* declared before it is used.                                             *)
Compiles(k) ==
  LET outer == Range(Declared(k.decls)) \union LoopVars(k.p) \union {"*src"}
      externs == {d.name : d \in k.externs}
  IN  /\ Distinct(Declared(k.decls))
      /\ \A d, e \in k.externs : d.name = e.name => d = e
      /\ \A c \in Range(k.decls) \union Range(k.body) :
           Called(c) \union Symbols(c) \subseteq externs
      /\ Distinct(Declared(k.body))
      /\ \A i \in DOMAIN k.body :
           UsedBy(k.body[i]) \subseteq
             outer \union Range(Declared(SubSeq(k.body, 1, i - 1)))

-----------------------------------------------------------------------------
(* emit_loop_body.  Filter-like stages in a row share one `void *' view of *)
(* the value; the view is declared where such a run starts.                *)
View == "__rx_value_view"

UsesSharedView(kind) ==
  kind \in {"filter", "takeWhile", "skipWhile", "distinctUntilChanged",
            "reduceMut"}
PreservesValue(kind) ==
  kind \in {"filter", "takeWhile", "skipWhile", "distinctUntilChanged"}

StartsViewRun(p, i) ==
  /\ UsesSharedView(p.ops[i].kind)
  /\ \/ i = 1
     \/ ~UsesSharedView(p.ops[i - 1].kind)
     \/ ~PreservesValue(p.ops[i - 1].kind)

(* Mutant: every stage that reads the view declares it.                    *)
ViewDeclEvery(p, i) ==
  IF UsesSharedView(p.ops[i].kind) THEN << Decl(View, Var("value")) >>
  ELSE << >>

ViewDecl(p, i) ==
  IF StartsViewRun(p, i) THEN << Decl(View, Var("value")) >> ELSE << >>

Fn(op) == op.stage.primary.id
Literal(op) == op.stage.primary.n
Scratch(op) == Symbol(op.stage.secondary.id)
Key(i) == "key_" \o ToString(i)

(* Mutant: the parameters of an inlined helper are bound back to front.    *)
CallOfSwapped(inline, f, args) ==
  IF inline THEN Inlined(f, Reverse(args)) ELSE Call(f, args)

(* A helper's definition replaces its call when its source is at hand.     *)
CallOf(inline, f, args) == IF inline THEN Inlined(f, args) ELSE Call(f, args)

PairMapCode(inline, p, op) ==
  << Set("value", CallOf(inline, Fn(op), << Var("left"), Var("right") >>)) >>

TripleMapCode(inline, p, op) ==
  << Set("value", CallOf(inline, Fn(op),
           << Var("zipped_left"), Var("zipped_right"), Var("right") >>)) >>

MapCode(inline, p, op) ==
  << Set("value", CallOf(inline, Fn(op), << Var("value") >>)) >>

MapIntoCode(inline, p, op) ==
  << Effect(Fn(op), Scratch(op), Var("value"), inline),
     Set("value", Scratch(op)) >>

FilterCode(inline, p, op) ==
  << If(Negation(CallOf(inline, Fn(op), << Var(View) >>)), Continue) >>

(* scan and reduce alike: the slot and the value both become the result.   *)
AccumulateCode(inline, p, op) ==
  << Set(SlotName(p, op.slot),
         CallOf(inline, Fn(op), << SlotVar(p, op.slot), Var("value") >>)),
     Set("value", SlotVar(p, op.slot)) >>
ReduceCode(inline, p, op) == AccumulateCode(inline, p, op)

ScanMutCode(inline, p, op) ==
  << Effect(Fn(op), SlotVar(p, op.slot), Var("value"), inline),
     Set("value", SlotVar(p, op.slot)) >>

ReduceMutCode(inline, p, op) ==
  << Effect(Fn(op), SlotVar(p, op.slot), Var(View), inline) >>
  \o IF op = LastOp(p) THEN << >> ELSE << Set("value", SlotVar(p, op.slot)) >>

(* Mutant: the count is tested only before it grows.                       *)
TakeCodeLate(p, op) ==
  LET count == SlotName(p, op.slot)
  IN  << If(Bin("<", Num(Literal(op)), Var(count)), Break),
         Set(count, Bin("+", Var(count), Num(1))) >>

TakeCode(p, op) ==
  LET count == SlotName(p, op.slot)
      full == Negation(Bin("<", Var(count), Num(Literal(op))))
  IN  << If(full, Break),
         Set(count, Bin("+", Var(count), Num(1))),
         If(full, << Set("should_break", Num(1)) >>) >>

SkipCode(p, op) ==
  LET count == SlotName(p, op.slot)
  IN  << If(Bin("<", Var(count), Num(Literal(op))),
            << Set(count, Bin("+", Var(count), Num(1))) >> \o Continue) >>

TakeWhileCode(inline, p, op) ==
  << If(Negation(CallOf(inline, Fn(op), << Var(View) >>)), Break) >>


DistinctUntilChangedCode(inline, p, op, i) ==
  << Decl(Key(i), CallOf(inline, Fn(op), << Var(View) >>)),
     If(Bin("&&", SlotVar(p, op.aux),
                  Bin("==", Var(Key(i)), SlotVar(p, op.slot))), Continue),
     Set(SlotName(p, op.slot), Var(Key(i))),
     Set(SlotName(p, op.aux), Num(1)) >>

SkipWhileCode(inline, p, op) ==
  << If(Bin("&&", Negation(SlotVar(p, op.slot)),
                  CallOf(inline, Fn(op), << Var(View) >>)), Continue),
     Set(SlotName(p, op.slot), Num(1)) >>

FirstCode == << Set("should_break", Num(1)) >>

LastCode(p, op) ==
  << Set(SlotName(p, op.slot), Var("value")),
     Set(SlotName(p, op.aux), Num(1)) >>

OpCode(inline, p, i) ==
  LET op == p.ops[i]
  IN  CASE op.kind = "pairMap" -> PairMapCode(inline, p, op)
        [] op.kind = "tripleMap" -> TripleMapCode(inline, p, op)
        [] op.kind = "map" -> MapCode(inline, p, op)
        [] op.kind = "mapInto" -> MapIntoCode(inline, p, op)
        [] op.kind = "filter" -> FilterCode(inline, p, op)
        [] op.kind = "scan" -> AccumulateCode(inline, p, op)
        [] op.kind = "reduce" -> ReduceCode(inline, p, op)
        [] op.kind = "scanMut" -> ScanMutCode(inline, p, op)
        [] op.kind = "reduceMut" -> ReduceMutCode(inline, p, op)
        [] op.kind = "take" -> TakeCode(p, op)
        [] op.kind = "skip" -> SkipCode(p, op)
        [] op.kind = "takeWhile" -> TakeWhileCode(inline, p, op)
        [] op.kind = "distinctUntilChanged" ->
             DistinctUntilChangedCode(inline, p, op, i)
        [] op.kind = "skipWhile" -> SkipWhileCode(inline, p, op)
        [] op.kind = "first" -> FirstCode
        [] op.kind = "last" -> LastCode(p, op)

LoopBody(inline, p) ==
  ItemDecls(p) \o BreakFlag(p)
  \o FlattenSeq([i \in DOMAIN p.ops |->
                   ViewDecl(p, i) \o OpCode(inline, p, i)])
  \o BreakTest(p)

-----------------------------------------------------------------------------
(* build_segment_ast_body: trees for pipelines over an external buffer     *)
(* whose operations are all among these.  It calls helpers and never       *)
(* inlines them.                                                           *)
AstKinds == {"mapInto", "scanMut", "filter", "distinctUntilChanged",
             "skipWhile", "reduceMut", "first", "last"}

AstSupports(p) ==
  /\ p.source = "external_buffer"
  /\ \A i \in DOMAIN p.ops : p.ops[i].kind \in AstKinds

AstCall(op, args) == Call(Fn(op), args)

AstViewDecl(p, i) ==
  IF StartsViewRun(p, i) THEN << Decl(View, Var("value")) >> ELSE << >>

AstMapInto(p, op) ==
  << Effect(Fn(op), Scratch(op), Var("value"), FALSE),
     Set("value", Scratch(op)) >>

(* Mutant: the item stays what it was before the state was updated.        *)
AstScanMutKeepsValue(p, op) ==
  << Effect(Fn(op), SlotVar(p, op.slot), Var("value"), FALSE) >>

AstScanMut(p, op) ==
  << Effect(Fn(op), SlotVar(p, op.slot), Var("value"), FALSE),
     Set("value", SlotVar(p, op.slot)) >>

AstFilter(p, op) == << If(Negation(AstCall(op, << Var(View) >>)), Continue) >>

AstDistinctUntilChanged(p, op, i) ==
  LET same == Bin("==", Var(Key(i)), SlotVar(p, op.slot))
  IN  << Decl(Key(i), AstCall(op, << Var(View) >>)),
         If(Bin("&&", SlotVar(p, op.aux), same), Continue),
         Set(SlotName(p, op.slot), Var(Key(i))),
         Set(SlotName(p, op.aux), Num(1)) >>

AstSkipWhile(p, op) ==
  LET passed == SlotVar(p, op.slot)
  IN  << If(Bin("&&", Negation(passed), AstCall(op, << Var(View) >>)),
            Continue),
         Set(SlotName(p, op.slot), Num(1)) >>

AstReduceMut(p, op) ==
  << Effect(Fn(op), SlotVar(p, op.slot), Var(View), FALSE) >>
  \o IF op = LastOp(p) THEN << >> ELSE << Set("value", SlotVar(p, op.slot)) >>

AstFirst == << Set("should_break", Num(1)) >>

AstLast(p, op) ==
  << Set(SlotName(p, op.slot), Var("value")),
     Set(SlotName(p, op.aux), Num(1)) >>

AstOp(p, i) ==
  LET op == p.ops[i]
  IN  CASE op.kind = "mapInto" -> AstMapInto(p, op)
        [] op.kind = "scanMut" -> AstScanMut(p, op)
        [] op.kind = "filter" -> AstFilter(p, op)
        [] op.kind = "distinctUntilChanged" ->
             AstDistinctUntilChanged(p, op, i)
        [] op.kind = "skipWhile" -> AstSkipWhile(p, op)
        [] op.kind = "reduceMut" -> AstReduceMut(p, op)
        [] op.kind = "first" -> AstFirst
        [] op.kind = "last" -> AstLast(p, op)

AstBody(p) ==
  << Decl("value", Var("*src")) >> \o BreakFlag(p)
  \o FlattenSeq([i \in DOMAIN p.ops |-> AstViewDecl(p, i) \o AstOp(p, i)])
  \o BreakTest(p)

HelperNames(p) == {Fn(p.ops[i]) : i \in DOMAIN p.ops} \ {""}

-----------------------------------------------------------------------------
(* emit_storage_helpers.  The embedder allocates rx_storage_bytes bytes    *)
(* and rx_bind_storage places every symbol in them; size and alignment of  *)
(* a symbol come from its resolver.                                        *)
Unique(seq) ==
  FoldLeft(LAMBDA out, x : IF x \in Range(out) THEN out ELSE Append(out, x),
           << >>, seq)

StorageSymbols(p) ==
  LET pointers == SelectSeq(p.slots, LAMBDA s : s.pointer)
      users == SelectSeq(p.ops,
                 LAMBDA o : o.kind \in {"mapInto", "scanMut", "reduceMut"})
  IN  Unique([i \in DOMAIN pointers |-> pointers[i].init.id]
             \o [i \in DOMAIN users |-> users[i].stage.secondary.id])

(* What is declared before the kernel.  A header declares the helpers and  *)
(* the objects.  Without one the program declares the helpers whose source *)
(* is not at hand, each with the type its stage expects, and no object.    *)
Prototype(kind) ==
  CASE kind \in {"map", "distinctUntilChanged"} -> "void *(void *)"
    [] kind \in {"filter", "takeWhile", "skipWhile"} -> "bool (void *)"
    [] kind \in {"pairMap", "scan", "reduce"} -> "void *(void *, void *)"
    [] kind \in {"mapInto", "scanMut", "reduceMut"} -> "void (void *, void *)"
    [] kind = "tripleMap" -> "void *(void *, void *, void *)"

Extern(name, type) == [name |-> name, type |-> type]

Externs(p, options) ==
  LET calling == {op \in Range(p.ops) : Fn(op) # ""}
  IN  CASE options.header ->
             {Extern(name, "its own") :
                name \in HelperNames(p) \union Range(StorageSymbols(p))}
        [] ~options.header /\ ~options.helpers ->
             {Extern(Fn(op), Prototype(op.kind)) : op \in calling}
        [] OTHER -> {}

(* (value + mask) & ~mask.                                                 *)
AlignUp(value, alignment) ==
  LET mask == alignment - 1
  IN  IF alignment > 0 THEN (value + mask) - ((value + mask) & mask)
      ELSE value

(* Mutant: the size is summed without the gaps alignment leaves.           *)
StorageBytesPacked(symbols, size, align) ==
  FoldLeft(LAMBDA cursor, s : cursor + size[s], 0, symbols)

StorageBytes(symbols, size, align) ==
  FoldLeft(LAMBDA cursor, s : AlignUp(cursor, align[s]) + size[s], 0, symbols)

(* The offset at which each symbol is bound.                               *)
BindStorage(symbols, size, align) ==
  FoldLeft(LAMBDA r, s :
             LET at == AlignUp(r.cursor, align[s])
             IN  [cursor |-> at + size[s], offset |-> (s :> at) @@ r.offset],
           [cursor |-> 0, offset |-> << >>], symbols).offset
=============================================================================
