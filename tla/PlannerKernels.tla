--------------------------- MODULE PlannerKernels ---------------------------
(***************************************************************************)
(* The planner together with the code it emits.  When Planner is done, the *)
(* lowered pipeline goes through each of the C emitters, and the kernels   *)
(* they print are run against what the operators mean (RxReference).       *)
(***************************************************************************)
EXTENDS Planner, GraphCode

CONSTANTS
  Accumulator,    \* a helper that computes what every accumulating one does
  Initial(_),     \* the content of a symbol's object before the first run
  SizeOf(_),      \* its size and alignment in bytes
  AlignOf(_),
  Runs            \* the arguments the kernels are called with

-----------------------------------------------------------------------------
(* The pipeline as rx_lower_pipeline_segment leaves it.                    *)
LowerCounts ==
  [count |-> CASE source.name = "synthetic_records" -> source.args[1].n
               [] source.name = "zip" -> source.args[2].n
               [] OTHER -> 0,
   inner |-> CASE source.name \in {"external_window", "zip_merge_map_range"} ->
                    source.args[1].n
               [] source.name = "zip" -> source.args[3].n
               [] OTHER -> 0]

Ir == [source |-> source.name, count |-> LowerCounts.count,
       inner |-> LowerCounts.inner, slots |-> slots, ops |-> ops]

Options == [helpers : BOOLEAN, graph : BOOLEAN, header : BOOLEAN]

(* The objects the kernel is given: one for every symbol.                  *)
Objects(p) ==
  LET ids == Range(StorageSymbols(p))
  IN  [a \in {Address(id) : id \in ids} |->
         Initial(CHOOSE id \in ids : Address(id) = a)]

ResultOf(k, n) == Run(k, n, Objects(k.p))

-----------------------------------------------------------------------------
(* What the operators mean.                                                *)
Value(f, args) ==
  Eval(Call(f, [i \in DOMAIN args |-> Num(args[i])]), << >>, << >>)

(* mapInto's helper writes through its first parameter.                    *)
ValueOf(f, v) ==
  Value(f, IF Len(Helper(f).params) = 2 THEN << 0, v >> ELSE << v >>)
Accumulate(a, v) == Value(Accumulator, << a, v >>)
Holds(f, v) == ValueOf(f, v) # 0

Ref == INSTANCE RxReference WITH
         Done <- "done", Stray <- "stray", Pred <- Holds, Mapper <- ValueOf,
         Accum <- Accumulate, Key <- ValueOf

Seed(p, op) ==
  LET slot == p.slots[op.slot]
  IN  IF slot.pointer THEN Initial(slot.init.id) ELSE slot.init.n

RxStage(p, op) ==
  CASE op.kind \in {"scan", "scanMut", "reduce", "reduceMut"} ->
         [op |-> "scanfrom", arg |-> Seed(p, op)]
    [] op.kind \in {"map", "mapInto"} -> [op |-> "map", arg |-> Fn(op)]
    [] op.kind \in CountStages -> [op |-> op.kind, arg |-> Literal(op)]
    [] OTHER -> [op |-> op.kind, arg |-> Fn(op)]

Heads == {"pairMap", "tripleMap"}
StartsWithHead(p) == p.ops # << >> /\ p.ops[1].kind \in Heads

(* The items of a source; a zip's are what its first stage makes of them.  *)
Items(p, n) ==
  LET flat == [i \in 1..Trips(p, n) |-> i]
  IN  CASE p.source \in ZipSources /\ StartsWithHead(p) ->
             [i \in DOMAIN flat |-> Value(Fn(p.ops[1]), << i, i >>)]
        [] p.source = "zip_merge_map_range" /\ StartsWithHead(p) ->
             FlattenSeq([right \in 1..p.inner |->
               [i \in DOMAIN flat |->
                  Value(Fn(p.ops[1]), << i, i, right >>)]])
        [] p.source = "external_buffer" -> SubSeq(Records, 1, n)
        [] p.source = "external_window" ->
             [i \in DOMAIN flat |-> WindowContent(p, i - 1)]
        [] OTHER -> flat

Meaning(p, n) ==
  LET chain == IF StartsWithHead(p) THEN Tail(p.ops) ELSE p.ops
      out == Ref!Rx([i \in DOMAIN chain |-> RxStage(p, chain[i])],
                    Items(p, n)).out
  IN  IF p.ops = << >> \/ LastOp(p).kind \notin Terminals THEN 0
      ELSE IF out # << >> THEN out[Len(out)]
      ELSE IF LastOp(p).kind = "last" THEN 0
      ELSE Seed(p, LastOp(p))

-----------------------------------------------------------------------------
(* Where the kernels are known not to compute what the operators mean.     *)

(* first only stops the loop; its kernel returns 0.                        *)
EndsInFirst(p) == p.ops # << >> /\ LastOp(p).kind = "first"

(* takeWhile's break leaves the loop over src; the next value of right     *)
(* starts it again.                                                        *)
StopsInnerLoopOnly(p) ==
  /\ p.source = "zip_merge_map_range"
  /\ \E i \in DOMAIN p.ops : p.ops[i].kind = "takeWhile"

(* last keeps the pointer of an object that later items change: the state  *)
(* of a scanMut or mapInto's buffer, when an operation between them may    *)
(* drop an item, or the window, which is gone when the loop is.            *)
Replaces == {"map", "mapInto", "scan", "scanMut", "pairMap", "tripleMap"}
MayDropLast(p) ==
  {"filter", "distinctUntilChanged", "takeWhile"}
  \union (IF p.source = "zip_merge_map_range" THEN {"take"} ELSE {})

KeepsPointer(p) ==
  LET kinds == [i \in DOMAIN p.ops |-> p.ops[i].kind]
      maker == SelectLastInSeq(kinds, LAMBDA kind : kind \in Replaces)
  IN  /\ p.ops # << >> /\ LastOp(p).kind = "last"
      /\ \/ maker = 0 /\ p.source = "external_window"
         \/ /\ maker # 0 /\ kinds[maker] \in {"mapInto", "scanMut"}
            /\ \E i \in DOMAIN kinds : i > maker /\ kinds[i] \in MayDropLast(p)

(* A pairMap or tripleMap that is not the first stage starts again from    *)
(* the zip's items.                                                        *)
HeadInside(p) == \E i \in DOMAIN p.ops : i > 1 /\ p.ops[i].kind \in Heads

(* What a helper's text must be for its body to be put in place of a call: *)
(* no unbraced `if', and no parameter named like a variable it is given.   *)
CallerVars == {"value", "left", "right", "zipped_left", "zipped_right", View}
SafeToInline(f) ==
  /\ Helper(f).ifs = << >>
  /\ Range(Helper(f).params) \intersect CallerVars = {}

Inlinable(p) == \A f \in HelperNames(p) : SafeToInline(f)

(* x - a, with +- b folded into it, loses the sign of a.                   *)
RECURSIVE Subtracts(_)
Subtracts(x) ==
  CASE x.e \in {"num", "var"} -> FALSE
    [] OTHER -> x.e = "-" \/ Subtracts(x.l) \/ Subtracts(x.r)
HasSubtraction(p) == \E f \in HelperNames(p) : Subtracts(Helper(f).ret)

Meant(p) ==
  ~ \/ EndsInFirst(p) \/ StopsInnerLoopOnly(p) \/ KeepsPointer(p)
    \/ HeadInside(p)

-----------------------------------------------------------------------------
(* Where the emitted program is known not to compile.                      *)

(* Two operations of a kind with state declare one slot twice.             *)
SlotTwice(p) == ~Distinct([i \in DOMAIN p.slots |-> p.slots[i].kind])

(* The view of the value is declared again in the same block.              *)
ViewTwice(p) ==
  \E i, j \in DOMAIN p.ops :
    i < j /\ StartsViewRun(p, i) /\ StartsViewRun(p, j)

(* left and right exist only in the loops over zips.                       *)
LacksZip(p, i) ==
  \/ p.ops[i].kind = "pairMap" /\ p.source \notin ZipSources
  \/ p.ops[i].kind = "tripleMap" /\ p.source # "zip_merge_map_range"
HeadWithoutZip(p) == \E i \in DOMAIN p.ops : LacksZip(p, i)

(* The tree calls helpers that the program takes for inlined.              *)
CallsUndeclared(p, options) ==
  AstSupports(p) /\ options.helpers /\ ~options.header
  /\ HelperNames(p) # {}

(* Only a header declares the objects that states and scratches point to.  *)
ObjectsUndeclared(p, options) == ~options.header /\ StorageSymbols(p) # << >>

(* A helper that stages of two types share is declared with both.          *)
DeclaredTwice(p, options) ==
  /\ ~options.header /\ ~options.helpers
  /\ \E o, q \in Range(p.ops) :
       Fn(o) # "" /\ Fn(o) = Fn(q) /\ Prototype(o.kind) # Prototype(q.kind)

(* The optimiser declares `value' again once the item has been replaced by *)
(* an expression that does not mention it, and a second key.               *)
ForgetsValue(op) ==
  \/ op.kind \in {"scan", "reduce"} \union Heads
  \/ op.kind = "map" /\ "raw" \notin Uses(Helper(Fn(op)).ret)
Materializes(op) ==
  op.kind \in {"filter", "takeWhile", "skipWhile", "distinctUntilChanged",
               "last", "first"}
ValueTwice(p) ==
  \E i, j, k \in DOMAIN p.ops :
    /\ i < k /\ k < j
    /\ Materializes(p.ops[i]) /\ ForgetsValue(p.ops[k])
    /\ Materializes(p.ops[j])


(* An expression the optimiser never needs is never emitted.               *)
NeedsLackingZip(p) ==
  \E i, j \in DOMAIN p.ops :
    /\ i < j /\ LacksZip(p, i)
    /\ Materializes(p.ops[j]) \/ p.ops[j].kind \in {"scan", "reduce"}
    /\ \A k \in (i + 1)..(j - 1) : ~ForgetsValue(p.ops[k])

(* The optimiser takes a helper's own names for variables of the loop,     *)
(* unless they are the ones it expects.                                    *)
ExpectedNames == {"raw", "raw_accum", "raw_next", "left_raw", "right_raw",
                  "zipped_left_raw", "zipped_right_raw"}
NamesExpected(p) ==
  \A f \in HelperNames(p) : Uses(Helper(f).ret) \subseteq ExpectedNames

Refused(p, options) ==
  \/ SlotTwice(p)
  \/ CallsUndeclared(p, options)
  \/ ObjectsUndeclared(p, options) \/ DeclaredTwice(p, options)
  \/ IF UsesGraph(p, options) THEN ValueTwice(p) \/ NeedsLackingZip(p)
     ELSE ViewTwice(p) \/ HeadWithoutZip(p)

-----------------------------------------------------------------------------
Finished == phase = "done"

(* The kernels are compared as programs with a header, which declares      *)
(* whatever they name.                                                     *)
WithHeader(helpers, graph) ==
  [helpers |-> helpers, graph |-> graph, header |-> TRUE]
PlainKernel(p) == LoopKernel(p, WithHeader(FALSE, FALSE))

(* The plain kernel of an accepted pipeline returns what its operators     *)
(* mean over all the items of its source, but for the four cases above.    *)
KernelComputesMeaning ==
  Finished =>
    LET p == Ir
        k == PlainKernel(p)
    IN  Meant(p) /\ Compiles(k) =>
          \A n \in Runs : ResultOf(k, n).result = Meaning(p, n)

(* Putting the helpers' bodies in place of their calls changes nothing,    *)
(* when their text allows it.                                              *)
InlineMatchesCall ==
  Finished =>
    LET p == Ir
        called == PlainKernel(p)
        inlined == LoopKernel(p, WithHeader(TRUE, FALSE))
    IN  Inlinable(p) /\ Compiles(called) =>
          \A n \in Runs : ResultOf(inlined, n) = ResultOf(called, n)

(* The optimised kernel returns what the plain one does, when no helper    *)
(* subtracts.                                                              *)
OptimisedMatchesLoop ==
  Finished =>
    LET p == Ir
        options == WithHeader(TRUE, TRUE)
        loop == PlainKernel(p)
    IN  /\ UsesGraph(p, options) /\ NamesExpected(p) /\ ~HasSubtraction(p)
        /\ Compiles(GraphKernel(p, options)) /\ Compiles(loop)
        => \A n \in Runs :
             ResultOf(GraphKernel(p, options), n) = ResultOf(loop, n)

(* The benchmark's check of its planner-graph programs, without the        *)
(* exception for subtraction: the optimiser changes no result.             *)
GraphKeepsResults ==
  Finished =>
    LET p == Ir
        options == WithHeader(TRUE, TRUE)
        loop == PlainKernel(p)
    IN  UsesGraph(p, options) /\ Compiles(GraphKernel(p, options))
        => \A n \in Runs :
             ResultOf(GraphKernel(p, options), n) = ResultOf(loop, n)

(* The tree emitter, a second writing of the same loop, gives the kernel   *)
(* the same result and leaves the same state behind.                       *)
AstMatchesLoop ==
  Finished =>
    LET p == Ir
        options == WithHeader(FALSE, FALSE)
        loop == PlainKernel(p)
    IN  AstSupports(p) /\ Compiles(loop) =>
          \A n \in Runs :
            ResultOf(AstKernel(p, options), n) = ResultOf(loop, n)

(* The program emitted for an accepted pipeline compiles under every       *)
(* option, except exactly in the cases above; what the optimiser emits is  *)
(* judged for helpers with the names it expects.  A header, or a helper's  *)
(* own text, is taken to give a helper a type that suits all its stages.   *)
CompilesUnlessRefused ==
  Finished =>
    LET p == Ir
    IN  \A options \in Options :
          (UsesGraph(p, options) => NamesExpected(p))
          => (Compiles(EmitProgram(p, options)) <=> ~Refused(p, options))

(* rx_bind_storage places every symbol the kernel uses, aligned, apart     *)
(* from every other and within rx_storage_bytes.                           *)
KernelSymbols(p) ==
  {d.x.id : d \in {e \in Range(SlotDecls(p)) : e.x.e = "symbol"}}
  \union {c.dst.id : c \in {e \in Range(LoopBody(FALSE, p)) :
                              e.s = "effect" /\ e.dst.e = "symbol"}}

StorageFits ==
  Finished =>
    LET symbols == StorageSymbols(Ir)
        size == [s \in Range(symbols) |-> SizeOf(s)]
        align == [s \in Range(symbols) |-> AlignOf(s)]
        at == BindStorage(symbols, size, align)
    IN  /\ KernelSymbols(Ir) \subseteq DOMAIN at
        /\ \A s \in DOMAIN at :
             /\ at[s] % align[s] = 0
             /\ at[s] + size[s] <= StorageBytes(symbols, size, align)
             /\ \A t \in DOMAIN at \ {s} :
                  at[s] + size[s] <= at[t] \/ at[t] + size[t] <= at[s]
=============================================================================
