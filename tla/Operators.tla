----------------------------- MODULE Operators -----------------------------
(***************************************************************************)
(* The operators of core/src/observable.c as pure functions.  A batch is   *)
(* the list pop_all hands to the chain.  An apply function reads a whole   *)
(* batch and the context its Query keeps between batches; its result is    *)
(* the batch for the next stage and the new context.                       *)
(*                                                                         *)
(* Items are pointer-sized integers, Null is 0, and Done is 0xDEADBEEF:    *)
(* completion travels in the lists as an item.  A stage is                 *)
(* [op, arg]: the operator and the callback, count or value it was built   *)
(* with.                                                                   *)
(***************************************************************************)
EXTENDS Integers, Sequences, SequencesExt

CONSTANTS
  Done,          \* the completion token
  Stray,         \* what lies in memory before a list's array
  Pred(_, _),    \* filter's, takeWhile's, skipWhile's callback, by arg
  Mapper(_, _),  \* map's callback, by arg
  Accum(_, _),   \* scan's and reduce's callback
  Key(_, _)      \* distinct's and distinctUntilChanged's callback, by arg

Null == 0

FirstIndex(s, Test(_)) == SelectInSeq(s, Test)
From(s, n) == SubSeq(s, n, Len(s))

(* What a loop that breaks at isStreamComplete reads.                      *)
UpToDone(data) ==
  LET n == FirstIndex(data, LAMBDA v : v = Done)
  IN  IF n = 0 THEN data ELSE SubSeq(data, 1, n - 1)

Result(out, ctx) == [out |-> out, ctx |-> ctx]

-----------------------------------------------------------------------------
FilterApply(arg, ctx, data) ==
  Result(FoldLeft(LAMBDA out, v : IF Pred(arg, v) THEN Append(out, v) ELSE out,
                  << >>, data), ctx)

MapApply(arg, ctx, data) ==
  LET d == UpToDone(data)
  IN  Result([i \in DOMAIN d |-> Mapper(arg, d[i])], ctx)

MapToApply(arg, ctx, data) ==
  Result([i \in DOMAIN UpToDone(data) |-> arg], ctx)

(* No break after a match: every match is followed by a token.             *)
TokenAfter(data, Match(_)) ==
  LET d == UpToDone(data)
  IN  FlattenSeq([i \in DOMAIN d |->
                    IF Match(d[i]) THEN << d[i], Done >> ELSE << d[i] >>])

TakeUntilApply(arg, ctx, data) ==
  Result(TokenAfter(data, LAMBDA v : v = arg), ctx)

(* first() is takeUntil with a comparison that is always true.             *)
FirstApply(ctx, data) == Result(TokenAfter(data, LAMBDA v : TRUE), ctx)

(* ctx: whether the awaited item has been seen.                            *)
SkipUntilApply(arg, ctx, data) ==
  LET d == UpToDone(data)
      n == IF ctx THEN 1 ELSE FirstIndex(d, LAMBDA v : v = arg)
  IN  IF n = 0 THEN Result(<< >>, FALSE) ELSE Result(From(d, n), TRUE)

(* ctx: the keys seen.                                                     *)
DistinctApply(arg, ctx, data) ==
  FoldLeft(LAMBDA r, v :
             IF Key(arg, v) \in r.ctx THEN r
             ELSE Result(Append(r.out, v), r.ctx \union {Key(arg, v)}),
           Result(<< >>, ctx), data)

(* ctx: the last key, Null at first.                                       *)
DistinctUntilChangedApply(arg, ctx, data) ==
  FoldLeft(LAMBDA r, v :
             IF Key(arg, v) = r.ctx THEN r
             ELSE Result(Append(r.out, v), Key(arg, v)),
           Result(<< >>, ctx), data)

(* Mutant: a count that starts again with every batch.                     *)
TakeApplyPerBatch(arg, ctx, data) ==
  IF arg \in 1..Len(data) THEN Result(Append(SubSeq(data, 1, arg), Done), arg)
  ELSE Result(data, Len(data))

(* ctx: items counted.  The token follows the arg-th item ever counted; a  *)
(* later batch finds the count beyond arg and passes whole.                *)
TakeApply(arg, ctx, data) ==
  LET left == arg - ctx
  IN  IF left \in 1..Len(data)
      THEN Result(Append(SubSeq(data, 1, left), Done), arg)
      ELSE Result(data, ctx + Len(data))

(* Mutant: what is skipped is counted down from zero.                      *)
SkipApplyCountsDown(arg, ctx, data) ==
  LET left == IF arg > ctx THEN arg - ctx ELSE 0
  IN  Result(From(data, left + 1), ctx - Len(data))

SkipApply(arg, ctx, data) ==
  LET left == IF arg > ctx THEN arg - ctx ELSE 0
  IN  Result(From(data, left + 1), ctx + Len(data))

TakeWhileApply(arg, ctx, data) ==
  LET n == FirstIndex(data, LAMBDA v : ~Pred(arg, v))
  IN  Result(IF n = 0 THEN data ELSE Append(SubSeq(data, 1, n - 1), Done),
             ctx)

(* ctx: whether an item has passed.                                        *)
SkipWhileApply(arg, ctx, data) ==
  LET n == IF ctx THEN 1 ELSE FirstIndex(data, LAMBDA v : ~Pred(arg, v))
  IN  IF n = 0 \/ data = << >> THEN Result(<< >>, ctx)
      ELSE Result(From(data, n), TRUE)

(* ctx: the accumulator.                                                   *)
ScanApply(ctx, data) ==
  LET d == UpToDone(data)
  IN  Result([i \in DOMAIN d |-> FoldLeft(Accum, ctx, SubSeq(d, 1, i))],
             FoldLeft(Accum, ctx, d))

(* A reduction starts from Null in every batch and always has one result.  *)
ReduceApply(ctx, data) ==
  Result(<< FoldLeft(Accum, Null, UpToDone(data)) >>, ctx)

(* Mutant: the token is taken for the last item.                           *)
LastApplyToken(ctx, data) ==
  Result(IF data = << >> THEN << Null >> ELSE << Last(data) >>, ctx)

(* A batch that is the token alone makes the code read data[-1].           *)
LastApply(ctx, data) ==
  Result(IF data = << >> THEN << Null >>
         ELSE IF Last(data) # Done THEN << Last(data) >>
         ELSE IF Len(data) = 1 THEN << Stray >>
         ELSE << data[Len(data) - 1] >>, ctx)

(* Mutant: the cache is copied out and not emptied.                        *)
BufferApplyKeeps(ctx, data, ready) ==
  IF ready THEN Result(ctx \o data, ctx \o data)
  ELSE Result(<< >>, ctx \o data)

(* ctx: the list kept until the observable is ready.                       *)
BufferApply(ctx, data, ready) ==
  IF ready THEN Result(ctx \o data, << >>) ELSE Result(<< >>, ctx \o data)

(* Mutant: the cache is not reset when it is emitted.                      *)
ThrottleTimeApplyKeeps(ctx, data, ready) ==
  IF ready THEN Result(IF ctx = Null THEN << >> ELSE << ctx >>, ctx)
  ELSE Result(<< >>, IF data = << >> THEN ctx ELSE Last(data))

(* ctx: the latest item, or Null.                                          *)
ThrottleTimeApply(ctx, data, ready) ==
  IF ready THEN Result(IF ctx = Null THEN << >> ELSE << ctx >>, Null)
  ELSE Result(<< >>, IF data = << >> THEN ctx ELSE Last(data))

Apply(stage, ctx, data, ready) ==
  CASE stage.op = "filter"    -> FilterApply(stage.arg, ctx, data)
    [] stage.op = "map"       -> MapApply(stage.arg, ctx, data)
    [] stage.op = "mapTo"     -> MapToApply(stage.arg, ctx, data)
    [] stage.op = "takeUntil" -> TakeUntilApply(stage.arg, ctx, data)
    [] stage.op = "first"     -> FirstApply(ctx, data)
    [] stage.op = "skipUntil" -> SkipUntilApply(stage.arg, ctx, data)
    [] stage.op = "distinct"  -> DistinctApply(stage.arg, ctx, data)
    [] stage.op = "distinctUntilChanged" ->
         DistinctUntilChangedApply(stage.arg, ctx, data)
    [] stage.op = "take"      -> TakeApply(stage.arg, ctx, data)
    [] stage.op = "skip"      -> SkipApply(stage.arg, ctx, data)
    [] stage.op = "takeWhile" -> TakeWhileApply(stage.arg, ctx, data)
    [] stage.op = "skipWhile" -> SkipWhileApply(stage.arg, ctx, data)
    [] stage.op \in {"scan", "scanfrom"} -> ScanApply(ctx, data)
    [] stage.op = "reduce"    -> ReduceApply(ctx, data)
    [] stage.op = "last"      -> LastApply(ctx, data)
    [] stage.op = "buffer"    -> BufferApply(ctx, data, ready)
    [] stage.op = "throttleTime" -> ThrottleTimeApply(ctx, data, ready)

(* The context each operator's constructor allocates.                      *)
NewContext(stage) ==
  CASE stage.op \in {"skipWhile", "skipUntil"} -> FALSE
    [] stage.op = "distinct" -> {}
    [] stage.op = "buffer"   -> << >>
    [] stage.op = "scanfrom" -> stage.arg
    [] OTHER                 -> 0

(* pop_all's generic path: stage after stage over the whole batch.         *)
GenericBatch(chain, ctxs, data, ready) ==
  FoldLeftDomain(
    LAMBDA r, i :
      LET s == Apply(chain[i], r.ctx[i], r.out, ready)
      IN  Result(s.out, [r.ctx EXCEPT ![i] = s.ctx]),
    Result(data, ctxs), chain)

-----------------------------------------------------------------------------
(***************************************************************************)
(* The compiled pipeline.  A compiled stage is [kind, at, funcs]: the      *)
(* chain's stage it shares its context with and, for one or more adjacent  *)
(* maps, their callbacks in order.                                         *)
(***************************************************************************)
CompiledStage(chain, i) ==
  [kind |-> chain[i].op, at |-> i,
   funcs |-> IF chain[i].op = "map" THEN << chain[i].arg >> ELSE << >>]

(* Mutant: the callbacks of a run of maps collected back to front.         *)
CompileBackwards(chain) ==
  FoldLeftDomain(
    LAMBDA stages, i :
      IF stages # << >> /\ chain[i].op = "map" /\ chain[i - 1].op = "map"
      THEN Append(Front(stages),
                  [Last(stages) EXCEPT !.kind = "mapChain",
                                       !.funcs = << chain[i].arg >> \o @])
      ELSE Append(stages, CompiledStage(chain, i)),
    << >>, chain)

Compile(chain) ==
  FoldLeftDomain(
    LAMBDA stages, i :
      IF stages # << >> /\ chain[i].op = "map" /\ chain[i - 1].op = "map"
      THEN Append(Front(stages),
                  [Last(stages) EXCEPT !.kind = "mapChain",
                                       !.funcs = Append(@, chain[i].arg)])
      ELSE Append(stages, CompiledStage(chain, i)),
    << >>, chain)

StreamableKinds == {"map", "mapChain", "filter", "reduce", "scan",
                    "scanfrom", "distinctUntilChanged", "skipWhile", "last"}

(* stage_chain_is_streamable: nothing may follow a reduce or a last.       *)
Streamable(stages) ==
  \A i \in DOMAIN stages :
    /\ stages[i].kind \in StreamableKinds
    /\ stages[i].kind \in {"reduce", "last"} => i = Len(stages)

(* One item through one compiled stage: st is the state of the loops of    *)
(* pop_all_streaming_compiled.  reduced and last are empty until set.      *)
StreamStage(chain, st, stage) ==
  LET ctx == st.ctxs[stage.at]
      arg == chain[stage.at].arg
      drop == [st EXCEPT !.keep = FALSE]
      remember(c) == [st EXCEPT !.ctxs[stage.at] = c]
  IN  CASE stage.kind \in {"map", "mapChain"} ->
             [st EXCEPT !.value =
                FoldLeft(LAMBDA v, f : Mapper(f, v), @, stage.funcs)]
        [] stage.kind = "filter" ->
             IF Pred(arg, st.value) THEN st ELSE drop
        [] stage.kind = "reduce" ->
             [drop EXCEPT !.reduced =
                << Accum(IF @ = << >> THEN Null ELSE @[1], st.value) >>]
        [] stage.kind \in {"scan", "scanfrom"} ->
             [remember(Accum(ctx, st.value)) EXCEPT
                !.value = Accum(ctx, st.value)]
        [] stage.kind = "distinctUntilChanged" ->
             IF Key(arg, st.value) = ctx THEN drop
             ELSE remember(Key(arg, st.value))
        [] stage.kind = "skipWhile" ->
             IF ~ctx /\ Pred(arg, st.value) THEN drop ELSE remember(TRUE)
        [] stage.kind = "last" -> [drop EXCEPT !.last = << st.value >>]

StreamItem(chain, stages, st, item) ==
  LET end == FoldLeft(LAMBDA s, stage :
                        IF s.keep THEN StreamStage(chain, s, stage) ELSE s,
                      [st EXCEPT !.value = item, !.keep = TRUE], stages)
  IN  IF end.keep THEN [end EXCEPT !.out = Append(@, end.value)] ELSE end

(* pop_all_streaming_compiled: item after item through the whole chain.    *)
StreamBatch(chain, stages, ctxs, data) ==
  LET end == FoldLeft(LAMBDA st, item : StreamItem(chain, stages, st, item),
                      [out |-> << >>, ctxs |-> ctxs, value |-> Null,
                       keep |-> TRUE, reduced |-> << >>, last |-> << >>],
                      UpToDone(data))
  IN  Result(end.out \o (IF end.reduced # << >> THEN end.reduced
                         ELSE end.last), end.ctxs)
=============================================================================
