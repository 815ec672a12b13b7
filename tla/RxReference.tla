----------------------------- MODULE RxReference ----------------------------
(***************************************************************************)
(* What the operators mean, said of the whole sequence s of items a stage  *)
(* ever receives and not of one batch: no contexts, no tokens, no lists.   *)
(* Rx(chain, s) is the sequence a chain emits for s and whether it ends    *)
(* the stream.                                                             *)
(***************************************************************************)
EXTENDS Operators

(* The items of s at the positions in S, in order.                         *)
At(s, S) ==
  FoldLeftDomain(LAMBDA out, i : IF i \in S THEN Append(out, s[i]) ELSE out,
                 << >>, s)

(* The positions before the first item that passes Test, and from it on.   *)
Before(s, Test(_)) ==
  {i \in DOMAIN s : \A j \in 1..i : ~Test(s[j])}
FromFirst(s, Test(_)) == DOMAIN s \ Before(s, Test)

Stopping == {"take", "takeWhile", "takeUntil", "first"}
Aggregating == {"reduce", "last"}
Holding == {"buffer", "throttleTime"}

(* What one operator emits for s.                                          *)
RxOut(stage, s) ==
  LET a == stage.arg
  IN  CASE stage.op = "filter" -> At(s, {i \in DOMAIN s : Pred(a, s[i])})
        [] stage.op = "map" -> [i \in DOMAIN s |-> Mapper(a, s[i])]
        [] stage.op = "mapTo" -> [i \in DOMAIN s |-> a]
        [] stage.op = "take" -> At(s, {i \in DOMAIN s : i <= a})
        [] stage.op = "skip" -> At(s, {i \in DOMAIN s : i > a})
        [] stage.op = "takeWhile" ->
             At(s, Before(s, LAMBDA v : ~Pred(a, v)))
        [] stage.op = "skipWhile" ->
             At(s, FromFirst(s, LAMBDA v : ~Pred(a, v)))
        [] stage.op = "takeUntil" ->
             At(s, {i \in DOMAIN s : \A j \in 1..(i - 1) : s[j] # a})
        [] stage.op = "skipUntil" -> At(s, FromFirst(s, LAMBDA v : v = a))
        [] stage.op = "first" -> At(s, {1})
        [] stage.op = "distinct" ->
             At(s, {i \in DOMAIN s :
                      \A j \in 1..(i - 1) : Key(a, s[j]) # Key(a, s[i])})
        [] stage.op = "distinctUntilChanged" ->
             At(s, {i \in DOMAIN s :
                      i = 1 \/ Key(a, s[i - 1]) # Key(a, s[i])})
        [] stage.op = "scan" ->
             [i \in DOMAIN s |-> FoldLeft(Accum, Null, SubSeq(s, 1, i))]
        [] stage.op = "scanfrom" ->
             [i \in DOMAIN s |-> FoldLeft(Accum, a, SubSeq(s, 1, i))]
        [] stage.op = "reduce" ->
             IF s = << >> THEN << >> ELSE << FoldLeft(Accum, Null, s) >>
        [] stage.op = "last" -> IF s = << >> THEN << >> ELSE << Last(s) >>
        [] stage.op = "buffer" -> s

(* Whether one operator has ended the stream by the end of s.              *)
RxStops(stage, s) ==
  LET a == stage.arg
  IN  CASE stage.op = "take" -> Len(s) >= a
        [] stage.op = "takeWhile" -> \E i \in DOMAIN s : ~Pred(a, s[i])
        [] stage.op = "takeUntil" -> \E i \in DOMAIN s : s[i] = a
        [] stage.op = "first" -> s # << >>
        [] OTHER -> FALSE

Rx(stages, s) ==
  FoldLeft(LAMBDA r, stage : [out |-> RxOut(stage, r.out),
                              stops |-> r.stops \/ RxStops(stage, r.out)],
           [out |-> s, stops |-> FALSE], stages)
=============================================================================
