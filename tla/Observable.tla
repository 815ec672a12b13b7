----------------------------- MODULE Observable -----------------------------
(***************************************************************************)
(* One observable of core/src/observable.c and everything that can happen  *)
(* to it: a source pushes items, a program pipes a chain of operators onto *)
(* it and subscribes, and the flusher of a buffer or a throttleTime makes  *)
(* it ready.  Each of them ends in pop_all, which runs what has gathered   *)
(* in the data list through the chain and hands the result to the          *)
(* subscriber.                                                             *)
(*                                                                         *)
(* The calls are atomic here: subscribers do not push into the observable  *)
(* that calls them, and calls on one observable do not overlap.  pipe is   *)
(* called once.                                                            *)
(***************************************************************************)
EXTENDS RxReference, FiniteSets

CONSTANTS
  Values,      \* items a source pushes
  Sources,     \* observables as constructed: [data, complete, deferred]
  Chains,      \* arguments of pipe
  Made,        \* what the factory of a deferred observable returns
  MaxPushes,   \* bound: items pushed by the source
  MaxFlushes   \* bound: emissions of the flusher

Operations == {"filter", "map", "mapTo", "takeUntil", "first", "skipUntil",
  "distinct", "distinctUntilChanged", "take", "skip", "takeWhile",
  "skipWhile", "scan", "scanfrom", "reduce", "last", "buffer",
  "throttleTime"}

Items == Int

ASSUME ObservableAssumption ==
  /\ Values \union {Done, Stray, Made} \subseteq Items
  /\ Done \notin Values \union {Null, Made}
  /\ \A s \in Sources : /\ s.data \in Seq(Items)
                        /\ {s.complete, s.deferred} \subseteq BOOLEAN
  /\ \A c \in Chains : c # << >> /\ c \in Seq([op : Operations, arg : Items])
  /\ MaxPushes \in Nat /\ MaxFlushes \in Nat

VARIABLES
  data, complete, ready, deferred,   \* fields of the Observable
  subscribed,  \* whether o->subscriber is set
  chain,       \* the Queries from o->emit_handler on
  ctxs,        \* their contexts
  compiled,    \* o->compiled_pipeline, << >> for NULL
  pushes,      \* history: items pushed
  batches,     \* history: what pop_all took since pipe, call by call
  flushes,     \* history: Len(batches) after each flush since pipe
  missed,      \* history: results since pipe that had no subscriber
  delivered    \* history: results since pipe the subscriber got

fields == << data, complete, ready, deferred, subscribed, chain, ctxs,
             compiled >>
results == << batches, missed, delivered >>
vars == << fields, pushes, flushes, results >>

Has(op) == \E i \in DOMAIN chain : chain[i].op = op

-----------------------------------------------------------------------------
(* The subscriber, if there is one, is called with each value.             *)
Emit(values) ==
  IF subscribed'
  THEN delivered' = delivered \o values /\ UNCHANGED missed
  ELSE missed' = missed \o values /\ UNCHANGED delivered

Ignore(items, isReady) ==
  /\ complete \/ (items = << >> /\ ~isReady)
  /\ data' = items /\ ready' = isReady
  /\ UNCHANGED << complete, ctxs, compiled, results >>

(* The common end: emit up to the token, keep what follows it.             *)
Drain(items) ==
  LET n == FirstIndex(items, LAMBDA v : v = Done)
  IN  /\ Emit(UpToDone(items))
      /\ complete' = (n # 0)
      /\ data' = IF n = 0 THEN << >> ELSE From(items, n + 1)
      /\ ready' = FALSE

DrainBare(items) ==
  /\ chain = << >>
  /\ Drain(items)
  /\ UNCHANGED << ctxs, compiled >>

(* Compiled once, at the first pop_all that finds a chain.                 *)
Compiled == IF compiled = << >> THEN Compile(chain) ELSE compiled

DrainStreaming(items, isReady) ==
  /\ chain # << >> /\ Streamable(Compiled)
  /\ compiled' = Compiled
  /\ LET r == StreamBatch(chain, Compiled, ctxs, items)
     IN  Emit(r.out) /\ ctxs' = r.ctx
  /\ complete' = (UpToDone(items) # items)
  /\ data' = << >> /\ ready' = isReady

DrainGeneric(items, isReady) ==
  /\ chain # << >> /\ ~Streamable(Compiled)
  /\ compiled' = Compiled
  /\ LET r == GenericBatch(chain, ctxs, items, isReady)
     IN  Drain(r.out) /\ ctxs' = r.ctx

(* Mutant: pop_all without its check of complete.                          *)
PopAllWhenComplete(items, isReady) ==
  \/ /\ items = << >> /\ ~isReady
     /\ data' = items /\ ready' = isReady
     /\ UNCHANGED << complete, ctxs, compiled, results >>
  \/ /\ items # << >> \/ isReady
     /\ batches' = Append(batches, items)
     /\ \/ DrainBare(items)
        \/ DrainStreaming(items, isReady)
        \/ DrainGeneric(items, isReady)

PopAll(items, isReady) ==
  \/ Ignore(items, isReady)
  \/ /\ ~complete
     /\ items # << >> \/ isReady
     /\ batches' = Append(batches, items)
     /\ \/ DrainBare(items)
        \/ DrainStreaming(items, isReady)
        \/ DrainGeneric(items, isReady)

-----------------------------------------------------------------------------
(* push_observable, including the source that announces its end.           *)
Push(v) ==
  /\ pushes < MaxPushes
  /\ pushes' = pushes + 1
  /\ UNCHANGED << deferred, subscribed, chain, flushes >>
  /\ \/ /\ complete
        /\ UNCHANGED << data, complete, ready, ctxs, compiled, results >>
     \/ /\ ~complete
        /\ PopAll(Append(data, v), ready)

(* A deferred observable makes one more item at each subscription.         *)
Subscribe ==
  /\ subscribed' = TRUE
  /\ \/ /\ deferred /\ pushes < MaxPushes
        /\ pushes' = pushes + 1
        /\ PopAll(Append(data, Made), ready)
     \/ /\ ~deferred
        /\ UNCHANGED pushes
        /\ PopAll(data, ready)
  /\ UNCHANGED << deferred, chain, flushes >>

(* pipe links the Queries, whose constructors allocate their contexts;     *)
(* those of buffer and throttleTime also reset ready.                      *)
Pipe(c) ==
  /\ chain = << >>
  /\ chain' = c
  /\ ctxs' = [i \in DOMAIN c |-> NewContext(c[i])]
  /\ ready' = IF \E i \in DOMAIN c : c[i].op \in {"buffer", "throttleTime"}
              THEN FALSE ELSE ready
  /\ batches' = << >> /\ missed' = << >> /\ delivered' = << >>
  /\ UNCHANGED << data, complete, deferred, subscribed, compiled, pushes,
                  flushes >>

(* flush, the subscriber of a buffer's flusher.                            *)
Flush ==
  /\ Has("buffer")
  /\ Len(flushes) < MaxFlushes
  /\ UNCHANGED << deferred, subscribed, chain, pushes >>
  /\ PopAll(data, TRUE)
  /\ flushes' = Append(flushes, Len(batches'))

(* flushOne, the subscriber of throttleTime's interval: pop takes from the *)
(* back until one item is left.                                            *)
FlushOne ==
  /\ Has("throttleTime")
  /\ Len(flushes) < MaxFlushes
  /\ UNCHANGED << deferred, subscribed, chain, pushes >>
  /\ PopAll(IF Len(data) > 1 THEN SubSeq(data, 1, 1) ELSE data, TRUE)
  /\ flushes' = Append(flushes, Len(batches'))

Init ==
  /\ \E s \in Sources : data = s.data /\ complete = s.complete
                        /\ deferred = s.deferred
  /\ ready = FALSE
  /\ subscribed = FALSE
  /\ chain = << >> /\ ctxs = << >> /\ compiled = << >>
  /\ pushes = 0
  /\ batches = << >> /\ flushes = << >> /\ missed = << >> /\ delivered = << >>

Next ==
  \/ \E v \in Values \union {Done} : Push(v)
  \/ Subscribe
  \/ \E c \in Chains : Pipe(c)
  \/ Flush
  \/ FlushOne

Spec == Init /\ [][Next]_vars

-----------------------------------------------------------------------------
(* Types of the fields and the contexts.                                   *)
ContextOK(stage, ctx) ==
  CASE stage.op \in {"skipWhile", "skipUntil"} -> ctx \in BOOLEAN
    [] stage.op = "distinct" -> ctx \subseteq Items
    [] stage.op = "buffer"   -> ctx \in Seq(Items)
    [] stage.op \in {"take", "skip"} -> ctx \in Nat
    [] OTHER                 -> ctx \in Items

TypeOK ==
  /\ data \in Seq(Items) /\ delivered \in Seq(Items) /\ missed \in Seq(Items)
  /\ {complete, ready, deferred, subscribed} \subseteq BOOLEAN
  /\ chain \in Chains \union {<< >>}
  /\ DOMAIN ctxs = DOMAIN chain
  /\ \A i \in DOMAIN chain : ContextOK(chain[i], ctxs[i])
  /\ batches \in Seq(Seq(Items))
  /\ pushes \in 0..MaxPushes
  /\ flushes \in Seq(Nat) /\ Len(flushes) <= MaxFlushes

-----------------------------------------------------------------------------
(* Everything pop_all took, up to the first n calls.                       *)
FedUpTo(n) == FlattenSeq(SubSeq(batches, 1, n))
Fed == FedUpTo(Len(batches))
Results == missed \o delivered

Ops(c) == {c[i].op : i \in DOMAIN c}
OnlyLast(ops) == \A i \in DOMAIN chain : chain[i].op \in ops => i = Len(chain)

(* A buffer has shown what it was given up to its last flush.              *)
Shown ==
  IF ~Has("buffer") THEN Fed
  ELSE IF flushes = << >> THEN << >> ELSE FedUpTo(Last(flushes))

(* However the source's items are cut into batches and whichever path      *)
(* pop_all takes, an observable emits what its chain means for everything  *)
(* it was fed, nothing lost or repeated, and is complete exactly when the  *)
(* chain has ended the stream or the source has announced its end.  It     *)
(* covers the chains whose contexts carry over (no reduce, last or         *)
(* throttleTime) and in which nothing follows an operator that ends the    *)
(* stream; the source announces its end only to chains that stream.        *)
Comparable ==
  /\ Ops(chain) \intersect (Aggregating \union {"throttleTime"}) = {}
  /\ OnlyLast(Stopping \union {"buffer"})
  /\ UpToDone(Fed) # Fed => Streamable(Compile(chain))

EmitsReference ==
  LET shown == Shown
      r == Rx(chain, UpToDone(shown))
      ends == r.stops \/ UpToDone(shown) # shown
  IN  Comparable => /\ Results = r.out
                    /\ batches # << >> => (complete <=> ends)

(* The one-shot use of the benchmarks: a source that is drained by one     *)
(* pop_all.  Here take and takeWhile may stand anywhere and the chain may  *)
(* end in reduce or last, if anything reaches it.  last looks only one     *)
(* item behind the token (observable.c:994), and a take that counts the    *)
(* token of an earlier operator as an item (observable.c:625) can put a    *)
(* second one behind it: chains that make it do so are left out.           *)
OneShot ==
  /\ Len(batches) = 1 /\ UpToDone(Fed) = Fed
  /\ OnlyLast(Aggregating \union {"takeUntil", "first"})
  /\ Ops(chain) \intersect Holding = {}
  /\ Ops(chain) \intersect Aggregating # {}
       => Rx(Front(chain), Fed).out # << >>
  /\ "last" \in Ops(chain) =>
       \A j \in DOMAIN chain : chain[j].op = "take" =>
         \A i \in 1..(j - 1) : chain[i].op \notin {"take", "takeWhile"}

OneShotMatches == OneShot => Results = Rx(chain, Fed).out

(* The two paths of pop_all are one function: for a chain that streams,    *)
(* whatever contexts it has reached, going item by item through the        *)
(* compiled stages gives what going stage by stage through the Queries     *)
(* gives.  A reduce or last nothing reaches is the exception.              *)
Probes == UNION {[1..n -> Values] : n \in 1..2}

PathsAgree ==
  LET stages == Compile(chain)
      empty(batch) ==
        /\ Last(chain).op \in Aggregating
        /\ GenericBatch(Front(chain), Front(ctxs), batch, FALSE).out = << >>
  IN  chain # << >> /\ Streamable(stages) =>
        \A batch \in Probes :
          \/ StreamBatch(chain, stages, ctxs, batch) =
               GenericBatch(chain, ctxs, batch, FALSE)
          \/ empty(batch)

(* throttleTime emits, for every interval in which something reached it,   *)
(* the latest such item, once, and nothing else: nothing an interval       *)
(* missed is emitted in the next one.  Items still unread when the         *)
(* interval fires are the business of FlushKeepsLast.  A second operator   *)
(* that waits for a flush would be ready in the same pop_all, and has no   *)
(* reference here.                                                         *)
HoldsOnlyAt(k) ==
  /\ chain[k].op = "throttleTime"
  /\ \A i \in DOMAIN chain \ {k} : chain[i].op \notin Holding

Throttled ==
  LET k == CHOOSE i \in DOMAIN chain : HoldsOnlyAt(i)
      before == SubSeq(chain, 1, k - 1)
      reached(n) == Rx(before, FedUpTo(n)).out
      window(j) == From(reached(flushes[j]),
                        Len(reached(IF j = 1 THEN 0 ELSE flushes[j - 1])) + 1)
      latest == FlattenSeq([j \in DOMAIN flushes |->
                  IF window(j) = << >> THEN << >> ELSE << Last(window(j)) >>])
  IN  Rx(From(chain, k + 1), latest).out

ThrottlesToLatest ==
  /\ \E k \in DOMAIN chain : HoldsOnlyAt(k)
  /\ Ops(chain) \intersect (Aggregating \union Stopping) = {}
  /\ UpToDone(Fed) = Fed
  /\ \A j \in DOMAIN flushes : flushes[j] > 0 => batches[flushes[j]] = << >>
  => Results = Throttled

(* An observable that is complete stays so and calls its subscriber no     *)
(* more, whatever it is still given (the guards of push_observable and     *)
(* pop_all).                                                               *)
CompletionIsFinal ==
  [][complete => complete' /\ (chain' = chain => Results' = Results)]_vars

(* observable.c:710, "Remove everything except the last item": when         *)
(* throttleTime's interval fires on unread items, the one that is left for *)
(* the chain is the newest.                                                *)
FlushKeepsLast ==
  [][flushes' # flushes /\ batches' # batches /\ Len(data) > 1
     => Last(batches') = << Last(data) >>]_vars

(* README.md:3 and 44-51 offer take as RxJS's: however a chain goes on     *)
(* after take(n), at most n items come out of operators that make one      *)
(* result of one item.                                                     *)
TakeIsABound ==
  (chain # << >> /\ chain[1].op = "take"
     /\ \A i \in 2..Len(chain) : chain[i].op \in {"map", "mapTo", "scan"})
  => Len(Results) <= chain[1].arg
=============================================================================
