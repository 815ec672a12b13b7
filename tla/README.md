# A verification project for FunctionalC

FunctionalC runs RxJS-style pipelines in C: a runtime (`core/src`), a planner
that turns a pipeline into one C loop (`core/planner`) and a small DSL compiler
(`core/tools`). This directory holds TLA+ models of the runtime and of both
compilers, the TLC configurations that check them and TLAPS proofs about them. Lines are quoted as
`file:line` of `core/src` unless a longer path is given.

## The system

| Part | State | Operations | Who calls it |
|---|---|---|---|
| Timed task system, `task.c` | list sorted by time, `tasks_mutex`, `tasks_cond`, `tasks_running`, a worker thread, a stopwatch | `insert_task_at/in`, `tasks_worker`, `start_task_system`, `stop_task_system` | programs; `interval`, `timer`, `addnext` |
| Stopwatch, `stopwatch.c` | start time | `stopwatch_start`, `stopwatch_elapsed_ms` | task system |
| Lists, `list.c` | array, size, payload block; a global pool of 512 small lists | push, pop, reserve, `init_list`, `freelist` | everything |
| Observable runtime, `observable.c` | per observable: `data`, `complete`, `ready`, subscriber, chain of queries, compiled pipeline | sources, `pipe`, `subscribe`, `push_observable`, `pop_all` | programs, worker thread |
| Operators, `observable.c` | one context per query | one apply function each | `pop_all` |
| Planner, `core/planner` | stages read, plan, diagnostics, lowered operations and their slots | `parse_spec`, `rx_build_execution_plan`, `rx_lower_pipeline_segment`, `rx_build_planner_ir`, `rx_validate_planner_ir` | its command line |
| Emitters, `astgen.c`, `graph_opt.c` | none; they print one C function in one of four ways | loop, loop with inlined helpers, tree, optimised expressions; storage | the transpiler |
| DSL compiler, `core/tools` | tokens, AST, kinds of functions, plan | lex, parse, `lower_program`, `build_execution_plan`, `emit_program_c` | its command line |
| Emitted programs | slots of a kernel; globals of a main | the loop; the runs of main | whoever builds them |
| Profiler, drivers, benchmarks, tests | counters, fixtures | none that the program's decisions read | people |

How they interact. A source fills an observable's list. Every
`push_observable`, every `subscribe` and every flush ends in `pop_all`, which
sends the whole list (a *batch*) through the chain and calls the subscriber.
Timed sources do the same from the worker thread of the task system: `addnext`
pushes a value and inserts itself again. `buffer` and `throttleTime` pipe a
`mapTo(self)` onto a second observable and subscribe `flush` or `flushOne` to it,
so that one observable's emission drives another's `pop_all`.

What is hard in it:

* two threads and a condition variable, with callbacks that insert tasks, spurious
  wakeups, stops in the middle of anything and restarts with a new clock;
* operators that keep state across batches, whatever cuts the source makes;
* two interpreters of one chain: item by item through compiled stages, or stage by
  stage through lists;
* completion in band, as the item `0xDEADBEEF`;
* flushers that fire before, between and after the items;
* lists with manual ownership and a global pool, shared by threads without a lock;
* two compilers that must mean what the runtime means; the planner writes the same
  loop four times, the DSL compiler each chain twice, and names in the emitted C
  collide where two operators meet.

What makes each part correct: the task system starts each due task once, in
order, and ends when told to; an operator chain emits what the operators mean on the
whole stream, whichever path and cuts; an ended observable stays silent; a list has one owner;
what the plan accepts is emitted, and every emitted loop computes what the operators
it was compiled from mean.

## The modules

| Module | What it is |
|---|---|
| `Scheduler` | abstract specification: what the task system promises |
| `TaskSystem` | `task.c`, every lock, unlock, wait, signal and join a step |
| `TaskSystemProofs` | theorems about `TaskSystem` |
| `MCTaskSystem` | instance for TLC |
| `Operators` | the operators' apply functions, contexts, the compilation of the chain and both of its interpreters, as functions |
| `RxReference` | abstract specification of the operators: what they mean on a whole stream, with no contexts, batches or tokens |
| `Observable` | an observable: push, subscribe, pipe, flush, `pop_all`; its properties |
| `OperatorsProofs` | lemmas about `Operators`: folds over items and stages, the types of every operator, context and compiled stage |
| `PathsProofs` | lemmas about `Operators`: the two interpreters of a chain agree, stage by stage and item by item |
| `ObservableProofs` | theorems about `Observable`, after lemmas on what stages and chains of any operators mean |
| `MCObservable` | callbacks, chains and sources for TLC |
| `Lists` | `list.c` and its callers: lists, the pool, payload blocks and who owns them while `pop_all` calls back |
| `Induction` | induction and definition by recursion over the naturals, as theorems |
| `ListsProofs` | lemmas about the operators of `Lists`: what `init_list`, `freelist` and the filling of a list do to the memory; theorems: types, owners, payload blocks |
| `ListsPairs` | a theorem about `Lists`: pairs are there when they are read |
| `MCLists` | instance for TLC |
| `Planner` | `main.c`, `simplify.c`, `lower.c`, `planner_ir.c`, `transpiler.c`: a specification file through every pass |
| `PlannerProofs` | theorems about `Planner` |
| `CSyntax` | the fragment of C that the emitters print, as data |
| `LoopCode` | `astgen.c`: the loop, inlining and tree emitters, storage; what C does with the result |
| `GraphCode` | `graph_opt.c`: the optimiser, and the choice of emitter |
| `PlannerKernels` | `Planner`, the emitters and `RxReference` together, and their properties |
| `MCPlanner` | instances of the planner for TLC |
| `DslSyntax` | `dsl_lexer.c`, `dsl_parser.c`: the grammar over tokens, as functions |
| `DslCompile` | `pipeline_codegen.c` and what it calls, to the end of the emitted main |
| `DslMeaning` | what a DSL program means, by `RxReference`, and the properties of `DslCompile` |
| `MCDsl` | program texts for TLC |

Operators named after a mutation in a comment that begins with `Mutant:` are
variants of the definition that follows them. No specification uses them; each shows that
some property notices the bug it stands for (`PROJECT.json`, "mutants").

### TaskSystem

| Code | Model |
|---|---|
| `tasks_head` and the `next` pointers | `tasks`, a sequence of `[id, time, life]` |
| `tasks_mutex`, `tasks_running` | the same names; the holder or `NoThread` |
| `tasks_cond` | no variable: who waits is `pc[Worker]` in `"wait"`, `"timedwait"`; `CondAlive` says when it exists |
| the stopwatch | `now`, which `Tick` advances and `start_task_system` resets |
| the program counters | `pc` for worker and controller, `call` for whoever is inside `insert_task_in` |
| the locals `now`, `wait_ms`, `abs_time_ms` | `seen`, `wait_ms`, `abs_time` |

One thread starts and stops the system (the Controller), one is the worker, any
number are clients. All of them may insert, the worker from inside the action it
runs, as `addnext` does. `id`, `life`, `inserted`, `ran` and `dropped` are history
variables. Three steps are the libraries': the timeout, the spurious wakeup
and the tick.

`insert_task_in` reads the clock before it locks, in a step of its own;
`timespec_from_monotonic_ms` reads it a second time when the worker goes to
sleep, hence `slept_at`. A wait that ends goes through `"acquire"`, because
POSIX takes the mutex again before it returns.

The code assumes of its callers that nobody inserts before the first start,
that no action stops the system (it would join itself), and that no client is
inserting when another thread stops it. The last assumption is the constant
`ClientsRaceStop`: run `task_system` drops it and shows which
properties survive.

### Operators, RxReference, Observable

An apply function is `Apply(stage, ctx, data, ready)`: a batch and a context to
a batch and a context. `GenericBatch` folds it over the chain as `pop_all` does;
`Compile`, `Streamable` and `StreamBatch` are `ensure_compiled_pipeline`,
`stage_chain_is_streamable` and `pop_all_streaming_compiled`. Items are integers, `NULL`
is 0 as in the code, and the token `Done` is one more item; loops that break at it
and loops that do not are told apart, and so are callbacks that get to see it.

`Observable` has the fields of the C struct, and history variables: what
`pop_all` took (`batches`), when the flusher fired (`flushes`), what the
subscriber got (`delivered`) and what was computed with no subscriber to take it
(`missed`). A call is one step. `pop_all` is the three ways it has of
draining the list (`DrainBare`, `DrainStreaming`, `DrainGeneric`) and its early
returns (`Ignore`).

Limits of this model: subscribers do not push into the observable that
calls them; calls on one observable do not overlap, so the race of the worker with a
program's own thread is not in it; `pipe` is called once; `of`, which leaves a field
uninitialised, and `from`, which drops its argument, are not in it; `mergeMap` and `zip` are in `Lists`;
`take`'s counts do not overflow. What `last` reads in front of an array is the value `Stray`.

### Lists

| Code | Model |
|---|---|
| `List` | `mem.heap[l]`: capacity, items, payload block |
| `g_list_pool` and its count | `mem.pool` |
| blocks of pairs from `malloc` | `mem.blocks`: live or freed, and the blocks the pairs point into |
| `Observable.data`, `pipe`, `complete` | `obs[o]`; `links` are the lists of the observables `pipe` makes |
| the calls of `pipe` and `pop_all` under way | `frames`, a stack: the observable, the local `data`, the stages still ahead, the items done |

Items are abstracted to the block they point into, and filters may answer
anything. A call puts a frame on the stack. `pipe` makes one observable a step
(`PipeStage`); `pop_all` applies one stage a step (`ApplyStage`, `ApplyMergeMap`), frees the list
that stage replaced, and takes every item in a step of its own (`Item`). While its frame
is at an item, the program called back may create ranges, zips and pipes and
drain any other observable, to any depth; before the first item nobody but the top
frame moves (`Callable`). `strayed` is a history variable: whose
callbacks were given a pair that was no longer allocated. Freed blocks are
never handed out again, so that no such read goes unseen; freed lists are, because
what the pool hands out is the subject. `malloc` hands out any of `ListIds` that is not in use
(`Fresh`) and no step that needs memory is taken without it: the set is a bound.

Limits: one thread; nothing calls back into the observable that is calling;
zips have two arguments, and an observable given to `zip` or `mergeMap` is not drained afterwards.

### Planner

| Code | Model |
|---|---|
| the pass `main` has reached | `phase`; `failedAt` remembers where it ended in an error |
| `RxStageCall`, `RxPlannedStage` | `stages`, `planned` |
| `RxDiagnosticBag` and the plan's flag | `diags`, `candidate` |
| `RxStateSlot`, `RxLoopOp` | `slots`, `ops`; indices begin at 1 and 0 is the code's -1 |

A line of the file is a keyword with its arguments, of the shapes that the parser
tells apart; `ReadLine` takes any of `Lines`, so that the file is as long
as `MaxLines` and holds anything. Every pass is a step, or a step for each stage
(`PlanStage`, `LowerStage`); each guard and each failure of the code is one of the
model, also those that never happen. That they never happen is what `AcceptedIsEmitted` says.

### LoopCode, GraphCode, PlannerKernels

An emitted function is a sequence of statements: declarations, assignments, tests
with `break` and `continue`, calls through a pointer, spliced bodies. `Run` executes it and
`Compiles` asks what a C compiler asks of it (each name declared once in a scope and
before it is used). A helper is a text with parameters, tests and a returned expression; values
are numbers and a pointer is an address that no number of the instance equals.
`Kernel`, `AstKernel` and `GraphKernel` are the ways of writing the loop,
`EmitProgram` chooses among them as the options say.

Where the code does not do what the operators mean, the case has a name and the
property excludes exactly it:

| Name | Case |
|---|---|
| `EndsInFirst` | a pipeline that ends in `first` returns 0 |
| `StopsInnerLoopOnly` | `takeWhile` over `zip_merge_map_range` leaves the inner loop only |
| `KeepsPointer` | `last` keeps a pointer to an object that later items change |
| `HeadInside` | `pairMap` or `tripleMap` after another stage starts again from the zip |
| `SafeToInline`, `HasSubtraction`, `NamesExpected` | helpers that the inliner or the optimiser would misread |
| `ObjectsUndeclared` | without a header nothing declares the objects that the state of `scanMut` and `reduceMut` and the scratch of `mapInto` point to |
| `DeclaredTwice` | without a header, a helper used by stages of two types is declared with both |
| `SlotTwice`, `ViewTwice`, `ValueTwice`, `LacksZip`, `CallsUndeclared` | other accepted pipelines whose program a C compiler refuses |

`CompilesUnlessRefused` is an equivalence: a program is refused in the last
three rows' cases and in no other, given a header (or helpers' texts) that declares every helper
with a type that suits its stages. The comparisons of results are made with a header, so that
they do not depend on what is declared.

### DslSyntax, DslCompile, DslMeaning

A text is a sequence of tokens, `ParseStatement` and its kin read it as the code's
recursive descent does, and `DslCompile` steps through it: a statement, a
chain to lower, the plan, the emission, a chain of the emitted main, run after run.
`phase` ends in one of `rejected`, `refused`, `undefined`, `uncompiled`,
`unfollowed` and `done`; the texts of the instance reach all of them. The fused
loop is code in `CSyntax`; the runtime chain runs on `Operators`,
so the composition reaches from the text to the apply functions of `observable.c`.

The excluded cases, each a difference between the loop, the runtime and the
operators' meaning:

| Name | Case |
|---|---|
| `SharesSlot` | two operators of one kind in a fused chain share a counter |
| `AggregatesInside` | `reduce` or `last` before the end of a fused chain passes on every step |
| `DropsAwaited` | an operator after `takeUntil` that drops the awaited item also skips the stop |
| `NeverCalled` | `reduce` over no items leaves the target as it was, not at the seed |
| `ConventionalNames` | parameters not named as the generator names them, or named like a variable |
| `SeedDropped` | the runtime chain drops `reduce`'s seed |
| `TakesNone` | the runtime's `take` of 0 or less lets items through |
| `ReadsToken` | the runtime reads items behind the completion token |
| `NullKey` | the runtime's `distinctUntilChanged` starts from the key 0 and drops a first item that has it (`observable.c:603`); the loop remembers that it has no key yet |
| `ReadsTarget` | the streaming path assigns the target between two items (`observable.c:296`), the loop after all of them: a function of the chain that reads it is given other values |
| `first` | the runtime's is not declared in `observable.h` |

The first five belong to `FusedComputesMeaning`, all but `NeverCalled` and `ConventionalNames` to
`BackendsAgree`. Taking any of the last six away makes the run fail: the instance has texts for each.
The two paths of `pop_all` are modelled as they call the subscriber, `Streamed` with
an assignment between items and `Popped` after the batch; a function reads the variables as they
are when it is called (`Rt(held)`).

What is taken for granted of a program: numbers fit an `int`, a range ends no earlier than one
before its beginning (`range` gives a shorter one a list of negative size, which is never drained), no function divides by zero or
calls itself, no value is the completion token, and no name is one of C's, of its library's or of a
local or function of the emitted code. A program that mentions a name the runtime's headers declare other than as
the language does, or that holds the address of a function in a variable, stops as `unfollowed`, as does one
with timed or inner observables or with the runtime's `first`; apart from the first kind it is judged by whether
it compiles. The compiler is gcc before version 14, where `-w` lets a number pass for a pointer. `of`'s
uninitialised field is taken as NULL, which is what makes its chains run at all.

## The runs

| Run | Shows | Bounds |
|---|---|---|
| `task_system` | type, lock discipline, order, conservation, no lost wakeup, refinement of `Scheduler`, with clients that may race the stop (1.4 million states) | 1 client beside the controller and the worker, 3 insertions, clock 0..2, 2 starts |
| `task_system_live` | a stop leaves nothing behind and signals a live condition variable; a stop returns; every task is run or freed | as above with 2 insertions, clock 0..1, callers that keep the contract, fair scheduling |
| `observable` | emissions equal the reference for every cut into batches; one-batch use including `reduce` and `last`; the two paths agree; completion is final | all chains of 1 and 2 of 11 stateful or stateless operators, with 6 that end a chain; runs of up to 3 maps, and `take` or `takeWhile` handing its token on to a second stage and to a `reduce` or `last`; 3 pushes after at most 3 initial items; 4 kinds of source |
| `observable_timed` | `buffer` shows every item once and in order; `throttleTime` shows the latest of each interval | alone, after and before other operators; 3 pushes, 3 flushes in every order |
| `lists` | every list has one owner and every block one list; chains that read pairs in time never read a freed one | 3 observables, ranges of 2, 5 chains, one push, 3 blocks, a pool of 2 lists of capacity 2 |
| `planner` | what the plan accepts is emitted; refusals are explained; every operation has its own slots; results are at the end | every file of up to 3 lines out of 36 shapes, well formed or not (46 446 states) |
| `kernels` | each emitter's kernel computes what the operators mean, or what the plain loop does; it compiles; storage fits | every pipeline of one of 7 sources and up to 3 of 22 stages, 8 options, called with 0 and 4 items (1.9 million states) |
| `dsl` | the parser accepts what the grammar says; fused loops compute the meaning; the back ends agree; clean programs compile; a run does not see the one before | 2717 texts: all pairs and chosen triples of operators over 5 sources, two chains, every builtin, nested sources, keys that are 0, functions that read their target, one program damaged at every token; 2 runs (29 590 states) |
| `flush_one` | finds that `flushOne` keeps the first item where its comment says the last | one `throttleTime` |
| `take_then_map` | finds that `take(1)` followed by `map` emits more than one item | that chain |
| `zip_any_chain` | finds that `zip` with `filter` and `take` hands out freed pairs | that chain |
| `graph_optimiser` | finds that the optimiser changes a result | helpers `x - 3` and `x + 5` |

Why the bounds are enough. A lost wakeup, a deadlock at the stop or an
inversion of two tasks needs one inserter against the worker and the stopper;
three insertions let one land in front of, between and behind others at equal and
different times, and two starts let one life leak into the next. The theorems
remove these bounds from the safety properties. For the operators, a context can go
wrong at a cut between two batches, the item after a cut, and the item after that:
three pushes behind a first batch have all of them. Two operators side by side decide the path taken and
every hand-over from one stage to the next. The maps do not commute,
so an order of callbacks shows. For the lists, three
observables give a zip or a mergeMap of two others, or three activations of `pop_all`
inside one another; ranges of 2 fit the pool, while `take`'s token and `mergeMap`'s product
outgrow it; and a pool of two is full as soon as a third list is given back.

For the planner, a pass looks at one stage, or at a stage and its place: three lines
give a source with two stages, or three in the wrong order, and the theorems remove
the bound. For the kernels, a source and three stages let an operation stand
before, behind and between two others: the shortest chains in which a
view, a slot or `value` can be declared twice with something in between. Four
items exceed every literal of the stages. For the DSL, two operators side by side meet in every
order; a third matters where one of them passes on what it did not take.

`CHECK_DEADLOCK FALSE` stands where the system may stop: a task system that was
stopped for the last time, an observable that nobody calls any more, and a compiler
that has ended.

### Properties worth a remark

* `NoLostWakeup` ties the worker's sleep to the list *as it is now*: without a deadline
  only on an empty list, with one only for the present head, and never after the flag
  was cleared. `insert_task_locked` returns whether the head changed and
  `insert_task_at` ignores it and always signals (`task.c:59`); the mutant that signals
  only for an empty list breaks it.
* `ImplementsScheduler` adds what no state predicate says: the task started is due
  and is the least of all pending ones; nothing is started that a stop has freed.
* `EmitsReference` compares the whole history with `RxReference`, after every call.
  Chains in which something follows an operator that ends the stream
  are exempt: there the code differs from RxJS (run `take_then_map`). So is a
  `reduce` or `last`, which starts again in every batch; `OneShotMatches` checks
  them for the use the benchmarks make of them, one batch. It leaves out a `last` behind a
  `take` that itself follows a `take` or `takeWhile`: the second counts the first one's token
  (`observable.c:625`), and `last` looks past one token only (`observable.c:994`).
* `PathsAgree` evaluates both interpreters on probe batches from every context that is reached.
* `OneOwner` is an equation: the allocated lists are the pooled and the held, each
  once. It fails for a list used after `freelist`, freed twice, shared or lost.
* `PairsOutliveReads` holds for the chains `ReadsInTime` describes. The others are real
  failures: a stage that passes pairs on in the generic path (`zip_any_chain`), and
  `mergeMap` alone, whose result keeps its block, so that an item pushed later
  is taken for a pair (`observable.c:886`).
* `ThrottlesToLatest` sets aside flushes that find unread items, the
  subject of `flush_one`, and chains in which a second operator waits for a flush: both
  would be ready in the same `pop_all`.

### Fairness

`task_system_live` assumes that a thread that can run does (weak fairness of each
of its steps), that a thread that keeps asking for the mutex gets it (strong
fairness of the lock steps: POSIX leaves this to the scheduler, and the default
mutexes used here provide it in practice), and that time passes. Actions end
(`WorkerActionDone`). Nobody is forced to insert, start or stop, and nothing
relies on a spurious wakeup. The compilers are sequential: each step of theirs consumes
a line, a token, a stage or a run, nobody else runs, and no liveness is stated.

## The proofs

`TaskSystemProofs` proves, for any finite set of clients, any delays and
any bounds:

| Theorem | Property |
|---|---|
| `Invariance` | `IInv`, the inductive invariant |
| `TypeCorrect` | `TypeOK` |
| `MutexCorrect` | `LockDiscipline` |
| `QueueCorrect` | `QueueOrdered` |
| `WakeupCorrect` | `NoLostWakeup` |
| `Refinement` | `ImplementsScheduler` |
| `Conservation` | `TasksConserved` |
| `StopCleansUp` | `StopLeavesNothing` |
| `SignalsReachACond` | `SignalsLiveCond` |

The only assumption is `ConstantsAssumption`: the threads are distinct and
the bounds natural numbers. `ClientsRaceStop` is either value, so these
results do not rest on clients keeping away from the stop; the last two say
themselves what they need of the clients.

The invariant. None of the properties is inductive alone. That the worker may read
`tasks_head->time_ms` after it checked for an empty list
(`DecideContext`) needs the mutex; mutual exclusion needs to know who can be inside
`insert_task_in` (`CallContext`: the worker only from an action, the controller only
while the system is up) and when there is a worker at all (`WorkerLifetime`);
the order of equal times needs the new task to be the newest (`IdsBounded`).
`IInv == TypeOK /\ ControlInv /\ QueueInv` joins these parts. `ControlStep`,
`TypeStep` and `QueueStep` prove one part each, action by action. TLC has checked
`IInv` on the instance of `task_system`.

`insert_task_locked` is the one algorithm. `InsertPositionSplits` says where its
walk stops in a sorted list, `InsertSortedShape` and `InsertSortedAt` what the list is
afterwards, `InsertSortedSorts` that it is sorted. `InsertedSet` and `PoppedSet`
translate to the set that `Scheduler` keeps; `Refinement` also needs
`TimesBounded`: a reading of the clock is never ahead of the clock.

The stop needs one more invariant, `StopInv`, by `StopStep`: once a client that
keeps the contract has been found idle by `StopTaskSystem`, it stays idle until the next
start, so that the list is empty in between and its tasks carry the number of the present life.

`PlannerProofs` proves, for any `Lines` of keywords and arguments and files of any length:

| Theorem | Property |
|---|---|
| `PlannerInvariance` | `IInv`, the inductive invariant |
| `PlannerTypes` | `TypeOK` |
| `PlanIsLastToRefuse` | `AcceptedIsEmitted` |
| `RefusalsHaveDiagnostics` | `RefusalsAreExplained` |
| `SlotsBelongToTheirOps` | `SlotsFit` |
| `ResultsReachTheEnd` | `NoResultDropped` |

Its assumptions: `LinesAssumption`, the arguments of a line are numbers and names, and
`MaxLinesAssumption`. `AcceptedIsEmitted` needs a history of every pass: that a
stage that was parsed has a name the plan knows (`ParsedStages`); that the plan goes on
with the same stages, and with an empty bag only if every stage fits where it
stands (`PlannedFollow`, `Verdict`); that the operations so far are the lowered
stages so far (`OpsFollow`); and that no slot index is out of range
(`SlotsInRange`), which validation would refuse. `IInv` joins them, and a lemma per
action keeps them. `LowerKeepsSlots` is the heart of `SlotsFit`: a stage's slots are
appended behind all others, so that older operations keep theirs and
the new ones are shared with none.

`ObservableProofs` proves, for any items, sources, chains of any length, callbacks and
bounds:

| Theorem | Property |
|---|---|
| `EndIsFinal` | `CompletionIsFinal` |
| `TypesHold` | `TypeOK` |
| `StreamingIsGeneric` | `StreamingAgrees`: both paths of `pop_all` agree on batches of any length |
| `PathsAgreeHolds` | `PathsAgree`, the same of the batches the run tries |
| `ChainsEmitReference` | `EmitsReference`, for every chain the property compares |
| `OneBatchMatches` | `OneShotMatches`, also for `reduce` and `last` |
| `LatestIsShown` | `ThrottlesToLatest`, wherever in its chain the `throttleTime` stands |

All of them rest on `ObservableAssumption`: a program pipes at least one operator, chains
consist of operators, and no source pushes the token as an item. `EndIsFinal` needs no
invariant: `PushWhenDone` and `PopAllWhenDone` are about the two guards that every
call passes. The others also suppose `CallbacksReturn`, that the mappers, keys and
accumulators of a program return items when they are given items; it is a hypothesis of
the theorems and not an `ASSUME`, because items are the integers and TLC cannot try all
of them.

The invariant `Inv` of `TypesHold` adds to `TypeOK` that the contexts are those of the
chain, position by position (`CtxsOf`: a set of seen keys for `distinct`, a count for `take`, a
flag for `skipWhile`), and that what is compiled is the chain that was piped. Every loop
of the runtime is a fold, so `OperatorsProofs` begins with folds: `FoldOf` is
one over sequences that the prover can unfold, by `Recursion` of `Induction`, and each
`FoldLeft` of the model is shown to be one (`CompileIsFold`, `GenericIsFold`, ...).
The types of the operators follow one by one.

`PathsProofs` then compares the two loops. They nest the other way round: the generic path
takes a batch through one Query after another, the streaming path takes
an item through all compiled stages and only then the next. The argument:

1. One operator, one item more (`OneMore`, a lemma per operator): what an operator gives
   on a batch and one more item is what it gave on the batch, followed by what one
   streamed step gives from the context that the batch left (`OneGoes`).
2. Compiling loses nothing: a run of maps, which becomes one stage, is those maps in a row
   (`LongerRun`), and the stages go with the Queries in lockstep (`CompilesExists`).
3. So after every item the state of the streaming loop is what the generic path computes from
   the items up to it (`Agree`), by induction over the batch (`BatchesAgree`).

Two differences remain, and the theorem names both. The apply functions stop at the
completion token and the compiled stages do not look for it, so the paths differ once a
callback makes the token of a plain item: `TokenFree` says of one batch that
no stage hands the token to the next. It holds of every batch that the run
of `observable` tries, in every state. And when nothing reaches a `reduce` or `last`
at the end of a chain, the generic path emits `NULL` and the
streaming path nothing; `OneFunction`, like `PathsAgree`, leaves that case out.

`ChainsEmitReference` goes from the two paths to what they ought to compute, and from one batch to
the whole history. The argument:

1. One stage, fed one batch and nothing before it, emits its reference (`StageMeans`): by induction over
   the batch, an operator at a time, with what each context remembers of the batch (`Means`). The
   reference picks items by position; `AtIsFold` makes that a fold too. An operator that ends the stream
   applies to the items up to the one it stops at (`StopApplies`, `StopMeans`), and a
   `buffer` hands on nothing until it is flushed (`EndHolds`).
2. Cuts do not show. What an item does to a chain depends on the contexts alone and not on what has
   come out before, so the contexts after any batches are those a single batch of all their items
   leaves (`CutAnywhere`, `After`, `CarriesOn`). `FlattenAppend` joins one more batch to the history.
3. Stage after stage, a whole chain then passes on what it means (`Passed`), on the generic path
   (`TellsGeneric`) and, because the paths agree, on the streaming one (`TellsStreaming`).
4. The invariant `TellInv` joins to `Inv`: that every context remembers exactly what has reached its stage,
   the results are what has left the last one, and the observable is complete exactly when the chain or
   its source has ended the stream (`Settled`); the same of observables that were not piped (`BareTells`);
   that what streams is complete when the token was fed (`EndFollows`); that an observable which is not
   complete is never left ready (`Quiet`); and that no flush precedes the first pipe or counts batches
   that have not been (`FlushesBehind`).

It has three hypotheses and a condition. `CallbacksReturn` is the one above. `KeysTell`: no key of a
`distinctUntilChanged` is `NULL`, which the code takes for the last key before it has
seen any (`observable.c:604`), so that a first item with that key is dropped. `TakesSome`: no
`take(0)`, which lets everything through (`observable.c:625-636`). Both are limits of the code. The
condition is in the theorem, state by state: `InTheClear`, that no stage
before the last emits the token in the reference, the exclusion `TokenFree` makes above. TLC has checked
that every state of `observable` and `observable_timed` with such a chain meets it.

`OneBatchMatches` is about a chain that is given a single batch. There operators may stand behind
a `take` that puts the token at the end of its output, so that items and tokens travel together.
Only `take` and `takeWhile` put a token there, one each, always behind the items (`Trails`); the apply
functions of `reduce`, `scan` and the like break at it (`BreakersBreak`), those of `map`, `filter` and the
like let it through (`PassersPass`), and `last` looks past one token and no more (`LastLooksPast`), which is why
the property leaves out a `last` behind two operators that count. `StreamsOnce` and `GenericOnce` carry that
through the chain on both paths. The invariant `OneInv` adds to `TellInv` that
before the first batch nothing is emitted and the contexts are new (`FirstContexts`), and the property
itself (`OneTold`).

`LatestIsShown` cuts the chain at its `throttleTime` (`Ahead`, `Beyond`). The part ahead is fed what
`pop_all` took; the part beyond is fed what the `throttleTime` hands on (`HandedOn`): of everything
that came out of the part ahead between one flush and the next, the last item. A batch
adds to the interval that is open (`OpenGrows`), a flush closes it and leaves an empty one (`FlushCloses`),
and both parts go on with whatever they are given as any chain of carrying
stages does (`CarryingBatch`, from the lemmas above). The invariant is `Settles`: the contexts ahead are those
all items leave, that of the `throttleTime` is the last item of the open interval or `NULL`, the contexts
beyond are those of the items handed on, and the results are what these mean beyond. It needs beside it that
no flush counts a batch that has not been (`FlushesIn`), that nothing but a flush makes the observable ready (`Quiet`),
and that one that is complete before its first batch stays as it was piped. `CallbacksReturn` and `KeysTell`
are its hypotheses; its condition `ThrottleInTheClear` says, state by state, that no stage
of the reference emits the token and that the `throttleTime` is handed neither the token nor `NULL`, which it
keeps for no item (`observable.c:727`). TLC has checked that every state of `observable_timed` that the property
compares meets it.

The lists take two modules. The first part of `ListsProofs` is about values, not states: for any memory
that fits together (`MemOK`: no list longer than its array, items that point to allocated
blocks, a pool of small lists without blocks and each of them once, a block live while
one list owns it), what `InitList`, `Fill`, `FillPairs`, `FreeList` and `MergeMap`
give is such a memory again, and every list but the one in hand is as it was.
`init_list` swaps the last list of the pool into a gap (`TakenFromPool`), and doubles 2
until the capacity is enough: that this ends is an induction.

`ListsProofs` and `ListsPairs` then prove, for any lists, observables, lengths, chains, limits of the
pool and bounds, hence for any depth of calls:

| Theorem | Property |
|---|---|
| `SpecInv` | `Inv`, the inductive invariant |
| `TypesHold` | `TypeOK` |
| `OneOwnerHolds` | `OneOwner` |
| `BlocksOwnedHolds` | `BlocksOwned` |
| `PairsOutliveReadsHolds` | `PairsOutliveReads` |

The only assumption is `ListsAssumption`: lists and observables have positive numbers, 0
being the code's `NULL`, and the chains consist of the operators.

`OneOwner` alone is not inductive: which list an observable holds depends on the calls.
`Inv` adds to `MemOK` that no observable is being drained twice (`OneCallEach`); that a
drain loop works on the `data` of its observable, and a stream or a chain half applied does not
(`DrainsData`): there `data` points to a list that is freed or somebody else's; that only the
innermost call is anywhere but in a callback (`FramesFit`); and that the lists in use are divided
among the observables (`Divided`), none of them both a link of its pipe and its current list
(`LinksApart`). Every action then either gives one observable one more list (`Gains`) or
exchanges its current list for one from outside (`Swaps`), and both keep the division.

`PairsOutliveReads` is about pointers, and its invariant `PairsInv` follows them. What was lent to
`zip` or `mergeMap` is never drained again, so the blocks behind it
stay, and they are closed: pairs in them point to lent blocks only (`LentIsClosed`). An item of any other
list points into that list's own block (`OwnPairs`). A list that is drained in time
either has lost its pairs to a `map` or still owns their block; `Idle` says so of the observables that rest,
`Busy` of those being drained, at every stage. Calls made from a callback take, fill and free other lists
and allocate other blocks, and what they keep of the waiting calls is stated once (`Spares`, `StepKeepsPairs`).
TLC has checked `Inv` and `PairsInv` as invariants of the instance of `lists`.

`Induction` derives induction over the naturals, and that functions can be defined by
recursion (`Recursion`), from the library's theorem that strict inclusion is well founded on finite
sets. The library's own induction theorems take an operator as a parameter, which the installed
provers cannot instantiate; stated of sets and functions they can be cited.

Only model-checked, and why: the two liveness properties (liveness under fairness is
outside what the prover handles); what chains, kernels and DSL programs compute. The
models of the emitters and of the DSL compiler (`LoopCode`, `GraphCode`, `DslSyntax` and what
extends them) declare recursive operators, for which the prover has no SMT
backend.

## The plan

In the order of what matters most: the task system and its proofs; operators and
observables; lists; the planner with its proofs and its emitters; the DSL compiler.
All of these are done. What would come next:

1. `interval`, `timer` and `addnext` on `Scheduler` in place of abstract flushes.
2. Re-entrant subscribers: a push into the observable that is calling.
3. Calls nested in a helper's body (`core/planner/astgen.c:691-801`), and the
   optimiser's own parser of helper texts.
4. The emitters with recursive functions or folds in place of recursive operators, so that
   theorems about kernels can be stated.

## Not modelled

* The race of the worker with a program's own thread on one observable and on the
  pool of lists (`observable.c:423`, `list.c:177`): there is no lock, so every outcome
  is one the code permits, and no property of it holds.
* Text: characters, spaces, fixed buffers and the lengths of names; the string builder's
  growth; `c_model.c` and `c_render.c`, which construct and print trees of C.
* Failures of `malloc` in the compilers.
* Code that nothing calls, such as `list_remove`.
* The profiler, benchmarks, drivers and tests. `src/observable.c` is
  `core/src/observable.c` in another brace style, token for token, and not a part of its own.

## Findings

1. `observable.c:710-714`: the comment says "Remove everything except the last item"; `pop`
   takes from the back, so the first is kept (run `flush_one`).
2. `observable.c:780`: `map`, like `mapTo`, `scan`, `reduce` and `takeUntil`, stops at
   the completion token and does not pass it on, so `take(n)` before it does not
   end the stream and the next push goes through (run `take_then_map`).
3. `observable.c:95`: the generic path frees the block of pairs with the list
   of the first stage, while the items of the next list point into it; README.md:77-78 of
   the repository offers `zip` with any operators (run `zip_any_chain`).
4. `core/planner/graph_opt.c:553`: folding `(x - a) + b` takes `a` with a plus sign, so
   `map(x - 3)` before `map(x + 5)` becomes `x + 8` (run `graph_optimiser`).

## Running

    tlc -config MCTaskSystem.cfg MCTaskSystem
    tlc -config MCObservable.cfg MCObservable
    tlc -config MCLists.cfg MCLists
    tlc -config MCPlanner.cfg MCPlanner
    tlc -config MCKernels.cfg MCPlanner
    tlc -config MCDsl.cfg MCDsl
    tlapm TaskSystemProofs.tla
    tlapm ObservableProofs.tla
    tlapm PlannerProofs.tla
    tlapm Induction.tla
    tlapm OperatorsProofs.tla
    tlapm PathsProofs.tla
    tlapm ListsProofs.tla
    tlapm ListsPairs.tla
