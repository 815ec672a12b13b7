-------------------------------- MODULE Lists --------------------------------
(***************************************************************************)
(* Who owns a list, and for how long what it holds may be read: the lists  *)
(* and the pool of core/src/list.c under the observables of observable.c.  *)
(*                                                                         *)
(* A list is an array that grows, its size and perhaps a payload block, in *)
(* which zip and mergeMap put the pairs their items point to.  freelist    *)
(* frees the block or, for a small list without one, puts the list into a  *)
(* pool from which init_list takes it again.  Nothing counts references:   *)
(* pop_all must know which list is whose while the subscribers it calls    *)
(* create observables and run pop_all for others.                          *)
(*                                                                         *)
(* An item is abstracted to the block it points into, and what a predicate *)
(* answers is left open.  A block that was freed is not handed out again,  *)
(* so that a read of it shows.  Contract: one thread; a subscriber does    *)
(* not call back into an observable whose pop_all is running; only ranges  *)
(* are pushed to; what was given to zip or mergeMap is left alone.         *)
(***************************************************************************)
EXTENDS Integers, FiniteSetsExt, SequencesExt

CONSTANTS
  ListIds,       \* bound: memory for lists
  ObsIds,        \* the observables a program makes, in this order
  Lengths,       \* sizes of its ranges
  Chains,        \* arguments of pipe: sequences of operators
  PoolMax,       \* LIST_POOL_MAX
  PoolCapacity,  \* LIST_POOL_CAPACITY_LIMIT
  MaxPushes,     \* bound: items pushed
  MaxBlocks      \* bound: payload blocks allocated

Ops == {"filter", "map", "take", "mergeMap"}

ASSUME ListsAssumption ==
  /\ ListIds \subseteq Nat \ {0}
  /\ ObsIds \subseteq Nat \ {0}
  /\ Lengths \subseteq Nat
  /\ Chains \subseteq Seq(Ops)
  /\ {PoolMax, PoolCapacity, MaxPushes, MaxBlocks} \subseteq Nat

VARIABLES
  mem,      \* [heap, pool, blocks]: every List, g_list_pool, payload blocks
  obs,      \* the observables
  lent,     \* those given to zip or mergeMap
  frames,   \* the calls of pipe and pop_all under way, innermost last
  strayed,  \* history: observables through which a freed block was read
  pushes    \* history: items pushed

vars == << mem, obs, lent, frames, strayed, pushes >>

Plain == 0     \* an item that is a number
Done == -1     \* the completion token
NoBlock == 0   \* payload_block = NULL
NoList == 0

Unused == [used |-> FALSE, cap |-> 0, items |-> << >>, block |-> NoBlock]
Items(m, l) == m.heap[l].items

-----------------------------------------------------------------------------
(* normalized_capacity: 2, doubled until it is enough.                     *)
Doublings[k \in Nat] == IF k = 0 THEN 2 ELSE 2 * Doublings[k - 1]
Normalized(capacity) ==
  LET k == CHOOSE n \in 0..capacity :
             /\ Doublings[n] >= capacity
             /\ \A m \in 0..(n - 1) : Doublings[m] < capacity
  IN  Doublings[k]

(* What malloc may hand out.                                               *)
Fresh(m) == {l \in ListIds : ~m.heap[l].used}

(* init_list_with_capacity: the topmost list of the pool that is large     *)
(* enough, whose place the last one takes, or a new one.                   *)
InitList(m, capacity) ==
  LET need == Normalized(capacity)
      fits == {i \in DOMAIN m.pool : m.heap[m.pool[i]].cap >= need}
      reuse == need <= PoolCapacity /\ fits # {}
      l == IF reuse THEN m.pool[Max(fits)] ELSE CHOOSE x \in Fresh(m) : TRUE
  IN  [list |-> l,
       mem |-> [m EXCEPT
         !.heap[l] = [used |-> TRUE, items |-> << >>, block |-> NoBlock,
                      cap |-> IF reuse THEN m.heap[l].cap ELSE need],
         !.pool = IF reuse
                  THEN Front([m.pool EXCEPT ![Max(fits)] = Last(m.pool)])
                  ELSE @]]

(* Mutant: items are written without a look at the capacity.               *)
FillNoResize(m, l, items) == [m EXCEPT !.heap[l].items = items]

(* push_back, resize and list_reserve: items are written, the array grows. *)
Fill(m, l, items) ==
  [m EXCEPT !.heap[l].items = items,
            !.heap[l].cap = IF Len(items) <= @ THEN @
                            ELSE Normalized(Len(items))]

(* Mutant: a list goes to the pool whether or not it has a payload block.  *)
FreeListPoolsAll(m, l) ==
  IF m.heap[l].cap <= PoolCapacity /\ Len(m.pool) < PoolMax
  THEN [m EXCEPT !.heap[l].items = << >>, !.pool = Append(@, l)]
  ELSE [m EXCEPT !.heap[l] = Unused]

FreeList(m, l) ==
  LET b == m.heap[l].block
  IN  IF /\ b = NoBlock
         /\ m.heap[l].cap <= PoolCapacity
         /\ Len(m.pool) < PoolMax
      THEN [m EXCEPT !.heap[l].items = << >>, !.pool = Append(@, l)]
      ELSE [m EXCEPT !.heap[l] = Unused,
                     !.blocks = IF b = NoBlock THEN @
                                ELSE [m.blocks EXCEPT ![b].live = FALSE]]

(* n items that point into a new payload block of l, whose pairs hold      *)
(* pointers into the blocks of refs.                                       *)
FillPairs(m, l, n, refs) ==
  LET b == Len(m.blocks) + 1
  IN  IF n = 0 THEN m
      ELSE [Fill(m, l, [i \in 1..n |-> b]) EXCEPT
              !.heap[l].block = b,
              !.blocks = Append(@, [live |-> TRUE, refs |-> refs])]

(* list_active_size, and the blocks the items before the token point into. *)
Active(m, l) ==
  LET s == Items(m, l)
  IN  IF s # << >> /\ Last(s) = Done THEN Front(s) ELSE s
Pointed(m, l) == ToSet(Active(m, l)) \ {Plain, Done}

(* The blocks that can be read, whatever their pairs point to.             *)
Closed(m, bs) == \A b \in bs : m.blocks[b].live /\ m.blocks[b].refs \subseteq bs
Readable(m) == UNION {bs \in SUBSET DOMAIN m.blocks : Closed(m, bs)}

-----------------------------------------------------------------------------
(***************************************************************************)
(* The chain.  filter and map stream; take stands for the operators that   *)
(* do not and pass items on.                                               *)
(***************************************************************************)
Streams(chain) == chain # << >> /\ ToSet(chain) \subseteq {"filter", "map"}
MergeStreams(chain) == chain # << >> /\ chain[1] = "mergeMap"
                         /\ Streams(Tail(chain))

(* How many items come before the token: the one element of this set.      *)
BeforeDone(s) ==
  {n \in 0..Len(s) : /\ \A i \in 1..n : s[i] # Done
                     /\ n < Len(s) => s[n + 1] = Done}

(* The ways to leave items out of s.                                       *)
Subsequences(s) ==
  UNION {{[i \in 1..n |-> s[at[i]]] :
            at \in {f \in [1..n -> DOMAIN s] :
                      \A i, j \in 1..n : i < j => f[i] < f[j]}} :
         n \in 0..Len(s)}

(* What an apply function may put into its result.                         *)
Outputs(op, s) ==
  CASE op = "filter" -> Subsequences(s)
    [] op = "map" -> {[i \in 1..n |-> Plain] : n \in BeforeDone(s)}
    [] op = "take" ->
         {s} \union {Append(SubSeq(s, 1, n), Done) : n \in DOMAIN s}

(* Mutant: the pairs of the inner list are pointed to and not copied.      *)
MergeMapPoints(m, l, outer) ==
  LET new == InitList(m, 2)
      n == Len(Active(m, outer)) * Len(Active(m, l))
  IN  [list |-> new.list,
       mem |-> FillPairs(new.mem, new.list, n,
                         Pointed(m, l) \union Pointed(m, outer))]

(* mergemap_apply.  If the inner list has a payload block its pairs are    *)
(* copied, with the pointers in them, into the block of the result.        *)
MergeMap(m, l, outer) ==
  LET new == InitList(m, 2)
      n == Len(Active(m, outer)) * Len(Active(m, l))
      inner == IF m.heap[l].block = NoBlock THEN Pointed(m, l)
               ELSE UNION {m.blocks[b].refs : b \in Pointed(m, l)}
  IN  [list |-> new.list,
       mem |-> FillPairs(new.mem, new.list, n,
                         inner \union Pointed(m, outer))]

(* Calling back with an item, or copying the pair it points to, reads it.  *)
(* take does not; mergemap_apply takes every item of a list with a payload *)
(* block for a pair.                                                       *)
ReadsBadly(m, op, l) ==
  CASE op = "take" -> FALSE
    [] op = "mergeMap" ->
         /\ m.heap[l].block # NoBlock
         /\ \E b \in ToSet(Active(m, l)) : b = Plain \/ ~m.blocks[b].live
    [] OTHER -> ~Pointed(m, l) \subseteq Readable(m)

-----------------------------------------------------------------------------
Made == {o \in ObsIds : obs[o].data # NoList}
Top == Last(frames)
Draining == {i \in DOMAIN frames : frames[i].call = "pop_all"}
Running == {frames[i].o : i \in Draining}

(* The program runs when no call is under way, or when one calls back.     *)
Callable == frames # << >> => Top.at > 0

Frame(call, o, l, left) ==
  [call |-> call, o |-> o, list |-> l, left |-> left, at |-> 0]

(* What pipe may be given: the observables given to mergeMap exist.        *)
Arguments == {arg \in Chains \X (ObsIds \union {NoList}) :
                IF "mergeMap" \in ToSet(arg[1]) THEN arg[2] \in Made \ Running
                ELSE arg[2] = NoList}

(* An observable with d for its data is made, given away are those in      *)
(* lend, and pipe is called if there is a chain.                           *)
Make(o, d, pairs, arg, lend) ==
  /\ mem' = d.mem
  /\ obs' = [obs EXCEPT ![o] =
       [data |-> d.list, links |-> << >>, pairs |-> pairs, chain |-> arg[1],
        outer |-> arg[2], complete |-> FALSE]]
  /\ lent' = lent \union (lend \ {NoList})
  /\ frames' = IF arg[1] = << >> THEN frames
               ELSE Append(frames, Frame("pipe", o, NoList, arg[1]))
  /\ UNCHANGED << strayed, pushes >>

Makeable(o) ==
  /\ Callable /\ Fresh(mem) # {}
  /\ o \notin Made /\ \A p \in ObsIds : p < o => p \in Made

MakeRange(o, n, arg) ==
  LET new == InitList(mem, 2)
      items == [i \in 1..n |-> Plain]
  IN  /\ Makeable(o)
      /\ Make(o, [new EXCEPT !.mem = Fill(new.mem, new.list, items)],
              FALSE, arg, {arg[2]})

(* zip of two, which reads the lists of its arguments once, now.           *)
MakeZip(o, a, b, arg) ==
  LET left == obs[a].data
      right == obs[b].data
      n == IF Len(Active(mem, left)) <= Len(Active(mem, right))
           THEN Len(Active(mem, left)) ELSE Len(Active(mem, right))
      new == InitList(mem, 2)
      firsts(l) == {Active(mem, l)[i] : i \in 1..n} \ {Plain, Done}
      refs == firsts(left) \union firsts(right)
  IN  /\ Makeable(o)
      /\ {a, b} \subseteq Made \ Running
      /\ Len(mem.blocks) < MaxBlocks
      /\ Make(o, [new EXCEPT !.mem = FillPairs(new.mem, new.list, n, refs)],
              TRUE, arg, {a, b, arg[2]})

(* pipe: one more observable for every stage, whose list nothing will use. *)
PipeStage ==
  LET new == InitList(mem, 2)
  IN  /\ frames # << >> /\ Top.call = "pipe"
      /\ Fresh(mem) # {}
      /\ mem' = new.mem
      /\ obs' = [obs EXCEPT ![Top.o].links = Append(@, new.list)]
      /\ frames' = IF Tail(Top.left) = << >> THEN Front(frames)
                   ELSE [frames EXCEPT ![Len(frames)].left = Tail(@)]
      /\ UNCHANGED << lent, strayed, pushes >>

-----------------------------------------------------------------------------
Stray(o, bad) == strayed' = IF bad THEN strayed \union {o} ELSE strayed

(* What pop_all does before the first callback that may call back: nothing *)
(* for a chain that streams, the first stage of one that streams behind    *)
(* mergeMap, and the whole chain on the generic path.                      *)
StagesAhead(chain) ==
  IF chain = << >> \/ Streams(chain) THEN << >>
  ELSE IF MergeStreams(chain) THEN << "mergeMap" >> ELSE chain

PopAll(o, m) ==
  /\ Callable /\ o \in Made \ (Running \union lent)
  /\ ~obs[o].complete
  /\ Items(m, obs[o].data) # << >>
  /\ mem' = m
  /\ frames' = Append(frames, Frame("pop_all", o, obs[o].data,
                                    StagesAhead(obs[o].chain)))
  /\ UNCHANGED << obs, lent, strayed >>

Subscribe(o) == PopAll(o, mem) /\ UNCHANGED pushes

Push(o) ==
  LET l == obs[o].data
  IN  /\ pushes < MaxPushes /\ pushes' = pushes + 1
      /\ ~obs[o].pairs
      /\ PopAll(o, Fill(mem, l, Append(Items(mem, l), Plain)))

(* A stage has made new of the list l of the pop_all under way: l is freed *)
(* (free_replaced_list), and the generic path keeps the last result.       *)
Replace(new) ==
  LET rest == Tail(Top.left)
  IN  /\ mem' = FreeList(new.mem, Top.list)
      /\ frames' = [frames EXCEPT ![Len(frames)].list = new.list,
                                  ![Len(frames)].left = rest]
      /\ obs' = IF rest = << >> /\ ~MergeStreams(obs[Top.o].chain)
                THEN [obs EXCEPT ![Top.o].data = new.list] ELSE obs
      /\ Stray(Top.o, ReadsBadly(mem, Head(Top.left), Top.list))
      /\ UNCHANGED << lent, pushes >>

AtStage == frames # << >> /\ Top.call = "pop_all" /\ Top.left # << >>

ApplyStage ==
  LET op == Head(Top.left)
      s == Items(mem, Top.list)
      new == InitList(mem, IF op = "take" THEN 2 ELSE Len(s))
  IN  /\ AtStage /\ op # "mergeMap"
      /\ Fresh(mem) # {}
      /\ \E out \in Outputs(op, s) :
           Replace([new EXCEPT !.mem = Fill(new.mem, new.list, out)])

ApplyMergeMap ==
  /\ AtStage /\ Head(Top.left) = "mergeMap"
  /\ Fresh(mem) # {} /\ Len(mem.blocks) < MaxBlocks
  /\ Replace(MergeMap(mem, Top.list, obs[obs[Top.o].outer].data))

-----------------------------------------------------------------------------
Streaming == Streams(obs[Top.o].chain) \/ MergeStreams(obs[Top.o].chain)
Emitting == frames # << >> /\ Top.call = "pop_all" /\ Top.left = << >>

(* The item that comes next; at the end of the list or at the token the    *)
(* loop is over.                                                           *)
Here == IF Streaming THEN Top.at + 1 ELSE 1
Finished == Here \in DOMAIN Items(mem, Top.list)
              => Items(mem, Top.list)[Here] = Done
Ended == Here \in DOMAIN Items(mem, Top.list)

(* The callbacks of a stream, or the subscriber, get the next item.  The   *)
(* drain loop takes it out of the list first, the stream leaves it there.  *)
Item ==
  /\ Emitting /\ ~Finished
  /\ frames' = [frames EXCEPT ![Len(frames)].at = @ + 1]
  /\ mem' = IF Streaming THEN mem
            ELSE [mem EXCEPT !.heap[Top.list].items = Tail(@)]
  /\ Stray(Top.o, Items(mem, Top.list)[Here] \notin Readable(mem) \union {Plain})
  /\ UNCHANGED << obs, lent, pushes >>

(* Mutant: the observable keeps the list that was freed.                   *)
StreamEndKeeps ==
  /\ Emitting /\ Streaming /\ Finished
  /\ mem' = FreeList(mem, Top.list)
  /\ obs' = [obs EXCEPT ![Top.o].complete = Ended]
  /\ frames' = Front(frames)
  /\ UNCHANGED << lent, strayed, pushes >>

(* The stream is over: freelist, reset_observable_data.                    *)
StreamEnd ==
  LET new == InitList(FreeList(mem, Top.list), 2)
  IN  /\ Emitting /\ Streaming /\ Finished
      /\ Fresh(mem) # {}
      /\ mem' = new.mem
      /\ obs' = [obs EXCEPT ![Top.o].data = new.list,
                            ![Top.o].complete = Ended]
      /\ frames' = Front(frames)
      /\ UNCHANGED << lent, strayed, pushes >>

(* The drain loop is over: the list is empty, or the token was taken.      *)
DrainEnd ==
  /\ Emitting /\ ~Streaming /\ Finished
  /\ mem' = IF Ended THEN [mem EXCEPT !.heap[Top.list].items = Tail(@)]
            ELSE mem
  /\ obs' = [obs EXCEPT ![Top.o].complete = Ended]
  /\ frames' = Front(frames)
  /\ UNCHANGED << lent, strayed, pushes >>

Init ==
  /\ mem = [heap |-> [l \in ListIds |-> Unused], pool |-> << >>,
            blocks |-> << >>]
  /\ obs = [o \in ObsIds |->
       [data |-> NoList, links |-> << >>, pairs |-> FALSE, chain |-> << >>,
        outer |-> NoList, complete |-> FALSE]]
  /\ lent = {} /\ frames = << >> /\ strayed = {} /\ pushes = 0

Next ==
  \/ \E o \in ObsIds, n \in Lengths, arg \in Arguments : MakeRange(o, n, arg)
  \/ \E o \in ObsIds, a, b \in Made, arg \in Arguments : MakeZip(o, a, b, arg)
  \/ \E o \in Made : Subscribe(o) \/ Push(o)
  \/ PipeStage
  \/ ApplyStage \/ ApplyMergeMap
  \/ Item
  \/ StreamEnd
  \/ DrainEnd

Spec == Init /\ [][Next]_vars

-----------------------------------------------------------------------------
(* The lists observable o accounts for: those its pipe made, and the one   *)
(* its pop_all works on, or else its data.                                 *)
HeldBy(o) ==
  ToSet(obs[o].links) \union
  IF o \in Running THEN {frames[i].list : i \in {j \in Draining :
                                                  frames[j].o = o}}
  ELSE {obs[o].data}

(* Types; a list is not longer than its array, and the pool keeps to its   *)
(* two limits (list.c:6-9).                                                *)
ItemsOK == {Done, Plain} \union DOMAIN mem.blocks

ListOK(r) ==
  /\ r \in [used : BOOLEAN, cap : Nat, items : Seq(ItemsOK),
            block : 0..Len(mem.blocks)]
  /\ Len(r.items) <= r.cap

ObservableOK(r) ==
  r \in [data : ListIds \union {NoList}, links : Seq(ListIds),
         pairs : BOOLEAN, chain : Chains \union {<< >>},
         outer : ObsIds \union {NoList}, complete : BOOLEAN]

FrameOK(r) ==
  /\ r \in [call : {"pipe", "pop_all"}, o : Made,
            list : ListIds \union {NoList}, left : Seq(Ops), at : Nat]
  /\ r.call = "pop_all" => r.list \in ListIds

TypeOK ==
  /\ \A l \in ListIds : ListOK(mem.heap[l])
  /\ mem.pool \in Seq(ListIds) /\ Len(mem.pool) <= PoolMax
  /\ \A i \in DOMAIN mem.pool : mem.heap[mem.pool[i]].cap <= PoolCapacity
  /\ Len(mem.blocks) <= MaxBlocks
  /\ \A b \in DOMAIN mem.blocks :
       mem.blocks[b] \in [live : BOOLEAN, refs : SUBSET DOMAIN mem.blocks]
  /\ \A o \in ObsIds : ObservableOK(obs[o])
  /\ \A i \in DOMAIN frames : FrameOK(frames[i])
  /\ lent \subseteq Made /\ strayed \subseteq Made
  /\ pushes \in 0..MaxPushes

(* Whatever order subscribers create observables and drain others in,      *)
(* every allocated list has one owner: the pool, which holds it once, or   *)
(* one observable.  So no list is used after freelist, none is freed       *)
(* twice, none is shared and none is lost (init_list, freelist and their   *)
(* callers in pop_all).                                                    *)
OneOwner ==
  /\ IsInjective(mem.pool)
  /\ \A o1, o2 \in Made : o1 # o2 => HeldBy(o1) \intersect HeldBy(o2) = {}
  /\ LET held == UNION {HeldBy(o) : o \in Made}
     IN  /\ held \intersect ToSet(mem.pool) = {}
         /\ {l \in ListIds : mem.heap[l].used} = held \union ToSet(mem.pool)

(* A payload block lives exactly as long as the one list that owns it: the *)
(* pool keeps no block, and none is freed twice or forgotten.              *)
BlocksOwned ==
  LET owners(b) == {l \in ListIds : mem.heap[l].block = b}
  IN  \A b \in DOMAIN mem.blocks :
        /\ Cardinality(owners(b)) = IF mem.blocks[b].live THEN 1 ELSE 0
        /\ owners(b) \intersect ToSet(mem.pool) = {}

(* The observables whose pairs are read while the list that owns them is   *)
(* there: the chain streams, perhaps behind mergeMap, or has read the      *)
(* pairs before the first list is freed, or there are no pairs.            *)
ReadsInTime(o) ==
  LET chain == obs[o].chain
      merges == "mergeMap" \in ToSet(chain)
  IN  \/ chain = << >> \/ Streams(chain) \/ MergeStreams(chain)
      \/ chain[1] = "map" /\ ~merges
      \/ ~obs[o].pairs /\ ~merges

(* Those observables never read a freed block, nor take a number for a     *)
(* pair: the blocks behind zip, zip of zip and mergeMap, through the       *)
(* pointers copied from one to the other, outlive every callback.          *)
PairsOutliveReads == \A o \in strayed : ~ReadsInTime(o)

(* README.md:77-78 offers zip as the source of any chain of operators:     *)
(* reading the pairs of any zip, behind any chain without mergeMap, reads  *)
(* memory that is still allocated.                                         *)
ZipServesAnyChain ==
  \A o \in strayed : ~obs[o].pairs \/ "mergeMap" \in ToSet(obs[o].chain)
=============================================================================
