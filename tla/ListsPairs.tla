------------------------------ MODULE ListsPairs ------------------------------
(***************************************************************************)
(* A theorem about Lists: what pop_all reads through a payload block is    *)
(* still allocated when it does.                                           *)
(***************************************************************************)
EXTENDS ListsProofs

USE ListsAssumption DEF NoBlock, NoList, Plain, Done

-----------------------------------------------------------------------------
(***************************************************************************)
(* The inductive invariant: which blocks what is held points into.         *)
(***************************************************************************)
BlockOf(l) == mem.heap[l].block
Holding(l) == ToSet(Items(mem, l))

(* The blocks behind zip and mergeMap.                                     *)
LentPairs == UNION {Pointed(mem, obs[o].data) : o \in lent}

(* Every pair is in the list's own block, and it points to lent ones.      *)
OwnPairs(l) ==
  \A b \in Holding(l) \ {Plain, Done} :
    b = BlockOf(l) /\ mem.blocks[b].refs \subseteq LentPairs

(* The data of an observable no pop_all works on.                          *)
Rests(o) ==
  LET l == obs[o].data
  IN  /\ OwnPairs(l)
      /\ ~obs[o].complete => Done \notin Holding(l)
      /\ ~obs[o].pairs => Holding(l) \subseteq {Plain, Done}
      /\ ReadsInTime(o) /\ BlockOf(l) # NoBlock
           => obs[o].pairs /\ Plain \notin Holding(l)

(* A list pop_all works on, if its observable reads in time.               *)
InTime(o, l, left) ==
  /\ \/ Holding(l) \subseteq {Plain, Done}
     \/ OwnPairs(l) /\ (left = << >> \/ Head(left) \in {"map", "mergeMap"})
  /\ "mergeMap" \in ToSet(left) =>
       /\ left = << "mergeMap" >> /\ MergeStreams(obs[o].chain)
       /\ OwnPairs(l) /\ Done \notin Holding(l)
       /\ BlockOf(l) # NoBlock => Plain \notin Holding(l)
  /\ left # << >> \/ ~MergeStreams(obs[o].chain)
       => (BlockOf(l) # NoBlock => obs[o].pairs)

Reads(o, l, left) ==
  DoneLast(Items(mem, l)) /\ (ReadsInTime(o) => InTime(o, l, left))

Idle == \A o \in Made \ Running : Rests(o)
Busy == \A i \in Draining : Reads(frames[i].o, frames[i].list, frames[i].left)

PairsInv ==
  Inv /\ lent \intersect Running = {} /\ Idle /\ Busy /\ PairsOutliveReads

-----------------------------------------------------------------------------
(***************************************************************************)
(* What can be read.                                                       *)
(***************************************************************************)
LEMMA PointedIs ==
  ASSUME NEW m, MemOK(m), NEW l \in ListIds
  PROVE  /\ Pointed(m, l) = ToSet(Items(m, l)) \ {Plain, Done}
         /\ ToSet(Items(m, l)) \subseteq ItemsIn(m)
         /\ Pointed(m, l) \subseteq DOMAIN m.blocks
<1> DEFINE s == Items(m, l)
<1>1. m \in MemType /\ HeapFits(m)
  BY DEF MemOK
<1>2. s \in Seq(Int) /\ \A i \in DOMAIN s : s[i] \in ItemsIn(m)
  BY <1>1 DEF Items, MemType, ListType, HeapFits
<1>3. ASSUME NEW b \in ToSet(s), b # Done PROVE b \in ToSet(Active(m, l))
  <2>1. PICK i \in DOMAIN s : b = s[i]
    BY <1>3 DEF ToSet
  <2> HIDE DEF s
  <2>2. CASE s # << >> /\ Last(s) = Done
    <3>1. i \in 1..(Len(s) - 1) /\ Len(s) \in Nat
      BY <1>2, <1>3, <2>1, <2>2 DEF Last
    <3>2. Front(s)[i] = s[i] /\ i \in DOMAIN Front(s)
      BY <1>2, <3>1 DEF Front
    <3>3. Active(m, l) = Front(s)
      BY <2>2 DEF Active, s
    <3>4. QED
      BY <2>1, <3>2, <3>3 DEF ToSet
  <2>3. CASE ~(s # << >> /\ Last(s) = Done)
    <3>1. Active(m, l) = s
      BY <2>3 DEF Active, s
    <3>2. QED
      BY <1>3, <3>1
  <2>4. QED
    BY <2>2, <2>3
<1>4. \A b \in ToSet(Active(m, l)) : b \in ToSet(s)
  BY ActiveItems DEF ToSet
<1>5. ToSet(s) \subseteq ItemsIn(m)
  BY <1>2 DEF ToSet
<1> HIDE DEF s
<1>6. Pointed(m, l) = ToSet(s) \ {Plain, Done}
  BY <1>3, <1>4 DEF Pointed
<1>7. QED
  BY <1>5, <1>6 DEF s, ItemsIn

(* What was lent is not worked on, so its blocks are owned and closed.     *)
LEMMA LentIsClosed ==
  ASSUME PairsInv
  PROVE  /\ \A o \in lent : /\ o \in Made \ Running /\ obs[o].data \in ListIds
                            /\ Current(o, obs[o].data)
                            /\ Pointed(mem, obs[o].data) \subseteq LentPairs
         /\ LentPairs \subseteq DOMAIN mem.blocks
         /\ Closed(mem, LentPairs)
<1>1. MemOK(mem) /\ obs \in [ObsIds -> ObsType] /\ lent \subseteq Made
  BY DEF PairsInv, Inv, StateType
<1>2. \A o \in lent : o \in Made \ Running /\ obs[o].data \in ListIds
  BY <1>1 DEF PairsInv, Made, ObsType
<1>3. \A o \in lent : Rests(o) /\ Current(o, obs[o].data)
  BY <1>2 DEF PairsInv, Idle, Current
<1>4. ASSUME NEW b \in LentPairs
      PROVE  b \in DOMAIN mem.blocks /\ mem.blocks[b].live
             /\ mem.blocks[b].refs \subseteq LentPairs
  <2>1. PICK o \in lent : b \in Pointed(mem, obs[o].data)
    BY DEF LentPairs
  <2>2. b \in DOMAIN mem.blocks /\ b \in Holding(obs[o].data) \ {Plain, Done}
    BY <1>1, <1>2, <2>1, PointedIs DEF Holding
  <2>3. b = mem.heap[obs[o].data].block /\ mem.blocks[b].refs \subseteq LentPairs
    BY <1>3, <2>2 DEF Rests, OwnPairs, BlockOf
  <2>4. QED
    BY <1>1, <1>2, <2>2, <2>3 DEF MemOK, BlocksFit
<1>5. QED
  BY <1>2, <1>3, <1>4 DEF Closed, LentPairs

(* A list whose pairs are its own can be read.                             *)
LEMMA OwnIsReadable ==
  ASSUME PairsInv, NEW l \in ListIds, OwnPairs(l)
  PROVE  /\ \A b \in Holding(l) : b \in Readable(mem) \union {Plain, Done}
         /\ Pointed(mem, l) \subseteq Readable(mem)
         /\ \A b \in Holding(l) \ {Plain, Done} :
              b \in DOMAIN mem.blocks /\ mem.blocks[b].live
<1>1. MemOK(mem)
  BY DEF PairsInv, Inv
<1>2. ASSUME NEW b \in Holding(l) \ {Plain, Done}
      PROVE  b \in Readable(mem) /\ b \in DOMAIN mem.blocks /\ mem.blocks[b].live
  <2>1. b \in DOMAIN mem.blocks
    BY <1>1, PointedIs DEF Holding, ItemsIn
  <2>2. b = mem.heap[l].block /\ mem.blocks[b].refs \subseteq LentPairs
    BY DEF OwnPairs, BlockOf
  <2>3. mem.blocks[b].live
    BY <1>1, <2>1, <2>2 DEF MemOK, BlocksFit
  <2>4. Closed(mem, LentPairs \union {b}) /\ LentPairs \union {b} \subseteq DOMAIN mem.blocks
    BY <2>1, <2>2, <2>3, LentIsClosed DEF Closed
  <2>5. QED
    BY <2>1, <2>3, <2>4 DEF Readable
<1>3. Pointed(mem, l) = Holding(l) \ {Plain, Done}
  BY <1>1, PointedIs DEF Holding
<1>4. QED
  BY <1>2, <1>3

-----------------------------------------------------------------------------
(***************************************************************************)
(* A step of observable o: what it spares.                                 *)
(***************************************************************************)
BlocksKept ==
  \A b \in DOMAIN mem.blocks :
    b \in DOMAIN mem'.blocks /\ mem'.blocks[b].refs = mem.blocks[b].refs

Spares(o) ==
  /\ o \notin lent /\ lent \subseteq lent'
  /\ BlocksKept
  /\ \A p \in Made : /\ obs'[p].chain = obs[p].chain
                     /\ obs'[p].pairs <=> obs[p].pairs
  /\ \A p \in Made' : p # o =>
       /\ p \in Made /\ obs'[p].data = obs[p].data
       /\ obs'[p].complete <=> obs[p].complete
       /\ p \in Running' <=> p \in Running
       /\ \A l : Current(p, l) => mem'.heap[l] = mem.heap[l]
  /\ \A i \in Draining' : frames'[i].o # o =>
       /\ i \in Draining /\ frames'[i].o = frames[i].o
       /\ frames'[i].list = frames[i].list /\ frames'[i].left = frames[i].left

(* A list that keeps its block and gets no pair keeps its pairs.           *)
LEMMA PairsKept ==
  ASSUME MemOK(mem), NEW l \in ListIds, OwnPairs(l), BlocksKept,
         LentPairs \subseteq LentPairs', BlockOf(l)' = BlockOf(l),
         \A b : b \in Holding(l)' => b \in Holding(l) \union {Plain, Done}
  PROVE  OwnPairs(l)'
<1>1. \A b \in Holding(l) \ {Plain, Done} : b \in DOMAIN mem.blocks
  BY PointedIs DEF Holding, ItemsIn
<1>2. QED
  BY <1>1 DEF OwnPairs, BlocksKept

LEMMA SameList ==
  ASSUME NEW l, mem'.heap[l] = mem.heap[l]
  PROVE  /\ Items(mem', l) = Items(mem, l) /\ Holding(l)' = Holding(l)
         /\ BlockOf(l)' = BlockOf(l) /\ Pointed(mem', l) = Pointed(mem, l)
<1>1. Items(mem', l) = Items(mem, l)
  BY DEF Items
<1>2. Active(mem', l) = Active(mem, l)
  BY <1>1 DEF Active
<1>3. QED
  BY <1>1, <1>2 DEF Holding, BlockOf, Pointed

LEMMA ReadsInTimeKept ==
  ASSUME NEW p, obs'[p].chain = obs[p].chain, obs'[p].pairs <=> obs[p].pairs
  PROVE  ReadsInTime(p)' <=> ReadsInTime(p)
BY DEF ReadsInTime

LEMMA LentPairsGrow ==
  ASSUME PairsInv, Inv', NEW o, Spares(o)
  PROVE  LentPairs \subseteq LentPairs'
<1>1. ASSUME NEW p \in lent PROVE Pointed(mem', obs'[p].data) = Pointed(mem, obs[p].data)
  <2>1. p \in Made' /\ p # o
    BY DEF Spares, Inv, StateType
  <2>2. Current(p, obs[p].data)
    BY LentIsClosed
  <2>3. QED
    BY <2>1, <2>2, SameList DEF Spares
<1>2. QED
  BY <1>1 DEF Spares, LentPairs

LEMMA OthersSpared ==
  ASSUME PairsInv, Inv', NEW o, Spares(o)
  PROVE  /\ \A p \in Made' \ Running' : p # o => Rests(p)'
         /\ \A i \in Draining' : frames'[i].o # o
              => Reads(frames[i].o, frames[i].list, frames[i].left)'
         /\ \A p \in strayed : ~ReadsInTime(p)'
<1>1. /\ MemOK(mem) /\ obs \in [ObsIds -> ObsType] /\ strayed \subseteq Made
      /\ frames \in Seq(FrameType) /\ FramesFit /\ FramesFit'
      /\ frames' \in Seq(FrameType)
  BY DEF PairsInv, Inv, StateType
<1>2. LentPairs \subseteq LentPairs'
  BY LentPairsGrow
<1>3. \A p \in Made : ReadsInTime(p)' <=> ReadsInTime(p)
  BY ReadsInTimeKept DEF Spares
<1>4. ASSUME NEW p \in Made' \ Running', p # o PROVE Rests(p)'
  <2> DEFINE l == obs[p].data
  <2>1. /\ p \in Made \ Running /\ obs'[p].data = l
        /\ obs'[p].complete <=> obs[p].complete
        /\ obs'[p].pairs <=> obs[p].pairs
    BY <1>4 DEF Spares
  <2>2. l \in ListIds /\ Rests(p) /\ Current(p, l)
    BY <1>1, <2>1 DEF Made, ObsType, PairsInv, Idle, Current
  <2>3. mem'.heap[l] = mem.heap[l]
    BY <1>4, <2>1, <2>2 DEF Spares
  <2> PICK k : k = l
    OBVIOUS
  <2>4. /\ Holding(k)' = Holding(k) /\ BlockOf(k)' = BlockOf(k)
    BY <2>3, SameList
  <2>5. OwnPairs(k)'
    BY <1>1, <1>2, <2>2, <2>4, PairsKept DEF Rests, Spares
  <2> HIDE DEF l
  <2>6. QED
    BY <1>3, <2>1, <2>2, <2>4, <2>5 DEF Rests, l
<1>5. ASSUME NEW i \in Draining', frames'[i].o # o
      PROVE  Reads(frames[i].o, frames[i].list, frames[i].left)'
  <2> PICK p, l, left : p = frames[i].o /\ l = frames[i].list /\ left = frames[i].left
    OBVIOUS
  <2>1. /\ i \in Draining /\ frames'[i].o = p /\ frames'[i].list = l
        /\ frames'[i].left = left
    BY <1>5 DEF Spares
  <2>2. p \in Made /\ p \in Made' /\ l \in ListIds /\ p # o
    <3>1. p \in ObsIds
      BY <1>1, <2>1, FramesTyped DEF Draining
    <3>2. QED
      BY <1>1, <1>5, <2>1, <3>1 DEF FramesFit, FrameFits, Draining, Made
  <2>3. Current(p, l)
    BY <2>1 DEF Current, Works
  <2>4. mem'.heap[l] = mem.heap[l]
    BY <2>2, <2>3 DEF Spares
  <2>5. /\ Holding(l)' = Holding(l) /\ BlockOf(l)' = BlockOf(l)
        /\ Items(mem', l) = Items(mem, l)
    BY <2>4, SameList
  <2>6. OwnPairs(l) => OwnPairs(l)'
    BY <1>1, <1>2, <2>2, <2>5, PairsKept DEF Spares
  <2>7. Reads(p, l, left)
    BY <2>1 DEF PairsInv, Busy
  <2>8. /\ obs'[p].chain = obs[p].chain
        /\ obs'[p].pairs <=> obs[p].pairs
    BY <2>2 DEF Spares
  <2>9. InTime(p, l, left) => InTime(p, l, left)'
    BY <2>5, <2>6, <2>8 DEF InTime
  <2>10. Reads(p, l, left)'
    BY <1>3, <2>2, <2>5, <2>7, <2>9 DEF Reads
  <2>11. QED
    BY <2>1, <2>10
<1>6. QED
  BY <1>1, <1>3, <1>4, <1>5 DEF PairsInv, PairsOutliveReads

(* Then what remains to be shown is about o itself.                        *)
LEMMA StepKeepsPairs ==
  ASSUME PairsInv, Inv', NEW o, Spares(o),
         lent' \intersect Running' = {},
         o \in Made' \ Running' => Rests(o)',
         \A i \in Draining' : frames'[i].o = o
           => Reads(frames[i].o, frames[i].list, frames[i].left)',
         \A p \in strayed' : p \in strayed \/ ~ReadsInTime(p)'
  PROVE  PairsInv'
<1>1. Idle'
  BY OthersSpared DEF Idle
<1>2. Busy'
  BY OthersSpared DEF Busy
<1>3. PairsOutliveReads'
  BY OthersSpared DEF PairsOutliveReads
<1>4. QED
  BY <1>1, <1>2, <1>3 DEF PairsInv

-----------------------------------------------------------------------------
(***************************************************************************)
(* Observables are made.                                                   *)
(***************************************************************************)
LEMMA MakeSpares ==
  ASSUME PairsInv, NEW o \in ObsIds, o \notin Made, Callable,
         NEW d, Makes(mem, d.mem, d.list), mem' = d.mem => BlocksKept,
         NEW pairs \in BOOLEAN, NEW arg \in Arguments,
         NEW lend, lend \ {NoList} \subseteq Made \ Running,
         Make(o, d, pairs, arg, lend)
  PROVE  /\ Spares(o)
         /\ lent' \intersect Running' = {}
         /\ \A i \in Draining' : frames'[i].o # o
         /\ obs'[o].data = d.list /\ (obs'[o].pairs <=> pairs)
         /\ ~obs'[o].complete
         /\ mem' = d.mem /\ strayed' = strayed
         /\ lent' = lent \union (lend \ {NoList})
<1> DEFINE rec == [data |-> d.list, links |-> << >>, pairs |-> pairs,
                   chain |-> arg[1], outer |-> arg[2], complete |-> FALSE]
           f == Frame("pipe", o, NoList, arg[1])
<1>1. /\ mem' = d.mem /\ obs' = [obs EXCEPT ![o] = rec]
      /\ lent' = lent \union (lend \ {NoList})
      /\ frames' = IF arg[1] = << >> THEN frames ELSE Append(frames, f)
      /\ strayed' = strayed
  BY DEF Make
<1>2. /\ obs \in [ObsIds -> ObsType] /\ frames \in Seq(FrameType) /\ FramesFit
      /\ lent \subseteq Made /\ Divided(Held, InUse(mem)) /\ lent \intersect Running = {}
  BY DEF PairsInv, Inv, StateType
<1>3. /\ arg[1] \in Chains /\ arg[1] \in Seq(Ops)
  BY ArgumentsFit
<1>4. f \in FrameType /\ f.call = "pipe"
  BY <1>3 DEF FrameType, Frame
<1>5. obs'[o] = rec /\ \A p \in ObsIds : p # o => obs'[p] = obs[p]
  BY <1>1, <1>2
<1> HIDE DEF f, rec
<1>6. Draining' = Draining /\ \A i \in Draining : frames'[i] = frames[i]
  <2>1. CASE arg[1] = << >>
    BY <1>1, <2>1 DEF Draining
  <2>2. CASE arg[1] # << >>
    <3>1. /\ Len(frames) \in Nat
          /\ DOMAIN frames = 1..Len(frames) /\ DOMAIN frames' = 1..(Len(frames) + 1)
          /\ \A i \in DOMAIN frames : frames'[i] = frames[i]
          /\ frames'[Len(frames) + 1] = f
      BY <1>1, <1>2, <1>4, <2>2, FramesPushed
    <3>2. \A i \in 1..(Len(frames) + 1) : i \in 1..Len(frames) \/ i = Len(frames) + 1
      BY <3>1
    <3>3. Len(frames) + 1 \notin DOMAIN frames /\ DOMAIN frames \subseteq DOMAIN frames'
      BY <3>1
    <3>4. QED
      BY <1>4, <3>1, <3>2, <3>3 DEF Draining
  <2>3. QED
    BY <2>1, <2>2
<1>7. Running' = Running
  BY <1>6 DEF Running
<1>8. ASSUME NEW i \in Draining PROVE frames[i].o \in Made
  <2>1. frames[i].o \in ObsIds
    BY <1>2, FramesTyped DEF Draining
  <2>2. QED
    BY <1>2, <2>1 DEF FramesFit, FrameFits, Draining, Made
<1>9. ASSUME NEW p \in Made', p # o
      PROVE  /\ p \in Made /\ obs'[p] = obs[p]
             /\ \A l : Current(p, l) => mem'.heap[l] = mem.heap[l]
  <2>1. p \in Made /\ obs'[p] = obs[p]
    BY <1>5, <1>9 DEF Made
  <2>2. ASSUME NEW l, Current(p, l) PROVE l \in ListIds /\ l # d.list
    BY <1>2, <2>1, <2>2, CurrentInUse DEF Makes, InUse
  <2>3. QED
    BY <1>1, <2>1, <2>2 DEF Makes, OthersKept
<1>10. \A p \in Made : obs'[p] = obs[p]
  BY <1>5 DEF Made
<1>11. Spares(o)
  BY <1>1, <1>2, <1>6, <1>7, <1>8, <1>9, <1>10 DEF Spares
<1>12. lent' \intersect Running' = {}
  BY <1>1, <1>2, <1>7
<1>13. \A i \in Draining' : frames'[i].o # o
  BY <1>6, <1>8
<1>14. obs'[o].data = d.list /\ (obs'[o].pairs <=> pairs) /\ ~obs'[o].complete
  BY <1>5 DEF rec
<1>15. QED
  BY <1>1, <1>11, <1>12, <1>13, <1>14

(* A range holds numbers.                                                  *)
LEMMA MakeRangeKeepsPairs ==
  ASSUME PairsInv, Inv', NEW o \in ObsIds, NEW n \in Lengths,
         NEW arg \in Arguments, MakeRange(o, n, arg)
  PROVE  PairsInv'
<1> DEFINE new == InitList(mem, 2)
           items == [i \in 1..n |-> Plain]
           d == [new EXCEPT !.mem = Fill(new.mem, new.list, items)]
<1>1. /\ Callable /\ Fresh(mem) # {} /\ o \notin Made
      /\ Make(o, d, FALSE, arg, {arg[2]})
  BY DEF MakeRange, Makeable
<1>2. MemOK(mem)
  BY DEF PairsInv, Inv
<1>3. n \in Nat /\ items \in Seq(ItemsIn(mem)) /\ ToSet(items) \subseteq {Plain}
  <2>1. n \in Nat
    OBVIOUS
  <2>2. QED
    BY <2>1 DEF ItemsIn, ToSet
<1>4. d.list = new.list /\ d.mem = Fill(new.mem, new.list, items)
  BY DEF InitList
<1>5. /\ Makes(mem, d.mem, d.list) /\ d.mem.blocks = mem.blocks
      /\ d.mem.heap[d.list].items = items /\ d.mem.heap[d.list].block = NoBlock
  <2> HIDE DEF items, d
  <2> QED BY <1>1, <1>2, <1>3, <1>4, MakesItems
<1>6. {arg[2]} \ {NoList} \subseteq Made \ Running
  BY ArgumentsFit
<1>7. PICK e : e = d
  OBVIOUS
<1> HIDE DEF d, items
<1>8. mem' = e.mem => BlocksKept
  BY <1>5, <1>7 DEF BlocksKept
<1> PICK no \in BOOLEAN : ~no /\ Make(o, e, no, arg, {arg[2]})
  BY <1>1, <1>7
<1>9. /\ Spares(o) /\ lent' \intersect Running' = {}
      /\ \A i \in Draining' : frames'[i].o # o
      /\ obs'[o].data = e.list /\ ~obs'[o].pairs
      /\ mem' = e.mem /\ strayed' = strayed
  BY <1>1, <1>5, <1>6, <1>7, <1>8, MakeSpares
<1>10. Rests(o)'
  <2>1. /\ obs'[o].data = e.list /\ ~obs'[o].pairs
    BY <1>9
  <2> PICK l : l = e.list
    OBVIOUS
  <2>2. Holding(l)' \subseteq {Plain} /\ BlockOf(l)' = NoBlock
    BY <1>3, <1>5, <1>7, <1>9 DEF Holding, BlockOf, Items
  <2>3. OwnPairs(l)'
    BY <2>2 DEF OwnPairs
  <2>4. QED
    BY <2>1, <2>2, <2>3 DEF Rests
<1>11. QED
  BY <1>9, <1>10, StepKeepsPairs

(* The items of l are pairs in its own block, and hold refs.               *)
PairsHold(m, l, refs) ==
  \A b \in ToSet(m.heap[l].items) : /\ b = m.heap[l].block /\ b \notin {Plain, Done}
                                    /\ m.blocks[b].refs = refs

(* mergeMap and zip make such a list.                                      *)
LEMMA MadePairs ==
  ASSUME MemOK(mem), NEW m, NEW l, NEW count \in Nat, NEW refs,
         MakesWithPairs(mem, m, l, count, refs)
  PROVE  /\ Makes(mem, m, l)
         /\ \A b \in DOMAIN mem.blocks :
              b \in DOMAIN m.blocks /\ m.blocks[b].refs = mem.blocks[b].refs
         /\ PairsHold(m, l, refs) /\ DoneLast(m.heap[l].items)
<1> DEFINE b == Len(mem.blocks) + 1
           new == [live |-> TRUE, refs |-> refs]
           items == m.heap[l].items
<1>1. mem.blocks \in Seq(BlockType) /\ b \in Nat \ {0} /\ Makes(mem, m, l)
  BY DEF MemOK, MemType, MakesWithPairs
<1>2. CASE count = 0
  <2>1. items = << >> /\ m.blocks = mem.blocks
    BY <1>2 DEF MakesWithPairs
  <2>2. QED
    BY <1>1, <2>1 DEF ToSet, DoneLast, PairsHold
<1>3. CASE count # 0
  <2>1. /\ items = [i \in 1..count |-> b] /\ m.heap[l].block = b
        /\ m.blocks = Append(mem.blocks, new)
    BY <1>3 DEF MakesWithPairs
  <2>2. /\ \A x \in DOMAIN mem.blocks : x \in DOMAIN m.blocks /\ m.blocks[x] = mem.blocks[x]
        /\ m.blocks[b] = new
    <3>1. /\ DOMAIN mem.blocks = 1..Len(mem.blocks) /\ Len(mem.blocks) \in Nat
          /\ DOMAIN m.blocks = 1..b /\ m.blocks[b] = new
          /\ \A x \in 1..Len(mem.blocks) : m.blocks[x] = mem.blocks[x]
      BY <1>1, <2>1
    <3>2. QED
      BY <3>1
  <2>3. \A x \in ToSet(items) : x = b
    BY <2>1 DEF ToSet
  <2>4. DoneLast(items)
    BY <2>1 DEF DoneLast
  <2>5. m.blocks[b].refs = refs /\ b \notin {Plain, Done}
    BY <1>1, <2>2
  <2> HIDE DEF b, new
  <2>6. QED
    BY <1>1, <2>1, <2>2, <2>3, <2>4, <2>5 DEF PairsHold
<1>4. QED
  BY <1>2, <1>3

LEMMA FirstsPointed ==
  ASSUME MemOK(mem), NEW l \in ListIds, NEW n \in Nat, n <= Len(Active(mem, l))
  PROVE  {Active(mem, l)[i] : i \in 1..n} \ {Plain, Done} \subseteq Pointed(mem, l)
<1>1. Active(mem, l) \in Seq(ItemsIn(mem))
  BY ActiveItems
<1>2. 1..n \subseteq DOMAIN Active(mem, l)
  BY <1>1
<1>3. QED
  BY <1>2 DEF Pointed, ToSet

(* The pairs of zip point to what its arguments hold, which are lent.      *)
LEMMA MakeZipKeepsPairs ==
  ASSUME PairsInv, Inv', NEW o \in ObsIds, NEW a \in Made, NEW b \in Made,
         NEW arg \in Arguments, MakeZip(o, a, b, arg)
  PROVE  PairsInv'
<1> DEFINE left == obs[a].data
           right == obs[b].data
           n == IF Len(Active(mem, left)) <= Len(Active(mem, right))
                THEN Len(Active(mem, left)) ELSE Len(Active(mem, right))
           new == InitList(mem, 2)
           firsts(l) == {Active(mem, l)[i] : i \in 1..n} \ {Plain, Done}
           refs == firsts(left) \union firsts(right)
           d == [new EXCEPT !.mem = FillPairs(new.mem, new.list, n, refs)]
<1>1. /\ Callable /\ Fresh(mem) # {} /\ o \notin Made
      /\ {a, b} \subseteq Made \ Running
      /\ Make(o, d, TRUE, arg, {a, b, arg[2]})
  BY DEF MakeZip, Makeable
<1>2. MemOK(mem) /\ obs \in [ObsIds -> ObsType]
  BY DEF PairsInv, Inv, StateType
<1>3. left \in ListIds /\ right \in ListIds
  BY <1>2 DEF Made, ObsType
<1>4. /\ n \in Nat /\ n <= Len(Active(mem, left)) /\ n <= Len(Active(mem, right))
  BY <1>2, <1>3, ActiveItems
<1> HIDE DEF n
<1>5. /\ refs \subseteq Pointed(mem, left) \union Pointed(mem, right)
      /\ refs \subseteq DOMAIN mem.blocks
  BY <1>2, <1>3, <1>4, FirstsPointed, PointedIs
<1> HIDE DEF refs
<1>6. d.list = new.list /\ d.mem = FillPairs(new.mem, new.list, n, refs)
  BY DEF InitList
<1>7. MakesWithPairs(mem, d.mem, d.list, n, refs)
  <2>1. MakesWithPairs(mem, FillPairs(new.mem, new.list, n, refs), new.list, n, refs)
    BY <1>1, <1>2, <1>4, <1>5, MakesPairs
  <2> HIDE DEF d, new
  <2>2. QED
    BY <1>6, <2>1
<1> HIDE DEF d
<1>8. PICK e, count, r : e = d /\ count = n /\ r = refs
  OBVIOUS
<1> PICK l, lend : l = e.list /\ lend = {a, b, arg[2]}
  OBVIOUS
<1> PICK yes \in BOOLEAN : yes /\ Make(o, e, yes, arg, lend)
  BY <1>1, <1>8
<1>9. /\ Makes(mem, e.mem, l) /\ (mem' = e.mem => BlocksKept)
      /\ PairsHold(e.mem, l, r)
  <2>1. MakesWithPairs(mem, e.mem, l, count, r) /\ count \in Nat
    BY <1>4, <1>7, <1>8
  <2>2. /\ Makes(mem, e.mem, l) /\ PairsHold(e.mem, l, r)
        /\ \A x \in DOMAIN mem.blocks :
             x \in DOMAIN e.mem.blocks /\ e.mem.blocks[x].refs = mem.blocks[x].refs
    <3>1. PICK m : m = e.mem /\ MakesWithPairs(mem, m, l, count, r)
      BY <2>1
    <3>2. /\ Makes(mem, m, l) /\ PairsHold(m, l, r)
          /\ \A x \in DOMAIN mem.blocks :
               x \in DOMAIN m.blocks /\ m.blocks[x].refs = mem.blocks[x].refs
      BY <1>2, <2>1, <3>1, MadePairs
    <3>3. QED
      BY <3>1, <3>2
  <2>3. QED
    BY <2>2 DEF BlocksKept
<1>10. lend \ {NoList} \subseteq Made \ Running
  BY <1>1, ArgumentsFit
<1>11. /\ Spares(o) /\ lent' \intersect Running' = {}
       /\ \A i \in Draining' : frames'[i].o # o
       /\ obs'[o].data = l /\ obs'[o].pairs
       /\ mem' = e.mem /\ strayed' = strayed
       /\ lent' = lent \union (lend \ {NoList})
  BY <1>1, <1>9, <1>10, MakeSpares
<1>12. r \subseteq LentPairs'
  <2>1. ASSUME NEW p \in {a, b}
        PROVE  p \in lent' /\ Pointed(mem', obs'[p].data) = Pointed(mem, obs[p].data)
    <3>1. p \in Made' /\ p # o /\ p \in lent'
      <4>1. p \in lent'
        BY <1>11 DEF Made
      <4>2. QED
        BY <1>1, <4>1 DEF Inv, StateType
    <3>2. Current(p, obs[p].data)
      BY <1>1 DEF Current
    <3>3. obs'[p].data = obs[p].data /\ mem'.heap[obs[p].data] = mem.heap[obs[p].data]
      BY <1>11, <3>1, <3>2 DEF Spares
    <3>4. QED
      BY <3>1, <3>3, SameList
  <2>2. QED
    BY <1>5, <1>8, <2>1 DEF LentPairs
<1>13. Rests(o)'
  <2>1. \A x \in Holding(l)' : x = BlockOf(l)' /\ x \notin {Plain, Done}
                                 /\ mem'.blocks[x].refs = r
    BY <1>9, <1>11 DEF PairsHold, Holding, BlockOf, Items
  <2>2. OwnPairs(l)'
    BY <1>12, <2>1 DEF OwnPairs
  <2>3. QED
    BY <1>11, <2>1, <2>2 DEF Rests
<1>14. QED
  BY <1>11, <1>13, StepKeepsPairs

LEMMA PipeStageKeepsPairs ==
  ASSUME PairsInv, Inv', PipeStage
  PROVE  PairsInv'
<1> DEFINE new == InitList(mem, 2)
<1>1. /\ frames # << >> /\ Fresh(mem) # {} /\ mem' = new.mem
      /\ obs' = [obs EXCEPT ![Top.o].links = Append(@, new.list)]
      /\ lent' = lent /\ strayed' = strayed
  BY DEF PipeStage
<1>2. /\ obs \in [ObsIds -> ObsType] /\ lent \subseteq Made /\ MemOK(mem)
      /\ Divided(Held, InUse(mem)) /\ lent \intersect Running = {}
  BY DEF PairsInv, Inv, StateType
<1>3. CallsKept /\ Running' = Running
  BY PipeStageKeepsInv, CallsKeptAre DEF PairsInv
<1>4. Given(mem, new)
  BY <1>1, <1>2, InitListGives
<1> HIDE DEF new
<1>5. \A p \in ObsIds : /\ obs'[p].data = obs[p].data /\ obs'[p].chain = obs[p].chain
                        /\ obs'[p].pairs = obs[p].pairs
                        /\ obs'[p].complete = obs[p].complete
  <2> PICK o, x : o = Top.o /\ x = new.list
    OBVIOUS
  <2> PICK r : r = [obs[o] EXCEPT !.links = Append(@, x)]
    OBVIOUS
  <2>1. obs' = [obs EXCEPT ![o] = r]
    BY <1>1
  <2>2. o \in ObsIds => /\ r.data = obs[o].data /\ r.chain = obs[o].chain
                        /\ r.pairs = obs[o].pairs /\ r.complete = obs[o].complete
    BY <1>2 DEF ObsType
  <2>3. QED
    BY <1>2, <2>1, <2>2
<1>6. Made' = Made /\ NoList \notin Made /\ Made \subseteq ObsIds
  BY <1>5 DEF Made
<1>7. \A p \in Made : \A l : Current(p, l) => mem'.heap[l] = mem.heap[l]
  BY <1>1, <1>2, <1>4, CurrentInUse DEF Given, OthersKept, InUse
<1>8. BlocksKept
  BY <1>1, <1>4 DEF Given, BlocksKept
<1>9. Spares(NoList)
  BY <1>1, <1>2, <1>3, <1>5, <1>6, <1>7, <1>8 DEF Spares, CallsKept
<1>10. \A i \in Draining' : frames'[i].o # NoList
  <2>1. frames' \in Seq(FrameType)
    BY DEF Inv, StateType
  <2>2. \A i \in DOMAIN frames' : frames'[i] \in FrameType
    BY <2>1
  <2>3. QED
    BY <2>2 DEF FrameType, Draining
<1>11. QED
  BY <1>1, <1>2, <1>3, <1>6, <1>9, <1>10, StepKeepsPairs

-----------------------------------------------------------------------------
(***************************************************************************)
(* pop_all starts.                                                         *)
(***************************************************************************)
(* At its start it has not read anything: the data is as it was at rest,   *)
(* but for a number that was pushed if there are no pairs in it.           *)
LEMMA StartInTime ==
  ASSUME NEW o \in Made, NEW l, l = obs[o].data,
         BlockOf(l)' = BlockOf(l), obs' = obs, OwnPairs(l)', Rests(o), ~obs[o].complete,
         \/ Holding(l)' = Holding(l)
         \/ ~obs[o].pairs /\ Holding(l)' = Holding(l) \union {Plain}
  PROVE  /\ ReadsInTime(o)' => InTime(o, l, StagesAhead(obs[o].chain))'
         /\ Done \notin Holding(l)'
<1> PICK chain, left : chain = obs[o].chain /\ left = StagesAhead(chain)
  OBVIOUS
<1>1. Done \notin Holding(l) /\ Done \notin Holding(l)'
  BY DEF Rests
<1>2. ~obs[o].pairs => Holding(l)' \subseteq {Plain, Done}
  BY DEF Rests
<1>3. ReadsInTime(o) /\ BlockOf(l) # NoBlock => obs[o].pairs /\ Plain \notin Holding(l)'
  BY DEF Rests
<1>4. ReadsInTime(o)' <=> ReadsInTime(o)
  BY ReadsInTimeKept
<1>5. SUFFICES ASSUME ReadsInTime(o) PROVE InTime(o, l, left)'
  <2>1. StagesAhead(obs[o].chain)' = left
    OBVIOUS
  <2>2. QED
    BY <1>1, <1>4, <2>1
<1>6. CASE left = << >>
  <2>1. ToSet(left) = {}
    BY <1>6 DEF ToSet
  <2>2. QED
    BY <1>3, <1>5, <1>6, <2>1 DEF InTime
<1>7. CASE left = << "mergeMap" >> /\ MergeStreams(chain)
  <2>1. Head(left) = "mergeMap"
    BY <1>7
  <2>2. QED
    BY <1>1, <1>3, <1>5, <1>7, <2>1 DEF InTime
<1>8. CASE left = chain /\ chain # << >> /\ ~Streams(chain) /\ ~MergeStreams(chain)
  <2>1. \/ chain[1] = "map" /\ "mergeMap" \notin ToSet(chain)
        \/ ~obs[o].pairs /\ "mergeMap" \notin ToSet(chain)
    BY <1>5, <1>8 DEF ReadsInTime
  <2>2. Head(chain) = chain[1]
    OBVIOUS
  <2>3. QED
    BY <1>2, <1>3, <1>5, <1>8, <2>1, <2>2 DEF InTime
<1>9. QED
  BY <1>6, <1>7, <1>8 DEF StagesAhead

(* What Subscribe and Push give pop_all.                                   *)
Handed(o, m) ==
  LET l == obs[o].data
  IN  /\ m.blocks = mem.blocks /\ OthersKept(mem, m, l)
      /\ m.heap[l].block = mem.heap[l].block
      /\ \/ ToSet(m.heap[l].items) = ToSet(mem.heap[l].items)
         \/ ~obs[o].pairs
              /\ ToSet(m.heap[l].items) = ToSet(mem.heap[l].items) \union {Plain}

LEMMA PopAllKeepsPairs ==
  ASSUME PairsInv, Inv', NEW o, NEW m, PopAll(o, m), Starts(o), Handed(o, m)
  PROVE  PairsInv'
<1>1. /\ o \in Made /\ o \notin Running /\ o \notin lent /\ ~obs[o].complete
      /\ mem' = m /\ obs' = obs /\ lent' = lent /\ strayed' = strayed
  BY DEF PopAll
<1>2. /\ obs \in [ObsIds -> ObsType] /\ lent \subseteq Made /\ MemOK(mem)
      /\ Divided(Held, InUse(mem)) /\ lent \intersect Running = {}
  BY DEF PairsInv, Inv, StateType
<1> PICK l : l = obs[o].data
  OBVIOUS
<1>3. l \in ListIds /\ o \in ObsIds /\ Current(o, l) /\ l \in Held[o] /\ Rests(o)
  BY <1>1, <1>2, CurrentInUse DEF Made, ObsType, Current, PairsInv, Idle
<1>4. Made' = Made
  BY <1>1 DEF Made
<1>5. ASSUME NEW p \in Made, p # o, NEW x, Current(p, x)
      PROVE  mem'.heap[x] = mem.heap[x]
  <2>1. x \in ListIds /\ x # l
    <3>1. x \in InUse(mem) /\ x \in Held[p] /\ p \in ObsIds
      BY <1>2, <1>5, CurrentInUse
    <3>2. x # l
      BY <1>2, <1>3, <1>5, <3>1 DEF Divided
    <3>3. QED
      BY <3>1, <3>2 DEF InUse
  <2>2. QED
    BY <1>1, <2>1 DEF Handed, OthersKept
<1>6. BlocksKept
  BY <1>1 DEF Handed, BlocksKept
<1>7. \A i \in Draining' :
        \/ i \in Draining /\ frames'[i] = frames[i] /\ frames[i].o # o
        \/ /\ frames'[i].o = o /\ frames'[i].list = l
           /\ frames'[i].left = StagesAhead(obs[o].chain)
  BY DEF Starts, Frame
<1>8. \A p : p \in Running' <=> p \in Running \/ p = o
  BY DEF Starts
<1>9. Spares(o)
  BY <1>1, <1>4, <1>5, <1>6, <1>7, <1>8 DEF Spares
<1>10. LentPairs \subseteq LentPairs'
  BY <1>9, LentPairsGrow
<1>11. /\ BlockOf(l)' = BlockOf(l)
       /\ \/ Holding(l)' = Holding(l)
          \/ ~obs[o].pairs /\ Holding(l)' = Holding(l) \union {Plain}
  BY <1>1 DEF Handed, BlockOf, Holding, Items
<1>12. OwnPairs(l)'
  BY <1>2, <1>3, <1>6, <1>10, <1>11, PairsKept DEF Rests
<1> PICK left : left = StagesAhead(obs[o].chain)
  OBVIOUS
<1>13. /\ ReadsInTime(o)' => InTime(o, l, left)'
       /\ Done \notin Holding(l)'
  <2>1. /\ ReadsInTime(o)' => InTime(o, l, StagesAhead(obs[o].chain))'
        /\ Done \notin Holding(l)'
    BY <1>1, <1>3, <1>11, <1>12, StartInTime
  <2>2. StagesAhead(obs[o].chain)' = left
    BY <1>1
  <2>3. QED
    BY <2>1, <2>2
<1>14. DoneLast(Items(mem', l))
  BY <1>13 DEF Holding, ToSet, DoneLast
<1>15. Reads(o, l, left)'
  BY <1>13, <1>14 DEF Reads
<1>16. \A i \in Draining' : frames'[i].o = o
         => Reads(frames[i].o, frames[i].list, frames[i].left)'
  BY <1>7, <1>15
<1>17. lent' \intersect Running' = {} /\ o \in Running'
  BY <1>1, <1>2, <1>8
<1>18. QED
  BY <1>1, <1>9, <1>16, <1>17, StepKeepsPairs

LEMMA SubscribeKeepsPairs ==
  ASSUME PairsInv, NEW o, Subscribe(o)
  PROVE  PairsInv'
<1>1. PICK m : m = mem
  OBVIOUS
<1>2. PopAll(o, m)
  BY <1>1 DEF Subscribe
<1>3. Handed(o, m)
  BY <1>1 DEF Handed, OthersKept
<1>4. Inv' /\ Starts(o)
  BY SubscribeKeepsInv DEF PairsInv
<1>5. QED
  BY <1>2, <1>3, <1>4, PopAllKeepsPairs

LEMMA PushKeepsPairs ==
  ASSUME PairsInv, NEW o, Push(o)
  PROVE  PairsInv'
<1> DEFINE l == obs[o].data
           items == Append(Items(mem, l), Plain)
<1>1. PICK m : m = Fill(mem, l, items)
  OBVIOUS
<1>2. PopAll(o, m) /\ ~obs[o].pairs
  BY <1>1 DEF Push
<1>3. o \in Made /\ o \notin Running /\ Inv
  BY <1>2 DEF PopAll, PairsInv
<1>4. Written(mem, m, l, items)
  BY <1>1, <1>3, PushWrites
<1>5. ToSet(items) = ToSet(Items(mem, l)) \union {Plain}
  <2>1. l \in ListIds /\ MemOK(mem)
    BY <1>3 DEF Inv, StateType, Made, ObsType
  <2>2. Items(mem, l) \in Seq(ItemsIn(mem)) /\ Plain \in ItemsIn(mem)
    BY <2>1, ItemsTyped DEF ItemsIn
  <2>3. QED
    BY <2>2, AppendAdds
<1>6. Handed(o, m)
  BY <1>2, <1>4, <1>5 DEF Handed, Written, Items
<1>7. Inv' /\ Starts(o)
  BY <1>3, PushKeepsInv
<1>8. QED
  BY <1>2, <1>6, <1>7, PopAllKeepsPairs

-----------------------------------------------------------------------------
(***************************************************************************)
(* The pop_all at work, of o.                                              *)
(***************************************************************************)
OtherCalls(o) ==
  /\ \A i \in Draining' : frames'[i].o # o => i \in Draining /\ frames'[i] = frames[i]
  /\ \A p : p # o => (p \in Running' <=> p \in Running)

(* It goes on, in frame f.                                                 *)
GoesOn(o, f) ==
  /\ f \in FrameType /\ f.o = o /\ f.call = "pop_all"
  /\ frames' = [frames EXCEPT ![Len(frames)] = f]

LEMMA TopStays ==
  ASSUME Inv, frames # << >>, Top.call = "pop_all", NEW o, o = Top.o,
         NEW f, GoesOn(o, f)
  PROVE  /\ OtherCalls(o) /\ o \in Running'
         /\ \A i \in Draining' : frames'[i].o = o => frames'[i] = f
<1> DEFINE n == Len(frames)
<1>1. frames \in Seq(FrameType)
  BY DEF Inv, StateType
<1>2. /\ n \in DOMAIN frames /\ DOMAIN frames' = DOMAIN frames
      /\ \A i \in DOMAIN frames : frames'[i] = IF i = n THEN f ELSE frames[i]
  BY <1>1, FramesTop DEF GoesOn
<1>3. /\ n \in Draining /\ o \in Running /\ frames[n].o = o
      /\ \A i \in Draining : i # n => frames[i].o # o
  BY TopWorks
<1>4. Draining' = Draining /\ \A i \in Draining : i # n => frames'[i] = frames[i]
  BY <1>2, <1>3 DEF Draining, GoesOn
<1>5. frames'[n] = f
  BY <1>2
<1>6. \A p : p \in Running' <=> p \in Running
  BY <1>3, <1>4, <1>5 DEF Running, GoesOn
<1>7. QED
  BY <1>3, <1>4, <1>5, <1>6 DEF OtherCalls, GoesOn

LEMMA TopLeaves ==
  ASSUME Inv, frames # << >>, Top.call = "pop_all", NEW o, o = Top.o,
         frames' = Front(frames)
  PROVE  /\ OtherCalls(o) /\ o \notin Running'
         /\ \A i \in Draining' : frames'[i].o # o
<1> DEFINE n == Len(frames)
<1>1. frames \in Seq(FrameType)
  BY DEF Inv, StateType
<1>2. /\ DOMAIN frames' = DOMAIN frames \ {n}
      /\ \A i \in DOMAIN frames' : frames'[i] = frames[i]
  BY <1>1, FramesPopped
<1>3. /\ n \in Draining /\ o \in Running /\ frames[n].o = o
      /\ \A i \in Draining : i # n => frames[i].o # o
  BY TopWorks
<1>4. /\ \A i : i \in Draining' <=> i \in Draining /\ i # n
      /\ \A i \in Draining' : frames'[i] = frames[i]
  BY <1>2 DEF Draining
<1>5. \A p : p \in Running' <=> p \in Running /\ p # o
  BY <1>3, <1>4 DEF Running
<1>6. QED
  BY <1>3, <1>4, <1>5 DEF OtherCalls

LEMMA TopSpares ==
  ASSUME PairsInv, Inv', frames # << >>, Top.call = "pop_all", NEW o, o = Top.o,
         OtherCalls(o), BlocksKept, lent' = lent, Made' = Made,
         \A p \in Made : /\ obs'[p].chain = obs[p].chain
                         /\ obs'[p].pairs <=> obs[p].pairs
                         /\ p # o => obs'[p] = obs[p],
         \A l \in InUse(mem) : l # Top.list => mem'.heap[l] = mem.heap[l]
  PROVE  Spares(o) /\ lent' \intersect Running' = {}
<1>1. /\ Inv /\ Divided(Held, InUse(mem)) /\ lent \subseteq Made
      /\ lent \intersect Running = {}
  BY DEF PairsInv, Inv, StateType
<1>2. /\ o \in Running /\ o \in ObsIds /\ o \in Made
      /\ Current(o, Top.list)
  BY <1>1, TopWorks
<1>3. Top.list \in Held[o]
  BY <1>1, <1>2, CurrentInUse
<1>4. ASSUME NEW p \in Made, p # o, NEW l, Current(p, l)
      PROVE  mem'.heap[l] = mem.heap[l]
  <2>1. l \in InUse(mem) /\ l \in Held[p] /\ p \in ObsIds
    BY <1>1, <1>4, CurrentInUse
  <2>2. l # Top.list
    <3>1. \A o1, o2 \in ObsIds : \A x \in Held[o1] : x \in Held[o2] => o1 = o2
      BY <1>1 DEF Divided
    <3>2. l \notin Held[o]
      BY <1>2, <1>4, <2>1, <3>1
    <3>3. QED
      BY <1>3, <3>2
  <2>3. QED
    BY <2>1, <2>2
<1>5. o \notin lent
  BY <1>1, <1>2
<1>6. Spares(o)
  BY <1>4, <1>5 DEF Spares, OtherCalls
<1>7. lent' \intersect Running' = {}
  BY <1>1, <1>5 DEF OtherCalls
<1>8. QED
  BY <1>6, <1>7

(* What is known of the list it works on.                                  *)
LEMMA TopReads ==
  ASSUME PairsInv, frames # << >>, Top.call = "pop_all"
  PROVE  Reads(Top.o, Top.list, Top.left)
<1>1. Len(frames) \in Draining /\ Top = frames[Len(frames)]
  BY TopWorks DEF PairsInv
<1>2. QED
  BY <1>1 DEF PairsInv, Busy

-----------------------------------------------------------------------------
(***************************************************************************)
(* Stages.                                                                 *)
(***************************************************************************)
LEMMA ReplaceSpares ==
  ASSUME PairsInv, Inv', AtStage, NEW o, o = Top.o, NEW old, old = Top.list,
         NEW new, Makes(mem, new.mem, new.list), Replace(new),
         \A b \in DOMAIN mem.blocks :
           b \in DOMAIN new.mem.blocks /\ new.mem.blocks[b].refs = mem.blocks[b].refs
  PROVE  /\ Spares(o) /\ lent' \intersect Running' = {} /\ o \in Running'
         /\ \A i \in Draining' : frames'[i].o = o
              => frames'[i].list = new.list /\ frames'[i].left = Tail(Top.left)
         /\ mem'.heap[new.list] = new.mem.heap[new.list]
         /\ \A b \in DOMAIN new.mem.blocks :
              b \in DOMAIN mem'.blocks /\ mem'.blocks[b].refs = new.mem.blocks[b].refs
         /\ \A p \in strayed' :
              p \in strayed \/ (p = o /\ ReadsBadly(mem, Head(Top.left), old))
         /\ obs'[o].chain = obs[o].chain /\ (obs'[o].pairs <=> obs[o].pairs)
<1> DEFINE n == Len(frames)
           rest == Tail(Top.left)
           f == [Top EXCEPT !.list = new.list, !.left = rest]
<1>1. /\ frames # << >> /\ Top.call = "pop_all" /\ Top.left # << >>
      /\ mem' = FreeList(new.mem, old) /\ lent' = lent
      /\ frames' = [frames EXCEPT ![n].list = new.list, ![n].left = rest]
      /\ obs' = obs \/ obs' = [obs EXCEPT ![o].data = new.list]
      /\ strayed' = IF ReadsBadly(mem, Head(Top.left), old)
                    THEN strayed \union {o} ELSE strayed
  BY DEF AtStage, Replace, Stray
<1>2. /\ Inv /\ obs \in [ObsIds -> ObsType] /\ frames \in Seq(FrameType)
      /\ MemOK(mem)
  BY DEF PairsInv, Inv, StateType
<1>3. /\ n \in DOMAIN frames /\ Top = frames[n] /\ Top \in FrameType
      /\ Top.left \in Seq(Ops) /\ o \in Made /\ o \in ObsIds /\ old \in InUse(mem)
  BY <1>1, <1>2, TopWorks
<1>4. /\ new.list \in ListIds /\ new.list \notin InUse(mem) /\ MemOK(new.mem)
      /\ InUse(new.mem) = InUse(mem) \union {new.list} /\ new.list # old
      /\ OthersKept(mem, new.mem, new.list)
  BY <1>3 DEF Makes
<1>5. Freed(new.mem, mem', old)
  BY <1>1, <1>3, <1>4, FreeListFrees
<1>6. /\ mem'.heap[new.list] = new.mem.heap[new.list]
      /\ \A b \in DOMAIN new.mem.blocks :
           b \in DOMAIN mem'.blocks /\ mem'.blocks[b].refs = new.mem.blocks[b].refs
  BY <1>4, <1>5 DEF Freed, OthersKept
<1>7. BlocksKept
  BY <1>6 DEF BlocksKept
<1>8. \A l \in InUse(mem) : l # old => mem'.heap[l] = mem.heap[l]
  BY <1>4, <1>5 DEF Freed, OthersKept, InUse
<1>9. /\ f \in FrameType /\ f.o = o /\ f.call = "pop_all" /\ f.list = new.list
      /\ f.left = rest /\ frames' = [frames EXCEPT ![n] = f]
  <2>1. rest \in Seq(Ops)
    BY <1>1, <1>3
  <2> HIDE DEF rest
  <2>2. f \in FrameType /\ f.o = o /\ f.call = "pop_all" /\ f.list = new.list /\ f.left = rest
    BY <1>1, <1>3, <1>4, <2>1 DEF FrameType
  <2>3. frames' = [frames EXCEPT ![n] = f]
    BY <1>1, <1>2, <1>3
  <2>4. QED
    BY <2>2, <2>3
<1> HIDE DEF f
<1>10. /\ OtherCalls(o) /\ o \in Running'
       /\ \A i \in Draining' : frames'[i].o = o
            => frames'[i].list = new.list /\ frames'[i].left = rest
  <2>1. PICK g : GoesOn(o, g) /\ g.list = new.list /\ g.left = rest
    BY <1>9 DEF GoesOn
  <2>2. /\ OtherCalls(o) /\ o \in Running'
        /\ \A i \in Draining' : frames'[i].o = o => frames'[i] = g
    <3>1. /\ Inv /\ frames # << >> /\ Top.call = "pop_all"
      BY <1>1, <1>2
    <3> HIDE DEF rest
    <3>2. QED
      BY <2>1, <3>1, TopStays
  <2>3. QED
    BY <2>1, <2>2
<1>11. \A p \in ObsIds :
         /\ obs'[p].chain = obs[p].chain
         /\ obs'[p].pairs <=> obs[p].pairs
         /\ p # o => obs'[p] = obs[p]
         /\ obs'[p].data = obs[p].data \/ (p = o /\ obs'[p].data = new.list)
  <2>1. CASE obs' = obs
    BY <2>1
  <2>2. CASE obs' = [obs EXCEPT ![o].data = new.list]
    <3> PICK r : r = [obs[o] EXCEPT !.data = new.list]
      OBVIOUS
    <3>1. obs' = [obs EXCEPT ![o] = r]
      BY <2>2
    <3>2. /\ r.data = new.list /\ r.chain = obs[o].chain /\ r.pairs = obs[o].pairs
      BY <1>2, <1>3 DEF ObsType
    <3>3. QED
      BY <1>2, <1>3, <3>1, <3>2
  <2>3. QED
    BY <1>1, <2>1, <2>2
<1>12. Made' = Made
  <2>1. \A p \in ObsIds : obs'[p].data # NoList <=> obs[p].data # NoList
    <3>1. ASSUME NEW p \in ObsIds, p # o PROVE obs'[p].data = obs[p].data
      BY <1>11, <3>1
    <3>2. obs[o].data # NoList /\ new.list # NoList
      BY <1>3, <1>4 DEF Made
    <3>3. obs'[o].data = obs[o].data \/ obs'[o].data = new.list
      BY <1>3, <1>11
    <3>4. QED
      BY <3>1, <3>2, <3>3
  <2>2. QED
    BY <2>1 DEF Made
<1>13. Spares(o) /\ lent' \intersect Running' = {}
  BY <1>1, <1>7, <1>8, <1>10, <1>11, <1>12, TopSpares DEF Made
<1>14. QED
  BY <1>1, <1>3, <1>6, <1>10, <1>11, <1>13

LEMMA TailItems ==
  ASSUME NEW S, NEW s \in Seq(S), s # << >>
  PROVE  /\ \A x \in ToSet(Tail(s)) : x \in ToSet(s)
         /\ Head(s) \in ToSet(s) /\ Head(s) = s[1]
         /\ DoneLast(s) => DoneLast(Tail(s))
         /\ DoneLast(s) /\ Head(s) = Done => ToSet(Tail(s)) \subseteq {Done}
<1>1. /\ Len(s) \in Nat \ {0} /\ DOMAIN s = 1..Len(s) /\ Head(s) = s[1]
      /\ DOMAIN Tail(s) = 1..(Len(s) - 1)
      /\ \A i \in 1..(Len(s) - 1) : Tail(s)[i] = s[i + 1]
  OBVIOUS
<1>2. \A i \in 1..(Len(s) - 1) : i + 1 \in DOMAIN s /\ 1 < i + 1
  BY <1>1
<1>3. 1 \in DOMAIN s
  BY <1>1
<1>4. \A x \in ToSet(Tail(s)) : x \in ToSet(s)
  BY <1>1, <1>2 DEF ToSet
<1>5. DoneLast(s) => DoneLast(Tail(s))
  <2>1. \A i, j \in 1..(Len(s) - 1) : i < j => i + 1 < j + 1
    BY <1>1
  <2>2. QED
    BY <1>1, <1>2, <2>1 DEF DoneLast
<1>6. DoneLast(s) /\ Head(s) = Done => ToSet(Tail(s)) \subseteq {Done}
  BY <1>1, <1>2, <1>3 DEF DoneLast, ToSet
<1>7. QED
  BY <1>1, <1>3, <1>4, <1>5, <1>6 DEF ToSet

(* A stage whose observable reads in time reads what is there.             *)
LEMMA StageReadsWell ==
  ASSUME PairsInv, NEW o, NEW l \in ListIds, NEW left, left # << >>,
         ReadsInTime(o) => InTime(o, l, left),
         NEW op, op = Head(left), left \in Seq(Ops),
         ReadsBadly(mem, op, l)
  PROVE  ~ReadsInTime(o)
<1>1. SUFFICES ASSUME InTime(o, l, left) PROVE FALSE
  OBVIOUS
<1>2. MemOK(mem)
  BY DEF PairsInv, Inv
<1>3. op \in ToSet(left)
  BY TailItems
<1>4. CASE op = "mergeMap"
  <2>1. /\ OwnPairs(l) /\ Done \notin Holding(l)
        /\ BlockOf(l) # NoBlock => Plain \notin Holding(l)
    BY <1>1, <1>3, <1>4 DEF InTime
  <2>2. PICK b \in ToSet(Active(mem, l)) : b = Plain \/ ~mem.blocks[b].live
    BY <1>4 DEF ReadsBadly
  <2>3. BlockOf(l) # NoBlock
    BY <1>4 DEF ReadsBadly, BlockOf
  <2>4. b \in Holding(l)
    BY <1>2, ActiveItems DEF ToSet, Holding
  <2>5. QED
    BY <2>1, <2>2, <2>3, <2>4, OwnIsReadable
<1>5. CASE op # "mergeMap"
  <2>1. ~Pointed(mem, l) \subseteq Readable(mem)
    BY <1>5 DEF ReadsBadly
  <2>2. ~OwnPairs(l)
    BY <2>1, OwnIsReadable
  <2>3. Holding(l) \subseteq {Plain, Done}
    BY <1>1, <2>2 DEF InTime
  <2>4. Pointed(mem, l) = {}
    BY <1>2, <2>3, PointedIs DEF Holding
  <2>5. QED
    BY <2>1, <2>4
<1>6. QED
  BY <1>4, <1>5

LEMMA ApplyStageKeepsPairs ==
  ASSUME PairsInv, ApplyStage
  PROVE  PairsInv'
<1>0. Inv /\ Inv' /\ AtStage
  BY ApplyStageKeepsInv DEF PairsInv, ApplyStage
<1>1. frames # << >> /\ Top.call = "pop_all" /\ Top.left # << >> /\ MemOK(mem)
  BY <1>0 DEF AtStage, Inv
<1> PICK o, old, left, op, s : /\ o = Top.o /\ old = Top.list /\ left = Top.left
                               /\ op = Head(left) /\ s = Items(mem, old)
  OBVIOUS
<1>2. /\ left \in Seq(Ops) /\ old \in ListIds /\ left # << >>
      /\ Reads(o, old, left)
  BY <1>0, <1>1, TopWorks, TopReads
<1>3. /\ op \in {"filter", "map", "take"} /\ s \in Seq(ItemsIn(mem))
      /\ \E out \in Outputs(op, s) : \E new :
           /\ Replace(new) /\ Makes(mem, new.mem, new.list)
           /\ new.mem.heap[new.list].items = out
           /\ new.mem.heap[new.list].block = NoBlock
           /\ new.mem.blocks = mem.blocks
  BY <1>0, ApplyStageMakes
<1>4. PICK out \in Outputs(op, s) : \E new :
           /\ Replace(new) /\ Makes(mem, new.mem, new.list)
           /\ new.mem.heap[new.list].items = out
           /\ new.mem.heap[new.list].block = NoBlock
           /\ new.mem.blocks = mem.blocks
  BY <1>3
<1>5. PICK new : /\ Replace(new) /\ Makes(mem, new.mem, new.list)
                 /\ new.mem.heap[new.list].items = out
                 /\ new.mem.heap[new.list].block = NoBlock
                 /\ new.mem.blocks = mem.blocks
  BY <1>4
<1> PICK l, rest : l = new.list /\ rest = Tail(left)
  OBVIOUS
<1>6. /\ Spares(o) /\ lent' \intersect Running' = {} /\ o \in Running'
      /\ \A i \in Draining' : frames'[i].o = o
           => frames'[i].list = l /\ frames'[i].left = rest
      /\ mem'.heap[l] = new.mem.heap[l]
      /\ \A p \in strayed' : p \in strayed \/ (p = o /\ ReadsBadly(mem, op, old))
      /\ obs'[o].chain = obs[o].chain /\ (obs'[o].pairs <=> obs[o].pairs)
  BY <1>0, <1>5, ReplaceSpares
<1>7. ReadsInTime(o)' <=> ReadsInTime(o)
  BY <1>6, ReadsInTimeKept
<1>8. Items(mem', l) = out /\ Holding(l)' = ToSet(out) /\ BlockOf(l)' = NoBlock
  BY <1>5, <1>6 DEF Items, Holding, BlockOf
<1>9. /\ \A x \in ToSet(out) : x \in ToSet(s) \union {Plain, Done}
      /\ op = "map" => ToSet(out) \subseteq {Plain}
      /\ DoneLast(out)
  <2>1. Plain \in ItemsIn(mem) /\ Done \in ItemsIn(mem)
    BY DEF ItemsIn
  <2>2. /\ \A i \in DOMAIN out : out[i] \in ToSet(s) \union {Plain, Done}
        /\ op = "map" => \A i \in DOMAIN out : out[i] = Plain
        /\ DoneLast(s) => DoneLast(out)
    BY <1>3, <2>1, OutputsFit
  <2>3. DoneLast(s)
    BY <1>2 DEF Reads
  <2>4. QED
    BY <2>2, <2>3 DEF ToSet
<1>10. ASSUME ReadsInTime(o) PROVE InTime(o, l, rest)'
  <2>1. InTime(o, old, left)
    BY <1>2, <1>10 DEF Reads
  <2>2. "mergeMap" \notin ToSet(left)
    <3>1. left # << "mergeMap" >>
      BY <1>3
    <3>2. QED
      BY <2>1, <3>1 DEF InTime
  <2>3. "mergeMap" \notin ToSet(rest)
    BY <1>2, <2>2, TailItems
  <2>4. Holding(l)' \subseteq {Plain, Done}
    <3>1. CASE op = "map"
      BY <1>8, <1>9, <3>1
    <3>2. CASE op # "map"
      <4>1. Holding(old) \subseteq {Plain, Done}
        BY <1>2, <1>3, <2>1, <3>2 DEF InTime
      <4>2. ToSet(s) \subseteq {Plain, Done}
        BY <4>1 DEF Holding
      <4>3. QED
        BY <1>8, <1>9, <4>2
    <3>3. QED
      BY <3>1, <3>2
  <2>5. QED
    BY <1>8, <2>3, <2>4 DEF InTime
<1>11. Reads(o, l, rest)'
  BY <1>7, <1>8, <1>9, <1>10 DEF Reads
<1>12. \A i \in Draining' : frames'[i].o = o
         => Reads(frames[i].o, frames[i].list, frames[i].left)'
  BY <1>6, <1>11
<1>13. \A p \in strayed' : p \in strayed \/ ~ReadsInTime(p)'
  <2>1. ReadsBadly(mem, op, old) => ~ReadsInTime(o)
    BY <1>2, StageReadsWell DEF Reads
  <2>2. QED
    BY <1>6, <1>7, <2>1
<1>14. QED
  BY <1>0, <1>6, <1>12, <1>13, StepKeepsPairs

(* mergeMap copies pointers out of pairs that are there into lent ones.    *)
LEMMA MergeRefsLent ==
  ASSUME PairsInv, NEW l \in ListIds, OwnPairs(l), NEW p \in lent,
         NEW outer, outer = obs[p].data
  PROVE  MergeRefs(mem, l, outer) \subseteq LentPairs
<1>1. MemOK(mem)
  BY DEF PairsInv, Inv
<1>2. Pointed(mem, outer) \subseteq LentPairs
  BY LentIsClosed
<1>3. Pointed(mem, l) = Holding(l) \ {Plain, Done}
  BY <1>1, PointedIs DEF Holding
<1>4. CASE mem.heap[l].block = NoBlock
  <2>1. Pointed(mem, l) = {}
    BY <1>3, <1>4 DEF OwnPairs, BlockOf
  <2>2. QED
    BY <1>2, <1>4, <2>1 DEF MergeRefs
<1>5. CASE mem.heap[l].block # NoBlock
  <2>1. \A b \in Pointed(mem, l) : mem.blocks[b].refs \subseteq LentPairs
    BY <1>3 DEF OwnPairs
  <2>2. QED
    BY <1>2, <1>5, <2>1 DEF MergeRefs
<1>6. QED
  BY <1>4, <1>5

LEMMA ApplyMergeMapKeepsPairs ==
  ASSUME PairsInv, ApplyMergeMap
  PROVE  PairsInv'
<1>0. Inv /\ Inv' /\ AtStage
  BY ApplyMergeMapKeepsInv DEF PairsInv, ApplyMergeMap
<1>1. frames # << >> /\ Top.call = "pop_all" /\ Top.left # << >> /\ MemOK(mem)
  BY <1>0 DEF AtStage, Inv
<1> PICK o, old, left, op : /\ o = Top.o /\ old = Top.list /\ left = Top.left
                            /\ op = Head(left)
  OBVIOUS
<1>2. /\ left \in Seq(Ops) /\ old \in ListIds /\ left # << >> /\ op = "mergeMap"
      /\ Reads(o, old, left)
  BY <1>0, <1>1, TopWorks, TopReads DEF ApplyMergeMap
<1> PICK p, outer, count : /\ p = obs[o].outer /\ outer = obs[p].data
                           /\ count = Len(Active(mem, outer)) * Len(Active(mem, old))
  OBVIOUS
<1>3. /\ p \in lent /\ count \in Nat
      /\ \E new : /\ Replace(new)
                  /\ MakesWithPairs(mem, new.mem, new.list, count,
                                    MergeRefs(mem, old, outer))
  BY <1>0, ApplyMergeMapMakes
<1> PICK refs : refs = MergeRefs(mem, old, outer)
  OBVIOUS
<1>4. PICK new : Replace(new) /\ MakesWithPairs(mem, new.mem, new.list, count, refs)
  BY <1>3
<1> PICK l, rest : l = new.list /\ rest = Tail(left)
  OBVIOUS
<1>5. /\ Makes(mem, new.mem, l) /\ PairsHold(new.mem, l, refs)
      /\ DoneLast(new.mem.heap[l].items)
      /\ \A b \in DOMAIN mem.blocks :
           b \in DOMAIN new.mem.blocks /\ new.mem.blocks[b].refs = mem.blocks[b].refs
  <2> PICK m : m = new.mem /\ MakesWithPairs(mem, m, l, count, refs)
    BY <1>4
  <2>1. /\ Makes(mem, m, l) /\ PairsHold(m, l, refs)
        /\ DoneLast(m.heap[l].items)
        /\ \A b \in DOMAIN mem.blocks :
             b \in DOMAIN m.blocks /\ m.blocks[b].refs = mem.blocks[b].refs
    BY <1>1, <1>3, MadePairs
  <2>2. QED
    BY <2>1
<1>6. /\ Spares(o) /\ lent' \intersect Running' = {} /\ o \in Running'
      /\ \A i \in Draining' : frames'[i].o = o
           => frames'[i].list = l /\ frames'[i].left = rest
      /\ mem'.heap[l] = new.mem.heap[l]
      /\ \A b \in DOMAIN new.mem.blocks :
           b \in DOMAIN mem'.blocks /\ mem'.blocks[b].refs = new.mem.blocks[b].refs
      /\ \A x \in strayed' : x \in strayed \/ (x = o /\ ReadsBadly(mem, op, old))
      /\ obs'[o].chain = obs[o].chain /\ (obs'[o].pairs <=> obs[o].pairs)
  <2>1. /\ Makes(mem, new.mem, new.list) /\ Replace(new) /\ AtStage
        /\ PairsInv /\ Inv' /\ o = Top.o /\ old = Top.list
    BY <1>0, <1>4, <1>5
  <2>2. \A b \in DOMAIN mem.blocks :
           b \in DOMAIN new.mem.blocks /\ new.mem.blocks[b].refs = mem.blocks[b].refs
    BY <1>5
  <2>3. /\ Spares(o) /\ lent' \intersect Running' = {} /\ o \in Running'
        /\ \A i \in Draining' : frames'[i].o = o
             => frames'[i].list = new.list /\ frames'[i].left = Tail(Top.left)
        /\ mem'.heap[new.list] = new.mem.heap[new.list]
        /\ \A b \in DOMAIN new.mem.blocks :
             b \in DOMAIN mem'.blocks /\ mem'.blocks[b].refs = new.mem.blocks[b].refs
        /\ \A x \in strayed' :
             x \in strayed \/ (x = o /\ ReadsBadly(mem, Head(Top.left), old))
        /\ obs'[o].chain = obs[o].chain /\ (obs'[o].pairs <=> obs[o].pairs)
    BY <2>1, <2>2, ReplaceSpares, Zenon
  <2>4. QED
    BY <1>0, <2>3
<1>7. ReadsInTime(o)' <=> ReadsInTime(o)
  BY <1>6, ReadsInTimeKept
<1>8. /\ Items(mem', l) = new.mem.heap[l].items
      /\ Holding(l)' = ToSet(new.mem.heap[l].items)
      /\ BlockOf(l)' = new.mem.heap[l].block
  BY <1>6 DEF Items, Holding, BlockOf
<1>9. ASSUME ReadsInTime(o) PROVE InTime(o, l, rest)'
  <2>1. /\ left = << "mergeMap" >> /\ MergeStreams(obs[o].chain) /\ OwnPairs(old)
    BY <1>2, <1>9, TailItems DEF Reads, InTime
  <2>2. rest = << >> /\ "mergeMap" \notin ToSet(rest)
    BY <2>1 DEF ToSet
  <2>3. refs \subseteq LentPairs /\ LentPairs \subseteq LentPairs'
    BY <1>0, <1>2, <1>3, <1>6, <2>1, MergeRefsLent, LentPairsGrow
  <2>4. OwnPairs(l)'
    <3>1. SUFFICES ASSUME NEW b \in ToSet(new.mem.heap[l].items)
                   PROVE  b = BlockOf(l)' /\ mem'.blocks[b].refs \subseteq LentPairs'
      BY <1>8 DEF OwnPairs
    <3>2. /\ b = new.mem.heap[l].block /\ b # NoBlock /\ new.mem.blocks[b].refs = refs
      BY <1>5 DEF PairsHold
    <3>3. b \in DOMAIN new.mem.blocks
      <4>1. MemOK(new.mem) /\ l \in ListIds
        BY <1>5 DEF Makes
      <4>2. new.mem.heap[l].block \in 0..Len(new.mem.blocks)
            /\ new.mem.blocks \in Seq(BlockType)
        BY <4>1 DEF MemOK, HeapFits, MemType
      <4> PICK bs : bs = new.mem.blocks
        OBVIOUS
      <4>3. b \in 0..Len(bs) /\ b # 0 /\ bs \in Seq(BlockType)
        BY <3>2, <4>2
      <4>4. b \in DOMAIN bs
        BY <4>3
      <4>5. QED
        BY <4>4
    <3>4. QED
      BY <1>6, <1>8, <2>3, <3>2, <3>3
  <2>5. MergeStreams(obs'[o].chain)
    BY <1>6, <2>1
  <2>6. QED
    BY <2>2, <2>4, <2>5 DEF InTime
<1>10. Reads(o, l, rest)'
  BY <1>5, <1>7, <1>8, <1>9 DEF Reads
<1>11. \A i \in Draining' : frames'[i].o = o
         => Reads(frames[i].o, frames[i].list, frames[i].left)'
  BY <1>6, <1>10
<1>12. \A x \in strayed' : x \in strayed \/ ~ReadsInTime(x)'
  <2>1. ReadsBadly(mem, op, old) => ~ReadsInTime(o)
    BY <1>2, StageReadsWell DEF Reads
  <2>2. QED
    BY <1>6, <1>7, <2>1
<1>13. QED
  BY <1>0, <1>6, <1>11, <1>12, StepKeepsPairs

-----------------------------------------------------------------------------
(***************************************************************************)
(* Items are passed on, and the call returns.                              *)
(***************************************************************************)
LEMMA ItemKeepsPairs ==
  ASSUME PairsInv, Item
  PROVE  PairsInv'
<1> DEFINE n == Len(frames)
<1>0. Inv /\ Inv'
  BY ItemKeepsInv DEF PairsInv
<1> PICK o, l, here : o = Top.o /\ l = Top.list /\ here = Here
  OBVIOUS
<1>1. /\ frames # << >> /\ Top.call = "pop_all" /\ Top.left = << >>
      /\ here \in DOMAIN Items(mem, l) /\ Items(mem, l)[here] # Done
      /\ frames' = [frames EXCEPT ![n].at = @ + 1]
      /\ mem' = IF Streaming THEN mem
                ELSE [mem EXCEPT !.heap[l].items = Tail(@)]
      /\ obs' = obs /\ lent' = lent
      /\ strayed' = IF Items(mem, l)[here] \notin Readable(mem) \union {Plain}
                    THEN strayed \union {o} ELSE strayed
  BY DEF Item, Emitting, Stray, Finished
<1>2. frames \in Seq(FrameType) /\ MemOK(mem)
  BY <1>0 DEF Inv, StateType
<1>3. /\ n \in DOMAIN frames /\ Top = frames[n] /\ Top \in FrameType /\ Top.at \in Nat
      /\ o \in Made /\ l \in ListIds /\ l \in InUse(mem)
      /\ Reads(o, l, << >>)
  BY <1>0, <1>1, TopWorks, TopReads
<1>4. /\ mem'.blocks = mem.blocks /\ OthersKept(mem, mem', l)
      /\ mem'.heap[l].block = mem.heap[l].block
      /\ \A x \in ToSet(mem'.heap[l].items) : x \in Holding(l)
      /\ DoneLast(mem'.heap[l].items)
  <2>1. DoneLast(Items(mem, l)) /\ Items(mem, l) \in Seq(ItemsIn(mem))
    BY <1>2, <1>3, ItemsTyped DEF Reads
  <2>2. CASE Streaming
    BY <1>1, <2>1, <2>2 DEF Holding, Items, OthersKept
  <2>3. CASE ~Streaming
    <3>1. Items(mem, l) # << >>
      BY <1>1
    <3>2. Written(mem, mem', l, Tail(Items(mem, l)))
      BY <1>1, <1>2, <1>3, <2>3, <3>1, ItemsTaken
    <3>3. /\ \A x \in ToSet(Tail(Items(mem, l))) : x \in Holding(l)
          /\ DoneLast(Tail(Items(mem, l)))
      BY <2>1, <3>1, TailItems DEF Holding
    <3>4. QED
      BY <3>2, <3>3 DEF Written
  <2>4. QED
    BY <2>2, <2>3
<1>5. PICK f : GoesOn(o, f) /\ f.list = l /\ f.left = << >>
  <2> DEFINE f == [Top EXCEPT !.at = @ + 1]
  <2>1. f \in FrameType /\ f.o = o /\ f.call = "pop_all" /\ f.list = l /\ f.left = << >>
    <3>1. Top \in FrameType /\ Top.at \in Nat /\ Top.call = "pop_all" /\ Top.left = << >>
      BY <1>1, <1>3
    <3>2. QED
      BY <3>1 DEF FrameType
  <2>2. frames' = [frames EXCEPT ![n] = f]
    BY <1>1, <1>2, <1>3
  <2> HIDE DEF f
  <2>3. QED
    BY <2>1, <2>2 DEF GoesOn
<1>6. /\ OtherCalls(o) /\ o \in Running'
      /\ \A i \in Draining' : frames'[i].o = o => frames'[i] = f
  BY <1>0, <1>1, <1>5, TopStays
<1>7. Spares(o) /\ lent' \intersect Running' = {}
  <2>1. BlocksKept
    BY <1>4 DEF BlocksKept
  <2>2. \A x \in InUse(mem) : x # l => mem'.heap[x] = mem.heap[x]
    BY <1>4 DEF OthersKept, InUse
  <2>3. Made' = Made
    BY <1>1 DEF Made
  <2>4. QED
    BY <1>0, <1>1, <1>6, <2>1, <2>2, <2>3, TopSpares
<1>8. /\ BlockOf(l)' = BlockOf(l) /\ \A x \in Holding(l)' : x \in Holding(l)
      /\ DoneLast(Items(mem', l))
  BY <1>4 DEF BlockOf, Holding, Items
<1>9. OwnPairs(l) => OwnPairs(l)'
  <2>1. LentPairs \subseteq LentPairs' /\ BlocksKept
    BY <1>0, <1>7, LentPairsGrow DEF Spares
  <2>2. QED
    BY <1>2, <1>3, <1>8, <2>1, PairsKept
<1>10. ReadsInTime(o)' <=> ReadsInTime(o)
  BY <1>1, ReadsInTimeKept
<1>11. Reads(o, l, << >>)'
  <2>1. "mergeMap" \notin ToSet(<< >>)
    BY DEF ToSet
  <2>2. InTime(o, l, << >>) => InTime(o, l, << >>)'
    BY <1>1, <1>8, <1>9, <2>1 DEF InTime
  <2>3. QED
    BY <1>3, <1>8, <1>10, <2>2 DEF Reads
<1>12. \A i \in Draining' : frames'[i].o = o
         => Reads(frames[i].o, frames[i].list, frames[i].left)'
  BY <1>5, <1>6, <1>11
<1>13. \A p \in strayed' : p \in strayed \/ ~ReadsInTime(p)'
  <2>1. ASSUME ReadsInTime(o)
        PROVE  Items(mem, l)[here] \in Readable(mem) \union {Plain}
    <3>1. Items(mem, l)[here] \in Holding(l) /\ Items(mem, l)[here] # Done
      BY <1>1 DEF Holding, ToSet
    <3>2. Holding(l) \subseteq {Plain, Done} \/ OwnPairs(l)
      BY <1>3, <2>1 DEF Reads, InTime
    <3>3. QED
      BY <1>3, <3>1, <3>2, OwnIsReadable
  <2>2. QED
    BY <1>1, <1>10, <2>1
<1>14. QED
  BY <1>0, <1>6, <1>7, <1>12, <1>13, StepKeepsPairs

(* A stream starts over with an empty list.                                *)
LEMMA StreamEndKeepsPairs ==
  ASSUME PairsInv, StreamEnd
  PROVE  PairsInv'
<1>0. Inv /\ Inv'
  BY StreamEndKeepsInv DEF PairsInv
<1> PICK o, old, m, done : /\ o = Top.o /\ old = Top.list /\ m = FreeList(mem, old)
                           /\ done = Ended
  OBVIOUS
<1> DEFINE new == InitList(m, 2)
           l == new.list
<1>1. /\ frames # << >> /\ Top.call = "pop_all"
      /\ Fresh(mem) # {} /\ mem' = new.mem
      /\ obs' = [obs EXCEPT ![o].data = l, ![o].complete = done]
      /\ frames' = Front(frames)
      /\ lent' = lent /\ strayed' = strayed
  BY DEF Emitting, StreamEnd
<1>2. /\ obs \in [ObsIds -> ObsType] /\ MemOK(mem)
  BY <1>0 DEF Inv, StateType
<1>3. /\ o \in Made /\ o \in ObsIds /\ old \in ListIds /\ old \in InUse(mem)
      /\ obs[o] \in ObsType
  BY <1>0, <1>1, TopWorks
<1>4. Freed(mem, m, old)
  BY <1>2, <1>3, FreeListFrees
<1>5. Fresh(m) # {}
  <2>1. PICK x \in ListIds : ~mem.heap[x].used
    BY <1>1 DEF Fresh
  <2>2. x # old
    BY <1>3, <2>1 DEF InUse
  <2>3. ~m.heap[x].used
    BY <1>4, <2>1, <2>2 DEF Freed, OthersKept
  <2>4. QED
    BY <2>3 DEF Fresh
<1>6. Given(m, new)
  BY <1>4, <1>5, InitListGives DEF Freed
<1> HIDE DEF new
<1>7. \A p \in ObsIds : /\ obs'[p].chain = obs[p].chain
                        /\ obs'[p].pairs <=> obs[p].pairs
                        /\ p # o => obs'[p] = obs[p]
                        /\ p = o => obs'[p].data = l
  <2> PICK r : r = [obs[o] EXCEPT !.data = l, !.complete = done]
    OBVIOUS
  <2>1. obs' = [obs EXCEPT ![o] = r]
    BY <1>1
  <2>2. r.data = l /\ r.chain = obs[o].chain /\ r.pairs = obs[o].pairs
    BY <1>3 DEF ObsType
  <2>3. QED
    BY <1>2, <1>3, <2>1, <2>2
<1>8. Made' = Made
  <2>1. l # NoList
    BY <1>6 DEF Given
  <2>2. QED
    BY <1>3, <1>7, <2>1 DEF Made
<1>9. /\ OtherCalls(o) /\ o \notin Running'
      /\ \A i \in Draining' : frames'[i].o # o
  BY <1>0, <1>1, TopLeaves
<1>10. BlocksKept
  BY <1>1, <1>4, <1>6 DEF BlocksKept, Freed, Given
<1>11. \A x \in InUse(mem) : x # old => mem'.heap[x] = mem.heap[x]
  BY <1>1, <1>4, <1>6 DEF Freed, Given, OthersKept, InUse
<1>12. Spares(o) /\ lent' \intersect Running' = {}
  BY <1>0, <1>1, <1>7, <1>8, <1>9, <1>10, <1>11, TopSpares DEF Made
<1>13. Rests(o)'
  <2> PICK k : k = l
    OBVIOUS
  <2>1. obs'[o].data = k
    BY <1>3, <1>7
  <2>2. Holding(k)' = {} /\ BlockOf(k)' = NoBlock
    BY <1>1, <1>6 DEF Given, Holding, BlockOf, Items, ToSet
  <2>3. OwnPairs(k)'
    BY <2>2 DEF OwnPairs
  <2>4. QED
    BY <2>1, <2>2, <2>3 DEF Rests
<1>14. QED
  BY <1>0, <1>1, <1>9, <1>12, <1>13, StepKeepsPairs

(* The generic path leaves tokens at most.                                 *)
LEMMA DrainEndKeepsPairs ==
  ASSUME PairsInv, DrainEnd
  PROVE  PairsInv'
<1>0. Inv /\ Inv'
  BY DrainEndKeepsInv DEF PairsInv
<1> PICK o, l, s : o = Top.o /\ l = Top.list /\ s = Items(mem, l)
  OBVIOUS
<1> PICK done \in BOOLEAN : done <=> Ended
  BY DEF Ended
<1>1. /\ frames # << >> /\ Top.call = "pop_all" /\ Top.left = << >>
      /\ ~Streaming
      /\ frames' = Front(frames)
      /\ mem' = IF done THEN [mem EXCEPT !.heap[l].items = Tail(@)] ELSE mem
      /\ obs' = [obs EXCEPT ![o].complete = Ended]
      /\ lent' = lent /\ strayed' = strayed
      /\ done <=> 1 \in DOMAIN s
      /\ done => s[1] = Done
  BY DEF DrainEnd, Emitting, Ended, Finished, Here
<1>2. /\ obs \in [ObsIds -> ObsType] /\ MemOK(mem) /\ DrainsData
  BY <1>0 DEF Inv, StateType
<1>3. /\ Len(frames) \in Draining /\ Top = frames[Len(frames)]
      /\ o \in Made /\ o \in ObsIds /\ l \in InUse(mem) /\ l \in ListIds
      /\ obs[o] \in ObsType /\ Reads(o, l, << >>)
  BY <1>0, <1>1, TopWorks, TopReads
<1>4. obs[o].data = l /\ ~MergeStreams(obs[o].chain)
  BY <1>1, <1>2, <1>3 DEF DrainsData, Streaming
<1>5. \A p \in ObsIds : /\ obs'[p].chain = obs[p].chain
                        /\ obs'[p].pairs <=> obs[p].pairs
                        /\ p # o => obs'[p] = obs[p]
                        /\ obs'[p].data = obs[p].data
                        /\ p = o => (obs'[p].complete <=> done)
  <2> PICK e : e = Ended
    OBVIOUS
  <2> PICK r : r = [obs[o] EXCEPT !.complete = e]
    OBVIOUS
  <2>1. obs' = [obs EXCEPT ![o] = r]
    BY <1>1
  <2>2. r.data = obs[o].data /\ r.chain = obs[o].chain /\ r.pairs = obs[o].pairs
        /\ (r.complete <=> done)
    BY <1>3 DEF ObsType
  <2>3. QED
    BY <1>2, <1>3, <2>1, <2>2
<1>6. Made' = Made
  BY <1>5 DEF Made
<1>7. s \in Seq(ItemsIn(mem)) /\ DoneLast(s)
  BY <1>2, <1>3, ItemsTyped DEF Reads
<1>8. /\ mem'.blocks = mem.blocks /\ OthersKept(mem, mem', l)
      /\ mem'.heap[l].block = mem.heap[l].block
      /\ ToSet(mem'.heap[l].items) \subseteq {Done}
      /\ ~done => ToSet(mem'.heap[l].items) = {}
  <2>1. CASE ~done
    <3>1. s = << >>
      BY <1>1, <1>7, <2>1
    <3>2. QED
      <4>1. mem' = mem /\ ToSet(mem.heap[l].items) = {}
        BY <1>1, <2>1, <3>1 DEF Items, ToSet
      <4>2. QED
        BY <4>1 DEF OthersKept
  <2>2. CASE done
    <3>1. s # << >> /\ Head(s) = Done
      BY <1>1, <1>7, <2>2
    <3>2. Written(mem, mem', l, Tail(s))
      BY <1>1, <1>2, <1>3, <2>2, <3>1, ItemsTaken
    <3>3. ToSet(Tail(s)) \subseteq {Done}
      BY <1>7, <3>1, TailItems
    <3>4. QED
      BY <2>2, <3>2, <3>3 DEF Written
  <2>3. QED
    BY <2>1, <2>2
<1>9. /\ OtherCalls(o) /\ o \notin Running'
      /\ \A i \in Draining' : frames'[i].o # o
  BY <1>0, <1>1, TopLeaves
<1>10. Spares(o) /\ lent' \intersect Running' = {}
  <2>1. BlocksKept
    BY <1>8 DEF BlocksKept
  <2>2. \A x \in InUse(mem) : x # l => mem'.heap[x] = mem.heap[x]
    BY <1>8 DEF OthersKept, InUse
  <2>3. QED
    BY <1>0, <1>1, <1>5, <1>6, <1>9, <2>1, <2>2, TopSpares DEF Made
<1>11. Rests(o)'
  <2>1. /\ obs'[o].data = l /\ Holding(l)' \subseteq {Done} /\ BlockOf(l)' = BlockOf(l)
        /\ ~obs'[o].complete => Holding(l)' = {}
    BY <1>3, <1>4, <1>5, <1>8 DEF Holding, BlockOf, Items
  <2>2. OwnPairs(l)'
    BY <2>1 DEF OwnPairs
  <2>3. ReadsInTime(o)' <=> ReadsInTime(o)
    BY <1>3, <1>5, ReadsInTimeKept
  <2>4. ReadsInTime(o) /\ BlockOf(l) # NoBlock => obs[o].pairs
    BY <1>3, <1>4 DEF Reads, InTime
  <2>5. ReadsInTime(o)' /\ BlockOf(l)' # NoBlock => obs'[o].pairs /\ Plain \notin Holding(l)'
    <3>1. obs'[o].pairs <=> obs[o].pairs
      BY <1>3, <1>5
    <3>2. Plain \notin Holding(l)'
      BY <2>1
    <3>3. QED
      BY <2>1, <2>3, <2>4, <3>1, <3>2
  <2>6. /\ ~obs'[o].complete => Done \notin Holding(l)'
        /\ Holding(l)' \subseteq {Plain, Done}
    BY <2>1
  <2>7. QED
    BY <2>1, <2>2, <2>5, <2>6 DEF Rests
<1>12. QED
  BY <1>0, <1>1, <1>9, <1>10, <1>11, StepKeepsPairs

-----------------------------------------------------------------------------
LEMMA NextKeepsPairs ==
  ASSUME PairsInv, [Next]_vars
  PROVE  PairsInv'
<1>0. Inv'
  BY NextKeepsInv DEF PairsInv
<1>1. CASE \E o \in ObsIds, n \in Lengths, arg \in Arguments : MakeRange(o, n, arg)
  BY <1>0, <1>1, MakeRangeKeepsPairs
<1>2. CASE \E o \in ObsIds, a, b \in Made, arg \in Arguments : MakeZip(o, a, b, arg)
  BY <1>0, <1>2, MakeZipKeepsPairs
<1>3. CASE \E o \in Made : Subscribe(o) \/ Push(o)
  BY <1>3, SubscribeKeepsPairs, PushKeepsPairs
<1>4. CASE PipeStage
  BY <1>0, <1>4, PipeStageKeepsPairs
<1>5. CASE ApplyStage
  BY <1>5, ApplyStageKeepsPairs
<1>6. CASE ApplyMergeMap
  BY <1>6, ApplyMergeMapKeepsPairs
<1>7. CASE Item
  BY <1>7, ItemKeepsPairs
<1>8. CASE StreamEnd
  BY <1>8, StreamEndKeepsPairs
<1>9. CASE DrainEnd
  BY <1>9, DrainEndKeepsPairs
<1>10. CASE UNCHANGED vars
  <2>1. /\ mem' = mem /\ obs' = obs /\ lent' = lent /\ frames' = frames
        /\ strayed' = strayed
    BY <1>10 DEF vars
  <2>2. Made' = Made /\ Draining' = Draining /\ Running' = Running
    BY <2>1 DEF Made, Draining, Running
  <2>3. Spares(NoList)
    <3>1. NoList \notin Made /\ lent \subseteq Made
      BY DEF Made, PairsInv, Inv, StateType
    <3>2. QED
      BY <2>1, <2>2, <3>1 DEF Spares, BlocksKept
  <2>4. NoList \notin Made' /\ \A i \in Draining' : frames'[i].o # NoList
    <3>1. frames' \in Seq(FrameType)
      BY <1>0 DEF Inv, StateType
    <3>2. \A i \in DOMAIN frames' : frames'[i] \in FrameType
      BY <3>1
    <3>3. QED
      BY <3>2 DEF FrameType, Draining, Made
  <2>5. lent' \intersect Running' = {}
    BY <2>1, <2>2 DEF PairsInv
  <2>6. QED
    BY <1>0, <2>1, <2>3, <2>4, <2>5, StepKeepsPairs
<1>11. QED
  BY <1>1, <1>2, <1>3, <1>4, <1>5, <1>6, <1>7, <1>8, <1>9, <1>10 DEF Next

(* No observable that reads in time ever reads a freed payload block, nor  *)
(* takes a number for a pair: what zip, zip of zip and mergeMap point to   *)
(* outlives every callback, whatever the callbacks create and drain.       *)
THEOREM PairsOutliveReadsHolds == Spec => []PairsOutliveReads
<1>1. Init => PairsInv
  <2>1. SUFFICES ASSUME Init PROVE PairsInv
    OBVIOUS
  <2>2. /\ Inv /\ lent = {} /\ strayed = {} /\ frames = << >>
        /\ \A o \in ObsIds : obs[o].data = NoList
    BY <2>1, InitFits DEF Init
  <2>3. Made = {}
    BY <2>2 DEF Made
  <2>5. Draining = {} /\ Running = {}
    <3>1. DOMAIN frames = {}
      BY <2>2
    <3>2. QED
      BY <3>1 DEF Draining, Running
  <2>4. QED
    BY <2>2, <2>3, <2>5 DEF PairsInv, Idle, Busy, PairsOutliveReads
<1>2. PairsInv /\ [Next]_vars => PairsInv'
  BY NextKeepsPairs
<1>3. PairsInv => PairsOutliveReads
  BY DEF PairsInv
<1>4. QED
  BY <1>1, <1>2, <1>3, PTL DEF Spec
=============================================================================
