----------------------------- MODULE ListsProofs -----------------------------
(***************************************************************************)
(* Theorems about Lists: its types, who owns a list and how long a payload *)
(* block lives.  The first part is about the memory alone, one lemma per   *)
(* operation of list.c; the second about the calls under way and who holds *)
(* which list.                                                             *)
(***************************************************************************)
EXTENDS Lists, Induction

(* normalized_capacity returns at least what was asked for, as doubling    *)
(* reaches any capacity.                                                   *)
LEMMA DoublingsDefined ==
  /\ Doublings \in [Nat -> Nat]
  /\ Doublings[0] = 2
  /\ \A n \in Nat \ {0} : Doublings[n] = 2 * Doublings[n - 1]
<1> DEFINE step == [p \in (Nat \ {0}) \X Nat |-> 2 * p[2]]
           body(f) == [k \in Nat |-> IF k = 0 THEN 2 ELSE 2 * f[k - 1]]
<1>1. step \in [(Nat \ {0}) \X Nat -> Nat]
  OBVIOUS
<1>2. PICK f : Satisfies(f, Nat, 2, step)
  <2> HIDE DEF step
  <2> QED BY <1>1, Recursion
<1>3. f = body(f)
  <2>1. \A n \in Nat \ {0} : f[n] = 2 * f[n - 1]
    <3>1. ASSUME NEW n \in Nat \ {0} PROVE << n, f[n - 1] >> \in (Nat \ {0}) \X Nat
      BY <1>2 DEF Satisfies
    <3>2. QED
      BY <1>2, <3>1 DEF Satisfies
  <2>2. \A n \in Nat : f[n] = IF n = 0 THEN 2 ELSE 2 * f[n - 1]
    BY <1>2, <2>1 DEF Satisfies
  <2>3. QED
    BY <1>2, <2>2 DEF Satisfies
<1>4. Doublings = body(Doublings)
  <2>1. Doublings = CHOOSE g : g = body(g)
    BY DEF Doublings
  <2> HIDE DEF body
  <2> QED BY <1>3, <2>1
<1>5. Doublings[0] = 2 /\ \A n \in Nat \ {0} : Doublings[n] = 2 * Doublings[n - 1]
  BY <1>4
<1> DEFINE S == {n \in Nat : Doublings[n] \in Nat}
<1>6. 0 \in S /\ \A n \in Nat : n \in S => n + 1 \in S
  <2>1. \A n \in Nat : Doublings[n + 1] = 2 * Doublings[n]
    <3>1. \A n \in Nat : n + 1 \in Nat \ {0} /\ (n + 1) - 1 = n
      OBVIOUS
    <3>2. QED
      BY <1>5, <3>1
  <2>2. QED
    BY <1>5, <2>1
<1>7. \A n \in Nat : n \in S
  <2> HIDE DEF S
  <2> QED BY <1>6, SetInduction
<1>8. DOMAIN Doublings = Nat /\ Doublings = [n \in Nat |-> Doublings[n]]
  BY <1>4
<1>9. QED
  BY <1>5, <1>7, <1>8

LEMMA NormalizedCovers ==
  ASSUME NEW c \in Nat
  PROVE  Normalized(c) \in Nat /\ Normalized(c) >= c /\ Normalized(2) = 2
<1> USE DoublingsDefined
<1> DEFINE S == {n \in Nat : Doublings[n] >= n + 2}
           Enough(d) == {n \in Nat : Doublings[n] >= d}
<1>1. 0 \in S /\ \A n \in Nat : n \in S => n + 1 \in S
  <2>1. \A n \in Nat : n + 1 \in Nat \ {0} /\ (n + 1) - 1 = n
    OBVIOUS
  <2>2. QED
    BY <2>1
<1>2. \A n \in Nat : n \in S
  <2> HIDE DEF S
  <2> QED BY <1>1, SetInduction
<1>3. ASSUME NEW d \in Nat
      PROVE  \E n \in 0..d : /\ Doublings[n] >= d
                             /\ \A m \in 0..(n - 1) : Doublings[m] < d
  <2>1. d \in Enough(d)
    BY <1>2
  <2>2. PICK n \in Enough(d) : \A k \in Enough(d) : n <= k
    <3>1. Enough(d) \in SUBSET Nat
      OBVIOUS
    <3> HIDE DEF Enough
    <3> QED BY <2>1, <3>1, LeastElement
  <2>3. \A m \in 0..(n - 1) : Doublings[m] < d
    BY <2>2
  <2>4. QED
    BY <2>1, <2>2, <2>3
<1> DEFINE Loops(d) == CHOOSE n \in 0..d :
                         /\ Doublings[n] >= d
                         /\ \A m \in 0..(n - 1) : Doublings[m] < d
<1>4. \A d \in Nat : /\ Loops(d) \in 0..d
                     /\ Doublings[Loops(d)] >= d
                     /\ \A m \in 0..(Loops(d) - 1) : Doublings[m] < d
  BY <1>3
<1>5. \A d : Normalized(d) = Doublings[Loops(d)]
  BY DEF Normalized
<1> HIDE DEF Loops
<1>6. Loops(2) = 0
  <2>1. Loops(2) \in 0..2 /\ \A m \in 0..(Loops(2) - 1) : Doublings[m] < 2
    BY <1>4
  <2>2. Doublings[0] = 2
    OBVIOUS
  <2>3. CASE Loops(2) # 0
    <3>1. 0 \in 0..(Loops(2) - 1)
      BY <2>1, <2>3
    <3>2. QED
      BY <2>1, <2>2, <3>1
  <2>4. QED
    BY <2>3
<1>7. QED
  BY <1>4, <1>5, <1>6

-----------------------------------------------------------------------------
(***************************************************************************)
(* The memory.                                                             *)
(***************************************************************************)
ItemsIn(m) == {Done, Plain} \union DOMAIN m.blocks

ListType == [used : BOOLEAN, cap : Nat, items : Seq(Int), block : Nat]
BlockType == [live : BOOLEAN, refs : SUBSET Nat]
MemType == [heap : [ListIds -> ListType], pool : Seq(ListIds),
            blocks : Seq(BlockType)]

(* Every list fits its array and its items are numbers, tokens or pairs.   *)
HeapFits(m) ==
  \A l \in ListIds :
    /\ Len(m.heap[l].items) <= m.heap[l].cap
    /\ m.heap[l].block \in 0..Len(m.blocks)
    /\ \A i \in DOMAIN m.heap[l].items : m.heap[l].items[i] \in ItemsIn(m)

RefsFit(m) == \A b \in DOMAIN m.blocks : m.blocks[b].refs \subseteq DOMAIN m.blocks

(* The pool: small lists without a block, each of them once.               *)
PoolFits(m) ==
  /\ Len(m.pool) <= PoolMax
  /\ \A i \in DOMAIN m.pool :
       /\ m.heap[m.pool[i]].used
       /\ m.heap[m.pool[i]].cap <= PoolCapacity
       /\ m.heap[m.pool[i]].block = NoBlock
  /\ \A i, j \in DOMAIN m.pool : m.pool[i] = m.pool[j] => i = j

(* A block is live as long as a list owns it, and one list does.           *)
BlocksFit(m) ==
  /\ \A l \in ListIds : ~m.heap[l].used => m.heap[l].block = NoBlock
  /\ \A k, l \in ListIds :
       m.heap[k].block = m.heap[l].block /\ m.heap[l].block # NoBlock => k = l
  /\ \A b \in DOMAIN m.blocks :
       m.blocks[b].live <=> \E l \in ListIds : m.heap[l].block = b

MemOK(m) == m \in MemType /\ HeapFits(m) /\ RefsFit(m) /\ PoolFits(m)
              /\ BlocksFit(m)

(* The lists that are out of the pool.                                     *)
Pooled(m) == {m.pool[i] : i \in DOMAIN m.pool}
InUse(m) == {l \in ListIds : m.heap[l].used} \ Pooled(m)

(* What an operation on l leaves alone.                                    *)
OthersKept(m, n, l) == \A k \in ListIds \ {l} : n.heap[k] = m.heap[k]

USE ListsAssumption DEF NoBlock, NoList, Plain, Done

(* The pool without the list at top, whose place the last one takes.       *)
LEMMA TakenFromPool ==
  ASSUME NEW pool \in Seq(ListIds), NEW top \in DOMAIN pool,
         \A i, j \in DOMAIN pool : pool[i] = pool[j] => i = j
  PROVE  LET rest == Front([pool EXCEPT ![top] = Last(pool)])
         IN  /\ rest \in Seq(ListIds) /\ Len(rest) <= Len(pool)
             /\ {rest[i] : i \in DOMAIN rest} =
                  {pool[i] : i \in DOMAIN pool} \ {pool[top]}
             /\ \A i, j \in DOMAIN rest : rest[i] = rest[j] => i = j
<1> DEFINE k == Len(pool)
           swapped == [pool EXCEPT ![top] = Last(pool)]
           rest == Front(swapped)
<1>1. k \in Nat \ {0} /\ DOMAIN pool = 1..k /\ top \in 1..k
  OBVIOUS
<1>2. Last(pool) = pool[k] /\ pool[k] \in ListIds
  BY <1>1 DEF Last
<1>3. /\ swapped \in Seq(ListIds) /\ Len(swapped) = k
      /\ \A i \in 1..k : swapped[i] = IF i = top THEN pool[k] ELSE pool[i]
  BY <1>1, <1>2
<1> HIDE DEF swapped
<1>4. /\ rest \in Seq(ListIds) /\ Len(rest) = k - 1 /\ DOMAIN rest = 1..(k - 1)
      /\ \A i \in 1..(k - 1) : rest[i] = swapped[i]
  BY <1>1, <1>3 DEF Front
<1> HIDE DEF rest, k
<1>5. \A i \in 1..(k - 1) : rest[i] = IF i = top THEN pool[k] ELSE pool[i]
  BY <1>1, <1>3, <1>4
<1>6. \A i, j \in DOMAIN rest : rest[i] = rest[j] => i = j
  BY <1>1, <1>4, <1>5
<1>7. \A i \in DOMAIN rest : \E j \in DOMAIN pool : rest[i] = pool[j] /\ j # top
  BY <1>1, <1>4, <1>5
<1>8. \A j \in DOMAIN pool : j # top => \E i \in DOMAIN rest : rest[i] = pool[j]
  <2>1. SUFFICES ASSUME NEW j \in 1..k, j # top
                 PROVE  \E i \in 1..(k - 1) : rest[i] = pool[j]
    BY <1>1, <1>4
  <2>2. CASE j = k
    <3>1. top \in 1..(k - 1)
      BY <1>1, <2>1, <2>2
    <3>2. QED
      BY <1>5, <2>2, <3>1
  <2>3. CASE j # k
    <3>1. j \in 1..(k - 1)
      BY <1>1, <2>3
    <3>2. QED
      BY <1>5, <2>1, <3>1
  <2>4. QED
    BY <2>2, <2>3
<1>9. {rest[i] : i \in DOMAIN rest} = {pool[i] : i \in DOMAIN pool} \ {pool[top]}
  BY <1>7, <1>8
<1>10. rest \in Seq(ListIds) /\ Len(rest) <= Len(pool)
  BY <1>1, <1>4 DEF k
<1>11. QED
  BY <1>6, <1>9, <1>10 DEF rest, swapped

(* The list init_list takes, new or out of the pool, and what is left.     *)
Takes(m, l, cap, pool) ==
  /\ l \in ListIds /\ l \notin InUse(m) /\ m.heap[l].block = NoBlock
  /\ cap \in Nat
  /\ pool \in Seq(ListIds) /\ Len(pool) <= Len(m.pool)
  /\ {pool[i] : i \in DOMAIN pool} = Pooled(m) \ {l}
  /\ \A i, j \in DOMAIN pool : pool[i] = pool[j] => i = j

Empty(cap) == [used |-> TRUE, items |-> << >>, block |-> NoBlock, cap |-> cap]

LEMMA InitListTakes ==
  ASSUME NEW m, MemOK(m), NEW c \in Nat, Fresh(m) # {}
  PROVE  \E l, cap, pool :
           /\ Takes(m, l, cap, pool)
           /\ InitList(m, c) =
                [list |-> l,
                 mem |-> [m EXCEPT !.heap[l] = Empty(cap), !.pool = pool]]
<1> DEFINE need == Normalized(c)
           fits == {i \in DOMAIN m.pool : m.heap[m.pool[i]].cap >= need}
           reuse == need <= PoolCapacity /\ fits # {}
           top == Max(fits)
           fresh == CHOOSE x \in Fresh(m) : TRUE
<1>1. need \in Nat
  BY NormalizedCovers
<1>2. m.pool \in Seq(ListIds)
  BY DEF MemOK, MemType
<1>3. CASE reuse
  <2> DEFINE l == m.pool[top]
             rest == Front([m.pool EXCEPT ![top] = Last(m.pool)])
  <2>1. fits \in SUBSET (0..Len(m.pool)) /\ Len(m.pool) \in Nat
    BY <1>2
  <2>2. \E t \in fits : \A i \in fits : i <= t
    <3> HIDE DEF fits
    <3> QED BY <1>3, <2>1, GreatestElement
  <2>3. top \in DOMAIN m.pool
    <3>1. top \in fits
      <4> HIDE DEF fits
      <4> QED BY <2>1, <2>2 DEF Max
    <3>2. QED
      BY <3>1
  <2> HIDE DEF fits, top
  <2>4. \A i, j \in DOMAIN m.pool : m.pool[i] = m.pool[j] => i = j
    BY DEF MemOK, PoolFits
  <2>5. /\ rest \in Seq(ListIds) /\ Len(rest) <= Len(m.pool)
        /\ {rest[i] : i \in DOMAIN rest} = {m.pool[i] : i \in DOMAIN m.pool} \ {l}
        /\ \A i, j \in DOMAIN rest : rest[i] = rest[j] => i = j
    BY <1>2, <2>3, <2>4, TakenFromPool
  <2>6. l \in ListIds /\ l \in Pooled(m) /\ m.heap[l].block = NoBlock
    BY <1>2, <2>3 DEF MemOK, PoolFits, Pooled
  <2>7. m.heap[l].cap \in Nat
    BY <2>6 DEF MemOK, MemType, ListType
  <2>8. Takes(m, l, m.heap[l].cap, rest)
    <3> HIDE DEF l, rest
    <3> QED BY <2>5, <2>6, <2>7 DEF Takes, Pooled, InUse, l
  <2>9. InitList(m, c) =
          [list |-> l, mem |-> [m EXCEPT !.heap[l] = Empty(m.heap[l].cap),
                                         !.pool = rest]]
    BY <1>3 DEF InitList, Empty, fits, top
  <2>10. QED
    <3> HIDE DEF l, rest
    <3> QED BY <2>8, <2>9
<1>4. CASE ~reuse
  <2>1. fresh \in ListIds /\ ~m.heap[fresh].used
    BY DEF Fresh
  <2> HIDE DEF fresh
  <2>2. fresh \notin Pooled(m)
    BY <2>1 DEF MemOK, PoolFits, Pooled
  <2>3. m.heap[fresh].block = NoBlock /\ fresh \notin InUse(m)
    BY <2>1 DEF MemOK, BlocksFit, InUse
  <2>4. \A i, j \in DOMAIN m.pool : m.pool[i] = m.pool[j] => i = j
    BY DEF MemOK, PoolFits
  <2>5. Len(m.pool) \in Nat /\ {m.pool[i] : i \in DOMAIN m.pool} = Pooled(m) \ {fresh}
    BY <1>2, <2>2 DEF Pooled
  <2>6. Takes(m, fresh, need, m.pool)
    <3> HIDE DEF need
    <3> QED BY <1>1, <1>2, <2>1, <2>3, <2>4, <2>5 DEF Takes
  <2>7. InitList(m, c) =
          [list |-> fresh, mem |-> [m EXCEPT !.heap[fresh] = Empty(need),
                                             !.pool = m.pool]]
    BY <1>4 DEF InitList, Empty, fresh
  <2>8. QED
    BY <2>6, <2>7
<1>5. QED
  BY <1>3, <1>4

(* init_list takes a list nobody uses and gives it out empty.              *)
Given(m, new) ==
  /\ MemOK(new.mem)
  /\ new.list \in ListIds /\ new.list \notin InUse(m)
  /\ InUse(new.mem) = InUse(m) \union {new.list}
  /\ OthersKept(m, new.mem, new.list)
  /\ new.mem.heap[new.list].items = << >>
  /\ new.mem.heap[new.list].block = NoBlock
  /\ new.mem.blocks = m.blocks

LEMMA InitListGives ==
  ASSUME NEW m, MemOK(m), NEW c \in Nat, Fresh(m) # {}
  PROVE  Given(m, InitList(m, c))
<1>1. PICK l, cap, pool :
        /\ Takes(m, l, cap, pool)
        /\ InitList(m, c) =
             [list |-> l,
              mem |-> [m EXCEPT !.heap[l] = Empty(cap), !.pool = pool]]
  BY InitListTakes
<1> DEFINE n == [m EXCEPT !.heap[l] = Empty(cap), !.pool = pool]
<1>2. InitList(m, c).list = l /\ InitList(m, c).mem = n
  BY <1>1
<1>3. l \in ListIds /\ Empty(cap) \in ListType
  BY <1>1 DEF Takes, Empty, ListType
<1>4. /\ n \in MemType /\ n.blocks = m.blocks /\ n.pool = pool
      /\ n.heap = [m.heap EXCEPT ![l] = Empty(cap)]
  BY <1>1, <1>3 DEF Takes, MemOK, MemType
<1> HIDE DEF n
<1>5. n.heap[l] = Empty(cap) /\ OthersKept(m, n, l)
  BY <1>3, <1>4 DEF OthersKept, MemOK, MemType
<1>6. /\ n.heap[l].used /\ n.heap[l].block = NoBlock /\ n.heap[l].items = << >>
      /\ n.heap[l].cap \in Nat
  BY <1>1, <1>5 DEF Empty, Takes
<1>7. HeapFits(n)
  <2>1. HeapFits(m) /\ Len(m.blocks) \in Nat
    BY DEF MemOK, MemType
  <2>2. /\ Len(n.heap[l].items) <= n.heap[l].cap
        /\ n.heap[l].block \in 0..Len(n.blocks)
        /\ DOMAIN n.heap[l].items = {}
    BY <1>4, <1>6, <2>1
  <2>3. QED
    BY <1>4, <1>5, <2>1, <2>2 DEF HeapFits, OthersKept, ItemsIn
<1>8. Pooled(n) = Pooled(m) \ {l}
  <2>1. Pooled(n) = {pool[i] : i \in DOMAIN pool}
    BY <1>4 DEF Pooled
  <2>2. QED
    BY <1>1, <2>1 DEF Takes
<1>9. PoolFits(n)
  <2>1. \A i \in DOMAIN pool : pool[i] \in Pooled(m) /\ pool[i] # l
    BY <1>1 DEF Takes
  <2>2. \A x \in Pooled(m) :
          m.heap[x].used /\ m.heap[x].cap <= PoolCapacity /\ m.heap[x].block = NoBlock
    BY DEF MemOK, PoolFits, Pooled
  <2>3. \A i \in DOMAIN pool : n.heap[pool[i]] = m.heap[pool[i]]
    BY <1>1, <1>5, <2>1 DEF OthersKept, Takes
  <2>4. Len(pool) <= PoolMax
    BY <1>1 DEF MemOK, MemType, PoolFits, Takes
  <2>5. QED
    BY <1>1, <1>4, <2>1, <2>2, <2>3, <2>4 DEF PoolFits, Takes
<1>10. BlocksFit(n)
  <2>1. \A k \in ListIds : n.heap[k].block = m.heap[k].block
    BY <1>1, <1>3, <1>5, <1>6 DEF OthersKept, Takes
  <2>2. \A k \in ListIds : ~n.heap[k].used => ~m.heap[k].used \/ k = l
    BY <1>5, <1>6 DEF OthersKept
  <2>3. QED
    BY <1>4, <1>6, <2>1, <2>2 DEF BlocksFit, MemOK
<1>11. InUse(n) = InUse(m) \union {l}
  <2>1. \A k \in ListIds : n.heap[k].used <=> m.heap[k].used \/ k = l
    BY <1>5, <1>6 DEF OthersKept
  <2>2. QED
    BY <1>3, <1>8, <2>1 DEF InUse
<1>12. MemOK(n)
  BY <1>4, <1>7, <1>9, <1>10 DEF MemOK, RefsFit
<1>13. QED
  BY <1>1, <1>2, <1>3, <1>4, <1>5, <1>6, <1>11, <1>12 DEF Given, Takes

(* The three ways to change the memory.                                    *)
WithList(m, l, r) == [m EXCEPT !.heap[l] = r]
WithBlocks(m, blocks) == [m EXCEPT !.blocks = blocks]
WithPool(m, pool) == [m EXCEPT !.pool = pool]

LEMMA WithListIs ==
  ASSUME NEW m, NEW heap, NEW pool, NEW blocks, NEW l, NEW r,
         m = [heap |-> heap, pool |-> pool, blocks |-> blocks]
  PROVE  WithList(m, l, r) =
           [heap |-> [heap EXCEPT ![l] = r], pool |-> pool, blocks |-> blocks]
BY DEF WithList

LEMMA SetList ==
  ASSUME NEW m \in MemType, NEW l \in ListIds, NEW r \in ListType
  PROVE  LET n == WithList(m, l, r)
         IN  /\ n \in MemType /\ n.heap[l] = r /\ OthersKept(m, n, l)
             /\ n.pool = m.pool /\ n.blocks = m.blocks
<1> DEFINE n == WithList(m, l, r)
<1>1. /\ n.heap = [m.heap EXCEPT ![l] = r] /\ n.pool = m.pool
      /\ n.blocks = m.blocks
      /\ n = [heap |-> n.heap, pool |-> n.pool, blocks |-> n.blocks]
  <2>1. m = [heap |-> m.heap, pool |-> m.pool, blocks |-> m.blocks]
    BY DEF MemType
  <2>2. n = [heap |-> [m.heap EXCEPT ![l] = r], pool |-> m.pool, blocks |-> m.blocks]
    BY <2>1 DEF WithList
  <2> HIDE DEF n
  <2>3. QED
    BY <2>2
<1> HIDE DEF n
<1>2. /\ m.heap \in [ListIds -> ListType] /\ m.pool \in Seq(ListIds)
      /\ m.blocks \in Seq(BlockType)
  BY DEF MemType
<1>3. n.heap \in [ListIds -> ListType]
  BY <1>1, <1>2
<1>4. n \in MemType
  BY <1>1, <1>2, <1>3 DEF MemType
<1>5. QED
  BY <1>1, <1>2, <1>4 DEF OthersKept, n

LEMMA SetTwice ==
  ASSUME NEW m \in MemType, NEW l \in ListIds, NEW q, NEW r
  PROVE  WithList(WithList(m, l, q), l, r) = WithList(m, l, r)
<1> DEFINE h == [m.heap EXCEPT ![l] = q]
<1>1. /\ m = [heap |-> m.heap, pool |-> m.pool, blocks |-> m.blocks]
      /\ m.heap \in [ListIds -> ListType]
  BY DEF MemType
<1>2. WithList(m, l, q) = [heap |-> h, pool |-> m.pool, blocks |-> m.blocks]
  <2>1. m = [heap |-> m.heap, pool |-> m.pool, blocks |-> m.blocks]
    BY <1>1
  <2>2. QED
    BY <2>1 DEF WithList
<1>3. WithList(m, l, r) = [heap |-> [m.heap EXCEPT ![l] = r], pool |-> m.pool,
                           blocks |-> m.blocks]
  <2>1. m = [heap |-> m.heap, pool |-> m.pool, blocks |-> m.blocks]
    BY <1>1
  <2>2. QED
    BY <2>1 DEF WithList
<1>4. [h EXCEPT ![l] = r] = [m.heap EXCEPT ![l] = r]
  BY <1>1
<1> HIDE DEF h
<1>5. WithList([heap |-> h, pool |-> m.pool, blocks |-> m.blocks], l, r) =
        [heap |-> [h EXCEPT ![l] = r], pool |-> m.pool, blocks |-> m.blocks]
  BY DEF WithList
<1>6. QED
  BY <1>2, <1>3, <1>4, <1>5

LEMMA FillIs ==
  ASSUME NEW m \in MemType, NEW l \in ListIds, NEW items, NEW cap,
         cap = IF Len(items) <= m.heap[l].cap THEN m.heap[l].cap
               ELSE Normalized(Len(items)),
         NEW r, r = [m.heap[l] EXCEPT !.items = items, !.cap = cap]
  PROVE  Fill(m, l, items) = WithList(m, l, r)
<1>1. PICK heap, pool, blocks : m = [heap |-> heap, pool |-> pool, blocks |-> blocks]
                                  /\ heap \in [ListIds -> ListType]
  BY DEF MemType
<1>2. PICK x : x = heap[l] /\ DOMAIN x = {"used", "cap", "items", "block"}
                 /\ x = [x EXCEPT !.cap = x.cap]
  BY <1>1 DEF ListType
<1>3. Fill(m, l, items) =
        [heap |-> [heap EXCEPT ![l] = [x EXCEPT !.items = items, !.cap = cap]],
         pool |-> pool, blocks |-> blocks]
  <2>1. Fill(m, l, items) =
          [m EXCEPT !.heap = [heap EXCEPT ![l].items = items, ![l].cap = cap]]
    BY <1>1, <1>2 DEF Fill
  <2>2. [heap EXCEPT ![l].items = items, ![l].cap = cap] =
          [heap EXCEPT ![l] = [x EXCEPT !.items = items, !.cap = cap]]
    BY <1>1, <1>2
  <2>3. QED
    BY <1>1, <2>1, <2>2
<1>4. QED
  BY <1>1, <1>2, <1>3, WithListIs

LEMMA SetBlocks ==
  ASSUME NEW m \in MemType, NEW blocks \in Seq(BlockType)
  PROVE  LET n == WithBlocks(m, blocks)
         IN  /\ n \in MemType /\ n.heap = m.heap /\ n.pool = m.pool
             /\ n.blocks = blocks
BY DEF MemType, WithBlocks

LEMMA SetPool ==
  ASSUME NEW m \in MemType, NEW pool \in Seq(ListIds)
  PROVE  LET n == WithPool(m, pool)
         IN  /\ n \in MemType /\ n.heap = m.heap /\ n.pool = pool
             /\ n.blocks = m.blocks
BY DEF MemType, WithPool

(* Items are written into a list that is in use.                           *)
Written(m, n, l, items) ==
  /\ MemOK(n)
  /\ InUse(n) = InUse(m)
  /\ OthersKept(m, n, l)
  /\ n.heap[l].items = items
  /\ n.heap[l].block = m.heap[l].block
  /\ n.blocks = m.blocks

LEMMA ListInUse ==
  ASSUME NEW m, MemOK(m), NEW l \in InUse(m)
  PROVE  /\ m \in MemType /\ l \in ListIds /\ m.heap[l] \in ListType
         /\ m.heap[l].used /\ l \notin Pooled(m)
         /\ \A i \in DOMAIN m.heap[l].items : m.heap[l].items[i] \in ItemsIn(m)
         /\ Len(m.heap[l].items) <= m.heap[l].cap
<1>1. m \in MemType /\ HeapFits(m)
  BY DEF MemOK
<1>2. l \in ListIds /\ m.heap[l].used /\ l \notin Pooled(m)
  BY DEF InUse
<1>3. m.heap[l] \in ListType
  BY <1>1, <1>2 DEF MemType
<1>4. QED
  BY <1>1, <1>2, <1>3 DEF HeapFits

LEMMA WriteItems ==
  ASSUME NEW m, MemOK(m), NEW l \in InUse(m), NEW r \in ListType,
         r.used, r.block = m.heap[l].block, Len(r.items) <= r.cap,
         \A i \in DOMAIN r.items : r.items[i] \in ItemsIn(m)
  PROVE  Written(m, WithList(m, l, r), l, r.items)
<1> DEFINE n == WithList(m, l, r)
<1>1. /\ m \in MemType /\ l \in ListIds /\ m.heap[l].used /\ l \notin Pooled(m)
  BY ListInUse
<1>2. /\ n \in MemType /\ n.heap[l] = r /\ OthersKept(m, n, l)
      /\ n.pool = m.pool /\ n.blocks = m.blocks
  BY <1>1, SetList
<1> HIDE DEF n
<1>3. HeapFits(m) /\ RefsFit(m) /\ PoolFits(m) /\ BlocksFit(m)
  BY DEF MemOK
<1>4. HeapFits(n)
  BY <1>1, <1>2, <1>3 DEF HeapFits, OthersKept, ItemsIn
<1>5. Pooled(n) = Pooled(m)
  BY <1>2 DEF Pooled
<1>6. PoolFits(n)
  <2>1. \A i \in DOMAIN m.pool : m.pool[i] \in ListIds \ {l}
    BY <1>1 DEF Pooled, MemType
  <2>2. \A i \in DOMAIN m.pool : n.heap[m.pool[i]] = m.heap[m.pool[i]]
    BY <1>2, <2>1 DEF OthersKept
  <2>3. QED
    BY <1>2, <1>3, <2>2 DEF PoolFits
<1>7. \A k \in ListIds : /\ n.heap[k].block = m.heap[k].block
                         /\ n.heap[k].used = m.heap[k].used
  <2>1. m.heap[l].used = TRUE /\ r.used = TRUE
    BY ListInUse DEF ListType
  <2>2. QED
    BY <1>2, <2>1 DEF OthersKept
<1>8. BlocksFit(n)
  <2>1. \A k \in ListIds : ~n.heap[k].used => n.heap[k].block = NoBlock
    BY <1>3, <1>7 DEF BlocksFit
  <2>2. \A k, j \in ListIds :
          n.heap[k].block = n.heap[j].block /\ n.heap[j].block # NoBlock => k = j
    BY <1>3, <1>7 DEF BlocksFit
  <2>3. \A b \in DOMAIN n.blocks :
          n.blocks[b].live <=> \E k \in ListIds : n.heap[k].block = b
    BY <1>2, <1>3, <1>7 DEF BlocksFit
  <2>4. QED
    BY <2>1, <2>2, <2>3 DEF BlocksFit
<1>9. InUse(n) = InUse(m)
  BY <1>5, <1>7 DEF InUse
<1>10. MemOK(n)
  BY <1>2, <1>3, <1>4, <1>6, <1>8 DEF MemOK, RefsFit
<1>11. QED
  BY <1>2, <1>9, <1>10 DEF Written, n

(* push_back and list_reserve.                                             *)
LEMMA FillWrites ==
  ASSUME NEW m, MemOK(m), NEW l \in InUse(m), NEW items \in Seq(ItemsIn(m))
  PROVE  Written(m, Fill(m, l, items), l, items)
<1> DEFINE cap == IF Len(items) <= m.heap[l].cap THEN m.heap[l].cap
                  ELSE Normalized(Len(items))
           r == [m.heap[l] EXCEPT !.items = items, !.cap = cap]
<1>1. /\ m \in MemType /\ l \in ListIds /\ m.heap[l] \in ListType /\ m.heap[l].used
  BY ListInUse
<1>2. m.blocks \in Seq(BlockType) /\ m.heap \in [ListIds -> ListType]
  BY <1>1 DEF MemType
<1>3. items \in Seq(Int) /\ Len(items) \in Nat
  BY <1>2 DEF ItemsIn
<1>4. m.heap[l].cap \in Nat
  BY <1>1 DEF ListType
<1>5. cap \in Nat /\ Len(items) <= cap
  <2>1. Normalized(Len(items)) \in Nat /\ Normalized(Len(items)) >= Len(items)
    BY <1>3, NormalizedCovers
  <2>2. QED
    BY <1>3, <1>4, <2>1
<1>6. Fill(m, l, items) = WithList(m, l, r)
  BY <1>1, FillIs, Zenon
<1>7. /\ r \in ListType /\ r.used /\ r.block = m.heap[l].block
      /\ r.items = items /\ r.cap = cap
  <2> HIDE DEF cap
  <2> QED BY <1>1, <1>3, <1>5 DEF ListType
<1>8. \A i \in DOMAIN items : items[i] \in ItemsIn(m)
  OBVIOUS
<1>9. QED
  <2> HIDE DEF r, cap
  <2> QED BY <1>5, <1>6, <1>7, <1>8, WriteItems

LEMMA TailFacts ==
  ASSUME NEW S, NEW s \in Seq(S), s # << >>
  PROVE  /\ Tail(s) \in Seq(S) /\ Len(Tail(s)) = Len(s) - 1
         /\ \A i \in DOMAIN Tail(s) : Tail(s)[i] = s[i + 1] /\ i + 1 \in DOMAIN s
OBVIOUS

(* The drain loop takes out the first item.                                *)
LEMMA TailWrites ==
  ASSUME NEW m, MemOK(m), NEW l \in InUse(m), m.heap[l].items # << >>
  PROVE  Written(m, [m EXCEPT !.heap[l].items = Tail(@)], l,
                 Tail(m.heap[l].items))
<1> DEFINE items == Tail(m.heap[l].items)
           r == [m.heap[l] EXCEPT !.items = items]
<1>1. /\ m \in MemType /\ l \in ListIds /\ m.heap[l] \in ListType /\ m.heap[l].used
      /\ \A i \in DOMAIN m.heap[l].items : m.heap[l].items[i] \in ItemsIn(m)
      /\ Len(m.heap[l].items) <= m.heap[l].cap
  BY ListInUse
<1>2. m.heap[l].items \in Seq(Int) /\ m.heap[l].cap \in Nat
  BY <1>1 DEF ListType
<1>3. /\ items \in Seq(Int) /\ Len(items) <= m.heap[l].cap
      /\ \A i \in DOMAIN items : items[i] \in ItemsIn(m)
  <2> DEFINE s == m.heap[l].items
  <2>1. s \in Seq(Int) /\ s # << >>
    BY <1>2
  <2> HIDE DEF s
  <2>2. /\ Tail(s) \in Seq(Int) /\ Len(Tail(s)) = Len(s) - 1
        /\ \A i \in DOMAIN Tail(s) : Tail(s)[i] = s[i + 1] /\ i + 1 \in DOMAIN s
    BY <2>1, TailFacts
  <2>3. /\ items \in Seq(Int) /\ Len(items) = Len(m.heap[l].items) - 1
        /\ \A i \in DOMAIN items : /\ items[i] = m.heap[l].items[i + 1]
                                   /\ i + 1 \in DOMAIN m.heap[l].items
    BY <2>2 DEF s
  <2> HIDE DEF items
  <2>4. Len(m.heap[l].items) \in Nat
    BY <1>2
  <2>5. \A i \in DOMAIN items : items[i] \in ItemsIn(m)
    BY <1>1, <2>3
  <2>6. Len(items) <= m.heap[l].cap
    <3>1. PICK a, b, d : a = Len(items) /\ b = Len(m.heap[l].items) /\ d = m.heap[l].cap
      OBVIOUS
    <3>2. a = b - 1 /\ b \in Nat /\ d \in Nat /\ b <= d
      BY <1>1, <1>2, <2>3, <2>4, <3>1
    <3>3. a <= d
      BY <3>2
    <3>4. QED
      BY <3>1, <3>3
  <2>7. QED
    BY <2>3, <2>5, <2>6
<1>4. [m EXCEPT !.heap[l].items = Tail(@)] = WithList(m, l, r)
  BY <1>1 DEF WithList, MemType, ListType
<1>5. /\ r \in ListType /\ r.used /\ r.block = m.heap[l].block
      /\ r.items = items /\ r.cap = m.heap[l].cap
  <2> HIDE DEF items
  <2> QED BY <1>1, <1>3 DEF ListType
<1>6. QED
  <2> HIDE DEF r, items
  <2>1. Written(m, WithList(m, l, r), l, r.items)
    BY <1>3, <1>5, WriteItems
  <2>2. QED BY <1>4, <1>5, <2>1 DEF items

(* A block of pairs is allocated for a list that has none.                 *)
Paired(m, n, l, count, refs) ==
  /\ MemOK(n)
  /\ InUse(n) = InUse(m)
  /\ OthersKept(m, n, l)
  /\ IF count = 0 THEN n = m
     ELSE LET b == Len(m.blocks) + 1
          IN  /\ n.heap[l].items = [i \in 1..count |-> b]
              /\ n.heap[l].block = b
              /\ n.blocks = Append(m.blocks, [live |-> TRUE, refs |-> refs])

LEMMA FillPairsPairs ==
  ASSUME NEW m, MemOK(m), NEW l \in InUse(m), m.heap[l].block = NoBlock,
         NEW count \in Nat, NEW refs \in SUBSET DOMAIN m.blocks
  PROVE  Paired(m, FillPairs(m, l, count, refs), l, count, refs)
<1> DEFINE b == Len(m.blocks) + 1
           items == [i \in 1..count |-> b]
           block == [live |-> TRUE, refs |-> refs]
           cap == IF Len(items) <= m.heap[l].cap THEN m.heap[l].cap
                  ELSE Normalized(Len(items))
           r == [m.heap[l] EXCEPT !.items = items, !.cap = cap, !.block = b]
           h == WithList(m, l, r)
           n == WithBlocks(h, Append(m.blocks, block))
<1>1. l \in ListIds /\ m.heap[l] \in ListType /\ m.heap[l].used /\ l \notin Pooled(m)
  BY DEF InUse, MemOK, MemType
<1>2. /\ m.blocks \in Seq(BlockType) /\ Len(m.blocks) \in Nat /\ b \in Nat \ {0}
      /\ DOMAIN m.blocks = 1..Len(m.blocks) /\ block \in BlockType
  BY DEF MemOK, MemType, BlockType
<1>3. CASE count = 0
  BY <1>3 DEF FillPairs, Paired, OthersKept
<1>4. CASE count # 0
  <2>1. items \in Seq(Int) /\ Len(items) = count /\ \A i \in DOMAIN items : items[i] = b
    BY <1>2
  <2>2. cap \in Nat /\ count <= cap
    <3>1. m.heap[l].cap \in Nat
      BY <1>1 DEF ListType
    <3>2. Normalized(count) \in Nat /\ Normalized(count) >= count
      BY NormalizedCovers
    <3>3. QED
      BY <2>1, <3>1, <3>2
  <2>3. FillPairs(m, l, count, refs) = n
    <3>1. m \in MemType
      BY ListInUse
    <3> DEFINE q == [m.heap[l] EXCEPT !.items = items, !.cap = cap]
               f == WithList(m, l, q)
    <3>2. FillPairs(m, l, count, refs) =
            [f EXCEPT !.heap[l].block = b, !.blocks = Append(@, block)]
      <4>1. Fill(m, l, items) = f
        <5> HIDE DEF items, b
        <5> QED BY <1>1, <3>1, FillIs, Zenon
      <4> HIDE DEF f
      <4>2. QED
        BY <1>4, <4>1 DEF FillPairs
    <3> HIDE DEF items, cap, block, b
    <3>3. q \in ListType /\ r = [q EXCEPT !.block = b]
      BY <1>1, <2>1, <2>2 DEF ListType
    <3> HIDE DEF q, r
    <3>4. f \in MemType /\ f.heap[l] = q /\ f.blocks = m.blocks
      BY <1>1, <3>1, <3>3, SetList
    <3>5. WithList(f, l, r) = h
      BY <1>1, <3>1, SetTwice
    <3> HIDE DEF f, h
    <3>6. [f EXCEPT !.heap[l].block = b, !.blocks = Append(@, block)] =
            WithBlocks([f EXCEPT !.heap[l] = [@ EXCEPT !.block = b]],
                       Append(f.blocks, block))
      BY <3>4 DEF MemType, WithBlocks
    <3>7. [f EXCEPT !.heap[l] = [@ EXCEPT !.block = b]] = WithList(f, l, r)
      BY <3>3, <3>4 DEF WithList
    <3>8. QED
      BY <3>2, <3>4, <3>5, <3>6, <3>7
  <2> HIDE DEF items, cap, block
  <2>4. /\ r \in ListType /\ r.used /\ r.block = b /\ r.items = items /\ r.cap = cap
    BY <1>1, <1>2, <2>1, <2>2 DEF ListType
  <2> HIDE DEF r
  <2>5. /\ h \in MemType /\ h.heap[l] = r /\ OthersKept(m, h, l)
        /\ h.pool = m.pool /\ h.blocks = m.blocks
    <3>1. m \in MemType
      BY ListInUse
    <3>2. QED
      BY <1>1, <2>4, <3>1, SetList
  <2> HIDE DEF h
  <2>6. /\ n \in MemType /\ n.heap[l] = r /\ OthersKept(m, n, l)
        /\ n.pool = m.pool /\ n.blocks = Append(m.blocks, block)
    <3>1. Append(m.blocks, block) \in Seq(BlockType)
      BY <1>2
    <3>2. n \in MemType /\ n.heap = h.heap /\ n.pool = h.pool
          /\ n.blocks = Append(m.blocks, block)
      BY <2>5, <3>1, SetBlocks
    <3>3. QED
      BY <2>5, <3>2 DEF OthersKept
  <2> HIDE DEF n
  <2>7. /\ Len(n.blocks) = b /\ DOMAIN n.blocks = 1..b
        /\ DOMAIN m.blocks \subseteq DOMAIN n.blocks
        /\ \A k \in DOMAIN m.blocks : n.blocks[k] = m.blocks[k]
        /\ n.blocks[b] = block
    BY <1>2, <2>6
  <2>8. HeapFits(n)
    <3>1. /\ \A x \in ItemsIn(m) : x \in ItemsIn(n)
          /\ b \in ItemsIn(n) /\ b \in 0..Len(n.blocks)
          /\ \A x \in 0..Len(m.blocks) : x \in 0..Len(n.blocks)
      BY <1>2, <2>7 DEF ItemsIn
    <3>2. HeapFits(m)
      BY DEF MemOK
    <3>3. ASSUME NEW x \in ListIds, x # l
          PROVE  /\ Len(n.heap[x].items) <= n.heap[x].cap
                 /\ n.heap[x].block \in 0..Len(n.blocks)
                 /\ \A i \in DOMAIN n.heap[x].items : n.heap[x].items[i] \in ItemsIn(n)
      <4>1. n.heap[x] = m.heap[x]
        BY <2>6, <3>3 DEF OthersKept
      <4> HIDE DEF b
      <4>2. QED
        BY <3>1, <3>2, <4>1 DEF HeapFits
    <3>4. /\ Len(n.heap[l].items) <= n.heap[l].cap
          /\ n.heap[l].block \in 0..Len(n.blocks)
          /\ \A i \in DOMAIN n.heap[l].items : n.heap[l].items[i] \in ItemsIn(n)
      <4> HIDE DEF b
      <4> QED BY <2>1, <2>2, <2>4, <2>6, <3>1
    <3>5. QED
      <4> HIDE DEF b
      <4> QED BY <3>3, <3>4 DEF HeapFits
  <2>9. RefsFit(n)
    <3>1. block.refs = refs
      BY DEF block
    <3>2. \A k \in DOMAIN m.blocks : n.blocks[k].refs \subseteq DOMAIN m.blocks
      BY <2>7 DEF MemOK, RefsFit
    <3>3. \A k \in DOMAIN n.blocks : k \in DOMAIN m.blocks \/ k = b
      BY <1>2, <2>7
    <3>4. QED
      BY <2>7, <3>1, <3>2, <3>3 DEF RefsFit
  <2>10. Pooled(n) = Pooled(m)
    BY <2>6 DEF Pooled
  <2>11. PoolFits(n)
    <3>1. m \in MemType /\ PoolFits(m)
      BY DEF MemOK
    <3>2. \A i \in DOMAIN m.pool : m.pool[i] \in ListIds \ {l}
      BY <1>1, <3>1 DEF Pooled, MemType
    <3>3. \A i \in DOMAIN m.pool : n.heap[m.pool[i]] = m.heap[m.pool[i]]
      BY <2>6, <3>2 DEF OthersKept
    <3>4. QED
      BY <2>6, <3>1, <3>3 DEF PoolFits
  <2>12. BlocksFit(n)
    <3>1. /\ n.heap[l].block = b /\ n.heap[l].used
          /\ \A k \in ListIds \ {l} : /\ n.heap[k].block = m.heap[k].block
                                      /\ n.heap[k].used = m.heap[k].used
                                      /\ n.heap[k].block # b
      BY <1>1, <1>2, <2>4, <2>6 DEF OthersKept, MemOK, HeapFits
    <3>2. \A k \in DOMAIN n.blocks : n.blocks[k].live <=> \E x \in ListIds : n.heap[x].block = k
      <4>1. ASSUME NEW k \in DOMAIN m.blocks
            PROVE  n.blocks[k].live <=> \E x \in ListIds : n.heap[x].block = k
        <5>1. k # b /\ k # NoBlock
          BY <1>2
        <5>2. m.blocks[k].live <=> \E x \in ListIds : m.heap[x].block = k
          BY DEF MemOK, BlocksFit
        <5>3. QED
          BY <2>7, <3>1, <5>1, <5>2
      <4>2. n.blocks[b].live /\ \E x \in ListIds : n.heap[x].block = b
        BY <1>1, <2>7, <3>1 DEF block
      <4>3. \A k \in DOMAIN n.blocks : k \in DOMAIN m.blocks \/ k = b
        BY <1>2, <2>7
      <4>4. QED
        BY <4>1, <4>2, <4>3
    <3>3. QED
      BY <3>1, <3>2 DEF BlocksFit, MemOK
  <2>13. InUse(n) = InUse(m)
    <3>1. \A k \in ListIds : n.heap[k].used <=> m.heap[k].used
      BY <1>1, <2>4, <2>6 DEF OthersKept
    <3>2. QED
      BY <2>10, <3>1 DEF InUse
  <2>14. MemOK(n)
    BY <2>6, <2>8, <2>9, <2>11, <2>12 DEF MemOK
  <2>15. QED
    BY <1>4, <2>3, <2>4, <2>6, <2>13, <2>14 DEF Paired, items, block
<1>5. QED
  BY <1>3, <1>4

(* freelist: the list leaves, and so does the block it owns.               *)
Freed(m, n, l) ==
  /\ MemOK(n)
  /\ InUse(n) = InUse(m) \ {l}
  /\ OthersKept(m, n, l)
  /\ DOMAIN n.blocks = DOMAIN m.blocks /\ Len(n.blocks) = Len(m.blocks)
  /\ \A b \in DOMAIN m.blocks :
       /\ n.blocks[b].refs = m.blocks[b].refs
       /\ n.blocks[b].live <=> m.blocks[b].live /\ b # m.heap[l].block

LEMMA FreeListPools ==
  ASSUME NEW m, MemOK(m), NEW l \in InUse(m), m.heap[l].block = NoBlock,
         m.heap[l].cap <= PoolCapacity, Len(m.pool) < PoolMax
  PROVE  Freed(m, FreeList(m, l), l)
<1> DEFINE r == [m.heap[l] EXCEPT !.items = << >>]
           k == WithList(m, l, r)
           pool == Append(m.pool, l)
           n == WithPool(k, pool)
<1>1. /\ m \in MemType /\ l \in ListIds /\ m.heap[l] \in ListType /\ m.heap[l].used
      /\ l \notin Pooled(m)
  BY ListInUse
<1>2. FreeList(m, l) = n
  BY <1>1 DEF FreeList, WithList, WithPool, MemType, ListType
<1>3. /\ r \in ListType /\ r.items = << >> /\ r.used
      /\ r.block = NoBlock /\ r.cap = m.heap[l].cap /\ r.cap \in Nat
  <2>1. << >> \in Seq(Int)
    OBVIOUS
  <2>2. m.heap[l].cap \in Nat
    BY <1>1 DEF ListType
  <2>3. QED
    BY <1>1, <2>1, <2>2 DEF ListType
<1> HIDE DEF r
<1>4. /\ k \in MemType /\ k.heap[l] = r /\ OthersKept(m, k, l)
      /\ k.pool = m.pool /\ k.blocks = m.blocks
  BY <1>1, <1>3, SetList
<1> HIDE DEF k
<1>5. /\ m.pool \in Seq(ListIds) /\ pool \in Seq(ListIds)
      /\ Len(m.pool) \in Nat /\ Len(pool) = Len(m.pool) + 1
      /\ DOMAIN m.pool = 1..Len(m.pool) /\ DOMAIN pool = 1..(Len(m.pool) + 1)
      /\ \A i \in DOMAIN m.pool : pool[i] = m.pool[i]
      /\ pool[Len(m.pool) + 1] = l
  BY <1>1 DEF MemType
<1> HIDE DEF pool
<1>6. /\ n \in MemType /\ n.heap[l] = r /\ OthersKept(m, n, l)
      /\ n.pool = pool /\ n.blocks = m.blocks
  BY <1>4, <1>5, SetPool DEF OthersKept
<1> HIDE DEF n
<1>7. HeapFits(m) /\ RefsFit(m) /\ PoolFits(m) /\ BlocksFit(m)
  BY DEF MemOK
<1>8. HeapFits(n)
  <2>1. /\ Len(n.heap[l].items) <= n.heap[l].cap
        /\ n.heap[l].block \in 0..Len(n.blocks)
        /\ DOMAIN n.heap[l].items = {}
    BY <1>1, <1>3, <1>6 DEF MemType
  <2>2. QED
    BY <1>6, <1>7, <2>1 DEF HeapFits, OthersKept, ItemsIn
<1>9. \A i \in DOMAIN pool : \/ pool[i] = l /\ i = Len(m.pool) + 1
                             \/ i \in DOMAIN m.pool /\ pool[i] = m.pool[i]
  BY <1>5
<1>10. \A i \in DOMAIN m.pool : m.pool[i] \in ListIds \ {l}
  BY <1>1, <1>5 DEF Pooled
<1>11. PoolFits(n)
  <2>1. \A i \in DOMAIN m.pool : n.heap[m.pool[i]] = m.heap[m.pool[i]]
    BY <1>6, <1>10 DEF OthersKept
  <2>2. \A i, j \in DOMAIN pool : pool[i] = pool[j] => i = j
    BY <1>7, <1>9, <1>10 DEF PoolFits
  <2>3. \A i \in DOMAIN pool : /\ n.heap[pool[i]].used
                               /\ n.heap[pool[i]].cap <= PoolCapacity
                               /\ n.heap[pool[i]].block = NoBlock
    <3>1. /\ n.heap[l].used /\ n.heap[l].cap <= PoolCapacity
          /\ n.heap[l].block = NoBlock
      BY <1>3, <1>6
    <3>2. \A i \in DOMAIN m.pool : /\ n.heap[m.pool[i]].used
                                   /\ n.heap[m.pool[i]].cap <= PoolCapacity
                                   /\ n.heap[m.pool[i]].block = NoBlock
      BY <1>7, <2>1 DEF PoolFits
    <3>3. QED
      BY <1>9, <3>1, <3>2
  <2>4. Len(pool) <= PoolMax
    BY <1>5
  <2>5. QED
    BY <1>6, <2>2, <2>3, <2>4 DEF PoolFits
<1>12. \A x \in ListIds : /\ n.heap[x].block = m.heap[x].block
                          /\ n.heap[x].used <=> m.heap[x].used
  BY <1>1, <1>3, <1>6 DEF OthersKept
<1>13. BlocksFit(n)
  <2>1. BlocksFit(m) /\ n.blocks = m.blocks
    BY <1>6, <1>7
  <2>2. ASSUME NEW b
        PROVE  (\E x \in ListIds : n.heap[x].block = b)
                 <=> \E x \in ListIds : m.heap[x].block = b
    BY <1>12
  <2>3. \A b \in DOMAIN n.blocks :
          n.blocks[b].live <=> \E x \in ListIds : n.heap[x].block = b
    BY <2>1, <2>2 DEF BlocksFit
  <2>4. /\ \A x \in ListIds : ~n.heap[x].used => n.heap[x].block = NoBlock
        /\ \A z, x \in ListIds :
             n.heap[z].block = n.heap[x].block /\ n.heap[x].block # NoBlock => z = x
    BY <1>12, <2>1 DEF BlocksFit
  <2>5. QED
    BY <2>3, <2>4 DEF BlocksFit
<1>14. Pooled(n) = Pooled(m) \union {l}
  <2>1. \A i \in DOMAIN m.pool : i \in DOMAIN pool
    BY <1>5
  <2>2. Len(m.pool) + 1 \in DOMAIN pool
    BY <1>5
  <2>3. QED
    BY <1>5, <1>6, <1>9, <2>1, <2>2 DEF Pooled
<1>15. InUse(n) = InUse(m) \ {l}
  BY <1>12, <1>14 DEF InUse
<1>16. \A b \in DOMAIN m.blocks : b # m.heap[l].block
  BY <1>1 DEF MemType
<1>17. QED
  BY <1>2, <1>6, <1>7, <1>8, <1>11, <1>13, <1>15, <1>16
  DEF Freed, MemOK, RefsFit, n

LEMMA FreeListFrees ==
  ASSUME NEW m, MemOK(m), NEW l \in InUse(m)
  PROVE  Freed(m, FreeList(m, l), l)
<1> DEFINE b == m.heap[l].block
           k == WithList(m, l, Unused)
           blocks == IF b = NoBlock THEN m.blocks
                     ELSE [m.blocks EXCEPT ![b].live = FALSE]
           n == WithBlocks(k, blocks)
<1>1. /\ m \in MemType /\ l \in ListIds /\ m.heap[l] \in ListType /\ m.heap[l].used
      /\ l \notin Pooled(m)
  BY ListInUse
<1>2. CASE b = NoBlock /\ m.heap[l].cap <= PoolCapacity /\ Len(m.pool) < PoolMax
  BY <1>2, FreeListPools
<1>3. CASE ~(b = NoBlock /\ m.heap[l].cap <= PoolCapacity /\ Len(m.pool) < PoolMax)
  <2>1. FreeList(m, l) = n
    <3>1. m = [heap |-> m.heap, pool |-> m.pool, blocks |-> m.blocks]
      BY <1>1 DEF MemType
    <3>2. FreeList(m, l) = [m EXCEPT !.heap[l] = Unused, !.blocks = blocks]
      BY <1>3, <3>1 DEF FreeList
    <3> HIDE DEF blocks
    <3>3. QED
      BY <1>1, <3>2 DEF WithList, WithBlocks, MemType
  <2>2. HeapFits(m) /\ RefsFit(m) /\ PoolFits(m) /\ BlocksFit(m)
    BY DEF MemOK
  <2>3. Unused \in ListType
    BY DEF Unused, ListType
  <2>4. b \in 0..Len(m.blocks) /\ m.blocks \in Seq(BlockType)
    BY <1>1, <2>2 DEF HeapFits, MemType
  <2>5. /\ blocks \in Seq(BlockType) /\ Len(blocks) = Len(m.blocks)
        /\ DOMAIN blocks = DOMAIN m.blocks
        /\ \A x \in DOMAIN m.blocks :
             /\ blocks[x].refs = m.blocks[x].refs
             /\ blocks[x].live <=> m.blocks[x].live /\ x # b
    <3>1. CASE b = NoBlock
      BY <2>4, <3>1
    <3>2. CASE b # NoBlock
      <4>1. b \in DOMAIN m.blocks /\ m.blocks[b] \in BlockType
        BY <2>4, <3>2
      <4>2. [m.blocks[b] EXCEPT !.live = FALSE] \in BlockType
        BY <4>1 DEF BlockType
      <4> DEFINE y == [m.blocks[b] EXCEPT !.live = FALSE]
      <4>3. y.live = FALSE /\ y.refs = m.blocks[b].refs
        BY <4>1 DEF BlockType
      <4>4. blocks = [m.blocks EXCEPT ![b] = y]
        BY <2>4, <3>2
      <4> HIDE DEF blocks, y, b
      <4>5. blocks \in Seq(BlockType) /\ Len(blocks) = Len(m.blocks)
        BY <2>4, <4>1, <4>2, <4>4 DEF y
      <4>6. \A x \in DOMAIN m.blocks : blocks[x] = IF x = b THEN y ELSE m.blocks[x]
        BY <2>4, <4>1, <4>4
      <4>7. QED
        BY <2>4, <4>3, <4>5, <4>6
    <3>3. QED
      BY <3>1, <3>2
  <2> HIDE DEF blocks
  <2>6. /\ k \in MemType /\ k.heap[l] = Unused /\ OthersKept(m, k, l)
        /\ k.pool = m.pool /\ k.blocks = m.blocks
    <3>1. m \in MemType /\ l \in ListIds
      BY <1>1
    <3> HIDE DEF b
    <3>2. QED
      BY <2>3, <3>1, SetList
  <2> HIDE DEF k
  <2>7. /\ n \in MemType /\ n.heap[l] = Unused /\ OthersKept(m, n, l)
        /\ n.pool = m.pool /\ n.blocks = blocks
    BY <2>5, <2>6, SetBlocks DEF OthersKept
  <2> HIDE DEF n
  <2>8. /\ ~n.heap[l].used /\ n.heap[l].block = NoBlock
        /\ DOMAIN n.heap[l].items = {} /\ Len(n.heap[l].items) <= n.heap[l].cap
    BY <2>7 DEF Unused
  <2>9. HeapFits(n)
    <3>1. ItemsIn(n) = ItemsIn(m) /\ Len(n.blocks) = Len(m.blocks)
      BY <2>5, <2>7 DEF ItemsIn
    <3>2. Len(m.blocks) \in Nat
      BY <2>4
    <3>3. n.heap[l].block \in 0..Len(n.blocks)
      BY <2>8, <3>1, <3>2
    <3>4. \A i \in DOMAIN n.heap[l].items : n.heap[l].items[i] \in ItemsIn(n)
      BY <2>8
    <3>5. Len(n.blocks) = Len(m.blocks)
      BY <2>5, <2>7
    <3>6. ASSUME NEW x \in ListIds, x # l
          PROVE  /\ Len(n.heap[x].items) <= n.heap[x].cap
                 /\ n.heap[x].block \in 0..Len(n.blocks)
                 /\ \A i \in DOMAIN n.heap[x].items : n.heap[x].items[i] \in ItemsIn(n)
      <4>1. n.heap[x] = m.heap[x]
        BY <2>7, <3>6 DEF OthersKept
      <4>2. QED
        BY <2>2, <3>1, <3>5, <4>1 DEF HeapFits
    <3>7. QED
      BY <2>8, <3>3, <3>4, <3>6 DEF HeapFits
  <2>10. RefsFit(n)
    BY <2>2, <2>5, <2>7 DEF RefsFit
  <2>11. Pooled(n) = Pooled(m)
    BY <2>7 DEF Pooled
  <2>12. PoolFits(n)
    <3>1. \A i \in DOMAIN m.pool : m.pool[i] \in ListIds \ {l}
      BY <1>1 DEF Pooled, MemType
    <3>2. \A i \in DOMAIN m.pool : n.heap[m.pool[i]] = m.heap[m.pool[i]]
      BY <2>7, <3>1 DEF OthersKept
    <3>3. QED
      BY <2>2, <2>7, <3>2 DEF PoolFits
  <2>13. \A x \in ListIds \ {l} : /\ n.heap[x].block = m.heap[x].block
                                  /\ n.heap[x].used = m.heap[x].used
    BY <2>7 DEF OthersKept
  <2>14. BlocksFit(n)
    <3>1. \A x \in ListIds : ~n.heap[x].used => n.heap[x].block = NoBlock
      BY <2>2, <2>8, <2>13 DEF BlocksFit
    <3>2. \A x, y \in ListIds :
            n.heap[x].block = n.heap[y].block /\ n.heap[y].block # NoBlock => x = y
      BY <2>2, <2>8, <2>13 DEF BlocksFit
    <3>3. ASSUME NEW x \in DOMAIN n.blocks
          PROVE  n.blocks[x].live <=> \E y \in ListIds : n.heap[y].block = x
      <4>1. x \in DOMAIN m.blocks /\ x # NoBlock
        BY <2>4, <2>5, <2>7
      <4>2. m.blocks[x].live <=> \E y \in ListIds : m.heap[y].block = x
        BY <2>2, <4>1 DEF BlocksFit
      <4>3. n.blocks[x].live <=> m.blocks[x].live /\ x # b
        BY <2>5, <2>7, <4>1
      <4>4. \A y \in ListIds : m.heap[y].block = b /\ b # NoBlock => y = l
        BY <1>1, <2>2 DEF BlocksFit
      <4>5. QED
        BY <1>1, <2>8, <2>13, <4>1, <4>2, <4>3, <4>4
    <3>4. QED
      BY <3>1, <3>2, <3>3 DEF BlocksFit
  <2>15. InUse(n) = InUse(m) \ {l}
    BY <2>8, <2>11, <2>13 DEF InUse
  <2>16. MemOK(n)
    BY <2>7, <2>9, <2>10, <2>12, <2>14 DEF MemOK
  <2>17. QED
    BY <2>1, <2>5, <2>7, <2>15, <2>16 DEF Freed
<1>4. QED
  BY <1>2, <1>3

(* A new list l with its items, or with pairs in a block of its own.       *)
Makes(m, n, l) ==
  /\ MemOK(n)
  /\ l \in ListIds /\ l \notin InUse(m)
  /\ InUse(n) = InUse(m) \union {l}
  /\ OthersKept(m, n, l)

LEMMA MakesItems ==
  ASSUME NEW m, MemOK(m), NEW c \in Nat, Fresh(m) # {},
         NEW items \in Seq(ItemsIn(m))
  PROVE  LET new == InitList(m, c)
             n == Fill(new.mem, new.list, items)
         IN  /\ Makes(m, n, new.list)
             /\ n.heap[new.list].items = items
             /\ n.heap[new.list].block = NoBlock
             /\ n.blocks = m.blocks
<1> DEFINE new == InitList(m, c)
           n == Fill(new.mem, new.list, items)
<1>1. Given(m, new)
  BY InitListGives
<1> HIDE DEF new
<1>2. new.list \in InUse(new.mem) /\ MemOK(new.mem)
  BY <1>1 DEF Given
<1>3. items \in Seq(ItemsIn(new.mem))
  BY <1>1 DEF Given, ItemsIn
<1>4. Written(new.mem, n, new.list, items)
  BY <1>2, <1>3, FillWrites
<1> HIDE DEF n
<1>5. OthersKept(m, n, new.list)
  BY <1>1, <1>4 DEF Given, Written, OthersKept
<1>6. QED
  BY <1>1, <1>4, <1>5 DEF Given, Written, Makes, n, new

MakesWithPairs(m, n, l, count, refs) ==
  LET b == Len(m.blocks) + 1
  IN  /\ Makes(m, n, l)
      /\ count = 0 => /\ n.heap[l].items = << >>
                      /\ n.heap[l].block = NoBlock
                      /\ n.blocks = m.blocks
      /\ count # 0 => /\ n.heap[l].items = [i \in 1..count |-> b]
                      /\ n.heap[l].block = b
                      /\ n.blocks = Append(m.blocks, [live |-> TRUE, refs |-> refs])

LEMMA MakesPairs ==
  ASSUME NEW m, MemOK(m), NEW c \in Nat, Fresh(m) # {},
         NEW count \in Nat, NEW refs \in SUBSET DOMAIN m.blocks
  PROVE  MakesWithPairs(m, FillPairs(InitList(m, c).mem, InitList(m, c).list,
                                     count, refs),
                        InitList(m, c).list, count, refs)
<1> DEFINE new == InitList(m, c)
           l == new.list
           n == FillPairs(new.mem, l, count, refs)
<1>1. Given(m, new)
  BY InitListGives
<1> HIDE DEF new
<1>2. /\ l \in InUse(new.mem) /\ MemOK(new.mem) /\ new.mem.heap[l].block = NoBlock
      /\ new.mem.blocks = m.blocks
  BY <1>1 DEF Given
<1>3. refs \in SUBSET DOMAIN new.mem.blocks
  BY <1>2
<1>4. Paired(new.mem, n, l, count, refs)
  BY <1>2, <1>3, FillPairsPairs
<1> HIDE DEF n
<1>5. OthersKept(m, n, l)
  BY <1>1, <1>4 DEF Given, Paired, OthersKept
<1>6. Makes(m, n, l)
  BY <1>1, <1>4, <1>5 DEF Given, Paired, Makes
<1>7. QED
  BY <1>1, <1>2, <1>4, <1>6 DEF Given, Paired, MakesWithPairs, n, new

(* What mergemap_apply may point into is allocated or was.                 *)
MergeRefs(m, l, outer) ==
  Pointed(m, outer) \union
    IF m.heap[l].block = NoBlock THEN Pointed(m, l)
    ELSE UNION {m.blocks[b].refs : b \in Pointed(m, l)}

LEMMA ActiveItems ==
  ASSUME NEW m, MemOK(m), NEW l \in ListIds
  PROVE  /\ Active(m, l) \in Seq(ItemsIn(m)) /\ Len(Active(m, l)) \in Nat
         /\ Len(Active(m, l)) <= Len(Items(m, l))
         /\ \A i \in DOMAIN Active(m, l) :
              i \in DOMAIN Items(m, l) /\ Active(m, l)[i] = Items(m, l)[i]
         /\ Pointed(m, l) \subseteq DOMAIN m.blocks
<1> DEFINE s == Items(m, l)
<1>1. s \in Seq(Int) /\ \A i \in DOMAIN s : s[i] \in ItemsIn(m)
  BY DEF MemOK, MemType, ListType, HeapFits, Items
<1>2. s \in Seq(ItemsIn(m))
  <2> HIDE DEF s
  <2> QED BY <1>1
<1>3. Active(m, l) = s \/ (s # << >> /\ Active(m, l) = Front(s))
  BY DEF Active
<1> HIDE DEF s
<1>4. ASSUME s # << >>
      PROVE  /\ Front(s) \in Seq(ItemsIn(m)) /\ Len(Front(s)) = Len(s) - 1
             /\ \A i \in DOMAIN Front(s) : i \in DOMAIN s /\ Front(s)[i] = s[i]
  <2>1. Len(s) \in Nat \ {0} /\ DOMAIN s = 1..Len(s)
    BY <1>2, <1>4
  <2>2. /\ Front(s) \in Seq(ItemsIn(m)) /\ Len(Front(s)) = Len(s) - 1
        /\ \A i \in 1..(Len(s) - 1) : Front(s)[i] = s[i]
    BY <1>2, <2>1 DEF Front
  <2>3. DOMAIN Front(s) = 1..(Len(s) - 1)
    BY <2>1, <2>2
  <2>4. QED
    BY <2>1, <2>2, <2>3
<1>5. /\ Active(m, l) \in Seq(ItemsIn(m)) /\ Len(Active(m, l)) \in Nat
      /\ Len(Active(m, l)) <= Len(s)
      /\ \A i \in DOMAIN Active(m, l) : i \in DOMAIN s /\ Active(m, l)[i] = s[i]
  BY <1>2, <1>3, <1>4
<1>6. Pointed(m, l) \subseteq DOMAIN m.blocks
  BY <1>5 DEF Pointed, ToSet, ItemsIn
<1>7. QED
  BY <1>5, <1>6 DEF s

LEMMA MergeMapMakes ==
  ASSUME NEW m, MemOK(m), Fresh(m) # {}, NEW l \in ListIds, NEW outer \in ListIds
  PROVE  LET new == MergeMap(m, l, outer)
             count == Len(Active(m, outer)) * Len(Active(m, l))
         IN  /\ MakesWithPairs(m, new.mem, new.list, count, MergeRefs(m, l, outer))
             /\ count \in Nat
             /\ MergeRefs(m, l, outer) \subseteq DOMAIN m.blocks
<1> DEFINE count == Len(Active(m, outer)) * Len(Active(m, l))
           refs == MergeRefs(m, l, outer)
           take == InitList(m, 2)
<1>1. count \in Nat
  BY ActiveItems
<1>2. Pointed(m, l) \subseteq DOMAIN m.blocks /\ Pointed(m, outer) \subseteq DOMAIN m.blocks
  BY ActiveItems
<1>3. refs \subseteq DOMAIN m.blocks
  <2>1. \A x \in Pointed(m, l) : m.blocks[x].refs \subseteq DOMAIN m.blocks
    BY <1>2 DEF MemOK, RefsFit
  <2>2. QED
    BY <1>2, <2>1 DEF MergeRefs
<1>4. MergeMap(m, l, outer) =
        [list |-> take.list, mem |-> FillPairs(take.mem, take.list, count, refs)]
  <2>1. refs = (IF m.heap[l].block = NoBlock THEN Pointed(m, l)
                ELSE UNION {m.blocks[b].refs : b \in Pointed(m, l)})
                 \union Pointed(m, outer)
    BY DEF MergeRefs
  <2>2. QED
    BY <2>1 DEF MergeMap
<1> HIDE DEF count, refs
<1>5. MergeMap(m, l, outer).list = take.list
      /\ MergeMap(m, l, outer).mem = FillPairs(take.mem, take.list, count, refs)
  BY <1>4
<1>6. QED
  <2>1. MakesWithPairs(m, FillPairs(take.mem, take.list, count, refs), take.list,
                       count, refs)
    BY <1>1, <1>3, MakesPairs
  <2>2. QED
    BY <1>1, <1>3, <1>5, <2>1 DEF count, refs

-----------------------------------------------------------------------------
(***************************************************************************)
(* The inductive invariant: the types, what the calls under way have in    *)
(* common, and who holds which list.                                       *)
(***************************************************************************)
ObsType ==
  [data : ListIds \union {NoList}, links : Seq(ListIds), pairs : BOOLEAN,
   chain : Chains \union {<< >>}, outer : ObsIds \union {NoList},
   complete : BOOLEAN]

FrameType ==
  [call : {"pipe", "pop_all"}, o : ObsIds, list : ListIds \union {NoList},
   left : Seq(Ops), at : Nat]

StateType ==
  /\ obs \in [ObsIds -> ObsType]
  /\ frames \in Seq(FrameType)
  /\ lent \subseteq Made /\ strayed \subseteq Made
  /\ pushes \in 0..MaxPushes
  /\ Len(mem.blocks) <= MaxBlocks

ChainsGiven ==
  \A o \in Made : "mergeMap" \in ToSet(obs[o].chain) => obs[o].outer \in lent

(* Only the innermost call works; the others wait in a callback.           *)
FrameFits(f, observables) ==
  /\ observables[f.o].data # NoList
  /\ f.call = "pipe" => f.left # << >> /\ f.at = 0
  /\ f.call = "pop_all" =>
       /\ f.list \in ListIds
       /\ ToSet(f.left) \subseteq ToSet(observables[f.o].chain)

FramesFit ==
  \A i \in DOMAIN frames : /\ FrameFits(frames[i], obs)
                           /\ i # Len(frames) => frames[i].at # 0

OneCallEach == \A i, j \in Draining : frames[i].o = frames[j].o => i = j

(* Once the stages are applied, the generic path drains the data.          *)
DrainsData ==
  \A i \in Draining :
    LET o == frames[i].o
    IN  frames[i].left = << >> /\ ~MergeStreams(obs[o].chain)
          => obs[o].data = frames[i].list

(* The list o works on, its data when no pop_all of it is under way.       *)
Works(o, l) == \E i \in Draining : frames[i].o = o /\ frames[i].list = l
Current(o, l) == Works(o, l) \/ (o \notin Running /\ l = obs[o].data)

Held == [o \in ObsIds |-> IF o \in Made THEN HeldBy(o) ELSE {}]

(* The lists in use are divided among the observables.                     *)
Divided(held, used) ==
  /\ \A o \in ObsIds : held[o] \subseteq used
  /\ \A l \in used : \E o \in ObsIds : l \in held[o]
  /\ \A o1, o2 \in ObsIds : \A l \in held[o1] : l \in held[o2] => o1 = o2

LinksApart == \A o \in Made : \A l : Current(o, l) => l \notin ToSet(obs[o].links)

Inv ==
  /\ MemOK(mem) /\ StateType /\ ChainsGiven
  /\ FramesFit /\ OneCallEach /\ DrainsData
  /\ Divided(Held, InUse(mem)) /\ LinksApart

(* After the token nothing else comes.                                     *)
DoneLast(s) == \A i, j \in DOMAIN s : i < j /\ s[i] = Done => s[j] = Done

-----------------------------------------------------------------------------
(***************************************************************************)
(* What the actions have in common.                                        *)
(***************************************************************************)
LEMMA AppendAdds ==
  ASSUME NEW S, NEW s \in Seq(S), NEW x \in S
  PROVE  /\ Append(s, x) \in Seq(S) /\ ToSet(Append(s, x)) = ToSet(s) \union {x}
         /\ Len(Append(s, x)) = Len(s) + 1 /\ Len(s) \in Nat
         /\ DOMAIN s = 1..Len(s) /\ DOMAIN Append(s, x) = 1..(Len(s) + 1)
         /\ \A i \in 1..Len(s) : Append(s, x)[i] = s[i]
         /\ Append(s, x)[Len(s) + 1] = x
<1>1. /\ Append(s, x) \in Seq(S)
      /\ Len(Append(s, x)) = Len(s) + 1 /\ Len(s) \in Nat
      /\ DOMAIN s = 1..Len(s) /\ DOMAIN Append(s, x) = 1..(Len(s) + 1)
      /\ \A i \in 1..Len(s) : Append(s, x)[i] = s[i]
      /\ Append(s, x)[Len(s) + 1] = x
  OBVIOUS
<1>2. ToSet(Append(s, x)) = ToSet(s) \union {x}
  <2>1. \A i \in 1..(Len(s) + 1) : i \in 1..Len(s) \/ i = Len(s) + 1
    BY <1>1
  <2>2. 1..Len(s) \subseteq 1..(Len(s) + 1) /\ Len(s) + 1 \in 1..(Len(s) + 1)
    BY <1>1
  <2>3. QED
    BY <1>1, <2>1, <2>2 DEF ToSet
<1>3. QED
  BY <1>1, <1>2

(* An observable gets a list that was nobody's.                            *)
Gains(held, held2, o, l) ==
  \A p \in ObsIds : held2[p] = IF p = o THEN held[p] \union {l} ELSE held[p]

LEMMA DividedGains ==
  ASSUME NEW held, NEW held2, NEW used, NEW o \in ObsIds, NEW l,
         Divided(held, used), l \notin used, Gains(held, held2, o, l)
  PROVE  Divided(held2, used \union {l})
<1>1. /\ \A p \in ObsIds : \A x : x \in held[p] => x \in used
      /\ \A x \in used : \E p \in ObsIds : x \in held[p]
      /\ \A o1, o2 \in ObsIds : \A x : x \in held[o1] /\ x \in held[o2] => o1 = o2
  BY DEF Divided
<1>2. \A p \in ObsIds : \A x : x \in held2[p] <=> (p = o /\ x = l) \/ x \in held[p]
  BY DEF Gains
<1>3. QED
  BY <1>1, <1>2 DEF Divided

(* One of its lists is replaced by such a one.                             *)
Swaps(held, held2, o, l, old) ==
  \A p \in ObsIds : held2[p] = IF p = o THEN (held[p] \ {old}) \union {l}
                               ELSE held[p]

LEMMA DividedSwaps ==
  ASSUME NEW held, NEW held2, NEW used, NEW o \in ObsIds, NEW l, NEW old,
         Divided(held, used), l \notin used \ {old}, old \in held[o],
         Swaps(held, held2, o, l, old)
  PROVE  Divided(held2, (used \ {old}) \union {l})
<1> DEFINE left == (used \ {old}) \union {l}
<1>0. /\ \A p \in ObsIds : \A x : x \in held[p] => x \in used
      /\ \A x \in used : \E p \in ObsIds : x \in held[p]
      /\ \A o1, o2 \in ObsIds : \A x : x \in held[o1] /\ x \in held[o2] => o1 = o2
  BY DEF Divided
<1>4. \A p \in ObsIds : \A x : x \in held2[p] <=>
        \/ p = o /\ x = l
        \/ x \in held[p] /\ x # old
  <2>1. \A p \in ObsIds : p # o => old \notin held[p]
    BY <1>0
  <2>2. \A x : x \in held2[o] <=> x = l \/ (x \in held[o] /\ x # old)
    BY <1>0 DEF Swaps
  <2>3. \A p \in ObsIds : p # o => held2[p] = held[p]
    BY DEF Swaps
  <2>4. QED
    BY <2>1, <2>2, <2>3
<1>1. \A p \in ObsIds : held2[p] \subseteq left
  BY <1>0, <1>4
<1>2. \A x \in left : \E p \in ObsIds : x \in held2[p]
  BY <1>0, <1>4
<1>3. \A o1, o2 \in ObsIds : \A x \in held2[o1] : x \in held2[o2] => o1 = o2
  BY <1>0, <1>4
<1>5. QED
  BY <1>1, <1>2, <1>3 DEF Divided

LEMMA DividedStays ==
  ASSUME NEW held, NEW held2, NEW used,
         Divided(held, used), \A p \in ObsIds : held2[p] = held[p]
  PROVE  Divided(held2, used)
<1>1. \A p \in ObsIds : held2[p] \subseteq used
  BY DEF Divided
<1>2. \A x \in used : \E p \in ObsIds : x \in held2[p]
  BY DEF Divided
<1>3. \A o1, o2 \in ObsIds : \A x \in held2[o1] : x \in held2[o2] => o1 = o2
  BY DEF Divided
<1>4. QED
  BY <1>1, <1>2, <1>3 DEF Divided

(* HeldBy, list by list.                                                   *)
LEMMA HeldIs ==
  /\ \A o \in ObsIds : \A l :
       l \in Held[o] <=> o \in Made /\ (l \in ToSet(obs[o].links) \/ Current(o, l))
  /\ \A o \in ObsIds : \A l :
       l \in Held'[o] <=> o \in Made' /\ (l \in ToSet(obs'[o].links) \/ Current(o, l)')
<1>1. \A o \in ObsIds : \A l :
        l \in Held[o] <=> o \in Made /\ (l \in ToSet(obs[o].links) \/ Current(o, l))
  BY DEF Held, HeldBy, Current, Works, Running
<1>2. \A o \in ObsIds : \A l :
        l \in Held'[o] <=> o \in Made' /\ (l \in ToSet(obs'[o].links) \/ Current(o, l)')
  BY DEF Held, HeldBy, Current, Works, Running
<1>3. QED
  BY <1>1, <1>2

(* The list somebody works on is held by him, and so it is in use.         *)
LEMMA CurrentInUse ==
  ASSUME Divided(Held, InUse(mem)), NEW o \in Made, NEW l, Current(o, l)
  PROVE  l \in InUse(mem) /\ l \in Held[o] /\ o \in ObsIds
<1>1. o \in ObsIds
  BY DEF Made
<1>2. l \in Held[o]
  BY <1>1, HeldIs
<1>3. QED
  BY <1>1, <1>2 DEF Divided

(* A call that waits or works on as before.                                *)
CallsKept ==
  /\ Draining' = Draining
  /\ \A i \in Draining : /\ frames'[i].o = frames[i].o
                         /\ frames'[i].list = frames[i].list
                         /\ frames'[i].left = frames[i].left

LEMMA CallsKeptAre ==
  ASSUME CallsKept
  PROVE  /\ Running' = Running
         /\ \A o, l : Works(o, l)' <=> Works(o, l)
         /\ OneCallEach => OneCallEach'
<1>1. Running' = Running
  BY DEF CallsKept, Running
<1>2. \A o, l : Works(o, l)' <=> Works(o, l)
  BY DEF CallsKept, Works
<1>3. OneCallEach => OneCallEach'
  BY DEF CallsKept, OneCallEach
<1>4. QED
  BY <1>1, <1>2, <1>3

LEMMA FramesTyped ==
  ASSUME frames \in Seq(FrameType)
  PROVE  /\ Len(frames) \in Nat /\ DOMAIN frames = 1..Len(frames)
         /\ \A i \in DOMAIN frames :
              /\ frames[i] \in FrameType /\ frames[i].o \in ObsIds
              /\ frames[i].left \in Seq(Ops) /\ frames[i].at \in Nat
<1>1. /\ Len(frames) \in Nat /\ DOMAIN frames = 1..Len(frames)
      /\ \A i \in DOMAIN frames : frames[i] \in FrameType
  OBVIOUS
<1>2. \A f \in FrameType : f.o \in ObsIds /\ f.left \in Seq(Ops) /\ f.at \in Nat
  BY DEF FrameType
<1>3. QED
  BY <1>1, <1>2

LEMMA FramesPushed ==
  ASSUME frames \in Seq(FrameType), FramesFit, Callable,
         NEW f \in FrameType, frames' = Append(frames, f)
  PROVE  /\ frames' \in Seq(FrameType) /\ Len(frames') = Len(frames) + 1
         /\ Len(frames) \in Nat
         /\ DOMAIN frames = 1..Len(frames) /\ DOMAIN frames' = 1..(Len(frames) + 1)
         /\ \A i \in DOMAIN frames : frames'[i] = frames[i] /\ frames[i].at # 0
         /\ frames'[Len(frames) + 1] = f
<1>1. /\ frames' \in Seq(FrameType) /\ Len(frames') = Len(frames) + 1
      /\ Len(frames) \in Nat
      /\ DOMAIN frames = 1..Len(frames) /\ DOMAIN frames' = 1..(Len(frames) + 1)
      /\ \A i \in 1..Len(frames) : frames'[i] = frames[i]
      /\ frames'[Len(frames) + 1] = f
  BY AppendAdds
<1>2. ASSUME NEW i \in DOMAIN frames PROVE frames[i].at # 0
  <2>1. CASE i # Len(frames)
    BY <2>1 DEF FramesFit
  <2>2. CASE i = Len(frames)
    <3>1. frames # << >> /\ Top = frames[i]
      BY <2>2 DEF Top, Last
    <3>2. QED
      BY <3>1 DEF Callable
  <2>3. QED
    BY <2>1, <2>2
<1>3. QED
  BY <1>1, <1>2

(* The observable made is o.                                               *)
LEMMA MakeKeepsInv ==
  ASSUME Inv, NEW o \in ObsIds, o \notin Made, Callable,
         NEW d, Makes(mem, d.mem, d.list), Len(d.mem.blocks) <= MaxBlocks,
         NEW pairs \in BOOLEAN, NEW arg \in Arguments,
         NEW lend, lend \ {NoList} \subseteq Made, arg[2] \in lend,
         Make(o, d, pairs, arg, lend)
  PROVE  Inv'
<1> DEFINE rec == [data |-> d.list, links |-> << >>, pairs |-> pairs,
                   chain |-> arg[1], outer |-> arg[2], complete |-> FALSE]
           f == Frame("pipe", o, NoList, arg[1])
<1>1. /\ mem' = d.mem /\ obs' = [obs EXCEPT ![o] = rec]
      /\ lent' = lent \union (lend \ {NoList})
      /\ frames' = IF arg[1] = << >> THEN frames ELSE Append(frames, f)
      /\ strayed' = strayed /\ pushes' = pushes
  BY DEF Make
<1>2. /\ MemOK(d.mem) /\ d.list \in ListIds /\ d.list \notin InUse(mem)
      /\ InUse(d.mem) = InUse(mem) \union {d.list}
  BY DEF Makes
<1>3. /\ arg[1] \in Chains /\ arg[1] \in Seq(Ops) /\ arg[2] \in ObsIds \union {NoList}
      /\ "mergeMap" \in ToSet(arg[1]) => arg[2] \in Made
  BY DEF Arguments
<1>4. /\ obs \in [ObsIds -> ObsType] /\ frames \in Seq(FrameType)
      /\ lent \subseteq Made /\ strayed \subseteq Made /\ pushes \in 0..MaxPushes
  BY DEF Inv, StateType
<1>5. rec \in ObsType /\ f \in FrameType
  BY <1>2, <1>3 DEF ObsType, FrameType, Frame
<1>6. /\ obs' \in [ObsIds -> ObsType] /\ obs'[o] = rec
      /\ \A p \in ObsIds \ {o} : obs'[p] = obs[p]
  <2> HIDE DEF rec
  <2> QED BY <1>1, <1>4, <1>5
<1>7. Made' = Made \union {o}
  <2>1. obs'[o].data = d.list /\ d.list # NoList
    BY <1>2, <1>6
  <2>2. QED
    BY <1>6, <2>1 DEF Made
<1>8. FramesFit /\ OneCallEach /\ DrainsData /\ LinksApart /\ ChainsGiven
      /\ Divided(Held, InUse(mem))
  BY DEF Inv
<1>9. o \notin Running
  BY <1>8 DEF Running, Draining, FramesFit, FrameFits, Made
<1>10. /\ frames' \in Seq(FrameType)
       /\ \A i \in DOMAIN frames : /\ i \in DOMAIN frames' /\ frames'[i] = frames[i]
                                   /\ i # Len(frames') => frames[i].at # 0
       /\ \A i \in DOMAIN frames' : \/ i \in DOMAIN frames
                                    \/ frames'[i] = f /\ i = Len(frames') /\ arg[1] # << >>
  <2>1. CASE arg[1] = << >>
    <3>1. frames' = frames
      BY <1>1, <2>1
    <3>2. \A i \in DOMAIN frames : i # Len(frames) => frames[i].at # 0
      BY <1>8 DEF FramesFit
    <3>3. QED
      BY <1>4, <3>1, <3>2
  <2>2. CASE arg[1] # << >>
    <3> HIDE DEF f
    <3>1. frames' = Append(frames, f)
      BY <1>1, <2>2
    <3>2. /\ frames' \in Seq(FrameType) /\ Len(frames') = Len(frames) + 1
          /\ Len(frames) \in Nat
          /\ DOMAIN frames = 1..Len(frames) /\ DOMAIN frames' = 1..(Len(frames) + 1)
          /\ \A i \in DOMAIN frames : frames'[i] = frames[i] /\ frames[i].at # 0
          /\ frames'[Len(frames) + 1] = f
      BY <1>4, <1>5, <1>8, <3>1, FramesPushed
    <3>3. \A i \in 1..(Len(frames) + 1) : i \in 1..Len(frames) \/ i = Len(frames) + 1
      BY <3>2
    <3>4. QED
      BY <2>2, <3>2, <3>3
  <2>3. QED
    BY <2>1, <2>2
<1>11. CallsKept
  <2>1. f.call = "pipe"
    BY DEF Frame
  <2> HIDE DEF f
  <2>2. QED
    BY <1>10, <2>1 DEF CallsKept, Draining
<1>12. /\ Running' = Running /\ OneCallEach'
       /\ \A p, l : Works(p, l)' <=> Works(p, l)
  BY <1>8, <1>11, CallsKeptAre
<1>13. \A p \in ObsIds : \A l :
         Current(p, l)' <=> IF p = o THEN l = d.list ELSE Current(p, l)
  <2>1. \A l : ~Works(o, l)
    BY <1>9 DEF Works, Running
  <2>2. obs'[o].data = d.list
    BY <1>6
  <2>3. QED
    BY <1>6, <1>9, <1>12, <2>1, <2>2 DEF Current
<1>14. obs'[o].links = << >> /\ ToSet(obs'[o].links) = {}
  BY <1>6 DEF ToSet
<1>15. Divided(Held, InUse(mem))'
  <2>1. \A p \in ObsIds : Held'[p] = IF p = o THEN Held[p] \union {d.list} ELSE Held[p]
    <3>1. \A p \in ObsIds : \A l :
            l \in Held[p] <=> p \in Made /\ (l \in ToSet(obs[p].links) \/ Current(p, l))
      BY HeldIs
    <3>2. \A p \in ObsIds : \A l :
            l \in Held'[p] <=> p \in Made' /\ (l \in ToSet(obs'[p].links) \/ Current(p, l)')
      BY HeldIs
    <3>3. ASSUME NEW p \in ObsIds, p = o PROVE Held'[p] = Held[p] \union {d.list}
      BY <1>7, <1>13, <1>14, <3>1, <3>2, <3>3
    <3>4. ASSUME NEW p \in ObsIds, p # o PROVE Held'[p] = Held[p]
      BY <1>6, <1>7, <1>13, <3>1, <3>2, <3>4
    <3>5. QED
      BY <3>3, <3>4
  <2> DEFINE h == Held
             h2 == Held'
             used == InUse(mem)
  <2>2. Divided(h2, used \union {d.list})
    <3>1. /\ Divided(h, used) /\ d.list \notin used
          /\ Gains(h, h2, o, d.list)
      BY <1>2, <1>8, <2>1 DEF Gains
    <3> HIDE DEF h, h2, used
    <3>2. QED
      BY <3>1, DividedGains
  <2>3. QED
    BY <1>1, <1>2, <2>2
<1>16. LinksApart'
  BY <1>6, <1>7, <1>8, <1>13, <1>14 DEF LinksApart, Made
<1>17. FramesFit'
  <2>1. \A i \in DOMAIN frames : FrameFits(frames[i], obs')
    <3>1. \A i \in DOMAIN frames : frames[i].o \in ObsIds \ {o}
      BY <1>4, <1>8, FramesTyped DEF FramesFit, FrameFits, Made
    <3>2. QED
      BY <1>6, <1>8, <3>1 DEF FramesFit, FrameFits
  <2>2. FrameFits(f, obs') \/ arg[1] = << >>
    BY <1>2, <1>6 DEF FrameFits, Frame
  <2> HIDE DEF f
  <2>3. QED
    BY <1>10, <2>1, <2>2 DEF FramesFit
<1>18. DrainsData'
  <2>1. \A i \in Draining : obs'[frames[i].o] = obs[frames[i].o]
    BY <1>4, <1>6, <1>9, FramesTyped DEF Running, Draining
  <2>2. QED
    BY <1>8, <1>11, <2>1 DEF DrainsData, CallsKept
<1>19. ChainsGiven'
  BY <1>1, <1>3, <1>6, <1>7, <1>8 DEF ChainsGiven, Made
<1>20. StateType'
  BY <1>1, <1>4, <1>6, <1>7, <1>10 DEF StateType
<1>21. QED
  BY <1>1, <1>2, <1>12, <1>15, <1>16, <1>17, <1>18, <1>19, <1>20 DEF Inv

LEMMA FramesPopped ==
  ASSUME frames \in Seq(FrameType), frames # << >>, frames' = Front(frames)
  PROVE  /\ frames' \in Seq(FrameType) /\ Len(frames') = Len(frames) - 1
         /\ Len(frames) \in DOMAIN frames /\ Top = frames[Len(frames)]
         /\ DOMAIN frames' = DOMAIN frames \ {Len(frames)}
         /\ \A i \in DOMAIN frames' : frames'[i] = frames[i]
<1>1. Len(frames) \in Nat \ {0} /\ DOMAIN frames = 1..Len(frames)
  OBVIOUS
<1>2. /\ frames' \in Seq(FrameType) /\ Len(frames') = Len(frames) - 1
      /\ \A i \in 1..(Len(frames) - 1) : frames'[i] = frames[i]
  BY <1>1 DEF Front
<1>3. DOMAIN frames' = 1..(Len(frames) - 1)
  BY <1>1, <1>2
<1>4. 1..(Len(frames) - 1) = (1..Len(frames)) \ {Len(frames)}
  BY <1>1
<1>5. QED
  BY <1>1, <1>2, <1>3, <1>4 DEF Top, Last

LEMMA FramesTop ==
  ASSUME frames \in Seq(FrameType), frames # << >>, NEW f \in FrameType,
         frames' = [frames EXCEPT ![Len(frames)] = f]
  PROVE  /\ frames' \in Seq(FrameType) /\ Len(frames') = Len(frames)
         /\ Len(frames) \in DOMAIN frames /\ Top = frames[Len(frames)]
         /\ DOMAIN frames' = DOMAIN frames
         /\ \A i \in DOMAIN frames :
              frames'[i] = IF i = Len(frames) THEN f ELSE frames[i]
<1>1. Len(frames) \in Nat \ {0} /\ DOMAIN frames = 1..Len(frames)
  OBVIOUS
<1>2. QED
  BY <1>1 DEF Top, Last

(* What no step changes of an observable that is made.                     *)
ObsKept ==
  /\ Made' = Made /\ obs' \in [ObsIds -> ObsType]
  /\ \A p \in Made : /\ obs'[p].chain = obs[p].chain
                     /\ obs'[p].outer = obs[p].outer

LEMMA ObsKeptFits ==
  ASSUME ObsKept, ChainsGiven, lent' = lent
  PROVE  /\ ChainsGiven'
         /\ \A f \in FrameType : FrameFits(f, obs) => FrameFits(f, obs')
<1>1. ChainsGiven'
  BY DEF ObsKept, ChainsGiven
<1>2. ASSUME NEW f \in FrameType, FrameFits(f, obs) PROVE FrameFits(f, obs')
  <2>1. f.o \in ObsIds
    BY DEF FrameType
  <2>2. f.o \in Made /\ f.o \in Made'
    BY <1>2, <2>1 DEF ObsKept, FrameFits, Made
  <2>3. obs'[f.o].data # NoList /\ obs'[f.o].chain = obs[f.o].chain
    BY <2>2 DEF ObsKept, Made
  <2>4. QED
    BY <1>2, <2>3 DEF FrameFits
<1>3. QED
  BY <1>1, <1>2

LEMMA PipeStageKeepsInv ==
  ASSUME Inv, PipeStage
  PROVE  Inv' /\ CallsKept
<1> DEFINE new == InitList(mem, 2)
           o == Top.o
           n == Len(frames)
           r == [obs[o] EXCEPT !.links = Append(@, new.list)]
           f == [Top EXCEPT !.left = Tail(@)]
<1>1. /\ frames # << >> /\ Top.call = "pipe" /\ Fresh(mem) # {}
      /\ mem' = new.mem
      /\ frames' = IF Tail(Top.left) = << >> THEN Front(frames)
                   ELSE [frames EXCEPT ![n].left = Tail(@)]
      /\ lent' = lent /\ strayed' = strayed /\ pushes' = pushes
  BY DEF PipeStage
<1>2. /\ obs \in [ObsIds -> ObsType] /\ frames \in Seq(FrameType)
      /\ lent \subseteq Made /\ strayed \subseteq Made /\ pushes \in 0..MaxPushes
      /\ Len(mem.blocks) <= MaxBlocks /\ MemOK(mem)
  BY DEF Inv, StateType
<1>3. FramesFit /\ OneCallEach /\ DrainsData /\ LinksApart /\ ChainsGiven
      /\ Divided(Held, InUse(mem))
  BY DEF Inv
<1>4. Given(mem, new)
  BY <1>1, <1>2, InitListGives
<1> HIDE DEF new
<1>5. n \in DOMAIN frames /\ Top = frames[n] /\ n \in Nat /\ Top \in FrameType
  BY <1>1, <1>2, FramesTyped DEF Top, Last
<1>6. o \in ObsIds /\ o \in Made
  BY <1>2, <1>3, <1>5, FramesTyped DEF FramesFit, FrameFits, Made
<1>7. /\ r \in ObsType /\ r.data = obs[o].data /\ r.chain = obs[o].chain
      /\ r.outer = obs[o].outer /\ ToSet(r.links) = ToSet(obs[o].links) \union {new.list}
  <2>1. obs[o] \in ObsType /\ obs[o].links \in Seq(ListIds) /\ new.list \in ListIds
    BY <1>2, <1>4, <1>6 DEF ObsType, Given
  <2>2. /\ Append(obs[o].links, new.list) \in Seq(ListIds)
        /\ ToSet(Append(obs[o].links, new.list)) = ToSet(obs[o].links) \union {new.list}
    BY <2>1, AppendAdds
  <2>3. QED
    BY <2>1, <2>2 DEF ObsType
<1>8. /\ obs' \in [ObsIds -> ObsType] /\ obs'[o] = r
      /\ \A p \in ObsIds \ {o} : obs'[p] = obs[p]
  <2>1. obs' = [obs EXCEPT ![o] = r]
    BY DEF PipeStage, new
  <2> HIDE DEF r, o
  <2>2. QED
    BY <1>2, <1>6, <1>7, <2>1
<1> HIDE DEF r
<1>9. \A p \in ObsIds : /\ obs'[p].data = obs[p].data /\ obs'[p].chain = obs[p].chain
                        /\ obs'[p].outer = obs[p].outer
  BY <1>7, <1>8
<1>10. Made' = Made /\ ObsKept
  BY <1>8, <1>9 DEF ObsKept, Made
<1>11. ChainsGiven' /\ \A g \in FrameType : FrameFits(g, obs) => FrameFits(g, obs')
  BY <1>1, <1>3, <1>10, ObsKeptFits
<1>12. /\ frames' \in Seq(FrameType) /\ CallsKept /\ FramesFit'
  <2>1. ~(n \in Draining)
    BY <1>1, <1>5 DEF Draining
  <2>2. CASE Tail(Top.left) = << >>
    <3>1. frames' = Front(frames)
      BY <1>1, <2>2
    <3>2. /\ frames' \in Seq(FrameType) /\ Len(frames') = n - 1
          /\ DOMAIN frames' = DOMAIN frames \ {n}
          /\ \A i \in DOMAIN frames' : frames'[i] = frames[i]
      BY <1>1, <1>2, <3>1, FramesPopped
    <3>3. CallsKept
      BY <2>1, <3>2 DEF CallsKept, Draining
    <3>4. FramesFit'
      BY <1>2, <1>3, <1>11, <3>2, FramesTyped DEF FramesFit
    <3>5. QED
      BY <3>2, <3>3, <3>4
  <2>3. CASE Tail(Top.left) # << >>
    <3>1. Top.left # << >> /\ Top.at = 0 /\ Top.left \in Seq(Ops)
      BY <1>1, <1>2, <1>3, <1>5, FramesTyped DEF FramesFit, FrameFits
    <3>2. /\ f \in FrameType /\ f.call = "pipe" /\ f.o = o /\ f.left = Tail(Top.left)
          /\ f.at = 0
      <4>1. Tail(Top.left) \in Seq(Ops)
        BY <3>1
      <4>2. QED
        BY <1>1, <1>5, <3>1, <4>1 DEF FrameType
    <3>3. frames' = [frames EXCEPT ![n] = f]
      BY <1>1, <1>2, <1>5, <2>3
    <3> HIDE DEF f
    <3>4. /\ frames' \in Seq(FrameType) /\ Len(frames') = n
          /\ DOMAIN frames' = DOMAIN frames
          /\ \A i \in DOMAIN frames : frames'[i] = IF i = n THEN f ELSE frames[i]
      BY <1>1, <1>2, <3>2, <3>3, FramesTop
    <3>5. CallsKept
      BY <2>1, <3>2, <3>4 DEF CallsKept, Draining
    <3>6. FrameFits(f, obs')
      <4>1. obs'[o].data # NoList
        BY <1>6, <1>9 DEF Made
      <4>2. QED
        BY <2>3, <3>2, <4>1 DEF FrameFits
    <3>7. FramesFit'
      BY <1>2, <1>3, <1>11, <3>4, <3>6, FramesTyped DEF FramesFit
    <3>8. QED
      BY <3>4, <3>5, <3>7
  <2>4. QED
    BY <2>2, <2>3
<1>13. /\ Running' = Running /\ OneCallEach'
       /\ \A p, l : Works(p, l)' <=> Works(p, l)
  BY <1>3, <1>12, CallsKeptAre
<1>14. \A p \in ObsIds : \A l : Current(p, l)' <=> Current(p, l)
  BY <1>9, <1>13 DEF Current
<1>15. /\ new.list \in ListIds /\ new.list \notin InUse(mem)
       /\ MemOK(new.mem) /\ InUse(new.mem) = InUse(mem) \union {new.list}
       /\ new.mem.blocks = mem.blocks
  BY <1>4 DEF Given
<1>16. Divided(Held, InUse(mem))'
  <2> DEFINE h == Held
             h2 == Held'
             used == InUse(mem)
             l == new.list
  <2>1. Gains(h, h2, o, l)
    <3>1. \A p \in ObsIds : \A x : x \in Held[p] <=> p \in Made /\ (x \in ToSet(obs[p].links) \/ Current(p, x))
      BY HeldIs
    <3>2. \A p \in ObsIds : \A x : x \in Held'[p] <=> p \in Made' /\ (x \in ToSet(obs'[p].links) \/ Current(p, x)')
      BY HeldIs
    <3>3. Held'[o] = Held[o] \union {l}
      BY <1>6, <1>7, <1>8, <1>10, <1>14, <3>1, <3>2
    <3>4. ASSUME NEW p \in ObsIds, p # o PROVE Held'[p] = Held[p]
      BY <1>8, <1>10, <1>14, <3>1, <3>2, <3>4
    <3>5. QED
      BY <3>3, <3>4 DEF Gains
  <2>2. Divided(h, used) /\ l \notin used
    BY <1>3, <1>15
  <2> HIDE DEF h, h2, used, l
  <2>3. Divided(h2, used \union {l})
    BY <1>6, <2>1, <2>2, DividedGains
  <2>4. QED
    BY <1>1, <1>15, <2>3 DEF h2, used, l
<1>17. LinksApart'
  <2>1. ASSUME NEW p \in Made, NEW l, Current(p, l)
        PROVE  l \notin ToSet(obs'[p].links)
    <3>1. l # new.list /\ l \notin ToSet(obs[p].links) /\ p \in ObsIds
      BY <1>3, <1>15, <2>1, CurrentInUse DEF LinksApart
    <3>2. QED
      BY <1>7, <1>8, <3>1
  <2>2. \A p \in Made : p \in ObsIds
    BY DEF Made
  <2>3. QED
    BY <1>10, <1>14, <2>1, <2>2 DEF LinksApart
<1>18. DrainsData'
  <2>1. \A i \in Draining : frames[i].o \in ObsIds
    BY <1>2, FramesTyped DEF Draining
  <2>2. SUFFICES ASSUME NEW i \in Draining, frames[i].left = << >>,
                        ~MergeStreams(obs'[frames[i].o].chain)
                 PROVE  obs'[frames[i].o].data = frames[i].list
    BY <1>12 DEF DrainsData, CallsKept
  <2>3. ~MergeStreams(obs[frames[i].o].chain)
    BY <1>9, <2>1, <2>2
  <2>4. QED
    BY <1>3, <1>9, <2>1, <2>2, <2>3 DEF DrainsData
<1>19. StateType'
  BY <1>1, <1>2, <1>8, <1>10, <1>12, <1>15 DEF StateType
<1>20. QED
  BY <1>1, <1>11, <1>12, <1>13, <1>15, <1>16, <1>17, <1>18, <1>19 DEF Inv

(* Steps after which everyone holds what he held.                          *)
LEMMA HeldStays ==
  ASSUME Divided(Held, InUse(mem)), LinksApart,
         Made' = Made, \A p \in Made : obs'[p].links = obs[p].links,
         \A p \in Made : \A x : Current(p, x)' <=> Current(p, x),
         InUse(mem') = InUse(mem)
  PROVE  Divided(Held, InUse(mem))' /\ LinksApart'
<1> DEFINE h == Held
           h2 == Held'
           used == InUse(mem)
<1>1. \A p \in ObsIds : h2[p] = h[p]
  <2>1. \A p \in ObsIds : \A x : x \in Held[p] <=> p \in Made /\ (x \in ToSet(obs[p].links) \/ Current(p, x))
    BY HeldIs
  <2>2. \A p \in ObsIds : \A x : x \in Held'[p] <=> p \in Made' /\ (x \in ToSet(obs'[p].links) \/ Current(p, x)')
    BY HeldIs
  <2>3. QED
    BY <2>1, <2>2
<1>2. Divided(h, used)
  OBVIOUS
<1>3. Divided(h2, used)
  <2> HIDE DEF h, h2, used
  <2> QED BY <1>1, <1>2, DividedStays
<1>4. LinksApart'
  BY DEF LinksApart
<1>5. QED
  BY <1>3, <1>4

(* Steps after which o works on l instead of old.                          *)
LEMMA HeldSwaps ==
  ASSUME Divided(Held, InUse(mem)), LinksApart,
         Made' = Made, \A p \in Made : obs'[p].links = obs[p].links,
         NEW o \in Made, NEW old, NEW l, \A x : Current(o, x) <=> x = old,
         \A x : Current(o, x)' <=> x = l,
         \A p \in Made \ {o} : \A x : Current(p, x)' <=> Current(p, x),
         l \notin InUse(mem) \ {old},
         InUse(mem') = (InUse(mem) \ {old}) \union {l}
  PROVE  Divided(Held, InUse(mem))' /\ LinksApart'
<1> DEFINE h == Held
           h2 == Held'
           used == InUse(mem)
<1>1. o \in ObsIds /\ old \in h[o] /\ old \notin ToSet(obs[o].links)
  BY CurrentInUse DEF LinksApart
<1>2. \A p \in ObsIds : \A x : x \in Held[p] <=> p \in Made /\ (x \in ToSet(obs[p].links) \/ Current(p, x))
  BY HeldIs
<1>3. Swaps(h, h2, o, l, old)
  <2>1. \A p \in ObsIds : \A x : x \in Held'[p] <=> p \in Made' /\ (x \in ToSet(obs'[p].links) \/ Current(p, x)')
    BY HeldIs
  <2>2. Held'[o] = (Held[o] \ {old}) \union {l}
    BY <1>1, <1>2, <2>1
  <2>3. ASSUME NEW p \in ObsIds, p # o PROVE Held'[p] = Held[p]
    BY <1>2, <2>1, <2>3
  <2>4. QED
    BY <2>2, <2>3 DEF Swaps
<1>4. Divided(h, used) /\ l \notin used \ {old}
  OBVIOUS
<1>5. Divided(h2, (used \ {old}) \union {l})
  <2> HIDE DEF h, h2, used
  <2> QED BY <1>1, <1>3, <1>4, DividedSwaps
<1>6. LinksApart'
  <2>1. \A x \in ToSet(obs[o].links) : x \in InUse(mem)
    BY <1>1, <1>2 DEF Divided
  <2>2. l \notin ToSet(obs'[o].links)
    BY <1>1, <2>1
  <2>3. QED
    BY <2>2 DEF LinksApart
<1>7. QED
  BY <1>5, <1>6

LEMMA StagesAheadFit ==
  ASSUME NEW chain \in Seq(Ops)
  PROVE  StagesAhead(chain) \in Seq(Ops) /\ ToSet(StagesAhead(chain)) \subseteq ToSet(chain)
<1>1. CASE StagesAhead(chain) = << >> \/ StagesAhead(chain) = chain
  <2>1. << >> \in Seq(Ops) /\ ToSet(<< >>) = {}
    BY DEF ToSet
  <2>2. QED
    BY <1>1, <2>1
<1>2. CASE ~(StagesAhead(chain) = << >> \/ StagesAhead(chain) = chain)
  <2>1. StagesAhead(chain) = << "mergeMap" >> /\ MergeStreams(chain)
    BY <1>2 DEF StagesAhead
  <2>2. 1 \in DOMAIN chain /\ chain[1] = "mergeMap"
    BY <2>1 DEF MergeStreams
  <2>3. ToSet(<< "mergeMap" >>) = {"mergeMap"} /\ "mergeMap" \in ToSet(chain)
    BY <2>2 DEF ToSet
  <2>4. QED
    BY <2>1, <2>3 DEF Ops
<1>3. QED
  BY <1>1, <1>2

(* A pop_all of o is the one that starts.                                  *)
Starts(o) ==
  /\ \A i \in Draining' :
       \/ i \in Draining /\ frames'[i] = frames[i] /\ frames[i].o # o
       \/ frames'[i] = Frame("pop_all", o, obs[o].data, StagesAhead(obs[o].chain))
  /\ \A p : p \in Running' <=> p \in Running \/ p = o

LEMMA PopAllKeepsInv ==
  ASSUME Inv, NEW o, NEW m, MemOK(m), InUse(m) = InUse(mem),
         Len(m.blocks) <= MaxBlocks, PopAll(o, m), pushes' \in 0..MaxPushes
  PROVE  Inv' /\ Starts(o)
<1> DEFINE n == Len(frames)
           f == Frame("pop_all", o, obs[o].data, StagesAhead(obs[o].chain))
<1>1. /\ Callable /\ o \in Made /\ o \notin Running
      /\ mem' = m /\ frames' = Append(frames, f)
      /\ obs' = obs /\ lent' = lent /\ strayed' = strayed
  BY DEF PopAll
<1>2. /\ obs \in [ObsIds -> ObsType] /\ frames \in Seq(FrameType)
      /\ lent \subseteq Made /\ strayed \subseteq Made /\ MemOK(mem)
  BY DEF Inv, StateType
<1>3. FramesFit /\ OneCallEach /\ DrainsData /\ LinksApart /\ ChainsGiven
      /\ Divided(Held, InUse(mem))
  BY DEF Inv
<1>4. /\ o \in ObsIds /\ obs[o].chain \in Seq(Ops) /\ obs[o].data \in ListIds
  <2>1. o \in ObsIds /\ obs[o] \in ObsType /\ obs[o].data # NoList
    BY <1>1, <1>2 DEF Made
  <2>2. obs[o].chain \in Chains \union {<< >>} /\ obs[o].data \in ListIds
    BY <2>1 DEF ObsType
  <2>3. << >> \in Seq(Ops)
    OBVIOUS
  <2>4. QED
    BY <2>1, <2>2, <2>3
<1>5. /\ f \in FrameType /\ f.call = "pop_all" /\ f.o = o /\ f.list = obs[o].data
      /\ FrameFits(f, obs)
  <2>1. StagesAhead(obs[o].chain) \in Seq(Ops)
        /\ ToSet(StagesAhead(obs[o].chain)) \subseteq ToSet(obs[o].chain)
    BY <1>4, StagesAheadFit
  <2>2. f = [call |-> "pop_all", o |-> o, list |-> obs[o].data,
             left |-> StagesAhead(obs[o].chain), at |-> 0]
    BY DEF Frame
  <2> HIDE DEF f
  <2>3. QED
    BY <1>1, <1>4, <2>1, <2>2 DEF FrameType, FrameFits
<1> HIDE DEF f
<1>6. /\ frames' \in Seq(FrameType) /\ Len(frames') = n + 1 /\ n \in Nat
      /\ DOMAIN frames = 1..n /\ DOMAIN frames' = 1..(n + 1)
      /\ \A i \in DOMAIN frames : frames'[i] = frames[i] /\ frames[i].at # 0
      /\ frames'[n + 1] = f
  BY <1>1, <1>2, <1>3, <1>5, FramesPushed
<1>7. /\ n + 1 \notin DOMAIN frames /\ n + 1 \in DOMAIN frames'
      /\ \A i \in DOMAIN frames' : i \in DOMAIN frames \/ i = n + 1
      /\ DOMAIN frames \subseteq DOMAIN frames'
  BY <1>6
<1>8. FramesFit'
  BY <1>1, <1>3, <1>5, <1>6, <1>7 DEF FramesFit
<1>9. /\ \A i : i \in Draining' <=> i \in Draining \/ i = n + 1
      /\ \A i \in Draining : frames'[i] = frames[i]
  BY <1>5, <1>6, <1>7 DEF Draining
<1> HIDE DEF n
<1>10. OneCallEach'
  <2>1. \A i \in Draining : frames'[i] = frames[i] /\ frames[i].o # o
    BY <1>1, <1>9 DEF Running
  <2>2. frames'[n + 1].o = o
    BY <1>5, <1>6
  <2>3. \A i, j \in Draining : frames[i].o = frames[j].o => i = j
    BY <1>3 DEF OneCallEach
  <2>4. QED
    BY <1>9, <2>1, <2>2, <2>3 DEF OneCallEach
<1>11. DrainsData'
  <2>1. SUFFICES ASSUME NEW i \in Draining',
                        frames'[i].left = << >>, ~MergeStreams(obs[frames'[i].o].chain)
                 PROVE  obs[frames'[i].o].data = frames'[i].list
    BY <1>1 DEF DrainsData
  <2>2. CASE i = n + 1
    BY <1>5, <1>6, <2>2
  <2>3. CASE i # n + 1
    BY <1>3, <1>9, <2>1, <2>3 DEF DrainsData
  <2>4. QED
    BY <2>2, <2>3
<1>12. \A p : p \in Running' <=> p \in Running \/ p = o
  BY <1>5, <1>6, <1>9 DEF Running
<1>13. \A p, x : Works(p, x)' <=> Works(p, x) \/ (p = o /\ x = obs[o].data)
  BY <1>5, <1>6, <1>9 DEF Works
<1>14. \A p, x : Current(p, x)' <=> Current(p, x)
  <2>1. \A x : ~Works(o, x)
    BY <1>1 DEF Works, Running
  <2>2. QED
    BY <1>1, <1>12, <1>13, <2>1 DEF Current
<1>15. Made' = Made
  BY <1>1 DEF Made
<1>16. Divided(Held, InUse(mem))' /\ LinksApart'
  <2>1. InUse(mem') = InUse(mem) /\ \A p \in Made : obs'[p].links = obs[p].links
    BY <1>1
  <2>2. QED
    BY <1>3, <1>14, <1>15, <2>1, HeldStays
<1>17. ChainsGiven' /\ StateType'
  BY <1>1, <1>2, <1>3, <1>6, <1>15 DEF ChainsGiven, StateType
<1>18. Starts(o)
  <2>1. \A i \in Draining : frames[i].o # o
    BY <1>1 DEF Running
  <2>2. QED
    BY <1>6, <1>9, <1>12, <2>1 DEF Starts, f
<1>19. QED
  BY <1>1, <1>8, <1>10, <1>11, <1>16, <1>17, <1>18 DEF Inv

(* The pop_all at work.                                                    *)
LEMMA TopWorks ==
  ASSUME Inv, frames # << >>, Top.call = "pop_all"
  PROVE  LET n == Len(frames)
             o == Top.o
         IN  /\ n \in Draining /\ n \in DOMAIN frames /\ Top = frames[n]
             /\ Top \in FrameType /\ Top.left \in Seq(Ops) /\ Top.at \in Nat
             /\ o \in Made /\ o \in ObsIds /\ o \in Running
             /\ Top.list \in ListIds
             /\ obs[o] \in ObsType /\ FrameFits(Top, obs)
             /\ \A x : Current(o, x) <=> x = Top.list
             /\ Top.list \in InUse(mem)
             /\ \A i \in Draining : i # n => frames[i].o # o
<1>1. /\ frames \in Seq(FrameType) /\ FramesFit /\ OneCallEach
      /\ obs \in [ObsIds -> ObsType] /\ Divided(Held, InUse(mem))
  BY DEF Inv, StateType
<1> DEFINE n == Len(frames)
           o == Top.o
<1>2. n \in DOMAIN frames /\ Top = frames[n]
  BY <1>1 DEF Top, Last
<1>3. /\ Top \in FrameType /\ Top.left \in Seq(Ops) /\ Top.at \in Nat /\ o \in ObsIds
  BY <1>1, <1>2, FramesTyped
<1>4. n \in Draining /\ o \in Running
  BY <1>2 DEF Draining, Running
<1>5. FrameFits(Top, obs) /\ Top.list \in ListIds /\ o \in Made
  BY <1>1, <1>2, <1>3 DEF FramesFit, FrameFits, Made
<1>6. \A i \in Draining : i # n => frames[i].o # o
  BY <1>1, <1>2, <1>4 DEF OneCallEach
<1>7. \A x : Current(o, x) <=> x = Top.list
  BY <1>2, <1>4, <1>6 DEF Current, Works
<1>8. Top.list \in InUse(mem)
  BY <1>1, <1>5, <1>7, CurrentInUse
<1>9. QED
  BY <1>1, <1>2, <1>3, <1>4, <1>5, <1>6, <1>7, <1>8

(* The frame of the call under way becomes f, for the same observable.     *)
TopBecomes(o, f) ==
  /\ f \in FrameType /\ f.o = o /\ f.call = "pop_all"
  /\ frames' = [frames EXCEPT ![Len(frames)] = f]
  /\ FrameFits(f, obs')
  /\ f.left = << >> /\ ~MergeStreams(obs'[o].chain) => obs'[o].data = f.list

OthersStay(o) == /\ ObsKept /\ lent' = lent
                 /\ \A p \in ObsIds : p # o => obs'[p] = obs[p]

LEMMA TopChanges ==
  ASSUME Inv, frames # << >>, Top.call = "pop_all", NEW o, o = Top.o,
         NEW f, TopBecomes(o, f), OthersStay(o)
  PROVE  /\ frames' \in Seq(FrameType) /\ FramesFit' /\ OneCallEach'
         /\ DrainsData' /\ ChainsGiven'
         /\ Running' = Running /\ Draining' = Draining
         /\ \A i \in Draining : frames'[i] = IF i = Len(frames) THEN f ELSE frames[i]
         /\ \A x : Current(o, x)' <=> x = f.list
         /\ \A p \in Made : p # o => \A x : Current(p, x)' <=> Current(p, x)
<1> DEFINE n == Len(frames)
<1> USE DEF TopBecomes, OthersStay
<1>1. /\ frames \in Seq(FrameType) /\ FramesFit /\ OneCallEach /\ ChainsGiven
      /\ DrainsData
  BY DEF Inv, StateType
<1>2. /\ frames' \in Seq(FrameType) /\ Len(frames') = n /\ DOMAIN frames' = DOMAIN frames
      /\ \A i \in DOMAIN frames : frames'[i] = IF i = n THEN f ELSE frames[i]
  BY <1>1, FramesTop
<1>3. /\ n \in Draining /\ o \in Made /\ o \in ObsIds /\ o \in Running
      /\ \A i \in Draining : i # n => frames[i].o # o
      /\ Top = frames[n]
  BY TopWorks
<1>4. /\ Draining' = Draining
      /\ \A i \in Draining : frames'[i] = IF i = n THEN f ELSE frames[i]
      /\ \A i \in Draining : frames'[i].o = frames[i].o
  BY <1>2, <1>3 DEF Draining
<1>5. Running' = Running
  BY <1>4 DEF Running
<1>6. OneCallEach'
  BY <1>1, <1>4 DEF OneCallEach
<1>7. ChainsGiven' /\ \A g \in FrameType : FrameFits(g, obs) => FrameFits(g, obs')
  BY <1>1, ObsKeptFits
<1>8. FramesFit'
  BY <1>1, <1>2, <1>7, FramesTyped DEF FramesFit
<1>9. DrainsData'
  <2>1. SUFFICES ASSUME NEW i \in Draining, frames'[i].left = << >>,
                        ~MergeStreams(obs'[frames'[i].o].chain)
                 PROVE  obs'[frames'[i].o].data = frames'[i].list
    BY <1>4 DEF DrainsData
  <2>2. CASE i = n
    BY <1>4, <2>1, <2>2
  <2>3. CASE i # n
    <3>1. frames[i].o \in ObsIds /\ frames'[i] = frames[i]
      BY <1>1, <1>4, <2>3, FramesTyped DEF Draining
    <3>2. obs'[frames[i].o] = obs[frames[i].o]
      BY <1>3, <2>3, <3>1
    <3>3. QED
      BY <1>1, <2>1, <3>1, <3>2 DEF DrainsData
  <2>4. QED
    BY <2>2, <2>3
<1>10. \A x : Current(o, x)' <=> x = f.list
  <2>1. frames'[n].o = o /\ frames'[n].list = f.list /\ n \in Draining'
    BY <1>3, <1>4
  <2>2. \A i \in Draining' : frames'[i].o = o => i = n
    BY <1>3, <1>4
  <2>3. \A x : Works(o, x)' <=> x = f.list
    BY <2>1, <2>2 DEF Works
  <2>4. QED
    BY <1>3, <1>5, <2>3 DEF Current
<1>11. \A p \in Made : p # o => \A x : Current(p, x)' <=> Current(p, x)
  <2>1. \A p, x : p # o => (Works(p, x)' <=> Works(p, x))
    BY <1>3, <1>4 DEF Works
  <2>2. QED
    BY <1>5, <2>1 DEF Current, Made
<1>12. QED
  BY <1>2, <1>4, <1>5, <1>6, <1>7, <1>8, <1>9, <1>10, <1>11

(* The call under way returns.                                             *)
LEMMA TopReturns ==
  ASSUME Inv, frames # << >>, Top.call = "pop_all", NEW o, o = Top.o,
         frames' = Front(frames), OthersStay(o)
  PROVE  /\ frames' \in Seq(FrameType) /\ FramesFit' /\ OneCallEach'
         /\ DrainsData' /\ ChainsGiven'
         /\ Running' = Running \ {o}
         /\ \A i : i \in Draining' <=> i \in Draining /\ i # Len(frames)
         /\ \A i \in Draining' : frames'[i] = frames[i]
         /\ \A x : Current(o, x)' <=> x = obs'[o].data
         /\ \A p \in Made : p # o => \A x : Current(p, x)' <=> Current(p, x)
<1> DEFINE n == Len(frames)
<1> USE DEF TopBecomes, OthersStay
<1>1. /\ frames \in Seq(FrameType) /\ FramesFit /\ OneCallEach /\ ChainsGiven
      /\ DrainsData
  BY DEF Inv, StateType
<1>2. /\ frames' \in Seq(FrameType) /\ Len(frames') = n - 1
      /\ DOMAIN frames' = DOMAIN frames \ {n}
      /\ \A i \in DOMAIN frames' : frames'[i] = frames[i]
  BY <1>1, FramesPopped
<1>3. /\ n \in Draining /\ o \in Made /\ o \in ObsIds /\ o \in Running
      /\ \A i \in Draining : i # n => frames[i].o # o
      /\ Top = frames[n]
  BY TopWorks
<1>4. /\ \A i : i \in Draining' <=> i \in Draining /\ i # n
      /\ \A i \in Draining' : frames'[i] = frames[i]
  BY <1>2 DEF Draining
<1>5. \A p : p \in Running' <=> p \in Running /\ p # o
  BY <1>3, <1>4 DEF Running
<1>6. OneCallEach'
  BY <1>1, <1>4 DEF OneCallEach
<1>7. ChainsGiven' /\ \A g \in FrameType : FrameFits(g, obs) => FrameFits(g, obs')
  BY <1>1, ObsKeptFits
<1>8. FramesFit'
  BY <1>1, <1>2, <1>7, FramesTyped DEF FramesFit
<1>9. DrainsData'
  <2>1. SUFFICES ASSUME NEW i \in Draining, i # n, frames[i].left = << >>,
                        ~MergeStreams(obs'[frames[i].o].chain)
                 PROVE  obs'[frames[i].o].data = frames[i].list
    BY <1>4 DEF DrainsData
  <2>2. frames[i].o \in ObsIds
    BY <1>1, FramesTyped DEF Draining
  <2>3. obs'[frames[i].o] = obs[frames[i].o]
    BY <1>3, <2>1, <2>2
  <2>4. QED
    BY <1>1, <2>1, <2>3 DEF DrainsData
<1>10. \A x : Current(o, x)' <=> x = obs'[o].data
  <2>1. o \notin Running'
    BY <1>5
  <2>2. \A x : ~Works(o, x)'
    BY <2>1 DEF Works, Running
  <2>3. QED
    BY <2>1, <2>2 DEF Current
<1>11. \A p \in Made : p # o => \A x : Current(p, x)' <=> Current(p, x)
  <2>1. \A p, x : p # o => (Works(p, x)' <=> Works(p, x))
    BY <1>3, <1>4 DEF Works
  <2>2. QED
    BY <1>5, <2>1 DEF Current, Made
<1>12. QED
  BY <1>2, <1>4, <1>5, <1>6, <1>7, <1>8, <1>9, <1>10, <1>11

LEMMA ReplaceKeepsInv ==
  ASSUME Inv, AtStage, NEW new, Makes(mem, new.mem, new.list),
         Len(new.mem.blocks) <= MaxBlocks, Replace(new)
  PROVE  Inv'
<1> DEFINE n == Len(frames)
           l == new.list
           old == Top.list
           rest == Tail(Top.left)
           f == [Top EXCEPT !.list = l, !.left = rest]
           chain == obs[Top.o].chain
<1>1. /\ frames # << >> /\ Top.call = "pop_all" /\ Top.left # << >>
      /\ mem' = FreeList(new.mem, old) /\ lent' = lent /\ pushes' = pushes
      /\ frames' = [frames EXCEPT ![n].list = l, ![n].left = rest]
      /\ obs' = IF rest = << >> /\ ~MergeStreams(chain)
                THEN [obs EXCEPT ![Top.o].data = l] ELSE obs
      /\ strayed' = strayed \/ strayed' = strayed \union {Top.o}
  BY DEF AtStage, Replace, Stray
<1> PICK o : o = Top.o
  OBVIOUS
<1>2. /\ obs \in [ObsIds -> ObsType] /\ frames \in Seq(FrameType)
      /\ lent \subseteq Made /\ strayed \subseteq Made /\ pushes \in 0..MaxPushes
      /\ LinksApart /\ Divided(Held, InUse(mem)) /\ MemOK(mem)
  BY DEF Inv, StateType
<1>3. /\ n \in DOMAIN frames /\ Top = frames[n] /\ Top \in FrameType
      /\ Top.left \in Seq(Ops) /\ o \in Made /\ o \in ObsIds
      /\ old \in ListIds /\ old \in InUse(mem)
      /\ obs[o] \in ObsType /\ FrameFits(Top, obs)
      /\ \A x : Current(o, x) <=> x = old
  BY <1>1, TopWorks
<1>4. /\ l \in ListIds /\ l \notin InUse(mem) /\ MemOK(new.mem)
      /\ InUse(new.mem) = InUse(mem) \union {l}
  BY DEF Makes
<1>5. rest \in Seq(Ops) /\ ToSet(rest) \subseteq ToSet(Top.left)
  <2>1. \A i \in DOMAIN rest : i + 1 \in DOMAIN Top.left /\ rest[i] = Top.left[i + 1]
    BY <1>1, <1>3
  <2>2. QED
    BY <1>1, <1>3, <2>1 DEF ToSet
<1> HIDE DEF rest
<1>6. /\ f \in FrameType /\ f.o = o /\ f.call = "pop_all" /\ f.list = l /\ f.left = rest
      /\ frames' = [frames EXCEPT ![n] = f]
  <2>1. f \in FrameType /\ f.o = o /\ f.call = "pop_all" /\ f.list = l /\ f.left = rest
    BY <1>1, <1>3, <1>4, <1>5 DEF FrameType
  <2>2. frames' = [frames EXCEPT ![n] = f]
    BY <1>1, <1>2, <1>3
  <2>3. QED
    BY <2>1, <2>2
<1> HIDE DEF f
<1>7. /\ obs' \in [ObsIds -> ObsType]
      /\ \A p \in ObsIds : p # o => obs'[p] = obs[p]
      /\ obs'[o].chain = obs[o].chain /\ obs'[o].outer = obs[o].outer
      /\ obs'[o].links = obs[o].links /\ obs'[o].data # NoList
      /\ rest = << >> /\ ~MergeStreams(chain) => obs'[o].data = l
  <2>1. CASE rest = << >> /\ ~MergeStreams(chain)
    <3> DEFINE r == [obs[o] EXCEPT !.data = l]
    <3>1. obs' = [obs EXCEPT ![o] = r]
      BY <1>1, <2>1
    <3>2. /\ r \in ObsType /\ r.data = l /\ r.chain = obs[o].chain
          /\ r.outer = obs[o].outer /\ r.links = obs[o].links
      BY <1>3, <1>4 DEF ObsType
    <3> HIDE DEF r
    <3>3. obs'[o] = r /\ obs' \in [ObsIds -> ObsType]
      BY <1>2, <1>3, <3>1, <3>2
    <3>4. l # NoList
      BY <1>4
    <3>5. QED
      BY <1>2, <3>1, <3>2, <3>3, <3>4
  <2>2. CASE ~(rest = << >> /\ ~MergeStreams(chain))
    BY <1>1, <1>2, <1>3, <2>2 DEF Made
  <2>3. QED
    BY <2>1, <2>2
<1>8. ObsKept
  BY <1>3, <1>7 DEF ObsKept, Made
<1>9. FrameFits(f, obs')
  BY <1>3, <1>4, <1>5, <1>6, <1>7, <1>1 DEF FrameFits
<1>10. f.left = << >> /\ ~MergeStreams(obs'[o].chain) => obs'[o].data = f.list
  BY <1>6, <1>7
<1>11. /\ frames' \in Seq(FrameType) /\ FramesFit' /\ OneCallEach'
       /\ DrainsData' /\ ChainsGiven'
       /\ \A x : Current(o, x)' <=> x = l
       /\ \A p \in Made : p # o => \A x : Current(p, x)' <=> Current(p, x)
  <2>1. TopBecomes(o, f) /\ OthersStay(o)
    BY <1>1, <1>6, <1>7, <1>8, <1>9, <1>10 DEF TopBecomes, OthersStay
  <2>2. PICK g : g = f
    OBVIOUS
  <2>3. /\ frames' \in Seq(FrameType) /\ FramesFit' /\ OneCallEach'
        /\ DrainsData' /\ ChainsGiven'
        /\ \A x : Current(o, x)' <=> x = g.list
        /\ \A p \in Made : p # o => \A x : Current(p, x)' <=> Current(p, x)
    BY <1>1, <2>1, <2>2, TopChanges
  <2>4. QED
    BY <1>6, <2>2, <2>3
<1>12. Freed(new.mem, mem', old)
  BY <1>1, <1>3, <1>4, FreeListFrees
<1>13. /\ MemOK(mem') /\ InUse(mem') = (InUse(mem) \ {old}) \union {l}
       /\ Len(mem'.blocks) <= MaxBlocks
  BY <1>3, <1>4, <1>12 DEF Freed
<1>14. Divided(Held, InUse(mem))' /\ LinksApart'
  <2>1. Made' = Made /\ \A p \in Made : obs'[p].links = obs[p].links
    BY <1>7, <1>8 DEF ObsKept, Made
  <2>2. l \notin InUse(mem) \ {old}
    BY <1>4
  <2>3. \A p \in Made \ {o} : \A x : Current(p, x)' <=> Current(p, x)
    BY <1>11
  <2> HIDE DEF l, old
  <2>4. QED
    BY <1>2, <1>3, <1>11, <1>13, <2>1, <2>2, <2>3, HeldSwaps
<1>15. StateType'
  BY <1>1, <1>2, <1>3, <1>8, <1>11, <1>13 DEF StateType, ObsKept
<1>16. QED
  BY <1>11, <1>13, <1>14, <1>15 DEF Inv

LEMMA StreamEndKeepsInv ==
  ASSUME Inv, StreamEnd
  PROVE  Inv'
<1> DEFINE old == Top.list
           m == FreeList(mem, old)
           new == InitList(m, 2)
           l == new.list
<1>1. /\ frames # << >> /\ Top.call = "pop_all"
      /\ Fresh(mem) # {} /\ mem' = new.mem
      /\ obs' = [obs EXCEPT ![Top.o].data = l, ![Top.o].complete = Ended]
      /\ frames' = Front(frames)
      /\ lent' = lent /\ strayed' = strayed /\ pushes' = pushes
  BY DEF Emitting, StreamEnd
<1> PICK o : o = Top.o
  OBVIOUS
<1>2. /\ obs \in [ObsIds -> ObsType] /\ frames \in Seq(FrameType)
      /\ lent \subseteq Made /\ strayed \subseteq Made /\ pushes \in 0..MaxPushes
      /\ LinksApart /\ Divided(Held, InUse(mem)) /\ MemOK(mem)
      /\ Len(mem.blocks) <= MaxBlocks
  BY DEF Inv, StateType
<1>3. /\ o \in Made /\ o \in ObsIds /\ old \in ListIds /\ old \in InUse(mem)
      /\ obs[o] \in ObsType /\ \A x : Current(o, x) <=> x = old
  BY <1>1, TopWorks
<1>4. Freed(mem, m, old)
  BY <1>2, <1>3, FreeListFrees
<1> HIDE DEF m
<1>5. Fresh(m) # {}
  <2>1. PICK x \in ListIds : ~mem.heap[x].used
    BY <1>1 DEF Fresh
  <2>2. x # old
    BY <1>3, <2>1 DEF InUse
  <2>3. ~m.heap[x].used
    BY <1>4, <2>1, <2>2 DEF Freed, OthersKept
  <2>4. QED
    BY <2>3 DEF Fresh
<1>6. Given(m, new)
  BY <1>4, <1>5, InitListGives DEF Freed
<1> HIDE DEF new
<1>7. /\ l \in ListIds /\ l \notin InUse(mem) \ {old} /\ MemOK(mem')
      /\ InUse(mem') = (InUse(mem) \ {old}) \union {l}
      /\ Len(mem'.blocks) <= MaxBlocks
  BY <1>1, <1>2, <1>4, <1>6 DEF Given, Freed
<1>8. /\ obs' \in [ObsIds -> ObsType]
      /\ \A p \in ObsIds : p # o => obs'[p] = obs[p]
      /\ obs'[o].chain = obs[o].chain /\ obs'[o].outer = obs[o].outer
      /\ obs'[o].links = obs[o].links /\ obs'[o].data = l
  <2> DEFINE done == Ended
             r == [obs[o] EXCEPT !.data = l, !.complete = done]
  <2>1. Ended \in BOOLEAN
    BY DEF Ended
  <2>2. obs' = [obs EXCEPT ![o] = r]
    BY <1>1
  <2> HIDE DEF done
  <2>3. /\ r \in ObsType /\ r.data = l /\ r.chain = obs[o].chain
        /\ r.outer = obs[o].outer /\ r.links = obs[o].links
    BY <1>3, <1>7, <2>1 DEF ObsType, done
  <2> HIDE DEF r
  <2>4. QED
    BY <1>2, <1>3, <2>2, <2>3
<1>9. ObsKept
  <2>1. l # NoList
    BY <1>7
  <2>2. QED
    BY <1>3, <1>8, <2>1 DEF ObsKept, Made
<1>10. /\ frames' \in Seq(FrameType) /\ FramesFit' /\ OneCallEach'
       /\ DrainsData' /\ ChainsGiven'
       /\ \A x : Current(o, x)' <=> x = obs'[o].data
       /\ \A p \in Made : p # o => \A x : Current(p, x)' <=> Current(p, x)
  <2>1. OthersStay(o)
    BY <1>1, <1>8, <1>9 DEF OthersStay
  <2>2. QED
    BY <1>1, <2>1, TopReturns
<1>11. Divided(Held, InUse(mem))' /\ LinksApart'
  <2>1. Made' = Made /\ \A p \in Made : obs'[p].links = obs[p].links
    BY <1>8, <1>9 DEF ObsKept, Made
  <2>2. \A p \in Made \ {o} : \A x : Current(p, x)' <=> Current(p, x)
    BY <1>10
  <2>3. \A x : Current(o, x)' <=> x = l
    BY <1>8, <1>10
  <2> HIDE DEF l, old
  <2>4. QED
    BY <1>2, <1>3, <1>7, <2>1, <2>2, <2>3, HeldSwaps
<1>12. StateType'
  BY <1>1, <1>2, <1>7, <1>9, <1>10 DEF StateType, ObsKept
<1>13. QED
  BY <1>7, <1>10, <1>11, <1>12 DEF Inv

(* What is taken out of a list that is in use.                             *)
LEMMA ItemsTaken ==
  ASSUME MemOK(mem), NEW l \in InUse(mem), Items(mem, l) # << >>,
         NEW m, m = [mem EXCEPT !.heap[l].items = Tail(@)]
  PROVE  Written(mem, m, l, Tail(Items(mem, l)))
BY TailWrites DEF Items

LEMMA ItemKeepsInv ==
  ASSUME Inv, Item
  PROVE  Inv'
<1> DEFINE n == Len(frames)
           l == Top.list
           f == [Top EXCEPT !.at = @ + 1]
<1>1. /\ frames # << >> /\ Top.call = "pop_all" /\ Top.left = << >>
      /\ ~Finished
      /\ frames' = [frames EXCEPT ![n].at = @ + 1]
      /\ mem' = IF Streaming THEN mem
                ELSE [mem EXCEPT !.heap[l].items = Tail(@)]
      /\ obs' = obs /\ lent' = lent /\ pushes' = pushes
      /\ strayed' = strayed \/ strayed' = strayed \union {Top.o}
  BY DEF Item, Emitting, Stray
<1> PICK o : o = Top.o
  OBVIOUS
<1>2. /\ obs \in [ObsIds -> ObsType] /\ frames \in Seq(FrameType)
      /\ lent \subseteq Made /\ strayed \subseteq Made /\ pushes \in 0..MaxPushes
      /\ LinksApart /\ Divided(Held, InUse(mem)) /\ MemOK(mem)
      /\ Len(mem.blocks) <= MaxBlocks /\ DrainsData
  BY DEF Inv, StateType
<1>3. /\ n \in DOMAIN frames /\ Top = frames[n] /\ Top \in FrameType /\ Top.at \in Nat
      /\ n \in Draining /\ o \in Made /\ o \in ObsIds /\ l \in InUse(mem)
      /\ FrameFits(Top, obs) /\ \A x : Current(o, x) <=> x = l
  BY <1>1, TopWorks
<1>4. /\ f \in FrameType /\ f.o = o /\ f.call = "pop_all" /\ f.list = l
      /\ f.left = Top.left /\ frames' = [frames EXCEPT ![n] = f]
  <2>1. f \in FrameType /\ f.o = o /\ f.call = "pop_all" /\ f.list = l /\ f.left = Top.left
    <3> PICK t : t = Top
      OBVIOUS
    <3>1. t \in FrameType /\ t.at \in Nat /\ t.call = "pop_all" /\ t.o = o
      BY <1>1, <1>3
    <3>2. f = [t EXCEPT !.at = t.at + 1] /\ t.list = l /\ t.left = Top.left
      OBVIOUS
    <3> HIDE DEF f, l
    <3>3. QED
      BY <3>1, <3>2 DEF FrameType
  <2>2. frames' = [frames EXCEPT ![n] = f]
    BY <1>1, <1>2, <1>3
  <2>3. QED
    BY <2>1, <2>2
<1> HIDE DEF f
<1>5. Made' = Made /\ OthersStay(o)
  BY <1>1, <1>2 DEF OthersStay, ObsKept, Made
<1>6. TopBecomes(o, f)
  <2>1. FrameFits(f, obs')
    BY <1>1, <1>3, <1>4 DEF FrameFits
  <2>2. f.left = << >> /\ ~MergeStreams(obs'[o].chain) => obs'[o].data = f.list
    BY <1>1, <1>2, <1>3, <1>4 DEF DrainsData
  <2>3. QED
    BY <1>4, <2>1, <2>2 DEF TopBecomes
<1>7. /\ frames' \in Seq(FrameType) /\ FramesFit' /\ OneCallEach'
      /\ DrainsData' /\ ChainsGiven'
      /\ \A p \in Made : \A x : Current(p, x)' <=> Current(p, x)
  <2>1. PICK g : g = f
    OBVIOUS
  <2>2. /\ frames' \in Seq(FrameType) /\ FramesFit' /\ OneCallEach'
        /\ DrainsData' /\ ChainsGiven'
        /\ \A x : Current(o, x)' <=> x = g.list
        /\ \A p \in Made : p # o => \A x : Current(p, x)' <=> Current(p, x)
    BY <1>1, <1>5, <1>6, <2>1, TopChanges
  <2>3. QED
    BY <1>3, <1>4, <2>1, <2>2
<1>8. MemOK(mem') /\ InUse(mem') = InUse(mem) /\ mem'.blocks = mem.blocks
  <2>1. CASE Streaming
    BY <1>1, <1>2, <2>1
  <2>2. CASE ~Streaming
    <3>1. Items(mem, l) # << >>
      BY <1>1, <2>2 DEF Finished, Here
    <3>2. Written(mem, mem', l, Tail(Items(mem, l)))
      BY <1>1, <1>2, <1>3, <2>2, <3>1, ItemsTaken
    <3>3. QED
      BY <3>2 DEF Written
  <2>3. QED
    BY <2>1, <2>2
<1>9. Divided(Held, InUse(mem))' /\ LinksApart'
  <2>1. \A p \in Made : obs'[p].links = obs[p].links
    BY <1>1
  <2>2. QED
    BY <1>2, <1>5, <1>7, <1>8, <2>1, HeldStays
<1>10. StateType'
  BY <1>1, <1>2, <1>3, <1>5, <1>7, <1>8 DEF StateType
<1>11. QED
  BY <1>7, <1>8, <1>9, <1>10 DEF Inv

LEMMA DrainEndKeepsInv ==
  ASSUME Inv, DrainEnd
  PROVE  Inv'
<1> DEFINE l == Top.list
           n == Len(frames)
<1>1. /\ frames # << >> /\ Top.call = "pop_all" /\ Top.left = << >>
      /\ ~Streaming
      /\ frames' = Front(frames)
      /\ mem' = IF Ended THEN [mem EXCEPT !.heap[l].items = Tail(@)] ELSE mem
      /\ obs' = [obs EXCEPT ![Top.o].complete = Ended]
      /\ lent' = lent /\ strayed' = strayed /\ pushes' = pushes
  BY DEF DrainEnd, Emitting
<1> PICK o : o = Top.o
  OBVIOUS
<1>2. /\ obs \in [ObsIds -> ObsType] /\ frames \in Seq(FrameType)
      /\ lent \subseteq Made /\ strayed \subseteq Made /\ pushes \in 0..MaxPushes
      /\ LinksApart /\ Divided(Held, InUse(mem)) /\ MemOK(mem)
      /\ Len(mem.blocks) <= MaxBlocks /\ DrainsData
  BY DEF Inv, StateType
<1>3. /\ n \in Draining /\ Top = frames[n]
      /\ o \in Made /\ o \in ObsIds /\ l \in InUse(mem)
      /\ obs[o] \in ObsType /\ \A x : Current(o, x) <=> x = l
  BY <1>1, TopWorks
<1>4. obs[o].data = l
  BY <1>1, <1>2, <1>3 DEF DrainsData, Streaming
<1>5. /\ obs' \in [ObsIds -> ObsType]
      /\ \A p \in ObsIds : p # o => obs'[p] = obs[p]
      /\ obs'[o].chain = obs[o].chain /\ obs'[o].outer = obs[o].outer
      /\ obs'[o].links = obs[o].links /\ obs'[o].data = l
  <2> DEFINE done == Ended
             r == [obs[o] EXCEPT !.complete = done]
  <2>1. Ended \in BOOLEAN
    BY DEF Ended
  <2>2. obs' = [obs EXCEPT ![o] = r]
    BY <1>1
  <2> HIDE DEF done
  <2>3. /\ r \in ObsType /\ r.data = l /\ r.chain = obs[o].chain
        /\ r.outer = obs[o].outer /\ r.links = obs[o].links
    BY <1>3, <1>4, <2>1 DEF ObsType, done
  <2> HIDE DEF r
  <2>4. QED
    BY <1>2, <1>3, <2>2, <2>3
<1>6. ObsKept /\ OthersStay(o) /\ Made' = Made
  <2>1. l # NoList
    BY <1>3, <1>4 DEF Made
  <2>2. Made' = Made
    BY <1>3, <1>5, <2>1 DEF Made
  <2>3. ObsKept
    BY <1>3, <1>5, <2>2 DEF ObsKept, Made
  <2>4. QED
    BY <1>1, <1>5, <2>2, <2>3 DEF OthersStay
<1>7. /\ frames' \in Seq(FrameType) /\ FramesFit' /\ OneCallEach'
      /\ DrainsData' /\ ChainsGiven'
      /\ \A x : Current(o, x)' <=> x = obs'[o].data
      /\ \A p \in Made : p # o => \A x : Current(p, x)' <=> Current(p, x)
  BY <1>1, <1>6, TopReturns
<1>8. MemOK(mem') /\ InUse(mem') = InUse(mem) /\ mem'.blocks = mem.blocks
  <2>1. CASE ~Ended
    BY <1>1, <1>2, <2>1
  <2>2. CASE Ended
    <3>1. Items(mem, l) # << >>
      BY <1>1, <2>2 DEF Ended, Here
    <3>2. Written(mem, mem', l, Tail(Items(mem, l)))
      BY <1>1, <1>2, <1>3, <2>2, <3>1, ItemsTaken
    <3>3. QED
      BY <3>2 DEF Written
  <2>3. QED
    BY <2>1, <2>2
<1>9. Divided(Held, InUse(mem))' /\ LinksApart'
  <2>1. \A p \in Made : obs'[p].links = obs[p].links
    BY <1>5 DEF Made
  <2>2. \A p \in Made : \A x : Current(p, x)' <=> Current(p, x)
    BY <1>3, <1>5, <1>7
  <2>3. QED
    BY <1>2, <1>6, <1>8, <2>1, <2>2, HeldStays
<1>10. StateType'
  BY <1>1, <1>2, <1>5, <1>6, <1>7, <1>8 DEF StateType
<1>11. QED
  BY <1>7, <1>8, <1>9, <1>10 DEF Inv

-----------------------------------------------------------------------------
(***************************************************************************)
(* The actions.                                                            *)
(***************************************************************************)
LEMMA ArgumentsFit ==
  ASSUME NEW arg \in Arguments
  PROVE  /\ arg[1] \in Chains /\ arg[2] \in ObsIds \union {NoList}
         /\ arg[2] # NoList => arg[2] \in Made \ Running
BY DEF Arguments

LEMMA MakeRangeKeepsInv ==
  ASSUME Inv, NEW o \in ObsIds, NEW n \in Lengths, NEW arg \in Arguments,
         MakeRange(o, n, arg)
  PROVE  Inv'
<1> DEFINE new == InitList(mem, 2)
           items == [i \in 1..n |-> Plain]
           d == [new EXCEPT !.mem = Fill(new.mem, new.list, items)]
<1>1. /\ Callable /\ Fresh(mem) # {} /\ o \notin Made
      /\ Make(o, d, FALSE, arg, {arg[2]})
  BY DEF MakeRange, Makeable
<1>2. MemOK(mem) /\ Len(mem.blocks) <= MaxBlocks
  BY DEF Inv, StateType
<1>3. n \in Nat /\ items \in Seq(ItemsIn(mem))
  <2>1. n \in Nat
    OBVIOUS
  <2>2. QED
    BY <2>1 DEF ItemsIn
<1>4. d.list = new.list /\ d.mem = Fill(new.mem, new.list, items)
  BY DEF InitList
<1>5. Makes(mem, d.mem, d.list) /\ d.mem.blocks = mem.blocks
  <2> HIDE DEF items, d
  <2> QED BY <1>1, <1>2, <1>3, <1>4, MakesItems
<1>6. {arg[2]} \ {NoList} \subseteq Made
  BY ArgumentsFit
<1>7. PICK e : e = d
  OBVIOUS
<1> HIDE DEF d
<1>8. QED
  BY <1>1, <1>2, <1>5, <1>6, <1>7, MakeKeepsInv

LEMMA MakeZipKeepsInv ==
  ASSUME Inv, NEW o \in ObsIds, NEW a \in Made, NEW b \in Made,
         NEW arg \in Arguments, MakeZip(o, a, b, arg)
  PROVE  Inv'
<1> DEFINE left == obs[a].data
           right == obs[b].data
           n == IF Len(Active(mem, left)) <= Len(Active(mem, right))
                THEN Len(Active(mem, left)) ELSE Len(Active(mem, right))
           new == InitList(mem, 2)
           firsts(l) == {Active(mem, l)[i] : i \in 1..n} \ {Plain, Done}
           refs == firsts(left) \union firsts(right)
           d == [new EXCEPT !.mem = FillPairs(new.mem, new.list, n, refs)]
<1>1. /\ Callable /\ Fresh(mem) # {} /\ o \notin Made
      /\ Len(mem.blocks) < MaxBlocks
      /\ Make(o, d, TRUE, arg, {a, b, arg[2]})
  BY DEF MakeZip, Makeable
<1>2. MemOK(mem) /\ Len(mem.blocks) <= MaxBlocks /\ obs \in [ObsIds -> ObsType]
  BY DEF Inv, StateType
<1>3. left \in ListIds /\ right \in ListIds
  BY <1>2 DEF Made, ObsType
<1>4. /\ n \in Nat /\ n <= Len(Active(mem, left)) /\ n <= Len(Active(mem, right))
  BY <1>2, <1>3, ActiveItems
<1>5. refs \subseteq DOMAIN mem.blocks
  <2>1. ASSUME NEW l \in ListIds, n <= Len(Active(mem, l))
        PROVE  firsts(l) \subseteq DOMAIN mem.blocks
    <3>1. Active(mem, l) \in Seq(ItemsIn(mem))
      BY <1>2, ActiveItems
    <3> HIDE DEF n
    <3>2. \A i \in 1..n : Active(mem, l)[i] \in ItemsIn(mem)
      BY <1>4, <2>1, <3>1
    <3>3. QED
      BY <3>2 DEF ItemsIn
  <2>2. QED
    BY <1>3, <1>4, <2>1
<1> HIDE DEF n, refs
<1>6. d.list = new.list /\ d.mem = FillPairs(new.mem, new.list, n, refs)
  BY DEF InitList
<1>7. MakesWithPairs(mem, d.mem, d.list, n, refs)
  <2>1. MakesWithPairs(mem, FillPairs(new.mem, new.list, n, refs), new.list, n, refs)
    BY <1>1, <1>2, <1>4, <1>5, MakesPairs
  <2> HIDE DEF d, new
  <2>2. QED
    BY <1>6, <2>1
<1>8. Makes(mem, d.mem, d.list) /\ Len(d.mem.blocks) <= MaxBlocks
  <2> HIDE DEF d
  <2>1. Len(Append(mem.blocks, [live |-> TRUE, refs |-> refs])) = Len(mem.blocks) + 1
        /\ Len(mem.blocks) \in Nat
    BY <1>2 DEF MemOK, MemType
  <2>2. d.mem.blocks = mem.blocks \/ Len(d.mem.blocks) = Len(mem.blocks) + 1
    BY <1>7, <2>1 DEF MakesWithPairs
  <2>3. QED
    BY <1>1, <1>2, <1>7, <2>1, <2>2 DEF MakesWithPairs
<1>9. {a, b, arg[2]} \ {NoList} \subseteq Made
  BY ArgumentsFit
<1>10. PICK e : e = d
  OBVIOUS
<1> HIDE DEF d
<1>11. QED
  BY <1>1, <1>8, <1>9, <1>10, MakeKeepsInv

LEMMA SubscribeKeepsInv ==
  ASSUME Inv, NEW o, Subscribe(o)
  PROVE  Inv' /\ Starts(o)
<1>1. MemOK(mem) /\ Len(mem.blocks) <= MaxBlocks /\ pushes \in 0..MaxPushes
  BY DEF Inv, StateType
<1>2. PopAll(o, mem) /\ pushes' = pushes
  BY DEF Subscribe
<1>3. PICK m : m = mem
  OBVIOUS
<1>4. QED
  BY <1>1, <1>2, <1>3, PopAllKeepsInv

LEMMA PushWrites ==
  ASSUME Inv, NEW o \in Made, o \notin Running
  PROVE  LET l == obs[o].data
             items == Append(Items(mem, l), Plain)
         IN  Written(mem, Fill(mem, l, items), l, items)
<1> DEFINE l == obs[o].data
           items == Append(Items(mem, l), Plain)
<1>1. MemOK(mem) /\ Divided(Held, InUse(mem))
  BY DEF Inv
<1>2. Current(o, l)
  BY DEF Current
<1>3. l \in InUse(mem)
  BY <1>1, <1>2, CurrentInUse
<1>4. items \in Seq(ItemsIn(mem))
  <2>1. /\ Items(mem, l) \in Seq(Int)
        /\ \A i \in DOMAIN Items(mem, l) : Items(mem, l)[i] \in ItemsIn(mem)
    BY <1>1, <1>3, ListInUse DEF Items, ListType
  <2>2. Items(mem, l) \in Seq(ItemsIn(mem)) /\ Plain \in ItemsIn(mem)
    BY <2>1 DEF ItemsIn
  <2>3. QED
    BY <2>2, AppendAdds
<1>5. QED
  BY <1>1, <1>3, <1>4, FillWrites

LEMMA PushKeepsInv ==
  ASSUME Inv, NEW o, Push(o)
  PROVE  Inv' /\ Starts(o)
<1> DEFINE l == obs[o].data
           items == Append(Items(mem, l), Plain)
           full == Fill(mem, l, items)
<1>1. pushes < MaxPushes /\ pushes' = pushes + 1 /\ PopAll(o, full)
  BY DEF Push
<1>2. Len(mem.blocks) <= MaxBlocks /\ pushes \in 0..MaxPushes
  BY DEF Inv, StateType
<1>3. o \in Made /\ o \notin Running
  BY <1>1 DEF PopAll
<1>4. Written(mem, full, l, items)
  BY <1>3, PushWrites
<1> HIDE DEF full
<1>5. MemOK(full) /\ InUse(full) = InUse(mem) /\ Len(full.blocks) <= MaxBlocks
  BY <1>2, <1>4 DEF Written
<1>6. pushes' \in 0..MaxPushes
  BY <1>1, <1>2
<1>7. PICK m : m = full
  OBVIOUS
<1>8. QED
  BY <1>1, <1>5, <1>6, <1>7, PopAllKeepsInv

(* What the stages make of a list.                                         *)
LEMMA SubsequencesFit ==
  ASSUME NEW S, NEW s \in Seq(S), NEW t \in Subsequences(s)
  PROVE  /\ t \in Seq(S)
         /\ \A i \in DOMAIN t : t[i] \in ToSet(s)
         /\ DoneLast(s) => DoneLast(t)
<1>0. PICK n \in 0..Len(s) :
        t \in {[i \in 1..n |-> s[at[i]]] :
               at \in {f \in [1..n -> DOMAIN s] :
                         \A i, j \in 1..n : i < j => f[i] < f[j]}}
  BY DEF Subsequences
<1>1. PICK at \in {f \in [1..n -> DOMAIN s] :
                     \A i, j \in 1..n : i < j => f[i] < f[j]} :
        t = [i \in 1..n |-> s[at[i]]]
  BY <1>0
<1>2. n \in Nat /\ \A i \in 1..n : at[i] \in DOMAIN s
  OBVIOUS
<1>3. \A i \in 1..n : t[i] = s[at[i]] /\ s[at[i]] \in S
  BY <1>1, <1>2
<1>4. t \in Seq(S) /\ DOMAIN t = 1..n
  BY <1>1, <1>2, <1>3
<1>5. \A i \in DOMAIN t : t[i] \in ToSet(s)
  BY <1>2, <1>3, <1>4 DEF ToSet
<1>6. DoneLast(s) => DoneLast(t)
  <2>1. \A i, j \in 1..n : i < j => at[i] < at[j]
    BY <1>1
  <2>2. QED
    BY <1>2, <1>3, <1>4, <2>1 DEF DoneLast
<1>7. QED
  BY <1>4, <1>5, <1>6

LEMMA OutputsFit ==
  ASSUME NEW S, Plain \in S, Done \in S, NEW s \in Seq(S),
         NEW op \in {"filter", "map", "take"}, NEW t \in Outputs(op, s)
  PROVE  /\ t \in Seq(S)
         /\ \A i \in DOMAIN t : t[i] \in ToSet(s) \union {Plain, Done}
         /\ op = "map" => \A i \in DOMAIN t : t[i] = Plain
         /\ DoneLast(s) => DoneLast(t)
<1>1. CASE op = "filter"
  BY <1>1, SubsequencesFit DEF Outputs
<1>2. CASE op = "map"
  <2>1. PICK n \in BeforeDone(s) : t = [i \in 1..n |-> Plain]
    BY <1>2 DEF Outputs
  <2>2. n \in Nat
    BY DEF BeforeDone
  <2>3. QED
    BY <2>1, <2>2 DEF DoneLast
<1>3. CASE op = "take"
  <2>1. t = s \/ \E n \in DOMAIN s : t = Append(SubSeq(s, 1, n), Done)
    BY <1>3 DEF Outputs
  <2>2. CASE t = s
    BY <1>3, <2>2 DEF ToSet
  <2>3. ASSUME NEW n \in DOMAIN s, t = Append(SubSeq(s, 1, n), Done)
        PROVE  /\ t \in Seq(S)
               /\ \A i \in DOMAIN t : t[i] \in ToSet(s) \union {Plain, Done}
               /\ DoneLast(s) => DoneLast(t)
    <3>1. n \in Nat /\ 1..n \subseteq DOMAIN s
      OBVIOUS
    <3>2. /\ SubSeq(s, 1, n) \in Seq(S) /\ Len(SubSeq(s, 1, n)) = n
          /\ \A i \in 1..n : SubSeq(s, 1, n)[i] = s[i]
      BY <3>1
    <3>3. /\ t \in Seq(S) /\ DOMAIN t = 1..(n + 1) /\ t[n + 1] = Done
          /\ \A i \in 1..n : t[i] = s[i]
      BY <2>3, <3>2, AppendAdds
    <3>4. \A i \in 1..(n + 1) : i \in 1..n \/ i = n + 1
      BY <3>1
    <3>5. \A i \in 1..n : s[i] \in ToSet(s)
      BY <3>1 DEF ToSet
    <3>6. ASSUME DoneLast(s) PROVE DoneLast(t)
      <4>1. SUFFICES ASSUME NEW i \in 1..(n + 1), NEW j \in 1..(n + 1),
                            i < j, t[i] = Done
                     PROVE  t[j] = Done
        BY <3>3 DEF DoneLast
      <4>2. CASE j = n + 1
        BY <3>3, <4>2
      <4>3. CASE j # n + 1
        <5>1. i \in 1..n /\ j \in 1..n
          BY <3>1, <4>1, <4>3
        <5>2. QED
          BY <3>1, <3>3, <3>6, <4>1, <5>1 DEF DoneLast
      <4>4. QED
        BY <4>2, <4>3
    <3>7. QED
      BY <3>3, <3>4, <3>5, <3>6
  <2>4. QED
    BY <1>3, <2>1, <2>2, <2>3
<1>4. QED
  BY <1>1, <1>2, <1>3

LEMMA ItemsTyped ==
  ASSUME MemOK(mem), NEW l \in ListIds
  PROVE  /\ Items(mem, l) \in Seq(ItemsIn(mem)) /\ Len(Items(mem, l)) \in Nat
         /\ DOMAIN Items(mem, l) = 1..Len(Items(mem, l))
<1>1. mem \in MemType /\ HeapFits(mem)
  BY DEF MemOK
<1>2. Items(mem, l) \in Seq(Int)
  BY <1>1 DEF Items, MemType, ListType
<1>3. \A i \in DOMAIN Items(mem, l) : Items(mem, l)[i] \in ItemsIn(mem)
  BY <1>1 DEF HeapFits, Items
<1>4. QED
  BY <1>2, <1>3

(* A streaming or generic stage and the list it makes.                     *)
LEMMA ApplyStageMakes ==
  ASSUME Inv, ApplyStage
  PROVE  LET op == Head(Top.left)
             s == Items(mem, Top.list)
         IN  /\ op \in {"filter", "map", "take"}
             /\ s \in Seq(ItemsIn(mem)) /\ Top.list \in ListIds
             /\ \E out \in Outputs(op, s) : \E new :
                  /\ Replace(new) /\ Makes(mem, new.mem, new.list)
                  /\ new.mem.heap[new.list].items = out
                  /\ new.mem.heap[new.list].block = NoBlock
                  /\ new.mem.blocks = mem.blocks
<1> DEFINE op == Head(Top.left)
           s == Items(mem, Top.list)
           take == InitList(mem, IF op = "take" THEN 2 ELSE Len(s))
<1>1. /\ frames # << >> /\ Top.call = "pop_all" /\ Top.left # << >>
      /\ op # "mergeMap" /\ Fresh(mem) # {} /\ MemOK(mem)
  BY DEF ApplyStage, AtStage, Inv
<1>2. Top.left \in Seq(Ops) /\ Top.list \in ListIds
  BY <1>1, TopWorks
<1>3. op \in {"filter", "map", "take"}
  BY <1>1, <1>2 DEF Ops
<1>4. s \in Seq(ItemsIn(mem)) /\ Len(s) \in Nat
  BY <1>1, <1>2, ItemsTyped
<1>5. PICK out \in Outputs(op, s) :
        Replace([take EXCEPT !.mem = Fill(take.mem, take.list, out)])
  BY DEF ApplyStage
<1>6. out \in Seq(ItemsIn(mem))
  <2>1. Plain \in ItemsIn(mem) /\ Done \in ItemsIn(mem)
    BY DEF ItemsIn
  <2> HIDE DEF op, s
  <2>2. QED
    BY <1>3, <1>4, <2>1, OutputsFit
<1> DEFINE c == IF op = "take" THEN 2 ELSE Len(s)
           new == [take EXCEPT !.mem = Fill(take.mem, take.list, out)]
<1>7. c \in Nat
  BY <1>4
<1>8. new.list = take.list /\ new.mem = Fill(take.mem, take.list, out)
  BY DEF InitList
<1>9. /\ Makes(mem, Fill(take.mem, take.list, out), take.list)
      /\ Fill(take.mem, take.list, out).heap[take.list].items = out
      /\ Fill(take.mem, take.list, out).heap[take.list].block = NoBlock
      /\ Fill(take.mem, take.list, out).blocks = mem.blocks
  <2> HIDE DEF op, s
  <2> QED BY <1>1, <1>6, <1>7, MakesItems
<1>10. /\ Replace(new) /\ Makes(mem, new.mem, new.list)
       /\ new.mem.heap[new.list].items = out
       /\ new.mem.heap[new.list].block = NoBlock
       /\ new.mem.blocks = mem.blocks
  <2> HIDE DEF take
  <2> QED BY <1>5, <1>8, <1>9
<1>11. \E x : /\ Replace(x) /\ Makes(mem, x.mem, x.list)
              /\ x.mem.heap[x.list].items = out
              /\ x.mem.heap[x.list].block = NoBlock
              /\ x.mem.blocks = mem.blocks
  <2> HIDE DEF new
  <2> QED BY <1>10
<1>12. QED
  BY <1>2, <1>3, <1>4, <1>11

LEMMA ApplyStageKeepsInv ==
  ASSUME Inv, ApplyStage
  PROVE  Inv'
<1>1. PICK new : /\ Replace(new) /\ Makes(mem, new.mem, new.list)
                 /\ new.mem.blocks = mem.blocks
  BY ApplyStageMakes
<1>2. AtStage /\ Len(mem.blocks) <= MaxBlocks
  BY DEF ApplyStage, Inv, StateType
<1>3. QED
  BY <1>1, <1>2, ReplaceKeepsInv

(* mergeMap, whose outer observable was lent to it.                        *)
LEMMA ApplyMergeMapMakes ==
  ASSUME Inv, ApplyMergeMap
  PROVE  LET outer == obs[obs[Top.o].outer].data
             count == Len(Active(mem, outer)) * Len(Active(mem, Top.list))
         IN  /\ obs[Top.o].outer \in lent /\ outer \in ListIds /\ Top.list \in ListIds
             /\ count \in Nat /\ MergeRefs(mem, Top.list, outer) \subseteq DOMAIN mem.blocks
             /\ \E new : /\ Replace(new)
                         /\ MakesWithPairs(mem, new.mem, new.list, count,
                                           MergeRefs(mem, Top.list, outer))
<1> DEFINE outer == obs[obs[Top.o].outer].data
           new == MergeMap(mem, Top.list, outer)
<1>1. /\ frames # << >> /\ Top.call = "pop_all" /\ Top.left # << >>
      /\ Head(Top.left) = "mergeMap" /\ Fresh(mem) # {} /\ MemOK(mem)
      /\ Replace(new)
  BY DEF ApplyMergeMap, AtStage, Inv
<1>2. /\ Top.left \in Seq(Ops) /\ Top.list \in ListIds /\ Top.o \in Made
      /\ FrameFits(Top, obs)
  BY <1>1, TopWorks
<1>3. "mergeMap" \in ToSet(obs[Top.o].chain)
  <2>1. "mergeMap" \in ToSet(Top.left)
    BY <1>1, <1>2 DEF ToSet
  <2>2. QED
    BY <1>1, <1>2, <2>1 DEF FrameFits
<1>4. obs[Top.o].outer \in lent
  BY <1>2, <1>3 DEF Inv, ChainsGiven
<1>5. outer \in ListIds
  <2>1. obs \in [ObsIds -> ObsType] /\ obs[Top.o].outer \in Made
    BY <1>4 DEF Inv, StateType
  <2>2. QED
    BY <2>1 DEF Made, ObsType
<1> HIDE DEF new
<1>6. /\ MakesWithPairs(mem, new.mem, new.list,
           Len(Active(mem, outer)) * Len(Active(mem, Top.list)),
           MergeRefs(mem, Top.list, outer))
      /\ Len(Active(mem, outer)) * Len(Active(mem, Top.list)) \in Nat
      /\ MergeRefs(mem, Top.list, outer) \subseteq DOMAIN mem.blocks
  <2> HIDE DEF outer
  <2> QED BY <1>1, <1>2, <1>5, MergeMapMakes DEF new
<1>7. QED
  BY <1>1, <1>2, <1>4, <1>5, <1>6

LEMMA ApplyMergeMapKeepsInv ==
  ASSUME Inv, ApplyMergeMap
  PROVE  Inv'
<1>1. PICK new, count, refs :
        Replace(new) /\ MakesWithPairs(mem, new.mem, new.list, count, refs)
             /\ count \in Nat
  BY ApplyMergeMapMakes
<1>2. /\ AtStage /\ Len(mem.blocks) < MaxBlocks /\ Len(mem.blocks) \in Nat
      /\ mem.blocks \in Seq(BlockType)
  BY DEF ApplyMergeMap, Inv, MemOK, MemType
<1>3. Makes(mem, new.mem, new.list)
  BY <1>1 DEF MakesWithPairs
<1>4. Len(new.mem.blocks) <= MaxBlocks
  <2>1. Len(Append(mem.blocks, [live |-> TRUE, refs |-> refs])) = Len(mem.blocks) + 1
    BY <1>2
  <2>2. QED
    BY <1>1, <1>2, <2>1 DEF MakesWithPairs
<1>5. QED
  BY <1>1, <1>2, <1>3, <1>4, ReplaceKeepsInv

LEMMA InitFits ==
  ASSUME Init
  PROVE  Inv
<1>1. /\ mem = [heap |-> [l \in ListIds |-> Unused], pool |-> << >>, blocks |-> << >>]
      /\ obs \in [ObsIds -> ObsType] /\ \A o \in ObsIds : obs[o].data = NoList
      /\ lent = {} /\ frames = << >> /\ strayed = {} /\ pushes = 0
  BY DEF Init, ObsType
<1>2. /\ \A l \in ListIds : mem.heap[l] = Unused
      /\ mem.pool = << >> /\ mem.blocks = << >>
  BY <1>1
<1>3. Unused \in ListType /\ ~Unused.used /\ Unused.items = << >> /\ Unused.block = NoBlock
      /\ Unused.cap = 0
  BY DEF Unused, ListType
<1>4. mem \in MemType
  <2> HIDE DEF Unused
  <2> QED BY <1>1, <1>3 DEF MemType
<1>5. HeapFits(mem) /\ RefsFit(mem) /\ PoolFits(mem) /\ BlocksFit(mem)
  <2>1. DOMAIN mem.blocks = {} /\ Len(mem.blocks) = 0 /\ DOMAIN mem.pool = {} /\ Len(mem.pool) = 0
    BY <1>2
  <2>2. HeapFits(mem)
    BY <1>2, <1>3, <2>1 DEF HeapFits
  <2>3. RefsFit(mem) /\ PoolFits(mem)
    BY <2>1 DEF RefsFit, PoolFits
  <2>4. BlocksFit(mem)
    BY <1>2, <1>3, <2>1 DEF BlocksFit
  <2>5. QED
    BY <2>2, <2>3, <2>4
<1>6. MemOK(mem)
  BY <1>4, <1>5 DEF MemOK
<1>7. Made = {}
  BY <1>1 DEF Made
<1>8. DOMAIN frames = {} /\ Draining = {}
  BY <1>1 DEF Draining
<1>9. InUse(mem) = {} /\ \A o \in ObsIds : Held[o] = {}
  BY <1>2, <1>3, <1>7 DEF InUse, Held
<1>10. Divided(Held, InUse(mem))
  BY <1>9 DEF Divided
<1>11. StateType
  <2>1. Len(mem.blocks) = 0 /\ frames \in Seq(FrameType)
    BY <1>1, <1>2
  <2>2. QED
    BY <1>1, <1>7, <2>1 DEF StateType
<1>12. QED
  BY <1>6, <1>7, <1>8, <1>10, <1>11
  DEF Inv, ChainsGiven, FramesFit, OneCallEach, DrainsData, LinksApart

LEMMA NextKeepsInv ==
  ASSUME Inv, [Next]_vars
  PROVE  Inv'
<1>1. CASE \E o \in ObsIds, n \in Lengths, arg \in Arguments : MakeRange(o, n, arg)
  BY <1>1, MakeRangeKeepsInv
<1>2. CASE \E o \in ObsIds, a, b \in Made, arg \in Arguments : MakeZip(o, a, b, arg)
  BY <1>2, MakeZipKeepsInv
<1>3. CASE \E o \in Made : Subscribe(o) \/ Push(o)
  BY <1>3, SubscribeKeepsInv, PushKeepsInv
<1>4. CASE PipeStage
  BY <1>4, PipeStageKeepsInv
<1>5. CASE ApplyStage
  BY <1>5, ApplyStageKeepsInv
<1>6. CASE ApplyMergeMap
  BY <1>6, ApplyMergeMapKeepsInv
<1>7. CASE Item
  BY <1>7, ItemKeepsInv
<1>8. CASE StreamEnd
  BY <1>8, StreamEndKeepsInv
<1>9. CASE DrainEnd
  BY <1>9, DrainEndKeepsInv
<1>10. CASE UNCHANGED vars
  <2>1. /\ mem' = mem /\ obs' = obs /\ lent' = lent /\ frames' = frames
        /\ strayed' = strayed /\ pushes' = pushes
    BY <1>10 DEF vars
  <2>2. Made' = Made /\ Draining' = Draining
    BY <2>1 DEF Made, Draining
  <2>3. Running' = Running /\ \A o, l : Works(o, l)' <=> Works(o, l)
    BY <2>1, <2>2 DEF Running, Works
  <2>4. \A o, l : Current(o, l)' <=> Current(o, l)
    BY <2>1, <2>3 DEF Current
  <2>5. Held' = Held
    BY <2>1, <2>2, <2>3 DEF Held, HeldBy
  <2>6. StateType' /\ ChainsGiven' /\ FramesFit' /\ OneCallEach'
    BY <2>1, <2>2 DEF Inv, StateType, ChainsGiven, FramesFit, OneCallEach
  <2>7. DrainsData' /\ LinksApart'
    BY <2>1, <2>2, <2>4 DEF Inv, DrainsData, LinksApart
  <2>8. QED
    BY <2>1, <2>5, <2>6, <2>7 DEF Inv
<1>11. QED
  BY <1>1, <1>2, <1>3, <1>4, <1>5, <1>6, <1>7, <1>8, <1>9, <1>10 DEF Next

THEOREM SpecInv == Spec => []Inv
<1>1. Init => Inv
  BY InitFits
<1>2. Inv /\ [Next]_vars => Inv'
  BY NextKeepsInv
<1>3. QED
  BY <1>1, <1>2, PTL DEF Spec

-----------------------------------------------------------------------------
(* The types: no list outgrows its array or points to a block that was not *)
(* allocated, and the pool keeps to LIST_POOL_MAX and to its capacity.     *)
THEOREM TypesHold == Spec => []TypeOK
<1>1. ASSUME Inv PROVE TypeOK
  <2>1. /\ MemOK(mem) /\ mem \in MemType /\ StateType /\ ChainsGiven /\ FramesFit
        /\ HeapFits(mem) /\ RefsFit(mem) /\ PoolFits(mem)
    BY <1>1 DEF Inv, MemOK
  <2>2. ASSUME NEW l \in ListIds PROVE ListOK(mem.heap[l])
    <3>1. /\ mem.heap[l] \in ListType
          /\ Len(mem.heap[l].items) <= mem.heap[l].cap
          /\ mem.heap[l].block \in 0..Len(mem.blocks)
      BY <2>1 DEF MemType, HeapFits
    <3>2. mem.heap[l].items \in Seq(ItemsOK)
      BY <2>1, ItemsTyped DEF Items, ItemsIn, ItemsOK
    <3>3. QED
      BY <3>1, <3>2 DEF ListOK, ListType
  <2>3. mem.pool \in Seq(ListIds) /\ Len(mem.pool) <= PoolMax
        /\ \A i \in DOMAIN mem.pool : mem.heap[mem.pool[i]].cap <= PoolCapacity
    BY <2>1 DEF MemType, PoolFits
  <2>4. ASSUME NEW b \in DOMAIN mem.blocks
        PROVE  mem.blocks[b] \in [live : BOOLEAN, refs : SUBSET DOMAIN mem.blocks]
    <3>1. mem.blocks[b] \in BlockType /\ mem.blocks[b].refs \subseteq DOMAIN mem.blocks
      BY <2>1 DEF MemType, RefsFit
    <3>2. QED
      BY <3>1 DEF BlockType
  <2>5. ASSUME NEW o \in ObsIds PROVE ObservableOK(obs[o])
    <3>1. obs[o] \in ObsType
      BY <2>1 DEF StateType
    <3>2. QED
      BY <3>1 DEF ObservableOK, ObsType
  <2>6. ASSUME NEW i \in DOMAIN frames PROVE FrameOK(frames[i])
    <3>1. frames[i] \in FrameType /\ FrameFits(frames[i], obs)
      BY <2>1, FramesTyped DEF StateType, FramesFit
    <3>2. frames[i].o \in Made
      BY <2>1, <3>1, FramesTyped DEF StateType, FrameFits, Made
    <3>3. QED
      BY <3>1, <3>2 DEF FrameOK, FrameType, FrameFits
  <2>7. QED
    BY <2>1, <2>2, <2>3, <2>4, <2>5, <2>6 DEF TypeOK, StateType
<1>2. QED
  BY <1>1, SpecInv, PTL

(* Every allocated list has one owner, the pool or one observable.         *)
THEOREM OneOwnerHolds == Spec => []OneOwner
<1>1. ASSUME Inv PROVE OneOwner
  <2>1. /\ MemOK(mem) /\ Divided(Held, InUse(mem)) /\ PoolFits(mem)
        /\ mem.pool \in Seq(ListIds)
    BY <1>1 DEF Inv, MemOK, MemType
  <2>2. \A o \in Made : o \in ObsIds /\ \A l : l \in HeldBy(o) <=> l \in Held[o]
    BY DEF Held, Made
  <2>3. ToSet(mem.pool) = Pooled(mem)
    BY DEF ToSet, Pooled
  <2>4. IsInjective(mem.pool)
    BY <2>1 DEF PoolFits, IsInjective
  <2>9. /\ \A o \in ObsIds : \A l : l \in Held[o] => l \in InUse(mem)
        /\ \A l \in InUse(mem) : \E o \in ObsIds : l \in Held[o]
        /\ \A o1, o2 \in ObsIds : \A l : l \in Held[o1] /\ l \in Held[o2] => o1 = o2
    BY <2>1 DEF Divided
  <2>5. \A o1, o2 \in Made : o1 # o2 => HeldBy(o1) \intersect HeldBy(o2) = {}
    <3>1. SUFFICES ASSUME NEW o1 \in Made, NEW o2 \in Made, NEW l,
                          l \in HeldBy(o1), l \in HeldBy(o2)
                   PROVE  o1 = o2
      OBVIOUS
    <3>2. QED
      BY <2>2, <2>9, <3>1
  <2> DEFINE held == UNION {HeldBy(o) : o \in Made}
  <2>6. held = InUse(mem)
    <3>1. ASSUME NEW l \in held PROVE l \in InUse(mem)
      <4>1. PICK o \in Made : l \in HeldBy(o)
        OBVIOUS
      <4>2. QED
        BY <2>2, <2>9, <4>1
    <3>2. \A l \in InUse(mem) : \E o \in Made : l \in HeldBy(o)
      BY <2>9 DEF Held
    <3>3. QED
      BY <3>1, <3>2
  <2>7. \A l \in Pooled(mem) : l \in ListIds /\ mem.heap[l].used
    BY <2>1 DEF Pooled, PoolFits
  <2>8. QED
    BY <2>3, <2>4, <2>5, <2>6, <2>7 DEF OneOwner, InUse
<1>2. QED
  BY <1>1, SpecInv, PTL

(* A payload block lives as long as the one list that owns it.             *)
THEOREM BlocksOwnedHolds == Spec => []BlocksOwned
<1>1. ASSUME Inv PROVE BlocksOwned
  <2>1. PoolFits(mem) /\ BlocksFit(mem) /\ mem \in MemType
    BY <1>1 DEF Inv, MemOK
  <2> DEFINE owners(b) == {l \in ListIds : mem.heap[l].block = b}
  <2>2. SUFFICES ASSUME NEW b \in DOMAIN mem.blocks
                 PROVE  /\ Cardinality(owners(b)) = IF mem.blocks[b].live THEN 1 ELSE 0
                        /\ owners(b) \intersect ToSet(mem.pool) = {}
    BY DEF BlocksOwned
  <2>3. b # NoBlock
    BY <2>1 DEF MemType
  <2>4. CASE mem.blocks[b].live
    <3>1. PICK l \in ListIds : mem.heap[l].block = b
      BY <2>1, <2>4 DEF BlocksFit
    <3>2. owners(b) = {l}
      BY <2>1, <2>3, <3>1 DEF BlocksFit
    <3>3. QED
      <4>1. Cardinality(owners(b)) = 1
        BY <3>2, FS_Singleton
      <4>2. \A k \in ToSet(mem.pool) : mem.heap[k].block # b
        BY <2>1, <2>3 DEF PoolFits, ToSet
      <4>3. QED
        BY <2>4, <4>1, <4>2
  <2>5. CASE ~mem.blocks[b].live
    <3>1. owners(b) = {}
      BY <2>1, <2>5 DEF BlocksFit
    <3>2. QED
      BY <2>5, <3>1, FS_EmptySet
  <2>6. QED
    BY <2>4, <2>5
<1>2. QED
  BY <1>1, SpecInv, PTL
=============================================================================
