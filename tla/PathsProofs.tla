------------------------------ MODULE PathsProofs ------------------------------
(***************************************************************************)
(* The two paths of pop_all are one function: for a chain that streams, the *)
(* compiled stages, run item by item, and the apply functions, run stage by *)
(* stage, make the same of a batch.  First what one operator does with one *)
(* item more, on either path; then a whole item through the stages, next to *)
(* the batches the apply functions hand on; last the batch, item by item.  *)
(***************************************************************************)
EXTENDS OperatorsProofs

-----------------------------------------------------------------------------
(* The two paths.  Items a batch is made of, none of them the token.       *)
Plain == Items \ {Done}

LEMMA PlainIsWhole ==
  ASSUME NEW d \in Seq(Plain)
  PROVE  UpToDone(d) = d /\ d \in Seq(Items)
<1>1. d \in Seq(Items)
  BY DEF Plain
<1>2. PICK n \in 0..Len(d) : /\ n < Len(d) => d[n + 1] = Done
                             /\ n = Len(d) => UpToDone(d) = d
  BY <1>1, UpToDoneIs
<1>3. \A i \in 1..Len(d) : d[i] # Done
  BY DEF Plain
<1>4. n = Len(d)
  BY <1>2, <1>3
<1>5. QED
  BY <1>1, <1>2, <1>4

(* The operators that read item by item: those that stream, and those that *)
(* carry a context from batch to batch without.  What becomes of one item  *)
(* x, with the context y.                                                  *)
ItemKinds ==
  {"map", "filter", "scan", "scanfrom", "distinctUntilChanged", "skipWhile"}
CarryKinds == ItemKinds \union {"mapTo", "skip", "skipUntil", "distinct"}

Keeps(stage, y, x) ==
  CASE stage.op = "filter" -> Pred(stage.arg, x)
    [] stage.op = "distinctUntilChanged" -> Key(stage.arg, x) # y
    [] stage.op = "skipWhile" -> y \/ ~Pred(stage.arg, x)
    [] stage.op = "distinct" -> Key(stage.arg, x) \notin y
    [] stage.op = "skip" -> y >= stage.arg
    [] stage.op = "skipUntil" -> y \/ x = stage.arg
    [] OTHER -> TRUE

Value(stage, y, x) ==
  CASE stage.op = "map" -> Mapper(stage.arg, x)
    [] stage.op \in {"scan", "scanfrom"} -> Accum(y, x)
    [] stage.op = "mapTo" -> stage.arg
    [] OTHER -> x

Memory(stage, y, x) ==
  CASE stage.op \in {"scan", "scanfrom"} -> Accum(y, x)
    [] stage.op = "distinctUntilChanged" -> Key(stage.arg, x)
    [] stage.op = "skipWhile" -> IF y \/ ~Pred(stage.arg, x) THEN TRUE ELSE FALSE
    [] stage.op = "distinct" -> y \union {Key(stage.arg, x)}
    [] stage.op = "skip" -> y + 1
    [] stage.op = "skipUntil" -> IF y \/ x = stage.arg THEN TRUE ELSE FALSE
    [] OTHER -> y

(* An apply function that has one item more to read.                       *)
OneMore(stage, y, d, x, isReady) ==
  LET a == Apply(stage, y, d, isReady)
  IN  Apply(stage, y, Append(d, x), isReady)
        = Result(IF Keeps(stage, a.ctx, x)
                 THEN Append(a.out, Value(stage, a.ctx, x)) ELSE a.out,
                 Memory(stage, a.ctx, x))

LEMMA OneMoreIs ==
  ASSUME NEW stage, NEW y, NEW d, NEW x, NEW isReady, NEW o, NEW z,
         Apply(stage, y, d, isReady) = Result(o, z),
         Apply(stage, y, Append(d, x), isReady)
           = Result(IF Keeps(stage, z, x) THEN Append(o, Value(stage, z, x))
                    ELSE o, Memory(stage, z, x))
  PROVE  OneMore(stage, y, d, x, isReady)
<1>1. Result(o, z).out = o /\ Result(o, z).ctx = z
  BY DEF Result
<1>2. QED
  BY <1>1 DEF OneMore

LEMMA MapOneMore ==
  ASSUME NEW stage, stage.op = "map", NEW y, NEW d \in Seq(Plain),
         NEW x \in Plain, NEW isReady
  PROVE  OneMore(stage, y, d, x, isReady)
<1> DEFINE s == Append(d, x)
           f(t) == [i \in DOMAIN t |-> Mapper(stage.arg, t[i])]
<1>1. s \in Seq(Plain)
  OBVIOUS
<1>2. UpToDone(s) = s /\ UpToDone(d) = d
  BY <1>1, PlainIsWhole
<1>3. \A t : UpToDone(t) = t => Apply(stage, y, t, isReady) = Result(f(t), y)
  BY DEF Apply, MapApply
<1>4. f(s) = Append(f(d), Mapper(stage.arg, x))
  <2>1. DOMAIN s = 1..(Len(d) + 1) /\ DOMAIN d = 1..Len(d) /\ Len(d) \in Nat
        /\ \A i \in 1..(Len(d) + 1) : s[i] = IF i = Len(d) + 1 THEN x ELSE d[i]
    OBVIOUS
  <2>2. f(s) = [i \in 1..(Len(d) + 1) |->
                  Mapper(stage.arg, IF i = Len(d) + 1 THEN x ELSE d[i])]
    BY <2>1, Zenon
  <2>3. Len(f(d)) = Len(d) /\ \A i \in 1..Len(d) : f(d)[i] = Mapper(stage.arg, d[i])
    BY <2>1
  <2>4. Append(f(d), Mapper(stage.arg, x))
          = [i \in 1..(Len(d) + 1) |->
               IF i = Len(d) + 1 THEN Mapper(stage.arg, x) ELSE f(d)[i]]
    BY <2>1, <2>3
  <2>5. QED
    BY <2>1, <2>2, <2>3, <2>4
<1>5. /\ Apply(stage, y, s, isReady) = Result(f(s), y)
      /\ Apply(stage, y, d, isReady) = Result(f(d), y)
  BY <1>2, <1>3
<1>6. Keeps(stage, y, x) /\ Memory(stage, y, x) = y
      /\ Value(stage, y, x) = Mapper(stage.arg, x)
  BY DEF Keeps, Memory, Value
<1> HIDE DEF f
<1>7. Apply(stage, y, s, isReady)
        = Result(IF Keeps(stage, y, x) THEN Append(f(d), Value(stage, y, x))
                 ELSE f(d), Memory(stage, y, x))
  BY <1>4, <1>5, <1>6
<1>8. QED
  BY <1>5, <1>7, OneMoreIs

LEMMA FilterOneMore ==
  ASSUME NEW stage, stage.op = "filter", NEW y, NEW d \in Seq(Items),
         NEW x \in Items, NEW isReady
  PROVE  OneMore(stage, y, d, x, isReady)
<1> DEFINE K(t) == FoldOf(Seq(Items), Kept(stage.arg), << >>, t)
<1>1. d \in Seq(Items) /\ x \in Items /\ Append(d, x) \in Seq(Items)
      /\ << >> \in Seq(Items)
  BY DEF Plain
<1>2. Folding(Seq(Items), Items, Kept(stage.arg), << >>, d)
  BY <1>1, KeptType DEF Folding
<1>3. /\ Apply(stage, y, d, isReady) = Result(K(d), y)
      /\ Apply(stage, y, Append(d, x), isReady) = Result(K(Append(d, x)), y)
  BY <1>1, FilterIsFold DEF Apply
<1>4. K(Append(d, x)) = Kept(stage.arg)[<< K(d), x >>] /\ K(d) \in Seq(Items)
  BY <1>1, <1>2, FoldOfAppend, FoldOfType
<1>5. Kept(stage.arg)[<< K(d), x >>]
        = IF Pred(stage.arg, x) THEN Append(K(d), x) ELSE K(d)
  BY <1>1, <1>4 DEF Kept
<1>6. /\ Keeps(stage, y, x) <=> Pred(stage.arg, x)
      /\ Memory(stage, y, x) = y /\ Value(stage, y, x) = x
  BY DEF Keeps, Memory, Value
<1> HIDE DEF K
<1>7. Apply(stage, y, Append(d, x), isReady)
        = Result(IF Keeps(stage, y, x) THEN Append(K(d), Value(stage, y, x))
                 ELSE K(d), Memory(stage, y, x))
  BY <1>3, <1>4, <1>5, <1>6
<1>8. QED
  BY <1>3, <1>7, OneMoreIs

LEMMA ScanOneMore ==
  ASSUME AccumReturns, NEW stage, stage.op \in {"scan", "scanfrom"},
         NEW y \in Items, NEW d \in Seq(Plain), NEW x \in Plain, NEW isReady
  PROVE  OneMore(stage, y, d, x, isReady)
<1> DEFINE s == Append(d, x)
           n == Len(d)
           acc(t) == FoldLeft(Accum, y, t)
           f(t) == [i \in DOMAIN t |-> acc(SubSeq(t, 1, i))]
<1>1. /\ d \in Seq(Items) /\ x \in Items /\ s \in Seq(Plain) /\ s \in Seq(Items)
      /\ n \in Nat
  BY DEF Plain
<1>2. UpToDone(s) = s /\ UpToDone(d) = d
  BY <1>1, PlainIsWhole
<1>3. /\ Apply(stage, y, s, isReady) = Result(f(s), acc(s))
      /\ Apply(stage, y, d, isReady) = Result(f(d), acc(d))
  BY <1>2 DEF Apply, ScanApply
<1>4. acc(s) = Accum(acc(d), x) /\ acc(d) \in Items
  <2> DEFINE F(t) == FoldOf(Items, Accumulated, y, t)
  <2>1. Folding(Items, Items, Accumulated, y, d)
    BY <1>1, AccumulatedType DEF Folding
  <2>2. acc(s) = F(s) /\ acc(d) = F(d)
    BY <1>1, AccumIsFold
  <2>3. F(s) = Accumulated[<< F(d), x >>] /\ F(d) \in Items
    BY <1>1, <2>1, FoldOfAppend, FoldOfType
  <2>4. QED
    BY <1>1, <2>2, <2>3 DEF Accumulated
<1>5. f(s) = Append(f(d), acc(s))
  <2>1. DOMAIN s = 1..(n + 1) /\ DOMAIN d = 1..n
    BY <1>1
  <2>2. SubSeq(s, 1, n + 1) = s
    BY <1>1, SubSeqFull
  <2>3. \A i \in 1..n : SubSeq(s, 1, i) = SubSeq(d, 1, i)
    BY <1>1
  <2> HIDE DEF acc, s
  <2>4. f(s) = [i \in 1..(n + 1) |-> IF i = n + 1 THEN acc(s) ELSE acc(SubSeq(d, 1, i))]
    <3>1. \A i \in 1..(n + 1) :
            acc(SubSeq(s, 1, i)) = IF i = n + 1 THEN acc(s) ELSE acc(SubSeq(d, 1, i))
      <4>1. ASSUME NEW i \in 1..(n + 1), i # n + 1
            PROVE  i \in 1..n
        BY <1>1, <4>1
      <4>2. QED
        BY <2>2, <2>3, <4>1
    <3>2. QED
      BY <2>1, <3>1, Zenon
  <2>5. Len(f(d)) = n /\ \A i \in 1..n : f(d)[i] = acc(SubSeq(d, 1, i))
    BY <1>1, <2>1
  <2>6. Append(f(d), acc(s))
          = [i \in 1..(n + 1) |-> IF i = n + 1 THEN acc(s) ELSE f(d)[i]]
    BY <1>1, <2>1, <2>5
  <2>7. ASSUME NEW i \in 1..(n + 1)
        PROVE  (IF i = n + 1 THEN acc(s) ELSE acc(SubSeq(d, 1, i)))
                 = IF i = n + 1 THEN acc(s) ELSE f(d)[i]
    <3>1. i # n + 1 => i \in 1..n
      BY <1>1
    <3>2. QED
      BY <2>5, <3>1
  <2>8. QED
    BY <2>4, <2>6, <2>7, Zenon
<1>6. /\ Keeps(stage, acc(d), x)
      /\ Memory(stage, acc(d), x) = Accum(acc(d), x)
      /\ Value(stage, acc(d), x) = Accum(acc(d), x)
  BY DEF Keeps, Memory, Value
<1> HIDE DEF f, acc
<1>7. Apply(stage, y, s, isReady)
        = Result(IF Keeps(stage, acc(d), x)
                 THEN Append(f(d), Value(stage, acc(d), x)) ELSE f(d),
                 Memory(stage, acc(d), x))
  BY <1>3, <1>4, <1>5, <1>6
<1>8. QED
  BY <1>3, <1>7, OneMoreIs

LEMMA ChangedOneMore ==
  ASSUME NEW stage, Returns(stage), stage.op = "distinctUntilChanged",
         NEW y \in Items, NEW d \in Seq(Items), NEW x \in Items, NEW isReady
  PROVE  OneMore(stage, y, d, x, isReady)
<1> DEFINE V == [out : Seq(Items), ctx : Items]
           s == Append(d, x)
           f == Changed(stage.arg)
           base == Result(<< >>, y)
           F(t) == FoldOf(V, f, base, t)
<1>1. /\ d \in Seq(Items) /\ x \in Items /\ s \in Seq(Items)
      /\ \A v \in Items : Key(stage.arg, v) \in Items
      /\ Result(<< >>, y) \in V
  BY DEF Plain, Returns, Result
<1>2. Folding(V, Items, f, base, d)
  BY <1>1, ChangedType DEF Folding
<1>3. Apply(stage, y, d, isReady) = F(d) /\ Apply(stage, y, s, isReady) = F(s)
  BY <1>1, DistinctUntilChangedIsFold DEF Apply
<1>4. F(s) = f[<< F(d), x >>] /\ F(d) \in V
  <2> HIDE DEF V, f, base
  <2> QED BY <1>1, <1>2, FoldOfAppend, FoldOfType
<1> HIDE DEF F, f, s
<1>5. PICK o \in Seq(Items), z \in Items : F(d) = Result(o, z)
  BY <1>4 DEF Result
<1>6. f[<< F(d), x >>]
        = IF Key(stage.arg, x) = z THEN Result(o, z)
          ELSE Result(Append(o, x), Key(stage.arg, x))
  <2>1. F(d).ctx = z /\ F(d).out = o
    BY <1>5 DEF Result
  <2>2. << F(d), x >> \in V \X Items
    BY <1>1, <1>4
  <2>3. f[<< F(d), x >>]
          = IF Key(stage.arg, x) = F(d).ctx THEN F(d)
            ELSE Result(Append(F(d).out, x), Key(stage.arg, x))
    BY <2>2 DEF f, Changed
  <2>4. QED
    BY <1>5, <2>1, <2>3
<1>7. /\ Keeps(stage, z, x) <=> Key(stage.arg, x) # z
      /\ Memory(stage, z, x) = Key(stage.arg, x) /\ Value(stage, z, x) = x
  BY DEF Keeps, Memory, Value
<1>8. Apply(stage, y, Append(d, x), isReady)
        = Result(IF Keeps(stage, z, x) THEN Append(o, Value(stage, z, x)) ELSE o,
                 Memory(stage, z, x))
  BY <1>3, <1>4, <1>6, <1>7 DEF s
<1>9. QED
  BY <1>3, <1>5, <1>8, OneMoreIs

(* Pieces of a batch that has grown by an item.                            *)
LEMMA PieceOfAppend ==
  ASSUME NEW S, NEW d \in Seq(S), NEW x \in S, NEW m \in 1..(Len(d) + 1)
  PROVE  From(Append(d, x), m) = Append(From(d, m), x)
<1>1. /\ Len(d) \in Nat /\ m \in Nat /\ Len(Append(d, x)) = Len(d) + 1
  OBVIOUS
<1>2. From(Append(d, x), m)
        = [i \in 1..(Len(d) + 2 - m) |-> Append(d, x)[i + m - 1]]
  BY <1>1 DEF From
<1>3. From(d, m) = [i \in 1..(Len(d) + 1 - m) |-> d[i + m - 1]]
      /\ Len(From(d, m)) = Len(d) + 1 - m
  BY <1>1 DEF From
<1>4. Append(From(d, m), x)
        = [i \in 1..(Len(d) + 2 - m) |->
             IF i = Len(d) + 2 - m THEN x ELSE From(d, m)[i]]
  BY <1>1, <1>3
<1>5. ASSUME NEW i \in 1..(Len(d) + 2 - m)
      PROVE  Append(d, x)[i + m - 1]
               = IF i = Len(d) + 2 - m THEN x ELSE From(d, m)[i]
  <2>1. i + m - 1 \in 1..(Len(d) + 1)
    BY <1>1
  <2>2. CASE i = Len(d) + 2 - m
    <3>1. i + m - 1 = Len(d) + 1
      BY <1>1, <2>2
    <3>2. QED
      BY <2>2, <3>1
  <2>3. CASE i # Len(d) + 2 - m
    <3>1. i \in 1..(Len(d) + 1 - m) /\ i + m - 1 \in 1..Len(d)
      BY <1>1, <2>3
    <3>2. Append(d, x)[i + m - 1] = d[i + m - 1]
      BY <3>1
    <3>3. QED
      BY <1>3, <2>3, <3>1, <3>2
  <2>4. QED
    BY <2>2, <2>3
<1>6. QED
  BY <1>2, <1>4, <1>5

(* The first of some positions, when there is one position more.           *)
LEMMA FirstOneMore ==
  ASSUME NEW k \in Nat, NEW I \in SUBSET (1..k), NEW J \in SUBSET (1..(k + 1)),
         \A i \in 1..k : i \in J <=> i \in I
  PROVE  LET n == FirstOf(I)
             m == FirstOf(J)
         IN  /\ n \in 0..k
             /\ n # 0 => m = n
             /\ n = 0 /\ k + 1 \notin J => m = 0
             /\ n = 0 /\ k + 1 \in J => m = k + 1
<1> DEFINE n == FirstOf(I)
           m == FirstOf(J)
<1>1. k + 1 \in Nat
  OBVIOUS
<1>2. /\ n \in 0..k /\ (n = 0 <=> I = {})
      /\ n # 0 => n \in I /\ \A i \in I : n <= i
  BY FirstPosition
<1>3. /\ m \in 0..(k + 1) /\ (m = 0 <=> J = {})
      /\ m # 0 => m \in J /\ \A i \in J : m <= i
  BY <1>1, FirstPosition
<1> HIDE DEF n, m
<1>4. n # 0 => m = n
  <2> SUFFICES ASSUME n # 0
               PROVE  m = n
    OBVIOUS
  <2>1. n \in 1..k /\ n \in J
    BY <1>2
  <2>2. m \in J /\ m <= n /\ m # 0
    BY <1>3, <2>1
  <2>3. m \in 1..k
    BY <1>3, <2>1, <2>2
  <2>4. m \in I
    BY <2>2, <2>3
  <2>5. n <= m
    BY <1>2, <2>4
  <2>6. QED
    BY <2>1, <2>2, <2>3, <2>5
<1>5. n = 0 => J \subseteq {k + 1}
  <2> SUFFICES ASSUME n = 0, NEW i \in J
               PROVE  i = k + 1
    OBVIOUS
  <2>1. i \in 1..(k + 1) /\ i \notin I
    BY <1>2
  <2>2. i \notin 1..k
    BY <2>1
  <2>3. QED
    BY <2>1, <2>2
<1>6. QED
  BY <1>2, <1>3, <1>4, <1>5 DEF n, m

(* Where a skipWhile stops: at the first item its callback refuses.        *)
Refused(arg, t) == {i \in 1..Len(t) : ~Pred(arg, t[i])}

LEMMA RefusedOneMore ==
  ASSUME NEW arg, NEW d \in Seq(Items), NEW x \in Items
  PROVE  LET n == FirstOf(Refused(arg, d))
             m == FirstOf(Refused(arg, Append(d, x)))
         IN  /\ n \in 0..Len(d)
             /\ n # 0 => m = n
             /\ n = 0 /\ Pred(arg, x) => m = 0
             /\ n = 0 /\ ~Pred(arg, x) => m = Len(d) + 1
<1> DEFINE I == Refused(arg, d)
           J == Refused(arg, Append(d, x))
           k == Len(d)
<1>1. /\ k \in Nat /\ I \in SUBSET (1..k) /\ J \in SUBSET (1..(k + 1))
  BY DEF Refused
<1>2. /\ \A i \in 1..k : i \in J <=> i \in I
      /\ k + 1 \in J <=> ~Pred(arg, x)
  BY <1>1 DEF Refused
<1> HIDE DEF I, J, k
<1>3. LET n == FirstOf(I)
          m == FirstOf(J)
      IN  /\ n \in 0..k
          /\ n # 0 => m = n
          /\ n = 0 /\ k + 1 \notin J => m = 0
          /\ n = 0 /\ k + 1 \in J => m = k + 1
  BY <1>1, <1>2, FirstOneMore
<1>4. QED
  BY <1>2, <1>3 DEF I, J, k

LEMMA SkipOneMore ==
  ASSUME NEW stage, stage.op = "skipWhile",
         NEW y \in BOOLEAN, NEW d \in Seq(Items), NEW x \in Items, NEW isReady
  PROVE  OneMore(stage, y, d, x, isReady)
<1> DEFINE arg == stage.arg
           s == Append(d, x)
           n == FirstOf(Refused(arg, d))
           m == FirstOf(Refused(arg, s))
<1>1. \A t : Apply(stage, y, t, isReady)
        = LET k == IF y THEN 1 ELSE FirstOf(Refused(arg, t))
          IN  IF k = 0 \/ t = << >> THEN Result(<< >>, y)
              ELSE Result(From(t, k), TRUE)
  BY DEF Apply, SkipWhileApply, FirstIndex, SelectInSeq, FirstOf, Refused
<1>2. /\ n \in 0..Len(d)
      /\ n # 0 => m = n
      /\ n = 0 /\ Pred(arg, x) => m = 0
      /\ n = 0 /\ ~Pred(arg, x) => m = Len(d) + 1
  BY RefusedOneMore
<1>3. s # << >> /\ Len(d) \in Nat
  OBVIOUS
<1>4. \A z \in BOOLEAN :
        /\ Keeps(stage, z, x) <=> z \/ ~Pred(arg, x)
        /\ Memory(stage, z, x) = IF z \/ ~Pred(arg, x) THEN TRUE ELSE FALSE
        /\ Value(stage, z, x) = x
  BY DEF Keeps, Memory, Value
<1>5. \A k \in 1..(Len(d) + 1) : From(s, k) = Append(From(d, k), x)
  <2>1. d \in Seq(Items) /\ x \in Items
    OBVIOUS
  <2>2. QED
    BY <2>1, PieceOfAppend
<1>6. From(d, Len(d) + 1) = << >>
  BY <1>3 DEF From
<1>7. PICK e : e = << >>
  OBVIOUS
<1>8. From(s, Len(d) + 1) = Append(e, x)
  <2>1. Len(d) + 1 \in 1..(Len(d) + 1)
    BY <1>3
  <2>2. From(s, Len(d) + 1) = Append(From(d, Len(d) + 1), x)
    BY <1>5, <2>1
  <2>3. QED
    BY <1>6, <1>7, <2>2
<1>9. d = e => Len(d) = 0
  BY <1>7
<1> DEFINE k == IF y THEN 1 ELSE n
           l == IF y THEN 1 ELSE m
<1>10. /\ Apply(stage, y, d, isReady)
           = IF k = 0 \/ d = e THEN Result(e, y)
             ELSE Result(From(d, k), TRUE)
      /\ Apply(stage, y, s, isReady)
           = IF l = 0 \/ s = e THEN Result(e, y)
             ELSE Result(From(s, l), TRUE)
  BY <1>1, <1>7
<1>11. (y => k = 1 /\ l = 1) /\ (~y => k = n /\ l = m)
  OBVIOUS
<1> HIDE DEF n, m, arg, k, l, s
<1>12. s # e
  BY <1>3, <1>7
<1>13. CASE k # 0 /\ d # e
  <2>1. l = k /\ k \in 1..(Len(d) + 1)
    <3>1. CASE y
      BY <1>3, <1>11, <3>1
    <3>2. CASE ~y
      BY <1>2, <1>3, <1>13, <1>11, <3>2
    <3>3. QED
      BY <3>1, <3>2
  <2>2. Apply(stage, y, d, isReady) = Result(From(d, k), TRUE)
    BY <1>10, <1>13
  <2>3. Apply(stage, y, s, isReady) = Result(Append(From(d, k), x), TRUE)
    BY <1>12, <1>5, <1>10, <1>13, <2>1
  <2>4. Keeps(stage, TRUE, x) /\ Memory(stage, TRUE, x) = TRUE
        /\ Value(stage, TRUE, x) = x
    BY <1>4
  <2>5. QED
    BY <2>2, <2>3, <2>4, OneMoreIs DEF s
<1>14. CASE k = 0 \/ d = e
  <2>1. Apply(stage, y, d, isReady) = Result(e, y)
    BY <1>10, <1>14
  <2>2. CASE y
    <3>1. l = 1 /\ d = e /\ l # 0
      BY <1>14, <1>11, <2>2
    <3>2. From(s, l) = Append(e, x)
      BY <1>3, <1>8, <1>9, <3>1
    <3>3. Apply(stage, y, s, isReady) = Result(Append(e, x), TRUE)
      BY <1>12, <1>10, <3>1, <3>2
    <3>4. Keeps(stage, y, x) /\ Memory(stage, y, x) = TRUE
          /\ Value(stage, y, x) = x
      BY <1>4, <2>2
    <3>5. QED
      BY <2>1, <3>3, <3>4, OneMoreIs DEF s
  <2>3. CASE ~y /\ Pred(arg, x)
    <3>1. l = 0
      BY <1>2, <1>3, <1>9, <1>11, <1>14, <2>3
    <3>2. Apply(stage, y, s, isReady) = Result(e, y)
      BY <1>10, <3>1
    <3>3. ~Keeps(stage, y, x) /\ Memory(stage, y, x) = y
      BY <1>4, <2>3
    <3>4. QED
      BY <2>1, <3>2, <3>3, OneMoreIs DEF s
  <2>4. CASE ~y /\ ~Pred(arg, x)
    <3>1. l = Len(d) + 1 /\ l # 0
      BY <1>2, <1>3, <1>9, <1>11, <1>14, <2>4
    <3>2. From(s, l) = Append(e, x)
      BY <1>3, <1>8, <1>9, <3>1
    <3>3. Apply(stage, y, s, isReady) = Result(Append(e, x), TRUE)
      BY <1>12, <1>10, <3>1, <3>2
    <3>4. Keeps(stage, y, x) /\ Memory(stage, y, x) = TRUE
          /\ Value(stage, y, x) = x
      BY <1>4, <2>4
    <3>5. QED
      BY <2>1, <3>3, <3>4, OneMoreIs DEF s
  <2>5. QED
    BY <2>2, <2>3, <2>4
<1>15. QED
  BY <1>13, <1>14

(* mapTo.                                                                  *)
LEMMA MapToOneMore ==
  ASSUME NEW stage, stage.op = "mapTo", NEW y, NEW d \in Seq(Plain),
         NEW x \in Plain, NEW isReady
  PROVE  OneMore(stage, y, d, x, isReady)
<1> DEFINE s == Append(d, x)
           f(t) == [i \in DOMAIN t |-> stage.arg]
<1>1. s \in Seq(Plain)
  OBVIOUS
<1>2. UpToDone(s) = s /\ UpToDone(d) = d
  BY <1>1, PlainIsWhole
<1>3. \A t : UpToDone(t) = t => Apply(stage, y, t, isReady) = Result(f(t), y)
  BY DEF Apply, MapToApply
<1>4. f(s) = Append(f(d), stage.arg)
  <2>1. DOMAIN s = 1..(Len(d) + 1) /\ DOMAIN d = 1..Len(d) /\ Len(d) \in Nat
    OBVIOUS
  <2>2. f(s) = [i \in 1..(Len(d) + 1) |-> stage.arg]
    BY <2>1, Zenon
  <2>3. Len(f(d)) = Len(d) /\ \A i \in 1..Len(d) : f(d)[i] = stage.arg
    BY <2>1
  <2>4. Append(f(d), stage.arg)
          = [i \in 1..(Len(d) + 1) |->
               IF i = Len(d) + 1 THEN stage.arg ELSE f(d)[i]]
    BY <2>1, <2>3
  <2>5. QED
    BY <2>1, <2>2, <2>3, <2>4
<1>5. /\ Apply(stage, y, s, isReady) = Result(f(s), y)
      /\ Apply(stage, y, d, isReady) = Result(f(d), y)
  BY <1>2, <1>3
<1>6. Keeps(stage, y, x) /\ Memory(stage, y, x) = y
      /\ Value(stage, y, x) = stage.arg
  BY DEF Keeps, Memory, Value
<1> HIDE DEF f
<1>7. Apply(stage, y, s, isReady)
        = Result(IF Keeps(stage, y, x) THEN Append(f(d), Value(stage, y, x))
                 ELSE f(d), Memory(stage, y, x))
  BY <1>4, <1>5, <1>6
<1>8. QED
  BY <1>5, <1>7, OneMoreIs

(* skip: the count goes on, and what lies beyond arg is handed on.         *)
LEMMA CountOneMore ==
  ASSUME NEW stage \in Stages, stage.op = "skip", NEW y \in Nat,
         NEW d \in Seq(Items), NEW x \in Items, NEW isReady
  PROVE  OneMore(stage, y, d, x, isReady)
<1> DEFINE s == Append(d, x)
           left == IF stage.arg > y THEN stage.arg - y ELSE 0
           n == Len(d)
<1>1. /\ n \in Nat /\ Len(s) = n + 1 /\ stage.arg \in Int /\ left \in Nat
      /\ y + (n + 1) = (y + n) + 1
  BY DEF Stages, Items
<1>2. /\ Apply(stage, y, d, isReady) = Result(From(d, left + 1), y + n)
      /\ Apply(stage, y, s, isReady) = Result(From(s, left + 1), (y + n) + 1)
  <2>1. \A t : Apply(stage, y, t, isReady)
                 = Result(From(t, left + 1), y + Len(t))
    BY DEF Apply, SkipApply
  <2>2. QED
    BY <1>1, <2>1
<1>3. /\ Keeps(stage, y + n, x) <=> y + n >= stage.arg
      /\ Value(stage, y + n, x) = x /\ Memory(stage, y + n, x) = (y + n) + 1
  BY DEF Keeps, Value, Memory
<1>4. y + n >= stage.arg <=> left <= n
  BY <1>1
<1>5. CASE left <= n
  <2>1. left + 1 \in 1..(n + 1) /\ d \in Seq(Items) /\ x \in Items
    BY <1>1, <1>5
  <2>2. From(s, left + 1) = Append(From(d, left + 1), x)
    BY <2>1, PieceOfAppend
  <2> HIDE DEF s, left, n
  <2>3. QED
    BY <1>2, <1>3, <1>4, <1>5, <2>2, OneMoreIs DEF s
<1>6. CASE left > n
  <2>1. From(s, left + 1) = << >> /\ From(d, left + 1) = << >>
    BY <1>1, <1>6 DEF From
  <2>2. ~Keeps(stage, y + n, x)
    BY <1>1, <1>3, <1>4, <1>6
  <2> HIDE DEF s, left, n
  <2>3. QED
    BY <1>2, <1>3, <2>1, <2>2, OneMoreIs DEF s
<1>7. QED
  BY <1>1, <1>5, <1>6

(* skipUntil: where the awaited item is.                                   *)
Awaited(arg, t) == {i \in 1..Len(t) : t[i] = arg}

LEMMA AwaitedOneMore ==
  ASSUME NEW arg, NEW d \in Seq(Plain), NEW x \in Plain
  PROVE  LET n == FirstOf(Awaited(arg, d))
             m == FirstOf(Awaited(arg, Append(d, x)))
         IN  /\ n \in 0..Len(d)
             /\ n # 0 => m = n
             /\ n = 0 /\ x # arg => m = 0
             /\ n = 0 /\ x = arg => m = Len(d) + 1
<1> DEFINE I == Awaited(arg, d)
           J == Awaited(arg, Append(d, x))
           k == Len(d)
<1>1. /\ k \in Nat
      /\ I \in SUBSET (1..k) /\ J \in SUBSET (1..(k + 1))
  BY DEF Awaited
<1>2. /\ \A i \in 1..k : i \in J <=> i \in I
      /\ k + 1 \in J <=> x = arg
  BY <1>1 DEF Awaited
<1> HIDE DEF I, J, k
<1>3. LET n == FirstOf(I)
          m == FirstOf(J)
      IN  /\ n \in 0..k
          /\ n # 0 => m = n
          /\ n = 0 /\ k + 1 \notin J => m = 0
          /\ n = 0 /\ k + 1 \in J => m = k + 1
  BY <1>1, <1>2, FirstOneMore
<1>4. QED
  BY <1>2, <1>3 DEF I, J, k

LEMMA AwaitOneMore ==
  ASSUME NEW stage, stage.op = "skipUntil",
         NEW y \in BOOLEAN, NEW d \in Seq(Plain), NEW x \in Plain, NEW isReady
  PROVE  OneMore(stage, y, d, x, isReady)
<1> DEFINE arg == stage.arg
           s == Append(d, x)
           n == FirstOf(Awaited(arg, d))
           m == FirstOf(Awaited(arg, s))
           k == IF y THEN 1 ELSE n
           l == IF y THEN 1 ELSE m
<1>1. UpToDone(s) = s /\ UpToDone(d) = d /\ s \in Seq(Plain)
  <2>1. s \in Seq(Plain)
    OBVIOUS
  <2>2. QED
    BY <2>1, PlainIsWhole
<1>2. PICK e : e = << >>
  OBVIOUS
<1>3. \A t : UpToDone(t) = t => Apply(stage, y, t, isReady)
        = LET j == IF y THEN 1 ELSE FirstOf(Awaited(arg, t))
          IN  IF j = 0 THEN Result(e, FALSE) ELSE Result(From(t, j), TRUE)
  BY <1>2 DEF Apply, SkipUntilApply, FirstIndex, SelectInSeq, FirstOf, Awaited
<1>4. /\ n \in 0..Len(d) /\ Len(d) \in Nat
      /\ n # 0 => m = n
      /\ n = 0 /\ x # arg => m = 0
      /\ n = 0 /\ x = arg => m = Len(d) + 1
  BY AwaitedOneMore
<1>5. \A z \in BOOLEAN :
        /\ Keeps(stage, z, x) <=> z \/ x = arg
        /\ Memory(stage, z, x) = IF z \/ x = arg THEN TRUE ELSE FALSE
        /\ Value(stage, z, x) = x
  BY DEF Keeps, Memory, Value
<1>6. \A j \in 1..(Len(d) + 1) : From(s, j) = Append(From(d, j), x)
  <2>1. d \in Seq(Plain) /\ x \in Plain
    OBVIOUS
  <2>2. QED
    BY <2>1, PieceOfAppend
<1>7. /\ Apply(stage, y, d, isReady)
           = IF k = 0 THEN Result(e, FALSE) ELSE Result(From(d, k), TRUE)
      /\ Apply(stage, y, s, isReady)
           = IF l = 0 THEN Result(e, FALSE) ELSE Result(From(s, l), TRUE)
  BY <1>1, <1>3
<1>8. (y => k = 1 /\ l = 1) /\ (~y => k = n /\ l = m)
  OBVIOUS
<1>9. From(d, Len(d) + 1) = e
  BY <1>2, <1>4 DEF From
<1> HIDE DEF n, m, k, l, s, arg
<1>10. CASE k # 0
  <2>1. l = k /\ k \in 1..(Len(d) + 1)
    BY <1>4, <1>8, <1>10
  <2>2. /\ Apply(stage, y, d, isReady) = Result(From(d, k), TRUE)
        /\ Apply(stage, y, s, isReady) = Result(Append(From(d, k), x), TRUE)
    BY <1>6, <1>7, <1>10, <2>1
  <2>3. QED
    BY <1>5, <2>2, OneMoreIs DEF s
<1>11. CASE k = 0
  <2>1. ~y /\ n = 0 /\ Apply(stage, y, d, isReady) = Result(e, FALSE)
    BY <1>7, <1>8, <1>11
  <2>2. CASE x = arg
    <3>1. l = Len(d) + 1 /\ l # 0 /\ l \in 1..(Len(d) + 1)
      BY <1>4, <1>8, <2>1, <2>2
    <3>2. Apply(stage, y, s, isReady) = Result(Append(e, x), TRUE)
      BY <1>6, <1>7, <1>9, <3>1
    <3>3. QED
      BY <1>5, <2>1, <2>2, <3>2, OneMoreIs DEF s
  <2>3. CASE x # arg
    <3>1. Apply(stage, y, s, isReady) = Result(e, FALSE)
      BY <1>4, <1>7, <1>8, <2>1, <2>3
    <3>2. QED
      BY <1>5, <2>1, <2>3, <3>1, OneMoreIs DEF s
  <2>4. QED
    BY <2>2, <2>3
<1>12. QED
  BY <1>10, <1>11

(* distinct.                                                               *)
LEMMA UnseenOneMore ==
  ASSUME NEW stage, Returns(stage), stage.op = "distinct",
         NEW y \in SUBSET Items, NEW d \in Seq(Items), NEW x \in Items,
         NEW isReady
  PROVE  OneMore(stage, y, d, x, isReady)
<1> DEFINE V == [out : Seq(Items), ctx : SUBSET Items]
           s == Append(d, x)
           f == Unseen(stage.arg)
           base == Result(<< >>, y)
           F(t) == FoldOf(V, f, base, t)
           key == Key(stage.arg, x)
<1>1. /\ d \in Seq(Items) /\ x \in Items /\ s \in Seq(Items)
      /\ \A v \in Items : Key(stage.arg, v) \in Items
      /\ base \in V
  BY DEF Plain, Returns, Result
<1>2. Folding(V, Items, f, base, d)
  BY <1>1, UnseenType DEF Folding
<1>3. Apply(stage, y, d, isReady) = F(d) /\ Apply(stage, y, s, isReady) = F(s)
  BY <1>1, DistinctIsFold DEF Apply
<1>4. F(s) = f[<< F(d), x >>] /\ F(d) \in V
  <2> HIDE DEF V, f, base
  <2> QED BY <1>1, <1>2, FoldOfAppend, FoldOfType
<1> HIDE DEF F, f, s
<1>5. PICK o \in Seq(Items), z \in SUBSET Items : F(d) = Result(o, z)
  BY <1>4 DEF Result
<1>6. f[<< F(d), x >>]
        = IF key \in z THEN Result(o, z)
          ELSE Result(Append(o, x), z \union {key})
  <2>1. F(d).ctx = z /\ F(d).out = o
    BY <1>5 DEF Result
  <2>2. << F(d), x >> \in V \X Items
    BY <1>1, <1>4
  <2>3. f[<< F(d), x >>]
          = IF key \in F(d).ctx THEN F(d)
            ELSE Result(Append(F(d).out, x), F(d).ctx \union {key})
    BY <2>2 DEF f, Unseen
  <2>4. QED
    BY <1>5, <2>1, <2>3
<1>7. /\ Keeps(stage, z, x) <=> key \notin z
      /\ Memory(stage, z, x) = z \union {key} /\ Value(stage, z, x) = x
  BY DEF Keeps, Memory, Value
<1>8. key \in z => z \union {key} = z
  OBVIOUS
<1> HIDE DEF key
<1>9. Apply(stage, y, Append(d, x), isReady)
        = Result(IF Keeps(stage, z, x) THEN Append(o, Value(stage, z, x)) ELSE o,
                 Memory(stage, z, x))
  BY <1>3, <1>4, <1>6, <1>7, <1>8 DEF s
<1>10. QED
  BY <1>3, <1>5, <1>9, OneMoreIs

LEMMA ItemOneMore ==
  ASSUME AccumReturns, NEW stage \in Stages, Returns(stage),
         stage.op \in ItemKinds, NEW y, ContextOK(stage, y),
         NEW d \in Seq(Plain), NEW x \in Plain, NEW isReady
  PROVE  OneMore(stage, y, d, x, isReady)
<1>1. d \in Seq(Items) /\ x \in Items
  BY DEF Plain
<1>2. CASE stage.op = "map"
  BY <1>2, MapOneMore
<1>3. CASE stage.op = "filter"
  BY <1>1, <1>3, FilterOneMore
<1>4. CASE stage.op \in {"scan", "scanfrom"}
  <2>1. y \in Items
    BY <1>4 DEF ContextOK
  <2>2. QED
    BY <1>4, <2>1, ScanOneMore
<1>5. CASE stage.op = "distinctUntilChanged"
  <2>1. y \in Items
    BY <1>5 DEF ContextOK
  <2>2. QED
    BY <1>1, <1>5, <2>1, ChangedOneMore
<1>6. CASE stage.op = "skipWhile"
  <2>1. y \in BOOLEAN
    BY <1>6 DEF ContextOK
  <2>2. QED
    BY <1>1, <1>6, <2>1, SkipOneMore
<1>7. QED
  BY <1>2, <1>3, <1>4, <1>5, <1>6 DEF ItemKinds

(* From an empty batch nothing comes, and nothing is remembered.           *)
LEMMA ItemEmpty ==
  ASSUME AccumReturns, NEW stage \in Stages, Returns(stage),
         stage.op \in ItemKinds, NEW y, ContextOK(stage, y), NEW isReady
  PROVE  Apply(stage, y, << >>, isReady) = Result(<< >>, y)
<1>1. << >> \in Seq(Plain) /\ << >> \in Seq(Items)
  OBVIOUS
<1>2. UpToDone(<< >>) = << >>
  BY <1>1, PlainIsWhole
<1>3. CASE stage.op = "map"
  BY <1>2, <1>3 DEF Apply, MapApply
<1>4. CASE stage.op = "filter"
  <2>1. Folding(Seq(Items), Items, Kept(stage.arg), << >>, << >>)
    BY <1>1, KeptType DEF Folding
  <2>2. FoldOf(Seq(Items), Kept(stage.arg), << >>, << >>) = << >>
    BY <2>1, FoldOfEmpty
  <2>3. FilterApply(stage.arg, y, << >>) = Result(<< >>, y)
    BY <1>1, <2>2, FilterIsFold
  <2>4. QED
    BY <1>4, <2>3 DEF Apply
<1>5. CASE stage.op \in {"scan", "scanfrom"}
  <2>1. y \in Items
    BY <1>5 DEF ContextOK
  <2>2. Folding(Items, Items, Accumulated, y, << >>)
    BY <1>1, <2>1, AccumulatedType DEF Folding
  <2>3. FoldLeft(Accum, y, << >>) = y
    BY <1>1, <2>1, <2>2, AccumIsFold, FoldOfEmpty
  <2>4. Apply(stage, y, << >>, isReady) = ScanApply(y, << >>)
    BY <1>5 DEF Apply
  <2>5. QED
    BY <1>2, <2>3, <2>4 DEF ScanApply
<1>6. CASE stage.op = "distinctUntilChanged"
  <2> DEFINE V == [out : Seq(Items), ctx : Items]
             base == Result(<< >>, y)
             f == Changed(stage.arg)
  <2>1. y \in Items /\ \A v \in Items : Key(stage.arg, v) \in Items
    BY <1>6 DEF ContextOK, Returns
  <2>2. base \in V
    BY <1>1, <2>1 DEF Result
  <2>3. Folding(V, Items, f, base, << >>)
    BY <1>1, <2>1, <2>2, ChangedType DEF Folding
  <2>4. DistinctUntilChangedApply(stage.arg, y, << >>) = FoldOf(V, f, base, << >>)
    BY <1>1, <2>1, DistinctUntilChangedIsFold
  <2> HIDE DEF V, f
  <2>5. FoldOf(V, f, base, << >>) = base
    BY <2>3, FoldOfEmpty
  <2>6. QED
    BY <1>6, <2>4, <2>5 DEF Apply
<1>7. CASE stage.op = "skipWhile"
  BY <1>7 DEF Apply, SkipWhileApply
<1>8. QED
  BY <1>3, <1>4, <1>5, <1>6, <1>7 DEF ItemKinds

(* reduce and last.                                                        *)
LEMMA ReduceOneMore ==
  ASSUME AccumReturns, NEW d \in Seq(Plain)
  PROVE  /\ \A stage, y, isReady : stage.op = "reduce" =>
              Apply(stage, y, d, isReady)
                = Result(<< FoldLeft(Accum, Null, d) >>, y)
         /\ FoldLeft(Accum, Null, << >>) = Null
         /\ FoldLeft(Accum, Null, d) \in Items
         /\ \A x \in Plain : FoldLeft(Accum, Null, Append(d, x))
                               = Accum(FoldLeft(Accum, Null, d), x)
<1> DEFINE F(t) == FoldOf(Items, Accumulated, Null, t)
<1>1. /\ Null \in Items /\ d \in Seq(Items) /\ Plain \subseteq Items
      /\ UpToDone(d) = d /\ << >> \in Seq(Items)
  BY PlainIsWhole DEF Null, Items, Plain
<1>2. /\ Folding(Items, Items, Accumulated, Null, d)
      /\ Folding(Items, Items, Accumulated, Null, << >>)
  BY <1>1, AccumulatedType DEF Folding
<1>3. F(<< >>) = Null /\ F(d) \in Items
      /\ \A x \in Items : F(Append(d, x)) = Accumulated[<< F(d), x >>]
  BY <1>2, FoldOfEmpty, FoldOfType, FoldOfAppend
<1>4. \A t \in Seq(Items) : FoldLeft(Accum, Null, t) = F(t)
  BY <1>1, AccumIsFold
<1>5. \A x \in Items : Append(d, x) \in Seq(Items)
  BY <1>1
<1> HIDE DEF F
<1>6. \A x \in Items : Accumulated[<< F(d), x >>] = Accum(F(d), x)
  BY <1>3 DEF Accumulated
<1>7. \A stage, y, isReady : stage.op = "reduce" =>
        Apply(stage, y, d, isReady) = Result(<< FoldLeft(Accum, Null, d) >>, y)
  BY <1>1 DEF Apply, ReduceApply
<1>8. QED
  BY <1>1, <1>3, <1>4, <1>5, <1>6, <1>7

LEMMA LastIs ==
  ASSUME NEW stage, stage.op = "last", NEW y, NEW d \in Seq(Plain), NEW isReady
  PROVE  /\ Apply(stage, y, d, isReady)
              = Result(IF d = << >> THEN << Null >> ELSE << Last(d) >>, y)
         /\ \A x \in Plain : Last(Append(d, x)) = x
<1>1. d # << >> => Last(d) # Done
  BY DEF Last, Plain
<1>2. Apply(stage, y, d, isReady) = LastApply(y, d)
  BY DEF Apply
<1>3. \A x \in Plain : Last(Append(d, x)) = x
  BY DEF Last
<1>4. QED
  BY <1>1, <1>2, <1>3 DEF LastApply

-----------------------------------------------------------------------------
(* The same of the streaming path: what a compiled stage that stands for   *)
(* one Query does to the item in hand.                                     *)
OneGoes(c, i, st) ==
  LET y == st.ctxs[i]
      x == st.value
      s == StreamStage(c, st, CompiledStage(c, i))
  IN  /\ s.out = st.out /\ s.reduced = st.reduced /\ s.last = st.last
      /\ s.keep <=> st.keep /\ Keeps(c[i], y, x)
      /\ s.keep => s.value = Value(c[i], y, x)
      /\ s.ctxs = [st.ctxs EXCEPT ![i] = Memory(c[i], y, x)]

LEMMA StateFields ==
  ASSUME NEW c, NEW st \in States(c)
  PROVE  /\ st.out \in Seq(Items) /\ st.ctxs \in CtxsOf(c) /\ st.value \in Items
         /\ st.keep \in BOOLEAN /\ st.reduced \in Seq(Items)
         /\ st.last \in Seq(Items)
         /\ \A v : [st EXCEPT !.value = v]
              = [out |-> st.out, ctxs |-> st.ctxs, value |-> v, keep |-> st.keep,
                 reduced |-> st.reduced, last |-> st.last]
         /\ \A b : [st EXCEPT !.keep = b]
              = [out |-> st.out, ctxs |-> st.ctxs, value |-> st.value, keep |-> b,
                 reduced |-> st.reduced, last |-> st.last]
         /\ \A o : [st EXCEPT !.out = o]
              = [out |-> o, ctxs |-> st.ctxs, value |-> st.value,
                 keep |-> st.keep, reduced |-> st.reduced, last |-> st.last]
         /\ \A x : [st EXCEPT !.ctxs = x]
              = [out |-> st.out, ctxs |-> x, value |-> st.value,
                 keep |-> st.keep, reduced |-> st.reduced, last |-> st.last]
         /\ \A x, v : [[st EXCEPT !.ctxs = x] EXCEPT !.value = v]
              = [out |-> st.out, ctxs |-> x, value |-> v,
                 keep |-> st.keep, reduced |-> st.reduced, last |-> st.last]
         /\ \A b, r : [[st EXCEPT !.keep = b] EXCEPT !.reduced = r]
              = [out |-> st.out, ctxs |-> st.ctxs, value |-> st.value,
                 keep |-> b, reduced |-> r, last |-> st.last]
         /\ \A b, r : [[st EXCEPT !.keep = b] EXCEPT !.last = r]
              = [out |-> st.out, ctxs |-> st.ctxs, value |-> st.value,
                 keep |-> b, reduced |-> st.reduced, last |-> r]
<1>1. PICK o, k, v, b, r, l :
        st = [out |-> o, ctxs |-> k, value |-> v, keep |-> b, reduced |-> r,
              last |-> l]
  BY DEF States
<1>2. /\ st.out = o /\ st.ctxs = k /\ st.value = v /\ st.keep = b
      /\ st.reduced = r /\ st.last = l
  BY <1>1
<1>3. /\ st.out \in Seq(Items) /\ st.ctxs \in CtxsOf(c) /\ st.value \in Items
      /\ st.keep \in BOOLEAN /\ st.reduced \in Seq(Items)
      /\ st.last \in Seq(Items)
  BY DEF States
<1>4. /\ \A n : [st EXCEPT !.value = n]
           = [out |-> o, ctxs |-> k, value |-> n, keep |-> b, reduced |-> r,
              last |-> l]
      /\ \A n : [st EXCEPT !.keep = n]
           = [out |-> o, ctxs |-> k, value |-> v, keep |-> n, reduced |-> r,
              last |-> l]
      /\ \A n : [st EXCEPT !.out = n]
           = [out |-> n, ctxs |-> k, value |-> v, keep |-> b, reduced |-> r,
              last |-> l]
      /\ \A n : [st EXCEPT !.ctxs = n]
           = [out |-> o, ctxs |-> n, value |-> v, keep |-> b, reduced |-> r,
              last |-> l]
  BY <1>1
<1>5. ASSUME NEW x, NEW n
      PROVE  [[st EXCEPT !.ctxs = x] EXCEPT !.value = n]
               = [out |-> o, ctxs |-> x, value |-> n, keep |-> b,
                  reduced |-> r, last |-> l]
  <2>1. PICK e : e = [st EXCEPT !.ctxs = x]
    OBVIOUS
  <2>2. e = [out |-> o, ctxs |-> x, value |-> v, keep |-> b,
                  reduced |-> r, last |-> l]
    BY <1>4, <2>1
  <2>3. [e EXCEPT !.value = n]
          = [out |-> o, ctxs |-> x, value |-> n, keep |-> b,
                  reduced |-> r, last |-> l]
    BY <2>2
  <2>4. QED
    BY <2>1, <2>3
<1>6. ASSUME NEW x, NEW n
      PROVE  [[st EXCEPT !.keep = x] EXCEPT !.reduced = n]
               = [out |-> o, ctxs |-> k, value |-> v, keep |-> x,
                  reduced |-> n, last |-> l]
  <2>1. PICK e : e = [st EXCEPT !.keep = x]
    OBVIOUS
  <2>2. e = [out |-> o, ctxs |-> k, value |-> v, keep |-> x,
                  reduced |-> r, last |-> l]
    BY <1>4, <2>1
  <2>3. [e EXCEPT !.reduced = n]
          = [out |-> o, ctxs |-> k, value |-> v, keep |-> x,
                  reduced |-> n, last |-> l]
    BY <2>2
  <2>4. QED
    BY <2>1, <2>3
<1>7. ASSUME NEW x, NEW n
      PROVE  [[st EXCEPT !.keep = x] EXCEPT !.last = n]
               = [out |-> o, ctxs |-> k, value |-> v, keep |-> x,
                  reduced |-> r, last |-> n]
  <2>1. PICK e : e = [st EXCEPT !.keep = x]
    OBVIOUS
  <2>2. e = [out |-> o, ctxs |-> k, value |-> v, keep |-> x,
                  reduced |-> r, last |-> l]
    BY <1>4, <2>1
  <2>3. [e EXCEPT !.last = n]
          = [out |-> o, ctxs |-> k, value |-> v, keep |-> x,
                  reduced |-> r, last |-> n]
    BY <2>2
  <2>4. QED
    BY <2>1, <2>3
<1>8. \A nv : [st EXCEPT !.value = nv]
          = [out |-> st.out, ctxs |-> st.ctxs, value |-> nv, keep |-> st.keep,
          reduced |-> st.reduced, last |-> st.last]
  BY <1>2, <1>4
<1>9. \A nb : [st EXCEPT !.keep = nb]
          = [out |-> st.out, ctxs |-> st.ctxs, value |-> st.value, keep |-> nb,
          reduced |-> st.reduced, last |-> st.last]
  BY <1>2, <1>4
<1>10. \A no : [st EXCEPT !.out = no]
          = [out |-> no, ctxs |-> st.ctxs, value |-> st.value,
          keep |-> st.keep, reduced |-> st.reduced, last |-> st.last]
  BY <1>2, <1>4
<1>11. \A x : [st EXCEPT !.ctxs = x]
          = [out |-> st.out, ctxs |-> x, value |-> st.value,
          keep |-> st.keep, reduced |-> st.reduced, last |-> st.last]
  BY <1>2, <1>4
<1>12. \A x, nv : [[st EXCEPT !.ctxs = x] EXCEPT !.value = nv]
          = [out |-> st.out, ctxs |-> x, value |-> nv,
          keep |-> st.keep, reduced |-> st.reduced, last |-> st.last]
  BY <1>2, <1>5
<1>13. \A nb, nr : [[st EXCEPT !.keep = nb] EXCEPT !.reduced = nr]
          = [out |-> st.out, ctxs |-> st.ctxs, value |-> st.value,
          keep |-> nb, reduced |-> nr, last |-> st.last]
  BY <1>2, <1>6
<1>14. \A nb, nr : [[st EXCEPT !.keep = nb] EXCEPT !.last = nr]
          = [out |-> st.out, ctxs |-> st.ctxs, value |-> st.value,
          keep |-> nb, reduced |-> st.reduced, last |-> nr]
  BY <1>2, <1>7
<1>15. QED
  BY <1>3, <1>8, <1>9, <1>10, <1>11, <1>12, <1>13, <1>14

LEMMA SameContext ==
  ASSUME NEW c, NEW x \in CtxsOf(c), NEW i
  PROVE  [x EXCEPT ![i] = x[i]] = x
BY DEF CtxsOf

LEMMA ItemGoes ==
  ASSUME AccumReturns, NEW c \in Seq(Stages), Callbacks(c), NEW i \in DOMAIN c,
         c[i].op \in ItemKinds, NEW st \in States(c)
  PROVE  OneGoes(c, i, st)
<1> DEFINE stage == CompiledStage(c, i)
           y == st.ctxs[i]
           x == st.value
           arg == c[i].arg
           s == StreamStage(c, st, stage)
<1>1. /\ stage.kind = c[i].op /\ stage.at = i
      /\ c[i].op = "map" => stage.funcs = << arg >>
  BY DEF CompiledStage
<1>2. [st.ctxs EXCEPT ![i] = y] = st.ctxs /\ st.ctxs \in CtxsOf(c) /\ x \in Items
      /\ ContextOK(c[i], y)
  BY SameContext, StateFields DEF CtxsOf
<1>3. c[i].op \in ItemKinds /\ c[i].op # "mapChain"
  BY DEF ItemKinds
<1> HIDE DEF stage
<1>4. CASE c[i].op = "map"
  <2>1. FoldLeft(LAMBDA v, g : Mapper(g, v), x, << arg >>) = Mapper(arg, x)
    <3> DEFINE F(t) == FoldOf(Items, Mapped(c), x, t)
    <3>1. arg \in MapArgs(c) /\ << >> \in Seq(MapArgs(c))
          /\ << arg >> = Append(<< >>, arg) /\ << arg >> \in Seq(MapArgs(c))
      BY <1>4 DEF MapArgs
    <3>2. Folding(Items, MapArgs(c), Mapped(c), x, << >>)
      BY <1>2, <3>1, MappedType DEF Folding
    <3>3. F(<< >>) = x /\ F(Append(<< >>, arg)) = Mapped(c)[<< F(<< >>), arg >>]
      <4>1. F(<< >>) = x
        BY <3>2, FoldOfEmpty
      <4>2. PICK e : e = << >>
        OBVIOUS
      <4>3. F(Append(e, arg)) = Mapped(c)[<< F(e), arg >>]
        <5>1. Folding(Items, MapArgs(c), Mapped(c), x, e) /\ arg \in MapArgs(c)
          BY <3>1, <3>2, <4>2
        <5> HIDE DEF x, arg
        <5>2. QED
          BY <5>1, FoldOfAppend
      <4> HIDE DEF F
      <4>4. QED
        BY <4>1, <4>2, <4>3
    <3>4. FoldLeft(LAMBDA v, g : Mapper(g, v), x, << arg >>) = F(<< arg >>)
      BY <1>2, <3>1, MapperIsFold
    <3>5. Mapped(c)[<< x, arg >>] = Mapper(arg, x)
      BY <1>2, <3>1 DEF Mapped
    <3> HIDE DEF F
    <3>6. QED
      BY <3>1, <3>3, <3>4, <3>5
  <2>2. s = [st EXCEPT !.value = FoldLeft(LAMBDA v, g : Mapper(g, v), x, << arg >>)]
    BY <1>1, <1>4 DEF StreamStage
  <2>3. s = [st EXCEPT !.value = Mapper(arg, x)]
    BY <2>1, <2>2
  <2>4. /\ Keeps(c[i], y, x) /\ Memory(c[i], y, x) = y
        /\ Value(c[i], y, x) = Mapper(arg, x)
    BY <1>4 DEF Keeps, Memory, Value
  <2>5. s = [out |-> st.out, ctxs |-> st.ctxs, value |-> Mapper(arg, x),
             keep |-> st.keep, reduced |-> st.reduced, last |-> st.last]
    BY <2>3, StateFields
  <2> HIDE DEF s, y, x
  <2>6. QED
    BY <1>2, <2>4, <2>5 DEF OneGoes, s, stage, y, x
<1>5. CASE c[i].op = "filter"
  <2>1. s = IF Pred(arg, x) THEN st ELSE [st EXCEPT !.keep = FALSE]
    BY <1>1, <1>5 DEF StreamStage
  <2>2. /\ Keeps(c[i], y, x) <=> Pred(arg, x)
        /\ Memory(c[i], y, x) = y /\ Value(c[i], y, x) = x
    BY <1>5 DEF Keeps, Memory, Value
  <2>3. /\ Pred(arg, x) => s = [out |-> st.out, ctxs |-> st.ctxs, value |-> x,
                keep |-> st.keep, reduced |-> st.reduced, last |-> st.last]
        /\ ~Pred(arg, x) => s = [out |-> st.out, ctxs |-> st.ctxs, value |-> x,
                keep |-> FALSE, reduced |-> st.reduced, last |-> st.last]
    BY <2>1, StateFields DEF States
  <2> HIDE DEF s
  <2>4. QED
    BY <1>2, <2>2, <2>3 DEF OneGoes, s, stage
<1>6. CASE c[i].op \in {"scan", "scanfrom"}
  <2> DEFINE a == Accum(y, x)
             n == [st.ctxs EXCEPT ![i] = a]
  <2>1. s = [[st EXCEPT !.ctxs = n] EXCEPT !.value = a]
    BY <1>1, <1>6 DEF StreamStage
  <2>2. /\ Keeps(c[i], y, x)
        /\ Memory(c[i], y, x) = a /\ Value(c[i], y, x) = a
    BY <1>6 DEF Keeps, Memory, Value
  <2> HIDE DEF n
  <2>3. s = [out |-> st.out, ctxs |-> n, value |-> a,
             keep |-> st.keep, reduced |-> st.reduced, last |-> st.last]
    BY <2>1, StateFields
  <2> HIDE DEF s, a
  <2>4. QED
    BY <2>2, <2>3 DEF OneGoes, s, stage, n
<1>7. CASE c[i].op = "distinctUntilChanged"
  <2> DEFINE a == Key(arg, x)
             n == [st.ctxs EXCEPT ![i] = a]
  <2>1. s = IF a = y THEN [st EXCEPT !.keep = FALSE] ELSE [st EXCEPT !.ctxs = n]
    BY <1>1, <1>7 DEF StreamStage
  <2>2. /\ Keeps(c[i], y, x) <=> a # y
        /\ Memory(c[i], y, x) = a /\ Value(c[i], y, x) = x
    BY <1>7 DEF Keeps, Memory, Value
  <2>3. a = y => n = st.ctxs
    BY <1>2
  <2> HIDE DEF n, a
  <2>4. /\ a = y => s = [out |-> st.out, ctxs |-> n, value |-> x,
                         keep |-> FALSE, reduced |-> st.reduced, last |-> st.last]
        /\ a # y => s = [out |-> st.out, ctxs |-> n, value |-> x,
                         keep |-> st.keep, reduced |-> st.reduced, last |-> st.last]
    <3>1. CASE a = y
      <4>1. s = [st EXCEPT !.keep = FALSE]
        BY <2>1, <3>1
      <4>2. PICK b \in BOOLEAN : b = FALSE
        OBVIOUS
      <4>3. s = [st EXCEPT !.keep = b]
        BY <4>1, <4>2
      <4> HIDE DEF s
      <4>4. s = [out |-> st.out, ctxs |-> st.ctxs, value |-> st.value, keep |-> b,
                 reduced |-> st.reduced, last |-> st.last]
        BY <4>3, StateFields
      <4>5. QED
        BY <1>2, <2>3, <3>1, <4>2, <4>4
    <3>2. CASE a # y
      <4>1. s = [st EXCEPT !.ctxs = n]
        BY <2>1, <3>2
      <4> HIDE DEF s
      <4>2. QED
        BY <1>2, <3>2, <4>1, StateFields
    <3>3. QED
      BY <3>1, <3>2
  <2> HIDE DEF s
  <2>5. QED
    BY <2>2, <2>4 DEF OneGoes, s, stage, n
<1>8. CASE c[i].op = "skipWhile"
  <2> DEFINE n == [st.ctxs EXCEPT ![i] = TRUE]
             m == Memory(c[i], y, x)
  <2>1. s = IF ~y /\ Pred(arg, x) THEN [st EXCEPT !.keep = FALSE]
            ELSE [st EXCEPT !.ctxs = n]
    BY <1>1, <1>8 DEF StreamStage
  <2>2. /\ Keeps(c[i], y, x) <=> y \/ ~Pred(arg, x)
        /\ m = (IF y \/ ~Pred(arg, x) THEN TRUE ELSE y)
        /\ Value(c[i], y, x) = x
    <3>1. y \in BOOLEAN
      BY <1>2, <1>8 DEF ContextOK
    <3>2. QED
      BY <1>8, <3>1 DEF Keeps, Memory, Value
  <2>3. CASE Keeps(c[i], y, x)
    <3>1. s = [out |-> st.out, ctxs |-> n, value |-> x, keep |-> st.keep,
               reduced |-> st.reduced, last |-> st.last] /\ m = TRUE
      BY <2>1, <2>2, <2>3, StateFields
    <3>2. n = [st.ctxs EXCEPT ![i] = m]
      BY <3>1
    <3> HIDE DEF s, n, m
    <3>3. QED
      BY <2>2, <2>3, <3>1, <3>2 DEF OneGoes, s, stage, m
  <2>4. CASE ~Keeps(c[i], y, x)
    <3>1. s = [out |-> st.out, ctxs |-> st.ctxs, value |-> x, keep |-> FALSE,
               reduced |-> st.reduced, last |-> st.last] /\ m = y
      BY <2>1, <2>2, <2>4, StateFields
    <3> HIDE DEF s
    <3>2. QED
      BY <1>2, <2>4, <3>1 DEF OneGoes, s, stage, n, m
  <2>5. QED
    BY <2>3, <2>4
<1>9. QED
  BY <1>3, <1>4, <1>5, <1>6, <1>7, <1>8 DEF ItemKinds

-----------------------------------------------------------------------------
(* How the compiled pipeline grows with the chain.                         *)
Joins(c, k) == k > 1 /\ c[k].op = "map" /\ c[k - 1].op = "map"
Lengthened(s, g) ==
  [kind |-> "mapChain", at |-> s.at, funcs |-> Append(s.funcs, g)]

Compiles(g, c) ==
  /\ g \in [0..Len(c) -> Seq(CompiledStages(c))]
  /\ g[0] = << >>
  /\ \A k \in 1..Len(c) :
       /\ g[k] # << >>
       /\ Joins(c, k) => /\ g[k - 1] # << >>
                         /\ g[k] = Append(Front(g[k - 1]),
                                          Lengthened(Last(g[k - 1]), c[k].arg))
       /\ ~Joins(c, k) => g[k] = Append(g[k - 1], CompiledStage(c, k))
       /\ c[k].op = "map" => Last(g[k]).kind \in {"map", "mapChain"}

LEMMA LastOfAppend ==
  ASSUME NEW S, NEW s \in Seq(S), NEW x \in S
  PROVE  /\ Append(s, x) # << >> /\ Last(Append(s, x)) = x
         /\ Front(Append(s, x)) = s
         /\ Len(Append(s, x)) = Len(s) + 1 /\ Append(s, x)[Len(s) + 1] = x
         /\ \A i \in 1..Len(s) : Append(s, x)[i] = s[i]
<1>1. Front(Append(s, x)) = SubSeq(Append(s, x), 1, Len(s)) /\ Len(s) \in Nat
  BY DEF Front
<1>2. SubSeq(Append(s, x), 1, Len(s)) = SubSeq(s, 1, Len(s))
  BY <1>1
<1>3. SubSeq(s, 1, Len(s)) = s
  BY SubSeqFull
<1>4. QED
  BY <1>1, <1>2, <1>3 DEF Last

LEMMA CompilesExists ==
  ASSUME NEW c \in Seq(Stages)
  PROVE  \E g : Compiles(g, c) /\ Compile(c) = g[Len(c)]
<1> DEFINE V == Seq(CompiledStages(c))
           f == Joined(c)
           p == Positions(c)
           base == << >>
<1>1. /\ p \in Seq(DOMAIN c) /\ Len(p) = Len(c) /\ Len(c) \in Nat
      /\ DOMAIN c = 1..Len(c) /\ \A k \in 1..Len(c) : p[k] = k
  BY PositionsType DEF Positions
<1>2. base \in V /\ Folding(V, DOMAIN c, f, base, p)
  <2>1. base \in V
    OBVIOUS
  <2>2. f \in [V \X DOMAIN c -> V]
    BY JoinedType
  <2> HIDE DEF V, f, p, base
  <2>3. QED
    BY <1>1, <2>1, <2>2 DEF Folding
<1>3. Compile(c) = FoldOf(V, f, base, p)
  BY CompileIsFold
<1> HIDE DEF V, f, p
<1>4. PICK g : Folds(g, V, f, base, p)
  BY <1>2, FoldsExist
<1>5. Compile(c) = g[Len(c)]
  <2>1. Len(p) \in Nat
    BY <1>1
  <2>2. FoldOf(V, f, base, p) = g[Len(p)]
    BY <1>4, <2>1, FoldOfIs
  <2>3. QED
    BY <1>1, <1>3, <2>2
<1>6. /\ g \in [0..Len(c) -> V] /\ g[0] = << >>
      /\ \A k \in 1..Len(c) : g[k] = f[<< g[k - 1], k >>]
  <2>1. /\ g \in [0..Len(p) -> V] /\ g[0] = base
        /\ \A k \in 1..Len(p) : g[k] = f[<< g[k - 1], p[k] >>]
    BY <1>4 DEF Folds
  <2>2. QED
    BY <1>1, <2>1
<1>7. ASSUME NEW k \in 1..Len(c)
      PROVE  /\ k - 1 \in 0..Len(c) /\ g[k - 1] \in V
             /\ g[k] = IF g[k - 1] # << >> /\ c[k].op = "map" /\ c[k - 1].op = "map"
                       THEN Append(Front(g[k - 1]),
                                   Lengthened(Last(g[k - 1]), c[k].arg))
                       ELSE Append(g[k - 1], CompiledStage(c, k))
  <2>1. k - 1 \in 0..Len(c) /\ g[k - 1] \in V
    <3>1. k - 1 \in 0..Len(c)
      BY <1>1
    <3>2. QED
      BY <1>6, <3>1
  <2>2. << g[k - 1], k >> \in V \X DOMAIN c
    BY <1>1, <2>1
  <2>3. g[k] = IF g[k - 1] # << >> /\ c[k].op = "map" /\ c[k - 1].op = "map"
               THEN Append(Front(g[k - 1]),
                           [Last(g[k - 1]) EXCEPT !.kind = "mapChain",
                                                  !.funcs = Append(@, c[k].arg)])
               ELSE Append(g[k - 1], CompiledStage(c, k))
    BY <1>6, <2>2 DEF f, Joined, V
  <2>4. ASSUME g[k - 1] # << >>
        PROVE  [Last(g[k - 1]) EXCEPT !.kind = "mapChain",
                                      !.funcs = Append(@, c[k].arg)]
                 = Lengthened(Last(g[k - 1]), c[k].arg)
    <3>1. PICK l \in CompiledStages(c) : l = Last(g[k - 1])
      BY <2>1, <2>4, LastAndFront DEF V
    <3>2. l = [kind |-> l.kind, at |-> l.at, funcs |-> l.funcs]
      BY <3>1 DEF CompiledStages
    <3>3. [l EXCEPT !.kind = "mapChain", !.funcs = Append(@, c[k].arg)]
            = [kind |-> "mapChain", at |-> l.at, funcs |-> Append(l.funcs, c[k].arg)]
      BY <3>2, ChainedStage
    <3>4. QED
      BY <3>1, <3>3 DEF Lengthened
  <2>5. QED
    BY <2>1, <2>3, <2>4
<1>8. ASSUME NEW k \in 1..Len(c), k > 1 => g[k - 1] # << >>
      PROVE  /\ g[k] # << >>
             /\ Joins(c, k) => /\ g[k - 1] # << >>
                               /\ g[k] = Append(Front(g[k - 1]),
                                          Lengthened(Last(g[k - 1]), c[k].arg))
             /\ ~Joins(c, k) => g[k] = Append(g[k - 1], CompiledStage(c, k))
             /\ c[k].op = "map" => Last(g[k]).kind \in {"map", "mapChain"}
  <2>1. k = 1 => g[k - 1] = << >>
    BY <1>6
  <2>2. g[k] \in V
    <3>1. k \in 0..Len(c)
      BY <1>1
    <3> HIDE DEF V
    <3>2. QED
      BY <1>6, <3>1
  <2>3. CASE Joins(c, k)
    <3>1. g[k - 1] # << >> /\ c[k].op = "map" /\ c[k - 1].op = "map"
      BY <1>8, <2>3 DEF Joins
    <3> DEFINE l == Lengthened(Last(g[k - 1]), c[k].arg)
    <3>2. g[k] = Append(Front(g[k - 1]), l)
      BY <1>7, <3>1
    <3>3. Front(g[k - 1]) \in V
      BY <1>7, <3>1, LastAndFront DEF V
    <3>4. l.kind = "mapChain"
      BY DEF Lengthened
    <3> HIDE DEF l
    <3>5. Last(g[k]) = l /\ g[k] # << >>
      <4>1. Front(g[k - 1]) \in Seq(CompiledStages(c) \union {l})
        BY <3>3 DEF V
      <4>2. QED
        BY <3>2, <4>1, LastOfAppend
    <3>6. QED
      BY <2>3, <3>1, <3>2, <3>4, <3>5 DEF l
  <2>4. CASE ~Joins(c, k)
    <3>1. g[k] = Append(g[k - 1], CompiledStage(c, k))
      <4>1. ~(g[k - 1] # << >> /\ c[k].op = "map" /\ c[k - 1].op = "map")
        BY <1>1, <2>1, <2>4 DEF Joins
      <4>2. QED
        BY <1>7, <4>1
    <3>2. CompiledStage(c, k) \in CompiledStages(c)
      BY <1>1, CompiledStageType
    <3>3. Last(g[k]) = CompiledStage(c, k) /\ g[k] # << >>
      <4>1. PICK s, t : s = g[k - 1] /\ t = CompiledStage(c, k)
        OBVIOUS
      <4>2. s \in Seq(CompiledStages(c)) /\ t \in CompiledStages(c)
        BY <1>7, <3>2, <4>1 DEF V
      <4>3. Append(s, t) # << >> /\ Last(Append(s, t)) = t
        BY <4>2, LastOfAppend
      <4>4. QED
        BY <3>1, <4>1, <4>3
    <3>4. CompiledStage(c, k).kind = c[k].op
      BY DEF CompiledStage
    <3>5. QED
      BY <2>4, <3>1, <3>3, <3>4
  <2>5. QED
    BY <2>3, <2>4
<1> DEFINE S == {k \in Nat : k + 1 <= Len(c) => g[k + 1] # << >>}
<1>9. 0 \in S
  <2>1. CASE 1 <= Len(c)
    <3>1. 1 \in 1..Len(c)
      BY <1>1, <2>1
    <3>2. g[1] # << >>
      BY <1>8, <3>1
    <3>3. QED
      BY <3>2
  <2>2. QED
    BY <1>1, <2>1
<1>10. ASSUME NEW k \in Nat, k \in S
       PROVE  k + 1 \in S
  <2>1. SUFFICES ASSUME k + 2 <= Len(c)
                 PROVE  g[k + 2] # << >>
    OBVIOUS
  <2>2. k + 2 \in 1..Len(c) /\ (k + 2) - 1 = k + 1 /\ g[k + 1] # << >>
    BY <1>1, <1>10, <2>1
  <2>3. QED
    BY <1>8, <2>2
<1>11. \A k \in Nat : k \in S
  <2> HIDE DEF S
  <2> QED BY <1>9, <1>10, SetInduction
<1>12. \A k \in 1..Len(c) : k > 1 => g[k - 1] # << >>
  <2>1. ASSUME NEW k \in 1..Len(c), k > 1
        PROVE  g[k - 1] # << >>
    <3>1. k - 2 \in Nat /\ (k - 2) + 1 = k - 1 /\ k - 1 <= Len(c)
      BY <1>1, <2>1
    <3>2. k - 2 \in S
      <4> HIDE DEF S
      <4> QED BY <1>11, <3>1
    <3>3. QED
      BY <3>1, <3>2
  <2>2. QED
    BY <2>1
<1>13. Compiles(g, c)
  BY <1>6, <1>8, <1>12 DEF Compiles, V
<1>14. QED
  BY <1>5, <1>13

(* Every Query but a map is a stage of its own, and only the last Query    *)
(* can be the last stage.                                                  *)
Stands(g, c, k) ==
  \A i \in 1..k : c[i].op # "map" =>
    \E j \in DOMAIN g[k] : /\ g[k][j].kind = c[i].op
                           /\ i < k => j < Len(g[k])

StreamsOps(c) ==
  \A i \in DOMAIN c : /\ c[i].op \in StreamableKinds
                      /\ c[i].op \in {"reduce", "last"} => i = Len(c)

LEMMA StandsStep ==
  ASSUME NEW c \in Seq(Stages), NEW g, Compiles(g, c), NEW k \in 1..Len(c),
         Stands(g, c, k - 1)
  PROVE  Stands(g, c, k)
<1> DEFINE V == Seq(CompiledStages(c))
<1>1. /\ Len(c) \in Nat /\ k \in Nat /\ DOMAIN c = 1..Len(c)
      /\ k - 1 \in 0..Len(c) /\ k \in 0..Len(c)
  OBVIOUS
<1>2. g[k - 1] \in V /\ g[k] \in V /\ g[0] = << >>
  BY <1>1 DEF Compiles
<1>3. PICK s \in V : s = g[k - 1]
  BY <1>2
<1>4. Len(s) \in Nat /\ DOMAIN s = 1..Len(s)
  BY <1>3
<1>5. CASE Joins(c, k)
  <2> DEFINE l == Lengthened(Last(s), c[k].arg)
             f == Front(s)
  <2>1. /\ s # << >> /\ g[k] = Append(f, l)
        /\ k > 1 /\ c[k].op = "map" /\ c[k - 1].op = "map"
    BY <1>3, <1>5 DEF Compiles, Joins
  <2>2. f \in V /\ Len(f) = Len(s) - 1 /\ s = Append(f, Last(s))
    BY <1>3, <2>1, LastAndFront
  <2>3. /\ Len(g[k]) = Len(s) /\ Len(f) \in Nat
        /\ \A j \in 1..Len(f) : g[k][j] = s[j]
    <3>1. PICK e, z : e = f /\ z = Last(s)
      OBVIOUS
    <3>2. e \in Seq(CompiledStages(c) \union {l, z})
      BY <2>2, <3>1
    <3> HIDE DEF f, l
    <3>3. /\ Len(Append(e, l)) = Len(e) + 1
          /\ \A j \in 1..Len(e) : Append(e, l)[j] = e[j]
      BY <3>2, LastOfAppend
    <3>4. \A j \in 1..Len(e) : Append(e, z)[j] = e[j]
      BY <3>2, LastOfAppend
    <3>5. Len(e) \in Nat
      BY <3>2
    <3>6. s = Append(e, z) /\ g[k] = Append(e, l) /\ Len(e) = Len(s) - 1
      BY <2>1, <2>2, <3>1
    <3>7. \A j \in 1..Len(e) : g[k][j] = s[j]
      BY <3>3, <3>4, <3>6
    <3>8. QED
      BY <1>4, <3>1, <3>3, <3>5, <3>6, <3>7
  <2> HIDE DEF f, l
  <2>4. ASSUME NEW i \in 1..k, c[i].op # "map"
        PROVE  \E j \in DOMAIN g[k] : /\ g[k][j].kind = c[i].op
                                      /\ i < k => j < Len(g[k])
    <3>1. i \in 1..(k - 1) /\ i < k - 1
      <4>1. i # k /\ i # k - 1
        BY <2>1, <2>4
      <4>2. QED
        BY <1>1, <4>1
    <3>2. PICK j \in DOMAIN s : s[j].kind = c[i].op /\ j < Len(s)
      BY <1>3, <2>4, <3>1 DEF Stands
    <3>3. j \in 1..Len(f) /\ j \in 1..Len(s)
      BY <1>4, <2>2, <2>3, <3>2
    <3>4. j \in DOMAIN g[k] /\ g[k][j].kind = c[i].op /\ j < Len(g[k])
      BY <1>2, <2>3, <3>2, <3>3
    <3>5. QED
      BY <3>4
  <2>5. QED
    BY <2>4 DEF Stands
<1>6. CASE ~Joins(c, k)
  <2> DEFINE l == CompiledStage(c, k)
  <2>1. g[k] = Append(s, l) /\ l \in CompiledStages(c) /\ l.kind = c[k].op
    BY <1>1, <1>3, <1>6, CompiledStageType DEF Compiles, CompiledStage
  <2> HIDE DEF l
  <2>2. /\ Len(g[k]) = Len(s) + 1 /\ g[k][Len(s) + 1] = l
        /\ DOMAIN g[k] = 1..(Len(s) + 1)
        /\ \A j \in 1..Len(s) : g[k][j] = s[j]
    BY <1>3, <1>4, <2>1
  <2>3. ASSUME NEW i \in 1..k, c[i].op # "map"
        PROVE  \E j \in DOMAIN g[k] : /\ g[k][j].kind = c[i].op
                                      /\ i < k => j < Len(g[k])
    <3>1. CASE i = k
      <4>1. Len(s) + 1 \in DOMAIN g[k] /\ g[k][Len(s) + 1].kind = c[i].op
        BY <1>4, <2>1, <2>2, <3>1
      <4>2. QED
        BY <1>1, <3>1, <4>1
    <3>2. CASE i # k
      <4>1. i \in 1..(k - 1)
        BY <1>1, <3>2
      <4>2. PICK j \in DOMAIN s : s[j].kind = c[i].op
        BY <1>3, <2>3, <4>1 DEF Stands
      <4>3. j \in DOMAIN g[k] /\ g[k][j].kind = c[i].op /\ j < Len(g[k])
        BY <1>4, <2>2, <4>2
      <4>4. QED
        BY <4>3
    <3>3. QED
      BY <3>1, <3>2
  <2>4. QED
    BY <2>3 DEF Stands
<1>7. QED
  BY <1>5, <1>6

LEMMA OpsStream ==
  ASSUME NEW c \in Seq(Stages), Streamable(Compile(c))
  PROVE  StreamsOps(c)
<1>1. PICK g : Compiles(g, c) /\ Compile(c) = g[Len(c)]
  BY CompilesExists
<1> DEFINE n == Len(c)
           S == {k \in Nat : k <= n => Stands(g, c, k)}
<1>2. 0 \in S
  BY DEF Stands
<1>3. ASSUME NEW k \in Nat, k \in S
      PROVE  k + 1 \in S
  <2>1. SUFFICES ASSUME k + 1 <= n
                 PROVE  Stands(g, c, k + 1)
    OBVIOUS
  <2>2. k + 1 \in 1..n /\ (k + 1) - 1 = k /\ Stands(g, c, k)
    BY <1>3, <2>1
  <2>3. QED
    BY <1>1, <2>2, StandsStep
<1>4. \A k \in Nat : k \in S
  <2> HIDE DEF S
  <2> QED BY <1>2, <1>3, SetInduction
<1>5. n \in Nat /\ DOMAIN c = 1..n /\ Stands(g, c, n)
  BY <1>4
<1>6. ASSUME NEW i \in DOMAIN c
      PROVE  /\ c[i].op \in StreamableKinds
             /\ c[i].op \in {"reduce", "last"} => i = n
  <2>1. CASE c[i].op = "map"
    BY <2>1 DEF StreamableKinds
  <2>2. CASE c[i].op # "map"
    <3>1. PICK j \in DOMAIN g[n] : g[n][j].kind = c[i].op
                                 /\ (i < n => j < Len(g[n]))
      BY <1>5, <2>2 DEF Stands
    <3>2. /\ c[i].op \in StreamableKinds
          /\ c[i].op \in {"reduce", "last"} => j = Len(g[n])
      BY <1>1, <3>1 DEF Streamable
    <3>3. g[n] \in Seq(CompiledStages(c))
      BY <1>1, <1>5 DEF Compiles
    <3>4. Len(g[n]) \in Nat
      BY <3>3
    <3>5. QED
      BY <1>5, <3>1, <3>2, <3>4
  <2>3. QED
    BY <2>1, <2>2
<1>7. QED
  BY <1>6 DEF StreamsOps

(* One stage for every Query.                                              *)
Singles(c) == [i \in DOMAIN c |-> CompiledStage(c, i)]

LEMMA SinglesType ==
  ASSUME NEW c \in Seq(Stages), StreamsOps(c)
  PROVE  /\ Singles(c) \in Seq(StreamedStages(c)) /\ Len(Singles(c)) = Len(c)
         /\ \A i \in DOMAIN c : /\ Singles(c)[i] = CompiledStage(c, i)
                                /\ CompiledStage(c, i) \in StreamedStages(c)
<1>1. \A i \in DOMAIN c : CompiledStage(c, i) \in StreamedStages(c)
  <2>1. \A i \in DOMAIN c : CompiledStage(c, i) \in CompiledStages(c)
                            /\ CompiledStage(c, i).kind = c[i].op
    BY CompiledStageType DEF CompiledStage
  <2>2. QED
    BY <2>1 DEF StreamedStages, StreamsOps
<1>2. DOMAIN c = 1..Len(c) /\ Len(c) \in Nat
  OBVIOUS
<1> DEFINE s == Singles(c)
<1>3. s \in [1..Len(c) -> StreamedStages(c)]
  BY <1>1, <1>2 DEF Singles
<1>4. \A i \in DOMAIN c : s[i] = CompiledStage(c, i)
  BY DEF Singles
<1> HIDE DEF s
<1>5. s \in Seq(StreamedStages(c)) /\ Len(s) = Len(c)
  BY <1>2, <1>3
<1>6. QED
  BY <1>1, <1>4, <1>5 DEF s

LEMMA StreamedPrefix ==
  ASSUME NEW c \in Seq(Stages), StreamsOps(c), NEW g, Compiles(g, c)
  PROVE  \A k \in 0..Len(c) : g[k] \in Seq(StreamedStages(c))
<1> DEFINE n == Len(c)
           T == StreamedStages(c)
           S == {k \in Nat : k <= n => g[k] \in Seq(T)}
<1>1. 0 \in S
  <2>1. g[0] = << >> /\ << >> \in Seq(T)
    BY DEF Compiles
  <2>2. QED
    BY <2>1
<1>2. ASSUME NEW k \in Nat, k \in S
      PROVE  k + 1 \in S
  <2>1. SUFFICES ASSUME k + 1 <= n
                 PROVE  g[k + 1] \in Seq(T)
    OBVIOUS
  <2>2. /\ k + 1 \in 1..n /\ (k + 1) - 1 = k /\ g[k] \in Seq(T)
        /\ k + 1 \in DOMAIN c /\ k + 1 \in 0..n
    BY <1>2, <2>1
  <2>3. g[k + 1] \in Seq(CompiledStages(c))
    BY <2>2 DEF Compiles
  <2>4. PICK s \in Seq(T) : s = g[k]
    BY <2>2
  <2>5. CASE Joins(c, k + 1)
    <3> DEFINE l == Lengthened(Last(s), c[k + 1].arg)
    <3>1. s # << >> /\ g[k + 1] = Append(Front(s), l)
      BY <2>2, <2>4, <2>5 DEF Compiles
    <3>2. Front(s) \in Seq(T)
      BY <3>1, LastAndFront
    <3>3. l.kind = "mapChain"
      BY DEF Lengthened
    <3> HIDE DEF l, T
    <3>4. l \in CompiledStages(c)
      <4>1. Last(g[k + 1]) \in CompiledStages(c)
        BY <2>2, <2>3, LastAndFront DEF Compiles
      <4>2. Last(g[k + 1]) = l
        <5>1. Front(s) \in Seq(T \union {l})
          BY <3>2
        <5>2. QED
          BY <3>1, <5>1, LastOfAppend
      <4>3. QED
        BY <4>1, <4>2
    <3>5. l \in T
      BY <3>3, <3>4 DEF T, StreamedStages, StreamableKinds
    <3>6. QED
      BY <3>1, <3>2, <3>5
  <2>6. CASE ~Joins(c, k + 1)
    <3>1. g[k + 1] = Append(s, CompiledStage(c, k + 1))
      BY <2>2, <2>4, <2>6 DEF Compiles
    <3>2. CompiledStage(c, k + 1) \in T
      BY <2>2, SinglesType
    <3>3. QED
      BY <3>1, <3>2
  <2>7. QED
    BY <2>5, <2>6
<1>3. \A k \in Nat : k \in S
  <2> HIDE DEF S
  <2> QED BY <1>1, <1>2, SetInduction
<1>4. QED
  BY <1>3

(* One mapper more in a run of them is one map more behind the run.        *)
LEMMA LongerRun ==
  ASSUME AccumReturns, NEW c \in Seq(Stages), Callbacks(c),
         NEW u \in States(c), NEW l \in StreamedStages(c),
         l.kind \in {"map", "mapChain"},
         NEW i \in DOMAIN c, c[i].op = "map",
         Lengthened(l, c[i].arg) \in StreamedStages(c),
         CompiledStage(c, i) \in StreamedStages(c)
  PROVE  Passing(c)[<< u, Lengthened(l, c[i].arg) >>]
           = Passing(c)[<< Passing(c)[<< u, l >>], CompiledStage(c, i) >>]
<1> DEFINE f == Passing(c)
           a == c[i].arg
           m == Lengthened(l, a)
           t == CompiledStage(c, i)
           F(x, s) == FoldLeft(LAMBDA v, h : Mapper(h, v), x, s)
<1>1. \A s \in States(c), r \in StreamedStages(c) :
        f[<< s, r >>] = IF s.keep THEN StreamStage(c, s, r) ELSE s
  <2> HIDE DEF F, a, m, t
  <2>1. QED
    BY DEF Passing
<1>2. f[<< u, l >>] \in States(c)
  BY PassingType
<1>3. \A s, r : r.kind \in {"map", "mapChain"} =>
        StreamStage(c, s, r) = [s EXCEPT !.value = F(s.value, r.funcs)]
  <2>1. SUFFICES ASSUME NEW s, NEW r, r.kind \in {"map", "mapChain"}
                 PROVE  StreamStage(c, s, r)
                          = [s EXCEPT !.value = F(s.value, r.funcs)]
    OBVIOUS
  <2> HIDE DEF f, a, m, t
  <2>2. CASE r.kind = "map"
    BY <2>2 DEF StreamStage
  <2>3. CASE r.kind = "mapChain"
    BY <2>3 DEF StreamStage
  <2>4. QED
    BY <2>1, <2>2, <2>3
<1>4. /\ m.kind = "mapChain" /\ m.funcs = Append(l.funcs, a)
      /\ t.kind = "map" /\ t.funcs = << a >>
  BY DEF Lengthened, CompiledStage
<1>5. /\ l.funcs \in Seq(MapArgs(c)) /\ a \in MapArgs(c) /\ u.value \in Items
      /\ << a >> \in Seq(MapArgs(c)) /\ m.funcs \in Seq(MapArgs(c))
  <2>1. a \in MapArgs(c)
    BY DEF MapArgs
  <2>2. l.funcs \in Seq(MapArgs(c)) /\ m.funcs \in Seq(MapArgs(c))
    BY DEF StreamedStages, CompiledStages
  <2>3. u.value \in Items
    BY StateFields
  <2> HIDE DEF a, m
  <2>4. << a >> \in Seq(MapArgs(c))
    BY <2>1
  <2>5. QED
    BY <2>1, <2>2, <2>3, <2>4
<1>6. /\ F(u.value, l.funcs) \in Items
      /\ F(u.value, Append(l.funcs, a)) = Mapper(a, F(u.value, l.funcs))
      /\ \A x \in Items : F(x, << a >>) = Mapper(a, x)
  <2> DEFINE G(x, s) == FoldOf(Items, Mapped(c), x, s)
  <2>1. \A x \in Items, s \in Seq(MapArgs(c)) : F(x, s) = G(x, s)
    BY MapperIsFold
  <2>2. \A x \in Items, s \in Seq(MapArgs(c)) :
          Folding(Items, MapArgs(c), Mapped(c), x, s)
    BY MappedType DEF Folding
  <2> HIDE DEF F, a, m
  <2>3. \A x \in Items, s \in Seq(MapArgs(c)) : G(x, s) \in Items
    BY <2>2, FoldOfType
  <2>4. \A x \in Items, s \in Seq(MapArgs(c)) :
          G(x, Append(s, a)) = Mapped(c)[<< G(x, s), a >>]
    BY <1>5, <2>2, FoldOfAppend
  <2>5. PICK e \in Seq(MapArgs(c)) : e = << >>
    <3>1. << >> \in Seq(MapArgs(c))
      OBVIOUS
    <3>2. QED
      BY <3>1
  <2>6. \A x \in Items : G(x, e) = x
    BY <2>2, <2>5, FoldOfEmpty
  <2> HIDE DEF G
  <2>7. \A x \in Items : Mapped(c)[<< x, a >>] = Mapper(a, x)
    BY <1>5 DEF Mapped
  <2>8. \A x \in Items : G(x, Append(e, a)) = Mapper(a, x)
    BY <2>4, <2>6, <2>7
  <2>9. << a >> = Append(e, a) /\ Append(l.funcs, a) \in Seq(MapArgs(c))
    <3>1. << a >> = Append(e, a)
      BY <2>5
    <3>2. Append(l.funcs, a) \in Seq(MapArgs(c))
      BY <1>5
    <3>3. QED
      BY <3>1, <3>2
  <2>10. F(u.value, l.funcs) = G(u.value, l.funcs) /\ G(u.value, l.funcs) \in Items
    BY <1>5, <2>1, <2>3
  <2>11. F(u.value, Append(l.funcs, a)) = Mapper(a, G(u.value, l.funcs))
    <3>1. F(u.value, Append(l.funcs, a)) = G(u.value, Append(l.funcs, a))
      BY <1>5, <2>1, <2>9
    <3>2. G(u.value, Append(l.funcs, a)) = Mapped(c)[<< G(u.value, l.funcs), a >>]
      BY <1>5, <2>4
    <3>3. QED
      BY <2>7, <2>10, <3>1, <3>2
  <2>12. \A x \in Items : F(x, << a >>) = Mapper(a, x)
    BY <1>5, <2>1, <2>8, <2>9
  <2>13. QED
    BY <2>10, <2>11, <2>12
<1> HIDE DEF F, f, m, t, a
<1>7. CASE ~u.keep
  BY <1>1, <1>2, <1>7 DEF m, t, a, f
<1>8. CASE u.keep
  <2> DEFINE w == F(u.value, l.funcs)
  <2>1. PICK v \in States(c) : v = f[<< u, l >>]
    BY <1>2
  <2>2. v = [u EXCEPT !.value = w]
    BY <1>1, <1>3, <1>8, <2>1
  <2>3. v = [out |-> u.out, ctxs |-> u.ctxs, value |-> w, keep |-> u.keep,
             reduced |-> u.reduced, last |-> u.last]
    BY <2>2, StateFields
  <2>4. v.value = w /\ v.keep = u.keep /\ v.out = u.out /\ v.ctxs = u.ctxs
        /\ v.reduced = u.reduced /\ v.last = u.last
    BY <2>3
  <2>5. f[<< v, t >>] = [v EXCEPT !.value = Mapper(a, w)]
    <3>1. f[<< v, t >>] = StreamStage(c, v, t)
      BY <1>1, <1>8, <2>4 DEF t
    <3>2. StreamStage(c, v, t) = [v EXCEPT !.value = F(v.value, t.funcs)]
      BY <1>3, <1>4
    <3>3. F(v.value, t.funcs) = Mapper(a, w)
      BY <1>4, <1>6, <2>4
    <3>4. QED
      BY <3>1, <3>2, <3>3
  <2>6. f[<< u, m >>] = [u EXCEPT !.value = Mapper(a, w)]
    <3>1. f[<< u, m >>] = StreamStage(c, u, m)
      BY <1>1, <1>8 DEF m, a
    <3>2. StreamStage(c, u, m) = [u EXCEPT !.value = F(u.value, m.funcs)]
      <4>1. m.kind \in {"map", "mapChain"}
        BY <1>4
      <4>2. QED
        BY <1>3, <4>1
    <3>3. QED
      BY <1>4, <1>6, <3>1, <3>2
  <2> HIDE DEF w
  <2>7. [v EXCEPT !.value = Mapper(a, w)]
          = [out |-> v.out, ctxs |-> v.ctxs, value |-> Mapper(a, w),
             keep |-> v.keep, reduced |-> v.reduced, last |-> v.last]
    BY StateFields
  <2>8. [u EXCEPT !.value = Mapper(a, w)]
          = [out |-> u.out, ctxs |-> u.ctxs, value |-> Mapper(a, w),
             keep |-> u.keep, reduced |-> u.reduced, last |-> u.last]
    BY StateFields
  <2>9. f[<< u, m >>] = f[<< v, t >>]
    BY <2>4, <2>5, <2>6, <2>7, <2>8
  <2>10. QED
    BY <2>1, <2>9 DEF f, m, t, a
<1>9. QED
  BY <1>7, <1>8

(* So an item that goes through the compiled stages goes through the       *)
(* Queries one by one.                                                     *)
Walks(h, c, st) ==
  /\ h \in [0..Len(c) -> States(c)]
  /\ h[0] = st
  /\ \A k \in 1..Len(c) :
       h[k] = IF h[k - 1].keep THEN StreamStage(c, h[k - 1], CompiledStage(c, k))
              ELSE h[k - 1]

LEMMA Lockstep ==
  ASSUME AccumReturns, NEW c \in Seq(Stages), Callbacks(c), StreamsOps(c),
         NEW g, Compiles(g, c), NEW st \in States(c), NEW h, Walks(h, c, st)
  PROVE  \A k \in 0..Len(c) :
           /\ g[k] \in Seq(StreamedStages(c))
           /\ FoldOf(States(c), Passing(c), st, g[k]) = h[k]
<1> DEFINE n == Len(c)
           V == States(c)
           T == StreamedStages(c)
           f == Passing(c)
           G(s) == FoldOf(V, f, st, s)
           S == {k \in Nat : k <= n => G(g[k]) = h[k]}
<1>1. \A k \in 0..n : g[k] \in Seq(T)
  BY StreamedPrefix
<1>2. \A s \in Seq(T) : Folding(V, T, f, st, s)
  BY PassingType DEF Folding
<1>3. \A u \in V, t \in T : f[<< u, t >>] = IF u.keep THEN StreamStage(c, u, t) ELSE u
  BY DEF Passing
<1>4. 0 \in S
  <2>1. g[0] = << >> /\ h[0] = st /\ << >> \in Seq(T)
    BY DEF Compiles, Walks
  <2> HIDE DEF V, T, f
  <2>2. G(<< >>) = st
    BY <1>2, <2>1, FoldOfEmpty
  <2>3. QED
    BY <2>1, <2>2
<1>5. ASSUME NEW s \in Seq(T), NEW t \in T
      PROVE  G(Append(s, t)) = f[<< G(s), t >>] /\ G(s) \in V
  <2>1. Folding(V, T, f, st, s)
    BY <1>2
  <2> HIDE DEF V, T, f
  <2>2. QED
    BY <2>1, FoldOfAppend, FoldOfType
<1>6. ASSUME NEW k \in Nat, k \in S
      PROVE  k + 1 \in S
  <2>1. SUFFICES ASSUME k + 1 <= n
                 PROVE  G(g[k + 1]) = h[k + 1]
    OBVIOUS
  <2>2. /\ k + 1 \in 1..n /\ (k + 1) - 1 = k /\ k \in 0..n /\ k + 1 \in 0..n
        /\ k + 1 \in DOMAIN c /\ G(g[k]) = h[k]
    BY <1>6, <2>1
  <2> DEFINE one == CompiledStage(c, k + 1)
  <2>3. one \in T /\ h[k] \in V
    BY <2>2, SinglesType DEF Walks
  <2>4. h[k + 1] = f[<< h[k], one >>]
    <3>1. h[k + 1] = IF h[k].keep THEN StreamStage(c, h[k], one) ELSE h[k]
      BY <2>2 DEF Walks
    <3> HIDE DEF one, f, V, T
    <3>2. QED
      BY <1>3, <2>3, <3>1
  <2>5. g[k] \in Seq(T) /\ g[k + 1] \in Seq(T)
    BY <1>1, <2>2
  <2>6. CASE Joins(c, k + 1)
    <3> DEFINE l == Last(g[k])
               r == Front(g[k])
               a == c[k + 1].arg
    <3>1. g[k] # << >> /\ g[k + 1] = Append(r, Lengthened(l, a))
      BY <2>2, <2>6 DEF Compiles
    <3>2. l \in T /\ r \in Seq(T) /\ g[k] = Append(r, l)
      BY <2>5, <3>1, LastAndFront
    <3>3. l.kind \in {"map", "mapChain"} /\ c[k + 1].op = "map"
      <4>1. k \in 1..n /\ c[k].op = "map" /\ c[k + 1].op = "map"
        BY <2>2, <2>6 DEF Joins
      <4>2. QED
        BY <4>1 DEF Compiles
    <3>4. Lengthened(l, a) \in T
      <4>1. Last(g[k + 1]) \in T
        BY <2>2, <2>5, LastAndFront DEF Compiles
      <4>2. Last(g[k + 1]) = Lengthened(l, a)
        <5>1. r \in Seq(T \union {Lengthened(l, a)})
          BY <3>2
        <5> HIDE DEF l, r, a, T
        <5>2. QED
          BY <3>1, <5>1, LastOfAppend
      <4>3. QED
        BY <4>1, <4>2
    <3>5. h[k] = f[<< G(r), l >>] /\ G(r) \in V
      <4> HIDE DEF l, r, V, T, f, G
      <4> QED BY <1>5, <2>2, <3>2
    <3>6. G(g[k + 1]) = f[<< G(r), Lengthened(l, a) >>]
      <4> HIDE DEF l, r, a, V, T, f, G
      <4> QED BY <1>5, <3>1, <3>2, <3>4
    <3>7. f[<< G(r), Lengthened(l, a) >>] = f[<< f[<< G(r), l >>], one >>]
      <4>1. PICK u \in V : u = G(r)
        BY <3>5
      <4>2. f[<< u, Lengthened(l, a) >>] = f[<< f[<< u, l >>], one >>]
        <5>1. /\ k + 1 \in DOMAIN c /\ c[k + 1].op = "map" /\ l \in T
              /\ l.kind \in {"map", "mapChain"} /\ one \in T
              /\ Lengthened(l, a) \in T
          BY <2>2, <2>3, <3>2, <3>3, <3>4
        <5> HIDE DEF l, G, r
        <5>2. QED
          BY <5>1, LongerRun
      <4>3. QED
        BY <4>1, <4>2
    <3>8. QED
      BY <2>4, <3>5, <3>6, <3>7
  <2>7. CASE ~Joins(c, k + 1)
    <3>1. g[k + 1] = Append(g[k], one)
      BY <2>2, <2>7 DEF Compiles
    <3>2. G(g[k + 1]) = f[<< G(g[k]), one >>]
      <4> HIDE DEF one, V, T, f, G
      <4> QED BY <1>5, <2>3, <2>5, <3>1
    <3>3. QED
      BY <2>2, <2>4, <3>2
  <2>8. QED
    BY <2>6, <2>7
<1>7. \A k \in Nat : k \in S
  <2> HIDE DEF S
  <2> QED BY <1>4, <1>6, SetInduction
<1>8. QED
  BY <1>1, <1>7

LEMMA WalksExist ==
  ASSUME AccumReturns, NEW c \in Seq(Stages), Callbacks(c), StreamsOps(c),
         NEW st \in States(c)
  PROVE  \E h : Walks(h, c, st)
<1> DEFINE V == States(c)
           T == StreamedStages(c)
           f == Passing(c)
           s == Singles(c)
<1>1. /\ s \in Seq(T) /\ Len(s) = Len(c) /\ DOMAIN c = 1..Len(c)
      /\ \A i \in DOMAIN c : s[i] = CompiledStage(c, i) /\ s[i] \in T
  BY SinglesType
<1>2. Folding(V, T, f, st, s)
  BY <1>1, PassingType DEF Folding
<1>3. \A u \in V, t \in T : f[<< u, t >>] = IF u.keep THEN StreamStage(c, u, t) ELSE u
  BY DEF Passing
<1> HIDE DEF T, f, s
<1>4. PICK h : Folds(h, V, f, st, s)
  BY <1>2, FoldsExist
<1>5. h \in [0..Len(c) -> V] /\ h[0] = st
  BY <1>1, <1>4 DEF Folds
<1>6. ASSUME NEW k \in 1..Len(c)
      PROVE  h[k] = IF h[k - 1].keep
                    THEN StreamStage(c, h[k - 1], CompiledStage(c, k))
                    ELSE h[k - 1]
  <2>1. k - 1 \in 0..Len(c)
    OBVIOUS
  <2>2. h[k - 1] \in V /\ s[k] = CompiledStage(c, k) /\ s[k] \in T
    BY <1>1, <1>5, <2>1
  <2>3. h[k] = f[<< h[k - 1], s[k] >>]
    BY <1>1, <1>4 DEF Folds
  <2>4. QED
    BY <1>3, <2>2, <2>3
<1>7. QED
  BY <1>5, <1>6 DEF Walks

LEMMA ItemWalk ==
  ASSUME AccumReturns, NEW c \in Seq(Stages), Callbacks(c),
         Streamable(Compile(c)), NEW st \in States(c), NEW item \in Items
  PROVE  /\ Compile(c) \in Seq(StreamedStages(c))
         /\ \E h : /\ Walks(h, c, Entering(st, item))
                   /\ StreamItem(c, Compile(c), st, item)
                        = IF h[Len(c)].keep
                          THEN [h[Len(c)] EXCEPT !.out = Append(@, h[Len(c)].value)]
                          ELSE h[Len(c)]
<1>1. StreamsOps(c) /\ Entering(st, item) \in States(c) /\ Len(c) \in Nat
      /\ Len(c) \in 0..Len(c)
  BY OpsStream, EnteringType
<1>2. PICK g : Compiles(g, c) /\ Compile(c) = g[Len(c)]
  BY CompilesExists
<1>3. PICK e \in States(c) : e = Entering(st, item)
  BY <1>1
<1>4. PICK h : Walks(h, c, e)
  BY <1>1, <1>3, WalksExist
<1>5. /\ Compile(c) \in Seq(StreamedStages(c))
      /\ FoldOf(States(c), Passing(c), e, Compile(c)) = h[Len(c)]
  BY <1>1, <1>2, <1>4, Lockstep
<1>6. StreamItem(c, Compile(c), st, item)
        = IF h[Len(c)].keep
          THEN [h[Len(c)] EXCEPT !.out = Append(@, h[Len(c)].value)]
          ELSE h[Len(c)]
  BY <1>3, <1>5, StreamItemIs
<1>7. QED
  BY <1>3, <1>4, <1>5, <1>6

-----------------------------------------------------------------------------
(* The generic path, stage by stage: what comes out of each, and the       *)
(* context it is left with.                                                *)
Outs(o, c, x0, items, isReady) ==
  /\ o \in [0..Len(c) -> Seq(Items)]
  /\ o[0] = items
  /\ \A k \in 1..Len(c) : o[k] = Apply(c[k], x0[k], o[k - 1], isReady).out

Left(o, c, x0, isReady) ==
  [i \in DOMAIN c |-> Apply(c[i], x0[i], o[i - 1], isReady).ctx]

LEMMA GenericSteps ==
  ASSUME AccumReturns, NEW c \in Seq(Stages), Callbacks(c),
         NEW x0 \in CtxsOf(c), NEW items \in Seq(Items), NEW isReady
  PROVE  \E o : /\ Outs(o, c, x0, items, isReady)
                /\ GenericBatch(c, x0, items, isReady)
                     = Result(o[Len(c)], Left(o, c, x0, isReady))
<1> DEFINE n == Len(c)
           V == Outcomes(c)
           f == Through(c, isReady)
           p == Positions(c)
           base == Result(items, x0)
<1>1. /\ p \in Seq(DOMAIN c) /\ Len(p) = n /\ n \in Nat
      /\ DOMAIN c = 1..n /\ \A k \in 1..n : p[k] = k
  BY PositionsType DEF Positions
<1>2. Folding(V, DOMAIN c, f, base, p)
  BY <1>1, ThroughType, OutcomeType DEF Folding
<1>3. GenericBatch(c, x0, items, isReady) = FoldOf(V, f, base, p)
  BY GenericIsFold
<1>4. /\ base.out = items /\ base.ctx = x0
      /\ \A u \in V : u.out \in Seq(Items) /\ u.ctx \in CtxsOf(c)
                      /\ u = Result(u.out, u.ctx)
  BY DEF Result, Outcomes
<1>5. \A u \in V, k \in DOMAIN c :
        /\ f[<< u, k >>].out = Apply(c[k], u.ctx[k], u.out, isReady).out
        /\ f[<< u, k >>].ctx
             = [u.ctx EXCEPT ![k] = Apply(c[k], u.ctx[k], u.out, isReady).ctx]
  BY DEF Through, Result
<1> HIDE DEF V, f, p, base
<1>6. PICK g : Folds(g, V, f, base, p)
  BY <1>2, FoldsExist
<1>7. FoldOf(V, f, base, p) = g[n]
  <2>1. Len(p) \in Nat
    BY <1>1
  <2>2. QED
    BY <1>1, <1>6, <2>1, FoldOfIs
<1>8. /\ g \in [0..n -> V] /\ g[0] = base
      /\ \A k \in 1..n : g[k] = f[<< g[k - 1], k >>]
  <2>1. /\ g \in [0..Len(p) -> V] /\ g[0] = base
        /\ \A k \in 1..Len(p) : g[k] = f[<< g[k - 1], p[k] >>]
    BY <1>6 DEF Folds
  <2>2. QED
    BY <1>1, <2>1
<1> DEFINE o == [k \in 0..n |-> g[k].out]
           after(k, i) == IF i <= k
                          THEN Apply(c[i], x0[i], o[i - 1], isReady).ctx
                          ELSE x0[i]
           S == {k \in Nat : k <= n => \A i \in DOMAIN c : g[k].ctx[i] = after(k, i)}
<1>9. 0 \in S
  BY <1>1, <1>4, <1>8
<1>10. ASSUME NEW k \in 1..n
       PROVE  /\ k - 1 \in 0..n /\ g[k - 1] \in V /\ g[k - 1].ctx \in CtxsOf(c)
              /\ o[k - 1] = g[k - 1].out /\ o[k] = g[k].out
              /\ k \in DOMAIN c
              /\ g[k].out = Apply(c[k], g[k - 1].ctx[k], o[k - 1], isReady).out
              /\ g[k].ctx = [g[k - 1].ctx EXCEPT ![k] =
                    Apply(c[k], g[k - 1].ctx[k], o[k - 1], isReady).ctx]
  <2>1. k - 1 \in 0..n /\ k \in 0..n /\ k \in DOMAIN c
    BY <1>1
  <2>2. g[k - 1] \in V
    <3> HIDE DEF o, V
    <3> QED BY <1>8, <2>1
  <2>3. o[k - 1] = g[k - 1].out /\ o[k] = g[k].out
    <3> HIDE DEF V
    <3> QED BY <2>1
  <2> HIDE DEF o, V
  <2>4. g[k] = f[<< g[k - 1], k >>]
    BY <1>8
  <2>5. PICK u \in V : u = g[k - 1]
    BY <2>2
  <2>6. u.ctx \in CtxsOf(c)
    BY <1>4, <2>5
  <2>7. /\ f[<< u, k >>].out = Apply(c[k], u.ctx[k], u.out, isReady).out
        /\ f[<< u, k >>].ctx
             = [u.ctx EXCEPT ![k] = Apply(c[k], u.ctx[k], u.out, isReady).ctx]
    BY <1>5, <2>1, <2>5
  <2>8. QED
    BY <2>1, <2>2, <2>3, <2>4, <2>5, <2>6, <2>7
<1>11. ASSUME NEW k \in Nat, k \in S
       PROVE  k + 1 \in S
  <2>1. SUFFICES ASSUME k + 1 <= n, NEW i \in DOMAIN c
                 PROVE  g[k + 1].ctx[i] = after(k + 1, i)
    <3> HIDE DEF after, o
    <3> QED OBVIOUS
  <2>2. /\ k + 1 \in 1..n /\ (k + 1) - 1 = k /\ k <= n
        /\ \A j \in DOMAIN c : g[k].ctx[j] = after(k, j)
    <3> HIDE DEF after, o
    <3> QED BY <1>11, <2>1
  <2>3. g[k].ctx[k + 1] = x0[k + 1]
    <3>1. k + 1 \in DOMAIN c /\ ~(k + 1 <= k)
      BY <1>1, <2>2
    <3>2. after(k, k + 1) = x0[k + 1]
      BY <3>1
    <3> HIDE DEF after, o
    <3>3. QED
      BY <2>2, <3>1, <3>2
  <2>4. /\ g[k].ctx \in CtxsOf(c)
        /\ g[k + 1].ctx = [g[k].ctx EXCEPT ![k + 1] =
             Apply(c[k + 1], x0[k + 1], o[k], isReady).ctx]
    <3> HIDE DEF o, after
    <3>1. /\ g[(k + 1) - 1].ctx \in CtxsOf(c)
          /\ g[k + 1].ctx = [g[(k + 1) - 1].ctx EXCEPT ![k + 1] =
                Apply(c[k + 1], g[(k + 1) - 1].ctx[k + 1], o[(k + 1) - 1],
                      isReady).ctx]
      BY <1>10, <2>2
    <3>2. QED
      BY <2>2, <2>3, <3>1
  <2>5. DOMAIN g[k].ctx = DOMAIN c
    BY <2>4 DEF CtxsOf
  <2>6. CASE i = k + 1
    <3>1. g[k + 1].ctx[i] = Apply(c[i], x0[i], o[k], isReady).ctx
      <4> HIDE DEF o
      <4> QED BY <2>4, <2>5, <2>6
    <3>2. i <= k + 1 /\ i - 1 = k
      BY <2>2, <2>6
    <3> HIDE DEF o
    <3>3. after(k + 1, i) = Apply(c[i], x0[i], o[k], isReady).ctx
      BY <3>2
    <3> HIDE DEF after
    <3>4. QED
      BY <3>1, <3>3
  <2>7. CASE i # k + 1
    <3>1. g[k + 1].ctx[i] = g[k].ctx[i]
      <4> HIDE DEF o
      <4> QED BY <2>4, <2>5, <2>7
    <3>2. i <= k + 1 <=> i <= k
      <4>1. i \in Nat
        BY <1>1
      <4>2. QED
        BY <2>7, <4>1
    <3> HIDE DEF o
    <3>3. after(k + 1, i) = after(k, i)
      BY <3>2
    <3> HIDE DEF after
    <3>4. QED
      BY <2>2, <3>1, <3>3
  <2>8. QED
    BY <2>6, <2>7
<1>12. \A k \in Nat : k \in S
  <2> HIDE DEF S
  <2> QED BY <1>9, <1>11, SetInduction
<1>13. Outs(o, c, x0, items, isReady)
  <2>1. o \in [0..n -> Seq(Items)] /\ o[0] = items
    BY <1>1, <1>4, <1>8
  <2>2. ASSUME NEW k \in 1..n
        PROVE  o[k] = Apply(c[k], x0[k], o[k - 1], isReady).out
    <3>1. k - 1 \in Nat /\ k - 1 <= n /\ ~(k <= k - 1) /\ k \in DOMAIN c
      BY <1>1
    <3>2. k - 1 \in S
      <4> HIDE DEF S
      <4> QED BY <1>12, <3>1
    <3>3. g[k - 1].ctx[k] = x0[k]
      BY <3>1, <3>2
    <3> HIDE DEF o
    <3>4. QED
      BY <1>10, <3>3
  <2> HIDE DEF o
  <2>3. QED
    BY <2>1, <2>2 DEF Outs
<1>14. g[n] = Result(o[n], Left(o, c, x0, isReady))
  <2>1. n \in S /\ n \in 0..n
    <3> HIDE DEF S
    <3> QED BY <1>1, <1>12
  <2>2. g[n] = Result(g[n].out, g[n].ctx) /\ g[n].ctx \in CtxsOf(c)
        /\ o[n] = g[n].out
    BY <1>4, <1>8, <2>1
  <2>3. \A i \in DOMAIN c :
          g[n].ctx[i] = Apply(c[i], x0[i], o[i - 1], isReady).ctx
    <3>1. \A i \in DOMAIN c : i <= n /\ g[n].ctx[i] = after(n, i)
      <4> HIDE DEF after, o
      <4> QED BY <1>1, <2>1
    <3> HIDE DEF o
    <3>2. QED
      BY <3>1
  <2> HIDE DEF o
  <2>4. g[n].ctx = Left(o, c, x0, isReady)
    BY <2>2, <2>3 DEF CtxsOf, Left
  <2>5. QED
    BY <2>2, <2>4
<1>15. QED
  BY <1>3, <1>7, <1>13, <1>14

-----------------------------------------------------------------------------
(* The two paths side by side: what may be assumed of a chain that streams. *)
Streams(c) ==
  /\ AccumReturns /\ c \in Seq(Stages) /\ c # << >>
  /\ Callbacks(c) /\ Streamable(Compile(c))

(* No stage hands the token to the next one.                               *)
Clean(c, o) == \A k \in 0..(Len(c) - 1) : o[k] \in Seq(Plain)

(* The outputs of stages that read item by item: all, but for a reduce or  *)
(* last at the end.                                                        *)
InBody(c, k) == k < Len(c) \/ c[Len(c)].op \in ItemKinds

LEMMA PlainOfAppend ==
  ASSUME NEW s \in Seq(Items), NEW v, Append(s, v) \in Seq(Plain)
  PROVE  s \in Seq(Plain) /\ v \in Plain
<1> DEFINE n == Len(s)
           a == Append(s, v)
           S == Items \union {v}
<1>1. n \in Nat /\ s \in [1..n -> Items] /\ a \in Seq(Plain)
  OBVIOUS
<1>2. s \in Seq(S) /\ v \in S
  BY <1>1
<1> HIDE DEF S
<1>3. Len(a) = n + 1 /\ v = a[n + 1] /\ \A i \in 1..n : s[i] = a[i]
  BY <1>2, LastOfAppend
<1> HIDE DEF a, n
<1>4. \A i \in 1..(n + 1) : a[i] \in Plain
  BY <1>1, <1>3
<1>5. n + 1 \in 1..(n + 1) /\ \A i \in 1..n : i \in 1..(n + 1)
  BY <1>1
<1>6. v \in Plain /\ \A i \in 1..n : s[i] \in Plain
  BY <1>3, <1>4, <1>5
<1>7. s \in [1..n -> Plain]
  BY <1>1, <1>6
<1>8. QED
  BY <1>1, <1>6, <1>7

LEMMA BodyIsItems ==
  ASSUME NEW c, Streams(c), NEW k \in 1..Len(c), InBody(c, k)
  PROVE  k \in DOMAIN c /\ c[k].op \in ItemKinds
<1>1. c \in Seq(Stages) /\ StreamsOps(c)
  BY OpsStream DEF Streams
<1>2. Len(c) \in Nat /\ DOMAIN c = 1..Len(c) /\ k \in DOMAIN c
  BY <1>1
<1>3. c[k].op \in StreamableKinds /\ c[k].op \in Operations
      /\ (c[k].op \in {"reduce", "last"} => k = Len(c))
  <2>1. c[k] \in Stages
    BY <1>1, <1>2
  <2>2. QED
    BY <1>1, <1>2, <2>1 DEF StreamsOps, Stages
<1>4. c[k].op \in ItemKinds \union {"reduce", "last"}
  BY <1>3 DEF StreamableKinds, Operations, ItemKinds
<1>5. CASE k < Len(c)
  BY <1>2, <1>3, <1>4, <1>5
<1>6. CASE k = Len(c)
  BY <1>2, <1>6 DEF InBody
<1>7. QED
  BY <1>2, <1>5, <1>6

(* An item x enters after the batch d: o is the generic path's way with d, *)
(* p with d and x; h is x's way through the stages from the state st the   *)
(* streaming path reached with d.                                          *)
Entered(c, x0, isReady, d, x, o, p, st, h) ==
  /\ Streams(c) /\ x0 \in CtxsOf(c) /\ d \in Seq(Plain) /\ x \in Plain
  /\ Outs(o, c, x0, d, isReady) /\ Outs(p, c, x0, Append(d, x), isReady)
  /\ Clean(c, o) /\ Clean(c, p)
  /\ st \in States(c) /\ st.ctxs = Left(o, c, x0, isReady)
  /\ Walks(h, c, Entering(st, x))

(* They are abreast at stage k.                                            *)
Abreast(c, x0, isReady, o, p, st, u, k) ==
  /\ u \in States(c)
  /\ k < Len(c) /\ u.keep => u.value \in Plain
  /\ p[k] = IF u.keep THEN Append(o[k], u.value) ELSE o[k]
  /\ u.out = st.out /\ u.reduced = st.reduced /\ u.last = st.last
  /\ \A i \in DOMAIN c :
       u.ctxs[i] = IF i <= k THEN Left(p, c, x0, isReady)[i] ELSE st.ctxs[i]

LEMMA AbreastStart ==
  ASSUME NEW c, NEW x0, NEW isReady, NEW d, NEW x, NEW o, NEW p, NEW st, NEW h,
         Entered(c, x0, isReady, d, x, o, p, st, h)
  PROVE  Abreast(c, x0, isReady, o, p, st, h[0], 0)
<1>1. st \in States(c) /\ d \in Seq(Plain) /\ x \in Plain /\ c \in Seq(Stages)
      /\ x \in Items
  BY DEF Entered, Streams, Plain
<1>2. /\ o[0] = d /\ p[0] = Append(d, x) /\ h[0] = Entering(st, x)
      /\ h[0] \in States(c)
  BY <1>1, EnteringType DEF Entered, Outs, Walks
<1>3. /\ h[0].out = st.out /\ h[0].reduced = st.reduced /\ h[0].last = st.last
      /\ h[0].ctxs = st.ctxs /\ h[0].value = x /\ h[0].keep = TRUE
  BY <1>1, <1>2 DEF Entering, States
<1>4. \A i \in DOMAIN c : ~(i <= 0)
  BY <1>1
<1>5. QED
  BY <1>1, <1>2, <1>3, <1>4 DEF Abreast

LEMMA AbreastStep ==
  ASSUME NEW c, NEW x0, NEW isReady, NEW d, NEW x, NEW o, NEW p, NEW st, NEW h,
         Entered(c, x0, isReady, d, x, o, p, st, h),
         NEW k \in 1..Len(c), InBody(c, k),
         Abreast(c, x0, isReady, o, p, st, h[k - 1], k - 1)
  PROVE  Abreast(c, x0, isReady, o, p, st, h[k], k)
<1> DEFINE u == h[k - 1]
           y == Apply(c[k], x0[k], o[k - 1], isReady).ctx
           v == u.value
<1>1. /\ c \in Seq(Stages) /\ AccumReturns /\ Callbacks(c)
      /\ st \in States(c) /\ x0 \in CtxsOf(c)
  BY DEF Entered, Streams
<1>2. /\ k \in DOMAIN c /\ c[k].op \in ItemKinds /\ c[k] \in Stages
      /\ Returns(c[k]) /\ ContextOK(c[k], x0[k])
  <2>1. k \in DOMAIN c /\ c[k].op \in ItemKinds
    BY BodyIsItems DEF Entered
  <2>2. QED
    BY <1>1, <2>1 DEF Callbacks, CtxsOf
<1>3. /\ Len(c) \in Nat /\ DOMAIN c = 1..Len(c)
      /\ k - 1 \in 0..Len(c) /\ k \in 0..Len(c) /\ InBody(c, k - 1)
  <2>1. Len(c) \in Nat /\ DOMAIN c = 1..Len(c)
    BY <1>1
  <2>2. QED
    BY <2>1 DEF InBody
<1>4. /\ o[k - 1] \in Seq(Plain) /\ p[k - 1] \in Seq(Plain)
      /\ o[k] \in Seq(Items) /\ (k < Len(c) => p[k] \in Seq(Plain))
      /\ o[k] = Apply(c[k], x0[k], o[k - 1], isReady).out
      /\ p[k] = Apply(c[k], x0[k], p[k - 1], isReady).out
  <2>1. k - 1 \in 0..(Len(c) - 1) /\ (k < Len(c) => k \in 0..(Len(c) - 1))
    BY <1>3
  <2>2. QED
    BY <1>3, <2>1 DEF Entered, Outs, Clean
<1>5. /\ u \in States(c)
      /\ u.keep => v \in Plain
      /\ p[k - 1] = IF u.keep THEN Append(o[k - 1], v) ELSE o[k - 1]
      /\ u.out = st.out /\ u.reduced = st.reduced /\ u.last = st.last
      /\ \A i \in DOMAIN c : u.ctxs[i] = IF i <= k - 1
                                         THEN Left(p, c, x0, isReady)[i]
                                         ELSE st.ctxs[i]
  BY <1>3 DEF Abreast
<1>6. h[k] = IF u.keep THEN StreamStage(c, u, CompiledStage(c, k)) ELSE u
  BY DEF Entered, Walks
<1>7. h[k] \in States(c)
  BY <1>3 DEF Entered, Walks
<1>8. u.ctxs[k] = y /\ st.ctxs[k] = y
  <2>1. st.ctxs[k] = y
    BY <1>2 DEF Entered, Left
  <2>2. ~(k <= k - 1)
    BY <1>3
  <2>3. QED
    BY <1>2, <1>5, <2>1, <2>2
<1>9. Left(p, c, x0, isReady)[k] = Apply(c[k], x0[k], p[k - 1], isReady).ctx
  BY <1>2 DEF Left
<1>10. \A i \in DOMAIN c : i # k => (i <= k - 1 <=> i <= k)
  BY <1>3
<1> HIDE DEF u
<1>11. CASE ~u.keep
  <2>1. h[k] = u /\ p[k] = o[k]
    BY <1>4, <1>5, <1>6, <1>11
  <2>2. y = Left(p, c, x0, isReady)[k]
    BY <1>5, <1>9, <1>11
  <2> HIDE DEF y, v
  <2>3. \A i \in DOMAIN c : u.ctxs[i] = IF i <= k THEN Left(p, c, x0, isReady)[i]
                                        ELSE st.ctxs[i]
    BY <1>3, <1>5, <1>8, <1>10, <2>2
  <2>4. QED
    BY <1>4, <1>5, <1>7, <1>11, <2>1, <2>3 DEF Abreast
<1>12. CASE u.keep
  <2> DEFINE s == StreamStage(c, u, CompiledStage(c, k))
             m == Memory(c[k], y, v)
  <2>1. v \in Plain /\ p[k - 1] = Append(o[k - 1], v) /\ h[k] = s
    BY <1>5, <1>6, <1>12
  <2>2. OneMore(c[k], x0[k], o[k - 1], v, isReady)
    <3> HIDE DEF v
    <3> QED BY <1>1, <1>2, <1>4, <2>1, ItemOneMore
  <2>3. /\ p[k] = IF Keeps(c[k], y, v) THEN Append(o[k], Value(c[k], y, v))
                  ELSE o[k]
        /\ Left(p, c, x0, isReady)[k] = m
    BY <1>4, <1>9, <2>1, <2>2 DEF OneMore, Result
  <2>4. OneGoes(c, k, u)
    BY <1>1, <1>2, <1>5, ItemGoes
  <2>5. /\ s.out = u.out /\ s.reduced = u.reduced /\ s.last = u.last
        /\ s.keep <=> Keeps(c[k], y, v)
        /\ s.keep => s.value = Value(c[k], y, v)
        /\ s.ctxs = [u.ctxs EXCEPT ![k] = m]
    BY <1>8, <1>12, <2>4 DEF OneGoes
  <2>6. DOMAIN u.ctxs = DOMAIN c
    <3>1. u.ctxs \in CtxsOf(c)
      BY <1>5, StateFields
    <3>2. QED
      BY <3>1 DEF CtxsOf
  <2> HIDE DEF y, v, s, m
  <2>7. \A i \in DOMAIN c : s.ctxs[i] = IF i <= k THEN Left(p, c, x0, isReady)[i]
                                        ELSE st.ctxs[i]
    <3>1. \A i \in DOMAIN c : s.ctxs[i] = IF i = k THEN m ELSE u.ctxs[i]
      BY <1>2, <2>5, <2>6
    <3>2. k <= k
      BY <1>3
    <3>3. QED
      BY <1>5, <1>10, <2>3, <3>1, <3>2
  <2>8. p[k] = IF s.keep THEN Append(o[k], s.value) ELSE o[k]
    BY <2>3, <2>5
  <2>9. k < Len(c) /\ s.keep => s.value \in Plain
    BY <1>4, <2>8, PlainOfAppend
  <2>10. QED
    BY <1>5, <1>7, <2>1, <2>5, <2>7, <2>8, <2>9 DEF Abreast
<1>13. QED
  BY <1>11, <1>12

LEMMA BodyAbreast ==
  ASSUME NEW c, NEW x0, NEW isReady, NEW d, NEW x, NEW o, NEW p, NEW st, NEW h,
         Entered(c, x0, isReady, d, x, o, p, st, h)
  PROVE  \A k \in 0..Len(c) : InBody(c, k) =>
           Abreast(c, x0, isReady, o, p, st, h[k], k)
<1> DEFINE S == {k \in Nat : k <= Len(c) /\ InBody(c, k) =>
                   Abreast(c, x0, isReady, o, p, st, h[k], k)}
<1>1. 0 \in S
  BY AbreastStart
<1>2. ASSUME NEW k \in Nat, k \in S
      PROVE  k + 1 \in S
  <2>1. SUFFICES ASSUME k + 1 <= Len(c), InBody(c, k + 1)
                 PROVE  Abreast(c, x0, isReady, o, p, st, h[k + 1], k + 1)
    OBVIOUS
  <2>2. Len(c) \in Nat
    BY DEF Entered, Streams
  <2>3. k + 1 \in 1..Len(c) /\ (k + 1) - 1 = k /\ k <= Len(c) /\ InBody(c, k)
    BY <2>1, <2>2 DEF InBody
  <2>4. Abreast(c, x0, isReady, o, p, st, h[k], k)
    BY <1>2, <2>3
  <2> HIDE DEF S
  <2>5. QED
    BY <2>1, <2>3, <2>4, AbreastStep
<1>3. \A k \in Nat : k \in S
  <2> HIDE DEF S
  <2> QED BY <1>1, <1>2, SetInduction
<1>4. QED
  BY <1>3

(* What reduce and last make of an item.                                   *)
LEMMA AggregateGoes ==
  ASSUME NEW c \in Seq(Stages), NEW i \in DOMAIN c, NEW u \in States(c)
  PROVE  LET s == StreamStage(c, u, CompiledStage(c, i))
         IN  /\ c[i].op = "reduce" => s =
                  [out |-> u.out, ctxs |-> u.ctxs, value |-> u.value,
                   keep |-> FALSE,
                   reduced |-> << Accum(IF u.reduced = << >> THEN Null
                                        ELSE u.reduced[1], u.value) >>,
                   last |-> u.last]
             /\ c[i].op = "last" => s =
                  [out |-> u.out, ctxs |-> u.ctxs, value |-> u.value,
                   keep |-> FALSE, reduced |-> u.reduced,
                   last |-> << u.value >>]
<1> DEFINE s == StreamStage(c, u, CompiledStage(c, i))
           drop == [u EXCEPT !.keep = FALSE]
           a == Accum(IF u.reduced = << >> THEN Null ELSE u.reduced[1], u.value)
<1>1. CompiledStage(c, i).kind = c[i].op
  BY DEF CompiledStage
<1>2. PICK b \in BOOLEAN : b = FALSE
  OBVIOUS
<1>3. CASE c[i].op = "reduce"
  <2>1. s = [drop EXCEPT !.reduced =
               << Accum(IF @ = << >> THEN Null ELSE @[1], u.value) >>]
    BY <1>1, <1>3 DEF StreamStage
  <2>2. drop.reduced = u.reduced
    BY DEF States
  <2>3. s = [drop EXCEPT !.reduced = << a >>]
    BY <2>1, <2>2
  <2>4. s = [[u EXCEPT !.keep = b] EXCEPT !.reduced = << a >>]
    BY <1>2, <2>3
  <2> HIDE DEF s, a
  <2>5. PICK r : r = << a >>
    OBVIOUS
  <2>6. s = [out |-> u.out, ctxs |-> u.ctxs, value |-> u.value, keep |-> b,
             reduced |-> r, last |-> u.last]
    <3>1. s = [[u EXCEPT !.keep = b] EXCEPT !.reduced = r]
      BY <2>4, <2>5
    <3>2. PICK e : e = [u EXCEPT !.keep = b]
      OBVIOUS
    <3>3. e = [out |-> u.out, ctxs |-> u.ctxs, value |-> u.value, keep |-> b,
               reduced |-> u.reduced, last |-> u.last]
      BY <3>2, StateFields
    <3>4. [e EXCEPT !.reduced = r]
            = [out |-> u.out, ctxs |-> u.ctxs, value |-> u.value, keep |-> b,
               reduced |-> r, last |-> u.last]
      BY <3>3
    <3>5. QED
      BY <3>1, <3>2, <3>4
  <2>7. QED
    BY <1>2, <1>3, <2>5, <2>6 DEF s, a
<1>4. CASE c[i].op = "last"
  <2> DEFINE l == << u.value >>
  <2>1. s = [[u EXCEPT !.keep = b] EXCEPT !.last = l]
    BY <1>1, <1>2, <1>4 DEF StreamStage
  <2> HIDE DEF s, l
  <2>2. [[u EXCEPT !.keep = b] EXCEPT !.last = l]
          = [out |-> u.out, ctxs |-> u.ctxs, value |-> u.value, keep |-> b,
             reduced |-> u.reduced, last |-> l]
    <3>1. PICK e : e = [u EXCEPT !.keep = b]
      OBVIOUS
    <3>2. e = [out |-> u.out, ctxs |-> u.ctxs, value |-> u.value, keep |-> b,
               reduced |-> u.reduced, last |-> u.last]
      BY <3>1, StateFields
    <3>3. [e EXCEPT !.last = l]
            = [out |-> u.out, ctxs |-> u.ctxs, value |-> u.value, keep |-> b,
               reduced |-> u.reduced, last |-> l]
      BY <3>2
    <3>4. QED
      BY <3>1, <3>3
  <2>3. QED
    BY <1>2, <1>4, <2>1, <2>2 DEF s, l
<1>5. QED
  BY <1>3, <1>4

(* What a reduce makes of the items that reach it.                         *)
Reduced(s) == FoldLeft(Accum, Null, s)

(* The streaming path has reached, item by item, what the generic path     *)
(* makes of the whole batch.                                               *)
Agree(c, x0, isReady, o, st) ==
  LET n == Len(c)
      reached == o[n - 1] # << >>
  IN  /\ st \in States(c) /\ st.ctxs = Left(o, c, x0, isReady)
      /\ Clean(c, o)
      /\ st.out = IF c[n].op \in ItemKinds THEN o[n] ELSE << >>
      /\ st.reduced = IF c[n].op = "reduce" /\ reached
                      THEN << Reduced(o[n - 1]) >> ELSE << >>
      /\ st.last = IF c[n].op = "last" /\ reached THEN << Last(o[n - 1]) >>
                   ELSE << >>

LEMMA EndIsKnown ==
  ASSUME NEW c, Streams(c)
  PROVE  /\ Len(c) \in Nat \ {0} /\ Len(c) \in DOMAIN c /\ DOMAIN c = 1..Len(c)
         /\ c[Len(c)].op \in ItemKinds \union {"reduce", "last"}
         /\ Len(c) - 1 \in 0..Len(c) /\ Len(c) \in 0..Len(c)
         /\ InBody(c, Len(c) - 1)
         /\ c[Len(c)].op \in ItemKinds => InBody(c, Len(c))
         /\ \A k \in 1..Len(c) : InBody(c, k - 1)
<1>1. c \in Seq(Stages) /\ c # << >> /\ StreamsOps(c)
  BY OpsStream DEF Streams
<1>2. Len(c) \in Nat \ {0} /\ Len(c) \in DOMAIN c /\ DOMAIN c = 1..Len(c)
  BY <1>1
<1>3. c[Len(c)].op \in StreamableKinds \intersect Operations
  <2>1. c[Len(c)] \in Stages
    BY <1>1, <1>2
  <2>2. QED
    BY <1>1, <1>2, <2>1 DEF StreamsOps, Stages
<1>4. c[Len(c)].op \in ItemKinds \union {"reduce", "last"}
  BY <1>3 DEF StreamableKinds, Operations, ItemKinds
<1>5. QED
  BY <1>2, <1>4 DEF InBody

LEMMA ResultFields ==
  \A r, z : Result(r, z).out = r /\ Result(r, z).ctx = z
BY DEF Result

Aggregates(stage, t) ==
  AccumReturns /\ stage.op \in {"reduce", "last"} /\ t \in Seq(Plain)

LEMMA AggregateIs ==
  ASSUME NEW stage, NEW t, Aggregates(stage, t), NEW y, NEW isReady
  PROVE  /\ Apply(stage, y, t, isReady).ctx = y
         /\ stage.op = "reduce" =>
              Apply(stage, y, t, isReady).out = << Reduced(t) >>
         /\ stage.op = "last" /\ t # << >> =>
              Apply(stage, y, t, isReady).out = << Last(t) >>
<1>1. AccumReturns /\ stage.op \in {"reduce", "last"} /\ t \in Seq(Plain)
  BY DEF Aggregates
<1>2. CASE stage.op = "reduce"
  <2>1. PICK r : r = << Reduced(t) >>
    OBVIOUS
  <2>2. Apply(stage, y, t, isReady) = Result(r, y)
    BY <1>1, <1>2, <2>1, ReduceOneMore DEF Reduced
  <2>3. QED
    BY <1>2, <2>1, <2>2, ResultFields
<1>3. CASE stage.op = "last"
  <2>1. PICK r : r = IF t = << >> THEN << Null >> ELSE << Last(t) >>
    OBVIOUS
  <2>2. Apply(stage, y, t, isReady) = Result(r, y)
    BY <1>1, <1>3, <2>1, LastIs
  <2>3. QED
    BY <1>3, <2>1, <2>2, ResultFields
<1>4. QED
  BY <1>1, <1>2, <1>3

LEMMA AgreeStart ==
  ASSUME NEW c, Streams(c), NEW x0 \in CtxsOf(c), NEW isReady,
         NEW o, Outs(o, c, x0, << >>, isReady)
  PROVE  Agree(c, x0, isReady, o, Start(x0))
<1> DEFINE n == Len(c)
           S == {k \in Nat : k <= n /\ InBody(c, k) => o[k] = << >>}
<1>1. /\ n \in Nat \ {0} /\ DOMAIN c = 1..n /\ n \in DOMAIN c
      /\ c[n].op \in ItemKinds \union {"reduce", "last"}
      /\ InBody(c, n - 1) /\ \A k \in 1..n : InBody(c, k - 1)
  BY EndIsKnown
<1>2. AccumReturns /\ c \in Seq(Stages) /\ Callbacks(c)
  BY DEF Streams
<1>3. o[0] = << >> /\ \A k \in 1..n : o[k] = Apply(c[k], x0[k], o[k - 1], isReady).out
  BY DEF Outs
<1>4. \A k \in DOMAIN c : ContextOK(c[k], x0[k]) /\ Returns(c[k]) /\ c[k] \in Stages
  BY <1>2 DEF CtxsOf, Callbacks
<1>5. ASSUME NEW k \in 1..n, InBody(c, k)
      PROVE  Apply(c[k], x0[k], << >>, isReady) = Result(<< >>, x0[k])
  <2>1. k \in DOMAIN c /\ c[k].op \in ItemKinds
    BY <1>5, BodyIsItems
  <2>2. QED
    BY <1>2, <1>4, <2>1, ItemEmpty
<1>6. 0 \in S
  BY <1>3
<1>7. ASSUME NEW k \in Nat, k \in S
      PROVE  k + 1 \in S
  <2>1. SUFFICES ASSUME k + 1 <= n, InBody(c, k + 1)
                 PROVE  o[k + 1] = << >>
    OBVIOUS
  <2>2. k + 1 \in 1..n /\ (k + 1) - 1 = k
    BY <1>1, <2>1
  <2>3. InBody(c, k)
    BY <1>1, <2>2
  <2>4. o[k] = << >>
    BY <1>7, <2>1, <2>3
  <2> HIDE DEF S
  <2>5. o[k + 1] = Apply(c[k + 1], x0[k + 1], << >>, isReady).out
    BY <1>3, <2>2, <2>4
  <2>6. QED
    BY <1>5, <2>1, <2>2, <2>5, ResultFields
<1>8. \A k \in 0..n : InBody(c, k) => o[k] = << >>
  <2>1. \A k \in Nat : k \in S
    <3> HIDE DEF S
    <3> QED BY <1>6, <1>7, SetInduction
  <2>2. QED
    BY <2>1
<1>9. ASSUME NEW k \in DOMAIN c
      PROVE  Left(o, c, x0, isReady)[k] = x0[k]
  <2>1. k \in 1..n /\ k - 1 \in 0..n /\ InBody(c, k - 1)
    BY <1>1
  <2>2. o[k - 1] = << >>
    BY <1>8, <2>1
  <2>3. Left(o, c, x0, isReady)[k] = Apply(c[k], x0[k], << >>, isReady).ctx
    BY <2>2 DEF Left
  <2>4. CASE InBody(c, k)
    BY <1>5, <2>1, <2>3, <2>4, ResultFields
  <2>5. CASE ~InBody(c, k)
    <3>1. k = n /\ c[k].op \in {"reduce", "last"}
      BY <1>1, <2>1, <2>5 DEF InBody
    <3>2. PICK t \in Seq(Plain) : t = << >>
      <4>1. << >> \in Seq(Plain)
        OBVIOUS
      <4>2. QED
        BY <4>1
    <3>3. Aggregates(c[k], t)
      BY <1>2, <3>1 DEF Aggregates
    <3>4. Apply(c[k], x0[k], t, isReady).ctx = x0[k]
      BY <3>3, AggregateIs
    <3>5. QED
      BY <2>3, <3>2, <3>4
  <2>6. QED
    BY <2>4, <2>5
<1>10. Left(o, c, x0, isReady) = x0
  BY <1>9 DEF Left, CtxsOf
<1>11. /\ Start(x0) \in States(c) /\ Start(x0).ctxs = x0 /\ Start(x0).out = << >>
       /\ Start(x0).reduced = << >> /\ Start(x0).last = << >>
  BY StartType DEF Start
<1>12. /\ Clean(c, o)
       /\ o[n - 1] = << >> /\ (c[n].op \in ItemKinds => o[n] = << >>)
  <2>1. n - 1 \in 0..n /\ n \in 0..n /\ << >> \in Seq(Plain)
    BY <1>1
  <2>2. c[n].op \in ItemKinds => InBody(c, n)
    BY DEF InBody
  <2>3. \A k \in 0..(n - 1) : k \in 0..n /\ InBody(c, k)
    BY <1>1 DEF InBody
  <2>4. QED
    BY <1>1, <1>8, <2>1, <2>2, <2>3 DEF Clean
<1>13. QED
  BY <1>10, <1>11, <1>12 DEF Agree

(* One item more, and both paths have read it.                             *)
LEMMA AgreeStep ==
  ASSUME NEW c, Streams(c), NEW x0 \in CtxsOf(c), NEW isReady,
         NEW d \in Seq(Plain), NEW x \in Plain,
         NEW o, Outs(o, c, x0, d, isReady),
         NEW p, Outs(p, c, x0, Append(d, x), isReady),
         Clean(c, p), NEW st, Agree(c, x0, isReady, o, st)
  PROVE  Agree(c, x0, isReady, p, StreamItem(c, Compile(c), st, x))
<1> DEFINE n == Len(c)
           new == StreamItem(c, Compile(c), st, x)
<1>1. /\ n \in Nat \ {0} /\ DOMAIN c = 1..n /\ n \in DOMAIN c
      /\ c[n].op \in ItemKinds \union {"reduce", "last"}
      /\ n - 1 \in 0..n /\ n \in 0..n /\ InBody(c, n - 1)
      /\ c[n].op \in ItemKinds => InBody(c, n)
  BY EndIsKnown
<1>2. /\ AccumReturns /\ c \in Seq(Stages) /\ Callbacks(c)
      /\ Streamable(Compile(c)) /\ x \in Items
  BY DEF Streams, Plain
<1>3. /\ st \in States(c) /\ st.ctxs = Left(o, c, x0, isReady)
      /\ Clean(c, o)
      /\ st.out = IF c[n].op \in ItemKinds THEN o[n] ELSE << >>
      /\ st.reduced = IF c[n].op = "reduce" /\ o[n - 1] # << >>
                      THEN << Reduced(o[n - 1]) >> ELSE << >>
      /\ st.last = IF c[n].op = "last" /\ o[n - 1] # << >>
                   THEN << Last(o[n - 1]) >> ELSE << >>
  BY DEF Agree
<1>4. PICK h : /\ Walks(h, c, Entering(st, x))
               /\ new = IF h[n].keep THEN [h[n] EXCEPT !.out = Append(@, h[n].value)]
                        ELSE h[n]
  BY <1>2, <1>3, ItemWalk
<1>5. Entered(c, x0, isReady, d, x, o, p, st, h)
  BY <1>3, <1>4 DEF Entered
<1>6. \A k \in 0..n : InBody(c, k) => Abreast(c, x0, isReady, o, p, st, h[k], k)
  BY <1>5, BodyAbreast
<1>7. /\ p[n] \in Seq(Items)
      /\ o[n - 1] \in Seq(Plain) /\ p[n - 1] \in Seq(Plain)
  BY <1>1, <1>3 DEF Outs, Clean
<1> HIDE DEF new
<1>8. CASE c[n].op \in ItemKinds
  <2> DEFINE q == h[n]
  <2>1. Abreast(c, x0, isReady, o, p, st, q, n)
    BY <1>1, <1>6, <1>8
  <2>2. /\ q \in States(c)
        /\ p[n] = IF q.keep THEN Append(o[n], q.value) ELSE o[n]
        /\ q.out = st.out /\ q.reduced = st.reduced /\ q.last = st.last
        /\ \A i \in DOMAIN c : q.ctxs[i] = Left(p, c, x0, isReady)[i]
    <3>1. \A i \in DOMAIN c : i <= n
      BY <1>1
    <3> HIDE DEF q
    <3>2. QED
      BY <2>1, <3>1 DEF Abreast
  <2>3. st.out = o[n] /\ st.reduced = << >> /\ st.last = << >>
        /\ c[n].op # "reduce" /\ c[n].op # "last"
    BY <1>3, <1>8 DEF ItemKinds
  <2>4. new = IF q.keep THEN [q EXCEPT !.out = Append(@, q.value)] ELSE q
    BY <1>4
  <2> HIDE DEF q
  <2>5. q.ctxs = Left(p, c, x0, isReady)
    <3>1. q.ctxs \in CtxsOf(c)
      BY <2>2, StateFields
    <3>2. QED
      BY <2>2, <3>1 DEF CtxsOf, Left
  <2>6. /\ new \in States(c) /\ new.ctxs = q.ctxs /\ new.out = p[n]
        /\ new.reduced = << >> /\ new.last = << >>
    <3>1. CASE ~q.keep
      BY <2>2, <2>3, <2>4, <3>1
    <3>2. CASE q.keep
      <4>1. q.out = o[n] /\ p[n] = Append(o[n], q.value)
        BY <2>2, <2>3, <3>2
      <4>2. new = [q EXCEPT !.out = p[n]]
        BY <2>4, <3>2, <4>1
      <4>3. new = [out |-> p[n], ctxs |-> q.ctxs, value |-> q.value,
                   keep |-> q.keep, reduced |-> q.reduced, last |-> q.last]
        BY <2>2, <4>2, StateFields
      <4>4. new \in States(c)
        BY <2>2, <1>7, <4>2, StateUpdate
      <4>5. QED
        BY <2>2, <2>3, <4>3, <4>4
    <3>3. QED
      BY <3>1, <3>2
  <2>7. /\ new.out = IF c[n].op \in ItemKinds THEN p[n] ELSE << >>
        /\ new.reduced = IF c[n].op = "reduce" /\ p[n - 1] # << >>
                         THEN << Reduced(p[n - 1]) >> ELSE << >>
        /\ new.last = IF c[n].op = "last" /\ p[n - 1] # << >>
                      THEN << Last(p[n - 1]) >> ELSE << >>
    BY <1>8, <2>3, <2>6
  <2>8. new \in States(c) /\ new.ctxs = Left(p, c, x0, isReady)
    BY <2>5, <2>6
  <2>9. QED
    BY <2>7, <2>8 DEF Agree, new
<1>9. CASE c[n].op \in {"reduce", "last"}
  <2> DEFINE u == h[n - 1]
             b == o[n - 1]
             e == p[n - 1]
  <2>1. Abreast(c, x0, isReady, o, p, st, u, n - 1)
    BY <1>1, <1>6
  <2>2. /\ u \in States(c) /\ (u.keep => u.value \in Plain)
        /\ e = IF u.keep THEN Append(b, u.value) ELSE b
        /\ u.out = st.out /\ u.reduced = st.reduced /\ u.last = st.last
        /\ \A i \in DOMAIN c : u.ctxs[i] = IF i <= n - 1
                                           THEN Left(p, c, x0, isReady)[i]
                                           ELSE st.ctxs[i]
    <3>1. n - 1 < n
      BY <1>1
    <3> HIDE DEF u
    <3>2. QED
      BY <2>1, <3>1 DEF Abreast
  <2>3. b \in Seq(Plain) /\ e \in Seq(Plain)
    BY <1>7
  <2>4. c[n].op \notin ItemKinds
    BY <1>9 DEF ItemKinds
  <2>5. h[n] = IF u.keep THEN StreamStage(c, u, CompiledStage(c, n)) ELSE u
    BY <1>1, <1>4 DEF Walks
  <2> HIDE DEF u
  <2>6. u.ctxs = Left(p, c, x0, isReady)
    <3>1. /\ Left(p, c, x0, isReady)[n] = Apply(c[n], x0[n], e, isReady).ctx
          /\ Left(o, c, x0, isReady)[n] = Apply(c[n], x0[n], b, isReady).ctx
      BY <1>1 DEF Left
    <3>2. ASSUME NEW t \in Seq(Plain)
          PROVE  Apply(c[n], x0[n], t, isReady).ctx = x0[n]
      <4>1. PICK stage, y : stage = c[n] /\ y = x0[n]
        OBVIOUS
      <4>2. Aggregates(stage, t)
        BY <1>2, <1>9, <3>2, <4>1 DEF Aggregates
      <4>3. Apply(stage, y, t, isReady).ctx = y
        BY <4>2, AggregateIs
      <4>4. QED
        BY <4>1, <4>3
    <3>3. st.ctxs[n] = Left(p, c, x0, isReady)[n]
      <4> HIDE DEF b, e
      <4> QED BY <1>3, <2>3, <3>1, <3>2
    <3>4. \A i \in DOMAIN c : i <= n - 1 \/ i = n
      BY <1>1
    <3>5. \A i \in DOMAIN c : u.ctxs[i] = Left(p, c, x0, isReady)[i]
      BY <2>2, <3>3, <3>4
    <3>6. u.ctxs \in CtxsOf(c)
      BY <2>2, StateFields
    <3>7. QED
      BY <3>5, <3>6 DEF CtxsOf, Left
  <2>7. st.out = << >>
    BY <1>3, <2>4
  <2>8. /\ st.reduced = IF c[n].op = "reduce" /\ b # << >>
                        THEN << Reduced(b) >> ELSE << >>
        /\ st.last = IF c[n].op = "last" /\ b # << >> THEN << Last(b) >>
                     ELSE << >>
    BY <1>3
  <2>9. ASSUME new \in States(c), new.ctxs = u.ctxs, new.out = << >>,
               new.reduced = IF c[n].op = "reduce" /\ e # << >>
                             THEN << Reduced(e) >> ELSE << >>,
               new.last = IF c[n].op = "last" /\ e # << >> THEN << Last(e) >>
                          ELSE << >>
        PROVE  Agree(c, x0, isReady, p, new)
    BY <2>4, <2>6, <2>9 DEF Agree
  <2>10. CASE ~u.keep
    <3>1. new = u /\ e = b
      BY <1>4, <2>2, <2>5, <2>10
    <3> HIDE DEF b, e
    <3>2. /\ new \in States(c) /\ new.ctxs = u.ctxs
          /\ new.out = << >> /\ new.reduced = st.reduced /\ new.last = st.last
      BY <2>2, <2>7, <3>1
    <3>3. QED
      BY <2>8, <2>9, <3>1, <3>2 DEF new
  <2>11. CASE u.keep
    <3> DEFINE s == StreamStage(c, u, CompiledStage(c, n))
               v == u.value
    <3>1. /\ v \in Plain /\ e = Append(b, v) /\ h[n] = s /\ v \in Items
      BY <2>2, <2>5, <2>11 DEF Plain
    <3>2. e # << >> /\ Last(e) = v
      <4> HIDE DEF b, e, v
      <4> QED BY <2>3, <3>1, LastOfAppend
    <3>3. /\ c[n].op = "reduce" => s =
               [out |-> u.out, ctxs |-> u.ctxs, value |-> v, keep |-> FALSE,
                reduced |-> << Accum(IF u.reduced = << >> THEN Null
                                     ELSE u.reduced[1], v) >>,
                last |-> u.last]
          /\ c[n].op = "last" => s =
               [out |-> u.out, ctxs |-> u.ctxs, value |-> v, keep |-> FALSE,
                reduced |-> u.reduced, last |-> << v >>]
      BY <1>1, <1>2, <2>2, AggregateGoes
    <3> HIDE DEF s
    <3>4. ~s.keep /\ s.out = u.out /\ s.ctxs = u.ctxs
      BY <1>9, <3>3
    <3>5. new = s /\ new \in States(c)
      <4>1. h[n] \in States(c)
        BY <1>1, <1>4 DEF Walks
      <4>2. QED
        BY <1>4, <3>1, <3>4, <4>1
    <3>6. CASE c[n].op = "reduce"
      <4>1. Reduced(e) = Accum(Reduced(b), v) /\ Reduced(<< >>) = Null
        BY <1>2, <2>3, <3>1, ReduceOneMore DEF Reduced
      <4>2. u.reduced = IF b # << >> THEN << Reduced(b) >> ELSE << >>
        BY <2>2, <2>8, <3>6
      <4> DEFINE r == IF u.reduced = << >> THEN Null ELSE u.reduced[1]
      <4>3. r = Reduced(b)
        <5> HIDE DEF b
        <5>1. CASE b = << >>
          BY <4>1, <4>2, <5>1
        <5>2. CASE b # << >>
          <6>1. u.reduced = << Reduced(b) >>
            BY <4>2, <5>2
          <6>2. QED
            BY <6>1
        <5>3. QED
          BY <5>1, <5>2
      <4>4. s.reduced = << Accum(r, v) >> /\ s.last = u.last
        BY <3>3, <3>6
      <4> HIDE DEF r, v, b, e
      <4>5. s.reduced = << Reduced(e) >>
        BY <4>1, <4>3, <4>4
      <4>6. s.last = << >>
        BY <2>2, <2>8, <3>6, <4>4
      <4>7. QED
        BY <2>2, <2>7, <2>9, <3>2, <3>4, <3>5, <3>6, <4>5, <4>6 DEF new
    <3>7. CASE c[n].op = "last"
      <4>1. s.last = << Last(e) >> /\ s.reduced = u.reduced
        BY <3>2, <3>3, <3>7
      <4>2. u.reduced = << >>
        BY <2>2, <2>8, <3>7
      <4> HIDE DEF v, b, e
      <4>3. QED
        BY <2>2, <2>7, <2>9, <3>2, <3>4, <3>5, <3>7, <4>1, <4>2 DEF new
    <3>8. QED
      BY <1>9, <3>6, <3>7
  <2>12. QED
    BY <2>10, <2>11
<1>10. QED
  BY <1>1, <1>8, <1>9 DEF new

(* Whatever the batch, and however much of it has been read.               *)
(* Nor had a stage handed on the token before the last item came.          *)
LEMMA CleanBefore ==
  ASSUME NEW c, Streams(c), NEW x0 \in CtxsOf(c), NEW isReady,
         NEW d \in Seq(Plain), NEW x \in Plain,
         NEW o, Outs(o, c, x0, d, isReady),
         NEW p, Outs(p, c, x0, Append(d, x), isReady), Clean(c, p)
  PROVE  Clean(c, o)
<1> DEFINE n == Len(c)
           Grown(k) == p[k] = o[k] \/ \E w \in Plain : p[k] = Append(o[k], w)
           S == {k \in Nat : k < n => o[k] \in Seq(Plain) /\ Grown(k)}
<1>1. /\ n \in Nat \ {0} /\ DOMAIN c = 1..n
      /\ AccumReturns /\ c \in Seq(Stages) /\ Callbacks(c)
  BY EndIsKnown DEF Streams
<1>2. /\ o[0] = d /\ p[0] = Append(d, x)
      /\ \A k \in 0..n : o[k] \in Seq(Items)
      /\ \A k \in 1..n : /\ o[k] = Apply(c[k], x0[k], o[k - 1], isReady).out
                         /\ p[k] = Apply(c[k], x0[k], p[k - 1], isReady).out
  BY DEF Outs
<1>3. 0 \in S
  BY <1>2
<1>4. ASSUME NEW k \in Nat, k \in S
      PROVE  k + 1 \in S
  <2>1. SUFFICES ASSUME k + 1 < n
                 PROVE  o[k + 1] \in Seq(Plain) /\ Grown(k + 1)
    OBVIOUS
  <2>2. /\ k + 1 \in 1..n /\ k + 1 \in 0..n /\ k + 1 \in 0..(n - 1)
        /\ (k + 1) - 1 = k /\ k < n /\ InBody(c, k + 1)
    BY <1>1, <2>1 DEF InBody
  <2>3. o[k] \in Seq(Plain) /\ Grown(k)
    BY <1>4, <2>2
  <2> HIDE DEF S
  <2>4. /\ k + 1 \in DOMAIN c /\ c[k + 1].op \in ItemKinds /\ c[k + 1] \in Stages
        /\ Returns(c[k + 1]) /\ ContextOK(c[k + 1], x0[k + 1])
    <3>1. k + 1 \in DOMAIN c /\ c[k + 1].op \in ItemKinds
      BY <2>2, BodyIsItems
    <3>2. QED
      BY <1>1, <3>1 DEF Callbacks, CtxsOf
  <2>5. /\ o[k + 1] \in Seq(Items) /\ p[k + 1] \in Seq(Plain)
        /\ o[k + 1] = Apply(c[k + 1], x0[k + 1], o[k], isReady).out
        /\ p[k + 1] = Apply(c[k + 1], x0[k + 1], p[k], isReady).out
    BY <1>2, <2>2 DEF Clean
  <2>6. CASE p[k] = o[k]
    BY <2>5, <2>6
  <2>7. ASSUME NEW w \in Plain, p[k] = Append(o[k], w)
        PROVE  o[k + 1] \in Seq(Plain) /\ Grown(k + 1)
    <3>1. OneMore(c[k + 1], x0[k + 1], o[k], w, isReady)
      BY <1>1, <2>3, <2>4, <2>7, ItemOneMore
    <3>2. \/ p[k + 1] = o[k + 1]
          \/ \E v : p[k + 1] = Append(o[k + 1], v)
      <4>1. PICK a : a = Apply(c[k + 1], x0[k + 1], o[k], isReady)
        OBVIOUS
      <4>2. PICK v, m, r : /\ v = Value(c[k + 1], a.ctx, w)
                           /\ m = Memory(c[k + 1], a.ctx, w)
                           /\ r = IF Keeps(c[k + 1], a.ctx, w)
                                  THEN Append(a.out, v) ELSE a.out
        OBVIOUS
      <4>3. Apply(c[k + 1], x0[k + 1], Append(o[k], w), isReady) = Result(r, m)
        BY <3>1, <4>1, <4>2 DEF OneMore
      <4>4. p[k + 1] = r
        BY <2>5, <2>7, <4>3, ResultFields
      <4>5. QED
        BY <2>5, <4>1, <4>2, <4>4
    <3>3. ASSUME NEW v, p[k + 1] = Append(o[k + 1], v)
          PROVE  o[k + 1] \in Seq(Plain) /\ v \in Plain
      BY <2>5, <3>3, PlainOfAppend
    <3>4. QED
      BY <2>5, <3>2, <3>3
  <2>8. QED
    BY <2>3, <2>6, <2>7
<1>5. \A k \in Nat : k \in S
  <2> HIDE DEF S
  <2> QED BY <1>3, <1>4, SetInduction
<1>6. QED
  BY <1>1, <1>5 DEF Clean

LEMMA OutsExist ==
  ASSUME NEW c, Streams(c), NEW x0 \in CtxsOf(c), NEW d \in Seq(Plain),
         NEW isReady
  PROVE  \E o : Outs(o, c, x0, d, isReady)
<1>1. AccumReturns /\ c \in Seq(Stages) /\ Callbacks(c) /\ d \in Seq(Items)
  BY PlainIsWhole DEF Streams
<1>2. QED
  BY <1>1, GenericSteps

Reads(c, x0, items, g) ==
  /\ Streams(c) /\ x0 \in CtxsOf(c) /\ items \in Seq(Plain)
  /\ Folds(g, States(c), Streaming(c, Compile(c)), Start(x0), items)

ReadSoFar(c, x0, isReady, items, g, n) ==
  \A o : Outs(o, c, x0, SubSeq(items, 1, n), isReady) /\ Clean(c, o)
         => Agree(c, x0, isReady, o, g[n])

LEMMA ReadsOneMore ==
  ASSUME NEW c, NEW x0, NEW items, NEW g, Reads(c, x0, items, g),
         NEW isReady, NEW n \in 0..(Len(items) - 1),
         ReadSoFar(c, x0, isReady, items, g, n)
  PROVE  ReadSoFar(c, x0, isReady, items, g, n + 1)
<1> DEFINE d == SubSeq(items, 1, n)
           x == items[n + 1]
<1>1. /\ Streams(c) /\ x0 \in CtxsOf(c) /\ items \in Seq(Plain)
      /\ Len(items) \in Nat /\ n \in Nat
      /\ n + 1 \in 1..Len(items) /\ n \in 0..Len(items) /\ (n + 1) - 1 = n
  BY DEF Reads
<1>2. d \in Seq(Plain) /\ x \in Plain /\ x \in Items
  BY <1>1 DEF Plain
<1>3. SubSeq(items, 1, n + 1) = Append(d, x)
  BY <1>1
<1>4. /\ g[n] \in States(c)
      /\ g[n + 1] = Streaming(c, Compile(c))[<< g[n], x >>]
  BY <1>1 DEF Reads, Folds
<1>5. g[n + 1] = StreamItem(c, Compile(c), g[n], x)
  BY <1>2, <1>4 DEF Streaming
<1> HIDE DEF d, x
<1>6. ASSUME NEW p, Outs(p, c, x0, Append(d, x), isReady), Clean(c, p)
      PROVE  Agree(c, x0, isReady, p, g[n + 1])
  <2>1. PICK o : Outs(o, c, x0, d, isReady)
    BY <1>1, <1>2, OutsExist
  <2>2. Agree(c, x0, isReady, o, g[n])
    <3>1. Clean(c, o)
      BY <1>1, <1>2, <1>6, <2>1, CleanBefore
    <3>2. QED
      BY <2>1, <3>1 DEF ReadSoFar, d
  <2>3. Agree(c, x0, isReady, p, StreamItem(c, Compile(c), g[n], x))
    BY <1>1, <1>2, <1>6, <2>1, <2>2, AgreeStep
  <2>4. QED
    BY <1>5, <2>3
<1>7. QED
  BY <1>3, <1>6 DEF ReadSoFar

LEMMA ReadsAll ==
  ASSUME NEW c, NEW x0, NEW items, NEW g, Reads(c, x0, items, g), NEW isReady
  PROVE  ReadSoFar(c, x0, isReady, items, g, Len(items))
<1> DEFINE S == {n \in Nat : n <= Len(items)
                   => ReadSoFar(c, x0, isReady, items, g, n)}
<1>1. /\ Streams(c) /\ x0 \in CtxsOf(c) /\ items \in Seq(Plain)
      /\ Len(items) \in Nat /\ g[0] = Start(x0)
  BY DEF Reads, Folds
<1>2. 0 \in S
  <2>1. SubSeq(items, 1, 0) = << >>
    BY <1>1
  <2>2. QED
    BY <1>1, <2>1, AgreeStart DEF ReadSoFar
<1>3. ASSUME NEW n \in Nat, n \in S
      PROVE  n + 1 \in S
  <2>1. SUFFICES ASSUME n + 1 <= Len(items)
                 PROVE  ReadSoFar(c, x0, isReady, items, g, n + 1)
    OBVIOUS
  <2>2. n \in 0..(Len(items) - 1) /\ ReadSoFar(c, x0, isReady, items, g, n)
    BY <1>1, <1>3, <2>1
  <2>3. QED
    BY <2>2, ReadsOneMore
<1>4. \A n \in Nat : n \in S
  <2> HIDE DEF S
  <2> QED BY <1>2, <1>3, SetInduction
<1>5. QED
  BY <1>1, <1>4

(* Two chains that begin alike make the same of a batch so far.            *)
Alike(c, e, x, y, m) ==
  /\ m \in Nat /\ Len(c) \in Nat /\ Len(e) \in Nat /\ m <= Len(c) /\ m <= Len(e)
  /\ \A k \in 1..m : c[k] = e[k] /\ x[k] = y[k]

LEMMA OutsAgree ==
  ASSUME NEW c, NEW e, NEW x, NEW y, NEW m, Alike(c, e, x, y, m),
         NEW d, NEW isReady,
         NEW o, Outs(o, c, x, d, isReady), NEW p, Outs(p, e, y, d, isReady)
  PROVE  o[m] = p[m]
<1> USE DEF Alike
<1> DEFINE S == {k \in Nat : k <= m => o[k] = p[k]}
<1>1. 0 \in S
  BY DEF Outs
<1>2. ASSUME NEW k \in Nat, k \in S
      PROVE  k + 1 \in S
  <2>1. SUFFICES ASSUME k + 1 <= m
                 PROVE  o[k + 1] = p[k + 1]
    OBVIOUS
  <2>2. /\ k + 1 \in 1..Len(c) /\ k + 1 \in 1..Len(e) /\ k + 1 \in 1..m
        /\ (k + 1) - 1 = k
    BY <2>1
  <2>3. o[k] = p[k] /\ c[k + 1] = e[k + 1] /\ x[k + 1] = y[k + 1]
    BY <1>2, <2>1, <2>2
  <2>4. /\ o[k + 1] = Apply(c[k + 1], x[k + 1], o[k], isReady).out
        /\ p[k + 1] = Apply(e[k + 1], y[k + 1], p[k], isReady).out
    BY <2>2 DEF Outs
  <2>5. QED
    BY <2>3, <2>4
<1>3. \A k \in Nat : k \in S
  <2> HIDE DEF S
  <2> QED BY <1>1, <1>2, SetInduction
<1>4. QED
  BY <1>3

(* The beginning of a chain, and its contexts.                             *)
LEMMA BeginningOf ==
  ASSUME NEW c \in Seq(Stages), Callbacks(c), NEW x0 \in CtxsOf(c),
         NEW m \in 0..Len(c)
  PROVE  /\ SubSeq(c, 1, m) \in Seq(Stages) /\ Callbacks(SubSeq(c, 1, m))
         /\ Len(SubSeq(c, 1, m)) = m
         /\ SubSeq(x0, 1, m) \in CtxsOf(SubSeq(c, 1, m))
         /\ Len(x0) = Len(c)
         /\ Alike(c, SubSeq(c, 1, m), x0, SubSeq(x0, 1, m), m)
<1> DEFINE n == Len(c)
           e == SubSeq(c, 1, m)
           y == SubSeq(x0, 1, m)
<1>1. n \in Nat /\ DOMAIN c = 1..n /\ m \in Nat /\ m <= n
  OBVIOUS
<1>2. /\ x0 \in [1..n -> Contexts] /\ \A k \in 1..n : ContextOK(c[k], x0[k])
  BY <1>1 DEF CtxsOf
<1>3. x0 \in Seq(Contexts) /\ Len(x0) = n
  BY <1>1, <1>2
<1> HIDE DEF n
<1>4. ASSUME NEW S, NEW s \in Seq(S), Len(s) = n
      PROVE  /\ SubSeq(s, 1, m) \in [1..m -> S]
             /\ \A k \in 1..m : SubSeq(s, 1, m)[k] = s[k]
  <2>1. 1 \in 1..(Len(s) + 1) /\ m \in (1 - 1)..Len(s) /\ (m - 1) + 1 = m
    BY <1>1, <1>4
  <2>2. /\ SubSeq(s, 1, m) \in Seq(S) /\ Len(SubSeq(s, 1, m)) = (m - 1) + 1
        /\ \A k \in 1..((m - 1) + 1) : SubSeq(s, 1, m)[k] = s[(1 + k) - 1]
    BY <1>4, <2>1, SubSeqProperties
  <2>3. \A k \in 1..m : (1 + k) - 1 = k
    BY <1>1
  <2>4. PICK b : b = SubSeq(s, 1, m)
    OBVIOUS
  <2>5. b \in Seq(S) /\ Len(b) = m /\ \A k \in 1..m : b[k] = s[k]
    BY <2>1, <2>2, <2>3, <2>4
  <2>6. b \in [1..m -> S]
    BY <2>5
  <2>7. QED
    BY <2>4, <2>5, <2>6
<1>5. e \in [1..m -> Stages] /\ \A k \in 1..m : e[k] = c[k]
  BY <1>4 DEF n
<1>6. y \in [1..m -> Contexts] /\ \A k \in 1..m : y[k] = x0[k]
  BY <1>3, <1>4
<1>7. \A k \in 1..m : k \in 1..n
  BY <1>1
<1> HIDE DEF e, y
<1>8. e \in Seq(Stages) /\ Len(e) = m /\ DOMAIN e = 1..m
  BY <1>1, <1>5
<1>9. Callbacks(e)
  BY <1>1, <1>5, <1>7, <1>8 DEF Callbacks
<1>10. y \in CtxsOf(e)
  BY <1>2, <1>5, <1>6, <1>7, <1>8 DEF CtxsOf
<1>11. Alike(c, e, x0, y, m)
  BY <1>1, <1>5, <1>6, <1>8 DEF Alike, n
<1>12. QED
  BY <1>3, <1>8, <1>9, <1>10, <1>11 DEF n, e, y

(* What the streaming path makes of a batch, against what the generic path *)
(* does: the same, unless the chain ends in a reduce or a last that        *)
(* nothing reaches.                                                        *)
LEMMA BatchesAgree ==
  ASSUME NEW c, Streams(c), NEW x0 \in CtxsOf(c), NEW items \in Seq(Plain),
         NEW isReady,
         \A o : Outs(o, c, x0, items, isReady) => Clean(c, o)
  PROVE  \/ StreamBatch(c, Compile(c), x0, items)
              = GenericBatch(c, x0, items, isReady)
         \/ /\ c[Len(c)].op \in {"reduce", "last"}
            /\ GenericBatch(Front(c), Front(x0), items, isReady).out = << >>
<1> DEFINE n == Len(c)
           f == Streaming(c, Compile(c))
<1>1. /\ AccumReturns /\ c \in Seq(Stages) /\ Callbacks(c)
      /\ Streamable(Compile(c))
  BY DEF Streams
<1>2. /\ n \in Nat \ {0} /\ DOMAIN c = 1..n /\ n \in DOMAIN c
      /\ c[n].op \in ItemKinds \union {"reduce", "last"}
      /\ n - 1 \in 0..n /\ n \in 0..n /\ InBody(c, n - 1)
      /\ c[n].op \in ItemKinds => InBody(c, n)
  BY EndIsKnown
<1>3. UpToDone(items) = items /\ items \in Seq(Items) /\ Len(items) \in Nat
  BY PlainIsWhole
<1>4. Compile(c) \in Seq(StreamedStages(c))
  <2>1. Start(x0) \in States(c) /\ Null \in Items
    BY StartType DEF Null, Items
  <2>2. QED
    BY <1>1, <2>1, ItemWalk
<1>5. Folding(States(c), Items, f, Start(x0), items)
  BY <1>1, <1>3, <1>4, StreamingType, StartType DEF Folding
<1>6. PICK g : Folds(g, States(c), f, Start(x0), items)
  BY <1>5, FoldsExist
<1> HIDE DEF f
<1>7. PICK end : /\ end = g[Len(items)]
                 /\ StreamBatch(c, Compile(c), x0, items)
                      = Result(end.out \o (IF end.reduced # << >>
                                           THEN end.reduced ELSE end.last),
                               end.ctxs)
  <2>1. FoldOf(States(c), f, Start(x0), items) = g[Len(items)]
    BY <1>3, <1>6, FoldOfIs
  <2>2. QED
    BY <1>1, <1>3, <1>4, <2>1, StreamBatchIs DEF f
<1>8. PICK o : /\ Outs(o, c, x0, items, isReady)
               /\ GenericBatch(c, x0, items, isReady)
                    = Result(o[n], Left(o, c, x0, isReady))
  BY <1>1, <1>3, GenericSteps
<1>9. Agree(c, x0, isReady, o, end)
  <2>1. Reads(c, x0, items, g)
    BY <1>6 DEF Reads, f
  <2>2. SubSeq(items, 1, Len(items)) = items
    BY <1>3
  <2>3. QED
    BY <1>7, <1>8, <2>1, <2>2, ReadsAll DEF ReadSoFar
<1>10. /\ end.ctxs = Left(o, c, x0, isReady)
       /\ o[n] \in Seq(Items) /\ o[n - 1] \in Seq(Plain)
       /\ end.out = IF c[n].op \in ItemKinds THEN o[n] ELSE << >>
       /\ end.reduced = IF c[n].op = "reduce" /\ o[n - 1] # << >>
                        THEN << Reduced(o[n - 1]) >> ELSE << >>
       /\ end.last = IF c[n].op = "last" /\ o[n - 1] # << >>
                     THEN << Last(o[n - 1]) >> ELSE << >>
  BY <1>2, <1>8, <1>9 DEF Agree, Clean, Outs
<1>11. ASSUME end.out \o (IF end.reduced # << >> THEN end.reduced
                          ELSE end.last) = o[n]
       PROVE  StreamBatch(c, Compile(c), x0, items)
                = GenericBatch(c, x0, items, isReady)
  BY <1>7, <1>8, <1>10, <1>11
<1>12. CASE c[n].op \in ItemKinds
  <2>1. end.out = o[n] /\ end.reduced = << >> /\ end.last = << >>
    BY <1>10, <1>12 DEF ItemKinds
  <2>2. o[n] \o << >> = o[n]
    BY <1>10
  <2>3. QED
    BY <1>11, <2>1, <2>2
<1>13. CASE c[n].op \in {"reduce", "last"} /\ o[n - 1] # << >>
  <2> DEFINE b == o[n - 1]
  <2>1. Aggregates(c[n], b) /\ o[n] = Apply(c[n], x0[n], b, isReady).out
    BY <1>1, <1>2, <1>8, <1>10, <1>13 DEF Aggregates, Outs
  <2>2. end.out = << >> /\ b # << >>
    BY <1>10, <1>13 DEF ItemKinds
  <2>3. CASE c[n].op = "reduce"
    <3>1. PICK r : r = << Reduced(b) >>
      OBVIOUS
    <3>2. o[n] = r
      BY <2>1, <2>3, <3>1, AggregateIs
    <3>3. end.reduced = r /\ r # << >>
      BY <1>10, <2>2, <2>3, <3>1
    <3>4. << >> \o r = r
      BY <3>1
    <3>5. QED
      BY <1>11, <2>2, <3>2, <3>3, <3>4
  <2>4. CASE c[n].op = "last"
    <3>1. PICK r : r = << Last(b) >>
      OBVIOUS
    <3>2. o[n] = r
      BY <2>1, <2>2, <2>4, <3>1, AggregateIs
    <3>3. end.last = r /\ end.reduced = << >>
      BY <1>10, <2>2, <2>4, <3>1
    <3>4. << >> \o r = r
      BY <3>1
    <3>5. QED
      BY <1>11, <2>2, <3>2, <3>3, <3>4
  <2>5. QED
    BY <1>13, <2>3, <2>4
<1>14. CASE c[n].op \in {"reduce", "last"} /\ o[n - 1] = << >>
  <2> DEFINE e == SubSeq(c, 1, n - 1)
             y == SubSeq(x0, 1, n - 1)
  <2>1. /\ e \in Seq(Stages) /\ Callbacks(e) /\ Len(e) = n - 1
        /\ y \in CtxsOf(e) /\ Alike(c, e, x0, y, n - 1) /\ Len(x0) = n
    BY <1>1, <1>2, BeginningOf
  <2>2. Front(c) = e /\ Front(x0) = y
    BY <2>1 DEF Front
  <2> HIDE DEF e, y
  <2>3. PICK p : /\ Outs(p, e, y, items, isReady)
                 /\ GenericBatch(e, y, items, isReady)
                      = Result(p[Len(e)], Left(p, e, y, isReady))
    BY <1>1, <1>3, <2>1, GenericSteps
  <2>4. o[n - 1] = p[n - 1]
    BY <1>8, <2>1, <2>3, OutsAgree
  <2>5. GenericBatch(e, y, items, isReady).out = p[n - 1]
    BY <2>1, <2>3, ResultFields
  <2>6. QED
    BY <1>14, <2>2, <2>4, <2>5
<1>15. QED
  BY <1>2, <1>12, <1>13, <1>14
=============================================================================
