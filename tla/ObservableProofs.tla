-------------------------- MODULE ObservableProofs --------------------------
(***************************************************************************)
(* Theorems about Observable: the end of a stream is final; every field    *)
(* keeps its type; the two paths of pop_all agree; an observable emits     *)
(* what its chain means for everything it was fed, and a throttleTime the  *)
(* latest item between two flushes.  The lemmas come first:                *)
(* what a stage means and what its context tells, then the stages of a     *)
(* chain one after the other, then a chain that is handed one batch more.  *)
(***************************************************************************)
EXTENDS PathsProofs

-----------------------------------------------------------------------------
(* The reference.  The items of s at the positions in S, as a fold over    *)
(* the positions of s.                                                     *)
Picking(s, S) ==
  [p \in Seq(Items) \X DOMAIN s |->
     IF p[2] \in S THEN Append(p[1], s[p[2]]) ELSE p[1]]

LEMMA PickingFolds ==
  ASSUME NEW s \in Seq(Items), NEW S
  PROVE  Folding(Seq(Items), DOMAIN s, Picking(s, S), << >>, Positions(s))
<1>1. << >> \in Seq(Items)
  OBVIOUS
<1>2. Positions(s) \in Seq(DOMAIN s)
  BY PositionsType
<1>3. Picking(s, S) \in [Seq(Items) \X DOMAIN s -> Seq(Items)]
  <2>1. ASSUME NEW o \in Seq(Items), NEW i \in DOMAIN s
        PROVE  Append(o, s[i]) \in Seq(Items)
    OBVIOUS
  <2>2. QED
    BY <2>1 DEF Picking
<1>4. QED
  BY <1>1, <1>2, <1>3 DEF Folding

LEMMA AtIsFold ==
  ASSUME NEW s \in Seq(Items), NEW S
  PROVE  At(s, S) = FoldOf(Seq(Items), Picking(s, S), << >>, Positions(s))
<1> DEFINE V == Seq(Items)
           W == DOMAIN s
           f == Picking(s, S)
           base == << >>
           seq == Positions(s)
           next(a, x) == IF x \in S THEN Append(a, s[x]) ELSE a
           Is(w) == w = [t \in SUBSET (DOMAIN seq) |->
                           IF t = {} THEN base
                           ELSE next(w[t \ {Max(t)}], seq[Max(t)])]
           it == CHOOSE w : Is(w)
<1>1. At(s, S) = it[DOMAIN seq]
  BY DEF At, FoldLeftDomain, FoldLeft, MapThenFoldSet, Positions
<1>2. Folding(V, W, f, base, seq)
  BY PickingFolds
<1>3. \A a \in V, x \in W : f[<< a, x >>] = next(a, x)
  BY DEF Picking
<1> HIDE DEF V, W, f, base, seq, next
<1>4. DOMAIN seq = 1..Len(seq) /\ Len(seq) \in Nat
  BY <1>2 DEF Folding
<1>5. Is(it)
  <2>1. PICK w : Taken(w, V, W, f, base, seq)
    BY <1>2, TakenExists
  <2>2. Is(w)
    BY <1>3, <2>1 DEF Taken
  <2>3. QED
    BY <2>2
<1> HIDE DEF it
<1>6. it[{}] = base
  BY <1>5
<1>7. ASSUME NEW k \in 1..Len(seq), it[1..(k - 1)] \in V
      PROVE  it[1..k] = f[<< it[1..(k - 1)], seq[k] >>]
  <2>1. it[1..k] = next(it[1..(k - 1)], seq[k])
    <3>1. k \in Nat \ {0} /\ 1..k \in SUBSET (DOMAIN seq)
      BY <1>4
    <3>2. Max(1..k) = k /\ (1..k) \ {k} = 1..(k - 1) /\ 1..k # {}
      BY <3>1, GreatestOfInterval
    <3>3. QED
      BY <3>1, <3>2, <1>5
  <2>2. seq[k] \in W
    BY <1>2 DEF Folding
  <2>3. QED
    BY <2>1, <2>2, <1>3, <1>7
<1>8. it[DOMAIN seq] = FoldOf(V, f, base, seq)
  <2>1. TakesUp(it, V, f, base, seq)
    BY <1>6, <1>7 DEF TakesUp
  <2>2. QED
    BY <1>2, <2>1, IterationIsFold
<1>9. QED
  BY <1>1, <1>8 DEF V, f, base, seq

(* It goes through s and puts down the items at those positions.           *)
PicksUp(g, s, S) ==
  /\ g[0] = << >> /\ At(s, S) = g[Len(s)]
  /\ \A k \in 1..Len(s) :
       g[k] = IF k \in S THEN Append(g[k - 1], s[k]) ELSE g[k - 1]

LEMMA AtSteps ==
  ASSUME NEW s \in Seq(Items), NEW S
  PROVE  \E g : PicksUp(g, s, S)
<1> DEFINE V == Seq(Items)
           f == Picking(s, S)
           p == Positions(s)
           base == << >>
           n == Len(s)
<1>1. /\ p \in Seq(DOMAIN s) /\ Len(p) = n /\ n \in Nat
      /\ DOMAIN s = 1..n /\ \A k \in 1..n : p[k] = k
  BY PositionsType DEF Positions
<1>2. Folding(V, DOMAIN s, f, base, p)
  BY PickingFolds
<1>3. At(s, S) = FoldOf(V, f, base, p)
  BY AtIsFold
<1>4. \A o \in V, k \in DOMAIN s :
        f[<< o, k >>] = IF k \in S THEN Append(o, s[k]) ELSE o
  BY DEF Picking
<1> HIDE DEF V, f, p, n, base
<1>5. PICK g : Folds(g, V, f, base, p)
  BY <1>2, FoldsExist
<1>6. FoldOf(V, f, base, p) = g[n]
  <2>1. Len(p) \in Nat
    BY <1>1
  <2>2. QED
    BY <1>1, <1>5, <2>1, FoldOfIs
<1>7. /\ g \in [0..n -> V] /\ g[0] = base
      /\ \A k \in 1..n : g[k] = f[<< g[k - 1], k >>]
  <2>1. /\ g \in [0..Len(p) -> V] /\ g[0] = base
        /\ \A k \in 1..Len(p) : g[k] = f[<< g[k - 1], p[k] >>]
    BY <1>5 DEF Folds
  <2>2. QED
    BY <1>1, <2>1
<1>8. ASSUME NEW k \in 1..n
      PROVE  g[k] = IF k \in S THEN Append(g[k - 1], s[k]) ELSE g[k - 1]
  <2>1. k - 1 \in 0..n /\ k \in DOMAIN s
    BY <1>1
  <2>2. g[k - 1] \in V
    BY <1>7, <2>1
  <2>3. QED
    BY <1>4, <1>7, <2>1, <2>2
<1>9. QED
  BY <1>3, <1>6, <1>7, <1>8 DEF PicksUp, V, n, base

LEMMA AtType ==
  ASSUME NEW s \in Seq(Items), NEW S
  PROVE  At(s, S) \in Seq(Items)
<1>1. QED
  BY PickingFolds, AtIsFold, FoldOfType

LEMMA AtEmpty ==
  ASSUME NEW S
  PROVE  At(<< >>, S) = << >>
<1>1. PICK s \in Seq(Items) : s = << >> /\ Len(s) = 0
  <2>1. << >> \in Seq(Items) /\ Len(<< >>) = 0
    OBVIOUS
  <2>2. QED
    BY <2>1
<1>2. PICK g : PicksUp(g, s, S)
  BY AtSteps
<1>3. QED
  BY <1>1, <1>2 DEF PicksUp

(* One item more.                                                          *)
LEMMA AtAppend ==
  ASSUME NEW d \in Seq(Items), NEW x \in Items, NEW S, NEW T,
         \A i \in 1..Len(d) : i \in T <=> i \in S
  PROVE  At(Append(d, x), T)
           = IF Len(d) + 1 \in T THEN Append(At(d, S), x) ELSE At(d, S)
<1> DEFINE n == Len(d)
<1>1. PICK e \in Seq(Items) :
        /\ e = Append(d, x)
        /\ n \in Nat /\ Len(e) = n + 1 /\ e[n + 1] = x
        /\ \A i \in 1..n : e[i] = d[i]
  <2>1. /\ Append(d, x) \in Seq(Items) /\ n \in Nat
        /\ Len(Append(d, x)) = n + 1 /\ Append(d, x)[n + 1] = x
        /\ \A i \in 1..n : Append(d, x)[i] = d[i]
    OBVIOUS
  <2>2. QED
    BY <2>1, Zenon
<1>2. PICK g : PicksUp(g, d, S)
  BY AtSteps
<1>3. PICK h : PicksUp(h, e, T)
  BY AtSteps
<1>4. /\ g[0] = << >> /\ At(d, S) = g[n]
      /\ \A k \in 1..n :
           g[k] = IF k \in S THEN Append(g[k - 1], d[k]) ELSE g[k - 1]
  BY <1>2 DEF PicksUp
<1>5. /\ h[0] = << >> /\ At(e, T) = h[n + 1]
      /\ \A k \in 1..(n + 1) :
           h[k] = IF k \in T THEN Append(h[k - 1], e[k]) ELSE h[k - 1]
  BY <1>1, <1>3 DEF PicksUp
<1> HIDE DEF n
<1> DEFINE P == {k \in Nat : k <= n => g[k] = h[k]}
<1>6. 0 \in P
  BY <1>4, <1>5
<1>7. ASSUME NEW k \in Nat, k \in P
      PROVE  k + 1 \in P
  <2>1. SUFFICES ASSUME k + 1 <= n
                 PROVE  g[k + 1] = h[k + 1]
    OBVIOUS
  <2>2. /\ k + 1 \in 1..n /\ k + 1 \in 1..(n + 1) /\ (k + 1) - 1 = k
        /\ k <= n
    BY <1>1, <2>1
  <2>3. g[k] = h[k] /\ e[k + 1] = d[k + 1]
    BY <1>1, <1>7, <2>2
  <2>4. k + 1 \in T <=> k + 1 \in S
    BY <2>2 DEF n
  <2>5. QED
    BY <1>4, <1>5, <2>2, <2>3, <2>4
<1>8. \A k \in Nat : k \in P
  <2> HIDE DEF P
  <2> QED BY <1>6, <1>7, SetInduction
<1>9. g[n] = h[n]
  BY <1>1, <1>8
<1>10. n + 1 \in 1..(n + 1) /\ (n + 1) - 1 = n
  BY <1>1
<1>11. h[n + 1] = IF n + 1 \in T THEN Append(h[n], x) ELSE h[n]
  BY <1>1, <1>5, <1>10
<1>12. QED
  BY <1>1, <1>4, <1>5, <1>9, <1>11 DEF n

(* A set that holds << >> and grows with every item holds every sequence.  *)
LEMMA GrowingBatches ==
  ASSUME NEW S, NEW P, << >> \in P,
         \A d \in Seq(S), x \in S : d \in P => Append(d, x) \in P
  PROVE  Seq(S) \subseteq P
<1> DEFINE N == {n \in Nat : \A d \in Seq(S) : Len(d) = n => d \in P}
<1>1. 0 \in N
  <2>1. \A d \in Seq(S) : Len(d) = 0 => d = << >>
    OBVIOUS
  <2>2. QED
    BY <2>1
<1>2. ASSUME NEW n \in Nat, n \in N
      PROVE  n + 1 \in N
  <2>1. SUFFICES ASSUME NEW d \in Seq(S), Len(d) = n + 1
                 PROVE  d \in P
    OBVIOUS
  <2>2. d # << >>
    BY <2>1
  <2>3. PICK b \in Seq(S), x \in S : Len(b) = n /\ d = Append(b, x)
    <3>1. /\ Last(d) \in S /\ Front(d) \in Seq(S)
          /\ Len(Front(d)) = Len(d) - 1 /\ d = Append(Front(d), Last(d))
      BY <2>2, LastAndFront
    <3>2. Len(Front(d)) = n
      BY <1>2, <2>1, <3>1
    <3>3. QED
      BY <3>1, <3>2
  <2>4. QED
    BY <1>2, <2>3
<1>3. \A n \in Nat : n \in N
  <2> HIDE DEF N
  <2> QED BY <1>1, <1>2, SetInduction
<1>4. QED
  BY <1>3

(* An item behind two batches.                                             *)
LEMMA ConcatAppend ==
  ASSUME NEW s \in Seq(Items), NEW d \in Seq(Items), NEW x \in Items
  PROVE  Append(s \o d, x) = s \o Append(d, x)
<1>1. PICK e \in Seq(Items) : e = << x >>
  <2>1. << x >> \in Seq(Items)
    OBVIOUS
  <2>2. QED
    BY <2>1
<1>2. PICK b \in Seq(Items) : b = s \o d
  <2>1. s \o d \in Seq(Items)
    OBVIOUS
  <2>2. QED
    BY <2>1
<1>3. Append(b, x) = b \o e /\ Append(d, x) = d \o e
  BY <1>1, AppendIsConcat
<1>4. (s \o d) \o e = s \o (d \o e)
  BY ConcatAssociative
<1>5. QED
  BY <1>2, <1>3, <1>4

(* A stage that carries on: what is known of its operator and callbacks.   *)
Carrier(stage) ==
  /\ AccumReturns /\ stage \in Stages /\ Returns(stage)
  /\ stage.op \in CarryKinds

LEMMA CarryOneMore ==
  ASSUME NEW stage, Carrier(stage), NEW y, ContextOK(stage, y),
         NEW d \in Seq(Plain), NEW x \in Plain, NEW isReady
  PROVE  OneMore(stage, y, d, x, isReady)
<1>1. /\ AccumReturns /\ stage \in Stages /\ Returns(stage)
      /\ stage.op \in CarryKinds /\ d \in Seq(Items) /\ x \in Items
  BY DEF Carrier, Plain
<1>2. CASE stage.op \in ItemKinds
  BY <1>1, <1>2, ItemOneMore
<1>3. CASE stage.op = "mapTo"
  BY <1>3, MapToOneMore
<1>4. CASE stage.op = "skip"
  <2>1. y \in Nat
    BY <1>4 DEF ContextOK
  <2>2. QED
    BY <1>1, <1>4, <2>1, CountOneMore
<1>5. CASE stage.op = "skipUntil"
  <2>1. y \in BOOLEAN
    BY <1>5 DEF ContextOK
  <2>2. QED
    BY <1>5, <2>1, AwaitOneMore
<1>6. CASE stage.op = "distinct"
  <2>1. y \in SUBSET Items
    BY <1>6 DEF ContextOK
  <2>2. QED
    BY <1>1, <1>6, <2>1, UnseenOneMore
<1>7. QED
  BY <1>1, <1>2, <1>3, <1>4, <1>5, <1>6 DEF CarryKinds

LEMMA CarryEmpty ==
  ASSUME NEW stage, Carrier(stage), NEW y, ContextOK(stage, y), NEW isReady
  PROVE  Apply(stage, y, << >>, isReady) = Result(<< >>, y)
<1>1. /\ AccumReturns /\ stage \in Stages /\ Returns(stage)
      /\ stage.op \in CarryKinds
  BY DEF Carrier
<1>2. CASE stage.op \in ItemKinds
  BY <1>1, <1>2, ItemEmpty
<1>3. PICK s \in Seq(Items) : s = << >> /\ UpToDone(s) = s /\ Len(s) = 0
  <2>1. << >> \in Seq(Plain) /\ Len(<< >>) = 0
    OBVIOUS
  <2>2. QED
    BY <2>1, PlainIsWhole
<1>4. CASE stage.op = "mapTo"
  <2>1. Apply(stage, y, s, isReady) = Result([i \in DOMAIN s |-> stage.arg], y)
    BY <1>3, <1>4 DEF Apply, MapToApply
  <2>2. [i \in DOMAIN s |-> stage.arg] = << >>
    BY <1>3
  <2>3. QED
    BY <1>3, <2>1, <2>2
<1>5. CASE stage.op = "skip"
  <2> DEFINE left == IF stage.arg > y THEN stage.arg - y ELSE 0
  <2>1. y \in Nat /\ stage.arg \in Int
    BY <1>1, <1>5 DEF ContextOK, Stages, Items
  <2>2. left \in Nat /\ y + Len(s) = y
    BY <1>3, <2>1
  <2>3. Apply(stage, y, s, isReady) = Result(From(s, left + 1), y + Len(s))
    BY <1>5 DEF Apply, SkipApply
  <2> HIDE DEF left
  <2>4. From(s, left + 1) = << >>
    BY <1>3, <2>2 DEF From
  <2>5. QED
    BY <1>3, <2>2, <2>3, <2>4
<1>6. CASE stage.op = "skipUntil"
  <2> DEFINE n == IF y THEN 1 ELSE FirstOf(Awaited(stage.arg, s))
  <2>1. PICK e : e = << >>
    OBVIOUS
  <2>2. \A v : UpToDone(v) = v => Apply(stage, y, v, isReady)
          = LET j == IF y THEN 1 ELSE FirstOf(Awaited(stage.arg, v))
            IN  IF j = 0 THEN Result(e, FALSE) ELSE Result(From(v, j), TRUE)
    BY <1>6, <2>1
       DEF Apply, SkipUntilApply, FirstIndex, SelectInSeq, FirstOf, Awaited
  <2>3. Apply(stage, y, s, isReady)
           = IF n = 0 THEN Result(e, FALSE) ELSE Result(From(s, n), TRUE)
    BY <1>3, <2>2
  <2>4. y \in BOOLEAN
    BY <1>6 DEF ContextOK
  <2>5. Awaited(stage.arg, s) = {}
    BY <1>3 DEF Awaited
  <2>6. CASE y
    <3>1. From(s, 1) = << >>
      BY <1>3 DEF From
    <3>2. y = TRUE /\ n = 1
      BY <2>4, <2>6
    <3>3. Apply(stage, y, s, isReady) = Result(From(s, 1), TRUE)
      BY <2>3, <3>2
    <3>4. QED
      BY <1>3, <3>1, <3>2, <3>3
  <2>7. CASE ~y
    <3>1. y = FALSE /\ n = 0
      BY <2>4, <2>5, <2>7 DEF FirstOf
    <3>2. QED
      BY <1>3, <2>1, <2>3, <3>1
  <2>8. QED
    BY <2>6, <2>7
<1>7. CASE stage.op = "distinct"
  <2> DEFINE V == [out : Seq(Items), ctx : SUBSET Items]
             base == Result(<< >>, y)
             f == Unseen(stage.arg)
  <2>1. y \in SUBSET Items /\ \A v \in Items : Key(stage.arg, v) \in Items
    BY <1>1, <1>7 DEF ContextOK, Returns
  <2>2. base \in V
    BY <1>3, <2>1 DEF Result
  <2>3. Folding(V, Items, f, base, << >>)
    BY <1>3, <2>1, <2>2, UnseenType DEF Folding
  <2>4. DistinctApply(stage.arg, y, << >>) = FoldOf(V, f, base, << >>)
    BY <1>3, <2>1, DistinctIsFold
  <2> HIDE DEF V, f
  <2>5. FoldOf(V, f, base, << >>) = base
    BY <2>3, FoldOfEmpty
  <2>6. QED
    BY <1>7, <2>4, <2>5 DEF Apply
<1>8. QED
  BY <1>1, <1>2, <1>4, <1>5, <1>6, <1>7 DEF CarryKinds

(* Its result is an outcome with a context of its own.                     *)
LEMMA CarryType ==
  ASSUME NEW stage, Carrier(stage), NEW y, ContextOK(stage, y),
         NEW d \in Seq(Items), NEW isReady
  PROVE  LET a == Apply(stage, y, d, isReady)
         IN  /\ a = Result(a.out, a.ctx) /\ a.out \in Seq(Items)
             /\ ContextOK(stage, a.ctx)
<1>1. Gives(Apply(stage, y, d, isReady), stage)
  BY ApplyType DEF Carrier
<1>2. PICK o, c : /\ o \in Seq(Items) /\ ContextOK(stage, c)
                  /\ Apply(stage, y, d, isReady) = Result(o, c)
  BY <1>1 DEF Gives
<1>3. QED
  BY <1>2, ResultFields

LEMMA AppendedIsItem ==
  ASSUME NEW s \in Seq(Items), NEW v, Append(s, v) \in Seq(Items)
  PROVE  v \in Items
<1> DEFINE n == Len(s)
           a == Append(s, v)
           S == Items \union {v}
<1>1. n \in Nat /\ s \in [1..n -> Items] /\ a \in Seq(Items)
  OBVIOUS
<1>2. s \in Seq(S) /\ v \in S
  BY <1>1
<1> HIDE DEF S
<1>3. Len(a) = n + 1 /\ v = a[n + 1]
  BY <1>2, LastOfAppend
<1> HIDE DEF a, n
<1>4. QED
  BY <1>1, <1>3

(* Cut in two, a batch gives what it gives whole: the second half finds    *)
(* the context the first has left.                                         *)
Joint(stage, y, d, b, isReady) ==
  LET a == Apply(stage, y, d, isReady)
      t == Apply(stage, a.ctx, b, isReady)
  IN  Apply(stage, y, d \o b, isReady) = Result(a.out \o t.out, t.ctx)

LEMMA CutAnywhere ==
  ASSUME NEW stage, Carrier(stage), NEW y, ContextOK(stage, y),
         NEW d \in Seq(Plain), NEW b \in Seq(Plain), NEW isReady
  PROVE  Joint(stage, y, d, b, isReady)
<1>1. PICK a : /\ a = Apply(stage, y, d, isReady) /\ a = Result(a.out, a.ctx)
               /\ a.out \in Seq(Items) /\ ContextOK(stage, a.ctx)
               /\ d \in Seq(Items)
  BY PlainIsWhole, CarryType
<1> DEFINE P == {e \in Seq(Plain) : Joint(stage, y, d, e, isReady)}
<1>2. << >> \in P
  <2>1. PICK e \in Seq(Plain) : e = << >>
    <3>1. << >> \in Seq(Plain)
      OBVIOUS
    <3>2. QED
      BY <3>1
  <2>2. Apply(stage, a.ctx, e, isReady) = Result(e, a.ctx)
    BY <1>1, <2>1, CarryEmpty
  <2>3. d \o e = d /\ a.out \o e = a.out
    BY <1>1, <2>1, ConcatEmptySeq
  <2>4. PICK t : t = Apply(stage, a.ctx, e, isReady) /\ t.out = e /\ t.ctx = a.ctx
    BY <2>2, ResultFields
  <2>5. Apply(stage, y, d \o e, isReady) = Result(a.out \o t.out, t.ctx)
    BY <1>1, <2>3, <2>4
  <2>6. Joint(stage, y, d, e, isReady)
    BY <1>1, <2>4, <2>5 DEF Joint
  <2>7. QED
    BY <2>1, <2>6
<1>3. \A e \in Seq(Plain), x \in Plain : e \in P => Append(e, x) \in P
  <2> SUFFICES ASSUME NEW e \in Seq(Plain), NEW x \in Plain,
                      Joint(stage, y, d, e, isReady)
               PROVE  Append(e, x) \in Seq(Plain)
                      /\ Joint(stage, y, d, Append(e, x), isReady)
    OBVIOUS
  <2>1. Append(e, x) \in Seq(Plain) /\ d \o e \in Seq(Plain)
        /\ e \in Seq(Items) /\ x \in Items
    <3>1. e \in Seq(Items) /\ x \in Items
      BY PlainIsWhole DEF Plain
    <3>2. QED
      BY <3>1
  <2>2. PICK t : /\ t = Apply(stage, a.ctx, e, isReady)
                 /\ t.out \in Seq(Items)
    BY <1>1, <2>1, CarryType
  <2>3. PICK w : /\ w = Apply(stage, y, d \o e, isReady)
                 /\ w = Result(a.out \o t.out, t.ctx)
    BY <1>1, <2>2 DEF Joint
  <2>4. Apply(stage, y, Append(d \o e, x), isReady)
          = Result(IF Keeps(stage, t.ctx, x)
                   THEN Append(a.out \o t.out, Value(stage, t.ctx, x))
                   ELSE a.out \o t.out, Memory(stage, t.ctx, x))
    <3>1. OneMore(stage, y, d \o e, x, isReady)
      BY <2>1, CarryOneMore
    <3>2. w.out = a.out \o t.out /\ w.ctx = t.ctx
      <4>1. PICK o : o = a.out \o t.out
        OBVIOUS
      <4>2. w = Result(o, t.ctx)
        BY <2>3, <4>1
      <4>3. Result(o, t.ctx).out = o /\ Result(o, t.ctx).ctx = t.ctx
        BY ResultFields
      <4>4. QED
        BY <4>1, <4>2, <4>3
    <3>3. QED
      BY <2>3, <3>1, <3>2 DEF OneMore
  <2>5. PICK u : /\ u = Apply(stage, a.ctx, Append(e, x), isReady)
                 /\ u = Result(IF Keeps(stage, t.ctx, x)
                               THEN Append(t.out, Value(stage, t.ctx, x))
                               ELSE t.out, Memory(stage, t.ctx, x))
    BY <1>1, <2>2, CarryOneMore DEF OneMore
  <2>6. Append(d \o e, x) = d \o Append(e, x)
    BY <1>1, <2>1, ConcatAppend
  <2>7. u.ctx = Memory(stage, t.ctx, x)
    BY <2>5, ResultFields
  <2>8. CASE Keeps(stage, t.ctx, x)
    <3>1. u.out = Append(t.out, Value(stage, t.ctx, x))
      BY <2>5, <2>8, ResultFields
    <3>2. Value(stage, t.ctx, x) \in Items
      <4>1. Append(e, x) \in Seq(Items)
        BY <2>1
      <4>2. u.out \in Seq(Items)
        <5>1. Apply(stage, a.ctx, Append(e, x), isReady).out \in Seq(Items)
          BY <1>1, <4>1, CarryType
        <5>2. QED
          BY <2>5, <5>1
      <4>3. QED
        BY <2>2, <3>1, <4>2, AppendedIsItem
    <3>3. Append(a.out \o t.out, Value(stage, t.ctx, x))
            = a.out \o Append(t.out, Value(stage, t.ctx, x))
      BY <1>1, <2>2, <3>2, ConcatAppend
    <3>4. Apply(stage, y, d \o Append(e, x), isReady)
            = Result(a.out \o u.out, u.ctx)
      BY <2>4, <2>6, <2>7, <2>8, <3>1, <3>3
    <3>5. QED
      BY <1>1, <2>1, <2>5, <3>4 DEF Joint
  <2>9. CASE ~Keeps(stage, t.ctx, x)
    <3>1. u.out = t.out
      BY <2>5, <2>9, ResultFields
    <3>2. Apply(stage, y, d \o Append(e, x), isReady)
            = Result(a.out \o u.out, u.ctx)
      BY <2>4, <2>6, <2>7, <2>9, <3>1
    <3>3. QED
      BY <1>1, <2>1, <2>5, <3>2 DEF Joint
  <2>10. QED
    BY <2>8, <2>9
<1>4. Seq(Plain) \subseteq P
  <2> HIDE DEF P
  <2> QED BY <1>2, <1>3, GrowingBatches
<1>5. QED
  BY <1>4

(* What a stage that reads item by item emits, against its reference.      *)
(* filter.                                                                 *)
LEMMA FilterMeans ==
  ASSUME NEW stage, stage.op = "filter", NEW d \in Seq(Items), NEW x \in Items
  PROVE  RxOut(stage, Append(d, x))
           = IF Pred(stage.arg, x) THEN Append(RxOut(stage, d), x)
             ELSE RxOut(stage, d)
<1> DEFINE e == Append(d, x)
           S == {i \in DOMAIN d : Pred(stage.arg, d[i])}
           T == {i \in DOMAIN e : Pred(stage.arg, e[i])}
<1>1. /\ DOMAIN d = 1..Len(d) /\ DOMAIN e = 1..(Len(d) + 1) /\ Len(d) \in Nat
      /\ e[Len(d) + 1] = x /\ \A i \in 1..Len(d) : e[i] = d[i]
  OBVIOUS
<1>2. RxOut(stage, d) = At(d, S) /\ RxOut(stage, e) = At(e, T)
  BY DEF RxOut
<1> HIDE DEF e
<1>3. /\ \A i \in 1..Len(d) : i \in T <=> i \in S
      /\ Len(d) + 1 \in T <=> Pred(stage.arg, x)
  BY <1>1
<1> HIDE DEF S, T
<1>4. At(e, T) = IF Len(d) + 1 \in T THEN Append(At(d, S), x) ELSE At(d, S)
  BY <1>3, AtAppend DEF e
<1>5. QED
  BY <1>2, <1>3, <1>4 DEF e

(* distinctUntilChanged.                                                   *)
LEMMA ChangedMeans ==
  ASSUME NEW stage, stage.op = "distinctUntilChanged",
         NEW d \in Seq(Items), NEW x \in Items
  PROVE  RxOut(stage, Append(d, x))
           = IF d = << >> \/ Key(stage.arg, d[Len(d)]) # Key(stage.arg, x)
             THEN Append(RxOut(stage, d), x) ELSE RxOut(stage, d)
<1> DEFINE e == Append(d, x)
           S == {i \in DOMAIN d :
                   i = 1 \/ Key(stage.arg, d[i - 1]) # Key(stage.arg, d[i])}
           T == {i \in DOMAIN e :
                   i = 1 \/ Key(stage.arg, e[i - 1]) # Key(stage.arg, e[i])}
<1>1. /\ DOMAIN d = 1..Len(d) /\ DOMAIN e = 1..(Len(d) + 1) /\ Len(d) \in Nat
      /\ e[Len(d) + 1] = x /\ \A i \in 1..Len(d) : e[i] = d[i]
      /\ d = << >> <=> Len(d) = 0
  OBVIOUS
<1>2. RxOut(stage, d) = At(d, S) /\ RxOut(stage, e) = At(e, T)
  BY DEF RxOut
<1> HIDE DEF e
<1>3. ASSUME NEW i \in 1..Len(d)
      PROVE  i \in T <=> i \in S
  <2>1. i = 1 \/ e[i - 1] = d[i - 1]
    BY <1>1
  <2>2. i \in 1..(Len(d) + 1) /\ e[i] = d[i]
    BY <1>1
  <2>3. QED
    BY <1>1, <2>1, <2>2
<1>4. Len(d) + 1 \in T
        <=> d = << >> \/ Key(stage.arg, d[Len(d)]) # Key(stage.arg, x)
  <2>1. (Len(d) + 1) - 1 = Len(d) /\ Len(d) + 1 \in 1..(Len(d) + 1)
    BY <1>1
  <2>2. Len(d) + 1 = 1 <=> d = << >>
    BY <1>1
  <2>3. d # << >> => e[Len(d)] = d[Len(d)]
    BY <1>1
  <2>4. QED
    BY <1>1, <2>1, <2>2, <2>3
<1> HIDE DEF S, T
<1>5. At(e, T) = IF Len(d) + 1 \in T THEN Append(At(d, S), x) ELSE At(d, S)
  BY <1>3, AtAppend DEF e
<1>6. QED
  BY <1>2, <1>4, <1>5 DEF e

(* skipWhile.                                                              *)
LEMMA SkipMeans ==
  ASSUME NEW stage, stage.op = "skipWhile",
         NEW d \in Seq(Items), NEW x \in Items
  PROVE  RxOut(stage, Append(d, x))
           = IF \E i \in DOMAIN Append(d, x) : ~Pred(stage.arg, Append(d, x)[i])
             THEN Append(RxOut(stage, d), x) ELSE RxOut(stage, d)
<1> DEFINE e == Append(d, x)
           S == DOMAIN d \ {i \in DOMAIN d :
                              \A j \in 1..i : ~(~Pred(stage.arg, d[j]))}
           T == DOMAIN e \ {i \in DOMAIN e :
                              \A j \in 1..i : ~(~Pred(stage.arg, e[j]))}
<1>1. /\ DOMAIN d = 1..Len(d) /\ DOMAIN e = 1..(Len(d) + 1) /\ Len(d) \in Nat
      /\ e[Len(d) + 1] = x /\ \A i \in 1..Len(d) : e[i] = d[i]
  OBVIOUS
<1>2. RxOut(stage, d) = At(d, S) /\ RxOut(stage, e) = At(e, T)
  BY DEF RxOut, FromFirst, Before
<1> HIDE DEF e
<1>3. ASSUME NEW i \in 1..Len(d)
      PROVE  i \in T <=> i \in S
  <2>1. \A j \in 1..i : e[j] = d[j]
    BY <1>1
  <2>2. i \in 1..(Len(d) + 1)
    BY <1>1
  <2>3. QED
    BY <1>1, <2>1, <2>2
<1>4. Len(d) + 1 \in T <=> \E i \in DOMAIN e : ~Pred(stage.arg, e[i])
  BY <1>1
<1> HIDE DEF S, T
<1>5. At(e, T) = IF Len(d) + 1 \in T THEN Append(At(d, S), x) ELSE At(d, S)
  BY <1>3, AtAppend DEF e
<1>6. QED
  BY <1>2, <1>4, <1>5 DEF e

(* skip.                                                                   *)
LEMMA CountMeans ==
  ASSUME NEW stage, stage.op = "skip",
         NEW d \in Seq(Items), NEW x \in Items
  PROVE  RxOut(stage, Append(d, x))
           = IF Len(d) + 1 > stage.arg
             THEN Append(RxOut(stage, d), x) ELSE RxOut(stage, d)
<1> DEFINE e == Append(d, x)
           S == {i \in DOMAIN d : i > stage.arg}
           T == {i \in DOMAIN e : i > stage.arg}
<1>1. DOMAIN d = 1..Len(d) /\ DOMAIN e = 1..(Len(d) + 1) /\ Len(d) \in Nat
  OBVIOUS
<1>2. RxOut(stage, d) = At(d, S) /\ RxOut(stage, e) = At(e, T)
  BY DEF RxOut
<1> HIDE DEF e
<1>3. /\ \A i \in 1..Len(d) : i \in T <=> i \in S
      /\ Len(d) + 1 \in T <=> Len(d) + 1 > stage.arg
  BY <1>1
<1> HIDE DEF S, T
<1>4. At(e, T) = IF Len(d) + 1 \in T THEN Append(At(d, S), x) ELSE At(d, S)
  BY <1>3, AtAppend DEF e
<1>5. QED
  BY <1>2, <1>3, <1>4 DEF e

(* skipUntil.                                                              *)
LEMMA AwaitMeans ==
  ASSUME NEW stage, stage.op = "skipUntil",
         NEW d \in Seq(Items), NEW x \in Items
  PROVE  RxOut(stage, Append(d, x))
           = IF \E i \in DOMAIN Append(d, x) : Append(d, x)[i] = stage.arg
             THEN Append(RxOut(stage, d), x) ELSE RxOut(stage, d)
<1> DEFINE e == Append(d, x)
           S == DOMAIN d \ {i \in DOMAIN d :
                              \A j \in 1..i : ~(d[j] = stage.arg)}
           T == DOMAIN e \ {i \in DOMAIN e :
                              \A j \in 1..i : ~(e[j] = stage.arg)}
<1>1. /\ DOMAIN d = 1..Len(d) /\ DOMAIN e = 1..(Len(d) + 1) /\ Len(d) \in Nat
      /\ e[Len(d) + 1] = x /\ \A i \in 1..Len(d) : e[i] = d[i]
  OBVIOUS
<1>2. RxOut(stage, d) = At(d, S) /\ RxOut(stage, e) = At(e, T)
  BY DEF RxOut, FromFirst, Before
<1> HIDE DEF e
<1>3. ASSUME NEW i \in 1..Len(d)
      PROVE  i \in T <=> i \in S
  <2>1. \A j \in 1..i : e[j] = d[j]
    BY <1>1
  <2>2. i \in 1..(Len(d) + 1)
    BY <1>1
  <2>3. QED
    BY <1>1, <2>1, <2>2
<1>4. Len(d) + 1 \in T <=> \E i \in DOMAIN e : e[i] = stage.arg
  BY <1>1
<1> HIDE DEF S, T
<1>5. At(e, T) = IF Len(d) + 1 \in T THEN Append(At(d, S), x) ELSE At(d, S)
  BY <1>3, AtAppend DEF e
<1>6. QED
  BY <1>2, <1>4, <1>5 DEF e

(* distinct: the keys of d.                                                *)
KeysOf(stage, d) == {Key(stage.arg, d[i]) : i \in DOMAIN d}

LEMMA UnseenMeans ==
  ASSUME NEW stage, stage.op = "distinct",
         NEW d \in Seq(Items), NEW x \in Items
  PROVE  /\ RxOut(stage, Append(d, x))
              = IF Key(stage.arg, x) \notin KeysOf(stage, d)
                THEN Append(RxOut(stage, d), x) ELSE RxOut(stage, d)
         /\ KeysOf(stage, Append(d, x))
              = KeysOf(stage, d) \union {Key(stage.arg, x)}
<1> DEFINE e == Append(d, x)
           S == {i \in DOMAIN d : \A j \in 1..(i - 1) :
                   Key(stage.arg, d[j]) # Key(stage.arg, d[i])}
           T == {i \in DOMAIN e : \A j \in 1..(i - 1) :
                   Key(stage.arg, e[j]) # Key(stage.arg, e[i])}
<1>1. /\ DOMAIN d = 1..Len(d) /\ DOMAIN e = 1..(Len(d) + 1) /\ Len(d) \in Nat
      /\ e[Len(d) + 1] = x /\ \A i \in 1..Len(d) : e[i] = d[i]
  OBVIOUS
<1>2. RxOut(stage, d) = At(d, S) /\ RxOut(stage, e) = At(e, T)
  BY DEF RxOut
<1> HIDE DEF e
<1>3. ASSUME NEW i \in 1..Len(d)
      PROVE  i \in T <=> i \in S
  <2>1. \A j \in 1..(i - 1) : e[j] = d[j]
    BY <1>1
  <2>2. i \in 1..(Len(d) + 1) /\ e[i] = d[i]
    BY <1>1
  <2>3. QED
    BY <1>1, <2>1, <2>2
<1>4. Len(d) + 1 \in T <=> Key(stage.arg, x) \notin KeysOf(stage, d)
  <2>1. (Len(d) + 1) - 1 = Len(d) /\ Len(d) + 1 \in 1..(Len(d) + 1)
    BY <1>1
  <2>2. Len(d) + 1 \in T <=> \A j \in 1..Len(d) :
          Key(stage.arg, d[j]) # Key(stage.arg, x)
    BY <1>1, <2>1
  <2>3. QED
    BY <1>1, <2>2 DEF KeysOf
<1>5. KeysOf(stage, e) = KeysOf(stage, d) \union {Key(stage.arg, x)}
  <2>1. ASSUME NEW v
        PROVE  v \in KeysOf(stage, e)
                 <=> v \in KeysOf(stage, d) \/ v = Key(stage.arg, x)
    <3>1. v \in KeysOf(stage, e)
            <=> \E i \in 1..(Len(d) + 1) : v = Key(stage.arg, e[i])
      BY <1>1 DEF KeysOf
    <3>2. v \in KeysOf(stage, d) <=> \E i \in 1..Len(d) : v = Key(stage.arg, d[i])
      BY <1>1 DEF KeysOf
    <3>3. \A i : i \in 1..(Len(d) + 1) <=> i \in 1..Len(d) \/ i = Len(d) + 1
      BY <1>1
    <3>4. QED
      BY <1>1, <3>1, <3>2, <3>3
  <2>2. QED
    BY <2>1
<1> HIDE DEF S, T
<1>6. At(e, T) = IF Len(d) + 1 \in T THEN Append(At(d, S), x) ELSE At(d, S)
  BY <1>3, AtAppend DEF e
<1>7. QED
  BY <1>2, <1>4, <1>5, <1>6 DEF e

(* What a stage has emitted and remembers, after the batch d.              *)
Means(stage, d, a) ==
  /\ a.out = RxOut(stage, d)
  /\ stage.op = "distinctUntilChanged" =>
       a.ctx = IF d = << >> THEN Null ELSE Key(stage.arg, d[Len(d)])
  /\ stage.op = "skipWhile" =>
       a.ctx = \E i \in DOMAIN d : ~Pred(stage.arg, d[i])
  /\ stage.op = "skip" => a.ctx = Len(d)
  /\ stage.op = "skipUntil" =>
       a.ctx = \E i \in DOMAIN d : d[i] = stage.arg
  /\ stage.op = "distinct" => a.ctx = KeysOf(stage, d)

(* A key that is NULL is the one distinctUntilChanged begins with.         *)
KeyTells(stage) ==
  stage.op = "distinctUntilChanged" =>
    \A v \in Plain : Key(stage.arg, v) # Null

(* A stage that reads item by item, with the context its constructor       *)
(* allocates.                                                              *)
AsBuilt(stage) ==
  Carrier(stage) /\ KeyTells(stage)

(* Fed the batch d and nothing before it, the stage emits its reference.   *)
Meant(stage, d) == Means(stage, d, Apply(stage, NewContext(stage), d, FALSE))

LEMMA MeantAtFirst ==
  ASSUME NEW stage, AsBuilt(stage)
  PROVE  Meant(stage, << >>)
<1> DEFINE a == Apply(stage, NewContext(stage), << >>, FALSE)
<1>1. PICK s \in Seq(Items) : s = << >> /\ DOMAIN s = {} /\ Len(s) = 0
  <2>1. << >> \in Seq(Items) /\ DOMAIN << >> = {} /\ Len(<< >>) = 0
    OBVIOUS
  <2>2. QED
    BY <2>1
<1>2. a = Result(<< >>, NewContext(stage))
  <2>1. ContextOK(stage, NewContext(stage))
    BY NewContextOK DEF AsBuilt, Carrier
  <2>2. QED
    BY <2>1, CarryEmpty DEF AsBuilt
<1> HIDE DEF a
<1>3. a.out = s /\ a.ctx = NewContext(stage)
  BY <1>1, <1>2, ResultFields
<1>4. RxOut(stage, s) = s
  <2>1. CASE stage.op \in {"filter", "distinctUntilChanged", "skipWhile",
                           "skip", "skipUntil", "distinct"}
    BY <1>1, <2>1, AtEmpty DEF RxOut
  <2>2. CASE stage.op \in {"map", "mapTo", "scan", "scanfrom"}
    <3>1. RxOut(stage, s) = [i \in DOMAIN s |-> RxOut(stage, s)[i]]
      BY <2>2 DEF RxOut
    <3>2. s = [i \in DOMAIN s |-> s[i]]
      BY <1>1
    <3>3. QED
      BY <1>1, <3>1, <3>2
  <2>3. QED
    BY <2>1, <2>2 DEF AsBuilt, Carrier, CarryKinds, ItemKinds
<1>5. /\ stage.op = "distinctUntilChanged" => NewContext(stage) = Null
      /\ stage.op \in {"skipWhile", "skipUntil"} => NewContext(stage) = FALSE
      /\ stage.op = "skip" => NewContext(stage) = 0
      /\ stage.op = "distinct" => NewContext(stage) = {}
  BY DEF NewContext, Null
<1>6. KeysOf(stage, s) = {}
  BY <1>1 DEF KeysOf
<1>7. QED
  BY <1>1, <1>3, <1>4, <1>5, <1>6 DEF Meant, Means, a

LEMMA MeantOneMore ==
  ASSUME NEW stage, AsBuilt(stage),
         stage.op \in {"filter", "distinctUntilChanged", "skipWhile", "skip",
                       "skipUntil", "distinct"},
         NEW d \in Seq(Plain), NEW x \in Plain, Meant(stage, d)
  PROVE  Meant(stage, Append(d, x))
<1> DEFINE y == NewContext(stage)
           a == Apply(stage, y, d, FALSE)
           b == Apply(stage, y, Append(d, x), FALSE)
           z == a.ctx
           e == Append(d, x)
<1>1. /\ Carrier(stage) /\ stage \in Stages /\ KeyTells(stage)
      /\ d \in Seq(Items) /\ x \in Items
  BY PlainIsWhole DEF AsBuilt, Carrier, Plain
<1>2. b = Result(IF Keeps(stage, z, x) THEN Append(a.out, Value(stage, z, x))
                 ELSE a.out, Memory(stage, z, x))
  <2>1. ContextOK(stage, y)
    BY <1>1, NewContextOK
  <2> HIDE DEF y
  <2>2. OneMore(stage, y, d, x, FALSE)
    BY <1>1, <2>1, CarryOneMore
  <2>3. QED
    BY <2>2 DEF OneMore
<1>3. Means(stage, d, a)
  BY DEF Meant
<1>4. /\ e[Len(e)] = x /\ e # << >> /\ DOMAIN e = 1..(Len(d) + 1)
      /\ DOMAIN d = 1..Len(d) /\ Len(d) \in Nat
      /\ e[Len(d) + 1] = x /\ \A i \in 1..Len(d) : e[i] = d[i]
  OBVIOUS
<1> HIDE DEF a, b, y, e
<1>5. /\ b.out = IF Keeps(stage, z, x) THEN Append(a.out, Value(stage, z, x))
                 ELSE a.out
      /\ b.ctx = Memory(stage, z, x)
  BY <1>2, ResultFields
<1>6. Value(stage, z, x) = x
  BY DEF Value
<1>7. Len(e) = Len(d) + 1
  BY <1>1 DEF e
<1>8. a.out = RxOut(stage, d)
  BY <1>3 DEF Means
<1> HIDE DEF z
<1>9. CASE stage.op = "filter"
  <2>1. Keeps(stage, z, x) <=> Pred(stage.arg, x)
    BY <1>9 DEF Keeps
  <2>2. b.out = RxOut(stage, e)
    BY <1>1, <1>5, <1>6, <1>8, <1>9, <2>1, FilterMeans DEF e
  <2>3. QED
    BY <1>9, <2>2 DEF Means, Meant, b, e, y
<1>10. CASE stage.op = "distinctUntilChanged"
  <2>1. Keeps(stage, z, x) <=> Key(stage.arg, x) # z
    BY <1>10 DEF Keeps
  <2>2. z = IF d = << >> THEN Null ELSE Key(stage.arg, d[Len(d)])
    BY <1>3, <1>10 DEF Means, z
  <2>3. Key(stage.arg, x) # Null
    BY <1>1, <1>10 DEF KeyTells
  <2>4. Keeps(stage, z, x)
          <=> d = << >> \/ Key(stage.arg, d[Len(d)]) # Key(stage.arg, x)
    BY <2>1, <2>2, <2>3
  <2>5. b.out = RxOut(stage, e)
    BY <1>1, <1>5, <1>6, <1>8, <1>10, <2>4, ChangedMeans DEF e
  <2>6. b.ctx = Key(stage.arg, e[Len(e)])
    BY <1>4, <1>5, <1>10 DEF Memory
  <2>7. QED
    BY <1>4, <1>10, <2>5, <2>6 DEF Means, Meant, b, e, y
<1>11. CASE stage.op = "skipWhile"
  <2>1. Keeps(stage, z, x) <=> z \/ ~Pred(stage.arg, x)
    BY <1>11 DEF Keeps
  <2>2. z = \E i \in DOMAIN d : ~Pred(stage.arg, d[i])
    BY <1>3, <1>11 DEF Means, z
  <2>3. (\E i \in DOMAIN e : ~Pred(stage.arg, e[i])) <=> z \/ ~Pred(stage.arg, x)
    BY <1>4, <2>2
  <2>4. b.out = RxOut(stage, e)
    BY <1>1, <1>5, <1>6, <1>8, <1>11, <2>1, <2>3, SkipMeans DEF e
  <2>5. b.ctx = \E i \in DOMAIN e : ~Pred(stage.arg, e[i])
    BY <1>5, <1>11, <2>3 DEF Memory
  <2>6. QED
    BY <1>11, <2>4, <2>5 DEF Means, Meant, b, e, y
<1>12. CASE stage.op = "skip"
  <2>1. Keeps(stage, z, x) <=> z >= stage.arg
    BY <1>12 DEF Keeps
  <2>2. z = Len(d) /\ stage.arg \in Int
    BY <1>1, <1>3, <1>12 DEF Means, z, Stages, Items
  <2>3. Keeps(stage, z, x) <=> Len(d) + 1 > stage.arg
    BY <1>4, <2>1, <2>2
  <2>4. b.out = RxOut(stage, e)
    BY <1>1, <1>5, <1>6, <1>8, <1>12, <2>3, CountMeans DEF e
  <2>5. b.ctx = Len(e)
    BY <1>5, <1>12, <1>7, <2>2 DEF Memory
  <2>6. QED
    BY <1>12, <2>4, <2>5 DEF Means, Meant, b, e, y
<1>13. CASE stage.op = "skipUntil"
  <2>1. Keeps(stage, z, x) <=> z \/ x = stage.arg
    BY <1>13 DEF Keeps
  <2>2. z = \E i \in DOMAIN d : d[i] = stage.arg
    BY <1>3, <1>13 DEF Means, z
  <2>3. (\E i \in DOMAIN e : e[i] = stage.arg) <=> z \/ x = stage.arg
    BY <1>4, <2>2
  <2>4. b.out = RxOut(stage, e)
    BY <1>1, <1>5, <1>6, <1>8, <1>13, <2>1, <2>3, AwaitMeans DEF e
  <2>5. b.ctx = \E i \in DOMAIN e : e[i] = stage.arg
    BY <1>5, <1>13, <2>3 DEF Memory
  <2>6. QED
    BY <1>13, <2>4, <2>5 DEF Means, Meant, b, e, y
<1>14. CASE stage.op = "distinct"
  <2>1. Keeps(stage, z, x) <=> Key(stage.arg, x) \notin z
    BY <1>14 DEF Keeps
  <2>2. z = KeysOf(stage, d)
    BY <1>3, <1>14 DEF Means, z
  <2>3. /\ RxOut(stage, e) = IF Key(stage.arg, x) \notin KeysOf(stage, d)
                             THEN Append(RxOut(stage, d), x) ELSE RxOut(stage, d)
        /\ KeysOf(stage, e) = KeysOf(stage, d) \union {Key(stage.arg, x)}
    BY <1>1, <1>14, UnseenMeans DEF e
  <2>4. b.out = RxOut(stage, e)
    BY <1>5, <1>6, <1>8, <2>1, <2>2, <2>3
  <2>5. b.ctx = KeysOf(stage, e)
    BY <1>5, <1>14, <2>2, <2>3 DEF Memory
  <2>6. QED
    BY <1>14, <2>4, <2>5 DEF Means, Meant, b, e, y
<1>15. QED
  BY <1>9, <1>10, <1>11, <1>12, <1>13, <1>14

(* map, mapTo and scan compute their reference at once.                    *)
LEMMA MeantAtOnce ==
  ASSUME NEW stage, AsBuilt(stage),
         stage.op \in {"map", "mapTo", "scan", "scanfrom"}, NEW d \in Seq(Plain)
  PROVE  Meant(stage, d)
<1>1. UpToDone(d) = d
  BY PlainIsWhole
<1>2. CASE stage.op = "map"
  <2>1. Apply(stage, NewContext(stage), d, FALSE)
          = MapApply(stage.arg, NewContext(stage), d)
    BY <1>2 DEF Apply
  <2>2. MapApply(stage.arg, NewContext(stage), d).out = RxOut(stage, d)
    BY <1>1, <1>2 DEF MapApply, RxOut, Result
  <2>3. QED
    BY <1>2, <2>1, <2>2 DEF Meant, Means
<1>3. CASE stage.op \in {"scan", "scanfrom"}
  <2>1. Apply(stage, NewContext(stage), d, FALSE) = ScanApply(NewContext(stage), d)
    BY <1>3 DEF Apply
  <2>2. ScanApply(NewContext(stage), d).out
          = [i \in DOMAIN d |-> FoldLeft(Accum, NewContext(stage), SubSeq(d, 1, i))]
    BY <1>1 DEF ScanApply, Result
  <2>3. NewContext(stage) = IF stage.op = "scan" THEN Null ELSE stage.arg
    BY <1>3 DEF NewContext, Null
  <2>4. RxOut(stage, d)
          = [i \in DOMAIN d |-> FoldLeft(Accum, NewContext(stage), SubSeq(d, 1, i))]
    BY <1>3, <2>3 DEF RxOut
  <2>5. QED
    BY <1>3, <2>1, <2>2, <2>4 DEF Meant, Means
<1>4. CASE stage.op = "mapTo"
  <2>1. Apply(stage, NewContext(stage), d, FALSE)
          = MapToApply(stage.arg, NewContext(stage), d)
    BY <1>4 DEF Apply
  <2>2. MapToApply(stage.arg, NewContext(stage), d).out = RxOut(stage, d)
    BY <1>1, <1>4 DEF MapToApply, RxOut, Result
  <2>3. QED
    BY <1>4, <2>1, <2>2 DEF Meant, Means
<1>5. QED
  BY <1>2, <1>3, <1>4

(* One stage, over everything it is ever handed.                           *)
LEMMA StageMeans ==
  ASSUME NEW stage, AsBuilt(stage), NEW d \in Seq(Plain)
  PROVE  Apply(stage, NewContext(stage), d, FALSE).out = RxOut(stage, d)
<1>1. CASE stage.op \in {"map", "mapTo", "scan", "scanfrom"}
  BY <1>1, MeantAtOnce DEF Meant, Means
<1>2. CASE stage.op \in {"filter", "distinctUntilChanged", "skipWhile", "skip",
                         "skipUntil", "distinct"}
  <2> DEFINE P == {b \in Seq(Plain) : Meant(stage, b)}
  <2>1. << >> \in P
    <3>1. << >> \in Seq(Plain)
      OBVIOUS
    <3>2. QED
      BY <3>1, MeantAtFirst
  <2>2. \A b \in Seq(Plain), x \in Plain : b \in P => Append(b, x) \in P
    BY <1>2, MeantOneMore
  <2>3. Seq(Plain) \subseteq P
    <3> HIDE DEF P
    <3> QED BY <2>1, <2>2, GrowingBatches
  <2>4. QED
    BY <2>3 DEF Meant, Means
<1>3. QED
  BY <1>1, <1>2 DEF AsBuilt, Carrier, CarryKinds, ItemKinds

-----------------------------------------------------------------------------
(* The reference of a chain is a fold over its stages; throttleTime has    *)
(* none, for it hangs on the clock.                                        *)
Readers ==
  {stage \in Stages : stage.op # "throttleTime" /\ Returns(stage)}
(* What Rx folds: the stream after a stage, and whether it was stopped.    *)
Readings == [out : Seq(Items), stops : BOOLEAN]
Referring ==
  [p \in Readings \X Readers |->
     [out |-> RxOut(p[2], p[1].out),
      stops |-> p[1].stops \/ RxStops(p[2], p[1].out)]]
Unread(s) == [out |-> s, stops |-> FALSE]

LEMMA RxOutType ==
  ASSUME AccumReturns, NEW stage \in Readers, NEW s \in Seq(Items)
  PROVE  RxOut(stage, s) \in Seq(Items)
<1>1. /\ stage \in Stages /\ stage.op # "throttleTime" /\ Returns(stage)
      /\ stage.op \in Operations /\ stage.arg \in Items /\ Null \in Items
  BY DEF Readers, Stages, Null, Items
<1>2. Len(s) \in Nat /\ DOMAIN s = 1..Len(s) /\ \A i \in 1..Len(s) : s[i] \in Items
  OBVIOUS
<1>3. ASSUME NEW start \in Items, NEW b \in Seq(Items)
      PROVE  FoldLeft(Accum, start, b) \in Items
  <2>1. Folding(Items, Items, Accumulated, start, b)
    BY AccumulatedType DEF Folding
  <2>2. QED
    BY <2>1, AccumIsFold, FoldOfType
<1>4. CASE stage.op \in {"filter", "distinct", "distinctUntilChanged", "skip",
                         "skipUntil", "skipWhile", "take", "takeWhile",
                         "takeUntil", "first"}
  BY <1>4, AtType DEF RxOut
<1>5. CASE stage.op = "map"
  <2>1. RxOut(stage, s) = [i \in 1..Len(s) |-> Mapper(stage.arg, s[i])]
    BY <1>2, <1>5 DEF RxOut
  <2>2. \A i \in 1..Len(s) : Mapper(stage.arg, s[i]) \in Items
    BY <1>1, <1>2, <1>5 DEF Returns
  <2>3. QED
    BY <1>2, <2>1, <2>2
<1>6. CASE stage.op = "mapTo"
  <2>1. RxOut(stage, s) = [i \in 1..Len(s) |-> stage.arg]
    BY <1>2, <1>6 DEF RxOut
  <2>2. QED
    BY <1>1, <1>2, <2>1
<1>7. CASE stage.op \in {"scan", "scanfrom"}
  <2> DEFINE start == IF stage.op = "scan" THEN Null ELSE stage.arg
  <2>1. RxOut(stage, s)
          = [i \in 1..Len(s) |-> FoldLeft(Accum, start, SubSeq(s, 1, i))]
    BY <1>2, <1>7 DEF RxOut
  <2>2. start \in Items
    BY <1>1
  <2> HIDE DEF start
  <2>3. \A i \in 1..Len(s) : FoldLeft(Accum, start, SubSeq(s, 1, i)) \in Items
    <3>1. ASSUME NEW i \in 1..Len(s)
          PROVE  SubSeq(s, 1, i) \in Seq(Items)
      BY <1>2
    <3>2. QED
      BY <1>3, <2>2, <3>1
  <2>4. QED
    BY <1>2, <2>1, <2>3
<1>8. CASE stage.op = "reduce"
  <2>1. RxOut(stage, s) = IF s = << >> THEN << >> ELSE << FoldLeft(Accum, Null, s) >>
    BY <1>8 DEF RxOut
  <2>2. FoldLeft(Accum, Null, s) \in Items
    BY <1>1, <1>3
  <2>3. QED
    BY <2>1, <2>2
<1>9. CASE stage.op = "last"
  <2>1. RxOut(stage, s) = IF s = << >> THEN << >> ELSE << Last(s) >>
    BY <1>9 DEF RxOut
  <2>2. s # << >> => Last(s) \in Items
    BY LastAndFront
  <2>3. QED
    BY <2>1, <2>2
<1>10. CASE stage.op = "buffer"
  BY <1>10 DEF RxOut
<1>11. QED
  BY <1>1, <1>4, <1>5, <1>6, <1>7, <1>8, <1>9, <1>10 DEF Operations

LEMMA RxStopsType ==
  ASSUME NEW stage, NEW s
  PROVE  /\ RxStops(stage, s) \in BOOLEAN
         /\ stage.op \notin Stopping => RxStops(stage, s) = FALSE
<1>1. CASE stage.op = "take"
  BY <1>1 DEF RxStops, Stopping
<1>2. CASE stage.op = "takeWhile"
  BY <1>2 DEF RxStops, Stopping
<1>3. CASE stage.op = "takeUntil"
  BY <1>3 DEF RxStops, Stopping
<1>4. CASE stage.op = "first"
  BY <1>4 DEF RxStops, Stopping
<1>5. CASE stage.op \notin Stopping
  BY <1>5 DEF RxStops, Stopping
<1>6. QED
  BY <1>1, <1>2, <1>3, <1>4, <1>5 DEF Stopping

LEMMA ReferringType ==
  ASSUME AccumReturns
  PROVE  Referring \in [Readings \X Readers -> Readings]
<1>1. ASSUME NEW r \in Readings, NEW stage \in Readers
      PROVE  [out |-> RxOut(stage, r.out),
              stops |-> r.stops \/ RxStops(stage, r.out)] \in Readings
  <2>1. r.out \in Seq(Items) /\ r.stops \in BOOLEAN
    BY DEF Readings
  <2>2. RxOut(stage, r.out) \in Seq(Items) /\ RxStops(stage, r.out) \in BOOLEAN
    BY <2>1, RxOutType, RxStopsType
  <2>3. QED
    BY <2>1, <2>2 DEF Readings
<1>2. QED
  BY <1>1 DEF Referring

LEMMA RxIsFold ==
  ASSUME AccumReturns, NEW c \in Seq(Readers), NEW s \in Seq(Items)
  PROVE  Rx(c, s) = FoldOf(Readings, Referring, Unread(s), c)
<1> DEFINE V == Readings
           W == Readers
           f == Referring
           base == Unread(s)
           seq == c
           next(r, stage) == [out |-> RxOut(stage, r.out),
                              stops |-> r.stops \/ RxStops(stage, r.out)]
           Is(w) == w = [t \in SUBSET (DOMAIN seq) |->
                           IF t = {} THEN base
                           ELSE next(w[t \ {Max(t)}], seq[Max(t)])]
           it == CHOOSE w : Is(w)
<1>1. Rx(c, s) = it[DOMAIN seq]
  BY DEF Rx, FoldLeft, MapThenFoldSet, Unread
<1>2. Folding(V, W, f, base, seq)
  BY ReferringType DEF Folding, Readings, Unread
<1>3. \A a \in V, x \in W : f[<< a, x >>] = next(a, x)
  BY DEF Referring
<1> HIDE DEF V, W, f, base, seq, next
<1>4. DOMAIN seq = 1..Len(seq) /\ Len(seq) \in Nat
  BY <1>2 DEF Folding
<1>5. Is(it)
  <2>1. PICK w : Taken(w, V, W, f, base, seq)
    BY <1>2, TakenExists
  <2>2. Is(w)
    BY <1>3, <2>1 DEF Taken
  <2>3. QED
    BY <2>2
<1> HIDE DEF it
<1>6. it[{}] = base
  BY <1>5
<1>7. ASSUME NEW k \in 1..Len(seq), it[1..(k - 1)] \in V
      PROVE  it[1..k] = f[<< it[1..(k - 1)], seq[k] >>]
  <2>1. it[1..k] = next(it[1..(k - 1)], seq[k])
    <3>1. k \in Nat \ {0} /\ 1..k \in SUBSET (DOMAIN seq)
      BY <1>4
    <3>2. Max(1..k) = k /\ (1..k) \ {k} = 1..(k - 1) /\ 1..k # {}
      BY <3>1, GreatestOfInterval
    <3>3. QED
      BY <3>1, <3>2, <1>5
  <2>2. seq[k] \in W
    BY <1>2 DEF Folding
  <2>3. QED
    BY <2>1, <2>2, <1>3, <1>7
<1>8. it[DOMAIN seq] = FoldOf(V, f, base, seq)
  <2>1. TakesUp(it, V, f, base, seq)
    BY <1>6, <1>7 DEF TakesUp
  <2>2. QED
    BY <1>2, <2>1, IterationIsFold
<1>9. QED
  BY <1>1, <1>8 DEF V, f, base, seq

(* The empty chain hands on what it is given; one stage more, and its      *)
(* reference is what comes out, and it may end the stream.                 *)
LEMMA RxOneMore ==
  ASSUME AccumReturns, NEW c \in Seq(Readers), NEW s \in Seq(Items)
  PROVE  /\ Rx(c, s) \in Readings
         /\ \A stage \in Readers :
              /\ Rx(Append(c, stage), s).out = RxOut(stage, Rx(c, s).out)
              /\ Rx(Append(c, stage), s).stops
                   = (Rx(c, s).stops \/ RxStops(stage, Rx(c, s).out))
<1>1. Folding(Readings, Readers, Referring, Unread(s), c)
  BY ReferringType DEF Folding, Readings, Unread
<1>2. Rx(c, s) = FoldOf(Readings, Referring, Unread(s), c)
  BY RxIsFold
<1>3. Rx(c, s) \in Readings
  BY <1>1, <1>2, FoldOfType
<1>4. ASSUME NEW stage \in Readers
      PROVE  /\ Rx(Append(c, stage), s).out = RxOut(stage, Rx(c, s).out)
             /\ Rx(Append(c, stage), s).stops
                  = (Rx(c, s).stops \/ RxStops(stage, Rx(c, s).out))
  <2>1. Rx(Append(c, stage), s) = Referring[<< Rx(c, s), stage >>]
    <3>1. PICK d \in Seq(Readers) : d = Append(c, stage)
      <4>1. Append(c, stage) \in Seq(Readers)
        OBVIOUS
      <4>2. QED
        BY <4>1
    <3>2. Rx(d, s) = FoldOf(Readings, Referring, Unread(s), d)
      BY RxIsFold
    <3>3. QED
      BY <1>1, <1>2, <3>1, <3>2, FoldOfAppend
  <2>2. PICK r : r = Rx(c, s) /\ r \in Readings
    BY <1>3
  <2>3. QED
    BY <2>1, <2>2 DEF Referring
<1>5. QED
  BY <1>3, <1>4

LEMMA RxNone ==
  ASSUME AccumReturns, NEW s \in Seq(Items)
  PROVE  Rx(<< >>, s).out = s /\ Rx(<< >>, s).stops = FALSE
<1>1. PICK c \in Seq(Readers) : c = << >>
  <2>1. << >> \in Seq(Readers)
    OBVIOUS
  <2>2. QED
    BY <2>1
<1>2. Folding(Readings, Readers, Referring, Unread(s), c)
  BY ReferringType DEF Folding, Readings, Unread
<1>3. Rx(c, s) = Unread(s)
  BY <1>1, <1>2, RxIsFold, FoldOfEmpty
<1>4. QED
  BY <1>1, <1>3 DEF Unread

(* What the first k stages of a chain mean for d.                          *)
Passed(c, k, d) == Rx(SubSeq(c, 1, k), d).out
(* Which of them have ended the stream.                                    *)
StopsAt(c, k, d) == RxStops(c[k], Passed(c, k - 1, d))

LEMMA PassedOn ==
  ASSUME AccumReturns, NEW c \in Seq(Readers), NEW d \in Seq(Items)
  PROVE  /\ Passed(c, 0, d) = d
         /\ \A k \in 0..Len(c) : Passed(c, k, d) \in Seq(Items)
         /\ \A k \in 1..Len(c) :
              Passed(c, k, d) = RxOut(c[k], Passed(c, k - 1, d))
         /\ Rx(c, d).out = Passed(c, Len(c), d)
         /\ Rx(c, d).stops <=> \E k \in 1..Len(c) : StopsAt(c, k, d)
<1> DEFINE n == Len(c)
           so(k) == SubSeq(c, 1, k)
           stops(k) == Rx(so(k), d).stops
<1>1. /\ n \in Nat /\ so(0) = << >> /\ so(n) = c
      /\ \A k \in 0..n : so(k) \in Seq(Readers)
      /\ \A k \in 1..n : so(k) = Append(so(k - 1), c[k]) /\ c[k] \in Readers
  <2>1. \A k \in 0..n : so(k) \in Seq(Readers)
    OBVIOUS
  <2>2. ASSUME NEW k \in 1..n
        PROVE  so(k) = Append(so(k - 1), c[k]) /\ c[k] \in Readers
    OBVIOUS
  <2>3. QED
    BY <2>1, <2>2, SubSeqEmpty, SubSeqFull
<1>2. \A k \in 0..n : Passed(c, k, d) = Rx(so(k), d).out
  BY DEF Passed
<1> HIDE DEF so
<1>3. \A k \in 0..n : Rx(so(k), d) \in Readings
  BY <1>1, RxOneMore
<1>4. \A k \in 0..n : Passed(c, k, d) \in Seq(Items) /\ stops(k) \in BOOLEAN
  BY <1>2, <1>3 DEF Readings
<1>5. ASSUME NEW k \in 1..n
      PROVE  /\ Passed(c, k, d) = RxOut(c[k], Passed(c, k - 1, d))
             /\ stops(k) = (stops(k - 1) \/ StopsAt(c, k, d))
  <2>1. PICK t \in Seq(Readers), stage \in Readers :
          t = so(k - 1) /\ stage = c[k] /\ so(k) = Append(t, stage)
    <3>1. k - 1 \in 0..n
      BY <1>1
    <3>2. QED
      BY <1>1, <3>1
  <2>2. /\ Rx(Append(t, stage), d).out = RxOut(stage, Rx(t, d).out)
        /\ Rx(Append(t, stage), d).stops
             = (Rx(t, d).stops \/ RxStops(stage, Rx(t, d).out))
    BY RxOneMore
  <2>3. k - 1 \in 0..n /\ k \in 0..n
    BY <1>1
  <2>4. QED
    BY <1>2, <2>1, <2>2, <2>3 DEF StopsAt
<1>6. Passed(c, 0, d) = d /\ stops(0) = FALSE
  <2>1. 0 \in 0..n
    BY <1>1
  <2>2. QED
    BY <1>1, <1>2, <2>1, RxNone
<1> HIDE DEF n, stops
<1> DEFINE P == {k \in Nat : k <= n => (stops(k) <=> \E j \in 1..k : StopsAt(c, j, d))}
<1>7. 0 \in P
  BY <1>6
<1>8. ASSUME NEW k \in Nat, k \in P
      PROVE  k + 1 \in P
  <2>1. SUFFICES ASSUME k + 1 <= n
                 PROVE  stops(k + 1) <=> \E j \in 1..(k + 1) : StopsAt(c, j, d)
    OBVIOUS
  <2>2. k + 1 \in 1..n /\ (k + 1) - 1 = k /\ k <= n /\ k \in 0..n
    BY <1>1, <2>1
  <2>3. stops(k) <=> \E j \in 1..k : StopsAt(c, j, d)
    BY <1>8, <2>2
  <2>4. stops(k + 1) = (stops(k) \/ StopsAt(c, k + 1, d))
    BY <1>5, <2>2
  <2>5. \A j : j \in 1..(k + 1) <=> j \in 1..k \/ j = k + 1
    OBVIOUS
  <2>6. stops(k + 1) <=> stops(k) \/ StopsAt(c, k + 1, d)
    BY <2>4
  <2>7. QED
    BY <2>3, <2>5, <2>6
<1>9. \A k \in Nat : k \in P
  <2> HIDE DEF P
  <2> QED BY <1>7, <1>8, SetInduction
<1>10. stops(n) <=> \E j \in 1..n : StopsAt(c, j, d)
  BY <1>1, <1>9
<1>11. Rx(c, d).out = Passed(c, n, d) /\ Rx(c, d).stops = stops(n)
  BY <1>1, <1>2 DEF stops
<1>12. QED
  BY <1>4, <1>5, <1>6, <1>10, <1>11 DEF n

-----------------------------------------------------------------------------
(* A token in what comes later cuts it off there.                          *)
LEMMA DoneBehind ==
  ASSUME NEW s \in Seq(Items), NEW b \in Seq(Items), UpToDone(s) = s
  PROVE  /\ UpToDone(s \o b) = s \o UpToDone(b)
         /\ UpToDone(s \o b) = s \o b <=> UpToDone(b) = b
<1>1. PICK l \in Nat, k \in Nat : l = Len(s) /\ k = Len(b)
  OBVIOUS
<1>2. \A i \in 1..l : s[i] # Done
  BY <1>1, UpToDoneType
<1>3. PICK m \in 0..k :
         /\ UpToDone(b) = SubSeq(b, 1, m)
         /\ \A i \in 1..m : b[i] # Done
         /\ m < k => b[m + 1] = Done
         /\ m = k => UpToDone(b) = b
  BY <1>1, UpToDoneIs
<1>4. PICK e \in Seq(Items) :
         /\ e = s \o b /\ Len(e) = l + k
         /\ \A i \in 1..l : e[i] = s[i]
         /\ \A i \in 1..k : e[l + i] = b[i]
  <2>1. /\ s \o b \in Seq(Items) /\ Len(s \o b) = l + k
        /\ \A i \in 1..l : (s \o b)[i] = s[i]
        /\ \A i \in 1..k : (s \o b)[l + i] = b[i]
    BY <1>1
  <2>2. QED
    BY <2>1
<1>5. PICK n \in 0..(l + k) :
         /\ UpToDone(e) = SubSeq(e, 1, n)
         /\ \A i \in 1..n : e[i] # Done
         /\ n < l + k => e[n + 1] = Done
         /\ n = l + k => UpToDone(e) = e
  <2>1. PICK n \in 0..Len(e) :
         /\ UpToDone(e) = SubSeq(e, 1, n)
         /\ \A i \in 1..n : e[i] # Done
         /\ n < Len(e) => e[n + 1] = Done
         /\ n = Len(e) => UpToDone(e) = e
    BY UpToDoneIs
  <2>2. QED
    BY <1>4, <2>1
<1>6. n = l + m
  <2>1. CASE n < l + m
    <3>1. e[n + 1] = Done
      BY <1>3, <1>5, <2>1
    <3>2. CASE n + 1 <= l
      <4>1. n + 1 \in 1..l
        BY <3>2
      <4>2. QED
        BY <1>2, <1>4, <3>1, <4>1
    <3>3. CASE n + 1 > l
      <4>1. PICK i \in 1..m : n + 1 = l + i
        <5>1. (n + 1) - l \in 1..m /\ n + 1 = l + ((n + 1) - l)
          BY <1>3, <1>5, <2>1, <3>3
        <5>2. QED
          BY <5>1
      <4>2. i \in 1..k
        BY <1>3
      <4>3. QED
        BY <1>3, <1>4, <3>1, <4>1, <4>2
    <3>4. QED
      BY <3>2, <3>3
  <2>2. CASE n > l + m
    <3>1. m + 1 \in 1..k /\ l + (m + 1) \in 1..n /\ m < k
      BY <1>3, <1>5, <2>2
    <3>2. QED
      BY <1>3, <1>4, <1>5, <3>1
  <2>3. QED
    BY <1>3, <1>5, <2>1, <2>2
<1>7. PICK t \in Seq(Items) :
         /\ t = UpToDone(b) /\ Len(t) = m /\ \A i \in 1..m : t[i] = b[i]
  <2>1. /\ SubSeq(b, 1, m) \in Seq(Items) /\ Len(SubSeq(b, 1, m)) = m
        /\ \A i \in 1..m : SubSeq(b, 1, m)[i] = b[i]
    BY <1>1, <1>3
  <2>2. QED
    BY <1>3, <2>1
<1>8. PICK u \in Seq(Items) :
         /\ u = UpToDone(e) /\ Len(u) = n /\ \A i \in 1..n : u[i] = e[i]
  <2>1. /\ SubSeq(e, 1, n) \in Seq(Items) /\ Len(SubSeq(e, 1, n)) = n
        /\ \A i \in 1..n : SubSeq(e, 1, n)[i] = e[i]
    BY <1>4, <1>5
  <2>2. QED
    BY <1>5, <2>1
<1>9. PICK w \in Seq(Items) :
         /\ w = s \o t /\ Len(w) = l + m
         /\ \A i \in 1..l : w[i] = s[i]
         /\ \A i \in 1..m : w[l + i] = t[i]
  <2>1. /\ s \o t \in Seq(Items) /\ Len(s \o t) = l + m
        /\ \A i \in 1..l : (s \o t)[i] = s[i]
        /\ \A i \in 1..m : (s \o t)[l + i] = t[i]
    BY <1>1, <1>7
  <2>2. QED
    BY <2>1
<1>10. u = w
  <2>1. ASSUME NEW i \in 1..n
        PROVE  u[i] = w[i]
    <3>1. CASE i <= l
      BY <1>1, <1>4, <1>8, <1>9, <3>1
    <3>2. CASE i > l
      <4>1. PICK j \in 1..m : i = l + j
        <5>1. i - l \in 1..m /\ i = l + (i - l)
          BY <1>3, <1>6, <3>2
        <5>2. QED
          BY <5>1
      <4>2. j \in 1..k
        BY <1>3
      <4>3. QED
        <5>1. u[l + j] = e[l + j]
          BY <1>8, <4>1
        <5>2. e[l + j] = b[j] /\ w[l + j] = b[j]
          BY <1>4, <1>7, <1>9, <4>2
        <5>3. QED
          BY <4>1, <5>1, <5>2
    <3>3. QED
      BY <1>1, <3>1, <3>2
  <2>2. Len(u) = Len(w) /\ \A i \in 1..Len(u) : u[i] = w[i]
    BY <1>6, <1>8, <1>9, <2>1
  <2>3. QED
    BY <2>2, SeqEqual
<1>11. UpToDone(e) = e <=> UpToDone(b) = b
  <2>1. ASSUME UpToDone(b) = b
        PROVE  UpToDone(e) = e
    <3>1. m = k
      BY <1>1, <1>7, <2>1
    <3>2. QED
      BY <1>5, <1>6, <3>1
  <2>2. ASSUME UpToDone(e) = e
        PROVE  UpToDone(b) = b
    <3>1. n = l + k
      BY <1>4, <1>8, <2>2
    <3>2. m = k
      BY <1>1, <1>3, <1>6, <3>1
    <3>3. QED
      BY <1>3, <3>2
  <2>3. QED
    BY <2>1, <2>2
<1>12. QED
  BY <1>4, <1>7, <1>8, <1>9, <1>10, <1>11

(* Where Drain sees the token, and where it does not.                      *)
LEMMA DoneSeen ==
  ASSUME NEW items \in Seq(Items)
  PROVE  FirstIndex(items, LAMBDA v : v = Done) # 0 <=> UpToDone(items) # items
<1> DEFINE m == FirstOf({i \in 1..Len(items) : items[i] = Done})
<1>1. /\ FirstIndex(items, LAMBDA v : v = Done) = m
      /\ UpToDone(items) = IF m = 0 THEN items ELSE SubSeq(items, 1, m - 1)
  BY DEF UpToDone, FirstIndex, SelectInSeq, FirstOf
<1>2. Len(items) \in Nat /\ m \in 0..Len(items)
  <2>1. Len(items) \in Nat
    OBVIOUS
  <2>2. QED
    BY <2>1, FirstPosition
<1> HIDE DEF m
<1>3. CASE m # 0
  <2>1. Len(SubSeq(items, 1, m - 1)) = m - 1 /\ m - 1 # Len(items)
    BY <1>2, <1>3
  <2>2. QED
    BY <1>1, <1>3, <2>1
<1>4. QED
  BY <1>1, <1>3

(* The first items of a batch.                                             *)
LEMMA FirstItems ==
  ASSUME NEW s \in Seq(Items), NEW m \in 0..Len(s)
  PROVE  /\ SubSeq(s, 1, m) \in Seq(Items) /\ Len(SubSeq(s, 1, m)) = m
         /\ \A i \in 1..m : SubSeq(s, 1, m)[i] = s[i]
<1>1. \A i \in 1..m : s[i] \in Items
  OBVIOUS
<1>2. m \in Nat
  OBVIOUS
<1>3. /\ SubSeq(s, 1, m) \in Seq(Items)
      /\ Len(SubSeq(s, 1, m)) = IF 1 <= m THEN m - 1 + 1 ELSE 0
      /\ \A i \in 1..(m - 1 + 1) : SubSeq(s, 1, m)[i] = s[1 + i - 1]
  BY <1>1, <1>2, SubSeqProperties
<1>4. m - 1 + 1 = m /\ \A i \in 1..m : 1 + i - 1 = i
  BY <1>2
<1>5. PICK b : b = SubSeq(s, 1, m)
  OBVIOUS
<1>6. b \in Seq(Items) /\ Len(b) = m /\ \A i \in 1..m : b[i] = s[i]
  BY <1>2, <1>3, <1>4, <1>5
<1>7. QED
  BY <1>5, <1>6

(* Whatever picks the first m positions picks the first m items.           *)
LEMMA AtFirsts ==
  ASSUME NEW s \in Seq(Items), NEW m \in 0..Len(s), NEW S,
         \A i \in 1..Len(s) : i \in S <=> i <= m
  PROVE  At(s, S) = SubSeq(s, 1, m)
<1> DEFINE n == Len(s)
           so(k) == SubSeq(s, 1, k)
<1>1. n \in Nat /\ m \in Nat /\ m <= n
  OBVIOUS
<1>2. PICK g : PicksUp(g, s, S)
  BY AtSteps
<1>3. /\ g[0] = << >> /\ At(s, S) = g[n]
      /\ \A k \in 1..n : g[k] = IF k \in S THEN Append(g[k - 1], s[k]) ELSE g[k - 1]
  BY <1>2 DEF PicksUp
<1>4. so(0) = << >> /\ \A k \in 1..n : so(k) = Append(so(k - 1), s[k])
  <2>1. ASSUME NEW k \in 1..n
        PROVE  so(k) = Append(so(k - 1), s[k])
    OBVIOUS
  <2>2. QED
    BY <2>1, SubSeqEmpty
<1> HIDE DEF so, n
<1> DEFINE P == {k \in Nat : k <= n => g[k] = IF k <= m THEN so(k) ELSE so(m)}
<1>5. 0 \in P
  BY <1>1, <1>3, <1>4
<1>6. ASSUME NEW k \in Nat, k \in P
      PROVE  k + 1 \in P
  <2>1. SUFFICES ASSUME k + 1 <= n
                 PROVE  g[k + 1] = IF k + 1 <= m THEN so(k + 1) ELSE so(m)
    OBVIOUS
  <2>2. /\ k + 1 \in 1..n /\ (k + 1) - 1 = k /\ k <= n
        /\ k + 1 \in S <=> k + 1 <= m
    BY <1>1, <2>1 DEF n
  <2>3. g[k] = IF k <= m THEN so(k) ELSE so(m)
    BY <1>6, <2>2
  <2>4. g[k + 1] = IF k + 1 <= m THEN Append(g[k], s[k + 1]) ELSE g[k]
    BY <1>3, <2>2
  <2>5. CASE k + 1 <= m
    BY <1>4, <2>2, <2>3, <2>4, <2>5
  <2>6. CASE ~(k + 1 <= m)
    <3>1. k <= m => k = m
      BY <1>1, <2>6
    <3>2. QED
      BY <2>3, <2>4, <2>6, <3>1
  <2>7. QED
    BY <2>5, <2>6
<1>7. \A k \in Nat : k \in P
  <2> HIDE DEF P
  <2> QED BY <1>5, <1>6, SetInduction
<1>8. g[n] = IF n <= m THEN so(n) ELSE so(m)
  BY <1>1, <1>7
<1>9. n <= m => n = m
  BY <1>1
<1>10. QED
  BY <1>3, <1>8, <1>9 DEF so

(* The first items of two batches, when they reach into the second.        *)
LEMMA FirstsOfTwo ==
  ASSUME NEW e \in Seq(Items), NEW f \in Seq(Items), NEW m \in 0..Len(f)
  PROVE  /\ Len(e \o f) = Len(e) + Len(f) /\ e \o f \in Seq(Items)
         /\ Len(e) + m \in 0..Len(e \o f)
         /\ SubSeq(e \o f, 1, Len(e) + m) = e \o SubSeq(f, 1, m)
<1> DEFINE l == Len(e)
<1>1. PICK s \in Seq(Items) :
        /\ s = e \o f /\ Len(s) = l + Len(f)
        /\ \A i \in 1..l : s[i] = e[i]
        /\ \A i \in 1..Len(f) : s[l + i] = f[i]
  <2>1. /\ e \o f \in Seq(Items) /\ Len(e \o f) = l + Len(f)
        /\ \A i \in 1..l : (e \o f)[i] = e[i]
        /\ \A i \in 1..Len(f) : (e \o f)[l + i] = f[i]
    OBVIOUS
  <2>2. QED
    BY <2>1
<1>2. l \in Nat /\ Len(f) \in Nat /\ m \in Nat /\ m <= Len(f)
  OBVIOUS
<1>3. PICK t \in Seq(Items) : /\ t = SubSeq(f, 1, m) /\ Len(t) = m
                              /\ \A i \in 1..m : t[i] = f[i]
  BY FirstItems
<1>4. PICK w \in Seq(Items) :
        /\ w = e \o t /\ Len(w) = l + m
        /\ \A i \in 1..l : w[i] = e[i]
        /\ \A i \in 1..m : w[l + i] = t[i]
  <2>1. /\ e \o t \in Seq(Items) /\ Len(e \o t) = l + m
        /\ \A i \in 1..l : (e \o t)[i] = e[i]
        /\ \A i \in 1..m : (e \o t)[l + i] = t[i]
    BY <1>3
  <2>2. QED
    BY <2>1
<1> HIDE DEF l
<1>5. l + m \in 0..Len(s) /\ l + m \in Nat
  BY <1>1, <1>2
<1>6. PICK u \in Seq(Items) : /\ u = SubSeq(s, 1, l + m) /\ Len(u) = l + m
                              /\ \A i \in 1..(l + m) : u[i] = s[i]
  BY <1>5, FirstItems
<1>7. ASSUME NEW i \in 1..(l + m)
      PROVE  u[i] = w[i]
  <2>1. CASE i <= l
    <3>1. i \in 1..l
      BY <1>2, <2>1
    <3>2. QED
      BY <1>1, <1>4, <1>6, <3>1
  <2>2. CASE i > l
    <3>1. PICK j \in 1..m : i = l + j
      <4>1. i - l \in 1..m /\ i = l + (i - l)
        BY <1>2, <2>2
      <4>2. QED
        BY <4>1
    <3>2. j \in 1..Len(f)
      BY <1>2
    <3>3. s[l + j] = f[j] /\ w[l + j] = f[j]
      BY <1>1, <1>3, <1>4, <3>2
    <3>4. QED
      BY <1>6, <3>1, <3>3
  <2>3. QED
    BY <1>2, <2>1, <2>2
<1>8. u = w
  <2>1. Len(u) = Len(w) /\ \A i \in 1..Len(u) : u[i] = w[i]
    BY <1>4, <1>6, <1>7
  <2>2. QED
    BY <2>1, SeqEqual
<1>9. QED
  BY <1>1, <1>3, <1>4, <1>5, <1>6, <1>8 DEF l

(* A token behind plain items is where they end.                           *)
LEMMA EndsThere ==
  ASSUME NEW s \in Seq(Items), UpToDone(s) = s, NEW b \in Seq(Items)
  PROVE  /\ Append(s, Done) \in Seq(Items)
         /\ UpToDone(Append(s, Done) \o b) = s
         /\ UpToDone(Append(s, Done) \o b) # Append(s, Done) \o b
         /\ UpToDone(Append(s, Done)) = s
         /\ UpToDone(Append(s, Done)) # Append(s, Done)
<1>1. Done \in Items
  BY TokenType
<1>2. PICK t \in Seq(Items) : t = << Done >> /\ Len(t) >= 1 /\ t[1] = Done
  <2>1. << Done >> \in Seq(Items) /\ Len(<< Done >>) >= 1 /\ << Done >>[1] = Done
    BY <1>1
  <2>2. QED
    BY <2>1
<1>3. PICK none : none = << >>
  OBVIOUS
<1>4. ASSUME NEW w \in Seq(Items), Len(w) >= 1, w[1] = Done
      PROVE  UpToDone(w) = none /\ UpToDone(w) # w
  <2>1. PICK n \in 0..Len(w) : /\ UpToDone(w) = SubSeq(w, 1, n)
                               /\ \A i \in 1..n : w[i] # Done
    BY UpToDoneIs
  <2>2. n = 0
    <3>1. CASE n >= 1
      <4>1. 1 \in 1..n
        BY <3>1
      <4>2. QED
        BY <1>4, <2>1, <4>1
    <3>2. QED
      BY <3>1
  <2>3. UpToDone(w) = none
    BY <1>3, <2>1, <2>2, SubSeqEmpty
  <2>4. w # none
    BY <1>4, <1>3
  <2>5. QED
    BY <2>3, <2>4
<1>5. s \o none = s
  BY <1>3, ConcatEmptySeq
<1>6. ASSUME NEW w \in Seq(Items), Len(w) >= 1, w[1] = Done
      PROVE  UpToDone(s \o w) = s /\ UpToDone(s \o w) # s \o w
  <2>1. UpToDone(w) = none /\ UpToDone(w) # w
    BY <1>4, <1>6
  <2>2. /\ UpToDone(s \o w) = s \o UpToDone(w)
        /\ UpToDone(s \o w) = s \o w <=> UpToDone(w) = w
    BY DoneBehind
  <2>3. QED
    BY <1>5, <2>1, <2>2
<1>7. PICK w \in Seq(Items) : w = t \o b /\ Len(w) >= 1 /\ w[1] = Done
  <2>1. t \o b \in Seq(Items) /\ Len(t \o b) >= 1 /\ (t \o b)[1] = Done
    BY <1>2
  <2>2. QED
    BY <2>1
<1>8. UpToDone(s \o w) = s /\ UpToDone(s \o w) # s \o w
  BY <1>7, <1>6
<1>9. UpToDone(s \o t) = s /\ UpToDone(s \o t) # s \o t
  BY <1>2, <1>6
<1>10. Append(s, Done) = s \o t
  BY <1>1, <1>2, AppendIsConcat
<1>11. (s \o t) \o b = s \o w
  BY <1>7, ConcatAssociative
<1>12. s \o t \in Seq(Items)
  OBVIOUS
<1>13. QED
  BY <1>8, <1>9, <1>10, <1>11, <1>12

LEMMA BatchesAssociate ==
  ASSUME NEW a \in Seq(Items), NEW b \in Seq(Items), NEW c \in Seq(Items)
  PROVE  (a \o b) \o c = a \o (b \o c) /\ a \o b \in Seq(Items)
BY ConcatAssociative

(* What takeUntil and first hand on: every item, and behind those at the   *)
(* positions M a token each.                                               *)
Pieces(f, M) ==
  [i \in 1..Len(f) |-> IF i \in M THEN << f[i], Done >> ELSE << f[i] >>]

LEMMA TokenAfterIs ==
  ASSUME NEW f \in Seq(Plain), NEW M \in SUBSET (1..Len(f))
  PROVE  /\ FlattenSeq(Pieces(f, M)) \in Seq(Items)
         /\ M = {} => FlattenSeq(Pieces(f, M)) = f
         /\ M # {} =>
              /\ UpToDone(FlattenSeq(Pieces(f, M))) = SubSeq(f, 1, FirstOf(M))
              /\ UpToDone(FlattenSeq(Pieces(f, M))) # FlattenSeq(Pieces(f, M))
<1> DEFINE n == Len(f)
           m == FirstOf(M)
           p == Pieces(f, M)
           so(k) == FlattenSeq(SubSeq(p, 1, k))
           first(k) == SubSeq(f, 1, k)
<1>1. n \in Nat /\ f \in Seq(Items) /\ \A i \in 1..n : f[i] \in Items
  BY PlainIsWhole
<1>2. /\ m \in 0..n /\ (m = 0 <=> M = {})
      /\ m # 0 => m \in M /\ \A k \in M : m <= k
  BY <1>1, FirstPosition
<1>3. /\ \A i \in 1..n : p[i] = IF i \in M THEN << f[i], Done >> ELSE << f[i] >>
      /\ p \in Seq(Seq(Items)) /\ Len(p) = n
  <2>1. \A i \in 1..n : << f[i], Done >> \in Seq(Items) /\ << f[i] >> \in Seq(Items)
    BY <1>1, TokenType
  <2>2. p \in [1..n -> Seq(Items)]
    BY <2>1 DEF Pieces
  <2>3. p \in Seq(Seq(Items)) /\ Len(p) = n
    BY <1>1, <2>2
  <2>4. QED
    BY <2>3 DEF Pieces
<1> HIDE DEF p, m, n
<1>4. \A k \in 0..n : so(k) \in Seq(Items)
  <2>1. ASSUME NEW k \in 0..n
        PROVE  SubSeq(p, 1, k) \in Seq(Seq(Items))
    BY <1>1, <1>3
  <2>2. QED
    BY <2>1, FlattenType
<1>5. so(0) = << >> /\ so(n) = FlattenSeq(p)
  <2>1. SubSeq(p, 1, 0) = << >> /\ SubSeq(p, 1, n) = p
    BY <1>3, SubSeqEmpty, SubSeqFull
  <2>2. FlattenSeq(<< >>) = << >>
    BY DEF FlattenSeq
  <2>3. QED
    BY <2>1, <2>2
<1>6. ASSUME NEW k \in 1..n
      PROVE  so(k) = so(k - 1) \o p[k]
  <2>1. PICK b \in Seq(Seq(Items)), x \in Seq(Items) :
          b = SubSeq(p, 1, k - 1) /\ x = p[k] /\ SubSeq(p, 1, k) = Append(b, x)
    <3>1. /\ SubSeq(p, 1, k - 1) \in Seq(Seq(Items)) /\ p[k] \in Seq(Items)
          /\ SubSeq(p, 1, k) = Append(SubSeq(p, 1, k - 1), p[k])
      BY <1>1, <1>3
    <3>2. QED
      BY <3>1
  <2>2. FlattenSeq(Append(b, x)) = FlattenSeq(b) \o x
    BY FlattenAppend
  <2>3. QED
    BY <2>1, <2>2
<1>7. /\ first(0) = << >> /\ first(n) = f
      /\ \A k \in 1..n : first(k) = Append(first(k - 1), f[k])
      /\ \A k \in 0..n : first(k) \in Seq(Items) /\ UpToDone(first(k)) = first(k)
  <2>1. ASSUME NEW k \in 1..n
        PROVE  first(k) = Append(first(k - 1), f[k])
    BY <1>1 DEF n
  <2>2. ASSUME NEW k \in 0..n
        PROVE  first(k) \in Seq(Plain)
    BY <1>1 DEF n
  <2>3. first(0) = << >> /\ first(n) = f
    BY <1>1, SubSeqEmpty, SubSeqFull DEF n
  <2>4. QED
    BY <2>1, <2>2, <2>3, PlainIsWhole
<1> HIDE DEF so, first
<1> DEFINE Cut(k) == \E w \in Seq(Items) : so(k) = Append(first(m), Done) \o w
           P == {k \in Nat : k <= n => IF m = 0 \/ k < m THEN so(k) = first(k)
                                       ELSE Cut(k)}
<1>8. 0 \in P
  BY <1>2, <1>5, <1>7
<1>9. ASSUME NEW k \in Nat, k \in P
      PROVE  k + 1 \in P
  <2>1. SUFFICES ASSUME k + 1 <= n
                 PROVE  IF m = 0 \/ k + 1 < m THEN so(k + 1) = first(k + 1)
                        ELSE Cut(k + 1)
    <3> HIDE DEF Cut
    <3> QED OBVIOUS
  <2>2. /\ k + 1 \in 1..n /\ (k + 1) - 1 = k /\ k <= n /\ k \in 0..n
        /\ f[k + 1] \in Items
    BY <1>1, <2>1
  <2>3. IF m = 0 \/ k < m THEN so(k) = first(k) ELSE Cut(k)
    <3> HIDE DEF Cut
    <3> QED BY <1>9, <2>2
  <2>4. /\ so(k + 1) = so(k) \o p[k + 1]
        /\ first(k + 1) = Append(first(k), f[k + 1])
        /\ so(k) \in Seq(Items) /\ first(k) \in Seq(Items)
    BY <1>4, <1>6, <1>7, <2>2
  <2>5. PICK x \in Items, b \in Seq(Items), c \in Seq(Items) :
          x = f[k + 1] /\ b = so(k) /\ c = first(k)
    BY <2>2, <2>4
  <2>6. CASE m = 0 \/ k + 1 < m
    <3>1. k + 1 \notin M /\ (m = 0 \/ k < m)
      BY <1>2, <2>2, <2>6
    <3>2. p[k + 1] = << x >>
      BY <1>3, <2>2, <2>5, <3>1
    <3>3. Append(b, x) = b \o << x >>
      BY AppendIsConcat
    <3>4. QED
      BY <2>3, <2>4, <2>5, <2>6, <3>1, <3>2, <3>3
  <2>7. CASE m = k + 1
    <3>1. k + 1 \in M /\ m # 0 /\ k < m
      BY <1>2, <2>2, <2>7
    <3>2. so(k) = first(k)
      BY <2>3, <3>1
    <3>3. p[k + 1] = << x, Done >>
      BY <1>3, <2>2, <2>5, <3>1
    <3>4. c \o << x, Done >> = Append(Append(c, x), Done)
      BY TokenType
    <3>5. PICK d \in Seq(Items) : d = Append(Append(c, x), Done)
      <4>1. Append(Append(c, x), Done) \in Seq(Items)
        BY TokenType
      <4>2. QED
        BY <4>1
    <3>6. d \o << >> = d /\ << >> \in Seq(Items)
      BY ConcatEmptySeq, EmptySeq
    <3>7. so(k + 1) = d
      BY <2>4, <2>5, <3>2, <3>3, <3>4, <3>5
    <3>8. Append(first(m), Done) = d
      BY <2>4, <2>5, <2>7, <3>5
    <3>9. so(k + 1) = Append(first(m), Done) \o << >>
      BY <3>6, <3>7, <3>8
    <3>10. Cut(k + 1)
      BY <3>6, <3>9
    <3>11. QED
      <4> HIDE DEF Cut
      <4> QED BY <2>7, <3>1, <3>10
  <2>8. CASE m # 0 /\ m < k + 1
    <3>1. ~(k < m) /\ m \in 0..n
      BY <1>2, <2>2, <2>8
    <3>2. PICK w \in Seq(Items) : so(k) = Append(first(m), Done) \o w
      BY <2>3, <2>8, <3>1
    <3>3. PICK d \in Seq(Items), x1 \in Seq(Items) :
            d = Append(first(m), Done) /\ x1 = p[k + 1]
      <4>1. first(m) \in Seq(Items) /\ p[k + 1] \in Seq(Items)
        BY <1>3, <1>7, <2>2, <3>1
      <4>2. Append(first(m), Done) \in Seq(Items)
        BY <4>1, TokenType
      <4>3. QED
        BY <4>1, <4>2
    <3>4. (d \o w) \o x1 = d \o (w \o x1)
      BY BatchesAssociate, SMTT(20)
    <3>5. w \o x1 \in Seq(Items)
      BY BatchesAssociate
    <3>6. so(k + 1) = Append(first(m), Done) \o (w \o x1)
      BY <2>4, <3>2, <3>3, <3>4
    <3>7. Cut(k + 1)
      BY <3>5, <3>6
    <3>8. QED
      <4> HIDE DEF Cut
      <4> QED BY <1>2, <2>8, <3>1, <3>7
  <2>9. QED
    <3> HIDE DEF Cut
    <3> QED BY <1>2, <2>2, <2>6, <2>7, <2>8
<1>10. \A k \in Nat : k \in P
  <2> HIDE DEF P
  <2> QED BY <1>8, <1>9, SetInduction
<1>11. IF m = 0 THEN so(n) = f ELSE Cut(n)
  <2>1. ~(n < m)
    BY <1>1, <1>2
  <2>2. IF m = 0 \/ n < m THEN so(n) = first(n) ELSE Cut(n)
    <3> HIDE DEF Cut
    <3> QED BY <1>1, <1>10
  <2>3. QED
    <3> HIDE DEF Cut
    <3> QED BY <1>7, <2>1, <2>2
<1>12. ASSUME m # 0
       PROVE  UpToDone(so(n)) = first(m) /\ UpToDone(so(n)) # so(n)
  <2>1. PICK w \in Seq(Items) : so(n) = Append(first(m), Done) \o w
    BY <1>11, <1>12
  <2>2. first(m) \in Seq(Items) /\ UpToDone(first(m)) = first(m)
    BY <1>2, <1>7
  <2>3. QED
    BY <2>1, <2>2, EndsThere
<1>13. /\ so(n) \in Seq(Items)
       /\ M = {} => so(n) = f
       /\ M # {} => UpToDone(so(n)) = first(m) /\ UpToDone(so(n)) # so(n)
  <2>1. n \in 0..n
    BY <1>1
  <2>2. QED
    <3> HIDE DEF Cut
    <3> QED BY <1>2, <1>4, <1>11, <1>12, <2>1
<1>14. QED
  BY <1>5, <1>13 DEF first, m, p

-----------------------------------------------------------------------------
(* The operators that end a stream.  take is given a count it can reach.   *)
Ender(stage) ==
  /\ stage \in Stages /\ stage.op \in Stopping
  /\ stage.op = "take" => stage.arg > 0
(* Whether v ends the stream as the i-th item.                             *)
EndsAt(stage, i, v) ==
  CASE stage.op = "take" -> i = stage.arg
    [] stage.op = "takeWhile" -> ~Pred(stage.arg, v)
    [] stage.op = "takeUntil" -> v = stage.arg
    [] stage.op = "first" -> TRUE
(* Where the items of f, behind l others, end it, and how many of them the *)
(* operator lets through.                                                  *)
Ends(stage, l, f) == {i \in 1..Len(f) : EndsAt(stage, l + i, f[i])}
Until(stage, l, f) ==
  LET m == FirstOf(Ends(stage, l, f))
  IN  IF m = 0 THEN Len(f) ELSE IF stage.op = "takeWhile" THEN m - 1 ELSE m

LEMMA UntilIs ==
  ASSUME NEW stage, NEW l \in Nat, NEW f \in Seq(Items)
  PROVE  LET S == Ends(stage, l, f)
             m == FirstOf(S)
         IN  /\ Len(f) \in Nat /\ m \in 0..Len(f) /\ (m = 0 <=> S = {})
             /\ m # 0 => m \in S /\ \A k \in S : m <= k
             /\ Until(stage, l, f) \in 0..Len(f)
             /\ S = {} => Until(stage, l, f) = Len(f)
<1> DEFINE S == Ends(stage, l, f)
           m == FirstOf(S)
           n == Len(f)
<1>1. n \in Nat /\ S \in SUBSET (1..n)
  BY DEF Ends
<1>2. Until(stage, l, f)
        = IF m = 0 THEN n ELSE IF stage.op = "takeWhile" THEN m - 1 ELSE m
  BY DEF Until
<1> HIDE DEF n, S
<1>3. /\ m \in 0..n /\ (m = 0 <=> S = {})
      /\ m # 0 => m \in S /\ \A k \in S : m <= k
  BY <1>1, FirstPosition
<1> HIDE DEF m
<1>4. /\ Until(stage, l, f) \in 0..n
      /\ S = {} => Until(stage, l, f) = n
  BY <1>1, <1>2, <1>3
<1>5. QED
  BY <1>1, <1>3, <1>4 DEF n, S, m

(* Their reference is the items before the end.                            *)
LEMMA StopMeans ==
  ASSUME NEW stage, Ender(stage), NEW s \in Seq(Items)
  PROVE  /\ RxStops(stage, s) <=> Ends(stage, 0, s) # {}
         /\ RxOut(stage, s) = SubSeq(s, 1, Until(stage, 0, s))
<1> DEFINE S == Ends(stage, 0, s)
           m == FirstOf(S)
           u == Until(stage, 0, s)
           n == Len(s)
           a == stage.arg
<1>1. /\ n \in Nat /\ m \in 0..n /\ (m = 0 <=> S = {})
      /\ m # 0 => m \in S /\ \A k \in S : m <= k
      /\ u \in 0..n
  BY UntilIs
<1>2. /\ DOMAIN s = 1..n /\ a \in Int /\ stage.op \in Stopping
      /\ S = {i \in 1..n : EndsAt(stage, 0 + i, s[i])}
  BY DEF Ends, Ender, Stages, Items
<1>3. \A i \in 1..n : 0 + i = i
  OBVIOUS
<1>4. u = IF m = 0 THEN n ELSE IF stage.op = "takeWhile" THEN m - 1 ELSE m
  BY DEF Until
<1> HIDE DEF S, m, u, n
<1>5. CASE stage.op = "take"
  <2>1. S = {i \in 1..n : i = a} /\ a > 0
    BY <1>2, <1>3, <1>5 DEF EndsAt, Ender
  <2>2. S # {} <=> n >= a
    BY <1>1, <1>2, <2>1
  <2>3. \A i \in 1..n : i \in {j \in DOMAIN s : j <= a} <=> i <= u
    <3>1. CASE m = 0
      BY <1>1, <1>2, <1>4, <2>2, <3>1
    <3>2. CASE m # 0
      <4>1. u = a
        BY <1>1, <1>4, <1>5, <2>1, <3>2
      <4>2. QED
        BY <1>2, <4>1
    <3>3. QED
      BY <3>1, <3>2
  <2>4. RxOut(stage, s) = At(s, {j \in DOMAIN s : j <= a})
    BY <1>5 DEF RxOut
  <2>5. At(s, {j \in DOMAIN s : j <= a}) = SubSeq(s, 1, u)
    BY <1>1, <2>3, AtFirsts DEF n
  <2>6. RxStops(stage, s) <=> n >= a
    BY <1>5 DEF RxStops, n
  <2>7. QED
    BY <2>2, <2>4, <2>5, <2>6 DEF S, u
<1>6. CASE stage.op = "takeWhile"
  <2> DEFINE B == {i \in DOMAIN s : \A j \in 1..i : Pred(a, s[j])}
  <2>1. S = {i \in 1..n : ~Pred(a, s[i])}
    BY <1>2, <1>3, <1>6 DEF EndsAt
  <2>2. \A i \in 1..n : i \in B <=> i <= u
    <3>1. ASSUME NEW i \in 1..n
          PROVE  i \in B <=> i <= u
      <4>1. CASE m = 0
        BY <1>1, <1>2, <1>4, <2>1, <4>1
      <4>2. CASE m # 0
        <5>1. u = m - 1 /\ m \in 1..n /\ ~Pred(a, s[m])
          BY <1>1, <1>4, <1>6, <2>1, <4>2
        <5>2. ASSUME i <= u, NEW j \in 1..i
              PROVE  Pred(a, s[j])
          <6>1. j \in 1..n /\ ~(m <= j)
            BY <1>1, <5>1, <5>2
          <6>2. QED
            BY <1>1, <2>1, <4>2, <6>1
        <5>3. ASSUME i > u
              PROVE  m \in 1..i
          BY <5>1, <5>3
        <5>4. i <= u \/ i > u
          BY <1>1, <5>1
        <5>5. QED
          BY <1>1, <1>2, <5>1, <5>2, <5>3, <5>4
      <4>3. QED
        BY <4>1, <4>2
    <3>2. QED
      BY <3>1
  <2>3. RxOut(stage, s) = At(s, B)
    BY <1>6 DEF RxOut, Before
  <2> HIDE DEF B
  <2>4. At(s, B) = SubSeq(s, 1, u)
    BY <1>1, <2>2, AtFirsts DEF n
  <2>5. RxStops(stage, s) <=> \E i \in 1..n : ~Pred(a, s[i])
    BY <1>2, <1>6 DEF RxStops
  <2>6. QED
    BY <2>1, <2>3, <2>4, <2>5 DEF S, u
<1>7. CASE stage.op = "takeUntil"
  <2> DEFINE B == {i \in DOMAIN s : \A j \in 1..(i - 1) : s[j] # a}
  <2>1. S = {i \in 1..n : s[i] = a}
    BY <1>2, <1>3, <1>7 DEF EndsAt
  <2>2. \A i \in 1..n : i \in B <=> i <= u
    <3>1. ASSUME NEW i \in 1..n
          PROVE  i \in B <=> i <= u
      <4>1. CASE m = 0
        BY <1>1, <1>2, <1>4, <2>1, <4>1
      <4>2. CASE m # 0
        <5>1. u = m /\ m \in 1..n /\ s[m] = a
          BY <1>1, <1>4, <1>7, <2>1, <4>2
        <5>2. ASSUME i <= u, NEW j \in 1..(i - 1)
              PROVE  s[j] # a
          <6>1. j \in 1..n /\ ~(m <= j)
            BY <1>1, <5>1, <5>2
          <6>2. QED
            BY <1>1, <2>1, <4>2, <6>1
        <5>3. ASSUME i > u
              PROVE  m \in 1..(i - 1)
          BY <5>1, <5>3
        <5>4. i <= u \/ i > u
          BY <1>1, <5>1
        <5>5. QED
          BY <1>1, <1>2, <5>1, <5>2, <5>3, <5>4
      <4>3. QED
        BY <4>1, <4>2
    <3>2. QED
      BY <3>1
  <2>3. RxOut(stage, s) = At(s, B)
    BY <1>7 DEF RxOut
  <2> HIDE DEF B
  <2>4. At(s, B) = SubSeq(s, 1, u)
    BY <1>1, <2>2, AtFirsts DEF n
  <2>5. RxStops(stage, s) <=> \E i \in 1..n : s[i] = a
    BY <1>2, <1>7 DEF RxStops
  <2>6. QED
    BY <2>1, <2>3, <2>4, <2>5 DEF S, u
<1>8. CASE stage.op = "first"
  <2>1. S = 1..n
    BY <1>2, <1>3, <1>8 DEF EndsAt
  <2>2. \A i \in 1..n : i \in {1} <=> i <= u
    <3>1. ASSUME NEW i \in 1..n
          PROVE  u = 1
      <4>1. m # 0 /\ 1 \in S
        BY <1>1, <2>1, <3>1
      <4>2. m = 1
        BY <1>1, <2>1, <4>1
      <4>3. QED
        BY <1>4, <1>8, <4>2
    <3>2. QED
      BY <3>1
  <2>3. RxOut(stage, s) = At(s, {1})
    BY <1>8 DEF RxOut
  <2>4. At(s, {1}) = SubSeq(s, 1, u)
    BY <1>1, <2>2, AtFirsts DEF n
  <2>5. RxStops(stage, s) <=> s # << >>
    BY <1>8 DEF RxStops
  <2>6. s # << >> <=> 1..n # {}
    <3>1. s # << >> <=> n # 0
      BY DEF n
    <3>2. n = 0 => 1..n = {}
      OBVIOUS
    <3>3. n # 0 => 1 \in 1..n
      BY <1>1
    <3>4. QED
      BY <3>1, <3>2, <3>3
  <2>7. QED
    BY <2>1, <2>3, <2>4, <2>5, <2>6 DEF S, u
<1>9. QED
  BY <1>2, <1>5, <1>6, <1>7, <1>8 DEF Stopping

(* Behind items that do not end the stream, the end is where the new ones  *)
(* have it.                                                                *)
LEMMA StopsLater ==
  ASSUME NEW stage, Ender(stage), NEW e \in Seq(Items), NEW f \in Seq(Items),
         Ends(stage, 0, e) = {}
  PROVE  /\ Ends(stage, 0, e \o f) = {} <=> Ends(stage, Len(e), f) = {}
         /\ Until(stage, 0, e \o f) = Len(e) + Until(stage, Len(e), f)
<1> DEFINE l == Len(e)
           n == Len(f)
           F == Ends(stage, l, f)
           m == FirstOf(F)
<1>1. PICK s \in Seq(Items) :
        /\ s = e \o f /\ Len(s) = l + n
        /\ \A i \in 1..l : s[i] = e[i]
        /\ \A i \in 1..n : s[l + i] = f[i]
  <2>1. /\ e \o f \in Seq(Items) /\ Len(e \o f) = l + n
        /\ \A i \in 1..l : (e \o f)[i] = e[i]
        /\ \A i \in 1..n : (e \o f)[l + i] = f[i]
    OBVIOUS
  <2>2. QED
    BY <2>1
<1> DEFINE S == Ends(stage, 0, s)
           q == FirstOf(S)
<1>2. l \in Nat /\ n \in Nat /\ Len(s) \in Nat
  OBVIOUS
<1>3. /\ m \in 0..n /\ (m = 0 <=> F = {})
      /\ m # 0 => m \in F /\ \A k \in F : m <= k
  BY <1>2, UntilIs
<1>4. /\ q \in 0..Len(s) /\ (q = 0 <=> S = {})
      /\ q # 0 => q \in S /\ \A k \in S : q <= k
  BY UntilIs
<1>5. /\ F = {i \in 1..n : EndsAt(stage, l + i, f[i])}
      /\ S = {i \in 1..Len(s) : EndsAt(stage, 0 + i, s[i])}
      /\ \A i \in 1..l : ~EndsAt(stage, 0 + i, e[i])
  BY DEF Ends
<1>6. /\ Until(stage, 0, s) = IF q = 0 THEN Len(s)
                              ELSE IF stage.op = "takeWhile" THEN q - 1 ELSE q
      /\ Until(stage, l, f) = IF m = 0 THEN n
                              ELSE IF stage.op = "takeWhile" THEN m - 1 ELSE m
  BY DEF Until
<1> HIDE DEF l, n, F, m, S, q
<1>7. \A i \in 1..n : i \in F <=> l + i \in S
  <2>1. ASSUME NEW i \in 1..n
        PROVE  l + i \in 1..Len(s) /\ 0 + (l + i) = l + i
    BY <1>1, <1>2
  <2>2. QED
    BY <1>1, <1>5, <2>1
<1>8. ASSUME NEW j \in S
      PROVE  \E i \in F : j = l + i
  <2>1. j \in 1..(l + n) /\ EndsAt(stage, 0 + j, s[j])
    BY <1>1, <1>5
  <2>2. ~(j \in 1..l)
    BY <1>1, <1>5, <2>1
  <2>3. j - l \in 1..n /\ j = l + (j - l)
    BY <1>2, <2>1, <2>2
  <2>4. QED
    BY <1>7, <2>3
<1>9. S = {} <=> F = {}
  BY <1>5, <1>7, <1>8
<1>10. ASSUME q # 0
       PROVE  q = l + m
  <2>1. m # 0 /\ q \in S /\ m \in F /\ m \in 1..n
    BY <1>2, <1>3, <1>4, <1>9, <1>10
  <2>2. l + m \in S
    BY <1>7, <2>1
  <2>3. q <= l + m
    BY <1>4, <1>10, <2>2
  <2>4. PICK i \in F : q = l + i
    BY <1>8, <2>1
  <2>5. m <= i /\ i \in 1..n
    BY <1>3, <1>5, <2>1
  <2>6. QED
    BY <1>2, <2>1, <2>3, <2>4, <2>5
<1>11. Until(stage, 0, s) = l + Until(stage, l, f)
  <2>1. q = 0 <=> m = 0
    BY <1>3, <1>4, <1>9
  <2>2. CASE q = 0
    BY <1>1, <1>6, <2>1, <2>2
  <2>3. CASE q # 0
    <3>1. q = l + m /\ m # 0 /\ m \in Nat
      BY <1>2, <1>3, <1>10, <2>1, <2>3
    <3>2. CASE stage.op = "takeWhile"
      <4>1. Until(stage, 0, s) = q - 1 /\ Until(stage, l, f) = m - 1
        BY <1>6, <2>3, <3>1, <3>2
      <4>2. QED
        BY <1>2, <3>1, <4>1
    <3>3. CASE stage.op # "takeWhile"
      BY <1>6, <2>3, <3>1, <3>3
    <3>4. QED
      BY <3>2, <3>3
  <2>4. QED
    BY <2>2, <2>3
<1>12. QED
  BY <1>1, <1>9, <1>11 DEF S, F, l

(* Without an end among them they let every item through; with one they    *)
(* hand on the items before it and the token.                              *)
LEMMA StopApplies ==
  ASSUME NEW stage, Ender(stage), NEW l \in Nat, NEW f \in Seq(Plain),
         NEW y, stage.op = "take" => y = l /\ l < stage.arg, NEW isReady
  PROVE  LET a == Apply(stage, y, f, isReady)
         IN  /\ Ends(stage, l, f) = {} =>
                  a.out = f /\ a.ctx = IF stage.op = "take" THEN l + Len(f) ELSE y
             /\ Ends(stage, l, f) # {} =>
                  /\ UpToDone(a.out) = SubSeq(f, 1, Until(stage, l, f))
                  /\ UpToDone(a.out) # a.out
<1> DEFINE F == Ends(stage, l, f)
           m == FirstOf(F)
           u == Until(stage, l, f)
           n == Len(f)
           arg == stage.arg
           a == Apply(stage, y, f, isReady)
<1>1. f \in Seq(Items) /\ UpToDone(f) = f
  BY PlainIsWhole
<1>2. /\ n \in Nat /\ m \in 0..n /\ (m = 0 <=> F = {})
      /\ m # 0 => m \in F /\ \A k \in F : m <= k
      /\ u \in 0..n
  BY <1>1, UntilIs
<1>3. /\ DOMAIN f = 1..n /\ arg \in Int /\ stage.op \in Stopping
      /\ F = {i \in 1..n : EndsAt(stage, l + i, f[i])}
  BY DEF Ends, Ender, Stages, Items
<1>4. u = IF m = 0 THEN n ELSE IF stage.op = "takeWhile" THEN m - 1 ELSE m
  BY DEF Until
<1>5. ASSUME NEW k \in 0..n
      PROVE  /\ SubSeq(f, 1, k) \in Seq(Items)
             /\ UpToDone(SubSeq(f, 1, k)) = SubSeq(f, 1, k)
  <2>1. SubSeq(f, 1, k) \in Seq(Plain)
    OBVIOUS
  <2>2. QED
    BY <2>1, PlainIsWhole
<1> HIDE DEF F, m, u, n
<1>6. CASE stage.op = "take"
  <2> DEFINE left == arg - y
  <2>1. left = arg - l /\ left > 0 /\ left \in Int
    BY <1>3, <1>6
  <2>2. Apply(stage, y, f, isReady)
          = IF left \in 1..n THEN Result(Append(SubSeq(f, 1, left), Done), arg)
            ELSE Result(f, y + n)
    BY <1>6 DEF Apply, TakeApply, n
  <2>3. F = {i \in 1..n : l + i = arg}
    BY <1>3, <1>6 DEF EndsAt
  <2> HIDE DEF left
  <2>4. CASE left \in 1..n
    <3>1. left \in F
      BY <1>3, <2>1, <2>3, <2>4
    <3>2. m = left
      <4>1. m \in F
        BY <1>2, <3>1
      <4>2. m \in 1..n /\ l + m = arg
        BY <2>3, <4>1
      <4>3. QED
        BY <1>3, <2>1, <4>2
    <3>3. u = left /\ left \in 0..n
      BY <1>2, <1>4, <1>6, <2>4, <3>1, <3>2
    <3>4. a.out = Append(SubSeq(f, 1, left), Done)
      BY <2>2, <2>4, ResultFields
    <3>5. PICK h \in Seq(Items) : h = SubSeq(f, 1, left) /\ UpToDone(h) = h
      BY <1>5, <3>3
    <3>6. PICK z \in Seq(Items) : z = << >>
      <4>1. << >> \in Seq(Items)
        OBVIOUS
      <4>2. QED
        BY <4>1
    <3>7. UpToDone(Append(h, Done)) = h /\ UpToDone(Append(h, Done)) # Append(h, Done)
      BY <3>5, <3>6, EndsThere
    <3>8. QED
      BY <3>1, <3>3, <3>4, <3>5, <3>7 DEF F, u
  <2>5. CASE left \notin 1..n
    <3>1. F = {}
      BY <1>3, <2>1, <2>3, <2>5
    <3>2. a.out = f /\ a.ctx = y + n
      BY <2>2, <2>5, ResultFields
    <3>3. QED
      BY <1>6, <3>1, <3>2 DEF F, n
  <2>6. QED
    BY <2>4, <2>5
<1>7. CASE stage.op = "takeWhile"
  <2>1. F = Refused(arg, f)
    BY <1>3, <1>7 DEF EndsAt, Refused, n
  <2>2. \A t : Apply(stage, y, t, isReady)
          = LET k == FirstOf(Refused(arg, t))
            IN  Result(IF k = 0 THEN t ELSE Append(SubSeq(t, 1, k - 1), Done), y)
    BY <1>7
       DEF Apply, TakeWhileApply, FirstIndex, SelectInSeq, FirstOf, Refused
  <2>3. Apply(stage, y, f, isReady)
          = Result(IF m = 0 THEN f ELSE Append(SubSeq(f, 1, m - 1), Done), y)
    BY <2>1, <2>2 DEF m
  <2>4. CASE m = 0
    <3>1. F = {} /\ a.out = f /\ a.ctx = y
      BY <1>2, <2>3, <2>4, ResultFields
    <3>2. QED
      BY <1>7, <3>1 DEF F
  <2>5. CASE m # 0
    <3>1. F # {} /\ u = m - 1 /\ m - 1 \in 0..n
      BY <1>2, <1>4, <1>7, <2>5
    <3>2. a.out = Append(SubSeq(f, 1, m - 1), Done)
      BY <2>3, <2>5, ResultFields
    <3>3. PICK h \in Seq(Items) : h = SubSeq(f, 1, m - 1) /\ UpToDone(h) = h
      BY <1>5, <3>1
    <3>4. PICK z \in Seq(Items) : z = << >>
      <4>1. << >> \in Seq(Items)
        OBVIOUS
      <4>2. QED
        BY <4>1
    <3>5. UpToDone(Append(h, Done)) = h /\ UpToDone(Append(h, Done)) # Append(h, Done)
      BY <3>3, <3>4, EndsThere
    <3>6. QED
      BY <3>1, <3>2, <3>3, <3>5 DEF F, u
  <2>6. QED
    BY <2>4, <2>5
<1>8. CASE stage.op \in {"takeUntil", "first"}
  <2>1. Apply(stage, y, f, isReady) = Result(FlattenSeq(Pieces(f, F)), y)
    <3>1. CASE stage.op = "takeUntil"
      <4>1. \A t : UpToDone(t) = t => Apply(stage, y, t, isReady)
              = Result(FlattenSeq([i \in DOMAIN t |->
                         IF t[i] = arg THEN << t[i], Done >> ELSE << t[i] >>]), y)
        BY <3>1 DEF Apply, TakeUntilApply, TokenAfter
      <4>2. \A i \in 1..n : i \in F <=> f[i] = arg
        BY <1>3, <3>1 DEF EndsAt
      <4>3. [i \in DOMAIN f |-> IF f[i] = arg THEN << f[i], Done >> ELSE << f[i] >>]
              = Pieces(f, F)
        BY <1>3, <4>2 DEF Pieces, n
      <4>4. QED
        BY <1>1, <4>1, <4>3
    <3>2. CASE stage.op = "first"
      <4>1. \A t : UpToDone(t) = t => Apply(stage, y, t, isReady)
              = Result(FlattenSeq([i \in DOMAIN t |-> << t[i], Done >>]), y)
        BY <3>2 DEF Apply, FirstApply, TokenAfter
      <4>2. \A i \in 1..n : i \in F
        BY <1>3, <3>2 DEF EndsAt
      <4>3. [i \in DOMAIN f |-> << f[i], Done >>] = Pieces(f, F)
        BY <1>3, <4>2 DEF Pieces, n
      <4>4. QED
        BY <1>1, <4>1, <4>3
    <3>3. QED
      BY <1>8, <3>1, <3>2
  <2>2. a.out = FlattenSeq(Pieces(f, F)) /\ a.ctx = y
    BY <2>1, ResultFields
  <2>3. F \in SUBSET (1..Len(f))
    BY <1>3 DEF n
  <2>4. /\ F = {} => a.out = f
        /\ F # {} => UpToDone(a.out) = SubSeq(f, 1, FirstOf(F))
                     /\ UpToDone(a.out) # a.out
    BY <2>2, <2>3, TokenAfterIs
  <2>5. F # {} => u = FirstOf(F)
    BY <1>2, <1>4, <1>8 DEF m
  <2>6. QED
    BY <1>8, <2>2, <2>4, <2>5 DEF F, u
<1>9. QED
  BY <1>3, <1>6, <1>7, <1>8 DEF Stopping

(* The context a stage has after everything it was handed.                 *)
After(stage, e) ==
  IF stage.op = "take" THEN Len(e)
  ELSE Apply(stage, NewContext(stage), e, FALSE).ctx

(* Nothing has ended the stream in e: the batch f goes on from there.      *)
LEMMA StopGoesOn ==
  ASSUME NEW stage, Ender(stage), NEW e \in Seq(Plain), NEW f \in Seq(Plain),
         ~RxStops(stage, e), NEW isReady
  PROVE  LET a == Apply(stage, After(stage, e), f, isReady)
         IN  /\ RxOut(stage, e) = e
             /\ RxOut(stage, e \o f) = e \o UpToDone(a.out)
             /\ RxStops(stage, e \o f) <=> UpToDone(a.out) # a.out
             /\ ~RxStops(stage, e \o f) => a.ctx = After(stage, e \o f)
<1> DEFINE l == Len(e)
           y == After(stage, e)
           a == Apply(stage, y, f, isReady)
           u == Until(stage, l, f)
<1>1. /\ e \in Seq(Items) /\ f \in Seq(Items) /\ l \in Nat
      /\ UpToDone(f) = f /\ e \o f \in Seq(Items) /\ e \o f \in Seq(Plain)
      /\ Len(e \o f) = l + Len(f)
  <2>1. e \o f \in Seq(Plain) /\ l \in Nat /\ Len(e \o f) = l + Len(f)
    OBVIOUS
  <2>2. QED
    BY <2>1, PlainIsWhole
<1>2. Ends(stage, 0, e) = {}
  BY <1>1, StopMeans
<1>3. RxOut(stage, e) = e
  <2>1. Until(stage, 0, e) = l /\ SubSeq(e, 1, l) = e
    BY <1>1, <1>2, UntilIs, SubSeqFull
  <2>2. QED
    BY <1>1, <2>1, StopMeans
<1>4. stage.op = "take" => y = l /\ l < stage.arg
  <2>1. SUFFICES ASSUME stage.op = "take"
                 PROVE  l < stage.arg
    BY DEF After
  <2>2. RxStops(stage, e) <=> l >= stage.arg
    BY <2>1 DEF RxStops
  <2>3. stage.arg \in Int
    BY DEF Ender, Stages, Items
  <2>4. QED
    BY <1>1, <2>2, <2>3
<1>5. ASSUME stage.op # "take"
      PROVE  \A g \in Seq(Plain) : Ends(stage, 0, g) = {} =>
               After(stage, g) = NewContext(stage)
  <2>1. ASSUME NEW g \in Seq(Plain), Ends(stage, 0, g) = {}
        PROVE  Apply(stage, NewContext(stage), g, FALSE).ctx = NewContext(stage)
    <3>1. PICK k, z, no : k = 0 /\ k \in Nat /\ z = NewContext(stage) /\ no = FALSE
      OBVIOUS
    <3>2. Apply(stage, z, g, no).ctx = z
      <4>1. /\ stage.op = "take" => z = k /\ k < stage.arg
            /\ Ends(stage, k, g) = {}
        BY <1>5, <2>1, <3>1
      <4>2. Apply(stage, z, g, no).ctx
              = IF stage.op = "take" THEN k + Len(g) ELSE z
        BY <3>1, <4>1, StopApplies, SMTT(20)
      <4>3. QED
        BY <1>5, <4>2
    <3>3. QED
      BY <3>1, <3>2
  <2>2. QED
    BY <1>5, <2>1 DEF After
<1> HIDE DEF y
<1>6. /\ Ends(stage, l, f) = {} =>
           a.out = f /\ a.ctx = IF stage.op = "take" THEN l + Len(f) ELSE y
      /\ Ends(stage, l, f) # {} =>
           UpToDone(a.out) = SubSeq(f, 1, u) /\ UpToDone(a.out) # a.out
  BY <1>1, <1>4, StopApplies
<1>7. /\ Ends(stage, 0, e \o f) = {} <=> Ends(stage, l, f) = {}
      /\ Until(stage, 0, e \o f) = l + u
  BY <1>1, <1>2, StopsLater
<1>8. u \in 0..Len(f) /\ (Ends(stage, l, f) = {} => u = Len(f))
  BY <1>1, UntilIs
<1>9. RxOut(stage, e \o f) = e \o SubSeq(f, 1, u)
  <2>1. SubSeq(e \o f, 1, l + u) = e \o SubSeq(f, 1, u)
    BY <1>1, <1>8, FirstsOfTwo
  <2>2. RxOut(stage, e \o f) = SubSeq(e \o f, 1, Until(stage, 0, e \o f))
    BY <1>1, StopMeans
  <2>3. QED
    BY <1>7, <2>1, <2>2
<1>10. RxStops(stage, e \o f) <=> Ends(stage, l, f) # {}
  BY <1>1, <1>7, StopMeans
<1> HIDE DEF a, u, l
<1>11. CASE Ends(stage, l, f) = {}
  <2>1. a.out = f /\ UpToDone(a.out) = a.out
    BY <1>1, <1>6, <1>11
  <2>2. SubSeq(f, 1, u) = f
    BY <1>1, <1>8, <1>11, SubSeqFull
  <2>3. a.ctx = After(stage, e \o f)
    <3>1. CASE stage.op = "take"
      BY <1>1, <1>6, <1>11, <3>1 DEF After
    <3>2. CASE stage.op # "take"
      <4>1. y = NewContext(stage) /\ After(stage, e \o f) = NewContext(stage)
        BY <1>1, <1>2, <1>5, <1>7, <1>11, <3>2 DEF y
      <4>2. QED
        BY <1>6, <1>11, <3>2, <4>1
    <3>3. QED
      BY <3>1, <3>2
  <2>4. QED
    BY <1>3, <1>9, <1>10, <1>11, <2>1, <2>2, <2>3 DEF a, y
<1>12. CASE Ends(stage, l, f) # {}
  BY <1>3, <1>6, <1>9, <1>10, <1>12 DEF a, y
<1>13. QED
  BY <1>11, <1>12

(* No token in two batches together, none in either.                       *)
LEMMA PlainParts ==
  ASSUME NEW s \in Seq(Items), NEW b \in Seq(Items), s \o b \in Seq(Plain)
  PROVE  s \in Seq(Plain) /\ b \in Seq(Plain)
<1> DEFINE l == Len(s)
           n == Len(b)
<1>1. PICK e \in Seq(Plain) :
        /\ e = s \o b /\ Len(e) = l + n
        /\ \A i \in 1..l : e[i] = s[i]
        /\ \A i \in 1..n : e[l + i] = b[i]
  <2>1. /\ s \o b \in Seq(Plain) /\ Len(s \o b) = l + n
        /\ \A i \in 1..l : (s \o b)[i] = s[i]
        /\ \A i \in 1..n : (s \o b)[l + i] = b[i]
    OBVIOUS
  <2>2. QED
    BY <2>1
<1>2. l \in Nat /\ n \in Nat
  OBVIOUS
<1>3. \A i \in 1..(l + n) : e[i] \in Plain
  BY <1>1
<1>4. ASSUME NEW i \in 1..l
      PROVE  s[i] \in Plain
  <2>1. i \in 1..(l + n)
    BY <1>2
  <2>2. QED
    BY <1>1, <1>3, <2>1
<1>5. ASSUME NEW i \in 1..n
      PROVE  b[i] \in Plain
  <2>1. l + i \in 1..(l + n)
    BY <1>2
  <2>2. QED
    BY <1>1, <1>3, <2>1
<1>6. QED
  BY <1>4, <1>5

(* A stage that carries on is the same whether or not the observable is    *)
(* ready, and goes on from what it was handed before.                      *)
Onward(stage, d, b, isReady) ==
  LET t == Apply(stage, After(stage, d), b, isReady)
  IN  /\ RxOut(stage, d \o b) = RxOut(stage, d) \o t.out
      /\ t.ctx = After(stage, d \o b)
      /\ t.out \in Seq(Items) /\ RxOut(stage, d) \in Seq(Items)
      /\ ~RxStops(stage, d)

LEMMA GoesOn ==
  ASSUME NEW stage, AsBuilt(stage), NEW d \in Seq(Plain), NEW b \in Seq(Plain),
         NEW isReady
  PROVE  Onward(stage, d, b, isReady)
<1> DEFINE y == NewContext(stage)
<1>1. Carrier(stage) /\ stage \in Stages /\ stage.op \in CarryKinds
  BY DEF AsBuilt, Carrier
<1>2. ContextOK(stage, y)
  BY <1>1, NewContextOK
<1>3. /\ stage.op # "take" /\ stage.op \notin Holding
      /\ stage.op \notin Stopping
  BY <1>1 DEF CarryKinds, ItemKinds, Holding, Stopping
<1>4. d \in Seq(Items) /\ b \in Seq(Items) /\ d \o b \in Seq(Plain)
  <2>1. d \o b \in Seq(Plain)
    OBVIOUS
  <2>2. QED
    BY <2>1, PlainIsWhole
<1> HIDE DEF y
<1>5. PICK a : /\ a = Apply(stage, y, d, FALSE)
               /\ a.out \in Seq(Items) /\ ContextOK(stage, a.ctx)
  BY <1>1, <1>2, <1>4, CarryType
<1>6. PICK t : /\ t = Apply(stage, a.ctx, b, FALSE) /\ t.out \in Seq(Items)
  BY <1>1, <1>4, <1>5, CarryType
<1>7. PICK w : w = Apply(stage, y, d \o b, FALSE) /\ w.out = a.out \o t.out
               /\ w.ctx = t.ctx
  <2>1. PICK no : no = FALSE
    OBVIOUS
  <2>2. Joint(stage, y, d, b, no)
    BY <1>1, <1>2, CutAnywhere
  <2>3. Apply(stage, y, d \o b, no) = Result(a.out \o t.out, t.ctx)
    BY <1>5, <1>6, <2>1, <2>2 DEF Joint
  <2>4. PICK w, h : w = Apply(stage, y, d \o b, no) /\ h = a.out \o t.out
    OBVIOUS
  <2>5. w = Result(h, t.ctx)
    BY <2>3, <2>4
  <2>6. w.out = h /\ w.ctx = t.ctx
    BY <2>5, ResultFields
  <2>7. QED
    BY <2>1, <2>4, <2>6
<1>8. a.ctx = After(stage, d) /\ w.ctx = After(stage, d \o b)
  BY <1>3, <1>5, <1>7 DEF After, y
<1>9. RxOut(stage, d) = a.out /\ RxOut(stage, d \o b) = w.out
  BY <1>4, <1>5, <1>7, StageMeans DEF y
<1>10. Apply(stage, a.ctx, b, isReady) = t
  <2>1. Apply(stage, a.ctx, b, isReady) = Apply(stage, a.ctx, b, FALSE)
    BY <1>1 DEF Apply, CarryKinds, ItemKinds
  <2>2. QED
    BY <1>6, <2>1
<1>11. ~RxStops(stage, d)
  BY <1>3 DEF RxStops, Stopping
<1>12. QED
  BY <1>5, <1>6, <1>7, <1>8, <1>9, <1>10, <1>11 DEF Onward

(* Contexts of a kind of their own, whatever was handed over.              *)
LEMMA AfterOK ==
  ASSUME NEW stage, AsBuilt(stage), NEW d \in Seq(Items)
  PROVE  ContextOK(stage, After(stage, d))
<1>1. Carrier(stage) /\ stage \in Stages /\ stage.op # "take"
  BY DEF AsBuilt, Carrier, CarryKinds, ItemKinds
<1>2. ContextOK(stage, NewContext(stage))
  BY <1>1, NewContextOK
<1>3. ContextOK(stage, Apply(stage, NewContext(stage), d, FALSE).ctx)
  BY <1>1, <1>2, CarryType
<1>4. QED
  BY <1>1, <1>3 DEF After

(* The first m stages of a chain carry on, have the contexts that what     *)
(* they were handed for d leaves, and are handed b.                        *)
Flows(c, m, d, b, o, y, isReady) ==
  /\ AccumReturns /\ c \in Seq(Readers) /\ m \in 0..Len(c)
  /\ d \in Seq(Plain) /\ b \in Seq(Plain)
  /\ \A k \in 1..m : AsBuilt(c[k])
  /\ \A k \in 0..m : o[k] \in Seq(Items)
  /\ o[0] = b
  /\ \A k \in 1..m : /\ y[k] = After(c[k], Passed(c, k - 1, d))
                     /\ o[k] = Apply(c[k], y[k], o[k - 1], isReady).out
  /\ \A k \in 1..(m - 1) : Passed(c, k, d \o b) \in Seq(Plain)

LEMMA CarriesOn ==
  ASSUME NEW c, NEW m, NEW d, NEW b, NEW o, NEW y, NEW isReady,
         Flows(c, m, d, b, o, y, isReady)
  PROVE  /\ \A k \in 0..m : Passed(c, k, d \o b) = Passed(c, k, d) \o o[k]
         /\ \A k \in 0..m : Passed(c, k, d \o b) \in Seq(Plain) =>
              Passed(c, k, d) \in Seq(Plain) /\ o[k] \in Seq(Plain)
         /\ \A k \in 1..m : /\ Apply(c[k], y[k], o[k - 1], isReady).ctx
                                 = After(c[k], Passed(c, k - 1, d \o b))
                            /\ ~StopsAt(c, k, d)
<1> DEFINE Joined2(k) == Passed(c, k, d \o b) = Passed(c, k, d) \o o[k]
           Step(k) == /\ Apply(c[k], y[k], o[k - 1], isReady).ctx
                           = After(c[k], Passed(c, k - 1, d \o b))
                      /\ ~StopsAt(c, k, d)
           P == {k \in Nat : k <= m => Joined2(k) /\ (k # 0 => Step(k))}
<1>1. /\ AccumReturns /\ c \in Seq(Readers) /\ m \in 0..Len(c)
      /\ d \in Seq(Plain) /\ b \in Seq(Plain)
      /\ \A k \in 1..m : AsBuilt(c[k])
      /\ \A k \in 0..m : o[k] \in Seq(Items)
      /\ o[0] = b
      /\ \A k \in 1..m : /\ y[k] = After(c[k], Passed(c, k - 1, d))
                         /\ o[k] = Apply(c[k], y[k], o[k - 1], isReady).out
      /\ \A k \in 1..(m - 1) : Passed(c, k, d \o b) \in Seq(Plain)
  BY DEF Flows
<1>2. Len(c) \in Nat /\ m \in Nat /\ m <= Len(c)
  BY <1>1
<1>3. PICK e \in Seq(Plain) : e = d \o b
  <2>1. d \o b \in Seq(Plain)
    BY <1>1
  <2>2. QED
    BY <2>1
<1>4. d \in Seq(Items) /\ e \in Seq(Items)
  BY <1>1, <1>3, PlainIsWhole
<1>5. /\ Passed(c, 0, d) = d /\ Passed(c, 0, e) = e
      /\ \A k \in 0..Len(c) : Passed(c, k, d) \in Seq(Items)
                              /\ Passed(c, k, e) \in Seq(Items)
      /\ \A k \in 1..Len(c) :
           /\ Passed(c, k, d) = RxOut(c[k], Passed(c, k - 1, d))
           /\ Passed(c, k, e) = RxOut(c[k], Passed(c, k - 1, e))
  BY <1>1, <1>4, PassedOn
<1>6. ASSUME NEW k \in 0..m, Joined2(k), Passed(c, k, e) \in Seq(Plain)
      PROVE  Passed(c, k, d) \in Seq(Plain) /\ o[k] \in Seq(Plain)
  <2>1. k \in 0..Len(c)
    BY <1>2
  <2>2. PICK s \in Seq(Items), t \in Seq(Items) : s = Passed(c, k, d) /\ t = o[k]
    BY <1>1, <1>5, <2>1
  <2>3. s \o t \in Seq(Plain)
    BY <1>3, <1>6, <2>2
  <2>4. QED
    BY <2>2, <2>3, PlainParts
<1>7. 0 \in P
  BY <1>1, <1>3, <1>5
<1>8. ASSUME NEW k \in Nat, k \in P
      PROVE  k + 1 \in P
  <2>1. SUFFICES ASSUME k + 1 <= m
                 PROVE  Joined2(k + 1) /\ Step(k + 1)
    <3> HIDE DEF Joined2, Step
    <3> QED OBVIOUS
  <2>2. /\ k + 1 \in 1..m /\ (k + 1) - 1 = k /\ k \in 0..m /\ k <= m
        /\ k + 1 \in 1..Len(c) /\ k \in 0..Len(c)
    BY <1>2, <2>1
  <2>3. Joined2(k)
    <3> HIDE DEF Joined2, Step
    <3> QED BY <1>8, <2>2
  <2>4. Passed(c, k, d) \in Seq(Plain) /\ o[k] \in Seq(Plain)
    <3>1. Passed(c, k, e) \in Seq(Plain)
      <4>1. CASE k = 0
        BY <1>5, <4>1
      <4>2. CASE k # 0
        <5>1. k \in 1..(m - 1)
          BY <1>2, <2>1, <4>2
        <5>2. QED
          BY <1>1, <1>3, <5>1
      <4>3. QED
        BY <4>1, <4>2
    <3>2. QED
      <4> HIDE DEF Joined2
      <4> QED BY <1>6, <2>2, <2>3, <3>1
  <2>5. PICK s \in Seq(Plain), t \in Seq(Plain), stage \in Readers :
          s = Passed(c, k, d) /\ t = o[k] /\ stage = c[k + 1] /\ AsBuilt(stage)
    BY <1>1, <1>2, <2>2, <2>4
  <2>6. PICK u : u = Apply(stage, After(stage, s), t, isReady)
    OBVIOUS
  <2>7. /\ RxOut(stage, s \o t) = RxOut(stage, s) \o u.out
        /\ u.ctx = After(stage, s \o t) /\ ~RxStops(stage, s)
    <3>1. Onward(stage, s, t, isReady)
      BY <2>5, GoesOn
    <3>2. QED
      BY <2>6, <3>1 DEF Onward
  <2>8. s \o t = Passed(c, k, e)
    BY <1>3, <2>3, <2>5
  <2>9. /\ Passed(c, k + 1, e) = RxOut(stage, s \o t)
        /\ Passed(c, k + 1, d) = RxOut(stage, s)
    BY <1>5, <2>2, <2>5, <2>8
  <2>10. o[k + 1] = u.out /\ u = Apply(c[k + 1], y[k + 1], o[k], isReady)
    BY <1>1, <2>2, <2>5, <2>6
  <2>11. Joined2(k + 1)
    BY <1>3, <2>7, <2>9, <2>10
  <2>12. Step(k + 1)
    BY <1>3, <2>2, <2>5, <2>7, <2>8, <2>10 DEF StopsAt
  <2>13. QED
    BY <2>11, <2>12
<1>9. \A k \in Nat : k \in P
  <2> HIDE DEF P
  <2> QED BY <1>7, <1>8, SetInduction
<1>10. \A k \in 0..m : Joined2(k) /\ (k # 0 => Step(k))
  <2> HIDE DEF Joined2, Step
  <2> QED BY <1>2, <1>9
<1>11. \A k \in 1..m : k \in 0..m /\ k # 0
  BY <1>2
<1>12. (\A k \in 0..m : Joined2(k)) /\ (\A k \in 1..m : Step(k))
  <2> HIDE DEF Joined2, Step
  <2> QED BY <1>10, <1>11
<1>13. \A k \in 0..m : Passed(c, k, e) \in Seq(Plain) =>
         Passed(c, k, d) \in Seq(Plain) /\ o[k] \in Seq(Plain)
  <2> HIDE DEF Joined2
  <2> QED BY <1>6, <1>12
<1>14. QED
  BY <1>3, <1>12, <1>13

-----------------------------------------------------------------------------
(* The chains whose meaning can be compared with what comes out of them:   *)
(* every stage but the last carries on; the last may end the stream, or    *)
(* hold it.                                                                *)
Shaped(c) ==
  /\ AccumReturns /\ c \in Seq(Readers) /\ c \in Seq(Stages) /\ Callbacks(c)
  /\ Len(c) \in Nat \ {0}
  /\ \A k \in 1..(Len(c) - 1) : AsBuilt(c[k])
  /\ AsBuilt(c[Len(c)]) \/ Ender(c[Len(c)]) \/ c[Len(c)].op = "buffer"

(* The contexts are those that all the items so far, d, leave behind.      *)
KeptUp(c, d, x) ==
  \A k \in 1..Len(c) :
    c[k].op # "buffer" => x[k] = After(c[k], Passed(c, k - 1, d))

(* A chain that was handed nothing hands on nothing and has ended nothing. *)
LEMMA NothingPassed ==
  ASSUME NEW c, Shaped(c), NEW none \in Seq(Plain), Len(none) = 0
  PROVE  /\ \A k \in 0..Len(c) : Passed(c, k, none) = none
         /\ \A k \in 1..Len(c) : ~StopsAt(c, k, none)
         /\ KeptUp(c, none, [k \in DOMAIN c |-> NewContext(c[k])])
<1> DEFINE n == Len(c)
           P == {k \in Nat : k <= n => Passed(c, k, none) = none}
<1>1. /\ AccumReturns /\ c \in Seq(Readers) /\ n \in Nat \ {0}
      /\ DOMAIN c = 1..n
      /\ \A k \in 1..(n - 1) : AsBuilt(c[k])
      /\ AsBuilt(c[n]) \/ Ender(c[n]) \/ c[n].op = "buffer"
  BY DEF Shaped
<1>2. none \in Seq(Items)
  BY PlainIsWhole
<1>3. none = << >>
  OBVIOUS
<1>4. n \in Nat /\ n >= 1
  BY <1>1
<1>5. ASSUME NEW k \in 1..n
      PROVE  /\ RxOut(c[k], none) = none /\ ~RxStops(c[k], none)
             /\ c[k].op # "buffer" => After(c[k], none) = NewContext(c[k])
  <2>1. PICK stage \in Stages : stage = c[k]
    BY <1>1 DEF Readers
  <2>2. AsBuilt(stage) \/ Ender(stage) \/ stage.op = "buffer"
    <3>1. k \in 1..(n - 1) \/ k = n
      BY <1>4
    <3>2. QED
      BY <1>1, <2>1, <3>1
  <2>3. CASE AsBuilt(stage)
    <3>1. /\ Carrier(stage) /\ stage.op # "take" /\ stage.op \notin Stopping
      BY <2>3 DEF AsBuilt, Carrier, CarryKinds, ItemKinds, Stopping
    <3>2. Apply(stage, NewContext(stage), none, FALSE)
            = Result(none, NewContext(stage))
      <4>1. ContextOK(stage, NewContext(stage))
        BY NewContextOK
      <4>2. QED
        BY <1>3, <3>1, <4>1, CarryEmpty
    <3>3. RxOut(stage, none) = none
      <4>1. Apply(stage, NewContext(stage), none, FALSE).out = RxOut(stage, none)
        BY <2>3, StageMeans
      <4>2. QED
        BY <3>2, <4>1, ResultFields
    <3>4. After(stage, none) = NewContext(stage)
      BY <3>1, <3>2, ResultFields DEF After
    <3>5. ~RxStops(stage, none)
      BY <3>1 DEF RxStops, Stopping
    <3>6. QED
      BY <2>1, <3>3, <3>4, <3>5
  <2>4. CASE Ender(stage)
    <3>1. PICK l : l = 0 /\ l \in Nat
      OBVIOUS
    <3>2. Ends(stage, l, none) = {}
      BY <1>2 DEF Ends
    <3>3. Until(stage, l, none) = 0
      BY <1>2, <3>1, <3>2, UntilIs
    <3>4. RxOut(stage, none) = none /\ ~RxStops(stage, none)
      <4>1. /\ RxStops(stage, none) <=> Ends(stage, l, none) # {}
            /\ RxOut(stage, none) = SubSeq(none, 1, Until(stage, l, none))
        BY <1>2, <2>4, <3>1, StopMeans
      <4>2. SubSeq(none, 1, 0) = none
        BY <1>3, SubSeqEmpty
      <4>3. QED
        BY <3>2, <3>3, <4>1, <4>2
    <3>5. After(stage, none) = NewContext(stage)
      <4>1. CASE stage.op = "take"
        BY <4>1 DEF After, NewContext
      <4>2. CASE stage.op # "take"
        <5>1. PICK no : no = FALSE
          OBVIOUS
        <5>2. Apply(stage, NewContext(stage), none, no).ctx = NewContext(stage)
          <6>1. PICK y : y = NewContext(stage)
            OBVIOUS
          <6>2. stage.op = "take" => y = l /\ l < stage.arg
            BY <4>2
          <6>3. ASSUME NEW s \in Seq(Plain), Ends(stage, l, s) = {}
                PROVE  Apply(stage, y, s, no).ctx
                         = IF stage.op = "take" THEN l + Len(s) ELSE y
            <7>1. l \in Nat
              BY <3>1
            <7>2. QED
              BY <2>4, <6>2, <6>3, <7>1, StopApplies
          <6>4. QED
            BY <3>2, <4>2, <6>1, <6>3
        <5>3. QED
          BY <4>2, <5>1, <5>2 DEF After
      <4>3. QED
        BY <4>1, <4>2
    <3>6. QED
      BY <2>1, <3>4, <3>5
  <2>5. CASE stage.op = "buffer"
    <3>1. RxOut(stage, none) = none /\ ~RxStops(stage, none)
      BY <2>5 DEF RxOut, RxStops
    <3>2. QED
      BY <2>1, <2>5, <3>1
  <2>6. QED
    BY <2>2, <2>3, <2>4, <2>5
<1>6. /\ Passed(c, 0, none) = none
      /\ \A k \in 1..n : Passed(c, k, none) = RxOut(c[k], Passed(c, k - 1, none))
  <2>1. AccumReturns /\ c \in Seq(Readers)
    BY <1>1
  <2>2. ASSUME NEW s \in Seq(Items)
        PROVE  /\ Passed(c, 0, s) = s
               /\ \A k \in 1..n : Passed(c, k, s) = RxOut(c[k], Passed(c, k - 1, s))
    BY <2>1, PassedOn
  <2>3. QED
    BY <1>2, <2>2
<1>7. 0 \in P
  BY <1>6
<1>8. ASSUME NEW k \in Nat, k \in P
      PROVE  k + 1 \in P
  <2>1. SUFFICES ASSUME k + 1 <= n
                 PROVE  Passed(c, k + 1, none) = none
    OBVIOUS
  <2>2. k + 1 \in 1..n /\ (k + 1) - 1 = k /\ k <= n
    BY <1>4, <2>1
  <2>3. QED
    BY <1>5, <1>6, <1>8, <2>2
<1>9. \A k \in Nat : k \in P
  <2> HIDE DEF P
  <2> QED BY <1>7, <1>8, SetInduction
<1>10. \A k \in 0..n : Passed(c, k, none) = none
  BY <1>4, <1>9
<1>11. ASSUME NEW k \in 1..n
      PROVE  /\ Passed(c, k - 1, none) = none
             /\ ~StopsAt(c, k, none)
  <2>1. k - 1 \in 0..n
    BY <1>4
  <2>2. QED
    BY <1>5, <1>10, <2>1 DEF StopsAt
<1>12. KeptUp(c, none, [k \in DOMAIN c |-> NewContext(c[k])])
  BY <1>1, <1>5, <1>11 DEF KeptUp
<1>13. QED
  BY <1>10, <1>11, <1>12

(* The first m stages have handed on no token.                             *)
PlainSoFar(c, m, d) == \A k \in 1..m : Passed(c, k, d) \in Seq(Plain)

(* What was in the clear before the last batch.                            *)
LEMMA ClearBefore ==
  ASSUME NEW c, Shaped(c), NEW d \in Seq(Plain), NEW b \in Seq(Plain),
         NEW m \in {Len(c) - 1, Len(c)},
         PlainSoFar(c, m, d \o b)
  PROVE  PlainSoFar(c, m, d)
<1> DEFINE n == Len(c)
<1>1. /\ AccumReturns /\ c \in Seq(Readers) /\ n \in Nat \ {0}
      /\ c \in Seq(Stages) /\ Callbacks(c) /\ DOMAIN c = 1..n
      /\ \A k \in 1..(n - 1) : AsBuilt(c[k])
      /\ AsBuilt(c[n]) \/ Ender(c[n]) \/ c[n].op = "buffer"
  BY DEF Shaped
<1>2. d \in Seq(Items) /\ b \in Seq(Items)
  BY PlainIsWhole
<1>3. n \in Nat /\ n >= 1 /\ (m = n - 1 \/ m = n) /\ m \in Nat /\ m <= n
  <2>1. n \in Nat \ {0}
    BY <1>1
  <2>2. QED
    BY <2>1
<1>4. /\ Passed(c, 0, d) = d
      /\ \A k \in 0..n : Passed(c, k, d) \in Seq(Items)
      /\ \A k \in 1..n : Passed(c, k, d) = RxOut(c[k], Passed(c, k - 1, d))
  BY <1>1, <1>2, PassedOn
<1>5. DOMAIN c = 1..n /\ \A k \in 1..n : c[k] \in Stages
  <2>1. c \in Seq(Stages)
    BY DEF Shaped
  <2>2. QED
    BY <2>1
<1> HIDE DEF n
<1>6. ASSUME NEW j \in 0..m, \A k \in 1..j : AsBuilt(c[k])
      PROVE  \A k \in 1..j : Passed(c, k, d) \in Seq(Plain)
  <2> DEFINE y == [k \in DOMAIN c |->
                     IF k \in 1..j THEN After(c[k], Passed(c, k - 1, d))
                     ELSE NewContext(c[k])]
  <2>1. ASSUME NEW k \in DOMAIN c
        PROVE  ContextOK(c[k], y[k])
    <3>1. CASE k \in 1..j
      <4>1. k - 1 \in 0..n
        BY <1>3
      <4>2. Passed(c, k - 1, d) \in Seq(Items)
        BY <1>4, <4>1
      <4>3. QED
        BY <1>6, <3>1, <4>2, AfterOK
    <3>2. CASE k \notin 1..j
      <4>1. c[k] \in Stages
        BY <1>5
      <4>2. QED
        BY <3>2, <4>1, NewContextOK
    <3>3. QED
      BY <3>1, <3>2
  <2>2. y \in CtxsOf(c)
    <3>1. \A k \in DOMAIN c : y[k] \in Contexts
      <4> HIDE DEF y
      <4> QED BY <2>1, ContextIsOne
    <3>2. QED
      BY <2>1, <3>1 DEF CtxsOf
  <2>3. \A k \in 1..j : k \in DOMAIN c /\ y[k] = After(c[k], Passed(c, k - 1, d))
    <3>1. \A k \in 1..j : k \in DOMAIN c
      BY <1>3, <1>5
    <3>2. QED
      BY <3>1
  <2> HIDE DEF y
  <2>4. PICK no : no = FALSE
    OBVIOUS
  <2>5. PICK o : Outs(o, c, y, b, no)
    BY <1>1, <1>2, <2>2, GenericSteps
  <2>6. Flows(c, j, d, b, o, y, no)
    <3>1. j \in 0..n
      BY <1>3
    <3>2. /\ o[0] = b /\ \A k \in 0..j : o[k] \in Seq(Items)
          /\ \A k \in 1..j : o[k] = Apply(c[k], y[k], o[k - 1], no).out
      <4>1. \A k \in 0..j : k \in 0..n
        BY <1>3, <3>1
      <4>2. \A k \in 1..j : k \in 1..n
        BY <1>3, <3>1
      <4>3. QED
        BY <2>5, <4>1, <4>2 DEF Outs, n
    <3>3. \A k \in 1..(j - 1) : Passed(c, k, d \o b) \in Seq(Plain)
      <4>1. \A k \in 1..(j - 1) : k \in 1..m
        BY <1>3
      <4>2. QED
        BY <4>1 DEF PlainSoFar
    <3>4. QED
      BY <1>1, <1>6, <2>3, <3>1, <3>2, <3>3 DEF Flows, n
  <2>7. ASSUME NEW k \in 1..j
        PROVE  Passed(c, k, d) \in Seq(Plain)
    <3>1. k \in 0..j /\ k \in 1..m
      BY <1>3
    <3>2. Passed(c, k, d \o b) \in Seq(Plain)
      BY <3>1 DEF PlainSoFar
    <3>3. QED
      BY <2>6, <3>1, <3>2, CarriesOn
  <2>8. QED
    BY <2>7
<1>7. CASE AsBuilt(c[n])
  <2>1. \A k \in 1..m : AsBuilt(c[k])
    <3>1. \A k \in 1..m : k \in 1..(n - 1) \/ k = n
      BY <1>3
    <3>2. QED
      BY <1>1, <1>7, <3>1
  <2>2. m \in 0..m
    BY <1>3
  <2>3. QED
    BY <1>6, <2>1, <2>2 DEF PlainSoFar
<1>8. CASE Ender(c[n]) \/ c[n].op = "buffer"
  <2>1. n - 1 \in 0..m
    BY <1>3
  <2>2. \A k \in 1..(n - 1) : Passed(c, k, d) \in Seq(Plain)
    BY <1>1, <1>6, <2>1
  <2>3. Passed(c, n, d) \in Seq(Plain)
    <3>1. PICK e \in Seq(Plain) : e = Passed(c, n - 1, d)
      <4>1. CASE n = 1
        BY <1>4, <4>1
      <4>2. CASE n # 1
        <5>1. n - 1 >= 1 /\ n - 1 \in Nat
          BY <1>3, <4>2
        <5>2. n - 1 \in 1..(n - 1)
          BY <5>1
        <5>3. QED
          BY <2>2, <5>2
      <4>3. QED
        BY <4>1, <4>2
    <3>2. e \in Seq(Items) /\ Len(e) \in Nat
      BY <3>1, PlainIsWhole
    <3>3. RxOut(c[n], e) \in Seq(Plain)
      <4>1. CASE Ender(c[n])
        <5>1. RxOut(c[n], e) = SubSeq(e, 1, Until(c[n], 0, e))
          BY <3>2, <4>1, StopMeans
        <5>2. Until(c[n], 0, e) \in 0..Len(e)
          BY <3>2, UntilIs
        <5>3. \A u \in 0..Len(e) : SubSeq(e, 1, u) \in Seq(Plain)
          OBVIOUS
        <5>4. QED
          BY <5>1, <5>2, <5>3
      <4>2. CASE c[n].op = "buffer"
        BY <3>1, <4>2 DEF RxOut
      <4>3. QED
        BY <1>8, <4>1, <4>2
    <3>4. n \in 1..n
      BY <1>3
    <3>5. QED
      BY <1>4, <3>1, <3>3, <3>4
  <2>4. \A k \in 1..m : k \in 1..(n - 1) \/ k = n
    BY <1>3
  <2>5. QED
    BY <2>2, <2>3, <2>4 DEF PlainSoFar
<1>9. QED
  BY <1>1, <1>7, <1>8

(* One more batch, b, for a chain that has been handed d.                  *)
Goes(c, d, b, x, isReady, o) ==
  /\ Shaped(c) /\ d \in Seq(Plain) /\ b \in Seq(Plain) /\ x \in CtxsOf(c)
  /\ KeptUp(c, d, x) /\ PlainSoFar(c, Len(c) - 1, d \o b)
  /\ Outs(o, c, x, b, isReady)

(* It comes down to the last stage as what it means, and leaves the        *)
(* contexts on its way kept up.                                            *)
ComesDown(c, d, b, x, isReady, o, n) ==
  LET e == Passed(c, n - 1, d)
      f == o[n - 1]
      y == Left(o, c, x, isReady)
  IN  /\ e \in Seq(Plain) /\ f \in Seq(Plain)
      /\ Passed(c, n - 1, d \o b) = e \o f
      /\ Passed(c, n, d) = RxOut(c[n], e)
      /\ Passed(c, n, d \o b) = RxOut(c[n], e \o f)
      /\ Passed(c, n, d) \in Seq(Items) /\ o[n] \in Seq(Items)
      /\ \A k \in 1..(n - 1) : y[k] = After(c[k], Passed(c, k - 1, d \o b))
      /\ \A k \in 1..(n - 1) : ~StopsAt(c, k, d) /\ ~StopsAt(c, k, d \o b)
      /\ c[n].op # "buffer" => x[n] = After(c[n], e)
      /\ o[n] = Apply(c[n], x[n], f, isReady).out
      /\ y[n] = Apply(c[n], x[n], f, isReady).ctx
      /\ Rx(c, d \o b).stops <=> RxStops(c[n], e \o f)

LEMMA GoesDown ==
  ASSUME NEW c, NEW d, NEW b, NEW x, NEW isReady, NEW o,
         Goes(c, d, b, x, isReady, o)
  PROVE  ComesDown(c, d, b, x, isReady, o, Len(c)) /\ Clean(c, o)
<1> DEFINE n == Len(c)
<1>1. /\ Shaped(c) /\ d \in Seq(Plain) /\ b \in Seq(Plain) /\ x \in CtxsOf(c)
      /\ KeptUp(c, d, x) /\ PlainSoFar(c, n - 1, d \o b)
      /\ Outs(o, c, x, b, isReady)
  BY DEF Goes
<1>2. /\ AccumReturns /\ c \in Seq(Readers) /\ n \in Nat \ {0}
      /\ \A k \in 1..(n - 1) : AsBuilt(c[k])
      /\ AsBuilt(c[n]) \/ Ender(c[n]) \/ c[n].op = "buffer"
  BY <1>1 DEF Shaped
<1>3. DOMAIN c = 1..n
  BY <1>2
<1>4. /\ o[0] = b /\ \A k \in 0..n : o[k] \in Seq(Items)
      /\ \A k \in 1..n : o[k] = Apply(c[k], x[k], o[k - 1], isReady).out
  BY <1>1 DEF Outs
<1>5. \A k \in 1..n : Left(o, c, x, isReady)[k]
                        = Apply(c[k], x[k], o[k - 1], isReady).ctx
  BY <1>3 DEF Left
<1>6. \A k \in 1..n : c[k].op # "buffer" => x[k] = After(c[k], Passed(c, k - 1, d))
  BY <1>1 DEF KeptUp
<1>7. PICK w \in Seq(Plain) : w = d \o b
  <2>1. d \o b \in Seq(Plain)
    BY <1>1
  <2>2. QED
    BY <2>1
<1>8. d \in Seq(Items) /\ w \in Seq(Items)
  BY <1>1, PlainIsWhole
<1>9. ASSUME NEW s \in Seq(Items)
      PROVE  /\ Passed(c, 0, s) = s
             /\ \A k \in 0..n : Passed(c, k, s) \in Seq(Items)
             /\ \A k \in 1..n : Passed(c, k, s) = RxOut(c[k], Passed(c, k - 1, s))
             /\ Rx(c, s).stops <=> \E k \in 1..n : StopsAt(c, k, s)
  BY <1>2, PassedOn
<1> HIDE DEF n
<1>10. n \in Nat /\ n >= 1 /\ n \in 1..n /\ n - 1 \in 0..n /\ n - 1 \in Nat
  <2>1. n \in Nat \ {0}
    BY <1>2
  <2>2. QED
    BY <2>1
<1>11. \A k \in 1..(n - 1) : k \in 1..n
  BY <1>10
<1>12. \A k \in 1..(n - 1) : c[k].op \notin Stopping \union {"buffer"}
  <2>1. \A stage : AsBuilt(stage) => stage.op \notin Stopping \union {"buffer"}
    BY DEF AsBuilt, Carrier, CarryKinds, ItemKinds, Stopping
  <2>2. QED
    BY <1>2, <2>1
<1>13. Flows(c, n - 1, d, b, o, x, isReady)
  <2>1. /\ n - 1 \in 0..Len(c) /\ \A k \in 0..(n - 1) : k \in 0..n
    BY <1>10 DEF n
  <2>2. \A k \in 0..(n - 1) : o[k] \in Seq(Items)
    BY <1>4, <2>1
  <2>3. \A k \in 1..(n - 1) : /\ x[k] = After(c[k], Passed(c, k - 1, d))
                              /\ o[k] = Apply(c[k], x[k], o[k - 1], isReady).out
    BY <1>4, <1>6, <1>11, <1>12
  <2>4. \A k \in 1..((n - 1) - 1) : Passed(c, k, d \o b) \in Seq(Plain)
    <3>1. \A k \in 1..((n - 1) - 1) : k \in 1..(n - 1)
      BY <1>10
    <3>2. QED
      BY <1>1, <3>1 DEF PlainSoFar
  <2>5. QED
    BY <1>1, <1>2, <1>4, <2>1, <2>2, <2>3, <2>4 DEF Flows
<1>14. ASSUME NEW k \in 0..(n - 1)
       PROVE  Passed(c, k, w) \in Seq(Plain)
  <2>1. CASE k = 0
    BY <1>8, <1>9, <2>1
  <2>2. CASE k # 0
    <3>1. k \in 1..(n - 1)
      BY <1>10, <2>2
    <3>2. QED
      BY <1>1, <1>7, <3>1 DEF PlainSoFar
  <2>3. QED
    BY <2>1, <2>2
<1>15. /\ \A k \in 0..(n - 1) : Passed(c, k, d) \in Seq(Plain) /\ o[k] \in Seq(Plain)
       /\ Passed(c, n - 1, w) = Passed(c, n - 1, d) \o o[n - 1]
       /\ \A k \in 1..(n - 1) : Apply(c[k], x[k], o[k - 1], isReady).ctx
                                  = After(c[k], Passed(c, k - 1, w))
  <2>1. /\ \A k \in 0..(n - 1) : Passed(c, k, w) = Passed(c, k, d) \o o[k]
        /\ \A k \in 0..(n - 1) : Passed(c, k, w) \in Seq(Plain) =>
             Passed(c, k, d) \in Seq(Plain) /\ o[k] \in Seq(Plain)
        /\ \A k \in 1..(n - 1) : Apply(c[k], x[k], o[k - 1], isReady).ctx
                                   = After(c[k], Passed(c, k - 1, w))
    BY <1>7, <1>13, CarriesOn
  <2>2. n - 1 \in 0..(n - 1)
    BY <1>10
  <2>3. QED
    BY <1>14, <2>1, <2>2
<1>16. n - 1 \in 0..(n - 1)
  BY <1>10
<1>17. \A k \in 1..(n - 1) : \A s : ~StopsAt(c, k, s)
  BY <1>12 DEF StopsAt, RxStops, Stopping
<1>18. Rx(c, w).stops <=> RxStops(c[n], Passed(c, n - 1, w))
  <2>1. Rx(c, w).stops <=> \E k \in 1..n : StopsAt(c, k, w)
    BY <1>8, <1>9
  <2>2. \A k \in 1..n : k \in 1..(n - 1) \/ k = n
    BY <1>10
  <2>3. (\E k \in 1..n : StopsAt(c, k, w)) <=> StopsAt(c, n, w)
    BY <1>10, <1>17, <2>2
  <2>4. QED
    BY <2>1, <2>3 DEF StopsAt
<1>19. Clean(c, o)
  BY <1>15 DEF Clean, n
<1>20. \A k \in 1..(n - 1) : Left(o, c, x, isReady)[k]
                               = After(c[k], Passed(c, k - 1, w))
  BY <1>5, <1>11, <1>15
<1>21. /\ Passed(c, n, d) = RxOut(c[n], Passed(c, n - 1, d))
       /\ Passed(c, n, w) = RxOut(c[n], Passed(c, n - 1, w))
       /\ Passed(c, n, d) \in Seq(Items) /\ o[n] \in Seq(Items)
       /\ o[n] = Apply(c[n], x[n], o[n - 1], isReady).out
       /\ Left(o, c, x, isReady)[n] = Apply(c[n], x[n], o[n - 1], isReady).ctx
       /\ c[n].op # "buffer" => x[n] = After(c[n], Passed(c, n - 1, d))
  <2>1. n \in 0..n
    BY <1>10
  <2>2. QED
    BY <1>4, <1>5, <1>6, <1>8, <1>9, <1>10, <2>1
<1>22. ComesDown(c, d, b, x, isReady, o, n)
  <2>1. Passed(c, n - 1, d) \in Seq(Plain) /\ o[n - 1] \in Seq(Plain)
    BY <1>15, <1>16
  <2>2. QED
    BY <1>7, <1>15, <1>17, <1>18, <1>20, <1>21, <2>1 DEF ComesDown
<1>23. QED
  BY <1>19, <1>22 DEF n

(* Before the last stage no context tells more than what it was handed.    *)
LEMMA KeptUpAll ==
  ASSUME NEW c, NEW d, NEW y, NEW n \in Nat, n >= 1, n = Len(c),
         \A k \in 1..(n - 1) : y[k] = After(c[k], Passed(c, k - 1, d)),
         c[n].op # "buffer" => y[n] = After(c[n], Passed(c, n - 1, d))
  PROVE  KeptUp(c, d, y)
<1>1. \A k \in 1..n : k \in 1..(n - 1) \/ k = n
  OBVIOUS
<1>2. QED
  BY <1>1 DEF KeptUp

(* A last stage that carries on hands out what it adds.                    *)
LEMMA EndCarries ==
  ASSUME NEW c, NEW d, NEW b, NEW x, NEW isReady, NEW o,
         Goes(c, d, b, x, isReady, o), AsBuilt(c[Len(c)])
  PROVE  LET n == Len(c)
         IN  /\ Passed(c, n, d \o b) = Passed(c, n, d) \o o[n]
             /\ KeptUp(c, d \o b, Left(o, c, x, isReady))
             /\ ~Rx(c, d \o b).stops
             /\ Passed(c, n, d \o b) \in Seq(Plain) => o[n] \in Seq(Plain)
<1> DEFINE n == Len(c)
           y == Left(o, c, x, isReady)
<1>1. ComesDown(c, d, b, x, isReady, o, n)
  BY GoesDown
<1>2. n \in Nat /\ n >= 1
  <2>1. n \in Nat \ {0}
    BY DEF Goes, Shaped
  <2> HIDE DEF n
  <2> QED BY <2>1
<1>3. PICK stage : stage = c[n] /\ AsBuilt(stage)
  OBVIOUS
<1>4. PICK p \in Seq(Items), q \in Seq(Items) : p = Passed(c, n, d) /\ q = o[n]
  BY <1>1 DEF ComesDown
<1> HIDE DEF n, y
<1>5. PICK e \in Seq(Plain), f \in Seq(Plain) :
        /\ e = Passed(c, n - 1, d) /\ f = o[n - 1]
        /\ Passed(c, n - 1, d \o b) = e \o f
        /\ p = RxOut(stage, e)
        /\ Passed(c, n, d \o b) = RxOut(stage, e \o f)
        /\ \A k \in 1..(n - 1) : y[k] = After(c[k], Passed(c, k - 1, d \o b))
        /\ stage.op # "buffer" => x[n] = After(stage, e)
        /\ q = Apply(stage, x[n], f, isReady).out
        /\ y[n] = Apply(stage, x[n], f, isReady).ctx
        /\ Rx(c, d \o b).stops <=> RxStops(stage, e \o f)
  BY <1>1, <1>3, <1>4 DEF ComesDown, y
<1>6. stage.op # "buffer" /\ stage.op \notin Stopping
  BY <1>3 DEF AsBuilt, Carrier, CarryKinds, ItemKinds, Stopping
<1>7. Onward(stage, e, f, isReady)
  BY <1>3, GoesOn
<1>8. /\ RxOut(stage, e \o f) = p \o q
      /\ y[n] = After(stage, e \o f)
  BY <1>5, <1>6, <1>7 DEF Onward
<1>9. ~Rx(c, d \o b).stops
  BY <1>5, <1>6 DEF RxStops, Stopping
<1>10. KeptUp(c, d \o b, y)
  BY <1>2, <1>3, <1>5, <1>8, KeptUpAll DEF n
<1>11. p \o q \in Seq(Plain) => q \in Seq(Plain)
  BY PlainParts
<1>12. QED
  BY <1>4, <1>5, <1>8, <1>9, <1>10, <1>11 DEF n, y

(* A last stage that ends the stream hands out what it adds, and the token *)
(* when it has ended it.                                                   *)
LEMMA EndStops ==
  ASSUME NEW c, NEW d, NEW b, NEW x, NEW isReady, NEW o,
         Goes(c, d, b, x, isReady, o), Ender(c[Len(c)]),
         ~StopsAt(c, Len(c), d)
  PROVE  LET n == Len(c)
         IN  /\ Passed(c, n, d \o b) = Passed(c, n, d) \o UpToDone(o[n])
             /\ Rx(c, d \o b).stops <=> UpToDone(o[n]) # o[n]
             /\ ~Rx(c, d \o b).stops
                  => KeptUp(c, d \o b, Left(o, c, x, isReady))
<1> DEFINE n == Len(c)
           y == Left(o, c, x, isReady)
<1>1. ComesDown(c, d, b, x, isReady, o, n)
  BY GoesDown
<1>2. n \in Nat /\ n >= 1
  <2>1. n \in Nat \ {0}
    BY DEF Goes, Shaped
  <2> HIDE DEF n
  <2> QED BY <2>1
<1>3. PICK stage : stage = c[n] /\ Ender(stage)
  OBVIOUS
<1> HIDE DEF n, y
<1>4. PICK e \in Seq(Plain), f \in Seq(Plain) :
        /\ e = Passed(c, n - 1, d) /\ f = o[n - 1]
        /\ Passed(c, n - 1, d \o b) = e \o f
        /\ Passed(c, n, d) = RxOut(stage, e)
        /\ Passed(c, n, d \o b) = RxOut(stage, e \o f)
        /\ \A k \in 1..(n - 1) : y[k] = After(c[k], Passed(c, k - 1, d \o b))
        /\ stage.op # "buffer" => x[n] = After(stage, e)
        /\ o[n] = Apply(stage, x[n], f, isReady).out
        /\ y[n] = Apply(stage, x[n], f, isReady).ctx
        /\ Rx(c, d \o b).stops <=> RxStops(stage, e \o f)
  BY <1>1, <1>3 DEF ComesDown, y
<1>5. stage.op # "buffer"
  BY <1>3 DEF Ender, Stopping
<1>6. ~RxStops(stage, e)
  BY <1>3, <1>4 DEF StopsAt, n
<1>7. PICK a : a = Apply(stage, After(stage, e), f, isReady)
  OBVIOUS
<1>8. /\ RxOut(stage, e) = e
      /\ RxOut(stage, e \o f) = e \o UpToDone(a.out)
      /\ RxStops(stage, e \o f) <=> UpToDone(a.out) # a.out
      /\ ~RxStops(stage, e \o f) => a.ctx = After(stage, e \o f)
  <2>1. Ender(stage)
    BY <1>3
  <2>2. LET t == Apply(stage, After(stage, e), f, isReady)
        IN  /\ RxOut(stage, e) = e
            /\ RxOut(stage, e \o f) = e \o UpToDone(t.out)
            /\ RxStops(stage, e \o f) <=> UpToDone(t.out) # t.out
            /\ ~RxStops(stage, e \o f) => t.ctx = After(stage, e \o f)
    BY <1>6, <2>1, StopGoesOn
  <2>3. QED
    BY <1>7, <2>2
<1>9. o[n] = a.out /\ y[n] = a.ctx
  BY <1>4, <1>5, <1>7
<1>10. ~RxStops(stage, e \o f) => KeptUp(c, d \o b, y)
  BY <1>2, <1>3, <1>4, <1>8, <1>9, KeptUpAll DEF n
<1>11. QED
  BY <1>4, <1>8, <1>9, <1>10 DEF n, y

(* A buffer at the end keeps what it is handed, until the observable is    *)
(* ready.                                                                  *)
LEMMA EndHolds ==
  ASSUME NEW c, NEW d, NEW b, NEW x, NEW isReady, NEW o,
         Goes(c, d, b, x, isReady, o), c[Len(c)].op = "buffer"
  PROVE  LET n == Len(c)
             y == Left(o, c, x, isReady)
             f == o[n - 1]
         IN  /\ f \in Seq(Plain)
             /\ Passed(c, n - 1, d \o b) = Passed(c, n - 1, d) \o f
             /\ Passed(c, n - 1, d) \in Seq(Plain)
             /\ x[n] \in Seq(Items)
             /\ o[n] = IF isReady THEN x[n] \o f ELSE << >>
             /\ y[n] = IF isReady THEN << >> ELSE x[n] \o f
             /\ ~Rx(c, d \o b).stops
             /\ KeptUp(c, d \o b, y)
<1> DEFINE n == Len(c)
           y == Left(o, c, x, isReady)
           f == o[n - 1]
<1>1. ComesDown(c, d, b, x, isReady, o, n)
  BY GoesDown
<1>2. n \in Nat /\ n >= 1 /\ DOMAIN c = 1..n
  <2>1. n \in Nat \ {0} /\ DOMAIN c = 1..n
    BY DEF Goes, Shaped
  <2> HIDE DEF n
  <2> QED BY <2>1
<1>3. x[n] \in Seq(Items)
  <2>1. n \in DOMAIN c
    <3> HIDE DEF n
    <3> QED BY <1>2
  <2>2. ContextOK(c[n], x[n])
    BY <2>1 DEF Goes, CtxsOf
  <2>3. QED
    BY <2>2 DEF ContextOK
<1>4. PICK stage : stage = c[n] /\ stage.op = "buffer"
  OBVIOUS
<1> HIDE DEF n, y, f
<1>5. /\ Passed(c, n - 1, d) \in Seq(Plain) /\ f \in Seq(Plain)
      /\ Passed(c, n - 1, d \o b) = Passed(c, n - 1, d) \o f
      /\ \A k \in 1..(n - 1) : y[k] = After(c[k], Passed(c, k - 1, d \o b))
      /\ o[n] = Apply(stage, x[n], f, isReady).out
      /\ y[n] = Apply(stage, x[n], f, isReady).ctx
      /\ Rx(c, d \o b).stops <=> RxStops(stage, Passed(c, n - 1, d) \o f)
  BY <1>1, <1>4 DEF ComesDown, y, f
<1>6. PICK h, none : h = x[n] \o f /\ none = << >>
  OBVIOUS
<1>7. Apply(stage, x[n], f, isReady)
        = IF isReady THEN Result(h, none) ELSE Result(none, h)
  BY <1>4, <1>6 DEF Apply, BufferApply
<1>8. /\ o[n] = IF isReady THEN h ELSE none
      /\ y[n] = IF isReady THEN none ELSE h
  BY <1>5, <1>7, ResultFields
<1>9. ~Rx(c, d \o b).stops
  BY <1>4, <1>5 DEF RxStops
<1>10. KeptUp(c, d \o b, y)
  BY <1>2, <1>4, <1>5, KeptUpAll DEF n
<1>11. QED
  BY <1>3, <1>5, <1>6, <1>8, <1>9, <1>10 DEF n, y, f

-----------------------------------------------------------------------------
(* What is known of an observable with the chain c that was fed fed, has   *)
(* shown what it means for shown, has the contexts x and has emitted res.  *)
(* begun: something was fed to it; done: it is complete.                   *)
Tells(c, fed, shown, x, res, done, begun) ==
  LET n == Len(c)
      d == UpToDone(fed)
  IN  /\ ~done => KeptUp(c, d, x)
      /\ c[n].op # "buffer" => res = Passed(c, n, d)
      /\ c[n].op = "buffer" =>
           /\ shown \in Seq(Plain) /\ res = Passed(c, n - 1, shown)
           /\ ~done => res \o x[n] = Passed(c, n - 1, d)
           /\ done => ~begun
      /\ begun => (done <=> Rx(c, d).stops \/ d # fed)

LEMMA TellsAtFirst ==
  ASSUME NEW c, Shaped(c), NEW none \in Seq(Plain), Len(none) = 0,
         NEW x, x = [k \in DOMAIN c |-> NewContext(c[k])], NEW done
  PROVE  Tells(c, none, none, x, none, done, FALSE)
<1> DEFINE n == Len(c)
<1>1. n \in Nat \ {0} /\ DOMAIN c = 1..n
  BY DEF Shaped
<1>2. UpToDone(none) = none /\ none \in Seq(Items)
  BY PlainIsWhole
<1>3. /\ \A k \in 0..n : Passed(c, k, none) = none
      /\ KeptUp(c, none, x)
  BY NothingPassed
<1> HIDE DEF n
<1>4. n \in 0..n /\ n - 1 \in 0..n /\ n \in DOMAIN c
  <2>1. n \in Nat /\ n >= 1
    BY <1>1
  <2>2. QED
    BY <1>1, <2>1
<1>5. Passed(c, n, none) = none /\ Passed(c, n - 1, none) = none
  BY <1>3, <1>4
<1>6. ASSUME c[n].op = "buffer"
      PROVE  none \o x[n] = none
  <2>1. none = << >>
    OBVIOUS
  <2>2. x[n] = NewContext(c[n])
    BY <1>4
  <2>3. NewContext(c[n]) = << >>
    BY <1>6 DEF NewContext
  <2>4. QED
    BY <1>2, <2>1, <2>2, <2>3, ConcatEmptySeq
<1>7. QED
  BY <1>2, <1>3, <1>5, <1>6 DEF Tells, n

(* What has not ended the stream.                                          *)
LEMMA NotEnded ==
  ASSUME NEW c, Shaped(c), NEW d \in Seq(Plain), ~Rx(c, d).stops
  PROVE  ~StopsAt(c, Len(c), d)
<1>1. AccumReturns /\ c \in Seq(Readers) /\ Len(c) \in Nat \ {0} /\ d \in Seq(Items)
  BY PlainIsWhole DEF Shaped
<1>2. Rx(c, d).stops <=> \E k \in 1..Len(c) : StopsAt(c, k, d)
  BY <1>1, PassedOn
<1>3. Len(c) \in 1..Len(c)
  BY <1>1
<1>4. QED
  BY <1>2, <1>3

(* One batch more, on the generic path.                                    *)
LEMMA GenericEmits ==
  ASSUME NEW c, NEW d, NEW b, NEW x, NEW isReady, NEW o,
         Goes(c, d, b, x, isReady, o), c[Len(c)].op # "buffer",
         ~Rx(c, d).stops, PlainSoFar(c, Len(c), d \o b)
  PROVE  LET n == Len(c)
         IN  /\ Passed(c, n, d \o b) = Passed(c, n, d) \o UpToDone(o[n])
             /\ Rx(c, d \o b).stops <=> UpToDone(o[n]) # o[n]
             /\ ~Rx(c, d \o b).stops
                  => KeptUp(c, d \o b, Left(o, c, x, isReady))
<1> DEFINE n == Len(c)
<1>1. /\ Shaped(c) /\ d \in Seq(Plain) /\ n \in Nat \ {0}
      /\ AsBuilt(c[n]) \/ Ender(c[n])
  BY DEF Goes, Shaped
<1>2. CASE AsBuilt(c[n])
  <2>1. n \in 1..n
    <3> HIDE DEF n
    <3> QED BY <1>1
  <2>2. Passed(c, n, d \o b) \in Seq(Plain)
    BY <2>1 DEF PlainSoFar
  <2>3. /\ Passed(c, n, d \o b) = Passed(c, n, d) \o o[n]
        /\ KeptUp(c, d \o b, Left(o, c, x, isReady))
        /\ ~Rx(c, d \o b).stops
        /\ o[n] \in Seq(Plain)
    BY <1>2, <2>2, EndCarries
  <2>4. UpToDone(o[n]) = o[n]
    BY <2>3, PlainIsWhole
  <2>5. QED
    BY <2>3, <2>4
<1>3. CASE Ender(c[n])
  <2>1. ~StopsAt(c, n, d)
    BY <1>1, NotEnded
  <2>2. QED
    BY <1>3, <2>1, EndStops
<1>4. QED
  BY <1>1, <1>2, <1>3

(* How far down a chain the token must not get: a chain that streams hands *)
(* its values out without looking at them.                                 *)
Depth(c) == IF Streamable(Compile(c)) THEN Len(c) - 1 ELSE Len(c)

LEMMA TellsGeneric ==
  ASSUME NEW c, Shaped(c), NEW d \in Seq(Plain), NEW shown, NEW x \in CtxsOf(c),
         NEW res \in Seq(Items), NEW begun \in BOOLEAN, NEW no, no = FALSE,
         Tells(c, d, shown, x, res, no, begun), begun \/ Len(d) = 0,
         NEW b \in Seq(Plain), PlainSoFar(c, Len(c), d \o b),
         NEW isReady \in BOOLEAN,
         NEW r, r = GenericBatch(c, x, b, isReady)
  PROVE  Tells(c, d \o b, IF isReady THEN d \o b ELSE shown, r.ctx,
               res \o UpToDone(r.out), UpToDone(r.out) # r.out, TRUE)
<1> DEFINE n == Len(c)
<1>1. /\ AccumReturns /\ c \in Seq(Stages) /\ Callbacks(c)
      /\ n \in Nat \ {0} /\ b \in Seq(Items) /\ d \in Seq(Items)
      /\ UpToDone(d) = d
  BY PlainIsWhole DEF Shaped
<1>2. PICK w \in Seq(Plain) : w = d \o b /\ UpToDone(w) = w
  <2>1. d \o b \in Seq(Plain)
    OBVIOUS
  <2>2. QED
    BY <2>1, PlainIsWhole
<1>3. PICK o : /\ Outs(o, c, x, b, isReady)
               /\ GenericBatch(c, x, b, isReady)
                    = Result(o[n], Left(o, c, x, isReady))
  BY <1>1, GenericSteps
<1>4. PICK out, y : out = o[n] /\ y = Left(o, c, x, isReady)
  OBVIOUS
<1>5. r.out = out /\ r.ctx = y
  BY <1>3, <1>4, ResultFields
<1>6. /\ KeptUp(c, d, x)
      /\ c[n].op # "buffer" => res = Passed(c, n, d)
      /\ c[n].op = "buffer" =>
           /\ shown \in Seq(Plain) /\ res = Passed(c, n - 1, shown)
           /\ res \o x[n] = Passed(c, n - 1, d)
      /\ begun => ~Rx(c, d).stops
  BY <1>1 DEF Tells
<1>7. Goes(c, d, b, x, isReady, o)
  <2>1. PlainSoFar(c, n - 1, d \o b)
    <3>1. \A k \in 1..(n - 1) : k \in 1..n
      <4> HIDE DEF n
      <4> QED BY <1>1
    <3>2. QED
      BY <3>1 DEF PlainSoFar
  <2>2. QED
    BY <1>3, <1>6, <2>1 DEF Goes
<1>8. ~Rx(c, d).stops
  <2>1. CASE begun
    BY <1>6, <2>1
  <2>2. CASE Len(d) = 0
    <3>1. \A k \in 1..n : ~StopsAt(c, k, d)
      BY <2>2, NothingPassed
    <3>2. AccumReturns /\ c \in Seq(Readers)
      BY DEF Shaped
    <3>3. Rx(c, d).stops <=> \E k \in 1..n : StopsAt(c, k, d)
      BY <1>1, <3>2, PassedOn
    <3>4. QED
      BY <3>1, <3>3
  <2>3. QED
    BY <2>1, <2>2
<1> HIDE DEF n
<1>9. CASE c[n].op # "buffer"
  <2>1. /\ Passed(c, n, w) = Passed(c, n, d) \o UpToDone(out)
        /\ Rx(c, w).stops <=> UpToDone(out) # out
        /\ ~Rx(c, w).stops => KeptUp(c, w, y)
    BY <1>2, <1>4, <1>7, <1>8, <1>9, GenericEmits DEF n
  <2>2. QED
    BY <1>2, <1>5, <1>6, <1>9, <2>1 DEF Tells, n
<1>10. CASE c[n].op = "buffer"
  <2>1. PICK none \in Seq(Plain) : none = << >>
    <3>1. << >> \in Seq(Plain)
      OBVIOUS
    <3>2. QED
      BY <3>1
  <2>2. PICK f \in Seq(Plain), e \in Seq(Plain), h \in Seq(Items) :
          /\ f = o[n - 1] /\ e = Passed(c, n - 1, d) /\ h = x[n]
          /\ Passed(c, n - 1, w) = e \o f
          /\ out = IF isReady THEN h \o f ELSE none
          /\ y[n] = IF isReady THEN none ELSE h \o f
          /\ ~Rx(c, w).stops /\ KeptUp(c, w, y)
    <3>1. LET m == Len(c)
              z == Left(o, c, x, isReady)
              f == o[m - 1]
          IN  /\ f \in Seq(Plain)
              /\ Passed(c, m - 1, d \o b) = Passed(c, m - 1, d) \o f
              /\ Passed(c, m - 1, d) \in Seq(Plain)
              /\ x[m] \in Seq(Items)
              /\ o[m] = IF isReady THEN x[m] \o f ELSE << >>
              /\ z[m] = IF isReady THEN << >> ELSE x[m] \o f
              /\ ~Rx(c, d \o b).stops
              /\ KeptUp(c, d \o b, z)
      BY <1>7, <1>10, EndHolds DEF n
    <3>2. QED
      BY <1>2, <1>4, <2>1, <3>1 DEF n
  <2>3. res \o h = e /\ shown \in Seq(Plain) /\ res = Passed(c, n - 1, shown)
    BY <1>6, <1>10, <2>2
  <2>4. h \in Seq(Plain)
    BY <2>3, PlainParts
  <2>5. (res \o h) \o f = res \o (h \o f)
    <3>1. f \in Seq(Items)
      BY PlainIsWhole
    <3>2. QED
      BY <3>1, BatchesAssociate, SMTT(20)
  <2>6. res \o none = res
    BY <2>1, ConcatEmptySeq
  <2>7. UpToDone(out) = out
    <3>1. h \o f \in Seq(Plain)
      BY <2>4
    <3>2. out \in Seq(Plain)
      BY <2>1, <2>2, <3>1
    <3>3. QED
      BY <3>2, PlainIsWhole
  <2>8. PICK v : v = res \o out
    OBVIOUS
  <2>9. CASE isReady
    <3>1. v = e \o f /\ y[n] = none
      BY <2>2, <2>3, <2>5, <2>8, <2>9
    <3>2. v \o none = v
      <4>1. e \o f \in Seq(Items)
        BY PlainIsWhole
      <4>2. QED
        BY <2>1, <3>1, <4>1, ConcatEmptySeq
    <3>3. QED
      BY <1>2, <1>5, <1>10, <2>2, <2>7, <2>8, <2>9, <3>1, <3>2 DEF Tells, n
  <2>10. CASE ~isReady
    <3>1. v = res /\ y[n] = h \o f
      BY <2>2, <2>6, <2>8, <2>10
    <3>2. v \o y[n] = e \o f
      BY <2>3, <2>5, <3>1
    <3>3. QED
      BY <1>2, <1>5, <1>10, <2>2, <2>3, <2>7, <2>8, <2>10, <3>1, <3>2 DEF Tells, n
  <2>11. QED
    BY <2>9, <2>10
<1>11. QED
  BY <1>9, <1>10

(* What a streaming loop breaks at, it breaks at again.                    *)
LEMMA WholeUpToDone ==
  ASSUME NEW s \in Seq(Items)
  PROVE  UpToDone(s) \in Seq(Plain) /\ UpToDone(UpToDone(s)) = UpToDone(s)
<1>1. PICK e : e = UpToDone(s)
  OBVIOUS
<1>2. e \in Seq(Items) /\ \A i \in 1..Len(e) : e[i] = s[i] /\ s[i] # Done
  BY <1>1, UpToDoneType
<1>3. \A i \in 1..Len(e) : e[i] \in Plain
  BY <1>2 DEF Plain
<1>4. e \in Seq(Plain)
  BY <1>2, <1>3
<1>5. QED
  BY <1>1, <1>4, PlainIsWhole

LEMMA StreamsUpToDone ==
  ASSUME NEW c, NEW x, NEW s \in Seq(Items)
  PROVE  StreamBatch(c, Compile(c), x, s)
           = StreamBatch(c, Compile(c), x, UpToDone(s))
BY WholeUpToDone, Zenon DEF StreamBatch

(* One batch more, through the streaming loops.                            *)
LEMMA TellsStreaming ==
  ASSUME NEW c, Shaped(c), Streamable(Compile(c)),
         NEW d \in Seq(Plain), NEW shown, NEW shown2, NEW x \in CtxsOf(c),
         NEW res \in Seq(Items), NEW begun \in BOOLEAN, NEW no, no = FALSE,
         Tells(c, d, shown, x, res, no, begun),
         NEW items \in Seq(Items), PlainSoFar(c, Len(c) - 1, d \o UpToDone(items)),
         NEW r, r = StreamBatch(c, Compile(c), x, items)
  PROVE  /\ Tells(c, d \o items, shown2, r.ctx, res \o r.out,
                  UpToDone(items) # items, TRUE)
         /\ r.out \in Seq(Items)
<1> DEFINE n == Len(c)
<1>1. /\ AccumReturns /\ c \in Seq(Stages) /\ Callbacks(c)
      /\ n \in Nat \ {0} /\ d \in Seq(Items)
      /\ AsBuilt(c[n]) \/ Ender(c[n]) \/ c[n].op = "buffer"
      /\ UpToDone(d) = d /\ Streams(c)
  <2>1. /\ AccumReturns /\ c \in Seq(Stages) /\ Callbacks(c)
        /\ n \in Nat \ {0}
        /\ AsBuilt(c[n]) \/ Ender(c[n]) \/ c[n].op = "buffer"
    BY DEF Shaped
  <2>2. c # << >>
    BY <2>1
  <2>3. QED
    BY <2>1, <2>2, PlainIsWhole DEF Streams
<1>2. PICK b \in Seq(Plain) : b = UpToDone(items) /\ UpToDone(b) = b
  BY WholeUpToDone
<1>3. PICK w \in Seq(Plain) : w = d \o b
  <2>1. d \o b \in Seq(Plain)
    OBVIOUS
  <2>2. QED
    BY <2>1
<1>4. /\ UpToDone(d \o items) = w
      /\ w # d \o items <=> UpToDone(items) # items
  BY <1>1, <1>2, <1>3, DoneBehind
<1>5. n \in Nat /\ n >= 1 /\ n \in DOMAIN c /\ n \in 0..n
  <2>1. DOMAIN c = 1..n
    BY <1>1
  <2> HIDE DEF n
  <2>2. QED
    BY <1>1, <2>1
<1>6. AsBuilt(c[n]) /\ c[n].op \notin {"reduce", "last"} /\ c[n].op # "buffer"
  <2>1. c[n].op \in StreamableKinds
    <3>1. StreamsOps(c)
      BY <1>1, OpsStream
    <3>2. QED
      BY <1>5, <3>1 DEF StreamsOps
  <2>2. AsBuilt(c[n])
    BY <1>1, <2>1 DEF Ender, Stopping, StreamableKinds
  <2>3. QED
    BY <2>2 DEF AsBuilt, Carrier, CarryKinds, ItemKinds
<1>7. KeptUp(c, d, x) /\ res = Passed(c, n, d)
  BY <1>1, <1>6 DEF Tells
<1>8. PICK no2 : no2 = FALSE
  OBVIOUS
<1>9. ASSUME NEW o, Outs(o, c, x, b, no2)
      PROVE  Goes(c, d, b, x, no2, o) /\ Clean(c, o)
  <2>1. Goes(c, d, b, x, no2, o)
    BY <1>2, <1>7, <1>9 DEF Goes
  <2>2. QED
    BY <2>1, GoesDown
<1>10. StreamBatch(c, Compile(c), x, b) = GenericBatch(c, x, b, no2)
  <2>1. ~(c[Len(c)].op \in {"reduce", "last"})
    BY <1>6
  <2>2. QED
    BY <1>1, <1>9, <2>1, BatchesAgree
<1>11. b \in Seq(Items)
  BY PlainIsWhole
<1>12. PICK o : /\ Outs(o, c, x, b, no2)
                /\ GenericBatch(c, x, b, no2)
                     = Result(o[n], Left(o, c, x, no2))
  BY <1>1, <1>11, GenericSteps
<1>13. PICK out, y : out = o[n] /\ y = Left(o, c, x, no2)
  OBVIOUS
<1>14. r.out = out /\ r.ctx = y
  <2>1. r = Result(out, y)
    BY <1>2, <1>10, <1>12, <1>13, StreamsUpToDone
  <2>2. QED
    BY <2>1, ResultFields
<1>15. /\ Passed(c, n, w) = Passed(c, n, d) \o out
       /\ KeptUp(c, w, y) /\ ~Rx(c, w).stops
  BY <1>3, <1>6, <1>9, <1>12, <1>13, EndCarries
<1>16. out \in Seq(Items)
  <2>1. o \in [0..n -> Seq(Items)]
    BY <1>12 DEF Outs
  <2> HIDE DEF n
  <2>2. QED
    BY <1>5, <1>13, <2>1
<1>17. PICK done : done = (UpToDone(items) # items)
  OBVIOUS
<1>18. Tells(c, d \o items, shown2, r.ctx, res \o r.out, done, TRUE)
  BY <1>4, <1>6, <1>7, <1>14, <1>15, <1>17 DEF Tells
<1>19. QED
  BY <1>14, <1>16, <1>17, <1>18

(* What is told is what the reference says, of what is shown.              *)
LEMMA TellsReference ==
  ASSUME NEW c, Shaped(c), NEW fed \in Seq(Items), NEW shown, NEW x, NEW res,
         NEW done \in BOOLEAN, NEW begun, Tells(c, fed, shown, x, res, done, begun),
         NEW s, s = IF c[Len(c)].op = "buffer" THEN shown ELSE fed
  PROVE  /\ res = Rx(c, UpToDone(s)).out
         /\ begun => (done <=> Rx(c, UpToDone(s)).stops \/ UpToDone(s) # s)
<1> DEFINE n == Len(c)
<1>1. /\ AccumReturns /\ c \in Seq(Readers) /\ n \in Nat \ {0}
      /\ \A k \in 1..(n - 1) : AsBuilt(c[k])
  BY DEF Shaped
<1>2. CASE c[n].op # "buffer"
  <2>1. s = fed
    BY <1>2
  <2>2. UpToDone(fed) \in Seq(Items)
    BY UpToDoneType
  <2>3. Rx(c, UpToDone(fed)).out = Passed(c, n, UpToDone(fed))
    BY <1>1, <2>2, PassedOn
  <2>4. QED
    BY <1>2, <2>1, <2>3 DEF Tells
<1>3. CASE c[n].op = "buffer"
  <2>1. s = shown /\ shown \in Seq(Plain) /\ res = Passed(c, n - 1, shown)
        /\ (done => ~begun)
    BY <1>3 DEF Tells
  <2>2. shown \in Seq(Items) /\ UpToDone(shown) = shown
    BY <2>1, PlainIsWhole
  <2>3. /\ Rx(c, shown).out = Passed(c, n, shown)
        /\ \A k \in 1..n : Passed(c, k, shown) = RxOut(c[k], Passed(c, k - 1, shown))
        /\ Rx(c, shown).stops <=> \E k \in 1..n : StopsAt(c, k, shown)
    BY <1>1, <2>2, PassedOn
  <2> HIDE DEF n
  <2>4. n \in 1..n /\ \A k \in 1..n : k \in 1..(n - 1) \/ k = n
    BY <1>1
  <2>5. Rx(c, shown).out = res
    <3>1. Passed(c, n, shown) = RxOut(c[n], Passed(c, n - 1, shown))
      BY <2>3, <2>4
    <3>2. QED
      BY <1>3, <2>1, <2>3, <3>1 DEF RxOut
  <2>6. ~Rx(c, shown).stops
    <3>1. \A k \in 1..n : c[k].op \notin Stopping
      <4>1. \A k \in 1..(n - 1) : c[k].op \notin Stopping
        BY <1>1 DEF AsBuilt, Carrier, CarryKinds, ItemKinds, Stopping
      <4>2. QED
        BY <1>3, <2>4, <4>1 DEF Stopping
    <3>2. \A k \in 1..n : ~StopsAt(c, k, shown)
      BY <3>1 DEF StopsAt, RxStops, Stopping
    <3>3. QED
      BY <2>3, <3>2
  <2>7. QED
    BY <2>1, <2>2, <2>5, <2>6
<1>4. QED
  BY <1>2, <1>3

-----------------------------------------------------------------------------
(* The end of the stream for the observable that pipe was given already: a *)
(* chain is piped once, so only Pipe begins a new history of results.      *)
StaysComplete ==
  complete => complete' /\ (chain' = chain => Results' = Results)

(* pop_all looks at complete before anything else: it leaves the flag and  *)
(* the results alone, whatever it is handed.                               *)
LEMMA PopAllWhenDone ==
  ASSUME NEW items, NEW isReady, complete, PopAll(items, isReady)
  PROVE  complete' = complete /\ missed' = missed /\ delivered' = delivered
<1>1. Ignore(items, isReady)
  BY DEF PopAll
<1>2. QED
  BY <1>1 DEF Ignore, results

(* push_observable returns at once.                                        *)
LEMMA PushWhenDone ==
  ASSUME NEW v, complete, Push(v)
  PROVE  complete' = complete /\ missed' = missed /\ delivered' = delivered
BY DEF Push, results

(* Every call keeps the end: those that run pop_all by its own check, a    *)
(* push by one before it, and pipe because it touches neither the flag nor *)
(* a chain that is already there.                                          *)
LEMMA EndStep ==
  ASSUME [Next]_vars
  PROVE  StaysComplete
<1> SUFFICES ASSUME complete
             PROVE  complete' /\ (chain' = chain => Results' = Results)
  BY DEF StaysComplete
<1>1. ASSUME complete' = complete, missed' = missed, delivered' = delivered
      PROVE  complete' /\ (chain' = chain => Results' = Results)
  BY <1>1 DEF Results
<1>2. ASSUME NEW v \in Values \union {Done}, Push(v)
      PROVE  complete' /\ (chain' = chain => Results' = Results)
  BY <1>1, <1>2, PushWhenDone
<1>3. CASE Subscribe
  <2>1. \E items : PopAll(items, ready)
    BY <1>3 DEF Subscribe
  <2>2. QED
    BY <1>1, <2>1, PopAllWhenDone
<1>4. ASSUME NEW c \in Chains, Pipe(c)
      PROVE  complete' /\ (chain' = chain => Results' = Results)
  <2>1. complete' = complete /\ chain = << >> /\ chain' = c
    BY <1>4 DEF Pipe
  <2>2. chain' # chain
    BY <2>1, ObservableAssumption
  <2>3. QED
    BY <2>1, <2>2
<1>5. CASE Flush
  <2>1. PopAll(data, TRUE)
    BY <1>5 DEF Flush
  <2>2. QED
    BY <1>1, <2>1, PopAllWhenDone
<1>6. CASE FlushOne
  <2>1. \E items : PopAll(items, TRUE)
    BY <1>6 DEF FlushOne
  <2>2. QED
    BY <1>1, <2>1, PopAllWhenDone
<1>7. CASE UNCHANGED vars
  BY <1>1, <1>7 DEF vars, fields, results
<1>8. QED
  BY <1>2, <1>3, <1>4, <1>5, <1>6, <1>7 DEF Next

(* An observable that is complete stays so and emits nothing more, for any *)
(* items, sources and chains, whatever the callbacks compute and however   *)
(* often it is pushed to, subscribed to or flushed (observable.c).         *)
THEOREM EndIsFinal == Spec => CompletionIsFinal
<1>1. [Next]_vars => StaysComplete
  BY EndStep
<1>2. QED
  BY <1>1, PTL DEF Spec, CompletionIsFinal, StaysComplete

-----------------------------------------------------------------------------
(* Types.  The callbacks of a program take items and return items.         *)
CallbacksReturn == AccumReturns /\ \A c \in Chains : Callbacks(c)

(* The contexts are those of the chain, and what is compiled is the chain. *)
CompiledOnce ==
  /\ compiled = << >> \/ compiled = Compile(chain)
  /\ chain = << >> => compiled = << >>

Inv == TypeOK /\ ctxs \in CtxsOf(chain) /\ CompiledOnce

LEMMA ChainIsOne ==
  ASSUME TypeOK, CallbacksReturn
  PROVE  chain \in Seq(Stages) /\ Callbacks(chain)
<1>1. CASE chain \in Chains
  BY <1>1, ObservableAssumption DEF CallbacksReturn, Stages
<1>2. CASE chain = << >>
  <2>1. << >> \in Seq(Stages) /\ DOMAIN << >> = {}
    OBVIOUS
  <2>2. QED
    BY <1>2, <2>1 DEF Callbacks
<1>3. QED
  BY <1>1, <1>2 DEF TypeOK

(* What pop_all may leave behind.                                          *)
Leaves ==
  /\ data' \in Seq(Items) /\ delivered' \in Seq(Items) /\ missed' \in Seq(Items)
  /\ complete' \in BOOLEAN /\ ready' \in BOOLEAN
  /\ ctxs' \in CtxsOf(chain)
  /\ compiled' = compiled \/ (chain # << >> /\ compiled' = Compile(chain))
  /\ batches' \in Seq(Seq(Items))

LEMMA EmitType ==
  ASSUME TypeOK, NEW values \in Seq(Items), Emit(values)
  PROVE  delivered' \in Seq(Items) /\ missed' \in Seq(Items)
<1>1. delivered \in Seq(Items) /\ missed \in Seq(Items)
  BY DEF TypeOK
<1>2. delivered \o values \in Seq(Items) /\ missed \o values \in Seq(Items)
  BY <1>1
<1>3. \/ delivered' = delivered \o values /\ missed' = missed
      \/ missed' = missed \o values /\ delivered' = delivered
  BY DEF Emit
<1>4. QED
  BY <1>1, <1>2, <1>3

LEMMA DrainType ==
  ASSUME TypeOK, NEW items \in Seq(Items), Drain(items)
  PROVE  /\ data' \in Seq(Items) /\ delivered' \in Seq(Items)
         /\ missed' \in Seq(Items) /\ complete' \in BOOLEAN /\ ready' \in BOOLEAN
<1> DEFINE I == {i \in 1..Len(items) : items[i] = Done}
           n == FirstOf(I)
<1>1. n \in 0..Len(items)
  <2>1. Len(items) \in Nat
    OBVIOUS
  <2>2. QED
    BY <2>1, FirstPosition
<1>2. /\ Emit(UpToDone(items)) /\ complete' = (n # 0) /\ ready' = FALSE
      /\ data' = IF n = 0 THEN << >> ELSE From(items, n + 1)
  BY DEF Drain, FirstIndex, SelectInSeq, FirstOf
<1>3. UpToDone(items) \in Seq(Items)
  BY UpToDoneType
<1> HIDE DEF n
<1>4. data' \in Seq(Items)
  <2>1. << >> \in Seq(Items)
    OBVIOUS
  <2>2. From(items, n + 1) \in Seq(Items)
    BY <1>1, PieceType DEF From
  <2>3. QED
    BY <1>2, <2>1, <2>2
<1>5. QED
  BY <1>2, <1>3, <1>4, EmitType

(* Whatever streams runs through stages the streaming loops know.          *)
LEMMA StreamableType ==
  ASSUME NEW c \in Seq(Stages), Streamable(Compile(c))
  PROVE  Compile(c) \in Seq(StreamedStages(c))
<1>1. Compile(c) \in Seq(CompiledStages(c))
  BY CompileType
<1>2. \A i \in DOMAIN Compile(c) : Compile(c)[i].kind \in StreamableKinds
  BY DEF Streamable
<1> DEFINE s == Compile(c)
<1> HIDE DEF s
<1>3. \A i \in 1..Len(s) : s[i] \in StreamedStages(c)
  BY <1>1, <1>2 DEF StreamedStages, s
<1>4. s \in [1..Len(s) -> StreamedStages(c)] /\ Len(s) \in Nat
  BY <1>1, <1>3 DEF s
<1>5. QED
  BY <1>4 DEF s

LEMMA PopAllType ==
  ASSUME CallbacksReturn, Inv,
         NEW items \in Seq(Items), NEW isReady \in BOOLEAN,
         PopAll(items, isReady)
  PROVE  Leaves
<1>1. TypeOK /\ ctxs \in CtxsOf(chain) /\ CompiledOnce
  BY DEF Inv
<1>2. chain \in Seq(Stages) /\ Callbacks(chain) /\ AccumReturns
  BY <1>1, ChainIsOne DEF CallbacksReturn
<1>3. /\ delivered \in Seq(Items) /\ missed \in Seq(Items)
      /\ batches \in Seq(Seq(Items)) /\ complete \in BOOLEAN
  BY <1>1 DEF TypeOK
<1>4. CASE Ignore(items, isReady)
  BY <1>1, <1>3, <1>4 DEF Ignore, results, Leaves
<1>5. ASSUME batches' = Append(batches, items)
      PROVE  batches' \in Seq(Seq(Items))
  BY <1>3, <1>5
<1>6. CASE batches' = Append(batches, items) /\ DrainBare(items)
  <2>1. Drain(items) /\ ctxs' = ctxs /\ compiled' = compiled
    BY <1>6 DEF DrainBare
  <2>2. QED
    BY <1>1, <1>5, <1>6, <2>1, DrainType DEF Leaves
<1>7. ASSUME chain # << >>
      PROVE  Compiled = Compile(chain)
  BY <1>1 DEF Compiled, CompiledOnce
<1>8. CASE batches' = Append(batches, items) /\ DrainStreaming(items, isReady)
  <2>1. /\ chain # << >> /\ Streamable(Compiled) /\ compiled' = Compiled
        /\ complete' = (UpToDone(items) # items)
        /\ data' = << >> /\ ready' = isReady
    BY <1>8 DEF DrainStreaming
  <2>2. Compiled = Compile(chain) /\ Compile(chain) \in Seq(StreamedStages(chain))
    BY <1>2, <1>7, <2>1, StreamableType
  <2>3. PICK r \in Outcomes(chain) :
          r = StreamBatch(chain, Compiled, ctxs, items)
    BY <1>1, <1>2, <2>2, StreamBatchType
  <2>4. Emit(r.out) /\ ctxs' = r.ctx
    BY <1>8, <2>3 DEF DrainStreaming
  <2>5. r.out \in Seq(Items) /\ r.ctx \in CtxsOf(chain) /\ << >> \in Seq(Items)
    BY DEF Outcomes
  <2>6. delivered' \in Seq(Items) /\ missed' \in Seq(Items)
    BY <1>1, <2>4, <2>5, EmitType
  <2>7. QED
    BY <1>5, <1>8, <2>1, <2>2, <2>4, <2>5, <2>6 DEF Leaves
<1>9. CASE batches' = Append(batches, items) /\ DrainGeneric(items, isReady)
  <2>1. chain # << >> /\ compiled' = Compiled
    BY <1>9 DEF DrainGeneric
  <2>2. Compiled = Compile(chain)
    BY <1>7, <2>1
  <2>3. PICK r \in Outcomes(chain) : r = GenericBatch(chain, ctxs, items, isReady)
    BY <1>1, <1>2, GenericType
  <2>4. Drain(r.out) /\ ctxs' = r.ctx
    BY <1>9, <2>3 DEF DrainGeneric
  <2>5. r.out \in Seq(Items) /\ r.ctx \in CtxsOf(chain)
    BY DEF Outcomes
  <2>6. QED
    BY <1>1, <1>5, <1>9, <2>1, <2>2, <2>4, <2>5, DrainType DEF Leaves
<1>10. QED
  BY <1>4, <1>6, <1>8, <1>9 DEF PopAll

(* A new observable has no chain, and what its constructor filled in.      *)
LEMMA NoContexts ==
  << >> \in CtxsOf(<< >>) /\ DOMAIN << >> = {} /\ << >> \in Seq(Items)
<1>1. DOMAIN << >> = {} /\ << >> = [i \in {} |-> 0]
  OBVIOUS
<1>2. << >> \in [{} -> Contexts]
  BY <1>1
<1>3. << >> \in Seq(Items)
  OBVIOUS
<1>4. QED
  BY <1>1, <1>2, <1>3 DEF CtxsOf

LEMMA TypesInit ==
  ASSUME Init
  PROVE  Inv
<1>1. PICK s \in Sources : /\ data = s.data /\ complete = s.complete
                           /\ deferred = s.deferred
  BY DEF Init
<1>2. /\ data \in Seq(Items) /\ complete \in BOOLEAN /\ deferred \in BOOLEAN
      /\ MaxPushes \in Nat /\ MaxFlushes \in Nat
  BY <1>1, ObservableAssumption
<1>3. /\ ready = FALSE /\ subscribed = FALSE
      /\ chain = << >> /\ ctxs = << >> /\ compiled = << >>
      /\ pushes = 0 /\ batches = << >> /\ flushes = << >>
      /\ missed = << >> /\ delivered = << >>
  BY DEF Init
<1>4. TypeOK
  <2>1. /\ << >> \in Seq(Seq(Items)) /\ << >> \in Seq(Nat) /\ Len(<< >>) = 0
        /\ 0 \in 0..MaxPushes
    BY <1>2
  <2>2. {complete, ready, deferred, subscribed} \subseteq BOOLEAN
    BY <1>2, <1>3
  <2>3. chain \in Chains \union {<< >>} /\ DOMAIN ctxs = DOMAIN chain
        /\ \A i \in DOMAIN chain : ContextOK(chain[i], ctxs[i])
    BY <1>3, NoContexts
  <2>4. QED
    BY <1>2, <1>3, <2>1, <2>2, <2>3, NoContexts DEF TypeOK
<1>5. QED
  BY <1>3, <1>4, NoContexts DEF Inv, CompiledOnce

(* pop_all leaves the fields so; its callers see to the rest.              *)
LEMMA LeavesInv ==
  ASSUME CallbacksReturn, Inv, Leaves, chain' = chain,
         deferred' \in BOOLEAN, subscribed' \in BOOLEAN,
         pushes' \in 0..MaxPushes,
         flushes' \in Seq(Nat), Len(flushes') <= MaxFlushes
  PROVE  Inv'
<1>1. CompiledOnce'
  <2>1. compiled' = compiled \/ (chain # << >> /\ compiled' = Compile(chain))
    BY DEF Leaves
  <2>2. QED
    BY <2>1 DEF CompiledOnce, Inv
<1>2. (ctxs \in CtxsOf(chain))'
  BY DEF Leaves
<1>3. /\ DOMAIN ctxs' = DOMAIN chain'
      /\ \A i \in DOMAIN chain' : ContextOK(chain'[i], ctxs'[i])
  BY <1>2 DEF CtxsOf
<1>4. chain' \in Chains \union {<< >>}
  BY DEF Inv, TypeOK
<1>5. {complete', ready', deferred', subscribed'} \subseteq BOOLEAN
  BY DEF Leaves
<1>6. TypeOK'
  BY <1>3, <1>4, <1>5 DEF Leaves, TypeOK
<1>7. QED
  BY <1>1, <1>2, <1>6 DEF Inv

LEMMA PipeType ==
  ASSUME Inv, NEW c \in Chains, Pipe(c)
  PROVE  Inv'
<1>1. /\ chain = << >> /\ chain' = c
      /\ ctxs' = [i \in DOMAIN c |-> NewContext(c[i])]
      /\ ready' = IF \E i \in DOMAIN c : c[i].op \in {"buffer", "throttleTime"}
                  THEN FALSE ELSE ready
      /\ batches' = << >> /\ missed' = << >> /\ delivered' = << >>
      /\ UNCHANGED << data, complete, deferred, subscribed, compiled, pushes,
                      flushes >>
  BY DEF Pipe
<1>2. c \in Seq(Stages) /\ c # << >>
  BY ObservableAssumption DEF Stages
<1>3. ASSUME NEW i \in DOMAIN c
      PROVE  ContextOK(c[i], NewContext(c[i])) /\ NewContext(c[i]) \in Contexts
  <2>1. c[i] \in Stages
    BY <1>2
  <2>2. QED
    BY <2>1, NewContextOK, ContextIsOne
<1>4. ctxs' \in CtxsOf(c)
  BY <1>1, <1>3 DEF CtxsOf
<1>5. ready' \in BOOLEAN
  BY <1>1 DEF Inv, TypeOK
<1>6. CompiledOnce'
  BY <1>1, <1>2 DEF Inv, CompiledOnce
<1>7. TypeOK'
  <2>1. << >> \in Seq(Items) /\ << >> \in Seq(Seq(Items))
    OBVIOUS
  <2>2. DOMAIN ctxs' = DOMAIN c /\ \A i \in DOMAIN c : ContextOK(c[i], ctxs'[i])
    BY <1>4 DEF CtxsOf
  <2>3. {complete', ready', deferred', subscribed'} \subseteq BOOLEAN
    BY <1>1, <1>5 DEF Inv, TypeOK
  <2>4. /\ data' \in Seq(Items) /\ pushes' \in 0..MaxPushes
        /\ flushes' \in Seq(Nat) /\ Len(flushes') <= MaxFlushes
    BY <1>1 DEF Inv, TypeOK
  <2>5. QED
    BY <1>1, <2>1, <2>2, <2>3, <2>4 DEF TypeOK
<1>8. QED
  BY <1>1, <1>4, <1>6, <1>7 DEF Inv

(* Every call keeps the invariant.                                         *)
LEMMA TypesStep ==
  ASSUME CallbacksReturn, Inv, [Next]_vars
  PROVE  Inv'
<1>1. /\ data \in Seq(Items) /\ ready \in BOOLEAN /\ complete \in BOOLEAN
      /\ deferred \in BOOLEAN /\ subscribed \in BOOLEAN
      /\ delivered \in Seq(Items) /\ missed \in Seq(Items)
      /\ batches \in Seq(Seq(Items)) /\ ctxs \in CtxsOf(chain)
      /\ pushes \in 0..MaxPushes
      /\ flushes \in Seq(Nat) /\ Len(flushes) <= MaxFlushes
      /\ MaxPushes \in Nat /\ MaxFlushes \in Nat
  BY ObservableAssumption DEF Inv, TypeOK
<1>2. ASSUME NEW v \in Values \union {Done}, Push(v)
      PROVE  Inv'
  <2>1. /\ pushes < MaxPushes /\ pushes' = pushes + 1
        /\ UNCHANGED << deferred, subscribed, chain, flushes >>
    BY <1>2 DEF Push
  <2>2. Append(data, v) \in Seq(Items)
    BY <1>1, ObservableAssumption
  <2>3. Leaves
    BY <1>1, <1>2, <2>2, PopAllType DEF Push, Leaves, results
  <2>4. pushes' \in 0..MaxPushes
    BY <1>1, <2>1
  <2>5. QED
    BY <1>1, <2>1, <2>3, <2>4, LeavesInv
<1>3. CASE Subscribe
  <2>1. /\ subscribed' = TRUE /\ UNCHANGED << deferred, chain, flushes >>
        /\ \/ /\ pushes < MaxPushes /\ pushes' = pushes + 1
              /\ PopAll(Append(data, Made), ready)
           \/ pushes' = pushes /\ PopAll(data, ready)
    BY <1>3 DEF Subscribe
  <2>2. Append(data, Made) \in Seq(Items)
    BY <1>1, ObservableAssumption
  <2>3. Leaves
    BY <1>1, <2>1, <2>2, PopAllType
  <2>4. pushes' \in 0..MaxPushes
    BY <1>1, <2>1
  <2>5. QED
    BY <1>1, <2>1, <2>3, <2>4, LeavesInv
<1>4. ASSUME NEW c \in Chains, Pipe(c)
      PROVE  Inv'
  BY <1>4, PipeType
<1>5. ASSUME NEW items \in Seq(Items), PopAll(items, TRUE),
             UNCHANGED << deferred, subscribed, chain, pushes >>,
             Len(flushes) < MaxFlushes,
             flushes' = Append(flushes, Len(batches'))
      PROVE  Inv'
  <2>1. Leaves
    BY <1>5, PopAllType
  <2>2. Len(batches') \in Nat
    BY <2>1 DEF Leaves
  <2>3. flushes' \in Seq(Nat) /\ Len(flushes') <= MaxFlushes
    BY <1>1, <1>5, <2>2
  <2>4. QED
    BY <1>1, <1>5, <2>1, <2>3, LeavesInv
<1>6. CASE Flush
  BY <1>1, <1>5, <1>6 DEF Flush
<1>7. CASE FlushOne
  <2>1. (IF Len(data) > 1 THEN SubSeq(data, 1, 1) ELSE data) \in Seq(Items)
    BY <1>1
  <2>2. QED
    BY <1>5, <1>7, <2>1 DEF FlushOne
<1>8. CASE UNCHANGED vars
  BY <1>1, <1>8, LeavesInv DEF vars, fields, results, Leaves
<1>9. QED
  BY <1>2, <1>3, <1>4, <1>6, <1>7, <1>8 DEF Next

(* Every field of an observable and every context of its chain keeps its   *)
(* type: items stay items through all seventeen operators, on both paths   *)
(* of pop_all, however the source's items are cut into batches, whatever   *)
(* the callbacks return.  The contexts go from one batch to the next by    *)
(* position (observable.c, create_query and the apply functions).          *)
THEOREM TypesHold ==
  ASSUME CallbacksReturn
  PROVE  Spec => []TypeOK
<1>1. Init => Inv
  BY TypesInit
<1>2. Inv /\ [Next]_vars => Inv'
  BY TypesStep
<1>3. Inv => TypeOK
  BY DEF Inv
<1>4. QED
  BY <1>1, <1>2, <1>3, PTL DEF Spec

-----------------------------------------------------------------------------
(* The two paths.  What the first k stages make of a batch.                *)
Handed(k, batch) ==
  GenericBatch(SubSeq(chain, 1, k), SubSeq(ctxs, 1, k), batch, FALSE).out

(* No stage hands the token to the next one: the callbacks, none of which  *)
(* knows of it, return it for none of these items.                         *)
TokenFree(batch) ==
  \A k \in 1..(Len(chain) - 1) :
    \A i \in DOMAIN Handed(k, batch) : Handed(k, batch)[i] # Done

(* As PathsAgree, of a batch of any length.                                *)
OneFunction(batch) ==
  \/ StreamBatch(chain, Compile(chain), ctxs, batch)
       = GenericBatch(chain, ctxs, batch, FALSE)
  \/ /\ Last(chain).op \in Aggregating
     /\ GenericBatch(Front(chain), Front(ctxs), batch, FALSE).out = << >>

StreamingAgrees ==
  chain # << >> /\ Streamable(Compile(chain)) =>
    \A batch \in Seq(Plain) : TokenFree(batch) => OneFunction(batch)

LEMMA ProbesArePlain == Probes \subseteq Seq(Plain)
<1>1. Values \subseteq Plain
  BY ObservableAssumption DEF Plain
<1>2. ASSUME NEW n \in 1..2, NEW b \in [1..n -> Values]
      PROVE  b \in Seq(Plain)
  <2>1. n \in Nat /\ b \in [1..n -> Plain]
    BY <1>1
  <2>2. QED
    BY <2>1
<1>3. QED
  BY <1>2 DEF Probes

(* What keeps the stages clean of the token.                               *)
LEMMA TokenFreeIsClean ==
  ASSUME Streams(chain), ctxs \in CtxsOf(chain), NEW batch \in Seq(Plain),
         TokenFree(batch), NEW isReady, isReady = FALSE,
         NEW o, Outs(o, chain, ctxs, batch, isReady)
  PROVE  Clean(chain, o)
<1> DEFINE n == Len(chain)
<1>1. /\ chain \in Seq(Stages) /\ Callbacks(chain) /\ AccumReturns
      /\ n \in Nat /\ batch \in Seq(Items)
  BY PlainIsWhole DEF Streams
<1> SUFFICES ASSUME NEW k \in 0..(n - 1)
             PROVE  o[k] \in Seq(Plain)
  BY DEF Clean
<1>2. CASE k = 0
  BY <1>2 DEF Outs
<1>3. CASE k # 0
  <2> DEFINE e == SubSeq(chain, 1, k)
             y == SubSeq(ctxs, 1, k)
  <2>1. k \in 0..n /\ k \in 1..(n - 1)
    BY <1>1, <1>3
  <2>2. /\ e \in Seq(Stages) /\ Callbacks(e) /\ Len(e) = k
        /\ y \in CtxsOf(e) /\ Alike(chain, e, ctxs, y, k)
    BY <1>1, <2>1, BeginningOf
  <2> HIDE DEF e, y
  <2>3. PICK p : /\ Outs(p, e, y, batch, isReady)
                 /\ GenericBatch(e, y, batch, isReady)
                      = Result(p[Len(e)], Left(p, e, y, isReady))
    BY <1>1, <2>2, GenericSteps
  <2>4. o[k] = p[k]
    BY <2>2, <2>3, OutsAgree
  <2>5. Handed(k, batch) = o[k]
    <3>1. Handed(k, batch) = GenericBatch(e, y, batch, isReady).out
      BY DEF Handed, e, y
    <3>2. GenericBatch(e, y, batch, isReady).out = p[k]
      BY <2>2, <2>3, ResultFields
    <3>3. QED
      BY <2>4, <3>1, <3>2
  <2>6. o[k] \in Seq(Items)
    BY <2>1 DEF Outs
  <2>7. \A i \in DOMAIN o[k] : o[k][i] # Done
    BY <2>1, <2>5 DEF TokenFree
  <2>8. QED
    <3>1. PICK b : b = o[k]
      OBVIOUS
    <3>2. b \in Seq(Items) /\ \A i \in 1..Len(b) : b[i] \in Plain
      BY <2>6, <2>7, <3>1 DEF Plain
    <3>3. QED
      BY <3>1, <3>2
<1>4. QED
  BY <1>2, <1>3

LEMMA InvAgrees ==
  ASSUME CallbacksReturn, Inv
  PROVE  StreamingAgrees
<1> SUFFICES ASSUME chain # << >>, Streamable(Compile(chain)),
                    NEW batch \in Seq(Plain), TokenFree(batch)
             PROVE  OneFunction(batch)
  BY DEF StreamingAgrees
<1>1. Streams(chain) /\ ctxs \in CtxsOf(chain)
  <2>1. TypeOK /\ ctxs \in CtxsOf(chain)
    BY DEF Inv
  <2>2. chain \in Seq(Stages) /\ Callbacks(chain)
    BY <2>1, ChainIsOne
  <2>3. QED
    BY <2>1, <2>2 DEF Streams, CallbacksReturn
<1>2. \A o : Outs(o, chain, ctxs, batch, FALSE) => Clean(chain, o)
  BY <1>1, TokenFreeIsClean
<1>3. \/ StreamBatch(chain, Compile(chain), ctxs, batch)
           = GenericBatch(chain, ctxs, batch, FALSE)
      \/ /\ chain[Len(chain)].op \in {"reduce", "last"}
         /\ GenericBatch(Front(chain), Front(ctxs), batch, FALSE).out = << >>
  BY <1>1, <1>2, BatchesAgree
<1>4. QED
  BY <1>3 DEF OneFunction, Aggregating, Last

(* The compiled pipeline computes what the Queries compute, for every      *)
(* chain that streams, in whatever state its contexts are, and every batch *)
(* in which no stage hands on the token (pop_all_streaming_compiled        *)
(* against the loop over emit_handlers, observable.c).                     *)
THEOREM StreamingIsGeneric ==
  ASSUME CallbacksReturn
  PROVE  Spec => []StreamingAgrees
<1>1. Init => Inv
  BY TypesInit
<1>2. Inv /\ [Next]_vars => Inv'
  BY TypesStep
<1>3. Inv => StreamingAgrees
  BY InvAgrees
<1>4. QED
  BY <1>1, <1>2, <1>3, PTL DEF Spec

(* PathsAgree holds wherever the token stays out of the batches it tries.  *)
THEOREM PathsAgreeHolds ==
  ASSUME CallbacksReturn
  PROVE  Spec => []((\A batch \in Probes : TokenFree(batch)) => PathsAgree)
<1>1. Init => Inv
  BY TypesInit
<1>2. Inv /\ [Next]_vars => Inv'
  BY TypesStep
<1>3. ASSUME Inv
      PROVE  (\A batch \in Probes : TokenFree(batch)) => PathsAgree
  <2>1. StreamingAgrees
    BY <1>3, InvAgrees
  <2>2. QED
    BY <2>1, ProbesArePlain DEF StreamingAgrees, OneFunction, PathsAgree
<1>4. QED
  BY <1>1, <1>2, <1>3, PTL DEF Spec

-----------------------------------------------------------------------------
(* What a chain emits, over all its batches.  The callbacks of its         *)
(* distinctUntilChanged stages give no NULL key: the code starts with NULL *)
(* for the last key and would drop a first item that has it                *)
(* (observable.c, distinctUntilChanged and its apply function).            *)
KeysTell == \A c \in Chains : \A i \in DOMAIN c : KeyTells(c[i])

(* The end is known from what was fed, and what was emitted and kept is    *)
(* what one batch of it all would leave.  Without a chain the items go     *)
(* straight through.                                                       *)
EndIsFed == batches # << >> => (complete <=> UpToDone(Fed) # Fed)

(* Only a subscriber is delivered anything.                                *)
NoneDelivered == ~subscribed => delivered = << >>

(* Everything fed, as a fold; nothing is fed before the first batch.       *)
LEMMA FedIs ==
  ASSUME batches \in Seq(Seq(Items))
  PROVE  Fed = FlattenSeq(batches) /\ Fed \in Seq(Items)
<1>1. SubSeq(batches, 1, Len(batches)) = batches
  BY SubSeqFull
<1>2. QED
  BY <1>1, FlattenType DEF Fed, FedUpTo

LEMMA NothingFed ==
  ASSUME batches = << >>
  PROVE  Fed = << >> /\ UpToDone(Fed) = Fed
<1>1. batches \in Seq(Seq(Items)) /\ Len(batches) = 0
  BY Zenon, EmptySeq
<1>2. Fed = << >>
  BY <1>1, FedIs DEF FlattenSeq
<1>3. << >> \in Seq(Plain)
  OBVIOUS
<1>4. QED
  BY <1>2, <1>3, PlainIsWhole

(* pop_all hands its values to one of two histories, and to the first of   *)
(* them only while nobody has subscribed.                                  *)
LEMMA EmitAppends ==
  ASSUME TypeOK, NoneDelivered, subscribed => subscribed',
         NEW values \in Seq(Items), Emit(values)
  PROVE  Results' = Results \o values /\ NoneDelivered'
<1>1. missed \in Seq(Items) /\ delivered \in Seq(Items)
  BY DEF TypeOK
<1>2. CASE subscribed'
  <2>1. delivered' = delivered \o values /\ missed' = missed
    BY <1>2 DEF Emit
  <2>2. (missed \o delivered) \o values = missed \o (delivered \o values)
    BY <1>1, ConcatAssociative
  <2>3. QED
    BY <1>2, <2>1, <2>2 DEF Results, NoneDelivered
<1>3. CASE ~subscribed'
  <2>1. /\ missed' = missed \o values /\ delivered' = delivered
        /\ delivered = << >>
    BY <1>3 DEF Emit, NoneDelivered
  <2>2. missed \o << >> = missed /\ (missed \o values) \o << >> = missed \o values
    <3>1. missed \o values \in Seq(Items)
      BY <1>1
    <3>2. QED
      BY <1>1, <3>1, ConcatEmptySeq
  <2>3. QED
    BY <2>1, <2>2 DEF Results, NoneDelivered
<1>4. QED
  BY <1>2, <1>3

LEMMA FedOneMore ==
  ASSUME batches \in Seq(Seq(Items)), NEW items \in Seq(Items),
         batches' = Append(batches, items), UpToDone(Fed) = Fed
  PROVE  /\ Fed' = Fed \o items /\ batches' # << >>
         /\ UpToDone(Fed') = Fed \o UpToDone(items)
         /\ UpToDone(Fed') # Fed' <=> UpToDone(items) # items
<1>1. Fed = FlattenSeq(batches) /\ Fed \in Seq(Items)
  BY FedIs
<1>2. batches' \in Seq(Seq(Items)) /\ batches' # << >>
  OBVIOUS
<1>3. Fed' = FlattenSeq(batches')
  <2>1. SubSeq(batches', 1, Len(batches')) = batches'
    BY <1>2, SubSeqFull
  <2>2. QED
    BY <2>1 DEF Fed, FedUpTo
<1>4. Fed' = Fed \o items
  BY <1>1, <1>3, FlattenAppend
<1>5. QED
  BY <1>1, <1>2, <1>4, DoneBehind

(* What has been fed to an observable that is not complete is no token.    *)
LEMMA FedIsWhole ==
  ASSUME EndIsFed, ~complete
  PROVE  UpToDone(Fed) = Fed
<1>1. CASE batches = << >>
  BY <1>1, NothingFed
<1>2. CASE batches # << >>
  BY <1>2 DEF EndIsFed
<1>3. QED
  BY <1>1, <1>2

(* take(0) never sees the count it waits for and lets everything through.  *)
TakesSome ==
  \A c \in Chains : \A i \in DOMAIN c : c[i].op = "take" => c[i].arg > 0

(* The chains EmitsReference compares.                                     *)
ComparableChain(c) ==
  /\ c # << >>
  /\ Ops(c) \intersect (Aggregating \union {"throttleTime"}) = {}
  /\ \A i \in DOMAIN c : c[i].op \in Stopping \union {"buffer"} => i = Len(c)
Shape == ComparableChain(chain)

LEMMA ComparableIsShaped ==
  ASSUME CallbacksReturn, KeysTell, TakesSome, NEW c \in Chains,
         ComparableChain(c)
  PROVE  Shaped(c)
<1> DEFINE n == Len(c)
<1>1. c \in Seq(Stages) /\ Callbacks(c) /\ AccumReturns /\ c # << >>
  BY ObservableAssumption DEF CallbacksReturn, Stages
<1>2. n \in Nat \ {0} /\ DOMAIN c = 1..n
  BY <1>1
<1>3. ASSUME NEW k \in 1..n
      PROVE  /\ c[k] \in Readers
             /\ c[k].op \notin Stopping \union {"buffer"} => AsBuilt(c[k])
             /\ c[k].op \in Stopping => Ender(c[k])
             /\ c[k].op \in Stopping \union {"buffer"} => k = n
  <2>1. PICK stage \in Stages : stage = c[k] /\ Returns(stage)
    BY <1>1, <1>2 DEF Callbacks
  <2>2. stage.op \notin Aggregating \union {"throttleTime"} /\ stage.op \in Operations
    BY <1>2, <2>1 DEF ComparableChain, Ops, Stages
  <2>3. KeyTells(stage)
    BY <1>1, <1>2, <2>1 DEF KeysTell
  <2>4. stage.op \notin Stopping \union {"buffer"} => stage.op \in CarryKinds
    BY <2>2 DEF Operations, Aggregating, Stopping, CarryKinds, ItemKinds
  <2>5. stage.op = "take" => stage.arg > 0
    BY <1>1, <1>2, <2>1 DEF TakesSome
  <2>6. stage \in Readers
    BY <2>1, <2>2 DEF Readers
  <2>7. stage.op \notin Stopping \union {"buffer"} => AsBuilt(stage)
    BY <1>1, <2>1, <2>3, <2>4 DEF AsBuilt, Carrier
  <2>8. stage.op \in Stopping => Ender(stage)
    BY <2>5 DEF Ender
  <2>9. stage.op \in Stopping \union {"buffer"} => k = n
    BY <1>2, <2>1 DEF ComparableChain
  <2>10. QED
    BY <2>1, <2>6, <2>7, <2>8, <2>9
<1> HIDE DEF n
<1>4. c \in Seq(Readers)
  <2>1. c \in [1..n -> Stages] /\ \A k \in 1..n : c[k] \in Readers
    BY <1>1, <1>3 DEF n
  <2>2. c \in [1..n -> Readers]
    BY <2>1
  <2>3. n \in Nat
    BY <1>2
  <2>4. QED
    BY <2>2, <2>3
<1>5. n \in 1..n /\ \A k \in 1..(n - 1) : k \in 1..n /\ k # n
  BY <1>2
<1>6. \A k \in 1..(n - 1) : AsBuilt(c[k])
  BY <1>3, <1>5
<1>7. AsBuilt(c[n]) \/ Ender(c[n]) \/ c[n].op = "buffer"
  BY <1>3, <1>5
<1>8. QED
  BY <1>1, <1>2, <1>4, <1>6, <1>7 DEF Shaped, n

LEMMA ShapeIs ==
  ASSUME CallbacksReturn, KeysTell, TakesSome, TypeOK, Shape
  PROVE  Shaped(chain) /\ chain \in Chains
<1>1. chain \in Chains
  BY DEF TypeOK, Shape, ComparableChain
<1>2. QED
  BY <1>1, ComparableIsShaped DEF Shape

(* No stage down to the m-th hands on the token, for any of the items so   *)
(* far.                                                                    *)
ClearDown(c, m, d) ==
  \A k \in 1..m : \A i \in DOMAIN Passed(c, k, d) : Passed(c, k, d)[i] # Done

LEMMA ClearMeans ==
  ASSUME AccumReturns, NEW c \in Seq(Readers), Len(c) \in Nat \ {0},
         NEW d \in Seq(Items), NEW m \in {Len(c) - 1, Len(c)}
  PROVE  ClearDown(c, m, d) <=> PlainSoFar(c, m, d)
<1>1. \A k \in 0..Len(c) : Passed(c, k, d) \in Seq(Items)
  BY PassedOn
<1>2. \A k \in 1..m : k \in 0..Len(c)
  OBVIOUS
<1>3. ASSUME NEW s \in Seq(Items)
      PROVE  s \in Seq(Plain) <=> \A i \in DOMAIN s : s[i] # Done
  <2>1. ASSUME \A i \in DOMAIN s : s[i] # Done
        PROVE  s \in Seq(Plain)
    <3>1. \A i \in 1..Len(s) : s[i] \in Plain
      BY <2>1 DEF Plain
    <3>2. QED
      BY <3>1
  <2>2. ASSUME s \in Seq(Plain)
        PROVE  \A i \in DOMAIN s : s[i] # Done
    BY <2>2 DEF Plain
  <2>3. QED
    BY <2>1, <2>2
<1>4. \A k \in 1..m : Passed(c, k, d) \in Seq(Plain)
                        <=> \A i \in DOMAIN Passed(c, k, d) : Passed(c, k, d)[i] # Done
  BY <1>1, <1>2, <1>3
<1>5. QED
  BY <1>4 DEF ClearDown, PlainSoFar

LEMMA ClearIs ==
  ASSUME NEW c, Shaped(c), NEW d \in Seq(Items), NEW m \in {Len(c) - 1, Len(c)}
  PROVE  ClearDown(c, m, d) <=> PlainSoFar(c, m, d)
BY ClearMeans DEF Shaped

(* What the reference says of everything an observable was fed holds the   *)
(* token nowhere but at the end of the chain.                              *)
InTheClear == ClearDown(chain, Depth(chain), UpToDone(Fed))

(* Where the invariant says what an observable has emitted, and what.      *)
Tellable ==
  /\ Shape /\ InTheClear
  /\ UpToDone(Fed) # Fed => Streamable(Compile(chain))
Told == Tells(chain, Fed, Shown, ctxs, Results, complete, batches # << >>)
Settled == Tellable => Told

(* A chain that streams, or no chain, is complete when its source is.      *)
EndFollows == chain = << >> \/ Streamable(Compile(chain)) => EndIsFed
BareTells == chain = << >> => Results = UpToDone(Fed)
(* Only a flush makes an observable ready, and pop_all takes that back.    *)
Quiet == ~complete => ~ready
(* Flushes belong to a chain, and to calls of pop_all there have been.     *)
FlushesBehind ==
  /\ chain = << >> => flushes = << >>
  /\ flushes # << >> => Last(flushes) <= Len(batches)

(* The inductive invariant.                                                *)
Going ==
  /\ NoneDelivered /\ EndFollows /\ BareTells /\ Quiet /\ FlushesBehind
  /\ Settled
TellInv == Inv /\ Going

-----------------------------------------------------------------------------
(* A buffer that was never flushed, or not since anything was fed, has     *)
(* shown nothing.                                                          *)
LEMMA NothingShown ==
  ASSUME TypeOK, FlushesBehind, batches = << >>
  PROVE  Shown = << >> /\ Fed = << >>
<1>1. Fed = << >>
  BY NothingFed
<1>2. flushes \in Seq(Nat)
  BY DEF TypeOK
<1>3. Len(batches) = 0 /\ batches \in Seq(Seq(Items))
  <2>1. PICK b : b = batches
    OBVIOUS
  <2>2. b = << >>
    BY <2>1
  <2>3. Len(b) = 0
    BY <2>2
  <2>4. QED
    BY <2>1, <2>3 DEF TypeOK
<1>4. ASSUME flushes # << >>
      PROVE  FedUpTo(Last(flushes)) = << >>
  <2>1. Last(flushes) \in Nat /\ Last(flushes) <= 0
    BY <1>2, <1>3, <1>4, LastAndFront DEF FlushesBehind
  <2>2. Last(flushes) = 0
    BY <2>1
  <2>3. SubSeq(batches, 1, 0) = << >>
    BY <1>3, SubSeqEmpty
  <2>4. QED
    BY <2>2, <2>3 DEF FedUpTo, FlattenSeq
<1>5. QED
  BY <1>1, <1>4 DEF Shown

(* A flush shows everything.                                               *)
LEMMA ShownFlushed ==
  ASSUME TypeOK, Has("buffer"), chain' = chain, batches' \in Seq(Seq(Items)),
         flushes' = Append(flushes, Len(batches'))
  PROVE  Shown' = Fed'
<1>1. flushes \in Seq(Nat) /\ Len(batches') \in Nat
  BY DEF TypeOK
<1>2. Last(flushes') = Len(batches') /\ flushes' # << >>
  <2>1. PICK f \in Seq(Nat), k \in Nat : f = flushes /\ k = Len(batches')
    BY <1>1
  <2>2. PICK g \in Seq(Nat) : /\ g = Append(f, k)
                              /\ Len(g) = Len(f) + 1 /\ g[Len(f) + 1] = k
    <3>1. /\ Append(f, k) \in Seq(Nat) /\ Len(Append(f, k)) = Len(f) + 1
          /\ Append(f, k)[Len(f) + 1] = k
      OBVIOUS
    <3>2. QED
      BY <3>1
  <2>3. Len(g) # 0
    BY <2>2
  <2>4. QED
    BY <2>1, <2>2, <2>3 DEF Last
<1>3. Has("buffer")'
  BY DEF Has
<1>4. QED
  BY <1>2, <1>3 DEF Shown, Fed

(* Between two flushes nothing is shown.                                   *)
LEMMA ShownKept ==
  ASSUME TypeOK, FlushesBehind, Has("buffer"), chain' = chain,
         flushes' = flushes, NEW items \in Seq(Items),
         batches' = batches \/ batches' = Append(batches, items)
  PROVE  Shown' = Shown
<1>1. flushes \in Seq(Nat) /\ batches \in Seq(Seq(Items))
  BY DEF TypeOK
<1>2. ASSUME flushes # << >>
      PROVE  FedUpTo(Last(flushes))' = FedUpTo(Last(flushes))
  <2>1. PICK k \in Nat : k = Last(flushes) /\ k <= Len(batches)
    BY <1>1, <1>2, LastAndFront DEF FlushesBehind
  <2>2. SubSeq(batches', 1, k) = SubSeq(batches, 1, k)
    <3>1. CASE batches' = batches
      BY <3>1
    <3>2. CASE batches' = Append(batches, items)
      <4>1. SubSeq(Append(batches, items), 1, k) = SubSeq(batches, 1, k)
        BY <1>1, <2>1
      <4>2. QED
        BY <3>2, <4>1
    <3>3. QED
      BY <3>1, <3>2
  <2>3. QED
    BY <2>1, <2>2 DEF FedUpTo
<1>3. Has("buffer")'
  BY DEF Has
<1>4. QED
  BY <1>2, <1>3 DEF Shown

(* Without a buffer nothing depends on what has been shown.                *)
LEMMA ShownIsFree ==
  ASSUME NEW c, NEW fed, NEW shown, NEW shown2, NEW x, NEW res, NEW done,
         NEW begun, Tells(c, fed, shown, x, res, done, begun),
         c[Len(c)].op # "buffer"
  PROVE  Tells(c, fed, shown2, x, res, done, begun)
BY DEF Tells

LEMMA HeldAtTheEnd ==
  ASSUME Shape, Shaped(chain)
  PROVE  Has("buffer") <=> chain[Len(chain)].op = "buffer"
<1>1. Len(chain) \in Nat \ {0} /\ DOMAIN chain = 1..Len(chain)
  BY DEF Shaped
<1>2. Len(chain) \in DOMAIN chain
  BY <1>1
<1>3. \A i \in DOMAIN chain : chain[i].op = "buffer" => i = Len(chain)
  BY DEF Shape, ComparableChain
<1>4. QED
  BY <1>2, <1>3 DEF Has

(* Who calls pop_all, and how: a flush makes the observable ready, anyone  *)
(* else finds it ready only if it is complete.                             *)
Called(isReady) ==
  \/ flushes' = flushes /\ (complete \/ ~isReady)
  \/ /\ flushes' = Append(flushes, Len(batches')) /\ isReady
     /\ Has("buffer") \/ Has("throttleTime")

Calling(items, isReady) ==
  /\ CallbacksReturn /\ KeysTell /\ TakesSome /\ TellInv
  /\ chain' = chain /\ (subscribed => subscribed')
  /\ items \in Seq(Items) /\ isReady \in BOOLEAN /\ Called(isReady)

(* The observable has been fed d and goes on with b: what was told of d    *)
(* can be carried on.                                                      *)
GoesFrom(d, b, items) ==
  /\ Shaped(chain) /\ d = Fed /\ UpToDone(d) = d /\ b = UpToDone(items)
  /\ Told /\ Shape
  /\ Fed' = d \o items /\ batches' # << >>
  /\ UpToDone(Fed') = d \o b
  /\ (~Streamable(Compile(chain)) => b = items)
  /\ PlainSoFar(chain, Depth(chain), d \o b)

LEMMA GoesOnFrom ==
  ASSUME NEW items, NEW isReady, Calling(items, isReady), ~complete,
         batches' = Append(batches, items), Tellable'
  PROVE  \E d \in Seq(Plain), b \in Seq(Plain) : GoesFrom(d, b, items)
<1>1. /\ CallbacksReturn /\ KeysTell /\ TakesSome /\ TypeOK /\ chain' = chain
      /\ items \in Seq(Items) /\ batches \in Seq(Seq(Items))
      /\ EndFollows /\ Settled
  BY DEF Calling, TellInv, Inv, Going, TypeOK
<1>2. Shape
  BY <1>1 DEF Tellable, Shape, ComparableChain
<1>3. Shaped(chain) /\ Len(chain) \in Nat \ {0}
  BY <1>1, <1>2, ShapeIs DEF Shaped
<1>4. Fed \in Seq(Items)
  BY <1>1, FedIs
<1>5. Fed' = Fed \o items /\ batches' # << >>
  <2>1. Fed = FlattenSeq(batches)
    BY <1>1, FedIs
  <2>2. batches' \in Seq(Seq(Items)) /\ batches' # << >>
    BY <1>1
  <2>3. Fed' = FlattenSeq(batches')
    <3>1. SubSeq(batches', 1, Len(batches')) = batches'
      BY <2>2, SubSeqFull
    <3>2. QED
      BY <3>1 DEF Fed, FedUpTo
  <2>4. FlattenSeq(Append(batches, items)) = FlattenSeq(batches) \o items
    BY <1>1, FlattenAppend
  <2>5. QED
    BY <2>1, <2>2, <2>3, <2>4
<1>6. ~Streamable(Compile(chain)) => UpToDone(Fed') = Fed'
  BY <1>1 DEF Tellable
<1>7. /\ UpToDone(Fed) = Fed
      /\ ~Streamable(Compile(chain)) => UpToDone(items) = items
  <2>1. PICK s \in Seq(Items) : s = Fed
    BY <1>4
  <2>2. CASE Streamable(Compile(chain))
    <3>1. EndIsFed
      BY <1>1, <2>2 DEF EndFollows
    <3>2. QED
      BY <2>2, <3>1, FedIsWhole
  <2>3. CASE ~Streamable(Compile(chain))
    <3>1. UpToDone(s \o items) = s \o items
      BY <1>5, <1>6, <2>1, <2>3
    <3>2. s \o items \in Seq(Plain)
      <4>1. s \o items \in Seq(Items)
        BY <1>1
      <4>2. UpToDone(s \o items) \in Seq(Plain)
        BY <4>1, WholeUpToDone
      <4>3. QED
        BY <3>1, <4>2
    <3>3. s \in Seq(Plain) /\ items \in Seq(Plain)
      BY <1>1, <3>2, PlainParts
    <3>4. QED
      BY <2>1, <3>3, PlainIsWhole
  <2>4. QED
    BY <2>2, <2>3
<1>8. PICK d \in Seq(Plain) : d = Fed /\ UpToDone(d) = d
  BY <1>4, <1>7, WholeUpToDone
<1>9. PICK b \in Seq(Plain) : b = UpToDone(items)
  BY <1>1, WholeUpToDone
<1>10. UpToDone(Fed') = d \o b
  <2>1. d \in Seq(Items)
    BY PlainIsWhole
  <2>2. UpToDone(d \o items) = d \o UpToDone(items)
    BY <1>1, <1>8, <2>1, DoneBehind
  <2>3. QED
    BY <1>5, <1>8, <1>9, <2>2
<1>11. Depth(chain) \in {Len(chain) - 1, Len(chain)}
  BY DEF Depth
<1>12. PICK e \in Seq(Plain) : e = d \o b /\ e \in Seq(Items)
  <2>1. d \o b \in Seq(Plain)
    OBVIOUS
  <2>2. QED
    BY <2>1, PlainIsWhole
<1>13. PlainSoFar(chain, Depth(chain), d \o b)
  <2>1. ClearDown(chain, Depth(chain), e)
    BY <1>1, <1>10, <1>12 DEF Tellable, InTheClear
  <2>2. QED
    BY <1>3, <1>11, <1>12, <2>1, ClearIs
<1>14. PlainSoFar(chain, Depth(chain), d)
  BY <1>3, <1>11, <1>13, ClearBefore
<1>15. InTheClear
  <2>1. d \in Seq(Items)
    BY PlainIsWhole
  <2>2. ClearDown(chain, Depth(chain), d)
    BY <1>3, <1>11, <1>14, <2>1, ClearIs
  <2>3. QED
    BY <1>8, <2>2 DEF InTheClear
<1>16. Told
  BY <1>1, <1>2, <1>7, <1>15 DEF Settled, Tellable
<1>17. GoesFrom(d, b, items)
  BY <1>2, <1>3, <1>5, <1>7, <1>8, <1>9, <1>10, <1>13, <1>16 DEF GoesFrom
<1>18. QED
  BY <1>17

LEMMA TellsNext ==
  ASSUME NEW c, NEW fed, NEW shown, NEW x, NEW res, NEW done, NEW begun,
         Tells(c, fed, shown, x, res, done, begun),
         chain' = c, Fed' = fed, Shown' = shown, ctxs' = x, Results' = res,
         complete' = done, (batches' # << >>) = begun
  PROVE  Told'
BY DEF Told, Tells

(* Flushes stay behind the calls of pop_all.                               *)
LEMMA StaysBehind ==
  ASSUME NEW items, NEW isReady, Calling(items, isReady),
         batches' = batches \/ batches' = Append(batches, items)
  PROVE  FlushesBehind'
<1>1. /\ batches \in Seq(Seq(Items)) /\ items \in Seq(Items)
      /\ flushes \in Seq(Nat) /\ chain' = chain /\ FlushesBehind
      /\ Called(isReady)
  BY DEF Calling, TellInv, Inv, Going, TypeOK
<1>2. Len(batches') \in Nat /\ Len(batches') >= Len(batches)
  BY <1>1
<1>3. CASE flushes' = flushes
  <2>1. ASSUME flushes # << >>
        PROVE  Last(flushes) \in Nat /\ Last(flushes) <= Len(batches)
    BY <1>1, <2>1, LastAndFront DEF FlushesBehind
  <2>2. ASSUME flushes # << >>
        PROVE  Last(flushes) <= Len(batches')
    <3>1. Len(batches) \in Nat
      BY <1>1
    <3>2. QED
      BY <1>2, <2>1, <2>2, <3>1
  <2>3. QED
    BY <1>1, <1>3, <2>2 DEF FlushesBehind
<1>4. CASE /\ flushes' = Append(flushes, Len(batches'))
           /\ Has("buffer") \/ Has("throttleTime")
  <2>1. chain # << >>
    BY <1>4 DEF Has
  <2>2. PICK f \in Seq(Nat), k \in Nat : f = flushes /\ k = Len(batches')
    BY <1>1, <1>2
  <2>3. Last(Append(f, k)) = k
    <3>1. Len(Append(f, k)) = Len(f) + 1 /\ Append(f, k)[Len(f) + 1] = k
      OBVIOUS
    <3>2. QED
      BY <3>1 DEF Last
  <2>4. Last(flushes') = Len(batches')
    BY <1>4, <2>2, <2>3
  <2>5. QED
    BY <1>1, <1>2, <2>1, <2>4 DEF FlushesBehind
<1>5. QED
  BY <1>1, <1>3, <1>4 DEF Called

(* The compiled pipeline.                                                  *)
LEMMA StreamingSettles ==
  ASSUME NEW items, NEW isReady, Calling(items, isReady), ~complete,
         batches' = Append(batches, items), DrainStreaming(items, isReady)
  PROVE  Going'
<1>1. /\ CallbacksReturn /\ TypeOK /\ ctxs \in CtxsOf(chain) /\ CompiledOnce
      /\ NoneDelivered /\ EndFollows /\ chain' = chain
      /\ batches \in Seq(Seq(Items)) /\ items \in Seq(Items)
      /\ missed \in Seq(Items) /\ delivered \in Seq(Items)
      /\ (subscribed => subscribed') /\ Called(isReady)
  BY DEF Calling, TellInv, Inv, Going, TypeOK
<1>2. /\ chain # << >> /\ Streamable(Compile(chain))
      /\ Compiled = Compile(chain)
      /\ complete' = (UpToDone(items) # items) /\ ready' = isReady
  <2>1. chain # << >> /\ Streamable(Compiled)
        /\ complete' = (UpToDone(items) # items) /\ ready' = isReady
    BY DEF DrainStreaming
  <2>2. Compiled = Compile(chain)
    BY <1>1, <2>1 DEF Compiled, CompiledOnce
  <2>3. QED
    BY <2>1, <2>2
<1>3. chain \in Seq(Stages) /\ Callbacks(chain) /\ AccumReturns
  BY <1>1, ChainIsOne DEF CallbacksReturn
<1>4. PICK r : r = StreamBatch(chain, Compile(chain), ctxs, items)
  OBVIOUS
<1>5. r.out \in Seq(Items)
  <2>1. Compile(chain) \in Seq(StreamedStages(chain))
    BY <1>2, <1>3, StreamableType
  <2>2. r \in Outcomes(chain)
    BY <1>1, <1>3, <1>4, <2>1, StreamBatchType
  <2>3. QED
    BY <2>2 DEF Outcomes
<1>6. Emit(r.out) /\ ctxs' = r.ctx
  BY <1>2, <1>4 DEF DrainStreaming
<1>7. Results' = Results \o r.out /\ NoneDelivered'
  BY <1>1, <1>5, <1>6, EmitAppends
<1>8. EndFollows'
  <2>1. EndIsFed
    BY <1>1, <1>2 DEF EndFollows
  <2>2. UpToDone(Fed) = Fed
    BY <2>1, FedIsWhole
  <2>3. /\ batches' # << >>
        /\ UpToDone(Fed') # Fed' <=> UpToDone(items) # items
    BY <1>1, <2>2, FedOneMore
  <2>4. EndIsFed'
    BY <1>2, <2>3 DEF EndIsFed
  <2>5. QED
    BY <2>4 DEF EndFollows
<1>9. ~isReady
  <2>1. StreamsOps(chain)
    BY <1>2, <1>3, OpsStream
  <2>2. \A i \in DOMAIN chain : chain[i].op \in StreamableKinds
    BY <2>1 DEF StreamsOps
  <2>3. ~Has("buffer") /\ ~Has("throttleTime")
    BY <2>2 DEF Has, StreamableKinds
  <2>4. QED
    BY <1>1, <2>3 DEF Called
<1>10. Quiet'
  BY <1>2, <1>9 DEF Quiet
<1>11. BareTells'
  BY <1>1, <1>2 DEF BareTells
<1>12. FlushesBehind'
  BY StaysBehind
<1>13. ASSUME Tellable'
       PROVE  Told'
  <2>1. PICK d \in Seq(Plain), b \in Seq(Plain) : GoesFrom(d, b, items)
    BY <1>13, GoesOnFrom
  <2>2. /\ Shaped(chain) /\ d = Fed /\ b = UpToDone(items) /\ Told
        /\ Fed' = d \o items /\ batches' # << >>
        /\ PlainSoFar(chain, Depth(chain), d \o b)
    BY <2>1 DEF GoesFrom
  <2>3. PICK c, x, res, begun, shown, shown2, no :
          /\ c = chain /\ x = ctxs /\ res = Results
          /\ begun = (batches # << >>) /\ shown = Shown /\ shown2 = Shown'
          /\ no = FALSE
    OBVIOUS
  <2>4. Tells(c, d, shown, x, res, no, begun)
    BY <2>2, <2>3 DEF Told, Tells
  <2>5. PlainSoFar(c, Len(c) - 1, d \o UpToDone(items))
    BY <1>2, <2>2, <2>3 DEF Depth
  <2>6. res \in Seq(Items) /\ begun \in BOOLEAN /\ x \in CtxsOf(c)
    BY <1>1, <2>3 DEF Results
  <2>7. /\ Shaped(c) /\ Streamable(Compile(c))
        /\ r = StreamBatch(c, Compile(c), x, items)
        /\ items \in Seq(Items) /\ no = FALSE
    BY <1>1, <1>2, <1>4, <2>2, <2>3
  <2>8. Tells(c, d \o items, shown2, r.ctx, res \o r.out,
              UpToDone(items) # items, TRUE)
    BY <2>3, <2>4, <2>5, <2>6, <2>7, TellsStreaming, Zenon
  <2>9. PICK fed, y, res2, done, yes :
          /\ fed = d \o items /\ y = r.ctx /\ res2 = res \o r.out
          /\ done = (UpToDone(items) # items) /\ yes = TRUE
    OBVIOUS
  <2>10. Tells(c, fed, shown2, y, res2, done, yes)
    BY <2>8, <2>9
  <2>11. /\ chain' = c /\ Fed' = fed /\ Shown' = shown2 /\ ctxs' = y
         /\ Results' = res2 /\ complete' = done /\ (batches' # << >>) = yes
    BY <1>1, <1>2, <1>6, <1>7, <2>2, <2>3, <2>9
  <2>12. QED
    BY <2>10, <2>11, TellsNext
<1>14. QED
  BY <1>7, <1>8, <1>10, <1>11, <1>12, <1>13 DEF Going, Settled

(* The loop over the Queries.                                              *)
LEMMA GenericSettles ==
  ASSUME NEW items, NEW isReady, Calling(items, isReady), ~complete,
         batches' = Append(batches, items), DrainGeneric(items, isReady)
  PROVE  Going'
<1>1. /\ CallbacksReturn /\ TypeOK /\ ctxs \in CtxsOf(chain) /\ CompiledOnce
      /\ NoneDelivered /\ chain' = chain /\ FlushesBehind
      /\ batches \in Seq(Seq(Items)) /\ items \in Seq(Items)
      /\ missed \in Seq(Items) /\ delivered \in Seq(Items)
      /\ (subscribed => subscribed') /\ Called(isReady) /\ isReady \in BOOLEAN
  BY DEF Calling, TellInv, Inv, Going, TypeOK
<1>2. chain # << >> /\ ~Streamable(Compile(chain))
  <2>1. chain # << >> /\ ~Streamable(Compiled)
    BY DEF DrainGeneric
  <2>2. Compiled = Compile(chain)
    BY <1>1, <2>1 DEF Compiled, CompiledOnce
  <2>3. QED
    BY <2>1, <2>2
<1>3. chain \in Seq(Stages) /\ Callbacks(chain) /\ AccumReturns
  BY <1>1, ChainIsOne DEF CallbacksReturn
<1>4. PICK r \in Outcomes(chain) : r = GenericBatch(chain, ctxs, items, isReady)
  BY <1>1, <1>3, GenericType
<1>5. PICK out \in Seq(Items) : out = r.out
  BY <1>4 DEF Outcomes
<1>6. /\ Emit(UpToDone(out)) /\ ctxs' = r.ctx /\ ready' = FALSE
      /\ complete' = (FirstIndex(out, LAMBDA v : v = Done) # 0)
  BY <1>4, <1>5 DEF DrainGeneric, Drain
<1>7. complete' = (UpToDone(out) # out)
  BY <1>6, DoneSeen
<1>8. UpToDone(out) \in Seq(Items)
  BY UpToDoneType
<1>9. Results' = Results \o UpToDone(out) /\ NoneDelivered'
  BY <1>1, <1>6, <1>8, EmitAppends
<1>10. EndFollows' /\ BareTells' /\ Quiet'
  BY <1>1, <1>2, <1>6 DEF EndFollows, BareTells, Quiet
<1>11. FlushesBehind'
  BY StaysBehind
<1>12. ASSUME Tellable'
       PROVE  Told'
  <2>1. PICK d \in Seq(Plain), b \in Seq(Plain) : GoesFrom(d, b, items)
    BY <1>12, GoesOnFrom
  <2>2. /\ Shaped(chain) /\ Shape /\ d = Fed /\ b = items /\ Told
        /\ Fed' = d \o items /\ batches' # << >>
        /\ PlainSoFar(chain, Depth(chain), d \o b)
    BY <1>2, <2>1 DEF GoesFrom
  <2>3. PICK c, x, res, begun, shown, no :
          /\ c = chain /\ x = ctxs /\ res = Results
          /\ begun = (batches # << >>) /\ shown = Shown
          /\ no = FALSE
    OBVIOUS
  <2>4. Tells(c, d, shown, x, res, no, begun)
    BY <2>2, <2>3 DEF Told, Tells
  <2>5. PlainSoFar(c, Len(c), d \o b)
    BY <1>2, <2>2, <2>3 DEF Depth
  <2>6. res \in Seq(Items) /\ begun \in BOOLEAN /\ x \in CtxsOf(c)
    BY <1>1, <2>3 DEF Results
  <2>7. begun \/ Len(d) = 0
    <3>1. CASE batches = << >>
      <4>1. d = << >>
        BY <2>2, <3>1, NothingFed
      <4>2. QED
        BY <4>1
    <3>2. QED
      BY <2>3, <3>1
  <2>8. /\ Shaped(c) /\ r = GenericBatch(c, x, b, isReady)
        /\ isReady \in BOOLEAN /\ no = FALSE
    BY <1>1, <1>4, <2>2, <2>3
  <2>9. Tells(c, d \o b, IF isReady THEN d \o b ELSE shown, r.ctx,
              res \o UpToDone(r.out), UpToDone(r.out) # r.out, TRUE)
    BY <2>3, <2>4, <2>5, <2>6, <2>7, <2>8, TellsGeneric, ZenonT(60)
  <2>10. PICK fed, some, y, res2, done, yes :
          /\ fed = d \o b /\ some = IF isReady THEN fed ELSE shown
          /\ y = r.ctx /\ res2 = res \o UpToDone(out)
          /\ done = (UpToDone(out) # out) /\ yes = TRUE
    OBVIOUS
  <2>11. Tells(c, fed, some, y, res2, done, yes)
    BY <1>5, <2>9, <2>10
  <2>12. PICK shown2 : shown2 = Shown'
    OBVIOUS
  <2>13. Tells(c, fed, shown2, y, res2, done, yes)
    <3>1. CASE c[Len(c)].op # "buffer"
      BY <2>11, <3>1, ShownIsFree
    <3>2. CASE c[Len(c)].op = "buffer"
      <4>1. Has("buffer")
        BY <2>2, <2>3, <3>2, HeldAtTheEnd
      <4>2. CASE isReady
        <5>1. flushes' = Append(flushes, Len(batches'))
          BY <1>1, <4>2 DEF Called
        <5>2. batches' \in Seq(Seq(Items))
          BY <1>1
        <5>3. Shown' = Fed'
          BY <1>1, <4>1, <5>1, <5>2, ShownFlushed
        <5>4. QED
          BY <2>2, <2>10, <2>11, <2>12, <4>2, <5>3
      <4>3. CASE ~isReady
        <5>1. flushes' = flushes
          BY <1>1, <4>3 DEF Called
        <5>2. Shown' = Shown
          BY <1>1, <4>1, <5>1, ShownKept
        <5>3. QED
          BY <2>3, <2>10, <2>11, <2>12, <4>3, <5>2
      <4>4. QED
        BY <1>1, <4>2, <4>3
    <3>3. QED
      BY <3>1, <3>2
  <2>14. /\ chain' = c /\ Fed' = fed /\ Shown' = shown2 /\ ctxs' = y
         /\ Results' = res2 /\ complete' = done /\ (batches' # << >>) = yes
    BY <1>1, <1>6, <1>7, <1>9, <2>2, <2>3, <2>10, <2>12
  <2>15. QED
    BY <2>13, <2>14, TellsNext
<1>13. QED
  BY <1>9, <1>10, <1>11, <1>12 DEF Going, Settled

(* No chain.                                                               *)
LEMMA BareSettles ==
  ASSUME NEW items, NEW isReady, Calling(items, isReady), ~complete,
         batches' = Append(batches, items), DrainBare(items)
  PROVE  Going'
<1>1. /\ TypeOK /\ NoneDelivered /\ EndFollows /\ BareTells /\ chain' = chain
      /\ batches \in Seq(Seq(Items)) /\ items \in Seq(Items)
      /\ (subscribed => subscribed') /\ chain = << >>
  BY DEF Calling, TellInv, Inv, Going, TypeOK, DrainBare
<1>2. /\ Emit(UpToDone(items)) /\ ready' = FALSE
      /\ complete' = (FirstIndex(items, LAMBDA v : v = Done) # 0)
  BY DEF DrainBare, Drain
<1>3. EndIsFed /\ Results = UpToDone(Fed)
  BY <1>1 DEF EndFollows, BareTells
<1>4. UpToDone(Fed) = Fed
  BY <1>3, FedIsWhole
<1>5. /\ UpToDone(Fed') = Fed \o UpToDone(items) /\ batches' # << >>
      /\ UpToDone(Fed') # Fed' <=> UpToDone(items) # items
  BY <1>1, <1>4, FedOneMore
<1>6. UpToDone(items) \in Seq(Items)
  BY <1>1, UpToDoneType
<1>7. Results' = Results \o UpToDone(items) /\ NoneDelivered'
  BY <1>1, <1>2, <1>6, EmitAppends
<1>8. complete' <=> UpToDone(items) # items
  BY <1>1, <1>2, DoneSeen
<1>9. EndIsFed' /\ Results' = UpToDone(Fed')
  BY <1>3, <1>4, <1>5, <1>7, <1>8 DEF EndIsFed
<1>10. ~Tellable'
  BY <1>1 DEF Tellable, Shape, ComparableChain
<1>11. FlushesBehind'
  BY StaysBehind
<1>12. QED
  BY <1>2, <1>7, <1>9, <1>10, <1>11
     DEF Going, EndFollows, BareTells, Quiet, Settled

(* Nothing is done, but a flush may have been counted: of a buffer that is *)
(* complete from the start, or not at all.                                 *)
LEMMA IgnoredSettles ==
  ASSUME NEW items, NEW isReady, Calling(items, isReady),
         Ignore(items, isReady)
  PROVE  Going'
<1>1. /\ CallbacksReturn /\ KeysTell /\ TakesSome /\ TypeOK /\ Going
      /\ chain' = chain /\ Called(isReady)
      /\ batches \in Seq(Seq(Items))
  BY DEF Calling, TellInv, Inv, TypeOK
<1>2. /\ complete' = complete /\ ctxs' = ctxs /\ batches' = batches
      /\ missed' = missed /\ delivered' = delivered
      /\ ready' = isReady /\ (~complete => ~isReady)
      /\ (subscribed => subscribed')
  BY DEF Ignore, results, Calling
<1>3. Fed' = Fed /\ Results' = Results
  BY <1>2 DEF Fed, FedUpTo, Results
<1>4. FlushesBehind'
  BY <1>2, StaysBehind
<1>5. NoneDelivered' /\ EndFollows' /\ BareTells' /\ Quiet'
  BY <1>1, <1>2, <1>3
     DEF Going, NoneDelivered, EndFollows, EndIsFed, BareTells, Quiet
<1>6. ASSUME Tellable'
      PROVE  Told'
  <2>1. Tellable
    BY <1>1, <1>3, <1>6 DEF Tellable, Shape, InTheClear
  <2>2. Told /\ Shape
    BY <1>1, <2>1 DEF Going, Settled, Tellable
  <2>3. PICK c, fed, x, res, done, begun, shown, shown2 :
          /\ c = chain /\ fed = Fed /\ x = ctxs /\ res = Results
          /\ done = complete /\ begun = (batches # << >>)
          /\ shown = Shown /\ shown2 = Shown'
    OBVIOUS
  <2>4. Tells(c, fed, shown, x, res, done, begun)
    BY <2>2, <2>3 DEF Told
  <2>5. Tells(c, fed, shown2, x, res, done, begun)
    <3>1. CASE c[Len(c)].op # "buffer"
      BY <2>4, <3>1, ShownIsFree
    <3>2. CASE c[Len(c)].op = "buffer"
      <4>1. Has("buffer") /\ FlushesBehind
        <5>1. Shaped(chain)
          BY <1>1, <2>2, ShapeIs
        <5>2. QED
          BY <1>1, <2>2, <2>3, <3>2, <5>1, HeldAtTheEnd DEF Going
      <4>2. CASE flushes' = flushes
        <5>1. << >> \in Seq(Items)
          OBVIOUS
        <5>2. Shown' = Shown
          BY <1>1, <1>2, <4>1, <4>2, <5>1, ShownKept
        <5>3. QED
          BY <2>3, <2>4, <5>2
      <4>3. CASE flushes' = Append(flushes, Len(batches')) /\ isReady
        <5>1. done => ~begun
          BY <2>4, <3>2 DEF Tells
        <5>2. batches = << >>
          BY <1>2, <2>3, <4>3, <5>1
        <5>3. Shown = << >> /\ Fed = << >>
          BY <1>1, <4>1, <5>2, NothingShown
        <5>4. Shown' = Fed'
          BY <1>1, <1>2, <4>1, <4>3, ShownFlushed
        <5>5. QED
          BY <1>3, <2>3, <2>4, <5>3, <5>4
      <4>4. QED
        BY <1>1, <4>2, <4>3 DEF Called
    <3>3. QED
      BY <3>1, <3>2
  <2>6. /\ chain' = c /\ Fed' = fed /\ Shown' = shown2 /\ ctxs' = x
        /\ Results' = res /\ complete' = done /\ (batches' # << >>) = begun
    BY <1>1, <1>2, <1>3, <2>3
  <2>7. QED
    BY <2>5, <2>6, TellsNext
<1>7. QED
  BY <1>4, <1>5, <1>6 DEF Going, Settled

LEMMA PopAllSettles ==
  ASSUME NEW items, NEW isReady, Calling(items, isReady), PopAll(items, isReady)
  PROVE  Going'
BY StreamingSettles, GenericSettles, BareSettles, IgnoredSettles DEF PopAll

(* pipe begins the histories, and gives every stage its first context.     *)
LEMMA PipeSettles ==
  ASSUME CallbacksReturn, KeysTell, TakesSome, TellInv, NEW c \in Chains,
         Pipe(c)
  PROVE  Going'
<1>1. /\ chain = << >> /\ chain' = c
      /\ ctxs' = [i \in DOMAIN c |-> NewContext(c[i])]
      /\ batches' = << >> /\ missed' = << >> /\ delivered' = << >>
      /\ complete' = complete /\ flushes' = flushes
      /\ ready' = IF \E i \in DOMAIN c : c[i].op \in {"buffer", "throttleTime"}
                  THEN FALSE ELSE ready
  BY DEF Pipe
<1>2. c # << >> /\ flushes' = << >>
  BY <1>1, ObservableAssumption DEF TellInv, Going, FlushesBehind
<1>3. NoneDelivered' /\ EndFollows' /\ BareTells' /\ FlushesBehind'
  BY <1>1, <1>2
     DEF NoneDelivered, EndFollows, EndIsFed, BareTells, FlushesBehind
<1>4. Quiet'
  BY <1>1 DEF TellInv, Going, Quiet
<1>5. PICK none \in Seq(Plain) : none = << >> /\ Len(none) = 0
  <2>1. << >> \in Seq(Plain) /\ Len(<< >>) = 0
    OBVIOUS
  <2>2. QED
    BY <2>1
<1>6. Fed' = none
  <2>1. batches' \in Seq(Seq(Items)) /\ Len(batches') = 0
    BY <1>1, Zenon, EmptySeq
  <2>2. SubSeq(batches', 1, Len(batches')) = batches'
    BY <2>1, SubSeqFull
  <2>3. QED
    BY <1>1, <1>5, <2>1, <2>2 DEF Fed, FedUpTo, FlattenSeq
<1>7. Results' = none /\ Shown' = none
  <2>1. << >> \o << >> = << >>
    OBVIOUS
  <2>2. QED
    BY <1>1, <1>2, <1>5, <1>6, <2>1 DEF Results, Shown
<1>8. ASSUME Tellable'
      PROVE  Told'
  <2>1. Shaped(c)
    BY <1>1, <1>8, ComparableIsShaped DEF Tellable, Shape
  <2>2. PICK x, done, no : /\ x = [i \in DOMAIN c |-> NewContext(c[i])]
                           /\ done = complete /\ no = FALSE
    OBVIOUS
  <2>3. Tells(c, none, none, x, none, done, no)
    BY <1>5, <2>1, <2>2, TellsAtFirst
  <2>4. /\ chain' = c /\ Fed' = none /\ Shown' = none /\ ctxs' = x
        /\ Results' = none /\ complete' = done /\ (batches' # << >>) = no
    BY <1>1, <1>6, <1>7, <2>2
  <2>5. QED
    BY <2>3, <2>4, TellsNext
<1>9. QED
  BY <1>3, <1>4, <1>8 DEF Going, Settled

LEMMA SettledInit ==
  ASSUME Init
  PROVE  Going
<1>1. /\ chain = << >> /\ batches = << >> /\ flushes = << >>
      /\ missed = << >> /\ delivered = << >> /\ ready = FALSE
  BY DEF Init
<1>2. Results = << >>
  <2>1. << >> \o << >> = << >>
    OBVIOUS
  <2>2. QED
    BY <1>1, <2>1 DEF Results
<1>3. UpToDone(Fed) = << >>
  BY <1>1, NothingFed
<1>4. QED
  BY <1>1, <1>2, <1>3
     DEF Going, NoneDelivered, EndFollows, EndIsFed, BareTells, Quiet,
         FlushesBehind, Settled, Tellable, Shape, ComparableChain

LEMMA SettledStep ==
  ASSUME CallbacksReturn, KeysTell, TakesSome, TellInv, [Next]_vars
  PROVE  TellInv'
<1>1. Inv'
  BY TypesStep DEF TellInv
<1>2. /\ data \in Seq(Items) /\ ready \in BOOLEAN /\ complete \in BOOLEAN
      /\ (complete \/ ~ready) /\ Going
  BY DEF TellInv, Inv, TypeOK, Going, Quiet
<1>3. ASSUME UNCHANGED << chain, complete, ready, ctxs, flushes, results >>,
             subscribed => subscribed'
      PROVE  Going'
  <2>1. Fed' = Fed /\ Results' = Results /\ Shown' = Shown
    BY <1>3 DEF Fed, FedUpTo, Results, Shown, Has, results
  <2>2. /\ NoneDelivered' /\ EndFollows' /\ BareTells' /\ Quiet'
        /\ FlushesBehind'
    BY <1>2, <1>3, <2>1
       DEF Going, NoneDelivered, EndFollows, EndIsFed, BareTells, Quiet,
           FlushesBehind, results
  <2>3. Tellable' => Tellable
    BY <1>3, <2>1 DEF Tellable, Shape, InTheClear
  <2>4. Told => Told'
    BY <1>3, <2>1 DEF Told, Tells, results
  <2>5. QED
    BY <1>2, <2>2, <2>3, <2>4 DEF Going, Settled
<1>4. ASSUME NEW items \in Seq(Items), PopAll(items, ready), chain' = chain,
             subscribed => subscribed', flushes' = flushes
      PROVE  Going'
  BY <1>2, <1>4, PopAllSettles DEF Calling, Called
<1>5. ASSUME NEW items \in Seq(Items), PopAll(items, TRUE), chain' = chain,
             subscribed' = subscribed, Has("buffer") \/ Has("throttleTime"),
             flushes' = Append(flushes, Len(batches'))
      PROVE  Going'
  BY <1>5, PopAllSettles DEF Calling, Called
<1>6. ASSUME NEW v \in Values \union {Done}, Push(v)
      PROVE  Going'
  <2>1. UNCHANGED << deferred, subscribed, chain, flushes >>
    BY <1>6 DEF Push
  <2>2. CASE UNCHANGED << data, complete, ready, ctxs, compiled, results >>
    BY <1>3, <2>1, <2>2
  <2>3. CASE PopAll(Append(data, v), ready)
    <3>1. Append(data, v) \in Seq(Items)
      BY <1>2, ObservableAssumption
    <3>2. QED
      BY <1>4, <2>1, <2>3, <3>1
  <2>4. QED
    BY <1>6, <2>2, <2>3 DEF Push
<1>7. ASSUME Subscribe
      PROVE  Going'
  <2>1. /\ chain' = chain /\ subscribed' = TRUE /\ flushes' = flushes
        /\ PopAll(Append(data, Made), ready) \/ PopAll(data, ready)
    BY <1>7 DEF Subscribe
  <2>2. Append(data, Made) \in Seq(Items)
    BY <1>2, ObservableAssumption
  <2>3. QED
    BY <1>2, <1>4, <2>1, <2>2
<1>8. ASSUME NEW c \in Chains, Pipe(c)
      PROVE  Going'
  BY <1>8, PipeSettles
<1>9. ASSUME Flush
      PROVE  Going'
  BY <1>2, <1>5, <1>9 DEF Flush
<1>10. ASSUME FlushOne
       PROVE  Going'
  <2>1. (IF Len(data) > 1 THEN SubSeq(data, 1, 1) ELSE data) \in Seq(Items)
    BY <1>2
  <2>2. QED
    BY <1>5, <1>10, <2>1 DEF FlushOne
<1>11. ASSUME UNCHANGED vars
       PROVE  Going'
  BY <1>3, <1>11 DEF vars, fields, results
<1>12. Going'
  BY <1>6, <1>7, <1>8, <1>9, <1>10, <1>11 DEF Next
<1>13. QED
  BY <1>1, <1>12 DEF TellInv

LEMMA SettledMeans ==
  ASSUME CallbacksReturn, KeysTell, TakesSome, TellInv, InTheClear
  PROVE  EmitsReference
<1>1. /\ TypeOK /\ Going /\ AccumReturns /\ complete \in BOOLEAN
      /\ batches \in Seq(Seq(Items))
  BY DEF TellInv, Inv, TypeOK, CallbacksReturn
<1>2. Fed \in Seq(Items)
  BY <1>1, FedIs
<1>3. CASE chain = << >>
  <2>1. Shown = Fed
    BY <1>3 DEF Shown, Has
  <2>2. EndIsFed /\ Results = UpToDone(Fed)
    BY <1>1, <1>3 DEF Going, EndFollows, BareTells
  <2>3. UpToDone(Fed) \in Seq(Items)
    BY <1>2, UpToDoneType
  <2>4. /\ Rx(chain, UpToDone(Fed)).out = UpToDone(Fed)
        /\ Rx(chain, UpToDone(Fed)).stops = FALSE
    BY <1>1, <1>3, <2>3, RxNone
  <2>5. QED
    BY <2>1, <2>2, <2>4 DEF EmitsReference, EndIsFed
<1>4. CASE chain # << >> /\ Comparable
  <2>1. Shape
    BY <1>4 DEF Shape, ComparableChain, Comparable, OnlyLast
  <2>2. Shaped(chain)
    BY <1>1, <2>1, ShapeIs
  <2>3. Told
    BY <1>1, <1>4, <2>1 DEF Going, Settled, Tellable, Comparable
  <2>4. PICK c, fed, x, res, done, begun, shown, s :
          /\ c = chain /\ fed = Fed /\ x = ctxs /\ res = Results
          /\ done = complete /\ begun = (batches # << >>)
          /\ shown = Shown
          /\ s = IF c[Len(c)].op = "buffer" THEN shown ELSE fed
    OBVIOUS
  <2>5. Tells(c, fed, shown, x, res, done, begun)
    BY <2>3, <2>4 DEF Told
  <2>6. /\ res = Rx(c, UpToDone(s)).out
        /\ begun => (done <=> Rx(c, UpToDone(s)).stops \/ UpToDone(s) # s)
    BY <1>1, <1>2, <2>2, <2>4, <2>5, TellsReference
  <2>7. s = Shown
    BY <2>1, <2>2, <2>4, HeldAtTheEnd DEF Shown
  <2>8. QED
    BY <2>4, <2>6, <2>7 DEF EmitsReference
<1>5. CASE ~Comparable
  BY <1>5 DEF EmitsReference
<1>6. QED
  BY <1>3, <1>4, <1>5

(* However the source's items are cut into batches, whichever path pop_all *)
(* takes, whoever has or has not subscribed and however often it is        *)
(* flushed: an observable has emitted what its chain means for everything  *)
(* it was fed, or for what a buffer was last made to show, nothing lost    *)
(* and nothing repeated, and is complete exactly when its chain has ended  *)
(* the stream or its source has (pop_all, pop_all_streaming_compiled and   *)
(* the apply functions, observable.c).  The chain has any length and any   *)
(* callbacks that return items; take is given a count it can reach,        *)
(* distinctUntilChanged keys that are not NULL, and the reference hands    *)
(* the completion token to no stage.                                       *)
THEOREM ChainsEmitReference ==
  ASSUME CallbacksReturn, KeysTell, TakesSome
  PROVE  Spec => [](InTheClear => EmitsReference)
<1>1. Init => TellInv
  BY TypesInit, SettledInit DEF TellInv
<1>2. TellInv /\ [Next]_vars => TellInv'
  BY SettledStep
<1>3. TellInv => (InTheClear => EmitsReference)
  BY SettledMeans
<1>4. QED
  BY <1>1, <1>2, <1>3, PTL DEF Spec

-----------------------------------------------------------------------------
(* One batch, given to a chain as it was built.  A take or a takeWhile     *)
(* hands the token on behind its items, and the stages after it have to    *)
(* live with it.                                                           *)
Tokens == Seq({Done})

LEMMA TokensEnd ==
  ASSUME NEW e \in Seq(Plain), NEW t \in Tokens
  PROVE  /\ e \in Seq(Items) /\ t \in Seq(Items) /\ e \o t \in Seq(Items)
         /\ UpToDone(e) = e /\ UpToDone(e \o t) = e
<1>1. e \in Seq(Items) /\ UpToDone(e) = e
  BY PlainIsWhole
<1>2. t \in Seq(Items) /\ \A i \in 1..Len(t) : t[i] = Done
  BY TokenType DEF Tokens
<1>3. UpToDone(e \o t) = e \o UpToDone(t)
  BY <1>1, <1>2, DoneBehind
<1>4. PICK u \in Seq(Items) : u = UpToDone(t) /\ Len(u) = 0
  <2>1. PICK u \in Seq(Items) : /\ u = UpToDone(t) /\ Len(u) <= Len(t)
                                /\ \A i \in 1..Len(u) : u[i] = t[i] /\ t[i] # Done
    BY <1>2, UpToDoneType
  <2>2. Len(u) = 0
    <3>1. SUFFICES ASSUME Len(u) # 0
                   PROVE  FALSE
      OBVIOUS
    <3>2. 1 \in 1..Len(u) /\ 1 \in 1..Len(t)
      BY <2>1, <3>1
    <3>3. QED
      BY <1>2, <2>1, <3>2
  <2>3. QED
    BY <2>1, <2>2
<1>5. e \o u = e
  BY <1>1, <1>4
<1>6. e \o t \in Seq(Items)
  BY <1>1, <1>2
<1>7. QED
  BY <1>1, <1>2, <1>3, <1>4, <1>5, <1>6

(* The operators whose loops break at the token.                           *)
Breakers ==
  {"map", "mapTo", "scan", "scanfrom", "skipUntil", "takeUntil", "first",
   "reduce"}

LEMMA BreakersBreak ==
  ASSUME NEW stage, stage.op \in Breakers, NEW e \in Seq(Plain),
         NEW t \in Tokens, NEW y, NEW isReady
  PROVE  Apply(stage, y, e \o t, isReady) = Apply(stage, y, e, isReady)
<1>1. PICK s : s = e \o t /\ UpToDone(s) = e /\ UpToDone(e) = e
  BY TokensEnd
<1>2. CASE stage.op = "map"
  BY <1>1, <1>2 DEF Apply, MapApply
<1>3. CASE stage.op = "mapTo"
  BY <1>1, <1>3 DEF Apply, MapToApply
<1>4. CASE stage.op \in {"scan", "scanfrom"}
  BY <1>1, <1>4 DEF Apply, ScanApply
<1>5. CASE stage.op = "skipUntil"
  <2>1. SkipUntilApply(stage.arg, y, s) = SkipUntilApply(stage.arg, y, e)
    BY <1>1 DEF SkipUntilApply
  <2>2. QED
    BY <1>1, <1>5, <2>1 DEF Apply
<1>6. CASE stage.op = "takeUntil"
  <2>1. TakeUntilApply(stage.arg, y, s) = TakeUntilApply(stage.arg, y, e)
    BY <1>1 DEF TakeUntilApply, TokenAfter
  <2>2. QED
    BY <1>1, <1>6, <2>1 DEF Apply
<1>7. CASE stage.op = "first"
  <2>1. FirstApply(y, s) = FirstApply(y, e)
    BY <1>1 DEF FirstApply, TokenAfter
  <2>2. QED
    BY <1>1, <1>7, <2>1 DEF Apply
<1>8. CASE stage.op = "reduce"
  BY <1>1, <1>8 DEF Apply, ReduceApply
<1>9. QED
  BY <1>2, <1>3, <1>4, <1>5, <1>6, <1>7, <1>8 DEF Breakers

(* Only what holds items back asks whether the observable is ready.        *)
LEMMA ReadyOrNot ==
  ASSUME NEW stage, stage.op \in Operations \ Holding, NEW y, NEW s,
         NEW isReady
  PROVE  Apply(stage, y, s, isReady) = Apply(stage, y, s, FALSE)
BY DEF Apply, Operations, Holding

(* The operators that let the token through, or drop it as they would drop *)
(* an item.                                                                *)
Passers == {"filter", "distinct", "distinctUntilChanged", "skip", "skipWhile"}

LEMMA PasserOneMore ==
  ASSUME NEW stage, Carrier(stage), stage.op \in Passers,
         NEW y, ContextOK(stage, y), NEW d \in Seq(Items), NEW x \in Items,
         NEW isReady
  PROVE  OneMore(stage, y, d, x, isReady)
<1>1. stage \in Stages /\ Returns(stage)
  BY DEF Carrier
<1>2. CASE stage.op = "filter"
  BY <1>2, FilterOneMore
<1>3. CASE stage.op = "distinct"
  <2>1. y \in SUBSET Items
    BY <1>3 DEF ContextOK
  <2>2. QED
    BY <1>1, <1>3, <2>1, UnseenOneMore
<1>4. CASE stage.op = "distinctUntilChanged"
  <2>1. y \in Items
    BY <1>4 DEF ContextOK
  <2>2. QED
    BY <1>1, <1>4, <2>1, ChangedOneMore
<1>5. CASE stage.op = "skip"
  <2>1. y \in Nat
    BY <1>5 DEF ContextOK
  <2>2. QED
    BY <1>1, <1>5, <2>1, CountOneMore
<1>6. CASE stage.op = "skipWhile"
  <2>1. y \in BOOLEAN
    BY <1>6 DEF ContextOK
  <2>2. QED
    BY <1>6, <2>1, SkipOneMore
<1>7. QED
  BY <1>2, <1>3, <1>4, <1>5, <1>6 DEF Passers

(* What comes out for a batch with tokens behind it: what comes out for    *)
(* the batch, with tokens behind it.                                       *)
TokensBehind(t, r, s) == \E u \in Tokens : Len(u) <= Len(t) /\ s = r \o u

LEMMA PassersPass ==
  ASSUME NEW stage, Carrier(stage), stage.op \in Passers,
         NEW y, ContextOK(stage, y), NEW e \in Seq(Plain), NEW t \in Tokens,
         NEW isReady
  PROVE  TokensBehind(t, Apply(stage, y, e, isReady).out,
                      Apply(stage, y, e \o t, isReady).out)
<1> DEFINE Out(s) == Apply(stage, y, s, isReady).out
           Passes(s) == TokensBehind(s, Out(e), Out(e \o s))
           P == {s \in Tokens : Passes(s)}
<1>1. e \in Seq(Items)
  BY PlainIsWhole
<1>2. \A s \in Seq(Items) : Out(s) \in Seq(Items)
  BY CarryType
<1>3. PICK r \in Seq(Items) : r = Out(e)
  BY <1>1, <1>2
<1>4. << >> \in P
  <2>1. PICK z \in Tokens : z = << >> /\ Len(z) <= Len(z)
    <3>1. << >> \in Tokens
      BY DEF Tokens
    <3>2. Len(<< >>) <= Len(<< >>)
      OBVIOUS
    <3>3. QED
      BY <3>1, <3>2
  <2>2. e \o z = e /\ r \o z = r
    BY <1>1, <1>3, <2>1, ConcatEmptySeq
  <2> HIDE DEF Out
  <2>3. Passes(z)
    BY <1>3, <2>1, <2>2 DEF TokensBehind
  <2>4. QED
    BY <2>1, <2>3
<1>5. \A s \in Seq({Done}), x \in {Done} : s \in P => Append(s, x) \in P
  <2>1. SUFFICES ASSUME NEW s \in Seq({Done}), Passes(s)
                 PROVE  Append(s, Done) \in Tokens /\ Passes(Append(s, Done))
    OBVIOUS
  <2>2. Append(s, Done) \in Tokens /\ Len(Append(s, Done)) = Len(s) + 1
        /\ Len(s) \in Nat /\ s \in Tokens
    BY DEF Tokens
  <2>3. s \in Seq(Items) /\ Done \in Items /\ e \o s \in Seq(Items)
    BY <2>2, TokensEnd, TokenType
  <2>4. Append(e \o s, Done) = e \o Append(s, Done)
    BY <1>1, <2>3, ConcatAppend
  <2>5. PICK u \in Tokens : Len(u) <= Len(s) /\ Out(e \o s) = r \o u
    <3> HIDE DEF Out
    <3> QED BY <1>3, <2>1 DEF TokensBehind
  <2>6. Out(Append(e \o s, Done)) \in {r \o u, Append(r \o u, Done)}
    <3>1. PICK a : a = Apply(stage, y, e \o s, isReady)
      OBVIOUS
    <3>2. Value(stage, a.ctx, Done) = Done
      BY DEF Value, Passers
    <3>3. Apply(stage, y, Append(e \o s, Done), isReady)
            = Result(IF Keeps(stage, a.ctx, Done)
                     THEN Append(a.out, Value(stage, a.ctx, Done)) ELSE a.out,
                     Memory(stage, a.ctx, Done))
      <4>1. OneMore(stage, y, e \o s, Done, isReady)
        BY <2>3, PasserOneMore
      <4>2. QED
        BY <3>1, <4>1 DEF OneMore
    <3>4. Out(Append(e \o s, Done)) \in {a.out, Append(a.out, Done)}
      <4>1. PICK v, m : v = Append(a.out, Done) /\ m = Memory(stage, a.ctx, Done)
        OBVIOUS
      <4>2. Apply(stage, y, Append(e \o s, Done), isReady)
              \in {Result(v, m), Result(a.out, m)}
        BY <3>2, <3>3, <4>1
      <4>3. Out(Append(e \o s, Done)) \in {v, a.out}
        BY <4>2, ResultFields
      <4>4. QED
        BY <4>1, <4>3
    <3>5. a.out = r \o u
      BY <2>5, <3>1
    <3>6. QED
      BY <3>4, <3>5
  <2>7. /\ u \in Seq(Items) /\ Append(u, Done) \in Tokens
        /\ Len(Append(u, Done)) = Len(u) + 1 /\ Len(u) \in Nat
    <3>1. u \in Seq({Done})
      BY DEF Tokens
    <3>2. u \in Seq(Items)
      BY TokensEnd
    <3>3. QED
      BY <3>1, <3>2 DEF Tokens
  <2>8. Append(r \o u, Done) = r \o Append(u, Done)
    BY <1>3, <2>3, <2>7, ConcatAppend
  <2> HIDE DEF Out
  <2>9. CASE Out(Append(e \o s, Done)) = r \o u
    <3>1. Len(u) <= Len(Append(s, Done))
      BY <2>2, <2>5, <2>7
    <3>2. Passes(Append(s, Done))
      BY <1>3, <2>4, <2>9, <3>1 DEF TokensBehind
    <3>3. QED
      BY <2>2, <3>2
  <2>10. CASE Out(Append(e \o s, Done)) = Append(r \o u, Done)
    <3>1. Len(Append(u, Done)) <= Len(Append(s, Done))
      BY <2>2, <2>5, <2>7
    <3>2. Passes(Append(s, Done))
      BY <1>3, <2>4, <2>7, <2>8, <2>10, <3>1 DEF TokensBehind
    <3>3. QED
      BY <2>2, <3>2
  <2>11. QED
    BY <2>6, <2>9, <2>10
<1>6. Seq({Done}) \subseteq P
  <2> HIDE DEF P
  <2> QED BY <1>4, <1>5, GrowingBatches
<1>7. QED
  BY <1>6 DEF Tokens

(* How many tokens a stage may put behind its items, when there are l of   *)
(* them behind those it is handed.                                         *)
TokensGrow(stage, l, m) ==
  \/ m <= l
  \/ stage.op = "takeWhile" /\ m <= 1
  \/ stage.op = "take" /\ m <= l + 1

(* A stage as built hands on what it means, and tokens.                    *)
PassesTokens(stage, e, t, isReady) ==
  \E u \in Tokens :
    /\ TokensGrow(stage, Len(t), Len(u))
    /\ Apply(stage, NewContext(stage), e \o t, isReady).out = RxOut(stage, e) \o u

LEMMA FirstsOfOne ==
  ASSUME NEW e \in Seq(Items), NEW f \in Seq(Items), NEW m \in 0..Len(e)
  PROVE  SubSeq(e \o f, 1, m) = SubSeq(e, 1, m)
<1>1. Len(e) \in Nat /\ Len(f) \in Nat /\ Len(e \o f) = Len(e) + Len(f)
  OBVIOUS
<1>2. \A i \in 1..m : (e \o f)[i] = e[i]
  BY <1>1
<1>3. SubSeq(e, 1, m) = [i \in 1..m |-> e[i]]
  BY <1>1
<1>4. SubSeq(e \o f, 1, m) = [i \in 1..m |-> (e \o f)[i]]
  BY <1>1
<1>5. QED
  BY <1>2, <1>3, <1>4

(* Some tokens, and one more.                                              *)
LEMMA FewerTokens ==
  ASSUME NEW t \in Tokens, NEW m \in 0..Len(t)
  PROVE  /\ SubSeq(t, 1, m) \in Tokens /\ SubSeq(t, 1, m) \in Seq(Items)
         /\ Append(SubSeq(t, 1, m), Done) \in Tokens
         /\ Len(Append(SubSeq(t, 1, m), Done)) = m + 1
<1>1. t \in Seq({Done})
  BY DEF Tokens
<1>2. PICK v \in Seq({Done}) : v = SubSeq(t, 1, m) /\ Len(v) = m
  <2>1. SubSeq(t, 1, m) \in Seq({Done}) /\ Len(SubSeq(t, 1, m)) = m
    BY <1>1
  <2>2. QED
    BY <2>1
<1>3. Append(v, Done) \in Seq({Done}) /\ Len(Append(v, Done)) = m + 1
  BY <1>2
<1>4. v \in Seq(Items)
  BY TokenType
<1>5. QED
  BY <1>2, <1>3, <1>4 DEF Tokens

(* Items cut off, with the token behind them.                              *)
LEMMA CutsOff ==
  ASSUME NEW stage, NEW e \in Seq(Plain), NEW t \in Tokens, NEW isReady,
         stage.op \in {"take", "takeWhile"}, NEW m \in 0..Len(e),
         RxOut(stage, e) = SubSeq(e, 1, m),
         Apply(stage, NewContext(stage), e \o t, isReady).out
           = Append(SubSeq(e \o t, 1, m), Done)
  PROVE  PassesTokens(stage, e, t, isReady)
<1>1. e \in Seq(Items) /\ t \in Seq(Items)
  BY TokensEnd
<1>2. PICK h \in Seq(Items) : h = SubSeq(e, 1, m) /\ h = SubSeq(e \o t, 1, m)
  BY <1>1, FirstItems, FirstsOfOne
<1>3. PICK u \in Tokens : u = << Done >> /\ Len(u) = 1
  <2>1. << Done >> \in Tokens
    BY DEF Tokens
  <2>2. Len(<< Done >>) = 1
    OBVIOUS
  <2>3. QED
    BY <2>1, <2>2
<1>4. Append(h, Done) = h \o u
  BY <1>2, <1>3, TokenType
<1>5. TokensGrow(stage, Len(t), Len(u))
  <2>1. Len(t) \in Nat
    BY <1>1
  <2>2. QED
    BY <1>3, <2>1 DEF TokensGrow
<1>6. QED
  BY <1>2, <1>3, <1>4, <1>5 DEF PassesTokens

(* Items let through, and some of the tokens, with one more behind them.   *)
LEMMA CutsTokens ==
  ASSUME NEW stage, NEW e \in Seq(Plain), NEW t \in Tokens, NEW isReady,
         RxOut(stage, e) = e, NEW m \in 0..Len(t),
         TokensGrow(stage, Len(t), m + 1),
         Apply(stage, NewContext(stage), e \o t, isReady).out
           = Append(SubSeq(e \o t, 1, Len(e) + m), Done)
  PROVE  PassesTokens(stage, e, t, isReady)
<1>1. e \in Seq(Items) /\ t \in Seq(Items) /\ Done \in Items
  BY TokensEnd, TokenType
<1>2. PICK v \in Seq(Items) : /\ v = SubSeq(t, 1, m) /\ Append(v, Done) \in Tokens
                              /\ Len(Append(v, Done)) = m + 1
  BY FewerTokens
<1>3. SubSeq(e \o t, 1, Len(e) + m) = e \o v
  BY <1>1, <1>2, FirstsOfTwo
<1>4. Append(e \o v, Done) = e \o Append(v, Done)
  BY <1>1, <1>2, ConcatAppend
<1>5. QED
  BY <1>2, <1>3, <1>4 DEF PassesTokens

LEMMA LetsThrough ==
  ASSUME NEW stage, NEW e \in Seq(Plain), NEW t \in Tokens, NEW isReady,
         RxOut(stage, e) = e,
         Apply(stage, NewContext(stage), e \o t, isReady).out = e \o t
  PROVE  PassesTokens(stage, e, t, isReady)
<1>1. Len(t) \in Nat
  BY TokensEnd
<1>2. TokensGrow(stage, Len(t), Len(t))
  BY <1>1 DEF TokensGrow
<1>3. QED
  BY <1>2 DEF PassesTokens

(* take counts the tokens it is handed.                                    *)
LEMMA TakePasses ==
  ASSUME NEW stage, Ender(stage), stage.op = "take",
         NEW e \in Seq(Plain), NEW t \in Tokens, NEW isReady
  PROVE  PassesTokens(stage, e, t, isReady)
<1> DEFINE arg == stage.arg
           n == Len(e)
           l == Len(t)
<1>1. /\ arg \in Nat \ {0} /\ n \in Nat /\ l \in Nat
      /\ e \in Seq(Items) /\ t \in Seq(Items)
  BY TokensEnd DEF Ender, Stages, Items
<1>2. Len(e \o t) = n + l
  BY <1>1
<1>3. NewContext(stage) = 0
  BY DEF NewContext
<1>4. Apply(stage, 0, e \o t, isReady).out
        = IF arg \in 1..(n + l) THEN Append(SubSeq(e \o t, 1, arg), Done)
          ELSE e \o t
  <2>1. PICK s : s = e \o t
    OBVIOUS
  <2>2. arg - 0 = arg
    BY <1>1
  <2>3. Apply(stage, 0, s, isReady)
          = IF arg \in 1..Len(s) THEN Result(Append(SubSeq(s, 1, arg), Done), arg)
            ELSE Result(s, 0 + Len(s))
    BY <2>2 DEF Apply, TakeApply
  <2>4. QED
    BY <1>2, <2>1, <2>3, ResultFields
<1>5. ASSUME NEW m \in 0..n, m = arg \/ (m = n /\ n < arg)
      PROVE  RxOut(stage, e) = SubSeq(e, 1, m)
  <2> DEFINE S == {i \in DOMAIN e : i <= arg}
  <2>1. RxOut(stage, e) = At(e, S)
    BY DEF RxOut
  <2>2. \A i \in 1..n : i \in S <=> i <= m
    BY <1>1, <1>5
  <2> HIDE DEF S
  <2>3. At(e, S) = SubSeq(e, 1, m)
    BY <1>1, <2>2, AtFirsts
  <2>4. QED
    BY <2>1, <2>3
<1> HIDE DEF n, l, arg
<1>6. CASE arg <= n
  <2>1. arg \in 0..n /\ arg \in 1..(n + l)
    BY <1>1, <1>6
  <2>2. Apply(stage, NewContext(stage), e \o t, isReady).out
          = Append(SubSeq(e \o t, 1, arg), Done)
    BY <1>3, <1>4, <2>1
  <2>3. RxOut(stage, e) = SubSeq(e, 1, arg)
    BY <1>5, <2>1
  <2>4. QED
    BY <2>1, <2>2, <2>3, CutsOff DEF n
<1>7. CASE arg > n
  <2>1. RxOut(stage, e) = e
    <3>1. n \in 0..n /\ n < arg
      BY <1>1, <1>7
    <3>2. SubSeq(e, 1, n) = e
      BY <1>1, SubSeqFull DEF n
    <3>3. QED
      BY <1>5, <3>1, <3>2
  <2>2. CASE arg \in 1..(n + l)
    <3>1. PICK m \in 0..l : arg = n + m /\ m + 1 <= l + 1
      <4>1. arg - n \in 0..l /\ arg = n + (arg - n) /\ (arg - n) + 1 <= l + 1
        BY <1>1, <1>7, <2>2
      <4>2. QED
        BY <4>1
    <3>2. Apply(stage, NewContext(stage), e \o t, isReady).out
            = Append(SubSeq(e \o t, 1, n + m), Done)
      BY <1>3, <1>4, <2>2, <3>1
    <3>3. TokensGrow(stage, l, m + 1)
      BY <3>1 DEF TokensGrow
    <3>4. QED
      BY <2>1, <3>1, <3>2, <3>3, CutsTokens DEF n, l
  <2>3. CASE arg \notin 1..(n + l)
    <3>1. Apply(stage, NewContext(stage), e \o t, isReady).out = e \o t
      BY <1>3, <1>4, <2>3
    <3>2. QED
      BY <2>1, <3>1, LetsThrough
  <2>4. QED
    BY <2>2, <2>3
<1>8. QED
  BY <1>1, <1>6, <1>7

(* takeWhile stops at the first token, if not before, or at none.          *)
LEMMA WhilePasses ==
  ASSUME NEW stage, Ender(stage), stage.op = "takeWhile",
         NEW e \in Seq(Plain), NEW t \in Tokens, NEW isReady
  PROVE  PassesTokens(stage, e, t, isReady)
<1> DEFINE arg == stage.arg
           n == Len(e)
           l == Len(t)
           I == Refused(arg, e)
           J == Refused(arg, e \o t)
           y == NewContext(stage)
<1>1. /\ n \in Nat /\ l \in Nat /\ e \in Seq(Items) /\ t \in Seq(Items)
  BY TokensEnd
<1>2. Len(e \o t) = n + l /\ n + l \in Nat
  BY <1>1
<1>3. /\ I \in SUBSET (1..n) /\ J \in SUBSET (1..(n + l))
      /\ \A i \in 1..n : i \in I <=> i \in J
  <2>1. \A i \in 1..n : (e \o t)[i] = e[i] /\ i \in 1..(n + l)
    BY <1>1
  <2>2. QED
    BY <1>2, <2>1 DEF Refused
<1>4. /\ FirstOf(I) \in 0..n /\ (FirstOf(I) = 0 <=> I = {})
      /\ FirstOf(I) # 0 => FirstOf(I) \in I /\ \A k \in I : FirstOf(I) <= k
  BY <1>1, <1>3, FirstPosition
<1>5. /\ FirstOf(J) \in 0..(n + l) /\ (FirstOf(J) = 0 <=> J = {})
      /\ FirstOf(J) # 0 => FirstOf(J) \in J /\ \A k \in J : FirstOf(J) <= k
  BY <1>2, <1>3, FirstPosition
<1>6. Apply(stage, y, e \o t, isReady).out
        = IF FirstOf(J) = 0 THEN e \o t
          ELSE Append(SubSeq(e \o t, 1, FirstOf(J) - 1), Done)
  <2>1. \A s : Apply(stage, y, s, isReady)
          = LET k == FirstOf(Refused(arg, s))
            IN  Result(IF k = 0 THEN s ELSE Append(SubSeq(s, 1, k - 1), Done), y)
    BY DEF Apply, TakeWhileApply, FirstIndex, SelectInSeq, FirstOf, Refused
  <2>2. QED
    BY <2>1, ResultFields
<1>7. RxOut(stage, e)
        = SubSeq(e, 1, IF FirstOf(I) = 0 THEN n ELSE FirstOf(I) - 1)
  <2>1. Ends(stage, 0, e) = I
    <3>1. Ends(stage, 0, e) = {i \in 1..n : EndsAt(stage, 0 + i, e[i])}
      BY DEF Ends
    <3>2. \A i \in 1..n : EndsAt(stage, 0 + i, e[i]) <=> ~Pred(arg, e[i])
      BY DEF EndsAt
    <3>3. QED
      BY <3>1, <3>2 DEF Refused
  <2>2. Until(stage, 0, e) = IF FirstOf(I) = 0 THEN n ELSE FirstOf(I) - 1
    BY <2>1 DEF Until
  <2>3. RxOut(stage, e) = SubSeq(e, 1, Until(stage, 0, e))
    BY <1>1, StopMeans
  <2>4. QED
    BY <2>2, <2>3
<1> HIDE DEF n, l, arg, I, J, y
<1>8. CASE I # {}
  <2>1. PICK i \in I : i = FirstOf(I) /\ i \in 1..n /\ i \in J
    BY <1>3, <1>4, <1>8
  <2>2. FirstOf(J) # 0 /\ FirstOf(J) \in J /\ FirstOf(J) <= i
    BY <1>5, <2>1
  <2>3. FirstOf(J) \in 1..n
    BY <1>1, <1>5, <2>1, <2>2
  <2>4. FirstOf(J) \in I
    BY <1>3, <2>2, <2>3
  <2>5. FirstOf(J) = i
    BY <1>1, <1>4, <2>1, <2>2, <2>3, <2>4
  <2>6. i - 1 \in 0..n
    BY <1>1, <2>1
  <2>7. RxOut(stage, e) = SubSeq(e, 1, i - 1)
    BY <1>1, <1>7, <2>1
  <2>8. Apply(stage, NewContext(stage), e \o t, isReady).out
          = Append(SubSeq(e \o t, 1, i - 1), Done)
    BY <1>6, <2>2, <2>5 DEF y
  <2>9. PICK m \in 0..Len(e) : m = i - 1
    BY <2>6 DEF n
  <2>10. /\ RxOut(stage, e) = SubSeq(e, 1, m)
         /\ Apply(stage, NewContext(stage), e \o t, isReady).out
              = Append(SubSeq(e \o t, 1, m), Done)
    BY <2>7, <2>8, <2>9
  <2>11. QED
    BY <2>10, CutsOff
<1>9. CASE I = {}
  <2>1. RxOut(stage, e) = e
    <3>1. RxOut(stage, e) = SubSeq(e, 1, n)
      BY <1>4, <1>7, <1>9
    <3>2. QED
      BY <1>1, <3>1, SubSeqFull DEF n
  <2>2. CASE FirstOf(J) = 0
    <3>1. Apply(stage, NewContext(stage), e \o t, isReady).out = e \o t
      BY <1>6, <2>2 DEF y
    <3>2. QED
      BY <2>1, <3>1, LetsThrough
  <2>3. CASE FirstOf(J) # 0
    <3>1. FirstOf(J) \in J /\ FirstOf(J) \notin 1..n /\ FirstOf(J) \in 1..(n + l)
      BY <1>3, <1>5, <1>9, <2>3
    <3>2. PICK m \in 0..l : FirstOf(J) - 1 = n + m /\ m + 1 <= l
      <4>1. /\ FirstOf(J) - 1 - n \in 0..l
            /\ FirstOf(J) - 1 = n + (FirstOf(J) - 1 - n)
            /\ (FirstOf(J) - 1 - n) + 1 <= l
        BY <1>1, <3>1
      <4>2. QED
        BY <4>1
    <3>3. Apply(stage, NewContext(stage), e \o t, isReady).out
            = Append(SubSeq(e \o t, 1, n + m), Done)
      BY <1>6, <2>3, <3>2 DEF y
    <3>4. TokensGrow(stage, l, m + 1)
      BY <3>2 DEF TokensGrow
    <3>5. QED
      BY <2>1, <3>3, <3>4, CutsTokens DEF n, l
  <2>4. QED
    BY <2>2, <2>3
<1>10. QED
  BY <1>8, <1>9

(* Every stage that may stand before the last.                             *)
Goer(stage) ==
  AsBuilt(stage) \/ (Ender(stage) /\ stage.op \in {"take", "takeWhile"})

LEMMA StagePasses ==
  ASSUME NEW stage, Goer(stage), NEW e \in Seq(Plain), NEW t \in Tokens,
         NEW isReady
  PROVE  PassesTokens(stage, e, t, isReady)
<1>1. CASE Ender(stage) /\ stage.op \in {"take", "takeWhile"}
  BY <1>1, TakePasses, WhilePasses
<1>2. CASE AsBuilt(stage)
  <2> DEFINE y == NewContext(stage)
  <2>1. /\ Carrier(stage) /\ stage \in Stages /\ stage.op \in CarryKinds
    BY <1>2 DEF AsBuilt, Carrier
  <2>2. ContextOK(stage, y)
    BY <2>1, NewContextOK
  <2>3. stage.op \in Operations \ Holding
    BY <2>1 DEF Stages, CarryKinds, ItemKinds, Holding, Operations
  <2>4. PICK r \in Seq(Items) : /\ r = RxOut(stage, e)
                                /\ r = Apply(stage, y, e, isReady).out
    <3>1. Apply(stage, y, e, isReady) = Apply(stage, y, e, FALSE)
      BY <2>3, ReadyOrNot
    <3>2. Apply(stage, y, e, FALSE).out = RxOut(stage, e)
      BY <1>2, StageMeans
    <3>3. Apply(stage, y, e, isReady).out \in Seq(Items)
      BY <2>1, <2>2, TokensEnd, CarryType
    <3>4. QED
      BY <3>1, <3>2, <3>3
  <2> HIDE DEF y
  <2>5. t \in Seq({Done}) /\ Len(t) \in Nat
    BY DEF Tokens
  <2>6. CASE stage.op \in Passers
    <3>1. TokensBehind(t, Apply(stage, y, e, isReady).out,
                       Apply(stage, y, e \o t, isReady).out)
      BY <2>1, <2>2, <2>6, PassersPass
    <3>2. PICK u \in Tokens : /\ Len(u) <= Len(t)
                              /\ Apply(stage, y, e \o t, isReady).out = r \o u
      BY <2>4, <3>1 DEF TokensBehind
    <3>3. QED
      BY <2>4, <3>2 DEF PassesTokens, TokensGrow, y
  <2>7. CASE stage.op \in Breakers
    <3>1. PICK u \in Tokens : u = << >> /\ Len(u) = 0
      <4>1. << >> \in Tokens
        BY DEF Tokens
      <4>2. Len(<< >>) = 0
        OBVIOUS
      <4>3. QED
        BY <4>1, <4>2
    <3>2. Apply(stage, y, e \o t, isReady).out = r
      BY <2>4, <2>7, BreakersBreak
    <3>3. r = r \o u
      BY <2>4, <3>1
    <3>4. Len(u) <= Len(t)
      BY <2>5, <3>1
    <3>5. QED
      BY <2>4, <3>2, <3>3, <3>4 DEF PassesTokens, TokensGrow, y
  <2>8. QED
    BY <2>1, <2>6, <2>7 DEF CarryKinds, ItemKinds, Passers, Breakers
<1>3. QED
  BY <1>1, <1>2 DEF Goer

(* The chains that are compared after one batch.  A last does not look     *)
(* behind a second token, so nothing puts one there.                       *)
Cutters == {"take", "takeWhile"}

OneBehind(c) ==
  c[Len(c)].op = "last" =>
    \A j \in 1..Len(c) : c[j].op = "take" =>
      \A i \in 1..(j - 1) : c[i].op \notin Cutters

OnceChain(c) ==
  /\ AccumReturns /\ c \in Seq(Readers) /\ c \in Seq(Stages) /\ Callbacks(c)
  /\ Len(c) \in Nat \ {0}
  /\ \A k \in 1..(Len(c) - 1) : Goer(c[k])
  /\ Goer(c[Len(c)]) \/ Ender(c[Len(c)]) \/ c[Len(c)].op \in Aggregating
  /\ OneBehind(c)

(* The batch d, handed to such a chain as it was built.                    *)
Fresh(c, d, x) ==
  /\ OnceChain(c) /\ d \in Seq(Plain) /\ x \in CtxsOf(c)
  /\ \A k \in 1..Len(c) : x[k] = NewContext(c[k])
  /\ PlainSoFar(c, Len(c) - 1, d)
Once(c, d, x, isReady, o) == Fresh(c, d, x) /\ Outs(o, c, x, d, isReady)

(* It comes down to the k-th stage as what it means, and tokens behind it, *)
(* which an operator on the way has put there.                             *)
Trails(c, d, o, k, t) ==
  /\ o[k] = Passed(c, k, d) \o t
  /\ Len(t) # 0 => \E i \in 1..k : c[i].op \in Cutters
  /\ c[Len(c)].op = "last" => Len(t) <= 1

LEMMA OnceIs ==
  ASSUME NEW c, NEW d, NEW x, NEW isReady, NEW o, Once(c, d, x, isReady, o)
  PROVE  /\ Len(c) \in Nat \ {0}
         /\ d \in Seq(Items) /\ Passed(c, 0, d) = d /\ o[0] = d
         /\ \A k \in 0..(Len(c) - 1) : Passed(c, k, d) \in Seq(Plain)
         /\ \A k \in 1..Len(c) :
              /\ Passed(c, k, d) = RxOut(c[k], Passed(c, k - 1, d))
              /\ o[k] = Apply(c[k], NewContext(c[k]), o[k - 1], isReady).out
         /\ Rx(c, d).out = Passed(c, Len(c), d)
<1>1. /\ AccumReturns /\ c \in Seq(Readers) /\ Len(c) \in Nat \ {0}
      /\ d \in Seq(Plain) /\ d \in Seq(Items)
      /\ \A k \in 1..Len(c) : x[k] = NewContext(c[k])
      /\ \A k \in 1..(Len(c) - 1) : Passed(c, k, d) \in Seq(Plain)
      /\ o[0] = d
      /\ \A k \in 1..Len(c) : o[k] = Apply(c[k], x[k], o[k - 1], isReady).out
  BY PlainIsWhole DEF Once, Fresh, OnceChain, PlainSoFar, Outs
<1>2. /\ Passed(c, 0, d) = d
      /\ \A k \in 1..Len(c) : Passed(c, k, d) = RxOut(c[k], Passed(c, k - 1, d))
      /\ Rx(c, d).out = Passed(c, Len(c), d)
  BY <1>1, PassedOn
<1>3. ASSUME NEW k \in 0..(Len(c) - 1)
      PROVE  Passed(c, k, d) \in Seq(Plain)
  <2>1. k = 0 \/ k \in 1..(Len(c) - 1)
    BY <1>1
  <2>2. QED
    BY <1>1, <1>2, <2>1
<1>4. \A k \in 1..Len(c) :
        o[k] = Apply(c[k], NewContext(c[k]), o[k - 1], isReady).out
  BY <1>1
<1>5. QED
  BY <1>1, <1>2, <1>3, <1>4

LEMMA TrailsOneMore ==
  ASSUME NEW c, NEW d, NEW x, NEW isReady, NEW o, Once(c, d, x, isReady, o),
         NEW k \in 1..Len(c), Goer(c[k]),
         NEW t \in Tokens, Trails(c, d, o, k - 1, t)
  PROVE  \E u \in Tokens : Trails(c, d, o, k, u)
<1>1. /\ Len(c) \in Nat \ {0}
      /\ k - 1 \in 0..(Len(c) - 1)
      /\ Passed(c, k - 1, d) \in Seq(Plain)
      /\ Passed(c, k, d) = RxOut(c[k], Passed(c, k - 1, d))
      /\ o[k] = Apply(c[k], NewContext(c[k]), o[k - 1], isReady).out
  <2>1. Len(c) \in Nat \ {0}
    BY OnceIs
  <2>2. k - 1 \in 0..(Len(c) - 1)
    BY <2>1
  <2>3. QED
    BY <2>1, <2>2, OnceIs
<1>2. PICK e \in Seq(Plain) : e = Passed(c, k - 1, d)
  BY <1>1
<1>3. PassesTokens(c[k], e, t, isReady)
  BY StagePasses
<1>4. PICK u \in Tokens :
        /\ TokensGrow(c[k], Len(t), Len(u))
        /\ Apply(c[k], NewContext(c[k]), e \o t, isReady).out
             = RxOut(c[k], e) \o u
  BY <1>3 DEF PassesTokens
<1>5. o[k] = Passed(c, k, d) \o u
  BY <1>1, <1>2, <1>4 DEF Trails
<1>6. Len(u) \in Nat /\ Len(t) \in Nat /\ k \in Nat
  BY DEF Tokens
<1>7. ASSUME Len(u) # 0
      PROVE  \E i \in 1..k : c[i].op \in Cutters
  <2>1. CASE c[k].op \in Cutters
    <3>1. k \in 1..k
      OBVIOUS
    <3>2. QED
      BY <2>1, <3>1
  <2>2. CASE c[k].op \notin Cutters
    <3>1. Len(u) <= Len(t)
      BY <1>4, <2>2 DEF TokensGrow, Cutters
    <3>2. Len(t) # 0
      BY <1>6, <1>7, <3>1
    <3>3. PICK i \in 1..(k - 1) : c[i].op \in Cutters
      BY <3>2 DEF Trails
    <3>4. i \in 1..k
      BY <1>6
    <3>5. QED
      BY <3>3, <3>4
  <2>3. QED
    BY <2>1, <2>2
<1>8. ASSUME c[Len(c)].op = "last"
      PROVE  Len(u) <= 1
  <2>1. Len(t) <= 1
    BY <1>8 DEF Trails
  <2>2. CASE c[k].op # "take"
    BY <1>4, <1>6, <2>1, <2>2 DEF TokensGrow
  <2>3. CASE c[k].op = "take"
    <3>1. \A i \in 1..(k - 1) : c[i].op \notin Cutters
      BY <1>8, <2>3 DEF Once, Fresh, OnceChain, OneBehind
    <3>2. Len(t) = 0
      BY <3>1 DEF Trails
    <3>3. QED
      BY <1>4, <1>6, <2>3, <3>2 DEF TokensGrow
  <2>4. QED
    BY <2>2, <2>3
<1>9. QED
  BY <1>5, <1>7, <1>8 DEF Trails

LEMMA TrailsDown ==
  ASSUME NEW c, NEW d, NEW x, NEW isReady, NEW o, Once(c, d, x, isReady, o),
         NEW m \in 0..Len(c), \A k \in 1..m : Goer(c[k])
  PROVE  \E t \in Tokens : Trails(c, d, o, m, t)
<1> DEFINE Behind(k) == \E t \in Tokens : Trails(c, d, o, k, t)
           P == {k \in Nat : k <= m => Behind(k)}
<1>1. Len(c) \in Nat /\ m \in Nat /\ m <= Len(c)
  BY OnceIs
<1>2. 0 \in P
  <2>1. PICK z \in Tokens : z = << >> /\ Len(z) = 0
    <3>1. << >> \in Tokens
      BY DEF Tokens
    <3>2. QED
      BY <3>1
  <2>2. d \in Seq(Items) /\ Passed(c, 0, d) = d /\ o[0] = d
    BY OnceIs
  <2>3. d \o z = d
    BY <2>1, <2>2, ConcatEmptySeq
  <2>4. Trails(c, d, o, 0, z)
    BY <2>1, <2>2, <2>3 DEF Trails
  <2>5. QED
    BY <2>1, <2>4
<1>3. ASSUME NEW k \in Nat, k \in P
      PROVE  k + 1 \in P
  <2>1. SUFFICES ASSUME k + 1 <= m
                 PROVE  Behind(k + 1)
    <3> HIDE DEF Behind
    <3> QED OBVIOUS
  <2>2. /\ k + 1 \in 1..Len(c) /\ k + 1 \in 1..m
        /\ (k + 1) - 1 = k /\ k <= m
    BY <1>1, <2>1
  <2>3. PICK j \in 1..Len(c) : j = k + 1
    BY <2>2
  <2>4. Goer(c[j]) /\ j - 1 = k
    BY <2>2, <2>3
  <2>5. PICK t \in Tokens : Trails(c, d, o, j - 1, t)
    BY <1>3, <2>2, <2>4
  <2>6. Behind(j)
    BY <2>4, <2>5, TrailsOneMore
  <2>7. QED
    BY <2>3, <2>6
<1>4. m \in P
  <2> HIDE DEF P
  <2>1. P = Nat \/ Nat \subseteq P
    BY <1>2, <1>3, SetInduction
  <2>2. QED
    BY <1>1, <2>1
<1>5. QED
  BY <1>4

(* What the last stage makes of it.  A last looks past one token.          *)
LEMMA LastLooksPast ==
  ASSUME NEW stage, stage.op = "last", NEW e \in Seq(Plain), Len(e) # 0,
         NEW t \in Tokens, Len(t) <= 1, NEW y, NEW isReady
  PROVE  Apply(stage, y, e \o t, isReady).out = << Last(e) >>
<1>1. /\ e \in Seq(Items) /\ t \in Seq(Items) /\ Len(t) \in Nat
      /\ Len(e) \in Nat /\ Len(t) \in {0, 1}
      /\ \A i \in 1..Len(t) : t[i] = Done
  <2>1. e \in Seq(Items) /\ t \in Seq(Items)
    BY TokensEnd
  <2>2. t \in Seq({Done})
    BY DEF Tokens
  <2>3. Len(t) \in Nat /\ Len(e) \in Nat
    BY <2>1
  <2>4. \A i \in 1..Len(t) : t[i] = Done
    BY <2>2
  <2>5. Len(t) \in {0, 1}
    <3>1. PICK l \in Nat : l = Len(t) /\ l <= 1
      BY <2>3
    <3>2. l \in {0, 1}
      BY <3>1
    <3>3. QED
      BY <3>1, <3>2
  <2>6. QED
    BY <2>1, <2>3, <2>4, <2>5
<1>2. PICK s \in Seq(Items) : s = e \o t /\ Len(s) = Len(e) + Len(t)
  <2>1. e \o t \in Seq(Items) /\ Len(e \o t) = Len(e) + Len(t)
    BY <1>1
  <2>2. QED
    BY <2>1
<1>3. Apply(stage, y, s, isReady) = LastApply(y, s)
  BY DEF Apply
<1>4. CASE Len(t) = 0
  <2>1. s = e
    BY <1>1, <1>2, <1>4
  <2>2. Last(e) \in Plain
    BY <1>1 DEF Last
  <2>3. LastApply(y, e) = Result(<< Last(e) >>, y)
    BY <1>1, <2>2 DEF LastApply, Plain
  <2>4. QED
    BY <1>2, <1>3, <2>1, <2>3, ResultFields
<1>5. CASE Len(t) = 1
  <2>1. t[1] = Done
    BY <1>1, <1>5
  <2>2. Len(s) = Len(e) + 1 /\ s[Len(s)] = Done /\ s[Len(s) - 1] = e[Len(e)]
    BY <1>1, <1>2, <1>5, <2>1
  <2>3. Last(s) = Done /\ s # << >> /\ Len(s) # 1
    BY <1>1, <2>2 DEF Last
  <2>4. LastApply(y, s) = Result(<< s[Len(s) - 1] >>, y)
    BY <2>3 DEF LastApply
  <2>5. QED
    BY <1>2, <1>3, <2>2, <2>4, ResultFields DEF Last
<1>6. QED
  BY <1>1, <1>4, <1>5

LEMMA AggregatesOnce ==
  ASSUME NEW c, NEW d, NEW x, NEW isReady, NEW o, Once(c, d, x, isReady, o),
         c[Len(c)].op \in Aggregating, Len(Passed(c, Len(c) - 1, d)) # 0
  PROVE  o[Len(c)] = Passed(c, Len(c), d)
<1> DEFINE n == Len(c)
<1>1. /\ n \in Nat \ {0} /\ n \in 1..n /\ n - 1 \in 0..(n - 1) /\ n - 1 \in 0..n
      /\ \A k \in 1..(n - 1) : Goer(c[k])
  <2>1. n \in Nat \ {0}
    BY OnceIs
  <2>2. \A k \in 1..(n - 1) : Goer(c[k])
    BY DEF Once, Fresh, OnceChain
  <2> HIDE DEF n
  <2>3. QED
    BY <2>1, <2>2
<1>2. PICK t \in Tokens : Trails(c, d, o, n - 1, t)
  BY <1>1, TrailsDown
<1>3. PICK e \in Seq(Plain) : e = Passed(c, n - 1, d)
  BY <1>1, OnceIs
<1>4. /\ Passed(c, n, d) = RxOut(c[n], e)
      /\ o[n] = Apply(c[n], NewContext(c[n]), e \o t, isReady).out
  <2>1. /\ Passed(c, n, d) = RxOut(c[n], Passed(c, n - 1, d))
        /\ o[n] = Apply(c[n], NewContext(c[n]), o[n - 1], isReady).out
    BY <1>1, OnceIs
  <2>2. o[n - 1] = e \o t
    BY <1>2, <1>3 DEF Trails
  <2>3. QED
    BY <1>3, <2>1, <2>2
<1>5. Len(e) # 0 /\ e # << >>
  BY <1>3
<1>6. CASE c[n].op = "reduce"
  <2>1. c[n].op \in Breakers /\ Aggregates(c[n], e)
    BY <1>6 DEF Breakers, Aggregates, Once, Fresh, OnceChain
  <2>2. Apply(c[n], NewContext(c[n]), e \o t, isReady)
          = Apply(c[n], NewContext(c[n]), e, isReady)
    BY <2>1, BreakersBreak
  <2>3. Apply(c[n], NewContext(c[n]), e, isReady).out = << Reduced(e) >>
    BY <1>6, <2>1, AggregateIs
  <2>4. RxOut(c[n], e) = << Reduced(e) >>
    BY <1>5, <1>6 DEF RxOut, Reduced
  <2>5. QED
    BY <1>4, <2>2, <2>3, <2>4
<1>7. CASE c[n].op = "last"
  <2>1. Len(t) <= 1
    BY <1>2, <1>7 DEF Trails
  <2>2. RxOut(c[n], e) = << Last(e) >>
    BY <1>5, <1>7 DEF RxOut
  <2>3. QED
    BY <1>4, <1>5, <1>7, <2>1, <2>2, LastLooksPast
<1>8. QED
  BY <1>6, <1>7 DEF Aggregating

LEMMA StopsOnce ==
  ASSUME NEW stage, Ender(stage), stage.op \in {"takeUntil", "first"},
         NEW e \in Seq(Plain), NEW t \in Tokens, NEW isReady
  PROVE  UpToDone(Apply(stage, NewContext(stage), e \o t, isReady).out)
           = RxOut(stage, e)
<1> DEFINE a == Apply(stage, NewContext(stage), e, isReady)
           S == Ends(stage, 0, e)
<1>1. Apply(stage, NewContext(stage), e \o t, isReady) = a
  BY BreakersBreak DEF Breakers
<1>2. e \in Seq(Items) /\ UpToDone(e) = e
  BY PlainIsWhole
<1>3. RxOut(stage, e) = SubSeq(e, 1, Until(stage, 0, e))
  BY <1>2, StopMeans
<1>4. /\ S = {} => a.out = e
      /\ S # {} => UpToDone(a.out) = SubSeq(e, 1, Until(stage, 0, e))
  BY StopApplies
<1>5. S = {} => Until(stage, 0, e) = Len(e)
  BY <1>2, UntilIs
<1>6. SubSeq(e, 1, Len(e)) = e
  BY <1>2
<1>7. UpToDone(a.out) = RxOut(stage, e)
  BY <1>2, <1>3, <1>4, <1>5, <1>6
<1>8. QED
  BY <1>1, <1>7

LEMMA EndsOnce ==
  ASSUME NEW c, NEW d, NEW x, NEW isReady, NEW o, Once(c, d, x, isReady, o),
         Passed(c, Len(c), d) \in Seq(Plain),
         c[Len(c)].op \in Aggregating => Len(Passed(c, Len(c) - 1, d)) # 0
  PROVE  UpToDone(o[Len(c)]) = Passed(c, Len(c), d)
<1> DEFINE n == Len(c)
<1>1. /\ n \in Nat \ {0} /\ n \in 1..n /\ n - 1 \in 0..(n - 1) /\ n - 1 \in 0..n
      /\ n \in 0..n /\ \A k \in 1..(n - 1) : Goer(c[k])
  <2>1. n \in Nat \ {0}
    BY OnceIs
  <2>2. \A k \in 1..(n - 1) : Goer(c[k])
    BY DEF Once, Fresh, OnceChain
  <2> HIDE DEF n
  <2>3. QED
    BY <2>1, <2>2
<1>2. PICK r \in Seq(Plain) : r = Passed(c, n, d) /\ UpToDone(r) = r
  BY PlainIsWhole
<1>3. CASE Goer(c[n])
  <2>1. \A k \in 1..n : Goer(c[k])
    <3>1. \A k \in 1..n : k = n \/ k \in 1..(n - 1)
      <4> HIDE DEF n
      <4> QED BY <1>1
    <3>2. QED
      BY <1>1, <1>3, <3>1
  <2>2. PICK t \in Tokens : Trails(c, d, o, n, t)
    BY <1>1, <2>1, TrailsDown
  <2>3. o[n] = r \o t
    BY <1>2, <2>2 DEF Trails
  <2>4. QED
    BY <1>2, <2>3, TokensEnd
<1>4. CASE c[n].op \in Aggregating
  BY <1>2, <1>4, AggregatesOnce
<1>5. CASE Ender(c[n]) /\ c[n].op \in {"takeUntil", "first"}
  <2>1. PICK t \in Tokens : Trails(c, d, o, n - 1, t)
    BY <1>1, TrailsDown
  <2>2. PICK e \in Seq(Plain) : e = Passed(c, n - 1, d)
    BY <1>1, OnceIs
  <2>3. /\ Passed(c, n, d) = RxOut(c[n], e)
        /\ o[n] = Apply(c[n], NewContext(c[n]), e \o t, isReady).out
    <3>1. /\ Passed(c, n, d) = RxOut(c[n], Passed(c, n - 1, d))
          /\ o[n] = Apply(c[n], NewContext(c[n]), o[n - 1], isReady).out
      BY <1>1, OnceIs
    <3>2. o[n - 1] = e \o t
      BY <2>1, <2>2 DEF Trails
    <3>3. QED
      BY <2>2, <3>1, <3>2
  <2>4. QED
    BY <1>5, <2>3, StopsOnce
<1>6. Goer(c[n]) \/ Ender(c[n]) \/ c[n].op \in Aggregating
  BY DEF Once, Fresh, OnceChain
<1>7. QED
  BY <1>3, <1>4, <1>5, <1>6 DEF Ender, Stopping, Goer

(* Through the streaming loops.  take and takeWhile are not among the      *)
(* operators that stream, so nothing trails behind the items.              *)
LEMMA NoneTrails ==
  ASSUME NEW c, NEW d, NEW x, NEW isReady, NEW o, Once(c, d, x, isReady, o),
         Streamable(Compile(c)),
         NEW m \in 0..Len(c), \A k \in 1..m : Goer(c[k])
  PROVE  o[m] = Passed(c, m, d)
<1>1. /\ AccumReturns /\ c \in Seq(Readers) /\ c \in Seq(Stages)
      /\ Len(c) \in Nat /\ d \in Seq(Items) /\ DOMAIN c = 1..Len(c)
  BY PlainIsWhole DEF Once, Fresh, OnceChain
<1>2. PICK t \in Tokens : Trails(c, d, o, m, t)
  BY TrailsDown
<1>3. \A i \in 1..m : c[i].op \notin Cutters
  <2>1. StreamsOps(c)
    BY <1>1, OpsStream
  <2>2. \A i \in 1..m : i \in DOMAIN c
    BY <1>1
  <2>3. QED
    BY <2>1, <2>2 DEF StreamsOps, StreamableKinds, Cutters
<1>4. Len(t) = 0 /\ o[m] = Passed(c, m, d) \o t
  BY <1>2, <1>3 DEF Trails
<1>5. Passed(c, m, d) \in Seq(Items)
  BY <1>1, PassedOn
<1>6. t = << >>
  BY <1>4 DEF Tokens
<1>7. QED
  BY <1>4, <1>5, <1>6, ConcatEmptySeq

LEMMA CleanOnce ==
  ASSUME NEW c, NEW d, NEW x, NEW isReady, NEW o, Once(c, d, x, isReady, o),
         Streamable(Compile(c))
  PROVE  /\ Clean(c, o) /\ Streams(c)
         /\ o[Len(c) - 1] = Passed(c, Len(c) - 1, d)
<1>1. /\ AccumReturns /\ c \in Seq(Stages) /\ Callbacks(c)
      /\ Len(c) \in Nat \ {0} /\ \A k \in 1..(Len(c) - 1) : Goer(c[k])
  BY DEF Once, Fresh, OnceChain
<1>2. ASSUME NEW k \in 0..(Len(c) - 1)
      PROVE  o[k] = Passed(c, k, d) /\ o[k] \in Seq(Plain)
  <2>1. k \in 0..Len(c) /\ \A i \in 1..k : i \in 1..(Len(c) - 1)
    BY <1>1
  <2>2. \A i \in 1..k : Goer(c[i])
    BY <1>1, <2>1
  <2>3. o[k] = Passed(c, k, d)
    BY <2>1, <2>2, NoneTrails
  <2>4. Passed(c, k, d) \in Seq(Plain)
    BY OnceIs
  <2>5. QED
    BY <2>3, <2>4
<1>3. Len(c) - 1 \in 0..(Len(c) - 1) /\ c # << >>
  BY <1>1
<1>4. QED
  BY <1>1, <1>2, <1>3 DEF Clean, Streams

LEMMA FrontGives ==
  ASSUME NEW c, Streams(c), NEW x \in CtxsOf(c), NEW d \in Seq(Items),
         NEW isReady, NEW o, Outs(o, c, x, d, isReady)
  PROVE  GenericBatch(Front(c), Front(x), d, isReady).out = o[Len(c) - 1]
<1> DEFINE n == Len(c)
           e == SubSeq(c, 1, n - 1)
           y == SubSeq(x, 1, n - 1)
<1>1. /\ AccumReturns /\ c \in Seq(Stages) /\ Callbacks(c) /\ n - 1 \in 0..n
  BY EndIsKnown DEF Streams
<1>2. /\ e \in Seq(Stages) /\ Callbacks(e) /\ Len(e) = n - 1
      /\ y \in CtxsOf(e) /\ Alike(c, e, x, y, n - 1) /\ Len(x) = n
  BY <1>1, BeginningOf
<1>3. Front(c) = e /\ Front(x) = y
  BY <1>2 DEF Front
<1> HIDE DEF e, y
<1>4. PICK p : /\ Outs(p, e, y, d, isReady)
               /\ GenericBatch(e, y, d, isReady)
                    = Result(p[Len(e)], Left(p, e, y, isReady))
  BY <1>1, <1>2, GenericSteps
<1>5. o[n - 1] = p[n - 1]
  BY <1>2, <1>4, OutsAgree
<1>6. GenericBatch(e, y, d, isReady).out = p[n - 1]
  BY <1>2, <1>4, ResultFields
<1>7. QED
  BY <1>3, <1>5, <1>6

LEMMA StreamsOnce ==
  ASSUME NEW c, NEW d, NEW x, Fresh(c, d, x), Streamable(Compile(c)),
         c[Len(c)].op \in Aggregating => Len(Passed(c, Len(c) - 1, d)) # 0
  PROVE  StreamBatch(c, Compile(c), x, d).out = Passed(c, Len(c), d)
<1> DEFINE n == Len(c)
<1>1. /\ AccumReturns /\ c \in Seq(Stages) /\ Callbacks(c) /\ x \in CtxsOf(c)
      /\ d \in Seq(Plain) /\ d \in Seq(Items)
      /\ \A k \in 1..(n - 1) : Goer(c[k])
      /\ Goer(c[n]) \/ Ender(c[n]) \/ c[n].op \in Aggregating
  BY PlainIsWhole DEF Fresh, OnceChain
<1>2. PICK no : no = FALSE
  OBVIOUS
<1>3. PICK o : /\ Outs(o, c, x, d, no)
               /\ GenericBatch(c, x, d, no) = Result(o[n], Left(o, c, x, no))
  BY <1>1, GenericSteps
<1>4. Once(c, d, x, no, o) /\ Streams(c) /\ o[n - 1] = Passed(c, n - 1, d)
  <2>1. Once(c, d, x, no, o)
    BY <1>3 DEF Once
  <2>2. QED
    BY <2>1, CleanOnce
<1>5. \A q : Outs(q, c, x, d, no) => Clean(c, q)
  <2>1. SUFFICES ASSUME NEW q, Outs(q, c, x, d, no)
                 PROVE  Clean(c, q)
    OBVIOUS
  <2>2. Once(c, d, x, no, q)
    BY <2>1 DEF Once
  <2>3. QED
    BY <2>2, CleanOnce
<1>6. GenericBatch(Front(c), Front(x), d, no).out = Passed(c, n - 1, d)
  BY <1>1, <1>3, <1>4, FrontGives
<1>7. StreamBatch(c, Compile(c), x, d) = GenericBatch(c, x, d, no)
  <2>1. ~(/\ c[n].op \in {"reduce", "last"}
          /\ GenericBatch(Front(c), Front(x), d, no).out = << >>)
    BY <1>6 DEF Aggregating
  <2>2. QED
    BY <1>1, <1>4, <1>5, <2>1, BatchesAgree
<1>8. o[n] = Passed(c, n, d)
  <2>1. CASE c[n].op \in Aggregating
    BY <1>4, <2>1, AggregatesOnce
  <2>2. CASE c[n].op \notin Aggregating
    <3>1. n \in Nat \ {0} /\ c[n].op \in ItemKinds \union {"reduce", "last"}
      BY <1>4, EndIsKnown
    <3>2. Goer(c[n])
      BY <1>1, <2>2, <3>1 DEF Ender, Stopping, ItemKinds, Aggregating
    <3>3. n \in 0..n /\ \A k \in 1..n : k = n \/ k \in 1..(n - 1)
      <4> HIDE DEF n
      <4> QED BY <3>1
    <3>4. \A k \in 1..n : Goer(c[k])
      BY <1>1, <3>2, <3>3
    <3>5. QED
      BY <1>4, <3>3, <3>4, NoneTrails
  <2>3. QED
    BY <2>1, <2>2
<1>9. StreamBatch(c, Compile(c), x, d).out = o[n]
  BY <1>3, <1>7, ResultFields
<1>10. QED
  BY <1>8, <1>9

LEMMA GenericOnce ==
  ASSUME NEW c, NEW d, NEW x, Fresh(c, d, x), NEW isReady,
         Passed(c, Len(c), d) \in Seq(Plain),
         c[Len(c)].op \in Aggregating => Len(Passed(c, Len(c) - 1, d)) # 0
  PROVE  UpToDone(GenericBatch(c, x, d, isReady).out) = Passed(c, Len(c), d)
<1>1. /\ AccumReturns /\ c \in Seq(Stages) /\ Callbacks(c) /\ x \in CtxsOf(c)
      /\ d \in Seq(Items)
  BY PlainIsWhole DEF Fresh, OnceChain
<1>2. PICK o : /\ Outs(o, c, x, d, isReady)
               /\ GenericBatch(c, x, d, isReady)
                    = Result(o[Len(c)], Left(o, c, x, isReady))
  BY <1>1, GenericSteps
<1>3. GenericBatch(c, x, d, isReady).out = o[Len(c)]
  BY <1>2, ResultFields
<1>4. Once(c, d, x, isReady, o)
  BY <1>2 DEF Once
<1>5. QED
  BY <1>3, <1>4, EndsOnce

(* The chains OneShotMatches compares.                                     *)
OneShotChain(c) ==
  /\ \A i \in DOMAIN c :
       c[i].op \in Aggregating \union {"takeUntil", "first"} => i = Len(c)
  /\ Ops(c) \intersect Holding = {}
  /\ "last" \in Ops(c) =>
       \A j \in DOMAIN c : c[j].op = "take" =>
         \A i \in 1..(j - 1) : c[i].op \notin {"take", "takeWhile"}

LEMMA OneShotIsOnce ==
  ASSUME CallbacksReturn, KeysTell, TakesSome, NEW c \in Chains,
         OneShotChain(c)
  PROVE  OnceChain(c)
<1> DEFINE n == Len(c)
<1>1. c \in Seq(Stages) /\ Callbacks(c) /\ AccumReturns /\ c # << >>
  BY ObservableAssumption DEF CallbacksReturn, Stages
<1>2. n \in Nat \ {0} /\ DOMAIN c = 1..n
  BY <1>1
<1>3. ASSUME NEW k \in 1..n
      PROVE  /\ c[k] \in Readers
             /\ c[k].op \in CarryKinds \union Cutters => Goer(c[k])
             /\ c[k].op \in Stopping => Ender(c[k])
             /\ c[k].op \in CarryKinds \union Stopping \union Aggregating
             /\ c[k].op \in Aggregating \union {"takeUntil", "first"} => k = n
  <2>1. PICK stage \in Stages : stage = c[k] /\ Returns(stage)
    BY <1>1, <1>2 DEF Callbacks
  <2>2. stage.op \notin Holding /\ stage.op \in Operations
    BY <1>2, <2>1 DEF OneShotChain, Ops, Stages
  <2>3. KeyTells(stage)
    BY <1>1, <1>2, <2>1 DEF KeysTell
  <2>4. stage.op \in CarryKinds \union Stopping \union Aggregating
    BY <2>2 DEF Operations, Aggregating, Stopping, Holding, CarryKinds, ItemKinds
  <2>5. stage.op = "take" => stage.arg > 0
    BY <1>1, <1>2, <2>1 DEF TakesSome
  <2>6. stage \in Readers
    BY <2>1, <2>2 DEF Readers, Holding
  <2>7. stage.op \in CarryKinds => AsBuilt(stage)
    BY <1>1, <2>1, <2>3 DEF AsBuilt, Carrier
  <2>8. stage.op \in Stopping => Ender(stage)
    BY <2>5 DEF Ender
  <2>9. stage.op \in CarryKinds \union Cutters => Goer(stage)
    BY <2>7, <2>8 DEF Goer, Cutters, Stopping
  <2>10. stage.op \in Aggregating \union {"takeUntil", "first"} => k = n
    BY <1>2, <2>1 DEF OneShotChain
  <2>11. QED
    BY <2>1, <2>4, <2>6, <2>8, <2>9, <2>10
<1>4. OneBehind(c)
  <2>1. n \in DOMAIN c
    BY <1>2
  <2>2. c[n].op = "last" => "last" \in Ops(c)
    BY <2>1 DEF Ops
  <2>3. QED
    BY <1>2, <2>2 DEF OneBehind, OneShotChain, Cutters
<1> HIDE DEF n
<1>5. c \in Seq(Readers)
  <2>1. c \in [1..n -> Stages] /\ \A k \in 1..n : c[k] \in Readers
    BY <1>1, <1>3 DEF n
  <2>2. c \in [1..n -> Readers]
    BY <2>1
  <2>3. n \in Nat
    BY <1>2
  <2>4. QED
    BY <2>2, <2>3
<1>6. n \in 1..n /\ \A k \in 1..(n - 1) : k \in 1..n /\ k # n
  BY <1>2
<1>7. \A k \in 1..(n - 1) : Goer(c[k])
  <2>1. ASSUME NEW k \in 1..(n - 1)
        PROVE  Goer(c[k])
    <3>1. c[k].op \notin Aggregating \union {"takeUntil", "first"}
      BY <1>3, <1>6
    <3>2. c[k].op \in CarryKinds \union Cutters
      BY <1>3, <1>6, <3>1 DEF Stopping, Cutters
    <3>3. QED
      BY <1>3, <1>6, <3>2
  <2>2. QED
    BY <2>1
<1>8. Goer(c[n]) \/ Ender(c[n]) \/ c[n].op \in Aggregating
  BY <1>3, <1>6
<1>9. QED
  BY <1>1, <1>2, <1>4, <1>5, <1>7, <1>8 DEF OnceChain, n

-----------------------------------------------------------------------------
(* Before its first batch a chain has emitted nothing and has the contexts *)
(* its constructors allocated.                                             *)
FirstContexts ==
  chain # << >> /\ batches = << >> =>
    /\ Results = << >>
    /\ ctxs = [i \in DOMAIN chain |-> NewContext(chain[i])]

OneTold == chain # << >> /\ InTheClear => OneShotMatches

(* The inductive invariant.                                                *)
OneInv == TellInv /\ FirstContexts /\ OneTold

(* The first batch, if it is one OneShotMatches compares.                  *)
LEMMA FirstBatch ==
  ASSUME NEW items, NEW isReady, Calling(items, isReady),
         batches' = Append(batches, items), chain # << >>, FirstContexts,
         InTheClear', OneShot'
  PROVE  /\ Fresh(chain, items, ctxs) /\ Fed' = items /\ Results = << >>
         /\ PlainSoFar(chain, Depth(chain), items)
         /\ chain[Len(chain)].op \in Aggregating =>
              Len(Passed(chain, Len(chain) - 1, items)) # 0
<1> DEFINE n == Len(chain)
<1>1. /\ CallbacksReturn /\ KeysTell /\ TakesSome /\ TypeOK /\ chain' = chain
      /\ items \in Seq(Items) /\ batches \in Seq(Seq(Items))
      /\ ctxs \in CtxsOf(chain) /\ chain \in Chains
  BY DEF Calling, TellInv, Inv, TypeOK
<1>2. batches = << >>
  <2>1. Len(Append(batches, items)) = 1
    BY DEF OneShot
  <2>2. Len(Append(batches, items)) = Len(batches) + 1 /\ Len(batches) \in Nat
    BY <1>1
  <2>3. Len(batches) = 0
    BY <2>1, <2>2
  <2>4. QED
    BY <1>1, <2>3
<1>3. /\ Results = << >>
      /\ ctxs = [i \in DOMAIN chain |-> NewContext(chain[i])]
  BY <1>2 DEF FirstContexts
<1>4. Fed' = items
  <2>1. Fed = << >> /\ UpToDone(Fed) = Fed
    BY <1>2, NothingFed
  <2>2. Fed' = Fed \o items
    BY <1>1, <2>1, FedOneMore
  <2>3. << >> \o items = items
    BY <1>1
  <2>4. QED
    BY <2>1, <2>2, <2>3
<1>5. items \in Seq(Plain) /\ UpToDone(items) = items
  <2>1. UpToDone(items) = items
    BY <1>4 DEF OneShot
  <2>2. QED
    BY <1>1, <2>1, WholeUpToDone
<1>6. OnceChain(chain)
  <2>1. OneShotChain(chain)
    BY <1>1 DEF OneShot, OneShotChain, OnlyLast
  <2>2. QED
    BY <1>1, <2>1, OneShotIsOnce
<1>7. /\ AccumReturns /\ chain \in Seq(Readers) /\ n \in Nat \ {0}
      /\ DOMAIN chain = 1..n
  BY <1>6 DEF OnceChain
<1>8. PlainSoFar(chain, Depth(chain), items)
  <2>1. ClearDown(chain, Depth(chain), items)
    BY <1>1, <1>4, <1>5 DEF InTheClear
  <2>2. Depth(chain) \in {n - 1, n}
    BY DEF Depth
  <2>3. QED
    BY <1>1, <1>7, <2>1, <2>2, ClearMeans
<1>9. PlainSoFar(chain, n - 1, items)
  <2>1. \A k \in 1..(n - 1) : k \in 1..n
    BY <1>7
  <2>2. QED
    BY <1>8, <2>1 DEF PlainSoFar, Depth
<1>10. Fresh(chain, items, ctxs)
  BY <1>1, <1>3, <1>5, <1>6, <1>7, <1>9 DEF Fresh
<1>11. ASSUME chain[n].op \in Aggregating
       PROVE  Len(Passed(chain, n - 1, items)) # 0
  <2>1. Ops(chain) \intersect Aggregating # {}
    BY <1>7, <1>11 DEF Ops
  <2>2. Rx(Front(chain), items).out # << >>
    BY <1>1, <1>4, <2>1 DEF OneShot
  <2>3. Passed(chain, n - 1, items) # << >>
    BY <2>2 DEF Passed, Front
  <2>4. Passed(chain, n - 1, items) \in Seq(Items)
    <3>1. n - 1 \in 0..n
      BY <1>7
    <3>2. QED
      BY <1>1, <1>7, <3>1, PassedOn
  <2>5. QED
    BY <2>3, <2>4
<1>12. QED
  BY <1>3, <1>4, <1>8, <1>10, <1>11

LEMMA FirstResults ==
  ASSUME NEW c, NEW d, NEW x, Fresh(c, d, x), NEW out,
         out = Passed(c, Len(c), d)
  PROVE  out = Rx(c, d).out
BY PlainIsWhole, PassedOn DEF Fresh, OnceChain

(* Two ways to run it.                                                     *)
LEMMA OneTellsStreaming ==
  ASSUME NEW items, NEW isReady, Calling(items, isReady), FirstContexts,
         batches' = Append(batches, items), DrainStreaming(items, isReady)
  PROVE  OneTold'
<1> SUFFICES ASSUME InTheClear', OneShot'
             PROVE  Results' = Rx(chain', Fed').out
  BY DEF OneTold, OneShotMatches
<1>1. /\ TypeOK /\ CompiledOnce /\ NoneDelivered /\ chain' = chain
      /\ (subscribed => subscribed') /\ ctxs \in CtxsOf(chain)
      /\ CallbacksReturn /\ items \in Seq(Items)
  BY DEF Calling, TellInv, Inv, Going
<1>2. chain # << >> /\ Streamable(Compile(chain)) /\ Compiled = Compile(chain)
  <2>1. chain # << >> /\ Streamable(Compiled)
    BY DEF DrainStreaming
  <2>2. Compiled = Compile(chain)
    BY <1>1, <2>1 DEF Compiled, CompiledOnce
  <2>3. QED
    BY <2>1, <2>2
<1>3. /\ Fresh(chain, items, ctxs) /\ Fed' = items /\ Results = << >>
      /\ chain[Len(chain)].op \in Aggregating =>
           Len(Passed(chain, Len(chain) - 1, items)) # 0
  BY <1>2, FirstBatch
<1>4. PICK out : out = StreamBatch(chain, Compile(chain), ctxs, items).out
  OBVIOUS
<1>5. out = Rx(chain, items).out
  <2>1. out = Passed(chain, Len(chain), items)
    BY <1>2, <1>3, <1>4, StreamsOnce
  <2>2. QED
    BY <1>3, <2>1, FirstResults
<1>6. out \in Seq(Items) /\ Emit(out)
  <2>1. chain \in Seq(Stages) /\ Callbacks(chain) /\ AccumReturns
    BY <1>1, ChainIsOne DEF CallbacksReturn
  <2>2. Compile(chain) \in Seq(StreamedStages(chain))
    BY <1>2, <2>1, StreamableType
  <2>3. StreamBatch(chain, Compile(chain), ctxs, items) \in Outcomes(chain)
    BY <1>1, <2>1, <2>2, StreamBatchType
  <2>4. out \in Seq(Items)
    BY <1>4, <2>3 DEF Outcomes
  <2>5. Emit(out)
    BY <1>2, <1>4 DEF DrainStreaming
  <2>6. QED
    BY <2>4, <2>5
<1>7. Results' = << >> \o out
  BY <1>1, <1>3, <1>6, EmitAppends
<1>8. << >> \o out = out
  BY <1>6
<1>9. QED
  BY <1>1, <1>3, <1>5, <1>7, <1>8

LEMMA OneTellsGeneric ==
  ASSUME NEW items, NEW isReady, Calling(items, isReady), FirstContexts,
         batches' = Append(batches, items), DrainGeneric(items, isReady)
  PROVE  OneTold'
<1> SUFFICES ASSUME InTheClear', OneShot'
             PROVE  Results' = Rx(chain', Fed').out
  BY DEF OneTold, OneShotMatches
<1>1. /\ TypeOK /\ CompiledOnce /\ NoneDelivered /\ chain' = chain
      /\ (subscribed => subscribed') /\ ctxs \in CtxsOf(chain)
      /\ CallbacksReturn /\ items \in Seq(Items)
  BY DEF Calling, TellInv, Inv, Going
<1>2. chain # << >> /\ ~Streamable(Compile(chain))
  <2>1. chain # << >> /\ ~Streamable(Compiled)
    BY DEF DrainGeneric
  <2>2. Compiled = Compile(chain)
    BY <1>1, <2>1 DEF Compiled, CompiledOnce
  <2>3. QED
    BY <2>1, <2>2
<1>3. /\ Fresh(chain, items, ctxs) /\ Fed' = items /\ Results = << >>
      /\ PlainSoFar(chain, Depth(chain), items)
      /\ chain[Len(chain)].op \in Aggregating =>
           Len(Passed(chain, Len(chain) - 1, items)) # 0
  BY <1>2, FirstBatch
<1>4. Passed(chain, Len(chain), items) \in Seq(Plain)
  <2>1. Len(chain) \in 1..Len(chain)
    BY <1>3 DEF Fresh, OnceChain
  <2>2. QED
    BY <1>2, <1>3, <2>1 DEF PlainSoFar, Depth
<1>5. PICK r : r = GenericBatch(chain, ctxs, items, isReady).out
  OBVIOUS
<1>6. PICK out : out = UpToDone(r)
  OBVIOUS
<1>7. out = Rx(chain, items).out
  <2>1. out = Passed(chain, Len(chain), items)
    BY <1>3, <1>4, <1>5, <1>6, GenericOnce
  <2>2. QED
    BY <1>3, <2>1, FirstResults
<1>8. out \in Seq(Items) /\ Emit(out)
  <2>1. out \in Seq(Plain)
    BY <1>3, <1>4, <1>5, <1>6, GenericOnce
  <2>2. Emit(out)
    BY <1>5, <1>6 DEF DrainGeneric, Drain
  <2>3. QED
    BY <2>1, <2>2, PlainIsWhole
<1>9. Results' = << >> \o out
  BY <1>1, <1>3, <1>8, EmitAppends
<1>10. << >> \o out = out
  BY <1>8
<1>11. QED
  BY <1>1, <1>3, <1>7, <1>9, <1>10

LEMMA OneUnchanged ==
  ASSUME FirstContexts, OneTold, chain' = chain, ctxs' = ctxs,
         batches' = batches, missed' = missed, delivered' = delivered
  PROVE  FirstContexts' /\ OneTold'
<1>1. Fed' = Fed /\ Results' = Results
  BY DEF Fed, FedUpTo, Results
<1>2. FirstContexts'
  BY <1>1 DEF FirstContexts
<1>3. OneTold'
  BY <1>1 DEF OneTold, OneShotMatches, OneShot, OnlyLast, InTheClear
<1>4. QED
  BY <1>2, <1>3

LEMMA OnePopAll ==
  ASSUME NEW items, NEW isReady, Calling(items, isReady), FirstContexts,
         OneTold, PopAll(items, isReady)
  PROVE  FirstContexts' /\ OneTold'
<1>1. chain' = chain /\ batches \in Seq(Seq(Items)) /\ items \in Seq(Items)
  BY DEF Calling, TellInv, Inv, TypeOK
<1>2. CASE Ignore(items, isReady)
  BY <1>1, <1>2, OneUnchanged DEF Ignore, results
<1>3. ASSUME batches' = Append(batches, items)
      PROVE  FirstContexts'
  <2>1. batches' # << >>
    BY <1>1, <1>3
  <2>2. QED
    BY <2>1 DEF FirstContexts
<1>4. CASE batches' = Append(batches, items) /\ DrainBare(items)
  <2>1. chain' = << >>
    BY <1>1, <1>4 DEF DrainBare
  <2>2. QED
    BY <1>3, <1>4, <2>1 DEF OneTold
<1>5. CASE batches' = Append(batches, items) /\ DrainStreaming(items, isReady)
  BY <1>3, <1>5, OneTellsStreaming
<1>6. CASE batches' = Append(batches, items) /\ DrainGeneric(items, isReady)
  BY <1>3, <1>6, OneTellsGeneric
<1>7. QED
  BY <1>2, <1>4, <1>5, <1>6 DEF PopAll

LEMMA OnePipe ==
  ASSUME NEW c \in Chains, Pipe(c)
  PROVE  FirstContexts' /\ OneTold'
<1>1. /\ chain' = c /\ ctxs' = [i \in DOMAIN c |-> NewContext(c[i])]
      /\ batches' = << >> /\ missed' = << >> /\ delivered' = << >>
  BY DEF Pipe
<1>2. Results' = << >>
  <2>1. << >> \o << >> = << >>
    OBVIOUS
  <2>2. QED
    BY <1>1, <2>1 DEF Results
<1>3. FirstContexts'
  BY <1>1, <1>2 DEF FirstContexts
<1>4. Len(batches') # 1
  <2>1. Len(<< >>) = 0
    OBVIOUS
  <2>2. QED
    BY <1>1, <2>1
<1>5. OneTold'
  BY <1>4 DEF OneTold, OneShotMatches, OneShot
<1>6. QED
  BY <1>3, <1>5

LEMMA OneStep ==
  ASSUME CallbacksReturn, KeysTell, TakesSome, OneInv, [Next]_vars
  PROVE  OneInv'
<1>1. TellInv'
  BY SettledStep DEF OneInv
<1>2. /\ TellInv /\ FirstContexts /\ OneTold
      /\ data \in Seq(Items) /\ ready \in BOOLEAN /\ complete \in BOOLEAN
      /\ (complete \/ ~ready)
  BY DEF OneInv, TellInv, Inv, TypeOK, Going, Quiet
<1> DEFINE Stays == FirstContexts' /\ OneTold'
<1>3. ASSUME UNCHANGED << chain, ctxs, results >>
      PROVE  Stays
  BY <1>2, <1>3, OneUnchanged DEF results
<1>4. ASSUME NEW items \in Seq(Items), PopAll(items, ready), chain' = chain,
             subscribed => subscribed', flushes' = flushes
      PROVE  Stays
  BY <1>2, <1>4, OnePopAll DEF Calling, Called
<1>5. ASSUME NEW items \in Seq(Items), PopAll(items, TRUE), chain' = chain,
             subscribed' = subscribed, Has("buffer") \/ Has("throttleTime"),
             flushes' = Append(flushes, Len(batches'))
      PROVE  Stays
  BY <1>2, <1>5, OnePopAll DEF Calling, Called
<1> HIDE DEF Stays
<1>6. ASSUME NEW v \in Values \union {Done}, Push(v)
      PROVE  Stays
  <2>1. UNCHANGED << deferred, subscribed, chain, flushes >>
    BY <1>6 DEF Push
  <2>2. CASE UNCHANGED << data, complete, ready, ctxs, compiled, results >>
    BY <1>3, <2>1, <2>2
  <2>3. CASE PopAll(Append(data, v), ready)
    <3>1. Append(data, v) \in Seq(Items)
      BY <1>2, ObservableAssumption
    <3>2. QED
      BY <1>4, <2>1, <2>3, <3>1
  <2>4. QED
    BY <1>6, <2>2, <2>3 DEF Push
<1>7. ASSUME Subscribe
      PROVE  Stays
  <2>1. /\ chain' = chain /\ subscribed' = TRUE /\ flushes' = flushes
        /\ PopAll(Append(data, Made), ready) \/ PopAll(data, ready)
    BY <1>7 DEF Subscribe
  <2>2. Append(data, Made) \in Seq(Items)
    BY <1>2, ObservableAssumption
  <2>3. QED
    BY <1>2, <1>4, <2>1, <2>2
<1>8. ASSUME NEW c \in Chains, Pipe(c)
      PROVE  Stays
  BY <1>8, OnePipe DEF Stays
<1>9. ASSUME Flush
      PROVE  Stays
  BY <1>2, <1>5, <1>9 DEF Flush
<1>10. ASSUME FlushOne
       PROVE  Stays
  <2>1. (IF Len(data) > 1 THEN SubSeq(data, 1, 1) ELSE data) \in Seq(Items)
    BY <1>2
  <2>2. QED
    BY <1>5, <1>10, <2>1 DEF FlushOne
<1>11. ASSUME UNCHANGED vars
       PROVE  Stays
  BY <1>3, <1>11 DEF vars, fields, results
<1>12. Stays
  BY <1>6, <1>7, <1>8, <1>9, <1>10, <1>11 DEF Next, OneInv
<1>13. QED
  BY <1>1, <1>12 DEF OneInv, Stays

(* Without a chain the items go straight through.                          *)
LEMMA OneMatches ==
  ASSUME CallbacksReturn, OneInv, InTheClear
  PROVE  OneShotMatches
<1>1. CASE chain # << >>
  BY <1>1 DEF OneInv, OneTold
<1>2. CASE chain = << >>
  <2>1. Results = UpToDone(Fed) /\ batches \in Seq(Seq(Items))
    BY <1>2 DEF OneInv, TellInv, Inv, TypeOK, Going, BareTells
  <2>2. Fed \in Seq(Items)
    BY <2>1, FedIs
  <2>3. Rx(chain, Fed).out = Fed
    BY <1>2, <2>2, RxNone DEF CallbacksReturn
  <2>4. QED
    BY <2>1, <2>3 DEF OneShotMatches, OneShot
<1>3. QED
  BY <1>1, <1>2

(* A source that is drained by one pop_all: the observable has emitted     *)
(* what its chain means for the items, whichever path it took, with take   *)
(* and takeWhile anywhere in the chain and a reduce or a last behind them. *)
(* The token that take and takeWhile put behind their items is carried     *)
(* along by the apply functions, which break at it, pass it on or drop it, *)
(* and last looks past it (observable.c).  The hypotheses are those of     *)
(* ChainsEmitReference.                                                    *)
THEOREM OneBatchMatches ==
  ASSUME CallbacksReturn, KeysTell, TakesSome
  PROVE  Spec => [](InTheClear => OneShotMatches)
<1>1. Init => OneInv
  <2>1. Init => TellInv
    BY TypesInit, SettledInit DEF TellInv
  <2>2. Init => chain = << >>
    BY DEF Init
  <2>3. QED
    BY <2>1, <2>2 DEF OneInv, FirstContexts, OneTold
<1>2. OneInv /\ [Next]_vars => OneInv'
  BY OneStep
<1>3. OneInv => (InTheClear => OneShotMatches)
  BY OneMatches
<1>4. QED
  BY <1>1, <1>2, <1>3, PTL DEF Spec

-----------------------------------------------------------------------------
(* throttleTime between two chains that carry on throughout.               *)
AllCarry(c) ==
  /\ AccumReturns /\ c \in Seq(Readers) /\ c \in Seq(Stages) /\ Callbacks(c)
  /\ \A k \in 1..Len(c) : AsBuilt(c[k])

(* Its contexts are those that all the items so far leave behind.          *)
AtWork(c, d, x) ==
  \A k \in 1..Len(c) : x[k] = After(c[k], Passed(c, k - 1, d))

LEMMA CarryingIsShaped ==
  ASSUME NEW c, AllCarry(c)
  PROVE  Len(c) \in Nat /\ (Len(c) # 0 => Shaped(c))
<1>1. c \in Seq(Readers)
  BY DEF AllCarry
<1>2. PICK n : n = Len(c) /\ n \in Nat
  BY <1>1
<1>3. ASSUME n # 0
      PROVE  Shaped(c)
  <2>1. n \in 1..n /\ \A k \in 1..(n - 1) : k \in 1..n
    BY <1>2, <1>3
  <2>2. QED
    BY <1>2, <1>3, <2>1 DEF AllCarry, Shaped
<1>4. QED
  BY <1>2, <1>3

LEMMA CarryingBefore ==
  ASSUME NEW c, AllCarry(c), NEW d \in Seq(Plain), NEW b \in Seq(Plain),
         PlainSoFar(c, Len(c), d \o b)
  PROVE  PlainSoFar(c, Len(c), d)
<1>1. CASE Len(c) = 0
  BY <1>1 DEF PlainSoFar
<1>2. CASE Len(c) # 0
  BY <1>2, CarryingIsShaped, ClearBefore
<1>3. QED
  BY <1>1, <1>2

LEMMA CarryingIsClear ==
  ASSUME NEW c, AllCarry(c), NEW d \in Seq(Items)
  PROVE  ClearDown(c, Len(c), d) <=> PlainSoFar(c, Len(c), d)
<1>1. CASE Len(c) = 0
  BY <1>1 DEF PlainSoFar, ClearDown
<1>2. CASE Len(c) # 0
  BY <1>2, CarryingIsShaped, ClearMeans DEF AllCarry
<1>3. QED
  BY <1>1, <1>2

(* Nothing in, nothing out, with the contexts that pipe finds.             *)
AsPiped(c, x) == \A k \in 1..Len(c) : x[k] = NewContext(c[k])
AtRest(c, none, x) == Rx(c, none).out = none /\ AtWork(c, none, x)

LEMMA CarryingNone ==
  ASSUME NEW c, AllCarry(c), NEW none \in Seq(Plain), Len(none) = 0,
         NEW x, AsPiped(c, x)
  PROVE  AtRest(c, none, x)
<1>1. c \in Seq(Readers) /\ AccumReturns /\ Len(c) \in Nat
  BY CarryingIsShaped DEF AllCarry
<1>2. none \in Seq(Items)
  BY DEF Plain
<1>3. CASE Len(c) = 0
  <2>1. Passed(c, 0, none) = none /\ Rx(c, none).out = Passed(c, Len(c), none)
    BY <1>1, <1>2, PassedOn
  <2>2. QED
    BY <1>3, <2>1 DEF AtWork, AtRest
<1>4. CASE Len(c) # 0
  <2>1. /\ \A k \in 0..Len(c) : Passed(c, k, none) = none
        /\ KeptUp(c, none, [k \in DOMAIN c |-> NewContext(c[k])])
    BY <1>4, CarryingIsShaped, NothingPassed
  <2>2. Rx(c, none).out = none
    <3>1. Rx(c, none).out = Passed(c, Len(c), none)
      BY <1>1, <1>2, PassedOn
    <3>2. PICK n \in Nat : n = Len(c)
      BY <1>1
    <3>3. n \in 0..n
      OBVIOUS
    <3>4. QED
      BY <2>1, <3>1, <3>2, <3>3
  <2>3. ASSUME NEW k \in 1..Len(c)
        PROVE  x[k] = After(c[k], Passed(c, k - 1, none))
    <3>1. c[k].op # "buffer" /\ k \in DOMAIN c
      BY <1>1 DEF AllCarry, AsBuilt, Carrier, CarryKinds, ItemKinds
    <3>2. QED
      BY <2>1, <3>1 DEF KeptUp, AsPiped
  <2>4. QED
    BY <2>2, <2>3 DEF AtWork, AtRest
<1>5. QED
  BY <1>3, <1>4

(* What comes out of each stage for the batch b, and what is left.         *)
Runs(c, x, b, isReady, o, y) ==
  /\ \A k \in 0..Len(c) : o[k] \in Seq(Items)
  /\ o[0] = b
  /\ \A k \in 1..Len(c) : /\ o[k] = Apply(c[k], x[k], o[k - 1], isReady).out
                          /\ y[k] = Apply(c[k], x[k], o[k - 1], isReady).ctx

(* It hands out what it means, and its contexts go on.                     *)
Carried(c, d, b, o, y) ==
  /\ Rx(c, d \o b).out = Rx(c, d).out \o o[Len(c)]
  /\ AtWork(c, d \o b, y)
  /\ o[Len(c)] \in Seq(Plain) /\ Rx(c, d).out \in Seq(Plain)

LEMMA CarryingBatch ==
  ASSUME NEW c, AllCarry(c), NEW d \in Seq(Plain), NEW b \in Seq(Plain),
         NEW x, AtWork(c, d, x), PlainSoFar(c, Len(c), d \o b),
         NEW isReady, NEW o, NEW y, Runs(c, x, b, isReady, o, y)
  PROVE  Carried(c, d, b, o, y)
<1>1. c \in Seq(Readers) /\ AccumReturns /\ Len(c) \in Nat
  BY CarryingIsShaped DEF AllCarry
<1>2. PICK m \in Nat : m = Len(c)
  BY <1>1
<1>3. d \in Seq(Items) /\ d \o b \in Seq(Plain) /\ d \o b \in Seq(Items)
  BY DEF Plain
<1>4. Flows(c, m, d, b, o, x, isReady)
  <2>1. \A k \in 1..(m - 1) : k \in 1..m
    BY <1>2
  <2>2. \A k \in 1..(m - 1) : Passed(c, k, d \o b) \in Seq(Plain)
    BY <1>2, <2>1 DEF PlainSoFar
  <2>3. m \in 0..Len(c) /\ \A k \in 1..m : AsBuilt(c[k])
    BY <1>2 DEF AllCarry
  <2>4. QED
    BY <1>1, <1>2, <2>2, <2>3 DEF Flows, Runs, AtWork
<1>5. /\ \A k \in 0..m : Passed(c, k, d \o b) = Passed(c, k, d) \o o[k]
      /\ \A k \in 0..m : Passed(c, k, d \o b) \in Seq(Plain) =>
           Passed(c, k, d) \in Seq(Plain) /\ o[k] \in Seq(Plain)
      /\ \A k \in 1..m : Apply(c[k], x[k], o[k - 1], isReady).ctx
                           = After(c[k], Passed(c, k - 1, d \o b))
  BY <1>4, CarriesOn
<1>6. /\ Passed(c, 0, d \o b) = d \o b
      /\ Rx(c, d).out = Passed(c, m, d)
      /\ Rx(c, d \o b).out = Passed(c, m, d \o b)
  BY <1>1, <1>2, <1>3, PassedOn
<1>7. Passed(c, m, d \o b) \in Seq(Plain)
  <2>1. CASE m = 0
    BY <1>3, <1>6, <2>1
  <2>2. CASE m # 0
    <3>1. m \in 1..m
      BY <2>2
    <3>2. QED
      BY <1>2, <3>1 DEF PlainSoFar
  <2>3. QED
    BY <2>1, <2>2
<1>8. m \in 0..m
  OBVIOUS
<1>9. AtWork(c, d \o b, y)
  BY <1>2, <1>5 DEF AtWork, Runs
<1>10. QED
  BY <1>2, <1>5, <1>6, <1>7, <1>8, <1>9 DEF Carried

(* What pop_all took in its first n calls, of the calls bs; what reaches   *)
(* the end of the chain p then; what it is handed between two flushes, and *)
(* the latest of that.                                                     *)
FedTo(bs, n) == FlattenSeq(SubSeq(bs, 1, n))
Reached(p, bs, n) == Rx(p, FedTo(bs, n)).out
Since(fl, j) == IF j = 1 THEN 0 ELSE fl[j - 1]
Between(p, bs, m, n) == From(Reached(p, bs, n), Len(Reached(p, bs, m)) + 1)
LatestOf(w) == IF w = << >> THEN << >> ELSE << Last(w) >>
Latests(p, bs, fl) ==
  [j \in DOMAIN fl |-> LatestOf(Between(p, bs, Since(fl, j), fl[j]))]
(* What a throttleTime behind p hands on at the flushes fl, and what it    *)
(* was handed after the last of them.                                      *)
HandedOn(p, bs, fl) == FlattenSeq(Latests(p, bs, fl))
Lately(fl) == Since(fl, Len(fl) + 1)
Open(p, bs, fl) == Between(p, bs, Lately(fl), Len(bs))

(* The calls of pop_all and the flushes among them.                        *)
History(p, bs, fl) ==
  /\ AllCarry(p) /\ bs \in Seq(Seq(Items)) /\ fl \in Seq(Nat)
  /\ \A j \in DOMAIN fl : fl[j] <= Len(bs)

LEMMA FedToType ==
  ASSUME NEW bs \in Seq(Seq(Items)), NEW n \in Nat, n <= Len(bs)
  PROVE  FedTo(bs, n) \in Seq(Items)
<1>1. SubSeq(bs, 1, n) \in Seq(Seq(Items))
  OBVIOUS
<1>2. QED
  BY <1>1, FlattenType DEF FedTo

LEMMA FedToKept ==
  ASSUME NEW bs \in Seq(Seq(Items)), NEW b \in Seq(Items), NEW n \in Nat,
         n <= Len(bs)
  PROVE  FedTo(Append(bs, b), n) = FedTo(bs, n)
<1>1. SubSeq(Append(bs, b), 1, n) = SubSeq(bs, 1, n)
  OBVIOUS
<1>2. QED
  BY <1>1 DEF FedTo

LEMMA FedToAll ==
  ASSUME NEW bs \in Seq(Seq(Items)), NEW b \in Seq(Items)
  PROVE  /\ FedTo(bs, Len(bs)) = FlattenSeq(bs)
         /\ FedTo(Append(bs, b), Len(Append(bs, b))) = FlattenSeq(bs) \o b
<1>1. SubSeq(bs, 1, Len(bs)) = bs
  BY SubSeqFull
<1>2. PICK more \in Seq(Seq(Items)) : more = Append(bs, b)
  <2>1. Append(bs, b) \in Seq(Seq(Items))
    OBVIOUS
  <2>2. QED
    BY <2>1
<1>3. SubSeq(more, 1, Len(more)) = more
  BY SubSeqFull
<1>4. FlattenSeq(more) = FlattenSeq(bs) \o b
  BY <1>2, FlattenAppend
<1>5. QED
  BY <1>1, <1>2, <1>3, <1>4 DEF FedTo

LEMMA ReachedType ==
  ASSUME NEW p, AllCarry(p), NEW bs \in Seq(Seq(Items)), NEW n \in Nat,
         n <= Len(bs)
  PROVE  Reached(p, bs, n) \in Seq(Items)
<1>1. FedTo(bs, n) \in Seq(Items)
  BY FedToType
<1>2. QED
  BY <1>1, RxOneMore DEF AllCarry, Reached, Readings

LEMMA FromSplit ==
  ASSUME NEW s \in Seq(Items), NEW t \in Seq(Items), NEW n \in Nat, n <= Len(s)
  PROVE  /\ From(s, n + 1) \in Seq(Items)
         /\ From(s \o t, n + 1) = From(s, n + 1) \o t
         /\ From(s, Len(s) + 1) = << >>
<1>1. PICK l \in Nat : l = Len(s)
  OBVIOUS
<1>2. From(s, n + 1) \in Seq(Items) /\ From(s, Len(s) + 1) = << >>
  BY <1>1 DEF From
<1>3. SubSeq(s \o t, n + 1, Len(s \o t)) = SubSeq(s, n + 1, Len(s)) \o t
  <2>1. PICK m \in Nat : m = Len(t)
    OBVIOUS
  <2>2. PICK w \in Seq(Items) : w = s \o t /\ Len(w) = l + m
    BY <1>1, <2>1, ConcatProperties
  <2>3. SubSeq(w, n + 1, l) \o SubSeq(w, l + 1, l + m) = SubSeq(w, n + 1, l + m)
    <3>1. n + 1 \in 1..(l + m + 1) /\ l \in (n + 1 - 1)..(l + m)
          /\ l + m \in l..(l + m)
      BY <1>1
    <3>2. QED
      BY <2>2, <3>1, ConcatAdjacentSubSeq
  <2>4. SubSeq(w, n + 1, l) = SubSeq(s, n + 1, l)
    <3>1. CASE n + 1 <= l
      <4>1. n + 1 \in 1..l /\ l \in 1..l
        BY <3>1
      <4>2. QED
        BY <1>1, <2>2, <4>1, SubSeqOfConcat1
    <3>2. CASE l < n + 1
      BY <3>2, SubSeqEmpty
    <3>3. QED
      BY <3>1, <3>2
  <2>5. SubSeq(w, l + 1, l + m) = t
    <3>1. CASE m = 0
      <4>1. SubSeq(w, l + 1, l + m) = << >>
        BY <3>1, SubSeqEmpty
      <4>2. t = << >>
        BY <2>1, <3>1, EmptySeq
      <4>3. QED
        BY <4>1, <4>2
    <3>2. CASE m # 0
      <4>1. /\ l + 1 \in (l + 1)..(l + m) /\ l + m \in (l + 1)..(l + m)
            /\ l + 1 - l = 1 /\ l + m - l = m
        BY <3>2
      <4>2. SubSeq(w, l + 1, l + m) = SubSeq(t, 1, m)
        BY <1>1, <2>1, <2>2, <4>1, SubSeqOfConcat2
      <4>3. QED
        BY <2>1, <4>2, SubSeqFull
    <3>3. QED
      BY <3>1, <3>2
  <2>6. QED
    BY <1>1, <2>1, <2>2, <2>3, <2>4, <2>5
<1>4. QED
  BY <1>2, <1>3 DEF From

LEMMA SinceIs ==
  ASSUME NEW fl \in Seq(Nat), NEW l \in Nat, \A j \in DOMAIN fl : fl[j] <= l
  PROVE  /\ \A j \in DOMAIN fl : Since(fl, j) \in Nat /\ Since(fl, j) <= l
         /\ Lately(fl) \in Nat /\ Lately(fl) <= l
<1>1. PICK n \in Nat : n = Len(fl) /\ DOMAIN fl = 1..n
  OBVIOUS
<1>2. ASSUME NEW j \in 1..(n + 1)
      PROVE  Since(fl, j) \in Nat /\ Since(fl, j) <= l
  <2>1. CASE j = 1
    BY <2>1 DEF Since
  <2>2. CASE j # 1
    <3>1. j - 1 \in 1..n
      BY <2>2
    <3>2. fl[j - 1] \in Nat /\ fl[j - 1] <= l
      BY <1>1, <3>1
    <3>3. QED
      BY <2>2, <3>2 DEF Since
  <2>3. QED
    BY <2>1, <2>2
<1>3. n + 1 \in 1..(n + 1) /\ \A j \in 1..n : j \in 1..(n + 1)
  OBVIOUS
<1>4. QED
  BY <1>1, <1>2, <1>3 DEF Lately

(* A call of pop_all leaves what was between earlier calls.                *)
LEMMA LatestsKept ==
  ASSUME NEW p, NEW bs, NEW fl, History(p, bs, fl), NEW b \in Seq(Items)
  PROVE  Latests(p, Append(bs, b), fl) = Latests(p, bs, fl)
<1>1. PICK l \in Nat : l = Len(bs)
  BY DEF History
<1>2. /\ bs \in Seq(Seq(Items)) /\ fl \in Seq(Nat)
      /\ \A j \in DOMAIN fl : fl[j] <= l
  BY <1>1 DEF History
<1>3. \A n \in Nat : n <= l => Reached(p, Append(bs, b), n) = Reached(p, bs, n)
  BY <1>1, <1>2, FedToKept DEF Reached
<1>4. ASSUME NEW j \in DOMAIN fl
      PROVE  Between(p, Append(bs, b), Since(fl, j), fl[j])
               = Between(p, bs, Since(fl, j), fl[j])
  <2>1. Since(fl, j) \in Nat /\ Since(fl, j) <= l
    BY <1>2, SinceIs
  <2>2. fl[j] \in Nat /\ fl[j] <= l
    BY <1>2
  <2>3. QED
    BY <1>3, <2>1, <2>2 DEF Between
<1>5. QED
  BY <1>4 DEF Latests

(* A flush closes an interval.                                             *)
LatestAdded(p, bs, fl, m) ==
  /\ Latests(p, bs, Append(fl, m))
       = Append(Latests(p, bs, fl), LatestOf(Between(p, bs, Lately(fl), m)))
  /\ Lately(Append(fl, m)) = m

LEMMA LatestsOneMore ==
  ASSUME NEW p, NEW bs, NEW fl \in Seq(Nat), NEW m \in Nat
  PROVE  LatestAdded(p, bs, fl, m)
<1>1. PICK n \in Nat : n = Len(fl) /\ DOMAIN fl = 1..n
  OBVIOUS
<1>2. PICK more \in Seq(Nat) :
         /\ more = Append(fl, m) /\ DOMAIN more = 1..(n + 1)
         /\ Len(more) = n + 1 /\ more[n + 1] = m
         /\ \A j \in 1..n : more[j] = fl[j]
  <2>1. PICK more \in Seq(Nat) : more = Append(fl, m)
    BY AppendProperties
  <2>2. DOMAIN more = 1..(n + 1) /\ Len(more) = n + 1 /\ more[n + 1] = m
    BY <1>1, <2>1
  <2>3. \A j \in 1..n : more[j] = fl[j]
    BY <1>1, <2>1
  <2>4. QED
    BY <2>1, <2>2, <2>3
<1>3. \A j \in 1..(n + 1) : Since(more, j) = Since(fl, j)
  <2>1. ASSUME NEW j \in 1..(n + 1), j # 1
        PROVE  more[j - 1] = fl[j - 1]
    <3>1. j - 1 \in 1..n
      BY <2>1
    <3>2. QED
      BY <1>2, <3>1
  <2>2. QED
    BY <2>1 DEF Since
<1>4. Lately(more) = m
  <2>1. n + 1 + 1 # 1 /\ n + 1 + 1 - 1 = n + 1
    OBVIOUS
  <2>2. QED
    BY <1>2, <2>1 DEF Lately, Since
<1> DEFINE old == Latests(p, bs, fl)
           new == LatestOf(Between(p, bs, Lately(fl), m))
<1>5. DOMAIN old = 1..n /\ DOMAIN Latests(p, bs, more) = 1..(n + 1)
  BY <1>1, <1>2 DEF Latests
<1>6. Latests(p, bs, more)[n + 1] = new
  <2>1. n + 1 \in 1..(n + 1) /\ Lately(fl) = Since(fl, n + 1)
    BY <1>1 DEF Lately
  <2>2. QED
    BY <1>2, <1>3, <2>1 DEF Latests
<1>7. \A j \in 1..n : Latests(p, bs, more)[j] = old[j]
  <2>1. \A j \in 1..n : j \in 1..(n + 1)
    OBVIOUS
  <2>2. QED
    BY <1>1, <1>2, <1>3, <2>1 DEF Latests
<1> HIDE DEF old, new
<1>8. PICK q : /\ q = Latests(p, bs, more) /\ q = [j \in 1..(n + 1) |-> q[j]]
               /\ q[n + 1] = new
  BY <1>2, <1>6 DEF Latests
<1>9. PICK u : /\ u = old /\ u = [j \in 1..n |-> u[j]]
               /\ \A j \in 1..n : q[j] = u[j]
  BY <1>1, <1>7, <1>8 DEF Latests, old
<1>10. PICK W : W = {u[j] : j \in 1..n} \union {new}
  OBVIOUS
<1>11. u \in Seq(W) /\ Len(u) = n /\ new \in W
  <2>1. u \in [1..n -> W]
    BY <1>9, <1>10
  <2>2. n \in Nat /\ new \in W
    BY <1>10
  <2>3. u \in Seq(W) /\ Len(u) = n
    BY <2>1, <2>2
  <2>4. QED
    BY <2>2, <2>3
<1>12. Append(u, new) \in Seq(W) /\ Len(Append(u, new)) = n + 1
  BY <1>11
<1>13. \A j \in 1..(n + 1) : Append(u, new)[j] = IF j \in 1..n THEN u[j] ELSE new
  BY <1>11
<1>14. \A j \in 1..(n + 1) : q[j] = Append(u, new)[j]
  <2>1. \A j \in 1..(n + 1) : j \in 1..n \/ j = n + 1
    OBVIOUS
  <2>2. n + 1 \notin 1..n
    OBVIOUS
  <2>3. QED
    BY <1>8, <1>9, <1>13, <2>1, <2>2
<1>15. q \in Seq(W) /\ Len(q) = n + 1
  <2>1. \A j \in 1..(n + 1) : q[j] \in W
    <3>1. \A j \in 1..(n + 1) : j \in 1..n \/ j = n + 1
      OBVIOUS
    <3>2. QED
      BY <1>8, <1>9, <1>10, <3>1
  <2>2. q \in [1..(n + 1) -> W]
    BY <1>8, <2>1
  <2>3. n + 1 \in Nat
    OBVIOUS
  <2>4. QED
    BY <2>2, <2>3
<1>16. q = Append(u, new)
  BY <1>12, <1>14, <1>15, SeqEqual
<1>17. QED
  BY <1>2, <1>4, <1>8, <1>9, <1>16 DEF old, new, LatestAdded

(* The part of the stream that came before the last flush is no longer     *)
(* than the whole.                                                         *)
Grown(p, bs, fl) ==
  Len(Reached(p, bs, Lately(fl))) <= Len(Reached(p, bs, Len(bs)))

LEMMA BetweenType ==
  ASSUME NEW p, AllCarry(p), NEW bs \in Seq(Seq(Items)),
         NEW m \in Nat, m <= Len(bs), NEW n \in Nat, n <= Len(bs)
  PROVE  /\ Between(p, bs, m, n) \in Seq(Items)
         /\ LatestOf(Between(p, bs, m, n)) \in Seq(Items)
<1>1. PICK s \in Seq(Items) : s = Reached(p, bs, n)
  BY ReachedType
<1>2. Reached(p, bs, m) \in Seq(Items)
  BY ReachedType
<1>3. PICK l \in Nat : l = Len(Reached(p, bs, m))
  BY <1>2
<1>4. SubSeq(s, l + 1, Len(s)) \in Seq(Items)
  OBVIOUS
<1>5. PICK w \in Seq(Items) : w = Between(p, bs, m, n)
  BY <1>1, <1>3, <1>4 DEF Between, From
<1>6. LatestOf(w) \in Seq(Items)
  <2>1. CASE w = << >>
    BY <2>1 DEF LatestOf
  <2>2. CASE w # << >>
    <3>1. Last(w) \in Items
      BY <2>2 DEF Last
    <3>2. QED
      BY <2>2, <3>1 DEF LatestOf
  <2>3. QED
    BY <2>1, <2>2
<1>7. QED
  BY <1>5, <1>6

LEMMA HandedOnType ==
  ASSUME NEW p, NEW bs, NEW fl, History(p, bs, fl)
  PROVE  /\ Latests(p, bs, fl) \in Seq(Seq(Items))
         /\ HandedOn(p, bs, fl) \in Seq(Items)
<1>1. /\ AllCarry(p) /\ bs \in Seq(Seq(Items)) /\ fl \in Seq(Nat)
      /\ \A j \in DOMAIN fl : fl[j] <= Len(bs)
  BY DEF History
<1>2. PICK n \in Nat : n = Len(fl) /\ DOMAIN fl = 1..n
  BY <1>1
<1>3. PICK l \in Nat : l = Len(bs)
  BY <1>1
<1>4. ASSUME NEW j \in 1..n
      PROVE  Latests(p, bs, fl)[j] \in Seq(Items)
  <2>1. Since(fl, j) \in Nat /\ Since(fl, j) <= l
    BY <1>1, <1>2, <1>3, SinceIs
  <2>2. fl[j] \in Nat /\ fl[j] <= l
    BY <1>1, <1>2, <1>3
  <2>3. LatestOf(Between(p, bs, Since(fl, j), fl[j])) \in Seq(Items)
    BY <1>1, <1>3, <2>1, <2>2, BetweenType
  <2>4. QED
    BY <1>2, <2>3 DEF Latests
<1>5. PICK w : w = Latests(p, bs, fl) /\ w = [j \in 1..n |-> w[j]]
  BY <1>2 DEF Latests
<1>6. w \in [1..n -> Seq(Items)]
  BY <1>4, <1>5
<1>7. w \in Seq(Seq(Items))
  BY <1>6
<1>8. QED
  BY <1>5, <1>7, FlattenType DEF HandedOn

LEMMA OpenType ==
  ASSUME NEW p, NEW bs, NEW fl, History(p, bs, fl)
  PROVE  /\ Open(p, bs, fl) \in Seq(Items)
         /\ LatestOf(Open(p, bs, fl)) \in Seq(Items)
<1>1. /\ AllCarry(p) /\ bs \in Seq(Seq(Items)) /\ fl \in Seq(Nat)
      /\ \A j \in DOMAIN fl : fl[j] <= Len(bs)
  BY DEF History
<1>2. PICK l \in Nat : l = Len(bs)
  BY <1>1
<1>3. Lately(fl) \in Nat /\ Lately(fl) <= l
  BY <1>1, <1>2, SinceIs
<1>4. l <= l
  BY <1>2
<1>5. QED
  BY <1>1, <1>2, <1>3, <1>4, BetweenType DEF Open

(* A batch that brings f to the throttleTime.                              *)
Grows(p, bs, fl, more, f) ==
  /\ HandedOn(p, more, fl) = HandedOn(p, bs, fl)
  /\ Open(p, more, fl) = Open(p, bs, fl) \o f
  /\ Grown(p, more, fl)

LEMMA OpenGrows ==
  ASSUME NEW p, NEW bs, NEW fl, History(p, bs, fl), Grown(p, bs, fl),
         NEW b \in Seq(Items), NEW more, more = Append(bs, b),
         NEW f \in Seq(Items),
         Reached(p, more, Len(more)) = Reached(p, bs, Len(bs)) \o f
  PROVE  Grows(p, bs, fl, more, f)
<1>1. /\ AllCarry(p) /\ bs \in Seq(Seq(Items)) /\ fl \in Seq(Nat)
      /\ \A j \in DOMAIN fl : fl[j] <= Len(bs)
  BY DEF History
<1>2. PICK l \in Nat : l = Len(bs)
  BY <1>1
<1>3. PICK m \in Nat : m = Lately(fl) /\ m <= l
  BY <1>1, <1>2, SinceIs
<1>4. PICK s \in Seq(Items) : s = Reached(p, bs, l)
  BY <1>1, <1>2, ReachedType
<1>5. PICK t \in Seq(Items) : t = Reached(p, bs, m)
  BY <1>1, <1>2, <1>3, ReachedType
<1>6. Reached(p, more, m) = t
  BY <1>1, <1>2, <1>3, <1>5, FedToKept DEF Reached
<1>7. PICK n \in Nat : n = Len(t) /\ n <= Len(s)
  BY <1>2, <1>3, <1>4, <1>5 DEF Grown
<1>8. From(s \o f, n + 1) = From(s, n + 1) \o f
  BY <1>7, FromSplit
<1>9. Reached(p, more, Len(more)) = s \o f
  BY <1>2, <1>4
<1>10. Open(p, more, fl) = Open(p, bs, fl) \o f
  BY <1>2, <1>3, <1>4, <1>5, <1>6, <1>7, <1>8, <1>9 DEF Open, Between
<1>11. Grown(p, more, fl)
  <2>1. n <= Len(s \o f)
    BY <1>7
  <2>2. QED
    BY <1>3, <1>6, <1>7, <1>9, <2>1 DEF Grown
<1>12. HandedOn(p, more, fl) = HandedOn(p, bs, fl)
  BY LatestsKept DEF HandedOn
<1>13. QED
  BY <1>10, <1>11, <1>12 DEF Grows

(* A flush with nothing unread closes an interval.                         *)
Flushed(bs, fl, more, fl2) ==
  more = Append(bs, << >>) /\ fl2 = Append(fl, Len(more))
Closed(p, bs, fl, more, fl2) ==
  /\ HandedOn(p, more, fl2) = HandedOn(p, bs, fl) \o LatestOf(Open(p, bs, fl))
  /\ Open(p, more, fl2) = << >>
  /\ Grown(p, more, fl2)

LEMMA FlushCloses ==
  ASSUME NEW p, NEW bs, NEW fl, History(p, bs, fl),
         NEW more, NEW fl2, Flushed(bs, fl, more, fl2)
  PROVE  Closed(p, bs, fl, more, fl2)
<1>1. /\ AllCarry(p) /\ bs \in Seq(Seq(Items)) /\ fl \in Seq(Nat)
      /\ \A j \in DOMAIN fl : fl[j] <= Len(bs)
  BY DEF History
<1>2. PICK l \in Nat : l = Len(bs)
  BY <1>1
<1>3. PICK b \in Seq(Items) : b = << >> /\ more = Append(bs, b)
  BY EmptySeq DEF Flushed
<1>4. more \in Seq(Seq(Items)) /\ Len(more) = l + 1
  BY <1>1, <1>2, <1>3
<1>5. PICK m \in Nat : m = Lately(fl) /\ m <= l
  BY <1>1, <1>2, SinceIs
<1>6. Reached(p, more, m) = Reached(p, bs, m)
  BY <1>1, <1>2, <1>3, <1>5, FedToKept DEF Reached
<1>7. Reached(p, more, l + 1) = Reached(p, bs, l)
  <2>1. /\ FedTo(bs, l) = FlattenSeq(bs)
        /\ FedTo(more, l + 1) = FlattenSeq(bs) \o b
    BY <1>1, <1>2, <1>3, <1>4, FedToAll
  <2>2. FlattenSeq(bs) \in Seq(Items)
    BY <1>1, FlattenType
  <2>3. FlattenSeq(bs) \o b = FlattenSeq(bs)
    BY <1>3, <2>2, ConcatEmptySeq
  <2>4. QED
    BY <2>1, <2>3 DEF Reached
<1>8. Between(p, more, m, l + 1) = Open(p, bs, fl)
  BY <1>2, <1>5, <1>6, <1>7 DEF Open, Between
<1>9. l + 1 \in Nat /\ fl2 = Append(fl, l + 1)
  BY <1>4 DEF Flushed
<1>10. /\ Latests(p, more, fl2)
            = Append(Latests(p, more, fl), LatestOf(Between(p, more, m, l + 1)))
       /\ Lately(fl2) = l + 1
  <2>1. PICK n \in Nat : n = l + 1
    BY <1>9
  <2>2. LatestAdded(p, more, fl, n)
    BY <1>1, LatestsOneMore
  <2>3. QED
    BY <1>5, <1>9, <2>1, <2>2 DEF LatestAdded
<1>11. Latests(p, more, fl) = Latests(p, bs, fl)
  BY <1>3, LatestsKept
<1>12. PICK parts \in Seq(Seq(Items)) : parts = Latests(p, bs, fl)
  BY HandedOnType
<1>13. PICK last \in Seq(Items) : last = LatestOf(Open(p, bs, fl))
  BY OpenType
<1>14. FlattenSeq(Append(parts, last)) = FlattenSeq(parts) \o last
  BY FlattenAppend
<1>15. HandedOn(p, more, fl2) = HandedOn(p, bs, fl) \o LatestOf(Open(p, bs, fl))
  BY <1>8, <1>10, <1>11, <1>12, <1>13, <1>14 DEF HandedOn
<1>16. PICK s \in Seq(Items) : s = Reached(p, more, l + 1)
  <2>1. l + 1 <= Len(more)
    BY <1>4
  <2>2. QED
    BY <1>1, <1>4, <1>9, <2>1, ReachedType
<1>17. Open(p, more, fl2) = << >>
  <2>1. Open(p, more, fl2) = From(s, Len(s) + 1)
    BY <1>4, <1>10, <1>16 DEF Open, Between
  <2>2. PICK e \in Seq(Items) : e = << >>
    BY EmptySeq
  <2>3. 0 \in Nat /\ 0 <= Len(s)
    OBVIOUS
  <2>4. From(s, Len(s) + 1) = << >>
    BY <2>2, <2>3, FromSplit
  <2>5. QED
    BY <2>1, <2>4
<1>18. Grown(p, more, fl2)
  BY <1>4, <1>10, <1>16 DEF Grown
<1>19. QED
  BY <1>15, <1>17, <1>18 DEF Closed

(* Before the first call of pop_all a flush finds nothing.                 *)
LEMMA NothingToFlush ==
  ASSUME NEW p, NEW bs, NEW fl, History(p, bs, fl), bs = << >>,
         NEW fl2, fl2 = fl \/ fl2 = Append(fl, Len(bs))
  PROVE  /\ HandedOn(p, bs, fl2) = HandedOn(p, bs, fl)
         /\ Open(p, bs, fl) = << >> /\ Open(p, bs, fl2) = << >>
         /\ Grown(p, bs, fl2)
<1>1. /\ AllCarry(p) /\ bs \in Seq(Seq(Items)) /\ fl \in Seq(Nat)
      /\ \A j \in DOMAIN fl : fl[j] <= Len(bs)
  BY DEF History
<1>2. Len(bs) = 0
  OBVIOUS
<1>3. PICK z \in Nat : z = 0 /\ z = Len(bs)
  BY <1>2
<1>4. Lately(fl) = z
  <2>1. Lately(fl) \in Nat /\ Lately(fl) <= z
    BY <1>1, <1>3, SinceIs
  <2>2. QED
    BY <1>3, <2>1
<1>5. PICK s \in Seq(Items) : s = Reached(p, bs, z)
  <2>1. z <= Len(bs)
    BY <1>3
  <2>2. QED
    BY <1>1, <2>1, ReachedType
<1>6. Between(p, bs, z, z) = << >>
  <2>1. PICK e \in Seq(Items) : e = << >>
    BY EmptySeq
  <2>2. 0 \in Nat /\ 0 <= Len(s)
    OBVIOUS
  <2>3. From(s, Len(s) + 1) = << >>
    BY <2>1, <2>2, FromSplit
  <2>4. QED
    BY <1>5, <2>3 DEF Between
<1>7. PICK more : more = Append(fl, z)
  OBVIOUS
<1>8. /\ Latests(p, bs, more) = Append(Latests(p, bs, fl), << >>)
      /\ Lately(more) = z
  <2>1. LatestAdded(p, bs, fl, z)
    BY <1>1, LatestsOneMore
  <2>2. QED
    BY <1>4, <1>6, <1>7, <2>1 DEF LatestOf, LatestAdded
<1>9. HandedOn(p, bs, more) = HandedOn(p, bs, fl)
  <2>1. PICK parts \in Seq(Seq(Items)) :
          parts = Latests(p, bs, fl) /\ FlattenSeq(parts) \in Seq(Items)
    BY HandedOnType, FlattenType
  <2>2. PICK e \in Seq(Items) : e = << >>
    BY EmptySeq
  <2>3. FlattenSeq(Append(parts, e)) = FlattenSeq(parts) \o e
    BY FlattenAppend
  <2>4. FlattenSeq(parts) \o e = FlattenSeq(parts)
    BY <2>1, <2>2, ConcatEmptySeq
  <2>5. QED
    BY <1>8, <2>1, <2>2, <2>3, <2>4 DEF HandedOn
<1>10. Lately(fl2) = z /\ HandedOn(p, bs, fl2) = HandedOn(p, bs, fl)
  BY <1>3, <1>4, <1>7, <1>8, <1>9
<1>11. Open(p, bs, fl) = << >> /\ Open(p, bs, fl2) = << >>
  BY <1>3, <1>4, <1>6, <1>10 DEF Open
<1>12. Grown(p, bs, fl2)
  <2>1. Len(s) <= Len(s)
    OBVIOUS
  <2>2. QED
    BY <1>3, <1>5, <1>10, <2>1 DEF Grown
<1>13. QED
  BY <1>10, <1>11, <1>12

(* A chain with a throttleTime, and the two chains it stands between.      *)
Ahead(c, k) == SubSeq(c, 1, k - 1)
Beyond(c, k) == From(c, k + 1)
ThrottledBy(c, k) ==
  /\ c \in Seq(Stages) /\ Callbacks(c) /\ AccumReturns
  /\ k \in 1..Len(c) /\ c[k].op = "throttleTime"
  /\ AllCarry(Ahead(c, k)) /\ AllCarry(Beyond(c, k))
(* The contexts behind it.                                                 *)
BeyondCtxs(c, k, x) == [i \in 1..Len(Beyond(c, k)) |-> x[k + i]]

LEMMA AroundIs ==
  ASSUME NEW S, NEW c \in Seq(S), NEW k \in 1..Len(c)
  PROVE  /\ Len(Ahead(c, k)) = k - 1 /\ Len(Beyond(c, k)) = Len(c) - k
         /\ Ahead(c, k) \in Seq(S) /\ Beyond(c, k) \in Seq(S)
         /\ \A j \in 1..(k - 1) : Ahead(c, k)[j] = c[j]
         /\ \A j \in 1..(Len(c) - k) : Beyond(c, k)[j] = c[k + j]
<1>1. PICK n \in Nat : n = Len(c)
  OBVIOUS
<1>2. k \in Nat /\ k >= 1 /\ k <= n
  BY <1>1
<1>3. /\ SubSeq(c, 1, k - 1) \in Seq(S) /\ Len(SubSeq(c, 1, k - 1)) = k - 1
      /\ \A j \in 1..(k - 1) : SubSeq(c, 1, k - 1)[j] = c[j]
  BY <1>1, <1>2
<1>4. /\ SubSeq(c, k + 1, n) \in Seq(S) /\ Len(SubSeq(c, k + 1, n)) = n - k
      /\ \A j \in 1..(n - k) : SubSeq(c, k + 1, n)[j] = c[k + j]
  BY <1>1, <1>2
<1>5. QED
  BY <1>1, <1>3, <1>4 DEF Ahead, Beyond, From

LEMMA ThrottleApplies ==
  ASSUME NEW stage, stage.op = "throttleTime", NEW y, NEW f, NEW isReady
  PROVE  LET a == Apply(stage, y, f, isReady)
         IN  /\ a.out = IF isReady /\ y # Null THEN << y >> ELSE << >>
             /\ a.ctx = IF isReady THEN Null
                        ELSE IF f = << >> THEN y ELSE Last(f)
<1>1. Apply(stage, y, f, isReady) = ThrottleTimeApply(y, f, isReady)
  BY DEF Apply
<1>2. QED
  BY <1>1, ResultFields DEF ThrottleTimeApply

(* What a batch does: the stages ahead go on with it, throttleTime takes   *)
(* what they hand out, f, and when the observable is ready it hands out,   *)
(* as g, the item it kept; the stages beyond it go on with that.           *)
Throttles(c, k, d, b, l, g, x, isReady, r, f) ==
  /\ Rx(Ahead(c, k), d \o b).out = Rx(Ahead(c, k), d).out \o f
  /\ AtWork(Ahead(c, k), d \o b, r.ctx)
  /\ r.ctx[k] = IF isReady THEN Null ELSE IF f = << >> THEN x[k] ELSE Last(f)
  /\ r.out \in Seq(Plain)
  /\ Rx(Beyond(c, k), l \o g).out = Rx(Beyond(c, k), l).out \o r.out
  /\ AtWork(Beyond(c, k), l \o g, BeyondCtxs(c, k, r.ctx))

ThrottleWorks(c, k, d, b, l, g, x, isReady, r) ==
  \E f \in Seq(Plain) : Throttles(c, k, d, b, l, g, x, isReady, r, f)

LEMMA ThrottleGoes ==
  ASSUME NEW c, NEW k, ThrottledBy(c, k), NEW x \in CtxsOf(c),
         NEW d \in Seq(Plain), NEW b \in Seq(Plain), NEW isReady \in BOOLEAN,
         AtWork(Ahead(c, k), d, x),
         PlainSoFar(Ahead(c, k), Len(Ahead(c, k)), d \o b),
         NEW l \in Seq(Plain), NEW g \in Seq(Plain),
         g = IF isReady /\ x[k] # Null THEN << x[k] >> ELSE << >>,
         AtWork(Beyond(c, k), l, BeyondCtxs(c, k, x)),
         PlainSoFar(Beyond(c, k), Len(Beyond(c, k)), l \o g),
         NEW r, r = GenericBatch(c, x, b, isReady)
  PROVE  ThrottleWorks(c, k, d, b, l, g, x, isReady, r)
<1>1. /\ c \in Seq(Stages) /\ Callbacks(c) /\ AccumReturns
      /\ k \in 1..Len(c) /\ c[k].op = "throttleTime"
      /\ AllCarry(Ahead(c, k)) /\ AllCarry(Beyond(c, k))
      /\ b \in Seq(Items)
  BY DEF ThrottledBy, Plain
<1>2. PICK n \in Nat : n = Len(c) /\ DOMAIN c = 1..n
  BY <1>1
<1>3. k \in Nat /\ k >= 1 /\ k <= n
  BY <1>1, <1>2
<1>4. PICK p, q : p = Ahead(c, k) /\ q = Beyond(c, k)
  OBVIOUS
<1>5. /\ Len(p) = k - 1 /\ Len(q) = n - k
      /\ \A j \in 1..(k - 1) : p[j] = c[j]
      /\ \A j \in 1..(n - k) : q[j] = c[k + j]
  BY <1>1, <1>2, <1>4, AroundIs
<1>6. PICK o : /\ Outs(o, c, x, b, isReady)
               /\ GenericBatch(c, x, b, isReady)
                    = Result(o[n], Left(o, c, x, isReady))
  BY <1>1, <1>2, GenericSteps
<1>7. PICK y : y = Left(o, c, x, isReady) /\ r.ctx = y /\ r.out = o[n]
  BY <1>6, ResultFields
<1>8. /\ \A j \in 0..n : o[j] \in Seq(Items)
      /\ o[0] = b
      /\ \A j \in 1..n : o[j] = Apply(c[j], x[j], o[j - 1], isReady).out
      /\ \A j \in 1..n : y[j] = Apply(c[j], x[j], o[j - 1], isReady).ctx
  BY <1>2, <1>6, <1>7 DEF Outs, Left
<1>9. Runs(p, x, b, isReady, o, y)
  <2>1. \A j \in 0..(k - 1) : j \in 0..n
    BY <1>3
  <2>2. \A j \in 1..(k - 1) : j \in 1..n
    BY <1>3
  <2>3. QED
    BY <1>5, <1>8, <2>1, <2>2 DEF Runs
<1>10. PICK f : f = o[k - 1]
  OBVIOUS
<1>11. /\ Rx(p, d \o b).out = Rx(p, d).out \o f
       /\ AtWork(p, d \o b, y) /\ f \in Seq(Plain)
  <2>1. /\ AllCarry(p) /\ AtWork(p, d, x) /\ PlainSoFar(p, Len(p), d \o b)
        /\ f = o[Len(p)]
    BY <1>1, <1>4, <1>5, <1>10
  <2>2. Carried(p, d, b, o, y)
    BY <1>9, <2>1, CarryingBatch
  <2>3. QED
    BY <2>1, <2>2 DEF Carried
<1>12. /\ o[k] = g
       /\ y[k] = IF isReady THEN Null ELSE IF f = << >> THEN x[k] ELSE Last(f)
  <2>1. k \in 1..n
    BY <1>3
  <2>2. /\ o[k] = Apply(c[k], x[k], f, isReady).out
        /\ y[k] = Apply(c[k], x[k], f, isReady).ctx
    BY <1>8, <1>10, <2>1
  <2>3. QED
    BY <1>1, <2>2, ThrottleApplies
<1>13. PICK m \in Nat : m = n - k
  BY <1>3
<1>14. PICK u : u = [i \in 0..m |-> o[k + i]]
  OBVIOUS
<1>15. PICK xs, ys : /\ xs = BeyondCtxs(c, k, x) /\ ys = BeyondCtxs(c, k, y)
  OBVIOUS
<1>16. \A i \in 1..m : xs[i] = x[k + i] /\ ys[i] = y[k + i]
  BY <1>4, <1>5, <1>13, <1>15 DEF BeyondCtxs
<1>17. Runs(q, xs, g, isReady, u, ys)
  <2>1. ASSUME NEW i \in 0..m
        PROVE  u[i] \in Seq(Items)
    <3>1. k + i \in 0..n
      BY <1>3, <1>13
    <3>2. QED
      BY <1>8, <1>14, <3>1
  <2>2. u[0] = g
    <3>1. k + 0 = k /\ 0 \in 0..m
      BY <1>3
    <3>2. QED
      BY <1>12, <1>14, <3>1
  <2>3. ASSUME NEW i \in 1..m
        PROVE  /\ u[i] = Apply(q[i], xs[i], u[i - 1], isReady).out
               /\ ys[i] = Apply(q[i], xs[i], u[i - 1], isReady).ctx
    <3>1. /\ k + i \in 1..n /\ k + i - 1 = k + (i - 1)
          /\ i - 1 \in 0..m /\ i \in 0..m
      BY <1>3, <1>13
    <3>2. PICK j \in 1..n : j = k + i
      BY <3>1
    <3>3. /\ o[j] = Apply(c[j], x[j], o[j - 1], isReady).out
          /\ y[j] = Apply(c[j], x[j], o[j - 1], isReady).ctx
      BY <1>8
    <3>4. u[i] = o[j] /\ u[i - 1] = o[j - 1] /\ q[i] = c[j]
      <4>1. u[i] = o[j] /\ q[i] = c[j]
        BY <1>5, <1>13, <1>14, <3>1, <3>2
      <4>2. u[i - 1] = o[k + (i - 1)] /\ k + (i - 1) = j - 1
        BY <1>3, <1>14, <3>1, <3>2
      <4>3. QED
        BY <4>1, <4>2
    <3>5. xs[i] = x[j] /\ ys[i] = y[j]
      BY <1>16, <3>2
    <3>6. QED
      BY <3>3, <3>4, <3>5
  <2>4. QED
    BY <1>5, <1>13, <2>1, <2>2, <2>3 DEF Runs
<1>18. /\ Rx(q, l \o g).out = Rx(q, l).out \o u[m]
       /\ AtWork(q, l \o g, ys) /\ u[m] \in Seq(Plain)
  <2>1. /\ AllCarry(q) /\ AtWork(q, l, xs) /\ PlainSoFar(q, Len(q), l \o g)
        /\ m = Len(q)
    BY <1>1, <1>4, <1>5, <1>13, <1>15
  <2>2. Carried(q, l, g, u, ys)
    BY <1>17, <2>1, CarryingBatch
  <2>3. QED
    BY <2>1, <2>2 DEF Carried
<1>19. u[m] = o[n]
  <2>1. m \in 0..m /\ k + m = n
    BY <1>3, <1>13
  <2>2. QED
    BY <1>14, <2>1
<1>20. Throttles(c, k, d, b, l, g, x, isReady, r, f)
  BY <1>4, <1>7, <1>11, <1>12, <1>15, <1>18, <1>19 DEF Throttles
<1>21. QED
  BY <1>11, <1>20 DEF ThrottleWorks

(* No call brings the token, a flush finds nothing unread, and neither     *)
(* stages nor throttleTime hand on the token or a NULL.                    *)
Plainly(p, q, bs, fl) ==
  /\ FlattenSeq(bs) \in Seq(Plain)
  /\ \A j \in DOMAIN fl : fl[j] > 0 => bs[fl[j]] = << >>
  /\ PlainSoFar(p, Len(p), FlattenSeq(bs))
  /\ \A i \in DOMAIN HandedOn(p, bs, fl) :
       HandedOn(p, bs, fl)[i] \notin {Null, Done}
  /\ PlainSoFar(q, Len(q), HandedOn(p, bs, fl))

(* The contexts ahead tell what was fed, that of throttleTime the latest   *)
(* item since the last flush, those beyond what it has handed on.          *)
Settles(c, k, bs, fl, x, res) ==
  LET p == Ahead(c, k)
      q == Beyond(c, k)
      kept == Open(p, bs, fl)
      handed == HandedOn(p, bs, fl)
  IN  /\ AtWork(p, FlattenSeq(bs), x)
      /\ x[k] = IF kept = << >> THEN Null ELSE Last(kept)
      /\ AtWork(q, handed, BeyondCtxs(c, k, x))
      /\ res = Rx(q, handed).out
      /\ Grown(p, bs, fl)

(* One call more of pop_all, made by a flush if the observable is ready.   *)
CallMore(bs, fl, b, isReady, bs2, fl2) ==
  /\ b \in Seq(Items) /\ isReady \in BOOLEAN
  /\ bs2 = Append(bs, b)
  /\ fl2 = IF isReady THEN Append(fl, Len(bs2)) ELSE fl

HandsOver(p, bs, fl, b, isReady, bs2, fl2) ==
  /\ isReady => b = << >>
  /\ HandedOn(p, bs2, fl2)
       = HandedOn(p, bs, fl)
         \o (IF isReady THEN LatestOf(Open(p, bs, fl)) ELSE << >>)

LEMMA CallMoreHands ==
  ASSUME NEW p, NEW q, NEW bs, NEW fl, History(p, bs, fl),
         NEW b, NEW isReady, NEW bs2, NEW fl2,
         CallMore(bs, fl, b, isReady, bs2, fl2), Plainly(p, q, bs2, fl2)
  PROVE  HandsOver(p, bs, fl, b, isReady, bs2, fl2)
<1>1. /\ bs \in Seq(Seq(Items)) /\ fl \in Seq(Nat)
      /\ b \in Seq(Items) /\ bs2 = Append(bs, b)
      /\ fl2 = IF isReady THEN Append(fl, Len(bs2)) ELSE fl
  BY DEF History, CallMore
<1>2. PICK l \in Nat : /\ l = Len(bs) /\ Len(bs2) = l + 1
                       /\ bs2[l + 1] = b
  BY <1>1, AppendProperties
<1>3. CASE isReady
  <2>1. PICK n \in Nat : n = Len(fl)
    BY <1>1
  <2>2. PICK m \in Nat : m = l + 1
    OBVIOUS
  <2>3. fl2 \in Seq(Nat) /\ Len(fl2) = n + 1 /\ fl2[n + 1] = m
    BY <1>1, <1>2, <1>3, <2>1, <2>2, AppendProperties
  <2>4. n + 1 \in DOMAIN fl2 /\ m > 0
    BY <2>2, <2>3
  <2>5. b = << >>
    BY <1>2, <2>2, <2>3, <2>4 DEF Plainly
  <2>6. Flushed(bs, fl, bs2, fl2)
    BY <1>1, <1>3, <2>5 DEF Flushed
  <2>7. Closed(p, bs, fl, bs2, fl2)
    BY <2>6, FlushCloses
  <2>8. QED
    BY <1>3, <2>5, <2>7 DEF HandsOver, Closed
<1>4. CASE ~isReady
  <2>1. HandedOn(p, bs2, fl2) = HandedOn(p, bs, fl)
    BY <1>1, <1>4, LatestsKept DEF HandedOn
  <2>2. HandedOn(p, bs, fl) \in Seq(Items)
    BY HandedOnType
  <2>3. HandedOn(p, bs, fl) \o << >> = HandedOn(p, bs, fl)
    BY <2>2, ConcatEmptySeq
  <2>4. QED
    BY <1>4, <2>1, <2>3 DEF HandsOver
<1>5. QED
  BY <1>3, <1>4

(* Items that are not the token are plain.                                 *)
LEMMA PlainItems ==
  ASSUME NEW s \in Seq(Items), \A i \in DOMAIN s : s[i] \notin {Null, Done}
  PROVE  s \in Seq(Plain)
<1>1. \A i \in 1..Len(s) : s[i] \in Plain
  BY DEF Plain
<1>2. QED
  BY <1>1

(* What is in the clear was so before.                                     *)
LEMMA PlainlyBefore ==
  ASSUME NEW p, NEW q, NEW bs, NEW fl, History(p, bs, fl), AllCarry(q),
         NEW b, NEW isReady, NEW bs2, NEW fl2,
         CallMore(bs, fl, b, isReady, bs2, fl2), Plainly(p, q, bs2, fl2)
  PROVE  /\ Plainly(p, q, bs, fl)
         /\ FlattenSeq(bs2) = FlattenSeq(bs) \o b
         /\ FlattenSeq(bs) \in Seq(Plain) /\ b \in Seq(Plain)
         /\ HandedOn(p, bs, fl) \in Seq(Plain)
         /\ HandedOn(p, bs2, fl2) \in Seq(Plain)
<1>1. /\ AllCarry(p) /\ bs \in Seq(Seq(Items)) /\ fl \in Seq(Nat)
      /\ \A j \in DOMAIN fl : fl[j] <= Len(bs)
      /\ b \in Seq(Items) /\ bs2 = Append(bs, b)
      /\ fl2 = IF isReady THEN Append(fl, Len(bs2)) ELSE fl
  BY DEF History, CallMore
<1>2. FlattenSeq(bs) \in Seq(Items) /\ FlattenSeq(bs2) = FlattenSeq(bs) \o b
  BY <1>1, FlattenType, FlattenAppend
<1>3. PICK d \in Seq(Plain) : d = FlattenSeq(bs) /\ b \in Seq(Plain)
  BY <1>1, <1>2, PlainParts DEF Plainly
<1>4. PlainSoFar(p, Len(p), d)
  <2>1. PlainSoFar(p, Len(p), d \o b)
    BY <1>2, <1>3 DEF Plainly
  <2>2. QED
    BY <1>1, <1>3, <2>1, CarryingBefore
<1>5. \A j \in DOMAIN fl : fl[j] > 0 => bs[fl[j]] = << >>
  <2>1. ASSUME NEW j \in DOMAIN fl, fl[j] > 0
        PROVE  bs[fl[j]] = << >>
    <3>1. fl[j] \in 1..Len(bs)
      <4>1. PICK l \in Nat, v \in Nat : l = Len(bs) /\ v = fl[j]
        BY <1>1, <2>1
      <4>2. v <= l
        BY <1>1, <2>1, <4>1
      <4>3. QED
        BY <2>1, <4>1, <4>2
    <3>2. bs2[fl[j]] = bs[fl[j]]
      BY <1>1, <3>1, AppendProperties
    <3>3. j \in DOMAIN fl2 /\ fl2[j] = fl[j]
      <4>1. PICK n \in Nat : n = Len(fl) /\ j \in 1..n
        <5>1. Len(fl) \in Nat /\ DOMAIN fl = 1..Len(fl)
          BY <1>1, LenProperties
        <5>2. QED
          BY <2>1, <5>1
      <4>2. CASE isReady
        <5>1. PICK m \in Nat : m = Len(bs2)
          BY <1>1, AppendProperties
        <5>2. /\ fl2 \in Seq(Nat) /\ Len(fl2) = n + 1
              /\ \A i \in 1..n : fl2[i] = fl[i]
          BY <1>1, <4>1, <4>2, <5>1, AppendProperties
        <5>3. j \in 1..(n + 1)
          BY <4>1
        <5>4. QED
          BY <4>1, <5>2, <5>3
      <4>3. CASE ~isReady
        BY <1>1, <2>1, <4>3
      <4>4. QED
        BY <4>2, <4>3
    <3>4. QED
      BY <2>1, <3>2, <3>3 DEF Plainly
  <2>2. QED
    BY <2>1
<1>6. PICK h \in Seq(Items), g \in Seq(Items) :
        /\ h = HandedOn(p, bs, fl) /\ HandedOn(p, bs2, fl2) = h \o g
  <2>1. PICK g : g = IF isReady THEN LatestOf(Open(p, bs, fl)) ELSE << >>
    OBVIOUS
  <2>2. g \in Seq(Items)
    BY <2>1, OpenType, EmptySeq
  <2>3. HandedOn(p, bs, fl) \in Seq(Items)
    BY HandedOnType
  <2>4. HandsOver(p, bs, fl, b, isReady, bs2, fl2)
    BY CallMoreHands
  <2>5. HandedOn(p, bs2, fl2) = HandedOn(p, bs, fl) \o g
    BY <2>1, <2>4 DEF HandsOver
  <2>6. QED
    BY <2>2, <2>3, <2>5
<1>7. h \o g \in Seq(Items)
  OBVIOUS
<1>8. \A i \in DOMAIN (h \o g) : (h \o g)[i] \notin {Null, Done}
  BY <1>6 DEF Plainly
<1>9. h \o g \in Seq(Plain)
  BY <1>7, <1>8, PlainItems
<1>10. \A i \in DOMAIN h : h[i] \notin {Null, Done}
  <2>1. ASSUME NEW i \in DOMAIN h
        PROVE  i \in DOMAIN (h \o g) /\ (h \o g)[i] = h[i]
    OBVIOUS
  <2>2. QED
    BY <1>8, <2>1
<1>11. h \in Seq(Plain) /\ g \in Seq(Plain)
  BY <1>9, PlainParts
<1>12. PlainSoFar(q, Len(q), h)
  <2>1. PlainSoFar(q, Len(q), h \o g)
    BY <1>6 DEF Plainly
  <2>2. QED
    BY <1>11, <2>1, CarryingBefore
<1>13. Plainly(p, q, bs, fl)
  BY <1>3, <1>4, <1>5, <1>6, <1>10, <1>12 DEF Plainly
<1>14. QED
  BY <1>2, <1>3, <1>6, <1>9, <1>11, <1>13

LEMMA LastBehind ==
  ASSUME NEW w \in Seq(Items), NEW f \in Seq(Items), f # << >>
  PROVE  w \o f # << >> /\ Last(w \o f) = Last(f)
<1>1. PICK m \in Nat, n \in Nat : m = Len(w) /\ n = Len(f)
  OBVIOUS
<1>2. n # 0
  BY <1>1, EmptySeq
<1>3. w \o f \in Seq(Items) /\ Len(w \o f) = m + n
  BY <1>1, ConcatProperties
<1>4. m + n \in 1..(m + n) /\ ~(m + n <= m) /\ m + n - m = n
  BY <1>2
<1>5. (w \o f)[m + n] = f[n]
  BY <1>1, <1>4, ConcatProperties
<1>6. QED
  BY <1>1, <1>2, <1>3, <1>5 DEF Last

(* What throttleTime hands out when it is ready is the latest item since   *)
(* the last flush.                                                         *)
KeepsLatest(p, bs, fl, v, isReady, g) ==
  /\ v = IF Open(p, bs, fl) = << >> THEN Null ELSE Last(Open(p, bs, fl))
  /\ g = IF isReady /\ v # Null THEN << v >> ELSE << >>

HandsOnly(p, bs, fl, bs2, fl2, g) ==
  HandedOn(p, bs2, fl2) = HandedOn(p, bs, fl) \o g

LEMMA HandsTheLatest ==
  ASSUME NEW p, NEW q, NEW bs, NEW fl, History(p, bs, fl),
         NEW b, NEW isReady, NEW bs2, NEW fl2,
         CallMore(bs, fl, b, isReady, bs2, fl2), Plainly(p, q, bs2, fl2),
         NEW v, NEW g, KeepsLatest(p, bs, fl, v, isReady, g)
  PROVE  HandsOnly(p, bs, fl, bs2, fl2, g)
<1>1. PICK w \in Seq(Items) : w = Open(p, bs, fl) /\ LatestOf(w) \in Seq(Items)
  BY OpenType
<1>2. PICK h \in Seq(Items) : h = HandedOn(p, bs, fl)
  BY HandedOnType
<1>3. HandsOver(p, bs, fl, b, isReady, bs2, fl2)
  BY CallMoreHands
<1>4. CASE ~isReady
  BY <1>3, <1>4 DEF HandsOver, KeepsLatest, HandsOnly
<1>5. CASE isReady /\ w = << >>
  BY <1>1, <1>3, <1>5 DEF HandsOver, LatestOf, KeepsLatest, HandsOnly
<1>6. CASE isReady /\ w # << >>
  <2>1. HandedOn(p, bs2, fl2) = h \o << v >> /\ << v >> \in Seq(Items)
    BY <1>1, <1>2, <1>3, <1>6 DEF HandsOver, LatestOf, KeepsLatest
  <2>2. PICK n \in Nat : n = Len(h)
    OBVIOUS
  <2>3. PICK u \in Seq(Items) : u = << v >> /\ Len(u) = 1 /\ u[1] = v
    BY <2>1
  <2>4. h \o u \in Seq(Items) /\ Len(h \o u) = n + 1
    BY <2>2, <2>3, ConcatProperties
  <2>5. (h \o u)[n + 1] = u[1]
    <3>1. n + 1 \in 1..(n + 1) /\ ~(n + 1 <= n) /\ n + 1 - n = 1
      OBVIOUS
    <3>2. QED
      BY <2>2, <2>3, <3>1, ConcatProperties
  <2>6. n + 1 \in DOMAIN (h \o u)
    BY <2>4
  <2>7. v # Null
    BY <2>1, <2>3, <2>5, <2>6 DEF Plainly
  <2>8. QED
    BY <1>2, <1>6, <2>1, <2>7 DEF KeepsLatest, HandsOnly
<1>7. QED
  BY <1>4, <1>5, <1>6

(* One call more, and all of it is so again.                               *)
LEMMA SettlesNext ==
  ASSUME NEW c, NEW k, ThrottledBy(c, k), NEW x \in CtxsOf(c),
         NEW bs, NEW fl, History(Ahead(c, k), bs, fl),
         NEW res \in Seq(Items), Settles(c, k, bs, fl, x, res),
         NEW b, NEW isReady, NEW bs2, NEW fl2,
         CallMore(bs, fl, b, isReady, bs2, fl2),
         Plainly(Ahead(c, k), Beyond(c, k), bs2, fl2),
         NEW r, r = GenericBatch(c, x, b, isReady)
  PROVE  /\ r.out \in Seq(Plain)
         /\ Settles(c, k, bs2, fl2, r.ctx, res \o r.out)
<1>1. PICK p, q : p = Ahead(c, k) /\ q = Beyond(c, k)
  OBVIOUS
<1>2. /\ AllCarry(p) /\ AllCarry(q) /\ History(p, bs, fl)
      /\ Plainly(p, q, bs2, fl2)
  BY <1>1 DEF ThrottledBy
<1>3. /\ Plainly(p, q, bs, fl)
      /\ FlattenSeq(bs2) = FlattenSeq(bs) \o b
      /\ FlattenSeq(bs) \in Seq(Plain) /\ b \in Seq(Plain)
      /\ HandedOn(p, bs, fl) \in Seq(Plain)
      /\ HandedOn(p, bs2, fl2) \in Seq(Plain)
  BY <1>2, PlainlyBefore
<1>4. PICK d \in Seq(Plain), l \in Seq(Plain), w \in Seq(Items) :
        d = FlattenSeq(bs) /\ l = HandedOn(p, bs, fl) /\ w = Open(p, bs, fl)
  BY <1>2, <1>3, OpenType
<1>5. /\ AtWork(p, d, x)
      /\ x[k] = IF w = << >> THEN Null ELSE Last(w)
      /\ AtWork(q, l, BeyondCtxs(c, k, x))
      /\ res = Rx(q, l).out
      /\ Grown(p, bs, fl)
  BY <1>1, <1>4 DEF Settles
<1>6. /\ isReady \in BOOLEAN /\ b \in Seq(Items) /\ bs2 = Append(bs, b)
      /\ fl2 = IF isReady THEN Append(fl, Len(bs2)) ELSE fl
      /\ bs \in Seq(Seq(Items))
  BY DEF CallMore, History
<1>7. PICK g : g = IF isReady /\ x[k] # Null THEN << x[k] >> ELSE << >>
  OBVIOUS
<1>8. HandedOn(p, bs2, fl2) = l \o g
  <2>1. PICK v : v = x[k]
    OBVIOUS
  <2>2. KeepsLatest(p, bs, fl, v, isReady, g)
    BY <1>4, <1>5, <1>7, <2>1 DEF KeepsLatest
  <2>3. HandsOnly(p, bs, fl, bs2, fl2, g)
    BY <1>2, <2>2, HandsTheLatest
  <2>4. QED
    BY <1>4, <2>3 DEF HandsOnly
<1>9. g \in Seq(Items)
  <2>1. CASE w = << >>
    BY <1>5, <1>7, <2>1
  <2>2. CASE w # << >>
    <3>1. Last(w) \in Items
      BY <2>2 DEF Last
    <3>2. QED
      BY <1>5, <1>7, <2>2, <3>1
  <2>3. QED
    BY <2>1, <2>2
<1>10. g \in Seq(Plain)
  <2>1. l \o g \in Seq(Plain) /\ l \in Seq(Items)
    BY <1>3, <1>8 DEF Plain
  <2>2. QED
    BY <1>9, <2>1, PlainParts
<1>11. /\ PlainSoFar(p, Len(p), d \o b)
       /\ PlainSoFar(q, Len(q), l \o g)
  BY <1>2, <1>3, <1>4, <1>8 DEF Plainly
<1>12. PICK f \in Seq(Plain) : Throttles(c, k, d, b, l, g, x, isReady, r, f)
  <2>1. /\ AtWork(Ahead(c, k), d, x)
        /\ PlainSoFar(Ahead(c, k), Len(Ahead(c, k)), d \o b)
        /\ AtWork(Beyond(c, k), l, BeyondCtxs(c, k, x))
        /\ PlainSoFar(Beyond(c, k), Len(Beyond(c, k)), l \o g)
        /\ b \in Seq(Plain) /\ isReady \in BOOLEAN
    BY <1>1, <1>3, <1>5, <1>6, <1>11
  <2>2. ThrottleWorks(c, k, d, b, l, g, x, isReady, r)
    BY <1>7, <1>10, <2>1, ThrottleGoes
  <2>3. QED
    BY <2>2 DEF ThrottleWorks
<1>13. /\ Rx(p, d \o b).out = Rx(p, d).out \o f
       /\ AtWork(p, d \o b, r.ctx)
       /\ r.ctx[k] = IF isReady THEN Null ELSE IF f = << >> THEN x[k] ELSE Last(f)
       /\ r.out \in Seq(Plain)
       /\ Rx(q, l \o g).out = Rx(q, l).out \o r.out
       /\ AtWork(q, l \o g, BeyondCtxs(c, k, r.ctx))
  BY <1>1, <1>12 DEF Throttles
<1>14. f \in Seq(Items)
  BY DEF Plain
<1>15. /\ r.ctx[k] = IF Open(p, bs2, fl2) = << >> THEN Null
                     ELSE Last(Open(p, bs2, fl2))
       /\ Grown(p, bs2, fl2)
  <2>1. CASE isReady
    <3>1. HandsOver(p, bs, fl, b, isReady, bs2, fl2)
      BY <1>2, CallMoreHands
    <3>2. Flushed(bs, fl, bs2, fl2)
      BY <1>6, <2>1, <3>1 DEF HandsOver, Flushed
    <3>3. Closed(p, bs, fl, bs2, fl2)
      BY <1>2, <3>2, FlushCloses
    <3>4. QED
      BY <1>13, <2>1, <3>3 DEF Closed
  <2>2. CASE ~isReady
    <3>1. Reached(p, bs2, Len(bs2)) = Reached(p, bs, Len(bs)) \o f
      <4>1. /\ FedTo(bs, Len(bs)) = d
            /\ FedTo(bs2, Len(bs2)) = d \o b
        BY <1>4, <1>6, FedToAll
      <4>2. QED
        BY <1>13, <4>1 DEF Reached
    <3>2. Grows(p, bs, fl, bs2, f)
      BY <1>2, <1>5, <1>6, <1>14, <3>1, OpenGrows
    <3>3. Open(p, bs2, fl2) = w \o f /\ Grown(p, bs2, fl2)
      BY <1>4, <1>6, <2>2, <3>2 DEF Grows
    <3>4. CASE f = << >>
      <4>1. w \o f = w
        BY <3>4, ConcatEmptySeq
      <4>2. QED
        BY <1>5, <1>13, <2>2, <3>3, <3>4, <4>1
    <3>5. CASE f # << >>
      <4>1. w \o f # << >> /\ Last(w \o f) = Last(f)
        BY <1>14, <3>5, LastBehind
      <4>2. QED
        BY <1>13, <2>2, <3>3, <3>5, <4>1
    <3>6. QED
      BY <3>4, <3>5
  <2>3. QED
    BY <1>6, <2>1, <2>2
<1>16. Settles(c, k, bs2, fl2, r.ctx, res \o r.out)
  BY <1>1, <1>3, <1>4, <1>5, <1>8, <1>13, <1>15 DEF Settles
<1>17. QED
  BY <1>13, <1>16

(* A flush that pop_all did not answer changes nothing either.             *)
LEMMA PlainlyUnflushed ==
  ASSUME NEW p, NEW q, NEW bs, NEW fl, History(p, bs, fl), AllCarry(q),
         NEW fl2, fl2 = Append(fl, Len(bs)), Plainly(p, q, bs, fl2)
  PROVE  Plainly(p, q, bs, fl)
<1>1. /\ AllCarry(p) /\ bs \in Seq(Seq(Items)) /\ fl \in Seq(Nat)
      /\ \A j \in DOMAIN fl : fl[j] <= Len(bs)
  BY DEF History
<1>2. PICK l \in Nat : l = Len(bs)
  BY <1>1
<1>3. PICK n \in Nat : n = Len(fl) /\ DOMAIN fl = 1..n
  <2>1. Len(fl) \in Nat /\ DOMAIN fl = 1..Len(fl)
    BY <1>1, LenProperties
  <2>2. QED
    BY <2>1
<1>4. /\ fl2 \in Seq(Nat) /\ Len(fl2) = n + 1
      /\ \A j \in 1..n : fl2[j] = fl[j]
  BY <1>1, <1>2, <1>3, AppendProperties
<1>5. \A j \in DOMAIN fl : fl[j] > 0 => bs[fl[j]] = << >>
  <2>1. DOMAIN fl2 = 1..(n + 1) /\ 1..n \subseteq 1..(n + 1)
    BY <1>4
  <2>2. QED
    BY <1>3, <1>4, <2>1 DEF Plainly
<1>6. PICK w : w = Between(p, bs, Lately(fl), l)
  OBVIOUS
<1>7. LatestOf(w) \in Seq(Items)
  BY <1>2, <1>6, OpenType DEF Open
<1>8. PICK h \in Seq(Items), g \in Seq(Items) :
        /\ h = HandedOn(p, bs, fl) /\ HandedOn(p, bs, fl2) = h \o g
  <2>1. LatestAdded(p, bs, fl, l)
    BY <1>1, LatestsOneMore
  <2>2. Latests(p, bs, fl2) = Append(Latests(p, bs, fl), LatestOf(w))
    BY <1>2, <1>6, <2>1 DEF LatestAdded
  <2>3. PICK parts \in Seq(Seq(Items)), g \in Seq(Items) :
          /\ parts = Latests(p, bs, fl) /\ g = LatestOf(w)
          /\ FlattenSeq(parts) \in Seq(Items)
    BY <1>7, HandedOnType, FlattenType
  <2>4. FlattenSeq(Append(parts, g)) = FlattenSeq(parts) \o g
    BY FlattenAppend
  <2>5. QED
    BY <2>2, <2>3, <2>4 DEF HandedOn
<1>9. h \o g \in Seq(Items)
  OBVIOUS
<1>10. \A i \in DOMAIN (h \o g) : (h \o g)[i] \notin {Null, Done}
  BY <1>8 DEF Plainly
<1>11. h \o g \in Seq(Plain)
  BY <1>9, <1>10, PlainItems
<1>12. \A i \in DOMAIN h : h[i] \notin {Null, Done}
  <2>1. ASSUME NEW i \in DOMAIN h
        PROVE  i \in DOMAIN (h \o g) /\ (h \o g)[i] = h[i]
    OBVIOUS
  <2>2. QED
    BY <1>10, <2>1
<1>13. h \in Seq(Plain) /\ g \in Seq(Plain)
  BY <1>11, PlainParts
<1>14. PlainSoFar(q, Len(q), h)
  <2>1. PlainSoFar(q, Len(q), h \o g)
    BY <1>8 DEF Plainly
  <2>2. QED
    BY <1>13, <2>1, CarryingBefore
<1>15. QED
  BY <1>5, <1>8, <1>12, <1>14 DEF Plainly

(* As pipe leaves it.                                                      *)
LEMMA SettlesAtFirst ==
  ASSUME NEW c, NEW k, ThrottledBy(c, k), NEW x, AsPiped(c, x),
         NEW none \in Seq(Plain), none = << >>
  PROVE  /\ History(Ahead(c, k), none, none)
         /\ Settles(c, k, none, none, x, none)
<1>1. /\ c \in Seq(Stages) /\ k \in 1..Len(c) /\ c[k].op = "throttleTime"
      /\ AllCarry(Ahead(c, k)) /\ AllCarry(Beyond(c, k))
  BY DEF ThrottledBy
<1>2. PICK p, q : p = Ahead(c, k) /\ q = Beyond(c, k)
  OBVIOUS
<1>3. /\ Len(p) = k - 1 /\ Len(q) = Len(c) - k
      /\ \A j \in 1..(k - 1) : p[j] = c[j]
      /\ \A j \in 1..(Len(c) - k) : q[j] = c[k + j]
  BY <1>1, <1>2, AroundIs
<1>4. Len(none) = 0 /\ DOMAIN none = {} /\ none \in Seq(Seq(Items))
      /\ none \in Seq(Nat) /\ none \in Seq(Items)
  BY EmptySeq
<1>5. History(p, none, none)
  BY <1>1, <1>2, <1>4 DEF History
<1>6. PICK n \in Nat : n = Len(c) /\ k \in 1..n
  BY <1>1
<1>7. Rx(p, none).out = none /\ AtWork(p, none, x)
  <2>1. \A j \in 1..Len(p) : j \in 1..n
    BY <1>3, <1>6
  <2>2. \A j \in 1..Len(p) : x[j] = NewContext(p[j])
    BY <1>3, <1>6, <2>1 DEF AsPiped
  <2>3. AsPiped(p, x) /\ AllCarry(p)
    BY <1>1, <1>2, <2>2 DEF AsPiped
  <2>4. AtRest(p, none, x)
    BY <1>4, <2>3, CarryingNone
  <2>5. QED
    BY <2>4 DEF AtRest
<1>8. PICK y : y = BeyondCtxs(c, k, x)
  OBVIOUS
<1>9. Rx(q, none).out = none /\ AtWork(q, none, y)
  <2>1. \A j \in 1..Len(q) : k + j \in 1..n
    BY <1>3, <1>6
  <2>2. \A j \in 1..Len(q) : y[j] = x[k + j]
    BY <1>2, <1>8 DEF BeyondCtxs
  <2>3. \A j \in 1..Len(q) : y[j] = NewContext(q[j])
    BY <1>3, <1>6, <2>1, <2>2 DEF AsPiped
  <2>4. AsPiped(q, y) /\ AllCarry(q)
    BY <1>1, <1>2, <2>3 DEF AsPiped
  <2>5. AtRest(q, none, y)
    BY <1>4, <2>4, CarryingNone
  <2>6. QED
    BY <2>5 DEF AtRest
<1>10. /\ HandedOn(p, none, none) = none /\ FlattenSeq(none) = none
  <2>1. FlattenSeq(none) = none
    BY DEF FlattenSeq
  <2>2. Latests(p, none, none) = none
    <3>1. Latests(p, none, none) \in Seq(Seq(Items))
      BY <1>5, HandedOnType
    <3>2. DOMAIN Latests(p, none, none) = {}
      BY <1>4 DEF Latests
    <3>3. PICK s \in Seq(Seq(Items)) : s = Latests(p, none, none)
      BY <3>1
    <3>4. s = << >>
      BY <3>2, <3>3
    <3>5. QED
      BY <3>3, <3>4
  <2>3. QED
    BY <2>1, <2>2 DEF HandedOn
<1>11. Open(p, none, none) = << >> /\ Grown(p, none, none)
  BY <1>5, NothingToFlush
<1>12. x[k] = Null
  BY <1>1, <1>6 DEF AsPiped, NewContext, Null
<1>13. Settles(c, k, none, none, x, none)
  BY <1>2, <1>7, <1>8, <1>9, <1>10, <1>11, <1>12 DEF Settles
<1>14. QED
  BY <1>2, <1>5, <1>13

-----------------------------------------------------------------------------
(* Where a throttleTime stands in a chain ThrottlesToLatest speaks of.     *)
Throttling(k) ==
  /\ k \in DOMAIN chain /\ HoldsOnlyAt(k)
  /\ Ops(chain) \intersect (Aggregating \union Stopping) = {}

(* A chain whose stages all carry on.                                      *)
CarrierAsBuilt(s) == s \in Readers /\ s \in Stages /\ Returns(s) /\ AsBuilt(s)

LEMMA CarryingPart ==
  ASSUME AccumReturns, NEW p \in Seq(Stages),
         \A j \in 1..Len(p) : CarrierAsBuilt(p[j])
  PROVE  AllCarry(p)
<1>1. PICK n \in Nat : n = Len(p) /\ DOMAIN p = 1..n
  BY LenProperties
<1>2. p \in [1..n -> Readers]
  BY <1>1 DEF CarrierAsBuilt
<1>3. p \in Seq(Readers)
  BY <1>2
<1>4. Callbacks(p)
  BY <1>1 DEF CarrierAsBuilt, Callbacks
<1>5. QED
  BY <1>1, <1>3, <1>4 DEF AllCarry, CarrierAsBuilt

LEMMA ThrottlingIs ==
  ASSUME CallbacksReturn, KeysTell, TypeOK, NEW k, Throttling(k)
  PROVE  ThrottledBy(chain, k) /\ chain # << >> /\ ~Streamable(Compile(chain))
<1>1. PICK c : c = chain
  OBVIOUS
<1>2. /\ k \in DOMAIN c /\ c[k].op = "throttleTime"
      /\ \A i \in DOMAIN c \ {k} : c[i].op \notin Holding
      /\ \A i \in DOMAIN c : c[i].op \notin Aggregating \union Stopping
  BY <1>1 DEF Throttling, HoldsOnlyAt, Ops
<1>3. c \in Seq(Stages) /\ Callbacks(c) /\ AccumReturns
  BY <1>1, ChainIsOne DEF CallbacksReturn
<1>4. PICK n \in Nat : n = Len(c) /\ DOMAIN c = 1..n /\ k \in 1..n
  BY <1>2, <1>3
<1>5. c \in Chains
  <2>1. c # << >>
    BY <1>4
  <2>2. QED
    BY <1>1, <2>1 DEF TypeOK
<1>6. ~Streamable(Compile(c))
  <2>1. SUFFICES ASSUME Streamable(Compile(c))
                 PROVE  FALSE
    OBVIOUS
  <2>2. StreamsOps(c)
    BY <1>3, <2>1, OpsStream
  <2>3. c[k].op \in StreamableKinds
    BY <1>2, <2>2 DEF StreamsOps
  <2>4. QED
    BY <1>2, <2>3 DEF StreamableKinds
<1>7. ASSUME NEW i \in 1..n, i # k
      PROVE  CarrierAsBuilt(c[i])
  <2>1. PICK stage \in Stages : stage = c[i] /\ Returns(stage)
    BY <1>3, <1>4 DEF Callbacks
  <2>2. /\ stage.op \in Operations
        /\ stage.op \notin Holding \union Aggregating \union Stopping
    BY <1>2, <1>4, <1>7, <2>1 DEF Stages
  <2>3. stage.op \in CarryKinds /\ stage.op # "throttleTime"
    BY <2>2 DEF Operations, Holding, Aggregating, Stopping, CarryKinds, ItemKinds
  <2>4. KeyTells(stage)
    BY <1>4, <1>5, <2>1 DEF KeysTell
  <2>5. AsBuilt(stage)
    BY <1>3, <2>1, <2>3, <2>4 DEF AsBuilt, Carrier
  <2>6. stage \in Readers
    BY <2>1, <2>3 DEF Readers
  <2>7. QED
    BY <2>1, <2>5, <2>6 DEF CarrierAsBuilt
<1>8. PICK p, q : p = Ahead(c, k) /\ q = Beyond(c, k)
  OBVIOUS
<1>9. /\ Len(p) = k - 1 /\ Len(q) = n - k
      /\ p \in Seq(Stages) /\ q \in Seq(Stages)
      /\ \A j \in 1..(k - 1) : p[j] = c[j]
      /\ \A j \in 1..(n - k) : q[j] = c[k + j]
  BY <1>3, <1>4, <1>8, AroundIs
<1>10. AllCarry(p)
  <2>1. \A j \in 1..(k - 1) : j \in 1..n /\ j # k
    BY <1>4
  <2>2. \A j \in 1..Len(p) : CarrierAsBuilt(p[j])
    BY <1>7, <1>9, <2>1
  <2>3. QED
    BY <1>3, <1>9, <2>2, CarryingPart
<1>11. AllCarry(q)
  <2>1. \A j \in 1..(n - k) : k + j \in 1..n /\ k + j # k
    BY <1>4
  <2>2. \A j \in 1..Len(q) : CarrierAsBuilt(q[j])
    BY <1>7, <1>9, <2>1
  <2>3. QED
    BY <1>3, <1>9, <2>2, CarryingPart
<1>12. QED
  BY <1>1, <1>2, <1>3, <1>4, <1>6, <1>8, <1>10, <1>11 DEF ThrottledBy

(* What holds whatever the chain is.  Every flush is one of a chain, and   *)
(* of a call of pop_all there has been.                                    *)
FlushesIn ==
  /\ chain = << >> => flushes = << >>
  /\ \A j \in DOMAIN flushes : flushes[j] <= Len(batches)
Steady == NoneDelivered /\ Quiet /\ FlushesIn

Asking(items, isReady) ==
  /\ CallbacksReturn /\ KeysTell /\ Inv /\ Steady
  /\ chain' = chain /\ (subscribed => subscribed')
  /\ items \in Seq(Items) /\ isReady \in BOOLEAN /\ Called(isReady)

LEMMA FlushesStayIn ==
  ASSUME NEW items, NEW isReady, Asking(items, isReady),
         batches' = batches \/ batches' = Append(batches, items)
  PROVE  FlushesIn'
<1>1. /\ batches \in Seq(Seq(Items)) /\ flushes \in Seq(Nat)
      /\ chain' = chain /\ FlushesIn /\ Called(isReady)
      /\ items \in Seq(Items)
  BY DEF Asking, Inv, TypeOK, Steady
<1>2. PICK l \in Nat, m \in Nat :
        l = Len(batches) /\ m = Len(batches') /\ l <= m
  BY <1>1, AppendProperties
<1>3. \A j \in DOMAIN flushes : flushes[j] <= m
  <2>1. ASSUME NEW j \in DOMAIN flushes
        PROVE  flushes[j] <= m
    <3>1. PICK v \in Nat : v = flushes[j]
      BY <1>1
    <3>2. v <= l
      BY <1>1, <1>2, <3>1 DEF FlushesIn
    <3>3. QED
      BY <1>2, <3>1, <3>2
  <2>2. QED
    BY <2>1
<1>4. CASE flushes' = flushes
  BY <1>1, <1>2, <1>3, <1>4 DEF FlushesIn
<1>5. CASE /\ flushes' = Append(flushes, Len(batches'))
           /\ Has("buffer") \/ Has("throttleTime")
  <2>1. chain # << >>
    BY <1>5 DEF Has
  <2>2. PICK n \in Nat : n = Len(flushes) /\ DOMAIN flushes = 1..n
    BY <1>1, LenProperties
  <2>3. PICK more \in Seq(Nat) : more = flushes' /\ more = Append(flushes, m)
    BY <1>1, <1>2, <1>5, AppendProperties
  <2>4. /\ Len(more) = n + 1 /\ more[n + 1] = m
        /\ \A j \in 1..n : more[j] = flushes[j]
    BY <1>1, <1>2, <2>2, <2>3, AppendProperties
  <2>5. \A j \in DOMAIN more : more[j] <= m
    <3>1. DOMAIN more = 1..(n + 1)
      BY <2>4
    <3>2. \A j \in 1..(n + 1) : j \in 1..n \/ j = n + 1
      OBVIOUS
    <3>3. QED
      BY <1>2, <1>3, <2>2, <2>4, <3>1, <3>2
  <2>6. QED
    BY <1>1, <1>2, <2>1, <2>3, <2>5 DEF FlushesIn
<1>6. QED
  BY <1>1, <1>4, <1>5 DEF Called

LEMMA PopAllSteady ==
  ASSUME NEW items, NEW isReady, Asking(items, isReady), PopAll(items, isReady)
  PROVE  Steady'
<1>1. /\ CallbacksReturn /\ TypeOK /\ ctxs \in CtxsOf(chain) /\ CompiledOnce
      /\ NoneDelivered /\ Quiet /\ chain' = chain
      /\ items \in Seq(Items) /\ isReady \in BOOLEAN
      /\ (subscribed => subscribed') /\ Called(isReady)
  BY DEF Asking, Inv, Steady
<1>2. chain \in Seq(Stages) /\ Callbacks(chain) /\ AccumReturns
  BY <1>1, ChainIsOne DEF CallbacksReturn
<1>3. FlushesIn'
  <2>1. batches' = batches \/ batches' = Append(batches, items)
    BY DEF PopAll, Ignore, results
  <2>2. QED
    BY <2>1, FlushesStayIn
<1>4. CASE Ignore(items, isReady)
  <2>1. /\ complete' = complete /\ ready' = isReady /\ (complete \/ ~isReady)
        /\ delivered' = delivered
    BY <1>4 DEF Ignore, results
  <2>2. NoneDelivered' /\ Quiet'
    BY <1>1, <2>1 DEF NoneDelivered, Quiet
  <2>3. QED
    BY <1>3, <2>2 DEF Steady
<1>5. ASSUME NEW out \in Seq(Items), Drain(out)
      PROVE  NoneDelivered' /\ Quiet'
  <2>1. Emit(UpToDone(out)) /\ ready' = FALSE
    BY <1>5 DEF Drain
  <2>2. UpToDone(out) \in Seq(Items)
    BY UpToDoneType
  <2>3. NoneDelivered'
    BY <1>1, <2>1, <2>2, EmitAppends
  <2>4. QED
    BY <2>1, <2>3 DEF Quiet
<1>6. CASE DrainBare(items)
  <2>1. NoneDelivered' /\ Quiet'
    BY <1>1, <1>5, <1>6 DEF DrainBare
  <2>2. QED
    BY <1>3, <2>1 DEF Steady
<1>7. ASSUME chain # << >>
      PROVE  Compiled = Compile(chain)
  BY <1>1, <1>7 DEF Compiled, CompiledOnce
<1>8. CASE ~complete /\ DrainStreaming(items, isReady)
  <2>1. chain # << >> /\ Streamable(Compiled) /\ ready' = isReady
    BY <1>8 DEF DrainStreaming
  <2>2. /\ Compiled = Compile(chain) /\ Streamable(Compile(chain))
        /\ Compile(chain) \in Seq(StreamedStages(chain))
    BY <1>2, <1>7, <2>1, StreamableType
  <2>3. PICK r \in Outcomes(chain) :
          r = StreamBatch(chain, Compiled, ctxs, items)
    BY <1>1, <1>2, <2>2, StreamBatchType
  <2>4. r.out \in Seq(Items) /\ Emit(r.out)
    BY <1>8, <2>3 DEF DrainStreaming, Outcomes
  <2>5. NoneDelivered'
    BY <1>1, <2>4, EmitAppends
  <2>6. ~Has("buffer") /\ ~Has("throttleTime")
    <3>1. StreamsOps(chain)
      BY <1>2, <2>2, OpsStream
    <3>2. \A i \in DOMAIN chain : chain[i].op \in StreamableKinds
      BY <3>1 DEF StreamsOps
    <3>3. QED
      BY <3>2 DEF Has, StreamableKinds
  <2>7. ~isReady
    BY <1>1, <1>8, <2>6 DEF Called
  <2>8. QED
    BY <1>3, <2>1, <2>5, <2>7 DEF Steady, Quiet
<1>9. CASE DrainGeneric(items, isReady)
  <2>1. PICK r \in Outcomes(chain) : r = GenericBatch(chain, ctxs, items, isReady)
    BY <1>1, <1>2, GenericType
  <2>2. r.out \in Seq(Items) /\ Drain(r.out)
    BY <1>9, <2>1 DEF DrainGeneric, Outcomes
  <2>3. NoneDelivered' /\ Quiet'
    BY <1>5, <2>2
  <2>4. QED
    BY <1>3, <2>3 DEF Steady
<1>10. QED
  BY <1>4, <1>6, <1>8, <1>9 DEF PopAll

(* What the throttleTime at k hands on, neither of the chains around it    *)
(* handing on the token, and what is then known of the observable.         *)
ThrottlePlain(k) ==
  Plainly(Ahead(chain, k), Beyond(chain, k), batches, flushes)
ThrottleTold(k) ==
  /\ Settles(chain, k, batches, flushes, ctxs, Results)
  /\ complete => batches = << >>
ThrottleTells == \A k : Throttling(k) /\ ThrottlePlain(k) => ThrottleTold(k)

(* The inductive invariant.                                                *)
ThrottleInv == Inv /\ Steady /\ ThrottleTells

LEMMA ThrottleHistory ==
  ASSUME CallbacksReturn, KeysTell, Inv, Steady, NEW k, Throttling(k)
  PROVE  /\ ThrottledBy(chain, k) /\ AllCarry(Beyond(chain, k))
         /\ History(Ahead(chain, k), batches, flushes)
<1>1. ThrottledBy(chain, k)
  BY ThrottlingIs DEF Inv
<1>2. QED
  BY <1>1 DEF ThrottledBy, History, Inv, TypeOK, Steady, FlushesIn

LEMMA ThrottlingStays ==
  ASSUME NEW k, chain' = chain
  PROVE  Throttling(k)' <=> Throttling(k)
BY DEF Throttling, HoldsOnlyAt, Ops

(* One batch through the loop over the Queries.                            *)
LEMMA GenericThrottles ==
  ASSUME NEW items, NEW isReady, Asking(items, isReady), ThrottleTells,
         ~complete, batches' = Append(batches, items),
         DrainGeneric(items, isReady)
  PROVE  ThrottleTells'
<1>1. /\ CallbacksReturn /\ KeysTell /\ Inv /\ Steady /\ TypeOK
      /\ ctxs \in CtxsOf(chain) /\ NoneDelivered /\ chain' = chain
      /\ items \in Seq(Items) /\ isReady \in BOOLEAN
      /\ missed \in Seq(Items) /\ delivered \in Seq(Items)
      /\ (subscribed => subscribed') /\ Called(isReady)
  BY DEF Asking, Inv, Steady, TypeOK
<1>2. SUFFICES ASSUME NEW k, Throttling(k)', ThrottlePlain(k)'
               PROVE  ThrottleTold(k)'
  BY DEF ThrottleTells
<1>3. Throttling(k)
  BY <1>1, <1>2, ThrottlingStays
<1>4. PICK c, x, res, bs, fl, bs2, fl2 :
        /\ c = chain /\ x = ctxs /\ res = Results
        /\ bs = batches /\ fl = flushes /\ bs2 = batches' /\ fl2 = flushes'
  OBVIOUS
<1>5. /\ ThrottledBy(c, k) /\ AllCarry(Beyond(c, k))
      /\ History(Ahead(c, k), bs, fl)
  BY <1>1, <1>3, <1>4, ThrottleHistory
<1>6. CallMore(bs, fl, items, isReady, bs2, fl2)
  BY <1>1, <1>4 DEF Called, CallMore
<1>7. PICK p, q : p = Ahead(c, k) /\ q = Beyond(c, k)
  OBVIOUS
<1>8. Plainly(p, q, bs2, fl2)
  BY <1>1, <1>2, <1>4, <1>7 DEF ThrottlePlain
<1>9. Plainly(p, q, bs, fl)
  BY <1>5, <1>6, <1>7, <1>8, PlainlyBefore
<1>10. Settles(c, k, bs, fl, x, res)
  BY <1>3, <1>4, <1>7, <1>9 DEF ThrottleTells, ThrottlePlain, ThrottleTold
<1>11. PICK r \in Outcomes(c) : r = GenericBatch(c, x, items, isReady)
  BY <1>1, <1>4, <1>5, GenericType DEF ThrottledBy
<1>12. /\ r.out \in Seq(Plain)
       /\ Settles(c, k, bs2, fl2, r.ctx, res \o r.out)
  <2>1. /\ x \in CtxsOf(c) /\ res \in Seq(Items)
        /\ Plainly(Ahead(c, k), Beyond(c, k), bs2, fl2)
    BY <1>1, <1>4, <1>7, <1>8 DEF Results
  <2>2. QED
    BY <1>5, <1>6, <1>10, <1>11, <2>1, SettlesNext
<1>13. PICK out \in Seq(Items) : out = r.out /\ UpToDone(out) = out
  BY <1>12, PlainIsWhole
<1>14. /\ Emit(out) /\ ctxs' = r.ctx
       /\ complete' = (FirstIndex(out, LAMBDA v : v = Done) # 0)
  BY <1>4, <1>11, <1>13 DEF DrainGeneric, Drain
<1>15. complete' = FALSE
  BY <1>13, <1>14, DoneSeen
<1>16. Results' = res \o out
  BY <1>1, <1>4, <1>14, EmitAppends
<1>17. QED
  BY <1>1, <1>4, <1>12, <1>13, <1>14, <1>15, <1>16 DEF ThrottleTold

(* pop_all does nothing, but a flush may have been counted.                *)
LEMMA IgnoredThrottles ==
  ASSUME NEW items, NEW isReady, Asking(items, isReady), ThrottleTells,
         Ignore(items, isReady)
  PROVE  ThrottleTells'
<1>1. /\ CallbacksReturn /\ KeysTell /\ Inv /\ Steady
      /\ chain' = chain /\ Called(isReady)
      /\ ctxs' = ctxs /\ complete' = complete /\ (complete \/ ~isReady)
      /\ batches' = batches /\ missed' = missed /\ delivered' = delivered
  BY DEF Asking, Ignore, results
<1>2. SUFFICES ASSUME NEW k, Throttling(k)', ThrottlePlain(k)'
               PROVE  ThrottleTold(k)'
  BY DEF ThrottleTells
<1>3. Throttling(k)
  BY <1>1, <1>2, ThrottlingStays
<1>4. PICK c, x, res, bs, fl, fl2 :
        /\ c = chain /\ x = ctxs /\ res = Results
        /\ bs = batches /\ fl = flushes /\ fl2 = flushes'
  OBVIOUS
<1>5. Results' = res
  BY <1>1, <1>4 DEF Results
<1>6. /\ ThrottledBy(c, k) /\ AllCarry(Beyond(c, k))
      /\ History(Ahead(c, k), bs, fl)
  BY <1>1, <1>3, <1>4, ThrottleHistory
<1>7. PICK p, q : p = Ahead(c, k) /\ q = Beyond(c, k)
  OBVIOUS
<1>8. Plainly(p, q, bs, fl2)
  BY <1>1, <1>2, <1>4, <1>7 DEF ThrottlePlain
<1>9. CASE flushes' = flushes
  <2>1. ThrottlePlain(k)
    BY <1>4, <1>7, <1>8, <1>9 DEF ThrottlePlain
  <2>2. ThrottleTold(k)
    BY <1>3, <2>1 DEF ThrottleTells
  <2>3. QED
    BY <1>1, <1>4, <1>5, <1>9, <2>2 DEF ThrottleTold
<1>10. CASE flushes' = Append(flushes, Len(batches')) /\ isReady
  <2>1. fl2 = Append(fl, Len(bs)) /\ complete
    BY <1>1, <1>4, <1>10
  <2>2. Plainly(p, q, bs, fl)
    BY <1>6, <1>7, <1>8, <2>1, PlainlyUnflushed
  <2>3. ThrottleTold(k)
    BY <1>3, <1>4, <1>7, <2>2 DEF ThrottleTells, ThrottlePlain
  <2>4. Settles(c, k, bs, fl, x, res) /\ bs = << >>
    BY <1>4, <2>1, <2>3 DEF ThrottleTold
  <2>5. /\ HandedOn(p, bs, fl2) = HandedOn(p, bs, fl)
        /\ Open(p, bs, fl) = << >> /\ Open(p, bs, fl2) = << >>
        /\ Grown(p, bs, fl2)
    BY <1>6, <1>7, <2>1, <2>4, NothingToFlush
  <2>6. Settles(c, k, bs, fl2, x, res)
    BY <1>7, <2>4, <2>5 DEF Settles
  <2>7. QED
    BY <1>1, <1>4, <1>5, <2>4, <2>6 DEF ThrottleTold
<1>11. QED
  BY <1>1, <1>9, <1>10 DEF Called

LEMMA PopAllThrottles ==
  ASSUME NEW items, NEW isReady, Asking(items, isReady), ThrottleTells,
         PopAll(items, isReady)
  PROVE  Steady' /\ ThrottleTells'
<1>1. Steady'
  BY PopAllSteady
<1>2. CASE Ignore(items, isReady)
  BY <1>1, <1>2, IgnoredThrottles
<1>3. CASE /\ ~complete /\ batches' = Append(batches, items)
           /\ DrainGeneric(items, isReady)
  BY <1>1, <1>3, GenericThrottles
<1>4. /\ CallbacksReturn /\ KeysTell /\ TypeOK /\ CompiledOnce
      /\ chain' = chain
  BY DEF Asking, Inv
<1>5. ASSUME \A k : ~Throttling(k)
      PROVE  ThrottleTells'
  BY <1>4, <1>5, ThrottlingStays DEF ThrottleTells
<1>6. CASE DrainBare(items)
  <2>1. \A k : ~Throttling(k)
    BY <1>4, <1>6, ThrottlingIs DEF DrainBare
  <2>2. QED
    BY <1>1, <1>5, <2>1
<1>7. CASE DrainStreaming(items, isReady)
  <2>1. chain # << >> /\ Streamable(Compiled)
    BY <1>7 DEF DrainStreaming
  <2>2. Compiled = Compile(chain)
    BY <1>4, <2>1 DEF Compiled, CompiledOnce
  <2>3. \A k : ~Throttling(k)
    BY <1>4, <2>1, <2>2, ThrottlingIs
  <2>4. QED
    BY <1>1, <1>5, <2>3
<1>8. QED
  BY <1>2, <1>3, <1>6, <1>7 DEF PopAll

(* pipe, with its first contexts and nothing fed.                          *)
LEMMA PipeThrottles ==
  ASSUME CallbacksReturn, KeysTell, Inv, Steady, NEW c \in Chains, Pipe(c)
  PROVE  Steady' /\ ThrottleTells'
<1>1. /\ chain = << >> /\ chain' = c
      /\ ctxs' = [i \in DOMAIN c |-> NewContext(c[i])]
      /\ ready' = FALSE \/ ready' = ready
      /\ batches' = << >> /\ missed' = << >> /\ delivered' = << >>
      /\ complete' = complete /\ flushes' = flushes
  BY DEF Pipe
<1>2. flushes = << >> /\ Quiet
  BY <1>1 DEF Steady, FlushesIn
<1>3. TypeOK'
  BY PipeType DEF Inv
<1>4. Steady'
  <2>1. flushes' = << >> /\ DOMAIN << >> = {}
    BY <1>1, <1>2
  <2>2. FlushesIn'
    BY <2>1 DEF FlushesIn
  <2>3. QED
    BY <1>1, <1>2, <2>2 DEF Steady, NoneDelivered, Quiet
<1>5. ASSUME NEW k, Throttling(k)'
      PROVE  ThrottleTold(k)'
  <2>1. PICK none \in Seq(Plain) : none = << >>
    BY EmptySeq
  <2>2. ThrottledBy(c, k)
    <3>1. CallbacksReturn /\ KeysTell
      OBVIOUS
    <3>2. (CallbacksReturn /\ KeysTell /\ TypeOK /\ Throttling(k)
             => ThrottledBy(chain, k))'
      BY ThrottlingIs, PTL
    <3>3. QED
      BY <1>1, <1>3, <1>5, <3>1, <3>2
  <2>3. PICK x : x = ctxs'
    OBVIOUS
  <2>4. AsPiped(c, x)
    <3>1. c \in Seq(Stages)
      BY <2>2 DEF ThrottledBy
    <3>2. DOMAIN c = 1..Len(c)
      BY <3>1, LenProperties
    <3>3. QED
      BY <1>1, <2>3, <3>2 DEF AsPiped
  <2>5. Settles(c, k, none, none, x, none)
    BY <2>1, <2>2, <2>4, SettlesAtFirst
  <2>6. Results' = none
    <3>1. << >> \o << >> = << >>
      OBVIOUS
    <3>2. QED
      BY <1>1, <2>1, <3>1 DEF Results
  <2>7. QED
    BY <1>1, <1>2, <2>1, <2>3, <2>5, <2>6 DEF ThrottleTold
<1>6. QED
  BY <1>4, <1>5 DEF ThrottleTells

LEMMA ThrottleInit ==
  ASSUME Init
  PROVE  ThrottleInv
<1>1. /\ chain = << >> /\ delivered = << >> /\ ready = FALSE
      /\ flushes = << >> /\ DOMAIN << >> = {}
  BY DEF Init
<1>2. Steady
  BY <1>1 DEF Steady, NoneDelivered, Quiet, FlushesIn
<1>3. ThrottleTells
  BY <1>1 DEF ThrottleTells, Throttling
<1>4. QED
  BY <1>2, <1>3, TypesInit DEF ThrottleInv

LEMMA ThrottleUnchanged ==
  ASSUME Steady, ThrottleTells, subscribed' = subscribed,
         complete' = complete, ready' = ready, flushes' = flushes,
         UNCHANGED << chain, ctxs, results >>
  PROVE  Steady' /\ ThrottleTells'
<1>1. /\ chain' = chain /\ ctxs' = ctxs /\ batches' = batches
      /\ missed' = missed /\ delivered' = delivered
  BY DEF results
<1>2. Results' = Results
  BY <1>1 DEF Results
<1>3. Steady'
  BY <1>1 DEF Steady, NoneDelivered, Quiet, FlushesIn
<1>4. ThrottleTells'
  BY <1>1, <1>2
     DEF ThrottleTells, Throttling, HoldsOnlyAt, Ops, ThrottlePlain,
         ThrottleTold
<1>5. QED
  BY <1>3, <1>4

LEMMA ThrottleStep ==
  ASSUME CallbacksReturn, KeysTell, ThrottleInv, [Next]_vars
  PROVE  ThrottleInv'
<1>1. Inv'
  BY TypesStep DEF ThrottleInv
<1>2. /\ Inv /\ Steady /\ ThrottleTells
      /\ data \in Seq(Items) /\ ready \in BOOLEAN /\ complete \in BOOLEAN
      /\ (complete \/ ~ready)
  BY DEF ThrottleInv, Inv, TypeOK, Steady, Quiet
<1> DEFINE Stays == Steady' /\ ThrottleTells'
<1>3. ASSUME UNCHANGED << chain, ctxs, results >>, subscribed' = subscribed,
             complete' = complete, ready' = ready, flushes' = flushes
      PROVE  Stays
  BY <1>2, <1>3, ThrottleUnchanged
<1>4. ASSUME NEW items \in Seq(Items), PopAll(items, ready), chain' = chain,
             subscribed => subscribed', flushes' = flushes
      PROVE  Stays
  BY <1>2, <1>4, PopAllThrottles DEF Asking, Called
<1>5. ASSUME NEW items \in Seq(Items), PopAll(items, TRUE), chain' = chain,
             subscribed' = subscribed, Has("buffer") \/ Has("throttleTime"),
             flushes' = Append(flushes, Len(batches'))
      PROVE  Stays
  BY <1>2, <1>5, PopAllThrottles DEF Asking, Called
<1>6. ASSUME NEW c \in Chains, Pipe(c)
      PROVE  Stays
  BY <1>2, <1>6, PipeThrottles
<1> HIDE DEF Stays
<1>7. ASSUME NEW v \in Values \union {Done}, Push(v)
      PROVE  Stays
  <2>1. UNCHANGED << deferred, subscribed, chain, flushes >>
    BY <1>7 DEF Push
  <2>2. CASE UNCHANGED << data, complete, ready, ctxs, compiled, results >>
    BY <1>3, <2>1, <2>2
  <2>3. CASE PopAll(Append(data, v), ready)
    <3>1. Append(data, v) \in Seq(Items)
      BY <1>2, ObservableAssumption
    <3>2. QED
      BY <1>4, <2>1, <2>3, <3>1
  <2>4. QED
    BY <1>7, <2>2, <2>3 DEF Push
<1>8. ASSUME Subscribe
      PROVE  Stays
  <2>1. /\ chain' = chain /\ subscribed' = TRUE /\ flushes' = flushes
        /\ PopAll(Append(data, Made), ready) \/ PopAll(data, ready)
    BY <1>8 DEF Subscribe
  <2>2. Append(data, Made) \in Seq(Items)
    BY <1>2, ObservableAssumption
  <2>3. QED
    BY <1>2, <1>4, <2>1, <2>2
<1>9. ASSUME Flush
      PROVE  Stays
  BY <1>2, <1>5, <1>9 DEF Flush
<1>10. ASSUME FlushOne
       PROVE  Stays
  <2>1. (IF Len(data) > 1 THEN SubSeq(data, 1, 1) ELSE data) \in Seq(Items)
    BY <1>2
  <2>2. QED
    BY <1>5, <1>10, <2>1 DEF FlushOne
<1>11. ASSUME UNCHANGED vars
       PROVE  Stays
  BY <1>3, <1>11 DEF vars, fields, results
<1>12. Stays
  BY <1>6, <1>7, <1>8, <1>9, <1>10, <1>11 DEF Next
<1>13. QED
  BY <1>1, <1>12 DEF ThrottleInv, Stays

(* The reference keeps the token to itself, and throttleTime is not handed *)
(* an item that it would take for none.                                    *)
ThrottleInTheClear ==
  \A k \in DOMAIN chain : HoldsOnlyAt(k) =>
    LET p == Ahead(chain, k)
        q == Beyond(chain, k)
        handed == HandedOn(p, batches, flushes)
    IN  /\ ClearDown(p, Len(p), Fed) /\ ClearDown(q, Len(q), handed)
        /\ \A i \in DOMAIN handed : handed[i] \notin {Null, Done}

(* Throttled, of a throttleTime at k.                                      *)
LEMMA ThrottledIs ==
  ASSUME NEW k \in DOMAIN chain, HoldsOnlyAt(k)
  PROVE  Throttled
           = Rx(Beyond(chain, k),
                HandedOn(Ahead(chain, k), batches, flushes)).out
<1>1. (CHOOSE i \in DOMAIN chain : HoldsOnlyAt(i)) = k
  BY DEF HoldsOnlyAt, Holding
<1>2. QED
  BY <1>1
     DEF Throttled, Beyond, HandedOn, Latests, LatestOf, Between, Reached,
         FedTo, FedUpTo, Since, Ahead

LEMMA WholeIsPlain ==
  ASSUME NEW d \in Seq(Items), UpToDone(d) = d
  PROVE  d \in Seq(Plain)
<1>1. \A i \in 1..Len(d) : d[i] # Done
  BY UpToDoneType
<1>2. \A i \in 1..Len(d) : d[i] \in Plain
  BY <1>1 DEF Plain
<1>3. QED
  BY <1>2

LEMMA ThrottleMeans ==
  ASSUME CallbacksReturn, KeysTell, ThrottleInv, ThrottleInTheClear
  PROVE  ThrottlesToLatest
<1>1. SUFFICES
        ASSUME NEW k \in DOMAIN chain, HoldsOnlyAt(k),
               Ops(chain) \intersect (Aggregating \union Stopping) = {},
               UpToDone(Fed) = Fed,
               \A j \in DOMAIN flushes :
                 flushes[j] > 0 => batches[flushes[j]] = << >>
        PROVE  Results = Throttled
  BY DEF ThrottlesToLatest
<1>2. Throttling(k)
  BY <1>1 DEF Throttling
<1>3. /\ Inv /\ Steady /\ ThrottleTells /\ batches \in Seq(Seq(Items))
  BY DEF ThrottleInv, Inv, TypeOK
<1>4. PICK p, q, handed :
        /\ p = Ahead(chain, k) /\ q = Beyond(chain, k)
        /\ handed = HandedOn(p, batches, flushes)
  OBVIOUS
<1>5. AllCarry(p) /\ AllCarry(q) /\ History(p, batches, flushes)
  BY <1>2, <1>3, <1>4, ThrottleHistory DEF ThrottledBy
<1>6. PICK d \in Seq(Items) : d = Fed /\ d = FlattenSeq(batches)
  BY <1>3, FedIs
<1>7. handed \in Seq(Items)
  BY <1>4, <1>5, HandedOnType
<1>8. /\ ClearDown(p, Len(p), d) /\ ClearDown(q, Len(q), handed)
      /\ \A i \in DOMAIN handed : handed[i] \notin {Null, Done}
  BY <1>1, <1>4, <1>6 DEF ThrottleInTheClear
<1>9. PlainSoFar(p, Len(p), d) /\ PlainSoFar(q, Len(q), handed)
  BY <1>5, <1>7, <1>8, CarryingIsClear
<1>10. d \in Seq(Plain)
  BY <1>1, <1>6, WholeIsPlain
<1>11. ThrottlePlain(k)
  BY <1>1, <1>4, <1>6, <1>8, <1>9, <1>10 DEF ThrottlePlain, Plainly
<1>12. ThrottleTold(k)
  BY <1>2, <1>3, <1>11 DEF ThrottleTells
<1>13. Results = Rx(q, handed).out
  BY <1>4, <1>12 DEF ThrottleTold, Settles
<1>14. QED
  BY <1>1, <1>4, <1>13, ThrottledIs

(* A throttleTime between two chains of any operators but those that       *)
(* aggregate, stop the stream or wait for a flush themselves, of any       *)
(* length: at every flush it hands on the latest item that has reached it  *)
(* since the flush before, if any has, and the observable has emitted what *)
(* the stages behind it mean for these, whoever has subscribed and however *)
(* the items are cut into batches (throttleTime, its apply function and    *)
(* pop_all, observable.c).  throttleTime keeps NULL for no item, so it is  *)
(* handed none; callbacks return items, distinctUntilChanged's keys that   *)
(* are not NULL, and no stage of the reference hands on the token.         *)
THEOREM LatestIsShown ==
  ASSUME CallbacksReturn, KeysTell
  PROVE  Spec => [](ThrottleInTheClear => ThrottlesToLatest)
<1>1. Init => ThrottleInv
  BY ThrottleInit
<1>2. ThrottleInv /\ [Next]_vars => ThrottleInv'
  BY ThrottleStep
<1>3. ThrottleInv => (ThrottleInTheClear => ThrottlesToLatest)
  BY ThrottleMeans
<1>4. QED
  BY <1>1, <1>2, <1>3, PTL DEF Spec
=============================================================================
