--------------------------- MODULE OperatorsProofs ---------------------------
(***************************************************************************)
(* Lemmas about the operators Observable is built from: what a fold over a *)
(* sequence is, what the apply functions of Operators and the compiled     *)
(* pipeline return.                                                        *)
(***************************************************************************)
EXTENDS Observable, Induction, SequenceTheorems

-----------------------------------------------------------------------------
(* Folds.  A fold of a function f goes through the values g[0], g[1], ...: *)
(* the base, and what f makes of each value and the next item.             *)
Folds(g, V, f, base, seq) ==
  /\ g \in [0..Len(seq) -> V]
  /\ g[0] = base
  /\ \A k \in 1..Len(seq) : g[k] = f[<< g[k - 1], seq[k] >>]

FoldOf(V, f, base, seq) ==
  (CHOOSE g : Folds(g, V, f, base, seq))[Len(seq)]

(* f takes a value and an item to a value.                                 *)
Folding(V, W, f, base, seq) ==
  f \in [V \X W -> V] /\ base \in V /\ seq \in Seq(W)

(* There are such values.                                                  *)
LEMMA FoldsExist ==
  ASSUME NEW V, NEW W, NEW f, NEW base, NEW seq,
         Folding(V, W, f, base, seq)
  PROVE  \E g : Folds(g, V, f, base, seq)
<1> USE DEF Folding
<1> DEFINE n == Len(seq)
           step == [p \in (Nat \ {0}) \X V |->
                      IF p[1] <= n THEN f[<< p[2], seq[p[1]] >>] ELSE p[2]]
<1>1. n \in Nat /\ \A k \in 1..n : seq[k] \in W
  OBVIOUS
<1>2. step \in [(Nat \ {0}) \X V -> V]
  <2>1. ASSUME NEW p \in (Nat \ {0}) \X V
        PROVE  (IF p[1] <= n THEN f[<< p[2], seq[p[1]] >>] ELSE p[2]) \in V
    <3>1. p[1] \in Nat \ {0} /\ p[2] \in V
      OBVIOUS
    <3>2. CASE p[1] <= n
      <4>1. seq[p[1]] \in W
        BY <3>1, <3>2, <1>1
      <4>2. << p[2], seq[p[1]] >> \in V \X W
        BY <4>1, <3>1
      <4>3. QED
        BY <4>2, <3>2
    <3>3. QED
      BY <3>1, <3>2
  <2>2. QED
    BY <2>1
<1>3. ASSUME NEW k \in 1..n, NEW v \in V
      PROVE  step[<< k, v >>] = f[<< v, seq[k] >>]
  BY <1>1
<1> HIDE DEF step
<1>4. PICK g : Begins(g, n, V, base, step)
  BY <1>1, <1>2, BeginningExists
<1>5. ASSUME NEW k \in 1..n
      PROVE  g[k] = f[<< g[k - 1], seq[k] >>]
  <2>1. g[k] = step[<< k, g[k - 1] >>]
    BY <1>4 DEF Begins
  <2>2. g[k - 1] \in V
    BY <1>4, <1>1 DEF Begins
  <2>3. QED
    BY <2>1, <2>2, <1>3
<1>6. QED
  BY <1>4, <1>5 DEF Folds, Begins

(* They are the same as far as two sequences are.                          *)
SameTo(s, t, n) ==
  /\ Len(s) \in Nat /\ Len(t) \in Nat /\ n <= Len(s) /\ n <= Len(t)
  /\ \A k \in 1..n : s[k] = t[k]

LEMMA FoldsAgree ==
  ASSUME NEW V, NEW f, NEW base, NEW s, NEW t, NEW n \in Nat,
         SameTo(s, t, n),
         NEW g, Folds(g, V, f, base, s), NEW h, Folds(h, V, f, base, t)
  PROVE  g[n] = h[n]
<1> USE DEF SameTo
<1> DEFINE S == {k \in Nat : k <= n => g[k] = h[k]}
<1>1. 0 \in S
  BY DEF Folds
<1>2. ASSUME NEW k \in Nat, k \in S
      PROVE  k + 1 \in S
  <2>1. SUFFICES ASSUME k + 1 <= n
                 PROVE  g[k + 1] = h[k + 1]
    OBVIOUS
  <2>2. g[k] = h[k] /\ s[k + 1] = t[k + 1]
    BY <1>2, <2>1
  <2>3. /\ g[k + 1] = f[<< g[k], s[k + 1] >>]
        /\ h[k + 1] = f[<< h[k], t[k + 1] >>]
    <3>1. k + 1 \in 1..Len(s) /\ k + 1 \in 1..Len(t) /\ (k + 1) - 1 = k
      BY <2>1
    <3>2. QED
      BY <3>1 DEF Folds
  <2>4. QED
    BY <2>2, <2>3
<1>3. \A k \in Nat : k \in S
  <2> HIDE DEF S
  <2> QED BY <1>1, <1>2, SetInduction
<1>4. QED
  BY <1>3

(* So the fold is any such sequence of values' last.                       *)
LEMMA FoldOfIs ==
  ASSUME NEW V, NEW f, NEW base, NEW seq, Len(seq) \in Nat,
         NEW g, Folds(g, V, f, base, seq)
  PROVE  FoldOf(V, f, base, seq) = g[Len(seq)]
<1> DEFINE h == CHOOSE h : Folds(h, V, f, base, seq)
<1>1. Folds(h, V, f, base, seq)
  OBVIOUS
<1>2. SameTo(seq, seq, Len(seq))
  BY DEF SameTo
<1> HIDE DEF h
<1>3. h[Len(seq)] = g[Len(seq)]
  BY <1>1, <1>2, FoldsAgree
<1>4. QED
  BY <1>3 DEF FoldOf, h

(* What a fold returns: a value, the base for no item, and for one item    *)
(* more what f makes of the value so far and that item.                    *)
LEMMA FoldOfType ==
  ASSUME NEW V, NEW W, NEW f, NEW base, NEW seq,
         Folding(V, W, f, base, seq)
  PROVE  FoldOf(V, f, base, seq) \in V
<1> USE DEF Folding
<1>1. PICK g : Folds(g, V, f, base, seq)
  BY FoldsExist
<1>2. FoldOf(V, f, base, seq) = g[Len(seq)] /\ Len(seq) \in Nat
  BY <1>1, FoldOfIs
<1>3. QED
  BY <1>1, <1>2 DEF Folds

LEMMA FoldOfEmpty ==
  ASSUME NEW V, NEW W, NEW f, NEW base, Folding(V, W, f, base, << >>)
  PROVE  FoldOf(V, f, base, << >>) = base
<1>1. << >> \in Seq(W) /\ Len(<< >>) = 0
  OBVIOUS
<1>2. PICK g : Folds(g, V, f, base, << >>)
  BY <1>1, FoldsExist
<1>3. FoldOf(V, f, base, << >>) = g[0]
  BY <1>1, <1>2, FoldOfIs
<1>4. QED
  BY <1>2, <1>3 DEF Folds

LEMMA FoldOfAppend ==
  ASSUME NEW V, NEW W, NEW f, NEW base, NEW seq,
         Folding(V, W, f, base, seq), NEW x \in W
  PROVE  FoldOf(V, f, base, Append(seq, x))
           = f[<< FoldOf(V, f, base, seq), x >>]
<1> USE DEF Folding
<1> DEFINE t == Append(seq, x)
           n == Len(seq)
<1>1. /\ t \in Seq(W) /\ Len(t) = n + 1 /\ n \in Nat
      /\ t[n + 1] = x
      /\ \A k \in 1..n : t[k] = seq[k]
  OBVIOUS
<1> HIDE DEF t
<1>2. PICK g : Folds(g, V, f, base, seq)
  BY FoldsExist
<1>3. PICK h : Folds(h, V, f, base, t)
  BY <1>1, FoldsExist
<1>4. FoldOf(V, f, base, seq) = g[n] /\ FoldOf(V, f, base, t) = h[n + 1]
  BY <1>1, <1>2, <1>3, FoldOfIs
<1>5. g[n] = h[n]
  <2>1. SameTo(seq, t, n) /\ n \in Nat
    BY <1>1 DEF SameTo
  <2>2. QED
    BY <1>2, <1>3, <2>1, FoldsAgree
<1>6. h[n + 1] = f[<< h[n], x >>]
  <2>1. n + 1 \in 1..Len(t) /\ (n + 1) - 1 = n
    BY <1>1
  <2>2. QED
    BY <2>1, <1>1, <1>3 DEF Folds
<1>7. QED
  BY <1>4, <1>5, <1>6 DEF t

-----------------------------------------------------------------------------
(* FoldLeft of the community modules is a function of the sets of          *)
(* positions, which takes the greatest of them last.                       *)
LEMMA GreatestOfInterval ==
  ASSUME NEW k \in Nat \ {0}
  PROVE  Max(1..k) = k /\ (1..k) \ {k} = 1..(k - 1) /\ 1..k # {}
<1>1. k \in 1..k /\ \A y \in 1..k : k >= y
  OBVIOUS
<1>2. \A x \in 1..k : (\A y \in 1..k : x >= y) => x = k
  OBVIOUS
<1>3. Max(1..k) = k
  BY <1>1, <1>2 DEF Max
<1>4. QED
  BY <1>1, <1>3

LEMMA GreatestIsIn ==
  ASSUME NEW n \in Nat, NEW s \in SUBSET (1..n), s # {}
  PROVE  Max(s) \in s /\ \A k \in s : k <= Max(s)
<1>1. s \in SUBSET (0..n)
  OBVIOUS
<1>2. PICK m \in s : \A k \in s : k <= m
  BY <1>1, GreatestElement
<1>3. \A y \in s : m >= y
  BY <1>2
<1>4. QED
  BY <1>3 DEF Max

Iterates(w, n, V, f, base, seq) ==
  /\ w \in [SUBSET (1..n) -> V]
  /\ \A s \in SUBSET (1..n) :
       w[s] = IF s = {} THEN base
              ELSE f[<< w[s \ {Max(s)}], seq[Max(s)] >>]

LEMMA IterationExists ==
  ASSUME NEW V, NEW W, NEW f, NEW base, NEW seq,
         Folding(V, W, f, base, seq)
  PROVE  \E w : Iterates(w, Len(seq), V, f, base, seq)
<1> USE DEF Folding
<1> DEFINE S == {n \in Nat : n <= Len(seq)
                   => \E w : Iterates(w, n, V, f, base, seq)}
<1>1. 0 \in S
  <2>1. SUBSET (1..0) = {{}}
    OBVIOUS
  <2>2. Iterates([s \in SUBSET (1..0) |-> base], 0, V, f, base, seq)
    BY <2>1 DEF Iterates
  <2>3. QED
    BY <2>2
<1>2. ASSUME NEW n \in Nat, n \in S
      PROVE  n + 1 \in S
  <2>1. SUFFICES ASSUME n + 1 <= Len(seq)
                 PROVE  \E w : Iterates(w, n + 1, V, f, base, seq)
    OBVIOUS
  <2>2. PICK w : Iterates(w, n, V, f, base, seq)
    BY <1>2, <2>1
  <2>3. seq[n + 1] \in W
    BY <2>1
  <2> DEFINE v == [s \in SUBSET (1..(n + 1)) |->
                     IF n + 1 \in s THEN f[<< w[s \ {n + 1}], seq[n + 1] >>]
                     ELSE w[s]]
  <2>4. ASSUME NEW s \in SUBSET (1..(n + 1))
        PROVE  /\ s \ {n + 1} \in SUBSET (1..n)
               /\ n + 1 \notin s => s \in SUBSET (1..n)
    OBVIOUS
  <2>5. \A s \in SUBSET (1..n) : w[s] \in V
    BY <2>2 DEF Iterates
  <2>6. v \in [SUBSET (1..(n + 1)) -> V]
    <3>1. ASSUME NEW s \in SUBSET (1..(n + 1))
          PROVE  (IF n + 1 \in s THEN f[<< w[s \ {n + 1}], seq[n + 1] >>]
                  ELSE w[s]) \in V
      <4>1. << w[s \ {n + 1}], seq[n + 1] >> \in V \X W
        BY <2>3, <2>4, <2>5
      <4>2. f[<< w[s \ {n + 1}], seq[n + 1] >>] \in V
        BY <4>1
      <4>3. QED
        BY <4>2, <2>4, <2>5
    <3>2. QED
      BY <3>1
  <2>7. ASSUME NEW s \in SUBSET (1..(n + 1)), s # {}
        PROVE  v[s] = f[<< v[s \ {Max(s)}], seq[Max(s)] >>]
    <3>1. Max(s) \in s /\ \A k \in s : k <= Max(s)
      <4>1. n + 1 \in Nat
        OBVIOUS
      <4>2. QED
        BY <4>1, <2>7, GreatestIsIn
    <3>2. CASE n + 1 \in s
      <4>1. Max(s) = n + 1
        <5>1. PICK m : m = Max(s)
          OBVIOUS
        <5>2. m \in 1..(n + 1) /\ n + 1 <= m
          BY <5>1, <3>1, <3>2
        <5>3. QED
          BY <5>1, <5>2
      <4>2. v[s \ {n + 1}] = w[s \ {n + 1}]
        BY <2>4
      <4>3. v[s] = f[<< w[s \ {n + 1}], seq[n + 1] >>]
        BY <3>2
      <4>4. QED
        BY <4>1, <4>2, <4>3
    <3>3. CASE n + 1 \notin s
      <4>1. s \in SUBSET (1..n) /\ s \ {Max(s)} \in SUBSET (1..(n + 1))
        BY <3>3, <2>4
      <4>2. v[s] = w[s] /\ v[s \ {Max(s)}] = w[s \ {Max(s)}]
        BY <3>3, <4>1
      <4>3. w[s] = f[<< w[s \ {Max(s)}], seq[Max(s)] >>]
        BY <4>1, <2>2, <2>7 DEF Iterates
      <4>4. QED
        BY <4>2, <4>3
    <3>4. QED
      BY <3>2, <3>3
  <2>8. v[{}] = base
    <3>1. w[{}] = base
      BY <2>2 DEF Iterates
    <3>2. QED
      BY <3>1
  <2> HIDE DEF v
  <2>9. Iterates(v, n + 1, V, f, base, seq)
    BY <2>6, <2>7, <2>8 DEF Iterates
  <2>10. QED
    BY <2>9
<1>3. \A n \in Nat : n \in S
  <2> HIDE DEF S
  <2> QED BY <1>1, <1>2, SetInduction
<1>4. QED
  BY <1>3

(* Whatever takes up the last item like f, from a value, is the fold of f. *)
TakesUp(w, V, f, base, seq) ==
  /\ w[{}] = base
  /\ \A k \in 1..Len(seq) :
       w[1..(k - 1)] \in V => w[1..k] = f[<< w[1..(k - 1)], seq[k] >>]

LEMMA IterationIsFold ==
  ASSUME NEW V, NEW W, NEW f, NEW base, NEW seq,
         Folding(V, W, f, base, seq), NEW w, TakesUp(w, V, f, base, seq)
  PROVE  w[DOMAIN seq] = FoldOf(V, f, base, seq)
<1> USE DEF Folding
<1> USE DEF TakesUp
<1>1. PICK g : Folds(g, V, f, base, seq)
  BY FoldsExist
<1> DEFINE S == {k \in Nat : k <= Len(seq) => w[1..k] = g[k]}
<1>2. 0 \in S
  <2>1. 1..0 = {}
    OBVIOUS
  <2>2. QED
    BY <2>1, <1>1 DEF Folds
<1>3. ASSUME NEW k \in Nat, k \in S
      PROVE  k + 1 \in S
  <2>1. SUFFICES ASSUME k + 1 <= Len(seq)
                 PROVE  w[1..(k + 1)] = g[k + 1]
    OBVIOUS
  <2>2. k + 1 \in 1..Len(seq) /\ (k + 1) - 1 = k /\ k \in 0..Len(seq)
    BY <2>1
  <2>3. w[1..k] = g[k] /\ g[k] \in V
    BY <1>1, <1>3, <2>1, <2>2 DEF Folds
  <2>4. g[k + 1] = f[<< g[k], seq[k + 1] >>]
    BY <1>1, <2>2 DEF Folds
  <2>5. w[1..(k + 1)] = f[<< w[1..k], seq[k + 1] >>]
    BY <2>2, <2>3
  <2>6. QED
    BY <2>3, <2>4, <2>5
<1>4. \A k \in Nat : k \in S
  <2> HIDE DEF S
  <2> QED BY <1>2, <1>3, SetInduction
<1>5. Len(seq) \in Nat /\ DOMAIN seq = 1..Len(seq)
  OBVIOUS
<1>6. w[1..Len(seq)] = g[Len(seq)]
  BY <1>4, <1>5
<1>7. QED
  BY <1>1, <1>5, <1>6, FoldOfIs

(* What the iteration of f gives the function that an operator's FoldLeft  *)
(* chooses: there is one, which takes f's values.                          *)
Taken(w, V, W, f, base, seq) ==
  /\ w = [s \in SUBSET (DOMAIN seq) |-> w[s]]
  /\ w[{}] = base
  /\ \A s \in SUBSET (DOMAIN seq) :
       s # {} => /\ w[s \ {Max(s)}] \in V /\ seq[Max(s)] \in W
                 /\ w[s] = f[<< w[s \ {Max(s)}], seq[Max(s)] >>]

LEMMA TakenExists ==
  ASSUME NEW V, NEW W, NEW f, NEW base, NEW seq,
         Folding(V, W, f, base, seq)
  PROVE  \E w : Taken(w, V, W, f, base, seq)
<1> USE DEF Folding
<1>1. DOMAIN seq = 1..Len(seq) /\ Len(seq) \in Nat
  OBVIOUS
<1>2. PICK w : Iterates(w, Len(seq), V, f, base, seq)
  BY IterationExists
<1>3. w = [s \in SUBSET (DOMAIN seq) |-> w[s]] /\ w[{}] = base
  BY <1>1, <1>2 DEF Iterates
<1>4. ASSUME NEW s \in SUBSET (DOMAIN seq), s # {}
      PROVE  /\ w[s \ {Max(s)}] \in V /\ seq[Max(s)] \in W
             /\ w[s] = f[<< w[s \ {Max(s)}], seq[Max(s)] >>]
  <2>1. Max(s) \in s
    BY <1>1, <1>4, GreatestIsIn
  <2>2. s \ {Max(s)} \in SUBSET (1..Len(seq)) /\ Max(s) \in 1..Len(seq)
    BY <1>1, <2>1
  <2>3. QED
    <3>1. w[s \ {Max(s)}] \in V
      BY <1>2, <2>2 DEF Iterates
    <3>2. seq[Max(s)] \in W
      BY <2>2
    <3>3. w[s] = f[<< w[s \ {Max(s)}], seq[Max(s)] >>]
      BY <1>1, <1>2, <1>4 DEF Iterates
    <3>4. QED
      BY <3>1, <3>2, <3>3
<1>5. QED
  BY <1>3, <1>4 DEF Taken

-----------------------------------------------------------------------------
(* The apply functions that go through a batch with a fold.  Each of the   *)
(* next lemmas says of one FoldLeft of which function it is the fold.      *)
Kept(arg) ==
  [p \in Seq(Items) \X Items |->
     IF Pred(arg, p[2]) THEN Append(p[1], p[2]) ELSE p[1]]

LEMMA KeptType ==
  ASSUME NEW arg
  PROVE  Kept(arg) \in [Seq(Items) \X Items -> Seq(Items)]
BY DEF Kept, Items

(* filter: the items that pass, in order.                                  *)
LEMMA FilterIsFold ==
  ASSUME NEW arg, NEW ctx, NEW items \in Seq(Items)
  PROVE  FilterApply(arg, ctx, items)
           = Result(FoldOf(Seq(Items), Kept(arg), << >>, items), ctx)
<1> DEFINE V == Seq(Items)
           W == Items
           f == Kept(arg)
           base == << >>
           seq == items
           next(a, x) == IF Pred(arg, x) THEN Append(a, x) ELSE a
           Is(w) == w = [s \in SUBSET (DOMAIN seq) |->
                           IF s = {} THEN base
                           ELSE next(w[s \ {Max(s)}], seq[Max(s)])]
           it == CHOOSE w : Is(w)
<1>1. FilterApply(arg, ctx, items) = Result(it[DOMAIN seq], ctx)
  BY DEF FilterApply, FoldLeft, MapThenFoldSet
<1>2. Folding(V, W, f, base, seq)
  <2>1. << >> \in V
    OBVIOUS
  <2>2. QED
    BY <2>1, KeptType DEF Folding
<1>3. \A a \in V, x \in W : f[<< a, x >>] = next(a, x)
  BY DEF Kept
<1> HIDE DEF V, W, f, base, seq, next
<1>4. DOMAIN seq = 1..Len(seq) /\ Len(seq) \in Nat
  BY <1>2 DEF Folding
<1>5. Is(it)
  <2>1. PICK w : Taken(w, V, W, f, base, seq)
    BY <1>2, TakenExists
  <2>2. Is(w)
    BY <1>3, <2>1 DEF Taken
  <2>3. QED
    BY <2>2
<1> HIDE DEF it
<1>6. it[{}] = base
  BY <1>5
<1>7. ASSUME NEW k \in 1..Len(seq), it[1..(k - 1)] \in V
      PROVE  it[1..k] = f[<< it[1..(k - 1)], seq[k] >>]
  <2>1. it[1..k] = next(it[1..(k - 1)], seq[k])
    <3>1. k \in Nat \ {0} /\ 1..k \in SUBSET (DOMAIN seq)
      BY <1>4
    <3>2. Max(1..k) = k /\ (1..k) \ {k} = 1..(k - 1) /\ 1..k # {}
      BY <3>1, GreatestOfInterval
    <3>3. QED
      BY <3>1, <3>2, <1>5
  <2>2. seq[k] \in W
    BY <1>2 DEF Folding
  <2>3. QED
    BY <2>1, <2>2, <1>3, <1>7
<1>8. it[DOMAIN seq] = FoldOf(V, f, base, seq)
  <2>1. TakesUp(it, V, f, base, seq)
    BY <1>6, <1>7 DEF TakesUp
  <2>2. QED
    BY <1>2, <2>1, IterationIsFold
<1>9. QED
  BY <1>1, <1>8 DEF V, f, base, seq

(* distinct and distinctUntilChanged: what is out, and the keys seen or    *)
(* the last key.                                                           *)
Unseen(arg) ==
  [p \in [out : Seq(Items), ctx : SUBSET Items] \X Items |->
     IF Key(arg, p[2]) \in p[1].ctx THEN p[1]
     ELSE Result(Append(p[1].out, p[2]), p[1].ctx \union {Key(arg, p[2])})]

Changed(arg) ==
  [p \in [out : Seq(Items), ctx : Items] \X Items |->
     IF Key(arg, p[2]) = p[1].ctx THEN p[1]
     ELSE Result(Append(p[1].out, p[2]), Key(arg, p[2]))]

LEMMA UnseenType ==
  ASSUME NEW arg, \A v \in Items : Key(arg, v) \in Items
  PROVE  Unseen(arg) \in [[out : Seq(Items), ctx : SUBSET Items] \X Items
                           -> [out : Seq(Items), ctx : SUBSET Items]]
<1> DEFINE V == [out : Seq(Items), ctx : SUBSET Items]
<1>1. ASSUME NEW p \in V \X Items
      PROVE  (IF Key(arg, p[2]) \in p[1].ctx THEN p[1]
              ELSE Result(Append(p[1].out, p[2]),
                          p[1].ctx \union {Key(arg, p[2])})) \in V
  <2>1. /\ p[1] \in V /\ p[2] \in Items
        /\ p[1].out \in Seq(Items) /\ p[1].ctx \in SUBSET Items
    OBVIOUS
  <2>2. /\ Append(p[1].out, p[2]) \in Seq(Items)
        /\ p[1].ctx \union {Key(arg, p[2])} \in SUBSET Items
    BY <2>1
  <2>3. QED
    BY <2>1, <2>2 DEF Result
<1>2. QED
  BY <1>1 DEF Unseen

LEMMA ChangedType ==
  ASSUME NEW arg, \A v \in Items : Key(arg, v) \in Items
  PROVE  Changed(arg) \in [[out : Seq(Items), ctx : Items] \X Items
                            -> [out : Seq(Items), ctx : Items]]
<1> DEFINE V == [out : Seq(Items), ctx : Items]
<1>1. ASSUME NEW p \in V \X Items
      PROVE  (IF Key(arg, p[2]) = p[1].ctx THEN p[1]
              ELSE Result(Append(p[1].out, p[2]), Key(arg, p[2]))) \in V
  <2>1. p[1] \in V /\ p[2] \in Items /\ p[1].out \in Seq(Items)
    OBVIOUS
  <2>2. Append(p[1].out, p[2]) \in Seq(Items) /\ Key(arg, p[2]) \in Items
    BY <2>1
  <2>3. QED
    BY <2>1, <2>2 DEF Result
<1>2. QED
  BY <1>1 DEF Changed

(* distinct.                                                               *)
LEMMA DistinctIsFold ==
  ASSUME NEW arg, \A v \in Items : Key(arg, v) \in Items,
         NEW ctx \in SUBSET Items, NEW items \in Seq(Items)
  PROVE  DistinctApply(arg, ctx, items)
           = FoldOf([out : Seq(Items), ctx : SUBSET Items], Unseen(arg), Result(<< >>, ctx), items)
<1> DEFINE V == [out : Seq(Items), ctx : SUBSET Items]
           W == Items
           f == Unseen(arg)
           base == Result(<< >>, ctx)
           seq == items
           next(a, x) == IF Key(arg, x) \in a.ctx THEN a
                         ELSE Result(Append(a.out, x),
                                     a.ctx \union {Key(arg, x)})
           Is(w) == w = [s \in SUBSET (DOMAIN seq) |->
                           IF s = {} THEN base
                           ELSE next(w[s \ {Max(s)}], seq[Max(s)])]
           it == CHOOSE w : Is(w)
<1>1. DistinctApply(arg, ctx, items) = it[DOMAIN seq]
  BY DEF DistinctApply, FoldLeft, MapThenFoldSet
<1>2. Folding(V, W, f, base, seq)
  <2>1. base \in V
    BY DEF Result
  <2>2. QED
    BY <2>1, UnseenType DEF Folding
<1>3. \A a \in V, x \in W : f[<< a, x >>] = next(a, x)
  BY DEF Unseen
<1> HIDE DEF V, W, f, base, seq, next
<1>4. DOMAIN seq = 1..Len(seq) /\ Len(seq) \in Nat
  BY <1>2 DEF Folding
<1>5. Is(it)
  <2>1. PICK w : Taken(w, V, W, f, base, seq)
    BY <1>2, TakenExists
  <2>2. Is(w)
    BY <1>3, <2>1 DEF Taken
  <2>3. QED
    BY <2>2
<1> HIDE DEF it
<1>6. it[{}] = base
  BY <1>5
<1>7. ASSUME NEW k \in 1..Len(seq), it[1..(k - 1)] \in V
      PROVE  it[1..k] = f[<< it[1..(k - 1)], seq[k] >>]
  <2>1. it[1..k] = next(it[1..(k - 1)], seq[k])
    <3>1. k \in Nat \ {0} /\ 1..k \in SUBSET (DOMAIN seq)
      BY <1>4
    <3>2. Max(1..k) = k /\ (1..k) \ {k} = 1..(k - 1) /\ 1..k # {}
      BY <3>1, GreatestOfInterval
    <3>3. QED
      BY <3>1, <3>2, <1>5
  <2>2. seq[k] \in W
    BY <1>2 DEF Folding
  <2>3. QED
    BY <2>1, <2>2, <1>3, <1>7
<1>8. it[DOMAIN seq] = FoldOf(V, f, base, seq)
  <2>1. TakesUp(it, V, f, base, seq)
    BY <1>6, <1>7 DEF TakesUp
  <2>2. QED
    BY <1>2, <2>1, IterationIsFold
<1>9. QED
  BY <1>1, <1>8 DEF V, f, base, seq

(* distinctUntilChanged.                                                   *)
LEMMA DistinctUntilChangedIsFold ==
  ASSUME NEW arg, \A v \in Items : Key(arg, v) \in Items,
         NEW ctx \in Items, NEW items \in Seq(Items)
  PROVE  DistinctUntilChangedApply(arg, ctx, items)
           = FoldOf([out : Seq(Items), ctx : Items], Changed(arg), Result(<< >>, ctx), items)
<1> DEFINE V == [out : Seq(Items), ctx : Items]
           W == Items
           f == Changed(arg)
           base == Result(<< >>, ctx)
           seq == items
           next(a, x) == IF Key(arg, x) = a.ctx THEN a
                         ELSE Result(Append(a.out, x), Key(arg, x))
           Is(w) == w = [s \in SUBSET (DOMAIN seq) |->
                           IF s = {} THEN base
                           ELSE next(w[s \ {Max(s)}], seq[Max(s)])]
           it == CHOOSE w : Is(w)
<1>1. DistinctUntilChangedApply(arg, ctx, items) = it[DOMAIN seq]
  BY DEF DistinctUntilChangedApply, FoldLeft, MapThenFoldSet
<1>2. Folding(V, W, f, base, seq)
  <2>1. base \in V
    BY DEF Result
  <2>2. QED
    BY <2>1, ChangedType DEF Folding
<1>3. \A a \in V, x \in W : f[<< a, x >>] = next(a, x)
  BY DEF Changed
<1> HIDE DEF V, W, f, base, seq, next
<1>4. DOMAIN seq = 1..Len(seq) /\ Len(seq) \in Nat
  BY <1>2 DEF Folding
<1>5. Is(it)
  <2>1. PICK w : Taken(w, V, W, f, base, seq)
    BY <1>2, TakenExists
  <2>2. Is(w)
    BY <1>3, <2>1 DEF Taken
  <2>3. QED
    BY <2>2
<1> HIDE DEF it
<1>6. it[{}] = base
  BY <1>5
<1>7. ASSUME NEW k \in 1..Len(seq), it[1..(k - 1)] \in V
      PROVE  it[1..k] = f[<< it[1..(k - 1)], seq[k] >>]
  <2>1. it[1..k] = next(it[1..(k - 1)], seq[k])
    <3>1. k \in Nat \ {0} /\ 1..k \in SUBSET (DOMAIN seq)
      BY <1>4
    <3>2. Max(1..k) = k /\ (1..k) \ {k} = 1..(k - 1) /\ 1..k # {}
      BY <3>1, GreatestOfInterval
    <3>3. QED
      BY <3>1, <3>2, <1>5
  <2>2. seq[k] \in W
    BY <1>2 DEF Folding
  <2>3. QED
    BY <2>1, <2>2, <1>3, <1>7
<1>8. it[DOMAIN seq] = FoldOf(V, f, base, seq)
  <2>1. TakesUp(it, V, f, base, seq)
    BY <1>6, <1>7 DEF TakesUp
  <2>2. QED
    BY <1>2, <2>1, IterationIsFold
<1>9. QED
  BY <1>1, <1>8 DEF V, f, base, seq

(* scan and reduce: the accumulator.                                       *)
Accumulated == [p \in Items \X Items |-> Accum(p[1], p[2])]

AccumReturns == \A a, v \in Items : Accum(a, v) \in Items

LEMMA AccumulatedType ==
  ASSUME AccumReturns
  PROVE  Accumulated \in [Items \X Items -> Items]
BY DEF Accumulated, AccumReturns

(* FoldLeft(Accum, ...).                                                   *)
LEMMA AccumIsFold ==
  ASSUME AccumReturns, NEW start \in Items, NEW items \in Seq(Items)
  PROVE  FoldLeft(Accum, start, items)
           = FoldOf(Items, Accumulated, start, items)
<1> DEFINE V == Items
           W == Items
           f == Accumulated
           base == start
           seq == items
           next(a, x) == Accum(a, x)
           Is(w) == w = [s \in SUBSET (DOMAIN seq) |->
                           IF s = {} THEN base
                           ELSE next(w[s \ {Max(s)}], seq[Max(s)])]
           it == CHOOSE w : Is(w)
<1>1. FoldLeft(Accum, start, items) = it[DOMAIN seq]
  BY DEF FoldLeft, MapThenFoldSet
<1>2. Folding(V, W, f, base, seq)
  BY AccumulatedType DEF Folding
<1>3. \A a \in V, x \in W : f[<< a, x >>] = next(a, x)
  BY DEF Accumulated
<1> HIDE DEF V, W, f, base, seq, next
<1>4. DOMAIN seq = 1..Len(seq) /\ Len(seq) \in Nat
  BY <1>2 DEF Folding
<1>5. Is(it)
  <2>1. PICK w : Taken(w, V, W, f, base, seq)
    BY <1>2, TakenExists
  <2>2. Is(w)
    BY <1>3, <2>1 DEF Taken
  <2>3. QED
    BY <2>2
<1> HIDE DEF it
<1>6. it[{}] = base
  BY <1>5
<1>7. ASSUME NEW k \in 1..Len(seq), it[1..(k - 1)] \in V
      PROVE  it[1..k] = f[<< it[1..(k - 1)], seq[k] >>]
  <2>1. it[1..k] = next(it[1..(k - 1)], seq[k])
    <3>1. k \in Nat \ {0} /\ 1..k \in SUBSET (DOMAIN seq)
      BY <1>4
    <3>2. Max(1..k) = k /\ (1..k) \ {k} = 1..(k - 1) /\ 1..k # {}
      BY <3>1, GreatestOfInterval
    <3>3. QED
      BY <3>1, <3>2, <1>5
  <2>2. seq[k] \in W
    BY <1>2 DEF Folding
  <2>3. QED
    BY <2>1, <2>2, <1>3, <1>7
<1>8. it[DOMAIN seq] = FoldOf(V, f, base, seq)
  <2>1. TakesUp(it, V, f, base, seq)
    BY <1>6, <1>7 DEF TakesUp
  <2>2. QED
    BY <1>2, <2>1, IterationIsFold
<1>9. QED
  BY <1>1, <1>8 DEF V, f, base, seq

-----------------------------------------------------------------------------
(* Positions in a batch.                                                   *)
FirstOf(I) == IF I # {} THEN Min(I) ELSE 0

LEMMA FirstPosition ==
  ASSUME NEW n \in Nat, NEW I \in SUBSET (1..n)
  PROVE  /\ FirstOf(I) \in 0..n
         /\ FirstOf(I) = 0 <=> I = {}
         /\ FirstOf(I) # 0 => FirstOf(I) \in I /\ \A k \in I : FirstOf(I) <= k
<1>1. CASE I = {}
  BY <1>1 DEF FirstOf
<1>2. CASE I # {}
  <2>1. I \in SUBSET Nat
    OBVIOUS
  <2>2. PICK m \in I : \A k \in I : m <= k
    BY <1>2, <2>1, LeastElement
  <2>3. Min(I) \in I /\ \A k \in I : Min(I) <= k
    BY <2>2 DEF Min
  <2>4. PICK f : f = FirstOf(I)
    OBVIOUS
  <2>5. f \in I /\ \A k \in I : f <= k
    BY <1>2, <2>3, <2>4 DEF FirstOf
  <2>6. f \in 1..n /\ f # 0
    BY <2>5
  <2>7. QED
    BY <2>4, <2>5, <2>6, <1>2
<1>3. QED
  BY <1>1, <1>2

(* A piece of a batch is a batch.                                          *)
LEMMA PieceType ==
  ASSUME NEW S, NEW items \in Seq(S), NEW m \in Nat \ {0}, NEW n \in Int,
         n <= Len(items)
  PROVE  SubSeq(items, m, n) \in Seq(S)
BY SubSeqProperties

(* The loops that break at the token read the items before the first one.  *)
LEMMA UpToDoneIs ==
  ASSUME NEW items \in Seq(Items)
  PROVE  \E n \in 0..Len(items) :
           /\ UpToDone(items) = SubSeq(items, 1, n)
           /\ \A i \in 1..n : items[i] # Done
           /\ n < Len(items) => items[n + 1] = Done
           /\ n = Len(items) => UpToDone(items) = items
<1> DEFINE I == {i \in 1..Len(items) : items[i] = Done}
           m == FirstOf(I)
<1>1. UpToDone(items) = IF m = 0 THEN items ELSE SubSeq(items, 1, m - 1)
  BY DEF UpToDone, FirstIndex, SelectInSeq, FirstOf
<1>2. Len(items) \in Nat /\ I \in SUBSET (1..Len(items))
  OBVIOUS
<1>3. /\ m \in 0..Len(items) /\ (m = 0 <=> I = {})
      /\ m # 0 => m \in I /\ \A k \in I : m <= k
  <2> HIDE DEF I
  <2> QED BY <1>2, FirstPosition
<1>4. CASE m = 0
  <2>1. I = {} /\ UpToDone(items) = items
    BY <1>1, <1>3, <1>4
  <2>2. items = SubSeq(items, 1, Len(items))
    BY SubSeqFull
  <2>3. \A i \in 1..Len(items) : items[i] # Done
    BY <2>1
  <2>4. PICK n \in 0..Len(items) : n = Len(items)
    BY <1>2
  <2>5. /\ UpToDone(items) = SubSeq(items, 1, n)
        /\ \A i \in 1..n : items[i] # Done
        /\ ~(n < Len(items))
    BY <1>2, <2>1, <2>2, <2>3, <2>4
  <2>6. QED
    BY <2>1, <2>5
<1>5. CASE m # 0
  <2>1. m \in 1..Len(items) /\ items[m] = Done /\ m - 1 \in 0..Len(items)
    BY <1>3, <1>5
  <2>2. \A i \in 1..(m - 1) : items[i] # Done
    <3>1. ASSUME NEW i \in 1..(m - 1), items[i] = Done
          PROVE  FALSE
      <4>1. i \in I
        BY <2>1, <3>1
      <4>2. m <= i
        BY <1>3, <1>5, <4>1
      <4>3. QED
        BY <4>2, <2>1
    <3>2. QED
      BY <3>1
  <2>3. UpToDone(items) = SubSeq(items, 1, m - 1)
    BY <1>1, <1>5
  <2> HIDE DEF m
  <2>4. (m - 1) + 1 = m /\ m - 1 # Len(items)
    BY <2>1
  <2>5. QED
    BY <2>1, <2>2, <2>3, <2>4
<1>6. QED
  BY <1>4, <1>5

LEMMA UpToDoneType ==
  ASSUME NEW items \in Seq(Items)
  PROVE  /\ UpToDone(items) \in Seq(Items)
         /\ Len(UpToDone(items)) <= Len(items)
         /\ \A i \in 1..Len(UpToDone(items)) :
              UpToDone(items)[i] = items[i] /\ items[i] # Done
<1>1. PICK n \in 0..Len(items) :
         /\ UpToDone(items) = SubSeq(items, 1, n)
         /\ \A i \in 1..n : items[i] # Done
  BY UpToDoneIs
<1>2. /\ SubSeq(items, 1, n) \in Seq(Items) /\ Len(SubSeq(items, 1, n)) = n
      /\ \A i \in 1..n : SubSeq(items, 1, n)[i] = items[i]
  BY SubSeqProperties
<1>3. QED
  BY <1>1, <1>2

(* Sequences one after the other: a fold, so they are a sequence, and one  *)
(* more goes behind them.                                                  *)
Chained(S) == [p \in Seq(S) \X Seq(S) |-> p[1] \o p[2]]

LEMMA FlattenFolds ==
  ASSUME NEW S, NEW parts \in Seq(Seq(S))
  PROVE  Folding(Seq(S), Seq(S), Chained(S), << >>, parts)
BY DEF Folding, Chained

LEMMA FlattenIsFold ==
  ASSUME NEW S, NEW parts \in Seq(Seq(S))
  PROVE  FlattenSeq(parts) = FoldOf(Seq(S), Chained(S), << >>, parts)
<1>1. Folding(Seq(S), Seq(S), Chained(S), << >>, parts)
  BY FlattenFolds
<1>2. CASE Len(parts) = 0
  <2>1. parts = << >> /\ FlattenSeq(parts) = parts
    BY <1>2 DEF FlattenSeq
  <2>2. QED
    BY <1>1, <2>1, FoldOfEmpty
<1>3. CASE Len(parts) # 0
  <2> DEFINE n == Len(parts)
             Is(w) == w = [i \in 1..n |->
                             IF i = 1 THEN parts[i] ELSE w[i - 1] \o parts[i]]
             it == CHOOSE w : Is(w)
  <2>1. FlattenSeq(parts) = it[n]
    BY <1>3 DEF FlattenSeq
  <2>2. n \in Nat \ {0} /\ \A i \in 1..n : parts[i] \in Seq(S)
    BY <1>3
  <2>3. PICK g : Folds(g, Seq(S), Chained(S), << >>, parts)
    BY <1>1, FoldsExist
  <2>4. ASSUME NEW i \in 1..n
        PROVE  g[i] = g[i - 1] \o parts[i] /\ g[i - 1] \in Seq(S)
    <3>1. g[i] = Chained(S)[<< g[i - 1], parts[i] >>]
      BY <2>3 DEF Folds
    <3>2. g[i - 1] \in Seq(S) /\ parts[i] \in Seq(S)
      <4>1. i - 1 \in 0..Len(parts)
        BY <2>2
      <4>2. g \in [0..Len(parts) -> Seq(S)]
        BY <2>3 DEF Folds
      <4>3. QED
        BY <4>1, <4>2, <2>2
    <3>3. QED
      BY <3>1, <3>2 DEF Chained
  <2>5. g[1] = parts[1]
    <3>1. g[0] = << >>
      BY <2>3 DEF Folds
    <3>2. 1 \in 1..n /\ 1 - 1 = 0
      BY <2>2
    <3>3. g[1] = g[0] \o parts[1] /\ parts[1] \in Seq(S)
      BY <2>2, <2>4, <3>2
    <3>4. QED
      BY <3>1, <3>3, ConcatEmptySeq
  <2>6. Is([i \in 1..n |-> g[i]])
    <3>1. ASSUME NEW i \in 1..n, i # 1
          PROVE  i - 1 \in 1..n
      BY <3>1, <2>2
    <3>2. QED
      BY <2>4, <2>5, <3>1
  <2>7. Is(it)
    BY <2>6
  <2> HIDE DEF it
  <2> DEFINE T == {i \in Nat : i \in 1..n => it[i] = g[i]}
  <2>8. 0 \in T
    OBVIOUS
  <2>9. ASSUME NEW i \in Nat, i \in T
        PROVE  i + 1 \in T
    <3>1. SUFFICES ASSUME i + 1 \in 1..n
                   PROVE  it[i + 1] = g[i + 1]
      OBVIOUS
    <3>2. CASE i = 0
      BY <2>7, <2>2, <2>5, <3>1, <3>2
    <3>3. CASE i # 0
      <4>1. i \in 1..n /\ (i + 1) - 1 = i /\ i + 1 # 1
        BY <3>1, <3>3
      <4>2. it[i + 1] = it[i] \o parts[i + 1]
        BY <2>7, <3>1, <4>1
      <4>3. it[i] = g[i]
        BY <2>9, <4>1
      <4>4. QED
        BY <2>4, <3>1, <4>1, <4>2, <4>3
    <3>4. QED
      BY <3>2, <3>3
  <2>10. \A i \in Nat : i \in T
    <3> HIDE DEF T
    <3> QED BY <2>8, <2>9, SetInduction
  <2>11. it[n] = g[n]
    BY <2>2, <2>10
  <2>12. QED
    BY <2>1, <2>2, <2>3, <2>11, FoldOfIs
<1>4. QED
  BY <1>2, <1>3

LEMMA FlattenType ==
  ASSUME NEW S, NEW parts \in Seq(Seq(S))
  PROVE  FlattenSeq(parts) \in Seq(S)
BY FlattenFolds, FlattenIsFold, FoldOfType

LEMMA FlattenAppend ==
  ASSUME NEW S, NEW parts \in Seq(Seq(S)), NEW b \in Seq(S)
  PROVE  FlattenSeq(Append(parts, b)) = FlattenSeq(parts) \o b
<1>1. PICK more \in Seq(Seq(S)) : more = Append(parts, b)
  <2>1. Append(parts, b) \in Seq(Seq(S))
    OBVIOUS
  <2>2. QED
    BY <2>1
<1>2. Folding(Seq(S), Seq(S), Chained(S), << >>, parts)
  BY FlattenFolds
<1>3. FlattenSeq(more) = Chained(S)[<< FlattenSeq(parts), b >>]
  <2>1. FlattenSeq(more) = FoldOf(Seq(S), Chained(S), << >>, Append(parts, b))
    BY <1>1, FlattenIsFold
  <2>2. QED
    BY <1>2, <2>1, FlattenIsFold, FoldOfAppend
<1>4. FlattenSeq(parts) \in Seq(S)
  BY FlattenType
<1>5. QED
  BY <1>1, <1>3, <1>4 DEF Chained

-----------------------------------------------------------------------------
(* What apply functions return: a batch, and a context of their own kind.  *)
Returns(stage) ==
  \A v \in Items :
    /\ stage.op = "map" => Mapper(stage.arg, v) \in Items
    /\ stage.op \in {"distinct", "distinctUntilChanged"}
         => Key(stage.arg, v) \in Items

Stages == [op : Operations, arg : Items]

Gives(r, stage) ==
  \E o \in Seq(Items) : \E c : r = Result(o, c) /\ ContextOK(stage, c)

LEMMA TokenType ==
  Done \in Items /\ \A v \in Items : << v, Done >> \in Seq(Items)
                                   /\ << v >> \in Seq(Items)
BY ObservableAssumption

(* The maps and the operators that put a token behind an item.             *)
LEMMA ItemwiseType ==
  ASSUME NEW stage \in Stages, Returns(stage),
         stage.op \in {"map", "mapTo", "takeUntil", "first"},
         NEW ctx \in Items, NEW items \in Seq(Items), NEW isReady
  PROVE  Gives(Apply(stage, ctx, items, isReady), stage)
<1> DEFINE d == UpToDone(items)
           arg == stage.arg
<1>1. d \in Seq(Items) /\ arg \in Items
  BY UpToDoneType DEF Stages
<1>2. ContextOK(stage, ctx)
  BY DEF ContextOK
<1> HIDE DEF d
<1>3. CASE stage.op = "map"
  <2>1. Apply(stage, ctx, items, isReady)
          = Result([i \in DOMAIN d |-> Mapper(arg, d[i])], ctx)
    BY <1>3 DEF Apply, MapApply, d
  <2>2. [i \in DOMAIN d |-> Mapper(arg, d[i])] \in Seq(Items)
    BY <1>1, <1>3 DEF Returns
  <2>3. QED
    BY <1>2, <2>1, <2>2 DEF Gives
<1>4. CASE stage.op = "mapTo"
  <2>1. Apply(stage, ctx, items, isReady) = Result([i \in DOMAIN d |-> arg], ctx)
    BY <1>4 DEF Apply, MapToApply, d
  <2>2. [i \in DOMAIN d |-> arg] \in Seq(Items)
    BY <1>1
  <2>3. QED
    BY <1>2, <2>1, <2>2 DEF Gives
<1>5. CASE stage.op = "takeUntil"
  <2> DEFINE parts == [i \in DOMAIN d |-> IF d[i] = arg THEN << d[i], Done >>
                                         ELSE << d[i] >>]
  <2>1. Apply(stage, ctx, items, isReady) = Result(FlattenSeq(parts), ctx)
    BY <1>5 DEF Apply, TakeUntilApply, TokenAfter, d
  <2>2. parts \in Seq(Seq(Items))
    <3>1. \A i \in DOMAIN d : << d[i], Done >> \in Seq(Items)
                             /\ << d[i] >> \in Seq(Items)
      BY <1>1, TokenType
    <3>2. parts \in [1..Len(d) -> Seq(Items)] /\ Len(d) \in Nat
      BY <1>1, <3>1
    <3> HIDE DEF parts
    <3>3. QED
      BY <3>2
  <2> HIDE DEF parts
  <2>3. FlattenSeq(parts) \in Seq(Items)
    BY <2>2, FlattenType
  <2>4. QED
    BY <1>2, <2>1, <2>3 DEF Gives
<1>6. CASE stage.op = "first"
  <2> DEFINE parts == [i \in DOMAIN d |-> << d[i], Done >>]
  <2>1. Apply(stage, ctx, items, isReady) = Result(FlattenSeq(parts), ctx)
    BY <1>6 DEF Apply, FirstApply, TokenAfter, d
  <2>2. parts \in Seq(Seq(Items))
    <3>1. \A i \in DOMAIN d : << d[i], Done >> \in Seq(Items)
      BY <1>1, TokenType
    <3>2. parts \in [1..Len(d) -> Seq(Items)] /\ Len(d) \in Nat
      BY <1>1, <3>1
    <3> HIDE DEF parts
    <3>3. QED
      BY <3>2
  <2> HIDE DEF parts
  <2>3. FlattenSeq(parts) \in Seq(Items)
    BY <2>2, FlattenType
  <2>4. QED
    BY <1>2, <2>1, <2>3 DEF Gives
<1>7. QED
  BY <1>3, <1>4, <1>5, <1>6

(* The operators that fold a batch.                                        *)
LEMMA FoldingType ==
  ASSUME AccumReturns, NEW stage \in Stages, Returns(stage),
         stage.op \in {"filter", "distinct", "distinctUntilChanged",
                       "scan", "scanfrom", "reduce"},
         NEW ctx, ContextOK(stage, ctx), NEW items \in Seq(Items), NEW isReady
  PROVE  Gives(Apply(stage, ctx, items, isReady), stage)
<1> DEFINE d == UpToDone(items)
           arg == stage.arg
<1>1. d \in Seq(Items) /\ arg \in Items
  BY UpToDoneType DEF Stages
<1> HIDE DEF d
<1>2. CASE stage.op = "filter"
  <2>1. Folding(Seq(Items), Items, Kept(arg), << >>, items)
    <3>1. << >> \in Seq(Items)
      OBVIOUS
    <3>2. QED
      BY <3>1, KeptType DEF Folding
  <2>2. FoldOf(Seq(Items), Kept(arg), << >>, items) \in Seq(Items)
    BY <2>1, FoldOfType
  <2>3. Apply(stage, ctx, items, isReady)
          = Result(FoldOf(Seq(Items), Kept(arg), << >>, items), ctx)
    BY <1>2, FilterIsFold DEF Apply
  <2>4. QED
    BY <2>2, <2>3 DEF Gives
<1>3. CASE stage.op = "distinct"
  <2> DEFINE V == [out : Seq(Items), ctx : SUBSET Items]
  <2>1. /\ \A v \in Items : Key(arg, v) \in Items
        /\ ctx \in SUBSET Items
    BY <1>3 DEF Returns, ContextOK
  <2>2. Folding(V, Items, Unseen(arg), Result(<< >>, ctx), items)
    <3>1. Result(<< >>, ctx) \in V
      BY <2>1 DEF Result
    <3>2. Unseen(arg) \in [V \X Items -> V]
      BY <2>1, UnseenType
    <3>3. QED
      BY <3>1, <3>2 DEF Folding
  <2>3. PICK r \in V : r = FoldOf(V, Unseen(arg), Result(<< >>, ctx), items)
    BY <2>2, FoldOfType
  <2>4. Apply(stage, ctx, items, isReady) = r
    BY <1>3, <2>1, <2>3, DistinctIsFold DEF Apply
  <2>5. r.out \in Seq(Items) /\ r = Result(r.out, r.ctx)
    BY DEF Result
  <2>6. ContextOK(stage, r.ctx)
    BY <1>3 DEF ContextOK
  <2>7. QED
    BY <2>4, <2>5, <2>6 DEF Gives
<1>4. CASE stage.op = "distinctUntilChanged"
  <2> DEFINE V == [out : Seq(Items), ctx : Items]
  <2>1. /\ \A v \in Items : Key(arg, v) \in Items
        /\ ctx \in Items
    BY <1>4 DEF Returns, ContextOK
  <2>2. Folding(V, Items, Changed(arg), Result(<< >>, ctx), items)
    <3>1. Result(<< >>, ctx) \in V
      BY <2>1 DEF Result
    <3>2. Changed(arg) \in [V \X Items -> V]
      BY <2>1, ChangedType
    <3>3. QED
      BY <3>1, <3>2 DEF Folding
  <2>3. PICK r \in V : r = FoldOf(V, Changed(arg), Result(<< >>, ctx), items)
    BY <2>2, FoldOfType
  <2>4. Apply(stage, ctx, items, isReady) = r
    BY <1>4, <2>1, <2>3, DistinctUntilChangedIsFold DEF Apply
  <2>5. r.out \in Seq(Items) /\ r = Result(r.out, r.ctx)
    BY DEF Result
  <2>6. ContextOK(stage, r.ctx)
    BY <1>4 DEF ContextOK
  <2>7. QED
    BY <2>4, <2>5, <2>6 DEF Gives
<1>5. ASSUME NEW start \in Items, NEW s \in Seq(Items)
      PROVE  FoldLeft(Accum, start, s) \in Items
  <2>1. Folding(Items, Items, Accumulated, start, s)
    BY AccumulatedType DEF Folding
  <2>2. QED
    BY <2>1, FoldOfType, AccumIsFold
<1>6. CASE stage.op \in {"scan", "scanfrom"}
  <2> DEFINE o == [i \in DOMAIN d |-> FoldLeft(Accum, ctx, SubSeq(d, 1, i))]
  <2>1. ctx \in Items
    BY <1>6 DEF ContextOK
  <2>2. Apply(stage, ctx, items, isReady) = Result(o, FoldLeft(Accum, ctx, d))
    BY <1>6 DEF Apply, ScanApply, d
  <2>3. \A i \in DOMAIN d : FoldLeft(Accum, ctx, SubSeq(d, 1, i)) \in Items
    <3>1. ASSUME NEW i \in DOMAIN d
          PROVE  FoldLeft(Accum, ctx, SubSeq(d, 1, i)) \in Items
      <4>1. SubSeq(d, 1, i) \in Seq(Items)
        BY <1>1
      <4>2. QED
        BY <4>1, <2>1, <1>5
    <3>2. QED
      BY <3>1
  <2>4. o \in Seq(Items)
    BY <1>1, <2>3
  <2>5. ContextOK(stage, FoldLeft(Accum, ctx, d))
    BY <1>1, <1>5, <1>6, <2>1 DEF ContextOK
  <2> HIDE DEF o
  <2>6. QED
    BY <2>2, <2>4, <2>5 DEF Gives
<1>7. CASE stage.op = "reduce"
  <2>1. Apply(stage, ctx, items, isReady)
          = Result(<< FoldLeft(Accum, Null, d) >>, ctx)
    BY <1>7 DEF Apply, ReduceApply, d
  <2>2. Null \in Items
    BY DEF Null, Items
  <2>3. << FoldLeft(Accum, Null, d) >> \in Seq(Items)
    <3>1. FoldLeft(Accum, Null, d) \in Items
      BY <1>1, <1>5, <2>2
    <3>2. QED
      BY <3>1
  <2>4. QED
    BY <2>1, <2>3 DEF Gives
<1>8. QED
  BY <1>2, <1>3, <1>4, <1>6, <1>7

(* The operators that count, or wait for an item.                          *)
LEMMA CountingType ==
  ASSUME NEW stage \in Stages,
         stage.op \in {"skipUntil", "take", "skip", "takeWhile", "skipWhile"},
         NEW ctx, ContextOK(stage, ctx), NEW items \in Seq(Items), NEW isReady
  PROVE  Gives(Apply(stage, ctx, items, isReady), stage)
<1> DEFINE arg == stage.arg
<1>1. arg \in Items /\ Done \in Items
  BY ObservableAssumption DEF Stages
<1>2. CASE stage.op = "skipUntil"
  <2> DEFINE d == UpToDone(items)
             I == {i \in 1..Len(d) : d[i] = arg}
             n == IF ctx THEN 1 ELSE FirstOf(I)
  <2>1. d \in Seq(Items) /\ Len(d) \in Nat
    BY UpToDoneType
  <2>2. Apply(stage, ctx, items, isReady)
          = IF n = 0 THEN Result(<< >>, FALSE) ELSE Result(From(d, n), TRUE)
    BY <1>2 DEF Apply, SkipUntilApply, FirstIndex, SelectInSeq, FirstOf
  <2>3. n \in Nat
    <3> HIDE DEF d
    <3>1. FirstOf(I) \in 0..Len(d)
      BY <2>1, FirstPosition
    <3>2. QED
      BY <3>1
  <2>4. n # 0 => From(d, n) \in Seq(Items)
    <3> HIDE DEF n, d
    <3> QED BY <2>1, <2>3, PieceType DEF From
  <2>5. ContextOK(stage, FALSE) /\ ContextOK(stage, TRUE)
    BY <1>2 DEF ContextOK
  <2>6. << >> \in Seq(Items)
    OBVIOUS
  <2> HIDE DEF n, d
  <2>7. QED
    BY <2>2, <2>4, <2>5, <2>6 DEF Gives
<1>3. CASE stage.op = "skipWhile"
  <2> DEFINE I == {i \in 1..Len(items) : ~Pred(arg, items[i])}
             n == IF ctx THEN 1 ELSE FirstOf(I)
  <2>1. Apply(stage, ctx, items, isReady)
          = IF n = 0 \/ items = << >> THEN Result(<< >>, ctx)
            ELSE Result(From(items, n), TRUE)
    BY <1>3 DEF Apply, SkipWhileApply, FirstIndex, SelectInSeq, FirstOf
  <2>2. n \in Nat
    <3>1. FirstOf(I) \in 0..Len(items) /\ Len(items) \in Nat
      BY FirstPosition
    <3>2. QED
      BY <3>1
  <2>3. n # 0 => From(items, n) \in Seq(Items)
    <3> HIDE DEF n
    <3> QED BY <2>2, PieceType DEF From
  <2>4. ContextOK(stage, TRUE)
    BY <1>3 DEF ContextOK
  <2>5. << >> \in Seq(Items)
    OBVIOUS
  <2> HIDE DEF n
  <2>6. QED
    BY <2>1, <2>3, <2>4, <2>5 DEF Gives
<1>4. CASE stage.op = "take"
  <2>1. ctx \in Nat
    BY <1>4 DEF ContextOK
  <2> DEFINE left == arg - ctx
  <2>2. Apply(stage, ctx, items, isReady)
          = IF left \in 1..Len(items)
            THEN Result(Append(SubSeq(items, 1, left), Done), arg)
            ELSE Result(items, ctx + Len(items))
    BY <1>4 DEF Apply, TakeApply
  <2>3. left \in 1..Len(items)
          => /\ Append(SubSeq(items, 1, left), Done) \in Seq(Items)
             /\ arg \in Nat
    BY <1>1, <2>1 DEF Items
  <2>4. ctx + Len(items) \in Nat
    BY <2>1
  <2>5. \A c \in Nat : ContextOK(stage, c)
    BY <1>4 DEF ContextOK
  <2> HIDE DEF left
  <2>6. QED
    BY <2>2, <2>3, <2>4, <2>5 DEF Gives
<1>5. CASE stage.op = "skip"
  <2>1. ctx \in Nat
    BY <1>5 DEF ContextOK
  <2> DEFINE left == IF arg > ctx THEN arg - ctx ELSE 0
  <2>2. Apply(stage, ctx, items, isReady)
          = Result(From(items, left + 1), ctx + Len(items))
    BY <1>5 DEF Apply, SkipApply
  <2>3. left \in Nat
    BY <1>1, <2>1 DEF Items
  <2>4. From(items, left + 1) \in Seq(Items)
    <3>1. left + 1 \in Nat \ {0} /\ Len(items) \in Int
      BY <2>3
    <3> HIDE DEF left
    <3>2. QED
      BY <3>1, PieceType DEF From
  <2>5. ContextOK(stage, ctx + Len(items))
    BY <1>5, <2>1 DEF ContextOK
  <2>6. QED
    BY <2>2, <2>4, <2>5 DEF Gives
<1>6. CASE stage.op = "takeWhile"
  <2> DEFINE I == {i \in 1..Len(items) : ~Pred(arg, items[i])}
             n == FirstOf(I)
  <2>1. Apply(stage, ctx, items, isReady)
          = Result(IF n = 0 THEN items
                   ELSE Append(SubSeq(items, 1, n - 1), Done), ctx)
    BY <1>6 DEF Apply, TakeWhileApply, FirstIndex, SelectInSeq, FirstOf
  <2>2. n \in 0..Len(items)
    <3>1. Len(items) \in Nat
      OBVIOUS
    <3>2. QED
      BY <3>1, FirstPosition
  <2> HIDE DEF n
  <2>3. n # 0 => Append(SubSeq(items, 1, n - 1), Done) \in Seq(Items)
    BY <1>1, <2>2
  <2>4. QED
    BY <2>1, <2>3 DEF Gives
<1>7. QED
  BY <1>2, <1>3, <1>4, <1>5, <1>6

(* The operators that hold items back, and last.                           *)
LEMMA HoldingType ==
  ASSUME NEW stage \in Stages,
         stage.op \in {"last", "buffer", "throttleTime"},
         NEW ctx, ContextOK(stage, ctx), NEW items \in Seq(Items), NEW isReady
  PROVE  Gives(Apply(stage, ctx, items, isReady), stage)
<1>1. /\ Null \in Items /\ Stray \in Items /\ << >> \in Seq(Items)
      /\ \A x \in Items : << x >> \in Seq(Items)
  BY ObservableAssumption DEF Null, Items
<1>2. items # << >> => Last(items) \in Items
  BY DEF Last
<1>3. CASE stage.op = "last"
  <2>1. PICK o : Apply(stage, ctx, items, isReady) = Result(o, ctx)
                 /\ o = IF items = << >> THEN << Null >>
                        ELSE IF Last(items) # Done THEN << Last(items) >>
                        ELSE IF Len(items) = 1 THEN << Stray >>
                        ELSE << items[Len(items) - 1] >>
    BY <1>3 DEF Apply, LastApply
  <2>2. items # << >> /\ Len(items) # 1 => items[Len(items) - 1] \in Items
    <3>1. ASSUME items # << >>, Len(items) # 1
          PROVE  Len(items) - 1 \in 1..Len(items)
      <4>1. Len(items) # 0
        BY <3>1
      <4>2. PICK n \in Nat : n = Len(items)
        OBVIOUS
      <4>3. n # 0 /\ n # 1
        BY <3>1, <4>1, <4>2
      <4>4. n - 1 \in 1..n
        BY <4>3
      <4>5. QED
        BY <4>2, <4>4
    <3>2. QED
      BY <3>1
  <2>3. o \in Seq(Items)
    BY <1>1, <1>2, <2>1, <2>2
  <2>4. QED
    BY <2>1, <2>3 DEF Gives
<1>4. CASE stage.op = "buffer"
  <2>1. ctx \in Seq(Items)
    BY <1>4 DEF ContextOK
  <2>2. ctx \o items \in Seq(Items)
    BY <2>1
  <2>3. Apply(stage, ctx, items, isReady)
          = IF isReady THEN Result(ctx \o items, << >>)
            ELSE Result(<< >>, ctx \o items)
    BY <1>4 DEF Apply, BufferApply
  <2>4. \A c \in Seq(Items) : ContextOK(stage, c)
    BY <1>4 DEF ContextOK
  <2>5. QED
    BY <1>1, <2>2, <2>3, <2>4 DEF Gives
<1>5. CASE stage.op = "throttleTime"
  <2>1. ctx \in Items
    BY <1>5 DEF ContextOK
  <2>2. Apply(stage, ctx, items, isReady)
          = IF isReady THEN Result(IF ctx = Null THEN << >> ELSE << ctx >>, Null)
            ELSE Result(<< >>, IF items = << >> THEN ctx ELSE Last(items))
    BY <1>5 DEF Apply, ThrottleTimeApply
  <2>3. \A c \in Items : ContextOK(stage, c)
    BY <1>5 DEF ContextOK
  <2>4. CASE isReady
    BY <1>1, <2>1, <2>2, <2>3, <2>4 DEF Gives
  <2>5. CASE ~isReady
    BY <1>1, <1>2, <2>1, <2>2, <2>3, <2>5 DEF Gives
  <2>6. QED
    BY <2>4, <2>5
<1>6. QED
  BY <1>3, <1>4, <1>5

LEMMA ApplyType ==
  ASSUME AccumReturns, NEW stage \in Stages, Returns(stage),
         NEW ctx, ContextOK(stage, ctx), NEW items \in Seq(Items), NEW isReady
  PROVE  Gives(Apply(stage, ctx, items, isReady), stage)
<1>1. stage.op \in Operations
  BY DEF Stages
<1>2. CASE stage.op \in {"map", "mapTo", "takeUntil", "first"}
  <2>1. ctx \in Items
    BY <1>2 DEF ContextOK
  <2>2. QED
    BY <1>2, <2>1, ItemwiseType
<1>3. CASE stage.op \in {"filter", "distinct", "distinctUntilChanged",
                         "scan", "scanfrom", "reduce"}
  BY <1>3, FoldingType
<1>4. CASE stage.op \in {"skipUntil", "take", "skip", "takeWhile", "skipWhile"}
  BY <1>4, CountingType
<1>5. CASE stage.op \in {"last", "buffer", "throttleTime"}
  BY <1>5, HoldingType
<1>6. QED
  BY <1>1, <1>2, <1>3, <1>4, <1>5 DEF Operations

-----------------------------------------------------------------------------
(* The constructor of each Query allocates a context of the right kind.    *)
LEMMA NewContextOK ==
  ASSUME NEW stage \in Stages
  PROVE  ContextOK(stage, NewContext(stage))
<1>1. stage.arg \in Items /\ 0 \in Items
  BY DEF Stages, Items
<1>2. CASE stage.op \in {"skipWhile", "skipUntil"}
  BY <1>2 DEF ContextOK, NewContext
<1>3. CASE stage.op = "distinct"
  BY <1>3 DEF ContextOK, NewContext
<1>4. CASE stage.op = "buffer"
  <2>1. << >> \in Seq(Items)
    OBVIOUS
  <2>2. QED
    BY <1>4, <2>1 DEF ContextOK, NewContext
<1>5. CASE stage.op \in {"take", "skip"}
  BY <1>5 DEF ContextOK, NewContext
<1>6. CASE stage.op = "scanfrom"
  BY <1>1, <1>6 DEF ContextOK, NewContext
<1>7. CASE stage.op \notin {"skipWhile", "skipUntil", "distinct", "buffer",
                            "take", "skip", "scanfrom"}
  BY <1>1, <1>7 DEF ContextOK, NewContext
<1>8. QED
  BY <1>2, <1>3, <1>4, <1>5, <1>6, <1>7

(* The contexts of a chain, one of the right kind for every stage.         *)
Batches == Seq(Items)
Contexts == UNION {Items, BOOLEAN, SUBSET Items, Batches}

CtxsOf(c) ==
  {x \in [DOMAIN c -> Contexts] : \A i \in DOMAIN c : ContextOK(c[i], x[i])}

(* A chain whose callbacks return items.                                   *)
Callbacks(c) == \A i \in DOMAIN c : Returns(c[i])

LEMMA ContextIsOne ==
  ASSUME NEW stage, NEW x, ContextOK(stage, x)
  PROVE  x \in Contexts
<1>1. CASE stage.op \in {"skipWhile", "skipUntil"}
  <2>1. x \in BOOLEAN
    BY <1>1 DEF ContextOK
  <2>2. QED
    BY <2>1, Zenon DEF Contexts
<1>2. CASE stage.op = "distinct"
  BY <1>2 DEF ContextOK, Contexts
<1>3. CASE stage.op = "buffer"
  <2>1. x \in Seq(Items)
    BY <1>3 DEF ContextOK
  <2>2. x \in Batches
    BY <2>1 DEF Batches
  <2>3. QED
    BY <2>2 DEF Contexts
<1>4. CASE stage.op \in {"take", "skip"}
  BY <1>4 DEF ContextOK, Contexts, Items
<1>5. CASE stage.op \notin {"skipWhile", "skipUntil", "distinct", "buffer",
                            "take", "skip"}
  BY <1>5 DEF ContextOK, Contexts
<1>6. QED
  BY <1>1, <1>2, <1>3, <1>4, <1>5

LEMMA CtxsUpdate ==
  ASSUME NEW c, NEW x \in CtxsOf(c), NEW i \in DOMAIN c, NEW y,
         ContextOK(c[i], y)
  PROVE  [x EXCEPT ![i] = y] \in CtxsOf(c)
<1>1. y \in Contexts
  BY ContextIsOne
<1>2. x \in [DOMAIN c -> Contexts] /\ \A j \in DOMAIN c : ContextOK(c[j], x[j])
  BY DEF CtxsOf
<1>3. [x EXCEPT ![i] = y] \in [DOMAIN c -> Contexts]
  BY <1>1, <1>2
<1>4. \A j \in DOMAIN c : ContextOK(c[j], [x EXCEPT ![i] = y][j])
  <2>1. ASSUME NEW j \in DOMAIN c
        PROVE  ContextOK(c[j], [x EXCEPT ![i] = y][j])
    <3>1. CASE j = i
      <4>1. [x EXCEPT ![i] = y][j] = y
        BY <1>2, <3>1
      <4>2. QED
        BY <3>1, <4>1
    <3>2. CASE j # i
      <4>1. [x EXCEPT ![i] = y][j] = x[j]
        BY <1>2, <3>2
      <4>2. QED
        BY <1>2, <4>1
    <3>3. QED
      BY <3>1, <3>2
  <2>2. QED
    BY <2>1
<1>5. QED
  BY <1>3, <1>4 DEF CtxsOf

-----------------------------------------------------------------------------
(* The generic path is a fold over the chain's positions.                  *)
Outcomes(c) == [out : Seq(Items), ctx : CtxsOf(c)]

Through(c, isReady) ==
  [p \in Outcomes(c) \X DOMAIN c |->
     LET s == Apply(c[p[2]], p[1].ctx[p[2]], p[1].out, isReady)
     IN  Result(s.out, [p[1].ctx EXCEPT ![p[2]] = s.ctx])]

Positions(c) == [i \in DOMAIN c |-> i]

LEMMA OutcomeType ==
  ASSUME NEW c, NEW o \in Seq(Items), NEW x \in CtxsOf(c)
  PROVE  /\ Result(o, x) \in Outcomes(c)
         /\ Result(o, x).out = o /\ Result(o, x).ctx = x
BY DEF Outcomes, Result

LEMMA ThroughType ==
  ASSUME AccumReturns, NEW c \in Seq(Stages), Callbacks(c), NEW isReady
  PROVE  Through(c, isReady) \in [Outcomes(c) \X DOMAIN c -> Outcomes(c)]
<1>1. ASSUME NEW r \in Outcomes(c), NEW i \in DOMAIN c
      PROVE  LET s == Apply(c[i], r.ctx[i], r.out, isReady)
             IN  Result(s.out, [r.ctx EXCEPT ![i] = s.ctx]) \in Outcomes(c)
  <2>1. r.out \in Seq(Items) /\ r.ctx \in CtxsOf(c)
    BY DEF Outcomes
  <2>2. c[i] \in Stages /\ Returns(c[i]) /\ ContextOK(c[i], r.ctx[i])
    BY <2>1 DEF Callbacks, CtxsOf
  <2>3. PICK o \in Seq(Items) : \E x :
          /\ Apply(c[i], r.ctx[i], r.out, isReady) = Result(o, x)
          /\ ContextOK(c[i], x)
    BY <2>1, <2>2, ApplyType DEF Gives
  <2>4. PICK x : /\ Apply(c[i], r.ctx[i], r.out, isReady) = Result(o, x)
                 /\ ContextOK(c[i], x)
    BY <2>3
  <2>5. [r.ctx EXCEPT ![i] = x] \in CtxsOf(c)
    BY <2>1, <2>4, CtxsUpdate
  <2>6. Result(o, x).out = o /\ Result(o, x).ctx = x
    BY DEF Result
  <2>7. QED
    BY <2>4, <2>5, <2>6, OutcomeType
<1>2. QED
  BY <1>1 DEF Through

LEMMA PositionsType ==
  ASSUME NEW S, NEW c \in Seq(S)
  PROVE  Positions(c) \in Seq(DOMAIN c) /\ Len(Positions(c)) = Len(c)
BY DEF Positions

(* pop_all's generic path.                                                 *)
LEMMA GenericIsFold ==
  ASSUME AccumReturns, NEW c \in Seq(Stages), Callbacks(c),
         NEW x0 \in CtxsOf(c), NEW items \in Seq(Items), NEW isReady
  PROVE  GenericBatch(c, x0, items, isReady)
           = FoldOf(Outcomes(c), Through(c, isReady), Result(items, x0), Positions(c))
<1> DEFINE V == Outcomes(c)
           W == DOMAIN c
           f == Through(c, isReady)
           base == Result(items, x0)
           seq == Positions(c)
           next(a, x) == LET s == Apply(c[x], a.ctx[x], a.out, isReady)
                         IN  Result(s.out, [a.ctx EXCEPT ![x] = s.ctx])
           Is(w) == w = [s \in SUBSET (DOMAIN seq) |->
                           IF s = {} THEN base
                           ELSE next(w[s \ {Max(s)}], seq[Max(s)])]
           it == CHOOSE w : Is(w)
<1>1. GenericBatch(c, x0, items, isReady) = it[DOMAIN seq]
  BY DEF GenericBatch, FoldLeftDomain, FoldLeft, MapThenFoldSet, Positions
<1>2. Folding(V, W, f, base, seq)
  BY OutcomeType, ThroughType, PositionsType DEF Folding
<1>3. \A a \in V, x \in W : f[<< a, x >>] = next(a, x)
  BY DEF Through
<1> HIDE DEF V, W, f, base, seq, next
<1>4. DOMAIN seq = 1..Len(seq) /\ Len(seq) \in Nat
  BY <1>2 DEF Folding
<1>5. Is(it)
  <2>1. PICK w : Taken(w, V, W, f, base, seq)
    BY <1>2, TakenExists
  <2>2. Is(w)
    BY <1>3, <2>1 DEF Taken
  <2>3. QED
    BY <2>2
<1> HIDE DEF it
<1>6. it[{}] = base
  BY <1>5
<1>7. ASSUME NEW k \in 1..Len(seq), it[1..(k - 1)] \in V
      PROVE  it[1..k] = f[<< it[1..(k - 1)], seq[k] >>]
  <2>1. it[1..k] = next(it[1..(k - 1)], seq[k])
    <3>1. k \in Nat \ {0} /\ 1..k \in SUBSET (DOMAIN seq)
      BY <1>4
    <3>2. Max(1..k) = k /\ (1..k) \ {k} = 1..(k - 1) /\ 1..k # {}
      BY <3>1, GreatestOfInterval
    <3>3. QED
      BY <3>1, <3>2, <1>5
  <2>2. seq[k] \in W
    BY <1>2 DEF Folding
  <2>3. QED
    BY <2>1, <2>2, <1>3, <1>7
<1>8. it[DOMAIN seq] = FoldOf(V, f, base, seq)
  <2>1. TakesUp(it, V, f, base, seq)
    BY <1>6, <1>7 DEF TakesUp
  <2>2. QED
    BY <1>2, <2>1, IterationIsFold
<1>9. QED
  BY <1>1, <1>8 DEF V, f, base, seq

LEMMA GenericType ==
  ASSUME AccumReturns, NEW c \in Seq(Stages), Callbacks(c),
         NEW x0 \in CtxsOf(c), NEW items \in Seq(Items), NEW isReady
  PROVE  GenericBatch(c, x0, items, isReady) \in Outcomes(c)
<1>1. Folding(Outcomes(c), DOMAIN c, Through(c, isReady), Result(items, x0),
              Positions(c))
  BY OutcomeType, ThroughType, PositionsType DEF Folding
<1>2. QED
  BY <1>1, FoldOfType, GenericIsFold

-----------------------------------------------------------------------------
(* The compiled pipeline: stages that stand for one Query, or for a run of *)
(* maps.                                                                   *)
MapArgs(c) == {c[i].arg : i \in {j \in DOMAIN c : c[j].op = "map"}}

CompiledStages(c) ==
  {s \in [kind : Operations \union {"mapChain"}, at : DOMAIN c,
          funcs : Seq(MapArgs(c))] :
     s.kind = "mapChain" \/ s.kind = c[s.at].op}

Joined(c) ==
  [p \in Seq(CompiledStages(c)) \X DOMAIN c |->
     IF p[1] # << >> /\ c[p[2]].op = "map" /\ c[p[2] - 1].op = "map"
     THEN Append(Front(p[1]),
                 [Last(p[1]) EXCEPT !.kind = "mapChain",
                                    !.funcs = Append(@, c[p[2]].arg)])
     ELSE Append(p[1], CompiledStage(c, p[2]))]

LEMMA LastAndFront ==
  ASSUME NEW S, NEW s \in Seq(S), s # << >>
  PROVE  Last(s) \in S /\ Front(s) \in Seq(S) /\ Len(Front(s)) = Len(s) - 1
         /\ s = Append(Front(s), Last(s))
<1>1. PICK n \in Nat : n = Len(s) /\ n # 0
  OBVIOUS
<1>2. Last(s) \in S
  BY <1>1 DEF Last
<1>3. Front(s) \in Seq(S) /\ Len(Front(s)) = n - 1
      /\ \A i \in 1..(n - 1) : Front(s)[i] = s[i]
  BY <1>1, SubSeqProperties DEF Front
<1>4. s = Append(Front(s), Last(s))
  <2>1. /\ Append(Front(s), Last(s)) \in Seq(S)
        /\ Len(Append(Front(s), Last(s))) = n
        /\ \A i \in 1..(n - 1) : Append(Front(s), Last(s))[i] = s[i]
        /\ Append(Front(s), Last(s))[n] = Last(s)
    BY <1>1, <1>2, <1>3
  <2>2. Last(s) = s[n]
    BY <1>1 DEF Last
  <2>3. \A i \in 1..n : s[i] = Append(Front(s), Last(s))[i]
    <3>1. ASSUME NEW i \in 1..n
          PROVE  s[i] = Append(Front(s), Last(s))[i]
      <4>1. i = n \/ i \in 1..(n - 1)
        BY <1>1
      <4>2. QED
        BY <4>1, <2>1, <2>2
    <3>2. QED
      BY <3>1
  <2>4. QED
    BY <1>1, <2>1, <2>3, SeqEqual
<1>5. QED
  BY <1>1, <1>2, <1>3, <1>4

LEMMA CompiledStageType ==
  ASSUME NEW c \in Seq(Stages), NEW i \in DOMAIN c
  PROVE  /\ CompiledStage(c, i) \in CompiledStages(c)
         /\ c[i].op = "map" => c[i].arg \in MapArgs(c)
<1>1. c[i] \in Stages /\ c[i].op \in Operations
  <2>1. c[i] \in Stages
    OBVIOUS
  <2>2. QED
    BY <2>1 DEF Stages
<1>2. c[i].op = "map" => c[i].arg \in MapArgs(c)
  BY DEF MapArgs
<1>3. << >> \in Seq(MapArgs(c))
  OBVIOUS
<1>4. c[i].op = "map" => << c[i].arg >> \in Seq(MapArgs(c))
  BY <1>2
<1>5. QED
  BY <1>1, <1>2, <1>3, <1>4 DEF CompiledStage, CompiledStages

LEMMA ChainedStage ==
  ASSUME NEW l, l = [kind |-> l.kind, at |-> l.at, funcs |-> l.funcs], NEW x
  PROVE  [l EXCEPT !.kind = "mapChain", !.funcs = Append(@, x)]
           = [kind |-> "mapChain", at |-> l.at, funcs |-> Append(l.funcs, x)]
<1>1. PICK k, a, f : l = [kind |-> k, at |-> a, funcs |-> f]
  OBVIOUS
<1>2. /\ [l EXCEPT !.kind = "mapChain"]
           = [kind |-> "mapChain", at |-> a, funcs |-> f]
      /\ l.at = a /\ l.funcs = f
  BY <1>1
<1>3. [[l EXCEPT !.kind = "mapChain"] EXCEPT !.funcs = Append(@, x)]
        = [kind |-> "mapChain", at |-> a, funcs |-> Append(f, x)]
  <2>1. [[kind |-> "mapChain", at |-> a, funcs |-> f]
            EXCEPT !.funcs = Append(@, x)]
          = [kind |-> "mapChain", at |-> a, funcs |-> Append(f, x)]
    BY SMTT(30)
  <2>2. QED
    BY <1>2, <2>1, Zenon
<1>4. [l EXCEPT !.kind = "mapChain", !.funcs = Append(@, x)]
        = [[l EXCEPT !.kind = "mapChain"] EXCEPT !.funcs = Append(@, x)]
  OBVIOUS
<1>5. QED
  BY <1>2, <1>3, <1>4

LEMMA JoinedType ==
  ASSUME NEW c \in Seq(Stages)
  PROVE  Joined(c) \in [Seq(CompiledStages(c)) \X DOMAIN c
                         -> Seq(CompiledStages(c))]
<1>1. ASSUME NEW s \in Seq(CompiledStages(c)), NEW i \in DOMAIN c
      PROVE  (IF s # << >> /\ c[i].op = "map" /\ c[i - 1].op = "map"
              THEN Append(Front(s),
                          [Last(s) EXCEPT !.kind = "mapChain",
                                          !.funcs = Append(@, c[i].arg)])
              ELSE Append(s, CompiledStage(c, i))) \in Seq(CompiledStages(c))
  <2>1. Append(s, CompiledStage(c, i)) \in Seq(CompiledStages(c))
    BY CompiledStageType
  <2>2. ASSUME s # << >>, c[i].op = "map"
        PROVE  Append(Front(s), [Last(s) EXCEPT !.kind = "mapChain",
                                            !.funcs = Append(@, c[i].arg)])
                 \in Seq(CompiledStages(c))
    <3>1. PICK l \in CompiledStages(c) : l = Last(s)
      BY <2>2, LastAndFront
    <3>2. Front(s) \in Seq(CompiledStages(c))
      BY <2>2, LastAndFront
    <3>3. Append(l.funcs, c[i].arg) \in Seq(MapArgs(c))
      <4>1. l.funcs \in Seq(MapArgs(c))
        BY DEF CompiledStages
      <4>2. c[i].arg \in MapArgs(c)
        BY <2>2, CompiledStageType
      <4>3. QED
        BY <4>1, <4>2
    <3>4. [l EXCEPT !.kind = "mapChain", !.funcs = Append(@, c[i].arg)]
            = [kind |-> "mapChain", at |-> l.at,
               funcs |-> Append(l.funcs, c[i].arg)]
      <4>1. l \in [kind : Operations \union {"mapChain"}, at : DOMAIN c,
                   funcs : Seq(MapArgs(c))]
        BY DEF CompiledStages
      <4>2. l = [kind |-> l.kind, at |-> l.at, funcs |-> l.funcs]
        BY <4>1
      <4>3. QED
        BY <4>2, ChainedStage
    <3>5. [l EXCEPT !.kind = "mapChain", !.funcs = Append(@, c[i].arg)]
            \in CompiledStages(c)
      BY <3>3, <3>4 DEF CompiledStages
    <3>6. QED
      BY <3>1, <3>2, <3>5
  <2>3. QED
    BY <2>1, <2>2
<1>2. QED
  BY <1>1 DEF Joined

(* compile_chain.                                                          *)
LEMMA CompileIsFold ==
  ASSUME NEW c \in Seq(Stages)
  PROVE  Compile(c)
           = FoldOf(Seq(CompiledStages(c)), Joined(c), << >>, Positions(c))
<1> DEFINE V == Seq(CompiledStages(c))
           W == DOMAIN c
           f == Joined(c)
           base == << >>
           seq == Positions(c)
           next(a, x) == IF a # << >> /\ c[x].op = "map" /\ c[x - 1].op = "map"
                         THEN Append(Front(a),
                                [Last(a) EXCEPT !.kind = "mapChain",
                                                !.funcs = Append(@, c[x].arg)])
                         ELSE Append(a, CompiledStage(c, x))
           Is(w) == w = [s \in SUBSET (DOMAIN seq) |->
                           IF s = {} THEN base
                           ELSE next(w[s \ {Max(s)}], seq[Max(s)])]
           it == CHOOSE w : Is(w)
<1>1. Compile(c) = it[DOMAIN seq]
  BY DEF Compile, FoldLeftDomain, FoldLeft, MapThenFoldSet, Positions
<1>2. Folding(V, W, f, base, seq)
  <2>1. << >> \in V
    OBVIOUS
  <2>2. QED
    BY <2>1, JoinedType, PositionsType DEF Folding
<1>3. \A a \in V, x \in W : f[<< a, x >>] = next(a, x)
  BY DEF Joined
<1> HIDE DEF V, W, f, base, seq, next
<1>4. DOMAIN seq = 1..Len(seq) /\ Len(seq) \in Nat
  BY <1>2 DEF Folding
<1>5. Is(it)
  <2>1. PICK w : Taken(w, V, W, f, base, seq)
    BY <1>2, TakenExists
  <2>2. Is(w)
    BY <1>3, <2>1 DEF Taken
  <2>3. QED
    BY <2>2
<1> HIDE DEF it
<1>6. it[{}] = base
  BY <1>5
<1>7. ASSUME NEW k \in 1..Len(seq), it[1..(k - 1)] \in V
      PROVE  it[1..k] = f[<< it[1..(k - 1)], seq[k] >>]
  <2>1. it[1..k] = next(it[1..(k - 1)], seq[k])
    <3>1. k \in Nat \ {0} /\ 1..k \in SUBSET (DOMAIN seq)
      BY <1>4
    <3>2. Max(1..k) = k /\ (1..k) \ {k} = 1..(k - 1) /\ 1..k # {}
      BY <3>1, GreatestOfInterval
    <3>3. QED
      BY <3>1, <3>2, <1>5
  <2>2. seq[k] \in W
    BY <1>2 DEF Folding
  <2>3. QED
    BY <2>1, <2>2, <1>3, <1>7
<1>8. it[DOMAIN seq] = FoldOf(V, f, base, seq)
  <2>1. TakesUp(it, V, f, base, seq)
    BY <1>6, <1>7 DEF TakesUp
  <2>2. QED
    BY <1>2, <2>1, IterationIsFold
<1>9. QED
  BY <1>1, <1>8 DEF V, f, base, seq

LEMMA CompileType ==
  ASSUME NEW c \in Seq(Stages)
  PROVE  Compile(c) \in Seq(CompiledStages(c))
<1>1. << >> \in Seq(CompiledStages(c))
  OBVIOUS
<1>2. Folding(Seq(CompiledStages(c)), DOMAIN c, Joined(c), << >>, Positions(c))
  BY <1>1, JoinedType, PositionsType DEF Folding
<1>3. QED
  BY <1>2, FoldOfType, CompileIsFold

-----------------------------------------------------------------------------
(* The streaming path: the state of the loops of                           *)
(* pop_all_streaming_compiled.                                             *)
States(c) ==
  [out : Seq(Items), ctxs : CtxsOf(c), value : Items, keep : BOOLEAN,
   reduced : Seq(Items), last : Seq(Items)]

StreamedStages(c) == {s \in CompiledStages(c) : s.kind \in StreamableKinds}

Mapped(c) == [p \in Items \X MapArgs(c) |-> Mapper(p[2], p[1])]

LEMMA MappedType ==
  ASSUME NEW c \in Seq(Stages), Callbacks(c)
  PROVE  Mapped(c) \in [Items \X MapArgs(c) -> Items]
<1>1. ASSUME NEW v \in Items, NEW a \in MapArgs(c)
      PROVE  Mapper(a, v) \in Items
  BY DEF MapArgs, Callbacks, Returns
<1>2. QED
  BY <1>1 DEF Mapped

(* A run of maps calls one mapper after the other.                         *)
LEMMA MapperIsFold ==
  ASSUME NEW c \in Seq(Stages), Callbacks(c),
         NEW start \in Items, NEW funcs \in Seq(MapArgs(c))
  PROVE  FoldLeft(LAMBDA v, g : Mapper(g, v), start, funcs)
           = FoldOf(Items, Mapped(c), start, funcs)
<1> DEFINE V == Items
           W == MapArgs(c)
           f == Mapped(c)
           base == start
           seq == funcs
           next(a, x) == Mapper(x, a)
           Is(w) == w = [s \in SUBSET (DOMAIN seq) |->
                           IF s = {} THEN base
                           ELSE next(w[s \ {Max(s)}], seq[Max(s)])]
           it == CHOOSE w : Is(w)
<1>1. FoldLeft(LAMBDA v, g : Mapper(g, v), start, funcs) = it[DOMAIN seq]
  BY DEF FoldLeft, MapThenFoldSet
<1>2. Folding(V, W, f, base, seq)
  BY MappedType DEF Folding
<1>3. \A a \in V, x \in W : f[<< a, x >>] = next(a, x)
  BY DEF Mapped
<1> HIDE DEF V, W, f, base, seq, next
<1>4. DOMAIN seq = 1..Len(seq) /\ Len(seq) \in Nat
  BY <1>2 DEF Folding
<1>5. Is(it)
  <2>1. PICK w : Taken(w, V, W, f, base, seq)
    BY <1>2, TakenExists
  <2>2. Is(w)
    BY <1>3, <2>1 DEF Taken
  <2>3. QED
    BY <2>2
<1> HIDE DEF it
<1>6. it[{}] = base
  BY <1>5
<1>7. ASSUME NEW k \in 1..Len(seq), it[1..(k - 1)] \in V
      PROVE  it[1..k] = f[<< it[1..(k - 1)], seq[k] >>]
  <2>1. it[1..k] = next(it[1..(k - 1)], seq[k])
    <3>1. k \in Nat \ {0} /\ 1..k \in SUBSET (DOMAIN seq)
      BY <1>4
    <3>2. Max(1..k) = k /\ (1..k) \ {k} = 1..(k - 1) /\ 1..k # {}
      BY <3>1, GreatestOfInterval
    <3>3. QED
      BY <3>1, <3>2, <1>5
  <2>2. seq[k] \in W
    BY <1>2 DEF Folding
  <2>3. QED
    BY <2>1, <2>2, <1>3, <1>7
<1>8. it[DOMAIN seq] = FoldOf(V, f, base, seq)
  <2>1. TakesUp(it, V, f, base, seq)
    BY <1>6, <1>7 DEF TakesUp
  <2>2. QED
    BY <1>2, <2>1, IterationIsFold
<1>9. QED
  BY <1>1, <1>8 DEF V, f, base, seq

(* Setting a field of the state.                                           *)
LEMMA StateUpdate ==
  ASSUME NEW c, NEW st \in States(c)
  PROVE  /\ \A v \in Items : [st EXCEPT !.value = v] \in States(c)
         /\ \A b \in BOOLEAN : [st EXCEPT !.keep = b] \in States(c)
         /\ \A s \in Seq(Items) : /\ [st EXCEPT !.out = s] \in States(c)
                                 /\ [st EXCEPT !.reduced = s] \in States(c)
                                 /\ [st EXCEPT !.last = s] \in States(c)
         /\ \A x \in CtxsOf(c) : [st EXCEPT !.ctxs = x] \in States(c)
BY DEF States

LEMMA StreamStageType ==
  ASSUME AccumReturns, NEW c \in Seq(Stages), Callbacks(c),
         NEW st \in States(c), NEW stage \in StreamedStages(c)
  PROVE  StreamStage(c, st, stage) \in States(c)
<1> DEFINE drop == [st EXCEPT !.keep = FALSE]
           arg == c[stage.at].arg
           ctx == st.ctxs[stage.at]
           remember(y) == [st EXCEPT !.ctxs[stage.at] = y]
<1>1. /\ stage.at \in DOMAIN c /\ stage.funcs \in Seq(MapArgs(c))
      /\ stage.kind \in StreamableKinds
      /\ stage.kind = "mapChain" \/ stage.kind = c[stage.at].op
  BY DEF StreamedStages, CompiledStages
<1>2. /\ st.value \in Items /\ st.ctxs \in CtxsOf(c)
      /\ st.reduced \in Seq(Items)
  BY DEF States
<1>3. /\ Returns(c[stage.at]) /\ ContextOK(c[stage.at], ctx)
      /\ arg \in Items
  <2>1. Returns(c[stage.at]) /\ ContextOK(c[stage.at], ctx)
    BY <1>1, <1>2 DEF Callbacks, CtxsOf
  <2>2. c[stage.at] \in Stages
    BY <1>1
  <2>3. QED
    BY <2>1, <2>2 DEF Stages
<1>4. drop \in States(c)
  BY StateUpdate
<1>5. ASSUME NEW y, ContextOK(c[stage.at], y)
      PROVE  remember(y) \in States(c)
  <2>1. [st.ctxs EXCEPT ![stage.at] = y] \in CtxsOf(c)
    BY <1>1, <1>2, <1>5, CtxsUpdate
  <2>2. [st EXCEPT !.ctxs = [st.ctxs EXCEPT ![stage.at] = y]] \in States(c)
    BY <2>1, StateUpdate
  <2>3. remember(y) = [st EXCEPT !.ctxs = [st.ctxs EXCEPT ![stage.at] = y]]
    OBVIOUS
  <2>4. QED
    BY <2>2, <2>3
<1>6. CASE stage.kind \in {"map", "mapChain"}
  <2>1. PICK v \in Items :
          v = FoldLeft(LAMBDA u, g : Mapper(g, u), st.value, stage.funcs)
    <3>1. Folding(Items, MapArgs(c), Mapped(c), st.value, stage.funcs)
      BY <1>1, <1>2, MappedType DEF Folding
    <3>2. QED
      BY <1>1, <1>2, <3>1, FoldOfType, MapperIsFold
  <2>2. StreamStage(c, st, stage) = [st EXCEPT !.value = v]
    BY <1>6, <2>1 DEF StreamStage
  <2>3. QED
    BY <2>2, StateUpdate
<1>7. CASE stage.kind = "filter"
  <2>1. StreamStage(c, st, stage) = IF Pred(arg, st.value) THEN st ELSE drop
    BY <1>7 DEF StreamStage
  <2>2. QED
    BY <2>1, <1>4
<1>8. CASE stage.kind = "reduce"
  <2> DEFINE a == IF st.reduced = << >> THEN Null ELSE st.reduced[1]
  <2>1. a \in Items
    <3>1. Null \in Items
      BY DEF Null, Items
    <3>2. QED
      BY <1>2, <3>1
  <2>2. Accum(a, st.value) \in Items
    BY <1>2, <2>1 DEF AccumReturns
  <2>3. << Accum(a, st.value) >> \in Seq(Items)
    BY <2>2
  <2>4. StreamStage(c, st, stage)
          = [drop EXCEPT !.reduced =
               << Accum(IF @ = << >> THEN Null ELSE @[1], st.value) >>]
    BY <1>8 DEF StreamStage
  <2>5. drop.reduced = st.reduced
    BY DEF States
  <2>6. StreamStage(c, st, stage)
          = [drop EXCEPT !.reduced = << Accum(a, st.value) >>]
    BY <2>4, <2>5
  <2> HIDE DEF a
  <2>7. PICK s \in Seq(Items) : s = << Accum(a, st.value) >>
    BY <2>3
  <2>8. PICK d \in States(c) : d = drop
    BY <1>4
  <2>9. StreamStage(c, st, stage) = [d EXCEPT !.reduced = s]
    BY <2>6, <2>7, <2>8
  <2> HIDE DEF drop, arg, ctx, remember
  <2>10. [d EXCEPT !.reduced = s] \in States(c)
    BY StateUpdate
  <2>11. QED
    BY <2>9, <2>10
<1>9. CASE stage.kind \in {"scan", "scanfrom"}
  <2>1. ctx \in Items
    BY <1>1, <1>3, <1>9 DEF ContextOK
  <2>2. PICK y \in Items : y = Accum(ctx, st.value)
    BY <1>2, <2>1 DEF AccumReturns
  <2>3. ContextOK(c[stage.at], y)
    BY <1>1, <1>9 DEF ContextOK
  <2>4. StreamStage(c, st, stage) = [remember(y) EXCEPT !.value = y]
    BY <1>9, <2>2 DEF StreamStage
  <2>5. remember(y) \in States(c)
    BY <1>5, <2>3
  <2> HIDE DEF remember
  <2>6. QED
    BY <2>4, <2>5, StateUpdate
<1>10. CASE stage.kind = "distinctUntilChanged"
  <2>1. PICK y \in Items : y = Key(arg, st.value)
    BY <1>1, <1>2, <1>3, <1>10 DEF Returns
  <2>2. ContextOK(c[stage.at], y)
    BY <1>1, <1>10 DEF ContextOK
  <2>3. StreamStage(c, st, stage) = IF y = ctx THEN drop ELSE remember(y)
    BY <1>10, <2>1 DEF StreamStage
  <2>4. remember(y) \in States(c)
    BY <1>5, <2>2
  <2>5. QED
    BY <1>4, <2>3, <2>4
<1>11. CASE stage.kind = "skipWhile"
  <2>1. ContextOK(c[stage.at], TRUE)
    BY <1>1, <1>11 DEF ContextOK
  <2>2. StreamStage(c, st, stage)
          = IF ~ctx /\ Pred(arg, st.value) THEN drop ELSE remember(TRUE)
    BY <1>11 DEF StreamStage
  <2>3. remember(TRUE) \in States(c)
    BY <1>5, <2>1
  <2>4. QED
    BY <1>4, <2>2, <2>3
<1>12. CASE stage.kind = "last"
  <2>1. << st.value >> \in Seq(Items)
    BY <1>2
  <2>2. StreamStage(c, st, stage) = [drop EXCEPT !.last = << st.value >>]
    BY <1>12 DEF StreamStage
  <2>3. PICK s \in Seq(Items) : s = << st.value >>
    BY <2>1
  <2>4. PICK d \in States(c) : d = drop
    BY <1>4
  <2>5. StreamStage(c, st, stage) = [d EXCEPT !.last = s]
    BY <2>2, <2>3, <2>4
  <2> HIDE DEF drop, arg, ctx, remember
  <2>6. [d EXCEPT !.last = s] \in States(c)
    BY StateUpdate
  <2>7. QED
    BY <2>5, <2>6
<1>13. QED
  BY <1>1, <1>6, <1>7, <1>8, <1>9, <1>10, <1>11, <1>12 DEF StreamableKinds

(* One item goes through the stages until one drops it.                    *)
Passing(c) ==
  [p \in States(c) \X StreamedStages(c) |->
     IF p[1].keep THEN StreamStage(c, p[1], p[2]) ELSE p[1]]

Entering(st, item) == [st EXCEPT !.value = item, !.keep = TRUE]

LEMMA PassingType ==
  ASSUME AccumReturns, NEW c \in Seq(Stages), Callbacks(c)
  PROVE  Passing(c) \in [States(c) \X StreamedStages(c) -> States(c)]
BY StreamStageType DEF Passing

LEMMA EnteringType ==
  ASSUME NEW c, NEW st \in States(c), NEW item \in Items
  PROVE  Entering(st, item) \in States(c)
<1>1. PICK s \in States(c) : s = [st EXCEPT !.value = item]
  BY StateUpdate
<1>2. [s EXCEPT !.keep = TRUE] \in States(c)
  BY StateUpdate
<1>3. [s EXCEPT !.keep = TRUE] = Entering(st, item)
  BY <1>1 DEF Entering
<1>4. QED
  BY <1>2, <1>3

(* The loop over the stages.                                               *)
LEMMA PassingIsFold ==
  ASSUME AccumReturns, NEW c \in Seq(Stages), Callbacks(c),
         NEW st \in States(c), NEW stages \in Seq(StreamedStages(c))
  PROVE  FoldLeft(LAMBDA s, stage :
                    IF s.keep THEN StreamStage(c, s, stage) ELSE s,
                  st, stages)
           = FoldOf(States(c), Passing(c), st, stages)
<1> DEFINE V == States(c)
           W == StreamedStages(c)
           f == Passing(c)
           base == st
           seq == stages
           next(a, x) == IF a.keep THEN StreamStage(c, a, x) ELSE a
           Is(w) == w = [s \in SUBSET (DOMAIN seq) |->
                           IF s = {} THEN base
                           ELSE next(w[s \ {Max(s)}], seq[Max(s)])]
           it == CHOOSE w : Is(w)
<1>1. FoldLeft(LAMBDA s, stage :
                    IF s.keep THEN StreamStage(c, s, stage) ELSE s,
                  st, stages) = it[DOMAIN seq]
  BY DEF FoldLeft, MapThenFoldSet
<1>2. Folding(V, W, f, base, seq)
  BY PassingType DEF Folding
<1>3. \A a \in V, x \in W : f[<< a, x >>] = next(a, x)
  BY DEF Passing
<1> HIDE DEF V, W, f, base, seq, next
<1>4. DOMAIN seq = 1..Len(seq) /\ Len(seq) \in Nat
  BY <1>2 DEF Folding
<1>5. Is(it)
  <2>1. PICK w : Taken(w, V, W, f, base, seq)
    BY <1>2, TakenExists
  <2>2. Is(w)
    BY <1>3, <2>1 DEF Taken
  <2>3. QED
    BY <2>2
<1> HIDE DEF it
<1>6. it[{}] = base
  BY <1>5
<1>7. ASSUME NEW k \in 1..Len(seq), it[1..(k - 1)] \in V
      PROVE  it[1..k] = f[<< it[1..(k - 1)], seq[k] >>]
  <2>1. it[1..k] = next(it[1..(k - 1)], seq[k])
    <3>1. k \in Nat \ {0} /\ 1..k \in SUBSET (DOMAIN seq)
      BY <1>4
    <3>2. Max(1..k) = k /\ (1..k) \ {k} = 1..(k - 1) /\ 1..k # {}
      BY <3>1, GreatestOfInterval
    <3>3. QED
      BY <3>1, <3>2, <1>5
  <2>2. seq[k] \in W
    BY <1>2 DEF Folding
  <2>3. QED
    BY <2>1, <2>2, <1>3, <1>7
<1>8. it[DOMAIN seq] = FoldOf(V, f, base, seq)
  <2>1. TakesUp(it, V, f, base, seq)
    BY <1>6, <1>7 DEF TakesUp
  <2>2. QED
    BY <1>2, <2>1, IterationIsFold
<1>9. QED
  BY <1>1, <1>8 DEF V, f, base, seq

LEMMA StreamItemIs ==
  ASSUME AccumReturns, NEW c \in Seq(Stages), Callbacks(c),
         NEW stages \in Seq(StreamedStages(c)), NEW st \in States(c),
         NEW item \in Items
  PROVE  LET end == FoldOf(States(c), Passing(c), Entering(st, item), stages)
         IN  /\ end \in States(c)
             /\ StreamItem(c, stages, st, item)
                  = IF end.keep THEN [end EXCEPT !.out = Append(@, end.value)]
                    ELSE end
             /\ StreamItem(c, stages, st, item) \in States(c)
<1> DEFINE end == FoldOf(States(c), Passing(c), Entering(st, item), stages)
<1>1. Entering(st, item) \in States(c)
  BY EnteringType
<1>2. Folding(States(c), StreamedStages(c), Passing(c), Entering(st, item),
              stages)
  BY <1>1, PassingType DEF Folding
<1>3. end \in States(c)
  BY <1>2, FoldOfType
<1>4. end = FoldLeft(LAMBDA s, stage :
                       IF s.keep THEN StreamStage(c, s, stage) ELSE s,
                     Entering(st, item), stages)
  BY <1>1, PassingIsFold
<1> HIDE DEF end
<1>5. StreamItem(c, stages, st, item)
        = IF end.keep THEN [end EXCEPT !.out = Append(@, end.value)] ELSE end
  BY <1>4 DEF StreamItem, Entering
<1>6. Append(end.out, end.value) \in Seq(Items)
  BY <1>3 DEF States
<1>7. [end EXCEPT !.out = Append(@, end.value)]
        = [end EXCEPT !.out = Append(end.out, end.value)]
  OBVIOUS
<1>8. [end EXCEPT !.out = Append(end.out, end.value)] \in States(c)
  BY <1>3, <1>6, StateUpdate
<1>9. QED
  BY <1>3, <1>5, <1>7, <1>8 DEF end

(* One item after the other goes through.                                  *)
Streaming(c, stages) ==
  [p \in States(c) \X Items |-> StreamItem(c, stages, p[1], p[2])]

Start(x0) ==
  [out |-> << >>, ctxs |-> x0, value |-> Null, keep |-> TRUE,
   reduced |-> << >>, last |-> << >>]

LEMMA StartType ==
  ASSUME NEW c, NEW x0 \in CtxsOf(c)
  PROVE  Start(x0) \in States(c)
<1>1. Null \in Items /\ << >> \in Seq(Items)
  BY DEF Null, Items
<1>2. QED
  BY <1>1 DEF Start, States

LEMMA StreamingType ==
  ASSUME AccumReturns, NEW c \in Seq(Stages), Callbacks(c),
         NEW stages \in Seq(StreamedStages(c))
  PROVE  Streaming(c, stages) \in [States(c) \X Items -> States(c)]
BY StreamItemIs DEF Streaming

(* The loop over the items.                                                *)
LEMMA StreamingIsFold ==
  ASSUME AccumReturns, NEW c \in Seq(Stages), Callbacks(c),
         NEW stages \in Seq(StreamedStages(c)), NEW st \in States(c),
         NEW items \in Seq(Items)
  PROVE  FoldLeft(LAMBDA s, item : StreamItem(c, stages, s, item), st, items)
           = FoldOf(States(c), Streaming(c, stages), st, items)
<1> DEFINE V == States(c)
           W == Items
           f == Streaming(c, stages)
           base == st
           seq == items
           next(a, x) == StreamItem(c, stages, a, x)
           Is(w) == w = [s \in SUBSET (DOMAIN seq) |->
                           IF s = {} THEN base
                           ELSE next(w[s \ {Max(s)}], seq[Max(s)])]
           it == CHOOSE w : Is(w)
<1>1. FoldLeft(LAMBDA s, item : StreamItem(c, stages, s, item), st, items) = it[DOMAIN seq]
  BY DEF FoldLeft, MapThenFoldSet
<1>2. Folding(V, W, f, base, seq)
  BY StreamingType DEF Folding
<1>3. \A a \in V, x \in W : f[<< a, x >>] = next(a, x)
  BY DEF Streaming
<1> HIDE DEF V, W, f, base, seq, next
<1>4. DOMAIN seq = 1..Len(seq) /\ Len(seq) \in Nat
  BY <1>2 DEF Folding
<1>5. Is(it)
  <2>1. PICK w : Taken(w, V, W, f, base, seq)
    BY <1>2, TakenExists
  <2>2. Is(w)
    BY <1>3, <2>1 DEF Taken
  <2>3. QED
    BY <2>2
<1> HIDE DEF it
<1>6. it[{}] = base
  BY <1>5
<1>7. ASSUME NEW k \in 1..Len(seq), it[1..(k - 1)] \in V
      PROVE  it[1..k] = f[<< it[1..(k - 1)], seq[k] >>]
  <2>1. it[1..k] = next(it[1..(k - 1)], seq[k])
    <3>1. k \in Nat \ {0} /\ 1..k \in SUBSET (DOMAIN seq)
      BY <1>4
    <3>2. Max(1..k) = k /\ (1..k) \ {k} = 1..(k - 1) /\ 1..k # {}
      BY <3>1, GreatestOfInterval
    <3>3. QED
      BY <3>1, <3>2, <1>5
  <2>2. seq[k] \in W
    BY <1>2 DEF Folding
  <2>3. QED
    BY <2>1, <2>2, <1>3, <1>7
<1>8. it[DOMAIN seq] = FoldOf(V, f, base, seq)
  <2>1. TakesUp(it, V, f, base, seq)
    BY <1>6, <1>7 DEF TakesUp
  <2>2. QED
    BY <1>2, <2>1, IterationIsFold
<1>9. QED
  BY <1>1, <1>8 DEF V, f, base, seq

LEMMA StreamBatchIs ==
  ASSUME AccumReturns, NEW c \in Seq(Stages), Callbacks(c),
         NEW stages \in Seq(StreamedStages(c)), NEW x0 \in CtxsOf(c),
         NEW items \in Seq(Items)
  PROVE  LET end == FoldOf(States(c), Streaming(c, stages), Start(x0),
                           UpToDone(items))
         IN  /\ end \in States(c)
             /\ StreamBatch(c, stages, x0, items)
                  = Result(end.out \o (IF end.reduced # << >> THEN end.reduced
                                       ELSE end.last), end.ctxs)
<1> DEFINE d == UpToDone(items)
           end == FoldOf(States(c), Streaming(c, stages), Start(x0), d)
<1>1. d \in Seq(Items) /\ Start(x0) \in States(c)
  BY UpToDoneType, StartType
<1>2. Folding(States(c), Items, Streaming(c, stages), Start(x0), d)
  BY <1>1, StreamingType DEF Folding
<1>3. end \in States(c)
  BY <1>2, FoldOfType
<1>4. end = FoldLeft(LAMBDA s, item : StreamItem(c, stages, s, item),
                     Start(x0), d)
  <2> HIDE DEF d
  <2> QED BY <1>1, StreamingIsFold
<1> HIDE DEF end
<1>5. StreamBatch(c, stages, x0, items)
        = Result(end.out \o (IF end.reduced # << >> THEN end.reduced
                             ELSE end.last), end.ctxs)
  BY <1>4 DEF StreamBatch, Start
<1>6. QED
  BY <1>3, <1>5 DEF end

LEMMA StreamBatchType ==
  ASSUME AccumReturns, NEW c \in Seq(Stages), Callbacks(c),
         NEW stages \in Seq(StreamedStages(c)), NEW x0 \in CtxsOf(c),
         NEW items \in Seq(Items)
  PROVE  StreamBatch(c, stages, x0, items) \in Outcomes(c)
<1>1. PICK end \in States(c) :
        StreamBatch(c, stages, x0, items)
          = Result(end.out \o (IF end.reduced # << >> THEN end.reduced
                               ELSE end.last), end.ctxs)
  BY StreamBatchIs
<1>2. /\ end.out \in Seq(Items) /\ end.reduced \in Seq(Items)
      /\ end.last \in Seq(Items) /\ end.ctxs \in CtxsOf(c)
  BY DEF States
<1>3. end.out \o (IF end.reduced # << >> THEN end.reduced ELSE end.last)
        \in Seq(Items)
  BY <1>2
<1>4. PICK o \in Seq(Items), x \in CtxsOf(c) :
        StreamBatch(c, stages, x0, items) = Result(o, x)
  BY <1>1, <1>2, <1>3
<1>5. QED
  BY <1>4, OutcomeType
=============================================================================
