------------------------------ MODULE Induction ------------------------------
(***************************************************************************)
(* Induction over the natural numbers and definition by recursion, stated  *)
(* of sets and functions, for the other modules of proofs to cite.  They   *)
(* follow from the library's theorem that strict inclusion is well founded *)
(* on finite sets: 0..k is strictly included in 0..n when k < n.           *)
(***************************************************************************)
EXTENDS Integers, FiniteSetTheorems, TLAPS

(* A set of naturals that is not empty has a least element.                *)
LEMMA LeastElement ==
  ASSUME NEW S \in SUBSET Nat, S # {}
  PROVE  \E m \in S : \A k \in S : m <= k
<1> DEFINE T == {0..n : n \in S}
<1>1. IsWellFoundedOn(StrictSubsetOrdering(Nat), FiniteSubsetsOf(Nat))
  BY FS_StrictSubsetOrderingWellFounded, Zenon
<1>2. T \subseteq FiniteSubsetsOf(Nat) /\ T # {}
  <2>1. \A n \in S : (0..n) \in FiniteSubsetsOf(Nat)
    BY FS_Interval DEF FiniteSubsetsOf
  <2>2. QED
    BY <2>1
<1>3. PICK x \in T : \A y \in T : << y, x >> \notin StrictSubsetOrdering(Nat)
  <2> HIDE DEF T
  <2> QED BY <1>1, <1>2, WFMin, Zenon
<1>4. PICK m \in S : x = 0..m
  BY <1>3
<1>5. ASSUME NEW k \in S, k < m
      PROVE  FALSE
  <2>1. (0..k) \subseteq (0..m) /\ (0..k) # (0..m)
    BY <1>5
  <2>2. << 0..k, 0..m >> \in StrictSubsetOrdering(Nat)
    BY <2>1 DEF StrictSubsetOrdering
  <2>3. QED
    BY <1>3, <1>4, <2>2
<1>6. QED
  BY <1>5

(* A bounded set of naturals that is not empty has a greatest element.     *)
LEMMA GreatestElement ==
  ASSUME NEW n \in Nat, NEW S \in SUBSET (0..n), S # {}
  PROVE  \E m \in S : \A k \in S : k <= m
<1> DEFINE T == {n - k : k \in S}
<1>1. T \in SUBSET Nat /\ T # {}
  <2>1. \A k \in S : n - k \in Nat /\ n - k \in T
    OBVIOUS
  <2>2. QED
    BY <2>1
<1>2. PICK t \in T : \A u \in T : t <= u
  <2> HIDE DEF T
  <2> QED BY <1>1, LeastElement
<1>3. PICK m \in S : t = n - m
  BY <1>2
<1>4. \A k \in S : n - m <= n - k
  BY <1>2, <1>3
<1>5. QED
  BY <1>4

(* Induction: a set that holds 0 and with every number the next one holds  *)
(* all naturals.                                                           *)
LEMMA SetInduction ==
  ASSUME NEW S, 0 \in S, \A n \in Nat : n \in S => n + 1 \in S
  PROVE  \A n \in Nat : n \in S
<1>1. SUFFICES ASSUME Nat \ S # {}
               PROVE  FALSE
  OBVIOUS
<1>2. PICK m \in Nat \ S : \A k \in Nat \ S : m <= k
  BY <1>1, LeastElement
<1>3. m # 0 /\ m - 1 \in Nat
  BY <1>2
<1>4. m - 1 \notin Nat \ S
  BY <1>2, <1>3
<1>5. QED
  BY <1>2, <1>3, <1>4

-----------------------------------------------------------------------------
(* The beginning, up to n, of the function defined by recursion from base. *)
Begins(g, n, V, base, step) ==
  /\ g \in [0..n -> V]
  /\ g[0] = base
  /\ \A k \in 1..n : g[k] = step[<< k, g[k - 1] >>]

(* There is a beginning of any length.                                     *)
LEMMA BeginningExists ==
  ASSUME NEW V, NEW base \in V, NEW step \in [(Nat \ {0}) \X V -> V]
  PROVE  \A n \in Nat : \E g : Begins(g, n, V, base, step)
<1> DEFINE S == {n \in Nat : \E g : Begins(g, n, V, base, step)}
<1>1. 0 \in S
  <2>1. Begins([k \in 0..0 |-> base], 0, V, base, step)
    BY DEF Begins
  <2>2. QED
    BY <2>1
<1>2. ASSUME NEW n \in Nat, n \in S
      PROVE  n + 1 \in S
  <2>1. PICK g : Begins(g, n, V, base, step)
    BY <1>2
  <2> DEFINE h == [k \in 0..(n + 1) |->
                     IF k <= n THEN g[k] ELSE step[<< n + 1, g[n] >>]]
  <2>2. g[n] \in V /\ << n + 1, g[n] >> \in (Nat \ {0}) \X V
    BY <2>1 DEF Begins
  <2>3. step[<< n + 1, g[n] >>] \in V
    BY <2>2
  <2>4. h \in [0..(n + 1) -> V]
    BY <2>1, <2>3 DEF Begins
  <2>5. h[0] = base
    BY <2>1 DEF Begins
  <2>6. ASSUME NEW k \in 1..(n + 1)
        PROVE  h[k] = step[<< k, h[k - 1] >>]
    <3>1. CASE k <= n
      BY <2>1, <3>1 DEF Begins
    <3>2. CASE k = n + 1
      BY <3>2
    <3>3. QED
      BY <3>1, <3>2
  <2>7. Begins(h, n + 1, V, base, step)
    <3> HIDE DEF h
    <3> QED BY <2>4, <2>5, <2>6 DEF Begins
  <2>8. QED
    BY <2>7
<1>3. \A n \in Nat : n \in S
  <2> HIDE DEF S
  <2> QED BY <1>1, <1>2, SetInduction
<1>4. QED
  BY <1>3

(* Two beginnings agree where both are defined.                            *)
LEMMA BeginningsAgree ==
  ASSUME NEW V, NEW base, NEW step, NEW m \in Nat, NEW n \in Nat,
         NEW g, Begins(g, m, V, base, step),
         NEW h, Begins(h, n, V, base, step)
  PROVE  \A k \in Nat : k <= m /\ k <= n => g[k] = h[k]
<1> DEFINE S == {k \in Nat : k <= m /\ k <= n => g[k] = h[k]}
<1>1. 0 \in S
  BY DEF Begins
<1>2. ASSUME NEW k \in Nat, k \in S
      PROVE  k + 1 \in S
  <2>1. SUFFICES ASSUME k + 1 <= m, k + 1 <= n
                 PROVE  g[k + 1] = h[k + 1]
    OBVIOUS
  <2>2. g[k] = h[k]
    BY <1>2, <2>1
  <2>3. g[k + 1] = step[<< k + 1, g[k] >>] /\ h[k + 1] = step[<< k + 1, h[k] >>]
    BY <2>1 DEF Begins
  <2>4. QED
    BY <2>2, <2>3
<1>3. \A k \in Nat : k \in S
  <2> HIDE DEF S
  <2> QED BY <1>1, <1>2, SetInduction
<1>4. QED
  BY <1>3

(* The function defined by recursion from base.                            *)
Satisfies(f, V, base, step) ==
  /\ f \in [Nat -> V]
  /\ f[0] = base
  /\ \A n \in Nat \ {0} : f[n] = step[<< n, f[n - 1] >>]

(* There is one, whatever the step.                                        *)
THEOREM Recursion ==
  ASSUME NEW V, NEW base \in V, NEW step \in [(Nat \ {0}) \X V -> V]
  PROVE  \E f : Satisfies(f, V, base, step)
<1> DEFINE part(n) == CHOOSE g : Begins(g, n, V, base, step)
           f == [n \in Nat |-> part(n)[n]]
<1>1. \A n \in Nat : Begins(part(n), n, V, base, step)
  BY BeginningExists
<1> HIDE DEF part
<1>2. f \in [Nat -> V]
  BY <1>1 DEF Begins
<1>3. f[0] = base
  BY <1>1 DEF Begins
<1>4. ASSUME NEW n \in Nat \ {0}
      PROVE  f[n] = step[<< n, f[n - 1] >>]
  <2>1. part(n)[n] = step[<< n, part(n)[n - 1] >>]
    BY <1>1 DEF Begins
  <2>2. n - 1 \in Nat /\ n - 1 <= n
    OBVIOUS
  <2>3. part(n)[n - 1] = part(n - 1)[n - 1]
    BY <1>1, <2>2, BeginningsAgree
  <2>4. QED
    BY <2>1, <2>2, <2>3
<1>5. QED
  <2> HIDE DEF f
  <2> QED BY <1>2, <1>3, <1>4 DEF Satisfies
=============================================================================
