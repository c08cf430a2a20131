--------------------------- MODULE DesktopProofs ---------------------------
(***************************************************************************)
(* Proofs about Desktop, for all seats, outputs, managers, keys, keymaps,  *)
(* buttons, key expressions and compositors.                               *)
(*                                                                         *)
(* The argument, bottom up.  The folds that planning, emitting, releasing  *)
(* and restating are made of go through states that stay in a set each     *)
(* step stays in; with that, what key events, a plan and a keymap leave of *)
(* the keyboard.  Then what each handler of keyboard and pointer leaves,   *)
(* for every outcome of it.  Then the inductive invariant DInv, action by  *)
(* action, and the properties it gives.                                    *)
(***************************************************************************)
EXTENDS Desktop, FiniteSetTheorems, SequenceTheorems, WellFoundedInduction, TLAPS

-----------------------------------------------------------------------------
(* Folds. *)

(* Less-than on the naturals is well founded. *)
LEMMA NatWellFounded == IsWellFoundedOn({ss \in Nat \X Nat : ss[1] < ss[2]}, Nat)
   BY Zenon, NatLessThanWellFounded DEF OpToRel
(* A set of naturals that is not empty has a least element: what the inductions below
   are made of, as each takes a smallest counterexample. *)
LEMMA LeastNat == ASSUME NEW T \in SUBSET Nat, T # {}
    PROVE  \E n \in T : \A m \in T : n <= m
<1>1. PICK n \in T : \A m \in T : ~ (<<m, n>> \in {ss \in Nat \X Nat : ss[1] < ss[2]})
   BY NatWellFounded, WFMin
<1>2. ASSUME NEW m \in T PROVE n <= m
  <2>1. m \in Nat /\ n \in Nat
    OBVIOUS
  <2>2. ~(m < n)
    <3>1. ~ (<<m, n>> \in {ss \in Nat \X Nat : ss[1] < ss[2]})
       BY <1>1
    <3>2. <<m, n>> \in Nat \X Nat /\ <<m,n>>[1] = m /\ <<m,n>>[2] = n
       BY <2>1
    <3> QED BY <3>1, <3>2
  <2> QED BY <2>1, <2>2
<1> QED BY <1>2

(* Recursion over the subsets of a finite set, one chosen element at a time. *)
Iterates(g, S, base, c, F) ==
    \A s \in SUBSET S : g[s] = IF s = {} THEN base ELSE F[c[s]][g[s \ {c[s]}]]

(* Such a recursion has a solution, whatever the choice function: by the size of the
   subsets. *)
LEMMA IterExists ==
    ASSUME NEW S, IsFiniteSet(S), NEW K, NEW base \in K,
           NEW F \in [S -> [K -> K]],
           NEW c \in [(SUBSET S) \ {{}} -> S], \A s \in (SUBSET S) \ {{}} : c[s] \in s
    PROVE  \E g \in [SUBSET S -> K] : Iterates(g, S, base, c, F)
<1> DEFINE Upto(n, g) == \A s \in SUBSET S : Cardinality(s) <= n =>
                g[s] = IF s = {} THEN base ELSE F[c[s]][g[s \ {c[s]}]]
           Bad == {n \in Nat : ~ \E g \in [SUBSET S -> K] : Upto(n, g)}
<1>f. \A s \in SUBSET S : /\ IsFiniteSet(s) /\ Cardinality(s) \in Nat
                          /\ Cardinality(s) <= Cardinality(S)
    BY FS_Subset, FS_CardinalityType
<1>e. \A s \in SUBSET S : Cardinality(s) = 0 <=> s = {}
    BY <1>f, FS_EmptySet
<1>r. \A s \in SUBSET S : s # {} => /\ s \ {c[s]} \in SUBSET S
                                    /\ Cardinality(s \ {c[s]}) = Cardinality(s) - 1
    BY <1>f, FS_RemoveElement
<1>1. Bad = {}
  <2>1. SUFFICES ASSUME Bad # {} PROVE FALSE
    OBVIOUS
  <2>2. PICK n \in Bad : \A m \in Bad : n <= m
    BY <2>1, LeastNat
  <2>3. n # 0
    <3> DEFINE g == [s \in SUBSET S |-> base]
    <3>0. g \in [SUBSET S -> K]
        OBVIOUS
    <3>1. Upto(0, g)
        BY <1>f, <1>e
    <3>2. 0 \notin Bad
        BY <3>0, <3>1
    <3> QED
        BY <3>2
  <2>a. n \in Nat
    OBVIOUS
  <2>4. n - 1 \in Nat /\ n - 1 \notin Bad
    <3> HIDE DEF Bad
    <3>1. n - 1 \in Nat /\ ~(n <= n - 1)
        BY <2>a, <2>3
    <3> QED
        BY <3>1, <2>2
  <2>5. PICK h \in [SUBSET S -> K] : Upto(n - 1, h)
    BY <2>4
  <2> DEFINE g == [s \in SUBSET S |-> IF Cardinality(s) <= n - 1 THEN h[s]
                                      ELSE F[c[s]][h[s \ {c[s]}]]]
  <2>6. g \in [SUBSET S -> K]
    <3>1. \A s \in SUBSET S : ~(Cardinality(s) <= n - 1) => F[c[s]][h[s \ {c[s]}]] \in K
        BY <1>e, <1>r, <2>4
    <3> QED
        BY <3>1
  <2>7. Upto(n, g)
    <3> SUFFICES ASSUME NEW s \in SUBSET S, Cardinality(s) <= n
                 PROVE  g[s] = IF s = {} THEN base ELSE F[c[s]][g[s \ {c[s]}]]
        OBVIOUS
    <3>0. n \in Nat /\ Cardinality(s) \in Nat
        BY <1>f
    <3>1. CASE s = {}
      <4>1. Cardinality(s) <= n - 1
        BY <3>0, <3>1, <1>e, <2>4
      <4> QED
        BY <4>1, <3>1, <2>5
    <3>2. CASE s # {}
      <4>1. s \ {c[s]} \in SUBSET S /\ Cardinality(s \ {c[s]}) = Cardinality(s) - 1
        BY <3>2, <1>r
      <4>2. g[s \ {c[s]}] = h[s \ {c[s]}]
        BY <3>0, <4>1
      <4>3. g[s] = F[c[s]][h[s \ {c[s]}]]
        BY <3>0, <3>2, <2>5
      <4> QED
        BY <3>2, <4>2, <4>3
    <3> QED
        BY <3>1, <3>2
  <2> QED
    BY <2>2, <2>6, <2>7
<1>2. PICK g \in [SUBSET S -> K] : Upto(Cardinality(S), g)
    BY <1>1, <1>f
<1>3. Iterates(g, S, base, c, F)
    BY <1>2, <1>f DEF Iterates
<1> QED
    BY <1>3

(* Induction over the subsets of a finite set. *)
LEMMA SubsetInduction ==
    ASSUME NEW S, IsFiniteSet(S), NEW P \in SUBSET (SUBSET S), {} \in P,
           \A s \in SUBSET S : s # {} /\ (\A x \in s : s \ {x} \in P) => s \in P
    PROVE  S \in P
<1>1. SUFFICES ASSUME S \notin P PROVE FALSE
    OBVIOUS
<1> DEFINE Counts == {Cardinality(s) : s \in (SUBSET S) \ P}
<1>f. \A s \in SUBSET S : IsFiniteSet(s) /\ Cardinality(s) \in Nat
    BY FS_Subset, FS_CardinalityType
<1>2. Counts \in SUBSET Nat /\ Counts # {}
    BY <1>f, <1>1
<1>3. PICK n \in Counts : \A m \in Counts : n <= m
    BY <1>2, LeastNat
<1>4. PICK s \in (SUBSET S) \ P : n = Cardinality(s)
    OBVIOUS
<1>5. s # {}
    OBVIOUS
<1>6. PICK x \in s : s \ {x} \notin P
    BY <1>5, <1>4
<1>7. Cardinality(s \ {x}) = n - 1 /\ n \in Nat
    BY <1>f, <1>4, FS_RemoveElement
<1>8. Cardinality(s \ {x}) \in Counts
    BY <1>6, <1>4
<1>9. n <= n - 1
    <2> HIDE DEF Counts
    <2> QED BY <1>3, <1>7, <1>8
<1> QED
    BY <1>7, <1>9

(* Induction over 0..n. *)
LEMMA RangeInduction ==
    ASSUME NEW n \in Nat, NEW P, 0 \in P, \A i \in 1..n : i - 1 \in P => i \in P
    PROVE  \A i \in 0..n : i \in P
<1>1. SUFFICES ASSUME NEW j \in 0..n, j \notin P PROVE FALSE
    OBVIOUS
<1> DEFINE Bad == (0..n) \ P
<1>2. Bad \in SUBSET Nat /\ j \in Bad
    BY <1>1
<1>3. PICK i \in Bad : \A m \in Bad : i <= m
    BY <1>2, LeastNat
<1>4. i \in 1..n /\ i \notin P
    OBVIOUS
<1>5. i - 1 \in 0..n /\ ~(i <= i - 1)
    BY <1>4
<1>6. i - 1 \in P
    BY <1>5, <1>3
<1> QED
    BY <1>4, <1>6

(* Max of a part of 1..n is in it, and the largest. *)
LEMMA MaxOfPart ==
    ASSUME NEW n \in Nat, NEW s \in SUBSET (1..n), s # {}
    PROVE  Max(s) \in s /\ \A y \in s : Max(s) >= y
<1> DEFINE Gaps == {n - y : y \in s}
<1>a. \A y \in s : y \in 1..n
    OBVIOUS
<1>b. \A y \in s : n - y \in Nat
    BY <1>a
<1>1. Gaps \in SUBSET Nat /\ Gaps # {}
    BY <1>b
<1>2. PICK d \in Gaps : \A m \in Gaps : d <= m
    BY <1>1, LeastNat
<1>3. PICK x \in s : d = n - x
    OBVIOUS
<1>4. \A y \in s : x >= y
    <2> SUFFICES ASSUME NEW y \in s PROVE x >= y
        OBVIOUS
    <2>1. n - x <= n - y
        BY <1>2, <1>3
    <2> QED
        BY <2>1
<1> QED
    BY <1>4 DEF Max

(* And of 1..i it is i. *)
LEMMA MaxOfRange ==
    ASSUME NEW i \in Nat, i # 0
    PROVE  Max(1..i) = i /\ (1..i) \ {i} = 1..(i - 1)
<1>a. i \in 1..i
    OBVIOUS
<1>1. Max(1..i) \in 1..i /\ Max(1..i) >= i
    BY <1>a, MaxOfPart
<1> QED
    BY <1>1

(* What FoldLeft recurses on: the parts of the domain, the last element first. *)
Descends(g, n, base, F) ==
    \A s \in SUBSET (1..n) : g[s] = IF s = {} THEN base ELSE F[Max(s)][g[s \ {Max(s)}]]

(* FoldLeft's recursion over the parts of its domain has a solution. *)
LEMMA LeftIteration ==
    ASSUME NEW n \in Nat, NEW K, NEW base \in K, NEW F \in [1..n -> [K -> K]]
    PROVE  \E g \in [SUBSET (1..n) -> K] : Descends(g, n, base, F)
<1> DEFINE c == [s \in (SUBSET (1..n)) \ {{}} |-> Max(s)]
<1>1. IsFiniteSet(1..n)
    BY FS_Interval
<1>2. \A s \in (SUBSET (1..n)) \ {{}} : Max(s) \in s
    BY MaxOfPart
<1>3. c \in [(SUBSET (1..n)) \ {{}} -> 1..n] /\ \A s \in (SUBSET (1..n)) \ {{}} : c[s] \in s
    BY <1>2
<1>4. PICK g \in [SUBSET (1..n) -> K] : Iterates(g, 1..n, base, c, F)
    <2> HIDE DEF c
    <2> QED BY <1>1, <1>3, IterExists
<1>5. Descends(g, n, base, F)
    BY <1>4 DEF Iterates, Descends
<1> QED
    BY <1>5

(* A fold from the left, whatever its operator: the states it goes through. *)
LeftSteps(iter, n, K, F) ==
    \A s \in SUBSET (1..n) : s # {} /\ iter[s \ {Max(s)}] \in K
        => iter[s] = F[Max(s)][iter[s \ {Max(s)}]]

Runs(h, n, k, F) == h[0] = k /\ \A i \in 1..n : h[i] = F[i][h[i - 1]]

Reaches(iter, n, K, k, F) ==
    \E h \in [0..n -> K] : Runs(h, n, k, F) /\ iter[1..n] = h[n]

(* A solution goes through the states of a run, which are in K and end the fold. *)
LEMMA LeftUnfold ==
    ASSUME NEW n \in Nat, NEW K, NEW k \in K, NEW F \in [1..n -> [K -> K]],
           NEW iter, iter[{}] = k, LeftSteps(iter, n, K, F)
    PROVE  Reaches(iter, n, K, k, F)
<1> DEFINE h == [i \in 0..n |-> iter[1..i]]
           P == {i \in 0..n : h[i] \in K}
<1>1. h[0] = k
    OBVIOUS
<1>2. ASSUME NEW i \in 1..n, h[i - 1] \in K PROVE h[i] = F[i][h[i - 1]]
  <2>0. i \in 1..i /\ i # 0 /\ i \in Nat /\ i - 1 \in 0..n /\ i \in 0..n
    OBVIOUS
  <2>a. n \in Nat /\ i \in 1..n /\ i \in 1..i
    BY <2>0
  <2>1. 1..i \in SUBSET (1..n) /\ 1..i # {}
    BY <2>a
  <2>2. Max(1..i) = i /\ (1..i) \ {i} = 1..(i - 1)
    BY <2>0, MaxOfRange
  <2>3. h[i] = iter[1..i] /\ h[i - 1] = iter[1..(i - 1)]
    BY <2>0
  <2> HIDE DEF h
  <2> QED
    BY <1>2, <2>1, <2>2, <2>3 DEF LeftSteps
<1>3. 0 \in P
    BY <1>1
<1>4. ASSUME NEW i \in 1..n, i - 1 \in P PROVE i \in P
  <2>1. h[i - 1] \in K /\ i \in 0..n
    BY <1>4
  <2>2. h[i] = F[i][h[i - 1]]
    BY <2>1, <1>2
  <2> HIDE DEF h
  <2> QED
    BY <2>1, <2>2
<1>5. \A i \in 0..n : h[i] \in K
  <2> HIDE DEF P
  <2>1. \A i \in 0..n : i \in P
    BY <1>3, <1>4, RangeInduction
  <2> QED
    BY <2>1 DEF P
<1>6. h \in [0..n -> K] /\ iter[1..n] = h[n]
    BY <1>5
<1>7. \A i \in 1..n : h[i] = F[i][h[i - 1]]
  <2> SUFFICES ASSUME NEW i \in 1..n PROVE h[i] = F[i][h[i - 1]]
    OBVIOUS
  <2>1. i - 1 \in 0..n
    OBVIOUS
  <2> HIDE DEF h
  <2> QED
    BY <2>1, <1>5, <1>2
<1> HIDE DEF h
<1> QED
    BY <1>1, <1>6, <1>7 DEF Runs, Reaches

(* And a fold over a set, in whatever order. *)
AnyOf(s) == CHOOSE x \in s : TRUE

SetSteps(iter, S, K, F) ==
    \A s \in SUBSET S : s # {} /\ iter[s \ {AnyOf(s)}] \in K
        => iter[s] = F[AnyOf(s)][iter[s \ {AnyOf(s)}]]

SetRecurs(g, S, k, F) ==
    \A s \in SUBSET S : g[s] = IF s = {} THEN k ELSE F[AnyOf(s)][g[s \ {AnyOf(s)}]]

SetRuns(g, S, K, F) ==
    \A s \in SUBSET S : /\ g[s] \in K
                        /\ s # {} => \E x \in s : g[s] = F[x][g[s \ {x}]]

(* FoldSet's recursion has a solution, in the order of its CHOOSE. *)
LEMMA SetIteration ==
    ASSUME NEW S, IsFiniteSet(S), NEW K, NEW k \in K, NEW F \in [S -> [K -> K]]
    PROVE  \E g \in [SUBSET S -> K] : SetRecurs(g, S, k, F)
<1> DEFINE c == [s \in (SUBSET S) \ {{}} |-> AnyOf(s)]
<1>1. \A s \in (SUBSET S) \ {{}} : AnyOf(s) \in s
    BY DEF AnyOf
<1>2. c \in [(SUBSET S) \ {{}} -> S] /\ \A s \in (SUBSET S) \ {{}} : c[s] \in s
    BY <1>1
<1>3. PICK g \in [SUBSET S -> K] : Iterates(g, S, k, c, F)
    <2> HIDE DEF c
    <2> QED BY <1>2, IterExists
<1>4. SetRecurs(g, S, k, F)
    BY <1>3 DEF Iterates, SetRecurs
<1> QED
    BY <1>4

(* A solution takes one step for each element of the set, in some order, within K. *)
LEMMA SetUnfold ==
    ASSUME NEW S, IsFiniteSet(S), NEW K, NEW k \in K, NEW F \in [S -> [K -> K]],
           NEW iter, iter[{}] = k, SetSteps(iter, S, K, F)
    PROVE  SetRuns(iter, S, K, F)
<1>a. \A s \in SUBSET S : s # {} => AnyOf(s) \in s
    BY DEF AnyOf
<1>1. ASSUME NEW r \in SUBSET S PROVE iter[r] \in K
  <2> DEFINE P == {s \in SUBSET r : iter[s] \in K}
  <2>1. {} \in P
    OBVIOUS
  <2>2. ASSUME NEW s \in SUBSET r, s # {}, \A x \in s : s \ {x} \in P PROVE s \in P
    <3>1. AnyOf(s) \in s /\ AnyOf(s) \in S
        BY <1>a, <2>2
    <3>2. iter[s \ {AnyOf(s)}] \in K
        BY <2>2, <3>1
    <3>3. iter[s] = F[AnyOf(s)][iter[s \ {AnyOf(s)}]]
        BY <2>2, <3>2 DEF SetSteps
    <3> QED
        BY <3>1, <3>2, <3>3
  <2>3. IsFiniteSet(r)
    BY FS_Subset
  <2> HIDE DEF P
  <2>4. P \in SUBSET (SUBSET r)
    BY DEF P
  <2>5. r \in P
    BY <2>1, <2>2, <2>3, <2>4, SubsetInduction
  <2> QED
    BY <2>5 DEF P
<1>2. ASSUME NEW s \in SUBSET S, s # {} PROVE \E x \in s : iter[s] = F[x][iter[s \ {x}]]
  <2>1. AnyOf(s) \in s /\ s \ {AnyOf(s)} \in SUBSET S
    BY <1>a, <1>2
  <2> QED
    BY <1>1, <1>2, <2>1 DEF SetSteps
<1> QED
    BY <1>1, <1>2 DEF SetRuns

(* The folds of the models, each an operator of its own. *)
SetAll(plan, keys, down) == FoldLeft(LAMBDA p, k : SetPressed(p, k, down), plan, keys)
Repeated(plan, keys, times) == FoldLeft(LAMBDA q, i : Release(Press(q, keys), keys), plan, times)
Planned(plan, strokes) == FoldLeft(PlanStroke, plan, strokes)
Kept(none, keys, those) ==
    FoldLeft(LAMBDA left, k : IF k \in those THEN left ELSE Append(left, k), none, keys)
PressedAgain(x0, keys) == FoldSet(LAMBDA key, y : XkbUpdate(y, key, TRUE), x0, keys)

Sending(h, events) ==
    \A i \in 1..Len(events) : h[i] = Sent(h[i - 1], events[i])

(* AllSent, as a run of Sent. *)
LEMMA AllSentFold ==
    ASSUME NEW K, NEW k \in K, NEW E, NEW events \in Seq(E),
           \A q \in K, e \in E : Sent(q, e) \in K
    PROVE  \E h \in [0..Len(events) -> K] :
              h[0] = k /\ AllSent(k, events) = h[Len(events)] /\ Sending(h, events)
<1> DEFINE n == Len(events)
           Body(iter) == [s \in SUBSET (DOMAIN events) |->
              IF s = {} THEN k ELSE Sent(iter[s \ {Max(s)}], events[Max(s)])]
           iter == CHOOSE iter : iter = Body(iter)
           F == [i \in 1..n |-> [q \in K |-> Sent(q, events[i])]]
<1>0. n \in Nat /\ DOMAIN events = 1..n /\ \A i \in 1..n : events[i] \in E
    OBVIOUS
<1>1. F \in [1..n -> [K -> K]]
    BY <1>0
<1>2. PICK g \in [SUBSET (1..n) -> K] : Descends(g, n, k, F)
    <2> HIDE DEF F, n
    <2>1. n \in Nat /\ F \in [1..n -> [K -> K]] /\ k \in K
        BY <1>0, <1>1
    <2> QED
        BY <2>1, LeftIteration
<1>m. \A s \in SUBSET (1..n) : s # {} => Max(s) \in 1..n
    BY <1>0, MaxOfPart
<1>3. g = Body(g)
    BY <1>0, <1>2, <1>m DEF Descends
<1>4. iter = Body(iter)
    BY <1>3
<1>5. AllSent(k, events) = iter[1..n]
  <2>1. AllSent(k, events) = iter[DOMAIN events]
    BY DEF AllSent, FoldLeft, MapThenFoldSet
  <2> QED
    BY <1>0, <2>1
<1> HIDE DEF iter
<1>6. iter[{}] = k /\ LeftSteps(iter, n, K, F)
    BY <1>0, <1>4, <1>m DEF LeftSteps
<1>7. PICK h \in [0..n -> K] : Runs(h, n, k, F) /\ iter[1..n] = h[n]
    <2> HIDE DEF F, n
    <2>1. n \in Nat /\ F \in [1..n -> [K -> K]] /\ k \in K
        BY <1>0, <1>1
    <2>2. Reaches(iter, n, K, k, F)
        BY <2>1, <1>6, LeftUnfold
    <2> QED
        BY <2>2 DEF Reaches
<1>8. \A i \in 1..n : h[i - 1] \in K /\ h[i] = Sent(h[i - 1], events[i])
  <2> SUFFICES ASSUME NEW i \in 1..n
               PROVE  h[i - 1] \in K /\ h[i] = Sent(h[i - 1], events[i])
    OBVIOUS
  <2>1. i - 1 \in 0..n
    BY <1>0
  <2>2. h[i - 1] \in K /\ h[i] = F[i][h[i - 1]]
    BY <2>1, <1>7 DEF Runs
  <2> QED
    BY <2>2
<1>9. Sending(h, events)
    BY <1>8 DEF Sending
<1> QED
    BY <1>5, <1>7, <1>9 DEF Runs

Setting(h, keys, down) ==
    \A i \in 1..Len(keys) : h[i] = SetPressed(h[i - 1], keys[i], down)

(* SetAll, as a run of SetPressed. *)
LEMMA SetAllFold ==
    ASSUME NEW K, NEW plan \in K, NEW E, NEW keys \in Seq(E), NEW down,
           \A q \in K, e \in E : SetPressed(q, e, down) \in K
    PROVE  \E h \in [0..Len(keys) -> K] :
              h[0] = plan /\ SetAll(plan, keys, down) = h[Len(keys)] /\ Setting(h, keys, down)
<1> DEFINE n == Len(keys)
           Body(iter) == [s \in SUBSET (DOMAIN keys) |->
              IF s = {} THEN plan ELSE SetPressed(iter[s \ {Max(s)}], keys[Max(s)], down)]
           iter == CHOOSE iter : iter = Body(iter)
           F == [i \in 1..n |-> [q \in K |-> SetPressed(q, keys[i], down)]]
<1>0. n \in Nat /\ DOMAIN keys = 1..n /\ \A i \in 1..n : keys[i] \in E
    OBVIOUS
<1>1. F \in [1..n -> [K -> K]]
    BY <1>0
<1>2. PICK g \in [SUBSET (1..n) -> K] : Descends(g, n, plan, F)
    <2> HIDE DEF F, n
    <2>1. n \in Nat /\ F \in [1..n -> [K -> K]] /\ plan \in K
        BY <1>0, <1>1
    <2> QED
        BY <2>1, LeftIteration
<1>m. \A s \in SUBSET (1..n) : s # {} => Max(s) \in 1..n
    BY <1>0, MaxOfPart
<1>3. g = Body(g)
    BY <1>0, <1>2, <1>m DEF Descends
<1>4. iter = Body(iter)
    BY <1>3
<1>5. SetAll(plan, keys, down) = iter[1..n]
  <2>1. SetAll(plan, keys, down) = iter[DOMAIN keys]
    BY DEF SetAll, FoldLeft, MapThenFoldSet
  <2> QED
    BY <1>0, <2>1
<1> HIDE DEF iter
<1>6. iter[{}] = plan /\ LeftSteps(iter, n, K, F)
    BY <1>0, <1>4, <1>m DEF LeftSteps
<1>7. PICK h \in [0..n -> K] : Runs(h, n, plan, F) /\ iter[1..n] = h[n]
    <2> HIDE DEF F, n
    <2>1. n \in Nat /\ F \in [1..n -> [K -> K]] /\ plan \in K
        BY <1>0, <1>1
    <2>2. Reaches(iter, n, K, plan, F)
        BY <2>1, <1>6, LeftUnfold
    <2> QED
        BY <2>2 DEF Reaches
<1>8. \A i \in 1..n : h[i - 1] \in K /\ h[i] = SetPressed(h[i - 1], keys[i], down)
  <2> SUFFICES ASSUME NEW i \in 1..n
               PROVE  h[i - 1] \in K /\ h[i] = SetPressed(h[i - 1], keys[i], down)
    OBVIOUS
  <2>1. i - 1 \in 0..n
    BY <1>0
  <2>2. h[i - 1] \in K /\ h[i] = F[i][h[i - 1]]
    BY <2>1, <1>7 DEF Runs
  <2> QED
    BY <2>2
<1>9. Setting(h, keys, down)
    BY <1>8 DEF Setting
<1> QED
    BY <1>5, <1>7, <1>9 DEF Runs

Planning(h, strokes) ==
    \A i \in 1..Len(strokes) : h[i] = PlanStroke(h[i - 1], strokes[i])

(* Planned, as a run of PlanStroke. *)
LEMMA PlannedFold ==
    ASSUME NEW K, NEW plan \in K, NEW E, NEW strokes \in Seq(E),
           \A q \in K, e \in E : PlanStroke(q, e) \in K
    PROVE  \E h \in [0..Len(strokes) -> K] :
              h[0] = plan /\ Planned(plan, strokes) = h[Len(strokes)] /\ Planning(h, strokes)
<1> DEFINE n == Len(strokes)
           Body(iter) == [s \in SUBSET (DOMAIN strokes) |->
              IF s = {} THEN plan ELSE PlanStroke(iter[s \ {Max(s)}], strokes[Max(s)])]
           iter == CHOOSE iter : iter = Body(iter)
           F == [i \in 1..n |-> [q \in K |-> PlanStroke(q, strokes[i])]]
<1>0. n \in Nat /\ DOMAIN strokes = 1..n /\ \A i \in 1..n : strokes[i] \in E
    OBVIOUS
<1>1. F \in [1..n -> [K -> K]]
    BY <1>0
<1>2. PICK g \in [SUBSET (1..n) -> K] : Descends(g, n, plan, F)
    <2> HIDE DEF F, n
    <2>1. n \in Nat /\ F \in [1..n -> [K -> K]] /\ plan \in K
        BY <1>0, <1>1
    <2> QED
        BY <2>1, LeftIteration
<1>m. \A s \in SUBSET (1..n) : s # {} => Max(s) \in 1..n
    BY <1>0, MaxOfPart
<1>3. g = Body(g)
    BY <1>0, <1>2, <1>m DEF Descends
<1>4. iter = Body(iter)
    BY <1>3
<1>5. Planned(plan, strokes) = iter[1..n]
  <2>1. Planned(plan, strokes) = iter[DOMAIN strokes]
    BY DEF Planned, FoldLeft, MapThenFoldSet
  <2> QED
    BY <1>0, <2>1
<1> HIDE DEF iter
<1>6. iter[{}] = plan /\ LeftSteps(iter, n, K, F)
    BY <1>0, <1>4, <1>m DEF LeftSteps
<1>7. PICK h \in [0..n -> K] : Runs(h, n, plan, F) /\ iter[1..n] = h[n]
    <2> HIDE DEF F, n
    <2>1. n \in Nat /\ F \in [1..n -> [K -> K]] /\ plan \in K
        BY <1>0, <1>1
    <2>2. Reaches(iter, n, K, plan, F)
        BY <2>1, <1>6, LeftUnfold
    <2> QED
        BY <2>2 DEF Reaches
<1>8. \A i \in 1..n : h[i - 1] \in K /\ h[i] = PlanStroke(h[i - 1], strokes[i])
  <2> SUFFICES ASSUME NEW i \in 1..n
               PROVE  h[i - 1] \in K /\ h[i] = PlanStroke(h[i - 1], strokes[i])
    OBVIOUS
  <2>1. i - 1 \in 0..n
    BY <1>0
  <2>2. h[i - 1] \in K /\ h[i] = F[i][h[i - 1]]
    BY <2>1, <1>7 DEF Runs
  <2> QED
    BY <2>2
<1>9. Planning(h, strokes)
    BY <1>8 DEF Planning
<1> QED
    BY <1>5, <1>7, <1>9 DEF Runs

Repeating(h, keys, times) ==
    \A i \in 1..Len(times) : h[i] = Release(Press(h[i - 1], keys), keys)

(* Repeated, as a run of presses and releases. *)
LEMMA RepeatedFold ==
    ASSUME NEW K, NEW plan \in K, NEW E, NEW times \in Seq(E), NEW keys,
           \A q \in K, e \in E : Release(Press(q, keys), keys) \in K
    PROVE  \E h \in [0..Len(times) -> K] :
              /\ h[0] = plan /\ Repeated(plan, keys, times) = h[Len(times)]
              /\ Repeating(h, keys, times)
<1> DEFINE n == Len(times)
           Body(iter) == [s \in SUBSET (DOMAIN times) |->
              IF s = {} THEN plan ELSE Release(Press(iter[s \ {Max(s)}], keys), keys)]
           iter == CHOOSE iter : iter = Body(iter)
           F == [i \in 1..n |-> [q \in K |-> Release(Press(q, keys), keys)]]
<1>0. n \in Nat /\ DOMAIN times = 1..n /\ \A i \in 1..n : times[i] \in E
    OBVIOUS
<1>1. F \in [1..n -> [K -> K]]
    BY <1>0
<1>2. PICK g \in [SUBSET (1..n) -> K] : Descends(g, n, plan, F)
    <2> HIDE DEF F, n
    <2>1. n \in Nat /\ F \in [1..n -> [K -> K]] /\ plan \in K
        BY <1>0, <1>1
    <2> QED
        BY <2>1, LeftIteration
<1>m. \A s \in SUBSET (1..n) : s # {} => Max(s) \in 1..n
    BY <1>0, MaxOfPart
<1>3. g = Body(g)
    BY <1>0, <1>2, <1>m DEF Descends
<1>4. iter = Body(iter)
    BY <1>3
<1>5. Repeated(plan, keys, times) = iter[1..n]
  <2>1. Repeated(plan, keys, times) = iter[DOMAIN times]
    BY DEF Repeated, FoldLeft, MapThenFoldSet
  <2> QED
    BY <1>0, <2>1
<1> HIDE DEF iter
<1>6. iter[{}] = plan /\ LeftSteps(iter, n, K, F)
    BY <1>0, <1>4, <1>m DEF LeftSteps
<1>7. PICK h \in [0..n -> K] : Runs(h, n, plan, F) /\ iter[1..n] = h[n]
    <2> HIDE DEF F, n
    <2>1. n \in Nat /\ F \in [1..n -> [K -> K]] /\ plan \in K
        BY <1>0, <1>1
    <2>2. Reaches(iter, n, K, plan, F)
        BY <2>1, <1>6, LeftUnfold
    <2> QED
        BY <2>2 DEF Reaches
<1>8. \A i \in 1..n : h[i - 1] \in K /\ h[i] = Release(Press(h[i - 1], keys), keys)
  <2> SUFFICES ASSUME NEW i \in 1..n
               PROVE  h[i - 1] \in K /\ h[i] = Release(Press(h[i - 1], keys), keys)
    OBVIOUS
  <2>1. i - 1 \in 0..n
    BY <1>0
  <2>2. h[i - 1] \in K /\ h[i] = F[i][h[i - 1]]
    BY <2>1, <1>7 DEF Runs
  <2> QED
    BY <2>2
<1>9. Repeating(h, keys, times)
    BY <1>8 DEF Repeating
<1> QED
    BY <1>5, <1>7, <1>9 DEF Runs

Keeping(h, keys, those) ==
    \A i \in 1..Len(keys) :
        h[i] = (IF keys[i] \in those THEN h[i - 1] ELSE Append(h[i - 1], keys[i]))

(* Kept, as a run that appends or does not. *)
LEMMA KeptFold ==
    ASSUME NEW K, NEW none \in K, NEW E, NEW keys \in Seq(E), NEW those,
           \A q \in K, e \in E : (IF e \in those THEN q ELSE Append(q, e)) \in K
    PROVE  \E h \in [0..Len(keys) -> K] :
              h[0] = none /\ Kept(none, keys, those) = h[Len(keys)] /\ Keeping(h, keys, those)
<1> DEFINE n == Len(keys)
           Body(iter) == [s \in SUBSET (DOMAIN keys) |->
              IF s = {} THEN none
              ELSE (IF keys[Max(s)] \in those THEN iter[s \ {Max(s)}]
                    ELSE Append(iter[s \ {Max(s)}], keys[Max(s)]))]
           iter == CHOOSE iter : iter = Body(iter)
           F == [i \in 1..n |-> [q \in K |-> (IF keys[i] \in those THEN q ELSE Append(q, keys[i]))]]
<1>0. n \in Nat /\ DOMAIN keys = 1..n /\ \A i \in 1..n : keys[i] \in E
    OBVIOUS
<1>1. F \in [1..n -> [K -> K]]
    BY <1>0
<1>2. PICK g \in [SUBSET (1..n) -> K] : Descends(g, n, none, F)
    <2> HIDE DEF F, n
    <2>1. n \in Nat /\ F \in [1..n -> [K -> K]] /\ none \in K
        BY <1>0, <1>1
    <2> QED
        BY <2>1, LeftIteration
<1>m. \A s \in SUBSET (1..n) : s # {} => Max(s) \in 1..n
    BY <1>0, MaxOfPart
<1>3. g = Body(g)
    BY <1>0, <1>2, <1>m DEF Descends
<1>4. iter = Body(iter)
    BY <1>3
<1>5. Kept(none, keys, those) = iter[1..n]
  <2>1. Kept(none, keys, those) = iter[DOMAIN keys]
    BY DEF Kept, FoldLeft, MapThenFoldSet
  <2> QED
    BY <1>0, <2>1
<1> HIDE DEF iter
<1>6. iter[{}] = none /\ LeftSteps(iter, n, K, F)
    BY <1>0, <1>4, <1>m DEF LeftSteps
<1>7. PICK h \in [0..n -> K] : Runs(h, n, none, F) /\ iter[1..n] = h[n]
    <2> HIDE DEF F, n
    <2>1. n \in Nat /\ F \in [1..n -> [K -> K]] /\ none \in K
        BY <1>0, <1>1
    <2>2. Reaches(iter, n, K, none, F)
        BY <2>1, <1>6, LeftUnfold
    <2> QED
        BY <2>2 DEF Reaches
<1>8. \A i \in 1..n : h[i - 1] \in K
          /\ h[i] = (IF keys[i] \in those THEN h[i - 1] ELSE Append(h[i - 1], keys[i]))
  <2> SUFFICES ASSUME NEW i \in 1..n
               PROVE  h[i - 1] \in K
          /\ h[i] = (IF keys[i] \in those THEN h[i - 1] ELSE Append(h[i - 1], keys[i]))
    OBVIOUS
  <2>1. i - 1 \in 0..n
    BY <1>0
  <2>2. h[i - 1] \in K /\ h[i] = F[i][h[i - 1]]
    BY <2>1, <1>7 DEF Runs
  <2> QED
    BY <2>2
<1>9. Keeping(h, keys, those)
    BY <1>8 DEF Keeping
<1> QED
    BY <1>5, <1>7, <1>9 DEF Runs

Releasing(g, keys) ==
    \A s \in SUBSET keys : s # {} =>
        \E x \in s : g[s] = Sent(g[s \ {x}], [key |-> x, down |-> FALSE])

(* ReleasedAll, as a run that sends the release of each key. *)
LEMMA ReleasedFold ==
    ASSUME NEW K, NEW k \in K, NEW keys, IsFiniteSet(keys),
           \A q \in K, x \in keys : Sent(q, [key |-> x, down |-> FALSE]) \in K
    PROVE  \E g \in [SUBSET keys -> K] :
              g[{}] = k /\ ReleasedAll(k, keys) = g[keys] /\ Releasing(g, keys)
<1> DEFINE Body(iter) == [s \in SUBSET keys |->
              IF s = {} THEN k ELSE Sent(iter[s \ {AnyOf(s)}], [key |-> AnyOf(s), down |-> FALSE])]
           iter == CHOOSE iter : iter = Body(iter)
           F == [x \in keys |-> [q \in K |-> Sent(q, [key |-> x, down |-> FALSE])]]
<1>1. F \in [keys -> [K -> K]]
    OBVIOUS
<1>m. \A s \in SUBSET keys : s # {} => AnyOf(s) \in keys
    BY DEF AnyOf
<1>2. PICK g \in [SUBSET keys -> K] : SetRecurs(g, keys, k, F)
    <2> HIDE DEF F
    <2> QED
        BY <1>1, SetIteration
<1>3. g = Body(g)
    BY <1>2, <1>m DEF SetRecurs
<1>4. iter = Body(iter)
    BY <1>3
<1>5. ReleasedAll(k, keys) = iter[keys]
    BY DEF ReleasedAll, FoldSet, MapThenFoldSet, AnyOf
<1> HIDE DEF iter
<1>6. iter[{}] = k /\ SetSteps(iter, keys, K, F)
    BY <1>4, <1>m DEF SetSteps
<1>7. SetRuns(iter, keys, K, F)
    <2> HIDE DEF F
    <2> QED
        BY <1>1, <1>6, SetUnfold
<1> DEFINE h == [s \in SUBSET keys |-> iter[s]]
<1>8. \A s \in SUBSET keys : s # {} =>
        \E x \in s : h[s] = Sent(h[s \ {x}], [key |-> x, down |-> FALSE])
  <2> SUFFICES ASSUME NEW s \in SUBSET keys, s # {}
               PROVE  \E x \in s : h[s] = Sent(h[s \ {x}], [key |-> x, down |-> FALSE])
    OBVIOUS
  <2>1. PICK x \in s : iter[s] = F[x][iter[s \ {x}]]
    BY <1>7 DEF SetRuns
  <2>2. x \in keys /\ iter[s \ {x}] \in K
    BY <1>7 DEF SetRuns
  <2> QED
    BY <2>1, <2>2
<1>9. h \in [SUBSET keys -> K] /\ h[{}] = k /\ ReleasedAll(k, keys) = h[keys]
    BY <1>5, <1>6, <1>7 DEF SetRuns
<1> HIDE DEF h
<1>10. Releasing(h, keys)
    BY <1>8 DEF Releasing
<1> QED
    BY <1>9, <1>10

Repressing(g, keys) ==
    \A s \in SUBSET keys : s # {} => \E x \in s : g[s] = XkbUpdate(g[s \ {x}], x, TRUE)

(* PressedAgain, as a run that presses each key. *)
LEMMA PressedFold ==
    ASSUME NEW K, NEW x0 \in K, NEW keys, IsFiniteSet(keys),
           \A q \in K, x \in keys : XkbUpdate(q, x, TRUE) \in K
    PROVE  \E g \in [SUBSET keys -> K] :
              g[{}] = x0 /\ PressedAgain(x0, keys) = g[keys] /\ Repressing(g, keys)
<1> DEFINE Body(iter) == [s \in SUBSET keys |->
              IF s = {} THEN x0 ELSE XkbUpdate(iter[s \ {AnyOf(s)}], AnyOf(s), TRUE)]
           iter == CHOOSE iter : iter = Body(iter)
           F == [x \in keys |-> [q \in K |-> XkbUpdate(q, x, TRUE)]]
<1>1. F \in [keys -> [K -> K]]
    OBVIOUS
<1>m. \A s \in SUBSET keys : s # {} => AnyOf(s) \in keys
    BY DEF AnyOf
<1>2. PICK g \in [SUBSET keys -> K] : SetRecurs(g, keys, x0, F)
    <2> HIDE DEF F
    <2> QED
        BY <1>1, SetIteration
<1>3. g = Body(g)
    BY <1>2, <1>m DEF SetRecurs
<1>4. iter = Body(iter)
    BY <1>3
<1>5. PressedAgain(x0, keys) = iter[keys]
    BY DEF PressedAgain, FoldSet, MapThenFoldSet, AnyOf
<1> HIDE DEF iter
<1>6. iter[{}] = x0 /\ SetSteps(iter, keys, K, F)
    BY <1>4, <1>m DEF SetSteps
<1>7. SetRuns(iter, keys, K, F)
    <2> HIDE DEF F
    <2> QED
        BY <1>1, <1>6, SetUnfold
<1> DEFINE h == [s \in SUBSET keys |-> iter[s]]
<1>8. \A s \in SUBSET keys : s # {} => \E x \in s : h[s] = XkbUpdate(h[s \ {x}], x, TRUE)
  <2> SUFFICES ASSUME NEW s \in SUBSET keys, s # {}
               PROVE  \E x \in s : h[s] = XkbUpdate(h[s \ {x}], x, TRUE)
    OBVIOUS
  <2>1. PICK x \in s : iter[s] = F[x][iter[s \ {x}]]
    BY <1>7 DEF SetRuns
  <2>2. x \in keys /\ iter[s \ {x}] \in K
    BY <1>7 DEF SetRuns
  <2> QED
    BY <2>1, <2>2
<1>9. h \in [SUBSET keys -> K] /\ h[{}] = x0 /\ PressedAgain(x0, keys) = h[keys]
    BY <1>5, <1>6, <1>7 DEF SetRuns
<1> HIDE DEF h
<1>10. Repressing(h, keys)
    BY <1>8 DEF Repressing
<1> QED
    BY <1>9, <1>10

-----------------------------------------------------------------------------
(* The XKB state and key events. *)

(* What the index of a keymap is up to date with, when no lock key is down. *)
XkbOk(x) == /\ x.indexed = x.base
            /\ x.pressed \cap LockKeys = {} => x.locks = x.base

(* The keys the program holds are those the compositor has down. *)
Sync(k) == k.held = k.down /\ (k.xkb # None => XkbOk(k.xkb))

(* The compositor was told all there is to know of the virtual keyboard. *)
Accord(k) ==
    /\ k.xkb # None /\ k.keymap = k.sourceKeymap /\ k.xkb.keymap = k.keymap
    /\ k.held = k.down /\ k.xkb.pressed = k.down
    /\ k.sent = [keymap |-> k.keymap, mods |-> k.down \cap ModifierKeys,
                 locks |-> k.xkb.locks]

(* Seat, manager, device and keymap are the same. *)
Frame(k, q) ==
    /\ q.manager = k.manager /\ q.source = k.source /\ q.sourceKeymap = k.sourceKeymap
    /\ q.locks = k.locks /\ q.device = k.device /\ q.keymap = k.keymap
    /\ q.xkbs = k.xkbs /\ q.stuck = k.stuck /\ q.refused = k.refused

(* What key events may change, and what they keep. *)
Follows(k, q) ==
    /\ q \in Keyboards /\ Frame(k, q) /\ (q.xkb = None <=> k.xkb = None)
    /\ Sync(k) => Sync(q)
    /\ Accord(k) => Accord(q)

KeyEvents == [key : Keys, down : BOOLEAN]
HeldAfter(held, e) == IF e.down THEN held \cup {e.key} ELSE held \ {e.key}

(* A keyboard follows itself, *)
LEMMA FollowsItself ==
    ASSUME NEW k \in Keyboards
    PROVE  Follows(k, k)
BY DEF Follows, Frame

(* and what follows it is followed. *)
LEMMA FollowsOn ==
    ASSUME NEW k, NEW q, NEW r, Follows(k, q), Follows(q, r)
    PROVE  Follows(k, r)
BY DEF Follows, Frame

(* One key in the XKB state: it is pressed or not, and only a lock key locks. *)
LEMMA XkbUpdateFacts ==
    ASSUME NEW x \in Xkb, NEW key \in Keys, NEW down \in BOOLEAN
    PROVE  LET y == XkbUpdate(x, key, down)
           IN  /\ y \in Xkb /\ y.keymap = x.keymap /\ y.base = x.base /\ y.indexed = x.indexed
               /\ y.pressed = IF down THEN x.pressed \cup {key} ELSE x.pressed \ {key}
               /\ key \notin LockKeys => y.locks = x.locks
BY DEF XkbUpdate, Xkb, Locks

(* update_key() keeps the index up to date with the locks while no lock key is down. *)
LEMMA UpdateKeyFacts ==
    ASSUME NEW x \in Xkb, NEW key \in Keys, NEW down \in BOOLEAN
    PROVE  LET y == UpdateKey(x, key, down)
           IN  /\ y \in Xkb /\ y.keymap = x.keymap
               /\ y.pressed = IF down THEN x.pressed \cup {key} ELSE x.pressed \ {key}
               /\ key \notin LockKeys => y.locks = x.locks
               /\ XkbOk(x) => XkbOk(y)
<1> DEFINE now == XkbUpdate(x, key, down)
           y == UpdateKey(x, key, down)
<1>1. /\ now \in Xkb /\ now.keymap = x.keymap /\ now.base = x.base /\ now.indexed = x.indexed
      /\ now.pressed = IF down THEN x.pressed \cup {key} ELSE x.pressed \ {key}
      /\ key \notin LockKeys => now.locks = x.locks
    BY XkbUpdateFacts
<1>2. y = IF key \in ModifierKeys \cup LockKeys /\ now.locks # x.base
          THEN [now EXCEPT !.base = now.locks, !.indexed = now.locks] ELSE now
    BY DEF UpdateKey
<1> HIDE DEF now, y
<1>3. /\ y \in Xkb /\ y.keymap = now.keymap /\ y.pressed = now.pressed /\ y.locks = now.locks
      /\ IF key \in ModifierKeys \cup LockKeys /\ now.locks # x.base
         THEN y.base = now.locks /\ y.indexed = now.locks
         ELSE y.base = now.base /\ y.indexed = now.indexed
    BY <1>1, <1>2 DEF Xkb, Locks
<1>4. XkbOk(x) => XkbOk(y)
    BY <1>1, <1>3 DEF XkbOk
<1> QED
    BY <1>1, <1>3, <1>4 DEF y

(* A state of which modifiers and locks are replaced, spelt out. *)
LEMMA StateOf ==
    ASSUME NEW r \in State, NEW a \in SUBSET ModifierKeys, NEW b \in Locks
    PROVE  [r EXCEPT !.mods = a, !.locks = b] = [keymap |-> r.keymap, mods |-> a, locks |-> b]
<1> DEFINE s == [r EXCEPT !.mods = a, !.locks = b]
           t == [keymap |-> r.keymap, mods |-> a, locks |-> b]
<1>1. s \in State /\ t \in State
    BY DEF State
<1>2. s.keymap = t.keymap /\ s.mods = t.mods /\ s.locks = t.locks
    BY DEF State
<1> HIDE DEF s, t
<1>3. s = t
    BY <1>1, <1>2 DEF State
<1> QED
    BY <1>3 DEF s, t

(* The modifiers request changes what the compositor believes and nothing else. *)
LEMMA ToldFacts ==
    ASSUME NEW k \in Keyboards
    PROVE  /\ Told(k) \in Keyboards /\ Frame(k, Told(k))
           /\ Told(k).held = k.held /\ Told(k).down = k.down /\ Told(k).own = k.own
           /\ Told(k).xkb = k.xkb
           /\ IF k.xkb = None THEN Told(k) = k
              ELSE Told(k).sent = [keymap |-> k.sent.keymap,
                                   mods |-> k.xkb.pressed \cap ModifierKeys,
                                   locks |-> k.xkb.locks]
<1>1. CASE k.xkb = None
    BY <1>1 DEF Told, Frame
<1>2. CASE k.xkb # None
  <2>1. k.xkb \in Xkb /\ k.sent \in State
    BY <1>2 DEF Keyboards
  <2> DEFINE a == k.xkb.pressed \cap ModifierKeys
             b == k.xkb.locks
  <2>a. [k.sent EXCEPT !.mods = a, !.locks = b]
          = [keymap |-> k.sent.keymap, mods |-> a, locks |-> b]
    <3>1. a \in SUBSET ModifierKeys /\ b \in Locks
        BY <2>1 DEF Xkb
    <3> QED
        BY <2>1, <3>1, StateOf
  <2>b. [k EXCEPT !.sent.mods = a, !.sent.locks = b]
          = [k EXCEPT !.sent = [k.sent EXCEPT !.mods = a, !.locks = b]]
    OBVIOUS
  <2>2. Told(k) = [k EXCEPT !.sent = [keymap |-> k.sent.keymap,
                                   mods |-> k.xkb.pressed \cap ModifierKeys,
                                   locks |-> k.xkb.locks]]
    BY <1>2, <2>a, <2>b DEF Told
  <2>3. [keymap |-> k.sent.keymap, mods |-> k.xkb.pressed \cap ModifierKeys,
         locks |-> k.xkb.locks] \in State
    BY <2>1 DEF State, Xkb
  <2> QED
    BY <1>2, <2>2, <2>3 DEF Keyboards, Frame
<1> QED
    BY <1>1, <1>2

(* _send_event(): program and compositor change alike. *)
LEMMA SentFacts ==
    ASSUME NEW k \in Keyboards, NEW e \in KeyEvents
    PROVE  /\ Follows(k, Sent(k, e))
           /\ Sent(k, e).held = HeldAfter(k.held, e)
<1>1. CASE (e.key \in k.held) = e.down
  <2>1. Sent(k, e) = k
    BY <1>1 DEF Sent
  <2>2. HeldAfter(k.held, e) = k.held
    BY <1>1 DEF HeldAfter, KeyEvents, Keyboards
  <2> QED
    BY <2>1, <2>2, FollowsItself
<1>2. CASE (e.key \in k.held) # e.down
  <2> DEFINE xkb == IF k.xkb = None THEN None ELSE UpdateKey(k.xkb, e.key, e.down)
             sent == [k EXCEPT !.held = HeldAfter(@, e), !.down = HeldAfter(@, e),
                               !.own = @ \ {e.key}, !.xkb = xkb]
             r == Sent(k, e)
  <2>0. e.key \in Keys /\ e.down \in BOOLEAN
    BY DEF KeyEvents
  <2>1. r = IF e.key \in ModifierKeys \cup LockKeys THEN Told(sent) ELSE sent
    BY <1>2 DEF Sent, HeldAfter
  <2>2. /\ xkb = None <=> k.xkb = None
        /\ k.xkb # None =>
            /\ xkb \in Xkb /\ xkb.keymap = k.xkb.keymap
            /\ xkb.pressed = HeldAfter(k.xkb.pressed, e)
            /\ e.key \notin LockKeys => xkb.locks = k.xkb.locks
            /\ XkbOk(k.xkb) => XkbOk(xkb)
    <3>1. CASE k.xkb = None
        BY <3>1
    <3>2. CASE k.xkb # None
      <4>1. k.xkb \in Xkb
        BY <3>2 DEF Keyboards
      <4>2. LET y == UpdateKey(k.xkb, e.key, e.down)
            IN  /\ y \in Xkb /\ y.keymap = k.xkb.keymap
                /\ y.pressed = HeldAfter(k.xkb.pressed, e)
                /\ e.key \notin LockKeys => y.locks = k.xkb.locks
                /\ XkbOk(k.xkb) => XkbOk(y)
        BY <2>0, <4>1, UpdateKeyFacts DEF HeldAfter
      <4>3. xkb = UpdateKey(k.xkb, e.key, e.down)
        BY <3>2
      <4>4. xkb \in Xkb => xkb # None
        BY KeyboardAssumption
      <4> HIDE DEF xkb
      <4> QED
        BY <3>2, <4>2, <4>3, <4>4
    <3> QED
        BY <3>1, <3>2
  <2> HIDE DEF xkb, r
  <2>3. /\ sent \in Keyboards /\ Frame(k, sent)
        /\ sent.held = HeldAfter(k.held, e) /\ sent.down = HeldAfter(k.down, e)
        /\ sent.xkb = xkb /\ sent.sent = k.sent
    BY <2>0, <2>2 DEF Keyboards, Frame, HeldAfter
  <2> HIDE DEF sent
  <2>4. /\ r \in Keyboards /\ Frame(k, r)
        /\ r.held = HeldAfter(k.held, e) /\ r.down = HeldAfter(k.down, e)
        /\ r.xkb = xkb
        /\ k.xkb # None =>
             r.sent = IF e.key \in ModifierKeys \cup LockKeys
                      THEN [keymap |-> k.sent.keymap, mods |-> xkb.pressed \cap ModifierKeys,
                            locks |-> xkb.locks]
                      ELSE k.sent
    BY <2>1, <2>2, <2>3, ToldFacts DEF Frame
  <2>5. Sync(k) => Sync(r)
    BY <2>2, <2>4 DEF Sync
  <2>6. ASSUME Accord(k) PROVE Accord(r)
    <3>1. k.xkb # None /\ k.keymap = k.sourceKeymap /\ k.xkb.keymap = k.keymap
          /\ k.held = k.down /\ k.xkb.pressed = k.down
          /\ k.sent = [keymap |-> k.keymap, mods |-> k.down \cap ModifierKeys,
                       locks |-> k.xkb.locks]
        BY <2>6 DEF Accord
    <3>2. /\ r.xkb # None /\ r.keymap = r.sourceKeymap /\ r.xkb.keymap = r.keymap
          /\ r.held = r.down /\ r.xkb.pressed = r.down
        BY <2>2, <2>4, <3>1 DEF Frame
    <3>3. r.sent = [keymap |-> r.keymap, mods |-> r.down \cap ModifierKeys,
                    locks |-> r.xkb.locks]
      <4>1. CASE e.key \in ModifierKeys \cup LockKeys
        BY <2>2, <2>4, <3>1, <3>2, <4>1 DEF Frame
      <4>2. CASE e.key \notin ModifierKeys \cup LockKeys
        <5>1. r.sent = k.sent /\ xkb.locks = k.xkb.locks
            BY <2>2, <2>4, <3>1, <4>2
        <5>2. r.down \cap ModifierKeys = k.down \cap ModifierKeys
            BY <2>4, <4>2 DEF HeldAfter
        <5> QED
            BY <2>4, <3>1, <5>1, <5>2 DEF Frame
      <4> QED
        BY <4>1, <4>2
    <3> QED
        BY <3>2, <3>3 DEF Accord
  <2>7. Follows(k, r)
    BY <2>2, <2>4, <2>5, <2>6 DEF Follows
  <2> QED
    BY <2>4, <2>7 DEF r
<1> QED
    BY <1>1, <1>2

(* So they do over any sequence of events, *)
LEMMA AllSentFollows ==
    ASSUME NEW k \in Keyboards, NEW events \in Seq(KeyEvents)
    PROVE  Follows(k, AllSent(k, events))
<1> DEFINE K == {q \in Keyboards : Follows(k, q)}
<1>1. k \in K
    BY FollowsItself
<1>2. ASSUME NEW q \in K, NEW e \in KeyEvents PROVE Sent(q, e) \in K
    BY SentFacts, FollowsOn DEF Follows
<1> HIDE DEF K
<1>3. PICK h \in [0..Len(events) -> K] : AllSent(k, events) = h[Len(events)]
    BY <1>1, <1>2, AllSentFold
<1>4. h[Len(events)] \in K
    OBVIOUS
<1> QED
    BY <1>3, <1>4 DEF K

(* and over the release of any set of keys, in whatever order. *)
LEMMA ReleasedFollows ==
    ASSUME NEW k \in Keyboards, NEW keys \in SUBSET Keys
    PROVE  Follows(k, ReleasedAll(k, keys)) /\ ReleasedAll(k, keys).held = k.held \ keys
<1> DEFINE K == {q \in Keyboards : Follows(k, q)}
           Up1(q, x) == Sent(q, [key |-> x, down |-> FALSE])
<1>0. IsFiniteSet(keys)
    BY KeysAssumption, FS_Subset
<1>1. k \in K
    BY FollowsItself
<1>2. ASSUME NEW q \in K, NEW x \in keys
      PROVE  Sent(q, [key |-> x, down |-> FALSE]) \in K
             /\ Sent(q, [key |-> x, down |-> FALSE]).held = q.held \ {x}
  <2>1. [key |-> x, down |-> FALSE] \in KeyEvents
    BY DEF KeyEvents
  <2> QED
    BY <2>1, SentFacts, FollowsOn DEF Follows, HeldAfter
<1> HIDE DEF K
<1>3. PICK g \in [SUBSET keys -> K] :
          g[{}] = k /\ ReleasedAll(k, keys) = g[keys] /\ Releasing(g, keys)
  <2>1. \A q \in K, x \in keys : Sent(q, [key |-> x, down |-> FALSE]) \in K
    BY <1>2
  <2> QED
    BY <1>0, <1>1, <2>1, ReleasedFold
<1> DEFINE P == {s \in SUBSET keys : g[s].held = k.held \ s}
<1>4. {} \in P
    BY <1>3
<1>5. ASSUME NEW s \in SUBSET keys, s # {}, \A x \in s : s \ {x} \in P PROVE s \in P
  <2>1. PICK x \in s : g[s] = Sent(g[s \ {x}], [key |-> x, down |-> FALSE])
    BY <1>3, <1>5 DEF Releasing
  <2>2. g[s \ {x}] \in K /\ x \in keys
    OBVIOUS
  <2>3. g[s].held = g[s \ {x}].held \ {x}
    BY <2>1, <2>2, <1>2
  <2>4. g[s \ {x}].held = k.held \ (s \ {x})
    BY <1>5
  <2> QED
    BY <2>3, <2>4
<1>6. keys \in P
  <2> HIDE DEF P
  <2>1. P \in SUBSET (SUBSET keys)
    BY DEF P
  <2> QED
    BY <1>0, <1>4, <1>5, <2>1, SubsetInduction
<1>7. g[keys] \in K
    OBVIOUS
<1> QED
    BY <1>3, <1>6, <1>7 DEF K

-----------------------------------------------------------------------------
(* Plans of key events. *)

Plans == [held : SUBSET Keys, events : Seq(KeyEvents), refused : BOOLEAN]

(* Sets of plans that planning does not lead out of. *)
Closed(K) ==
    /\ K \subseteq Plans
    /\ \A q \in K, key \in Keys, down \in BOOLEAN : SetPressed(q, key, down) \in K
    /\ \A q \in K : [q EXCEPT !.refused = TRUE] \in K

SetHeld(held, keys, down) == IF down THEN held \cup keys ELSE held \ keys

(* set_pressed(): one key is held, or is not. *)
LEMMA SetPressedFacts ==
    ASSUME NEW plan \in Plans, NEW key \in Keys, NEW down \in BOOLEAN
    PROVE  /\ SetPressed(plan, key, down) \in Plans
           /\ SetPressed(plan, key, down).held = SetHeld(plan.held, {key}, down)
<1>1. plan.events \in Seq(KeyEvents) /\ plan.held \in SUBSET Keys /\ plan.refused \in BOOLEAN
    BY DEF Plans
<1>2. [key |-> key, down |-> down] \in KeyEvents
    BY DEF KeyEvents
<1>3. Append(plan.events, [key |-> key, down |-> down]) \in Seq(KeyEvents)
    BY <1>1, <1>2, AppendProperties
<1>4. CASE (key \in plan.held) = down
    BY <1>1, <1>4 DEF SetPressed, SetHeld
<1>5. CASE (key \in plan.held) # down
  <2> DEFINE held == IF down THEN plan.held \cup {key} ELSE plan.held \ {key}
             events == Append(plan.events, [key |-> key, down |-> down])
  <2>1. SetPressed(plan, key, down) = [held |-> held, events |-> events, refused |-> plan.refused]
    BY <1>5 DEF SetPressed, Plan
  <2>2. held \in SUBSET Keys /\ held = SetHeld(plan.held, {key}, down)
    BY <1>1 DEF SetHeld
  <2>3. events \in Seq(KeyEvents)
    BY <1>3
  <2> HIDE DEF held, events
  <2>4. [held |-> held, events |-> events, refused |-> plan.refused] \in Plans
    BY <2>2, <2>3, <1>1 DEF Plans
  <2>5. [held |-> held, events |-> events, refused |-> plan.refused].held = held
    OBVIOUS
  <2> QED
    BY <2>1, <2>2, <2>4, <2>5
<1> QED
    BY <1>4, <1>5

(* A run of set_pressed(): these keys are held, or are not. *)
LEMMA SetAllFacts ==
    ASSUME NEW K, Closed(K), NEW plan \in K, NEW keys \in Seq(Keys), NEW down \in BOOLEAN
    PROVE  /\ SetAll(plan, keys, down) \in K
           /\ SetAll(plan, keys, down).held = SetHeld(plan.held, Range(keys), down)
<1>1. \A q \in K, e \in Keys : SetPressed(q, e, down) \in K
    BY DEF Closed
<1>2. PICK h \in [0..Len(keys) -> K] :
          h[0] = plan /\ SetAll(plan, keys, down) = h[Len(keys)] /\ Setting(h, keys, down)
    BY <1>1, SetAllFold
<1>n. Len(keys) \in Nat /\ DOMAIN keys = 1..Len(keys) /\ \A i \in 1..Len(keys) : keys[i] \in Keys
    BY LenProperties
<1> DEFINE Some(i) == {keys[j] : j \in 1..i}
           P == {i \in 0..Len(keys) : h[i].held = SetHeld(plan.held, Some(i), down)}
<1>3. 0 \in P
  <2>1. Some(0) = {}
    OBVIOUS
  <2>2. plan.held \in SUBSET Keys
    BY DEF Closed, Plans
  <2> HIDE DEF Some
  <2>3. h[0].held = SetHeld(plan.held, Some(0), down)
    BY <1>2, <2>1, <2>2 DEF SetHeld
  <2> QED
    BY <1>n, <2>3
<1>4. ASSUME NEW i \in 1..Len(keys), i - 1 \in P PROVE i \in P
  <2>1. h[i].held = SetHeld(h[i - 1].held, {keys[i]}, down)
    <3>1. h[i] = SetPressed(h[i - 1], keys[i], down)
        BY <1>2 DEF Setting
    <3>2. h[i - 1] \in Plans /\ keys[i] \in Keys
        BY <1>n DEF Closed
    <3>3. SetPressed(h[i - 1], keys[i], down).held = SetHeld(h[i - 1].held, {keys[i]}, down)
        BY <3>2, SetPressedFacts
    <3> QED
        BY <3>1, <3>3
  <2>2. Some(i) = Some(i - 1) \cup {keys[i]}
    BY <1>n
  <2>3. h[i - 1].held = SetHeld(plan.held, Some(i - 1), down)
    BY <1>4
  <2> HIDE DEF Some
  <2>4. h[i].held = SetHeld(plan.held, Some(i), down)
    BY <2>1, <2>2, <2>3 DEF SetHeld
  <2> QED
    BY <2>4
<1>5. Len(keys) \in P
  <2> HIDE DEF P
  <2>1. \A i \in 0..Len(keys) : i \in P
    BY <1>3, <1>4, <1>n, RangeInduction
  <2> QED
    BY <2>1, <1>n
<1>6. Some(Len(keys)) = Range(keys)
    BY <1>n DEF Range
<1>7. h[Len(keys)] \in K
    BY <1>n
<1> HIDE DEF Some
<1> QED
    BY <1>2, <1>5, <1>6, <1>7

(* A sequence reversed has the same elements. *)
LEMMA ReverseFacts ==
    ASSUME NEW keys \in Seq(Keys)
    PROVE  Reverse(keys) \in Seq(Keys) /\ Range(Reverse(keys)) = Range(keys)
<1>n. Len(keys) \in Nat /\ DOMAIN keys = 1..Len(keys) /\ \A i \in 1..Len(keys) : keys[i] \in Keys
    BY LenProperties
<1> DEFINE n == Len(keys)
           r == Reverse(keys)
<1>1. r = [i \in 1..n |-> keys[(n - i) + 1]]
    BY DEF Reverse
<1>2. \A i \in 1..n : (n - i) + 1 \in 1..n /\ (n - ((n - i) + 1)) + 1 = i
    BY <1>n
<1>3. r \in [1..n -> Keys] /\ n \in Nat
    BY <1>1, <1>2, <1>n
<1> HIDE DEF r
<1>4. r \in Seq(Keys)
    BY <1>3, SeqDef
<1>5. DOMAIN r = 1..n
    BY <1>3
<1>6. \A i \in 1..n : r[(n - i) + 1] = keys[i] /\ r[i] = keys[(n - i) + 1]
    BY <1>1, <1>2
<1>7. Range(r) = Range(keys)
    BY <1>2, <1>5, <1>6, <1>n DEF Range
<1> QED
    BY <1>4, <1>7 DEF r

(* press(): what was held and these keys. *)
LEMMA PressFacts ==
    ASSUME NEW K, Closed(K), NEW plan \in K, NEW keys \in Seq(Keys)
    PROVE  Press(plan, keys) \in K /\ Press(plan, keys).held = plan.held \cup Range(keys)
<1>1. Press(plan, keys) = SetAll(plan, keys, TRUE)
    BY DEF Press, SetAll
<1>2. /\ SetAll(plan, keys, TRUE) \in K
      /\ SetAll(plan, keys, TRUE).held = SetHeld(plan.held, Range(keys), TRUE)
    BY SetAllFacts
<1> QED
    BY <1>1, <1>2 DEF SetHeld

(* release(): what was held but these keys. *)
LEMMA ReleaseFacts ==
    ASSUME NEW K, Closed(K), NEW plan \in K, NEW keys \in Seq(Keys)
    PROVE  Release(plan, keys) \in K /\ Release(plan, keys).held = plan.held \ Range(keys)
<1>1. Release(plan, keys) = SetAll(plan, Reverse(keys), FALSE)
    BY DEF Release, SetAll
<1>2. /\ SetAll(plan, Reverse(keys), FALSE) \in K
      /\ SetAll(plan, Reverse(keys), FALSE).held
            = SetHeld(plan.held, Range(Reverse(keys)), FALSE)
    BY ReverseFacts, SetAllFacts
<1> QED
    BY <1>1, <1>2, ReverseFacts DEF SetHeld

(* A sequence without some elements has the others. *)
LEMMA WithoutFacts ==
    ASSUME NEW keys \in Seq(Keys), NEW those
    PROVE  Without(keys, those) \in Seq(Keys) /\ Range(Without(keys, those)) = Range(keys) \ those
<1> DEFINE K == Seq(Keys)
           none == <<>>
           Next1(q, e) == IF e \in those THEN q ELSE Append(q, e)
<1>0. none \in K
    OBVIOUS
<1>1. \A q \in K, e \in Keys : (IF e \in those THEN q ELSE Append(q, e)) \in K
    BY AppendProperties
<1>n. Len(keys) \in Nat /\ DOMAIN keys = 1..Len(keys) /\ \A i \in 1..Len(keys) : keys[i] \in Keys
    BY LenProperties
<1>w. Without(keys, those) = Kept(none, keys, those)
    BY DEF Without, Kept
<1>2. PICK h \in [0..Len(keys) -> K] :
          h[0] = none /\ Kept(none, keys, those) = h[Len(keys)] /\ Keeping(h, keys, those)
  <2> HIDE DEF K, none
  <2> QED
    BY <1>0, <1>1, KeptFold
<1> DEFINE Some(i) == {keys[j] : j \in 1..i}
           P == {i \in 0..Len(keys) : Range(h[i]) = Some(i) \ those}
<1>3. 0 \in P
  <2>1. Some(0) = {}
    OBVIOUS
  <2>2. Range(none) = {}
    BY DEF Range
  <2> HIDE DEF Some, none
  <2>3. Range(h[0]) = Some(0) \ those
    BY <1>2, <2>1, <2>2
  <2> QED
    BY <1>n, <2>3
<1>4. ASSUME NEW i \in 1..Len(keys), i - 1 \in P PROVE i \in P
  <2>1. h[i] = IF keys[i] \in those THEN h[i - 1] ELSE Append(h[i - 1], keys[i])
    BY <1>2 DEF Keeping
  <2>2. Some(i) = Some(i - 1) \cup {keys[i]}
    BY <1>n
  <2>3. Range(h[i - 1]) = Some(i - 1) \ those /\ h[i - 1] \in Seq(Keys) /\ keys[i] \in Keys
    BY <1>4, <1>n
  <2>4. Range(Append(h[i - 1], keys[i])) = Range(h[i - 1]) \cup {keys[i]}
    <3> DEFINE s == h[i - 1]
               t == Append(s, keys[i])
    <3>1. /\ t \in Seq(Keys) /\ Len(t) = Len(s) + 1 /\ Len(s) \in Nat
          /\ DOMAIN s = 1..Len(s) /\ DOMAIN t = 1..Len(t)
          /\ \A j \in 1..Len(s) : t[j] = s[j]
          /\ t[Len(s) + 1] = keys[i]
        BY <2>3, AppendProperties, LenProperties
    <3> HIDE DEF s, t
    <3>2. Range(t) = Range(s) \cup {keys[i]}
        BY <3>1 DEF Range
    <3> QED
        BY <3>2 DEF s, t
  <2> HIDE DEF Some
  <2>5. Range(h[i]) = Some(i) \ those
    BY <2>1, <2>2, <2>3, <2>4
  <2> QED
    BY <2>5
<1>5. Len(keys) \in P
  <2> HIDE DEF P
  <2>1. \A i \in 0..Len(keys) : i \in P
    BY <1>3, <1>4, <1>n, RangeInduction
  <2> QED
    BY <2>1, <1>n
<1>6. Some(Len(keys)) = Range(keys)
    BY <1>n DEF Range
<1>7. h[Len(keys)] \in K
    BY <1>n
<1> HIDE DEF Some
<1> QED
    BY <1>2, <1>5, <1>6, <1>7, <1>w

(* Keys that are not held, pressed and released any number of times, are not held. *)
LEMMA RepeatedFacts ==
    ASSUME NEW K, Closed(K), NEW plan \in K, NEW keys \in Seq(Keys), NEW times \in Seq(Nat),
           plan.held \cap Range(keys) = {}
    PROVE  Repeated(plan, keys, times) \in K /\ Repeated(plan, keys, times).held = plan.held
<1>1. ASSUME NEW q \in K
      PROVE  /\ Release(Press(q, keys), keys) \in K
             /\ q.held \cap Range(keys) = {} => Release(Press(q, keys), keys).held = q.held
  <2>1. Press(q, keys) \in K /\ Press(q, keys).held = q.held \cup Range(keys)
    BY PressFacts
  <2>2. /\ Release(Press(q, keys), keys) \in K
        /\ Release(Press(q, keys), keys).held = Press(q, keys).held \ Range(keys)
    BY <2>1, ReleaseFacts
  <2> QED
    BY <2>1, <2>2
<1>2. PICK h \in [0..Len(times) -> K] :
          /\ h[0] = plan /\ Repeated(plan, keys, times) = h[Len(times)]
          /\ Repeating(h, keys, times)
  <2>1. \A q \in K, e \in Nat : Release(Press(q, keys), keys) \in K
    BY <1>1
  <2> QED
    BY <2>1, RepeatedFold
<1>n. Len(times) \in Nat
    BY LenProperties
<1> DEFINE P == {i \in 0..Len(times) : h[i].held = plan.held}
<1>3. 0 \in P
    BY <1>2, <1>n
<1>4. ASSUME NEW i \in 1..Len(times), i - 1 \in P PROVE i \in P
  <2>1. h[i - 1] \in K /\ h[i - 1].held = plan.held
    BY <1>4, <1>n
  <2> QED
    BY <2>1, <1>1, <1>2 DEF Repeating
<1>5. Len(times) \in P
  <2> HIDE DEF P
  <2>1. \A i \in 0..Len(times) : i \in P
    BY <1>3, <1>4, <1>n, RangeInduction
  <2> QED
    BY <2>1, <1>n
<1>7. h[Len(times)] \in K
    BY <1>n
<1> QED
    BY <1>2, <1>5, <1>7

ResolvedStrokes == [modifiers : Seq(Keys), key : Keys \cup {NoKey}, action : Actions,
                    repeat : Nat]

(* A tap holds what was held. *)
LEMMA TapFacts ==
    ASSUME NEW K, Closed(K), NEW plan \in K, NEW stroke \in ResolvedStrokes
    PROVE  Tap(plan, stroke) \in K /\ Tap(plan, stroke).held = plan.held
<1> DEFINE here == Without(stroke.modifiers, plan.held)
           times == [i \in 1..stroke.repeat |-> i]
           pressed == Press(plan, here)
           one == <<stroke.key>>
           mid == Repeated(pressed, one, times)
<1>1. /\ stroke.modifiers \in Seq(Keys) /\ stroke.repeat \in Nat
      /\ stroke.key \in Keys \cup {NoKey}
    BY DEF ResolvedStrokes
<1>2. here \in Seq(Keys) /\ Range(here) \cap plan.held = {}
    BY <1>1, WithoutFacts
<1>3. times \in Seq(Nat)
  <2>1. times \in [1..stroke.repeat -> Nat]
    BY <1>1
  <2> QED
    BY <1>1, <2>1, SeqDef
<1>4. plan \in Plans
    BY DEF Closed
<1>5. Tap(plan, stroke) =
        IF stroke.key = NoKey THEN Repeated(plan, here, times)
        ELSE IF stroke.key \in pressed.held THEN [plan EXCEPT !.refused = TRUE]
        ELSE Release(mid, here)
  <2>1. \A p, keys : Tapped(p, keys, stroke.repeat) = Repeated(p, keys, times)
    BY Zenon DEF Tapped, Repeated
  <2> QED
    BY <2>1 DEF Tap
<1> HIDE DEF here, times
<1>6. CASE stroke.key = NoKey
  <2>1. plan.held \cap Range(here) = {}
    BY <1>2
  <2> QED
    BY <1>2, <1>3, <1>5, <1>6, <2>1, RepeatedFacts
<1>7. CASE stroke.key # NoKey /\ stroke.key \in pressed.held
  <2>1. Tap(plan, stroke) = [plan EXCEPT !.refused = TRUE]
    BY <1>5, <1>7
  <2>2. [plan EXCEPT !.refused = TRUE] \in K
    BY DEF Closed
  <2>3. [plan EXCEPT !.refused = TRUE].held = plan.held
    BY <1>4 DEF Plans
  <2> QED
    BY <2>1, <2>2, <2>3
<1>8. CASE stroke.key # NoKey /\ stroke.key \notin pressed.held
  <2>1. pressed \in K /\ pressed.held = plan.held \cup Range(here)
    BY <1>2, PressFacts
  <2>2. one \in Seq(Keys) /\ Range(one) = {stroke.key}
    BY <1>1, <1>8 DEF Range
  <2> HIDE DEF pressed, one
  <2>3. mid \in K /\ mid.held = pressed.held
    BY <1>3, <1>8, <2>1, <2>2, RepeatedFacts
  <2> HIDE DEF mid
  <2>4. Release(mid, here) \in K /\ Release(mid, here).held = mid.held \ Range(here)
    BY <1>2, <2>3, ReleaseFacts
  <2>5. Tap(plan, stroke) = Release(mid, here)
    BY <1>5, <1>8
  <2>6. plan.held \subseteq Keys
    BY <1>4 DEF Plans
  <2> QED
    BY <1>2, <2>1, <2>3, <2>4, <2>5
<1> QED
    BY <1>6, <1>7, <1>8

(* A tap holds what was held; a stroke that goes down lets go of nothing. *)
LEMMA PlanStrokeFacts ==
    ASSUME NEW K, Closed(K), NEW plan \in K, NEW stroke \in ResolvedStrokes
    PROVE  /\ PlanStroke(plan, stroke) \in K
           /\ stroke.action = "tap" => PlanStroke(plan, stroke).held = plan.held
           /\ stroke.action = "down" => plan.held \subseteq PlanStroke(plan, stroke).held
<1> DEFINE keys == stroke.modifiers \o IF stroke.key = NoKey THEN <<>> ELSE <<stroke.key>>
<1>1. /\ stroke.modifiers \in Seq(Keys) /\ stroke.key \in Keys \cup {NoKey}
      /\ stroke.action \in Actions
    BY DEF ResolvedStrokes
<1>2. keys \in Seq(Keys)
  <2>1. (IF stroke.key = NoKey THEN <<>> ELSE <<stroke.key>>) \in Seq(Keys)
    BY <1>1
  <2> QED
    BY <1>1, <2>1, ConcatProperties
<1>4. Press(plan, keys) \in K /\ plan.held \subseteq Press(plan, keys).held
    BY <1>2, PressFacts
<1>5. Release(plan, keys) \in K
    BY <1>2, ReleaseFacts
<1>6. Tap(plan, stroke) \in K /\ Tap(plan, stroke).held = plan.held
    BY TapFacts
<1>7. PlanStroke(plan, stroke) =
        IF plan.refused THEN plan
        ELSE IF stroke.action = "tap" THEN Tap(plan, stroke)
        ELSE IF stroke.action = "down" THEN Press(plan, keys) ELSE Release(plan, keys)
    BY DEF PlanStroke
<1>8. plan.held = plan.held /\ plan.held \subseteq plan.held
    OBVIOUS
<1> HIDE DEF keys
<1> QED
    BY <1>4, <1>5, <1>6, <1>7, <1>8 DEF Actions

(* One more event, after the others. *)
LEMMA AllSentNext ==
    ASSUME NEW k \in Keyboards, NEW events \in Seq(KeyEvents), NEW e \in KeyEvents
    PROVE  AllSent(k, Append(events, e)) = Sent(AllSent(k, events), e)
<1> DEFINE more == Append(events, e)
           n == Len(events)
<1>1. \A q \in Keyboards, x \in KeyEvents : Sent(q, x) \in Keyboards
    BY SentFacts DEF Follows
<1>2. /\ more \in Seq(KeyEvents) /\ Len(more) = n + 1 /\ n \in Nat
      /\ \A i \in 1..n : more[i] = events[i]
      /\ more[n + 1] = e
    BY AppendProperties, LenProperties
<1> HIDE DEF more
<1>3. PICK h \in [0..Len(events) -> Keyboards] :
          h[0] = k /\ AllSent(k, events) = h[Len(events)] /\ Sending(h, events)
    BY <1>1, AllSentFold
<1>4. PICK g \in [0..Len(more) -> Keyboards] :
          g[0] = k /\ AllSent(k, more) = g[Len(more)] /\ Sending(g, more)
    BY <1>1, <1>2, AllSentFold
<1>5. \A i \in 1..n : h[i] = Sent(h[i - 1], events[i]) /\ g[i] = Sent(g[i - 1], events[i])
    BY <1>2, <1>3, <1>4 DEF Sending
<1> DEFINE P == {i \in 0..n : g[i] = h[i]}
<1>6. 0 \in P
    BY <1>2, <1>3, <1>4
<1>7. ASSUME NEW i \in 1..n, i - 1 \in P PROVE i \in P
    BY <1>2, <1>5, <1>7
<1>8. n \in P
  <2> HIDE DEF P
  <2>1. \A i \in 0..n : i \in P
    BY <1>6, <1>7, <1>2, RangeInduction
  <2> QED
    BY <2>1, <1>2
<1>9. g[n + 1] = Sent(g[n + 1 - 1], more[n + 1])
  <2>1. n + 1 \in 1..Len(more)
    BY <1>2
  <2> QED
    BY <2>1, <1>4 DEF Sending
<1>10. g[n + 1] = Sent(g[n], e)
    BY <1>9, <1>2
<1> QED
    BY <1>2, <1>3, <1>4, <1>8, <1>10 DEF more

(* The plans that, emitted, leave the keyboard k holding what they say. *)
Tracked(k) == {p \in Plans : AllSent(k, p.events).held = p.held}

(* Planning, from a plan that tells what its events do, makes plans that tell it. *)
LEMMA TrackedClosed ==
    ASSUME NEW k \in Keyboards
    PROVE  Closed(Tracked(k))
<1>1. Tracked(k) \subseteq Plans
    BY DEF Tracked
<1>2. ASSUME NEW q \in Tracked(k), NEW key \in Keys, NEW down \in BOOLEAN
      PROVE  SetPressed(q, key, down) \in Tracked(k)
  <2>0. q \in Plans /\ AllSent(k, q.events).held = q.held
    BY DEF Tracked
  <2>1. CASE (key \in q.held) = down
    BY <2>0, <2>1, <1>2 DEF SetPressed
  <2>2. CASE (key \in q.held) # down
    <3> DEFINE e == [key |-> key, down |-> down]
               r == SetPressed(q, key, down)
    <3>0. e \in KeyEvents /\ e.key = key /\ e.down = down
        BY DEF KeyEvents
    <3>1. r \in Plans /\ r.held = SetHeld(q.held, {key}, down)
        BY <2>0, SetPressedFacts
    <3>2. r.events = Append(q.events, e)
        BY <2>2 DEF SetPressed, Plan
    <3>3. q.events \in Seq(KeyEvents)
        BY <2>0 DEF Plans
    <3> HIDE DEF r, e
    <3>4. AllSent(k, r.events) = Sent(AllSent(k, q.events), e)
        BY <3>0, <3>2, <3>3, AllSentNext
    <3>5. AllSent(k, q.events) \in Keyboards
        BY <3>3, AllSentFollows DEF Follows
    <3>6. AllSent(k, r.events).held = HeldAfter(q.held, e)
        BY <2>0, <3>0, <3>4, <3>5, SentFacts
    <3>7. AllSent(k, r.events).held = r.held
        BY <3>0, <3>1, <3>6 DEF HeldAfter, SetHeld
    <3>8. r \in Tracked(k)
        BY <3>1, <3>7 DEF Tracked
    <3> QED
        BY <3>8 DEF r
  <2> QED
    BY <2>1, <2>2
<1>3. ASSUME NEW q \in Tracked(k) PROVE [q EXCEPT !.refused = TRUE] \in Tracked(k)
  <2>1. q \in Plans /\ AllSent(k, q.events).held = q.held
    BY DEF Tracked
  <2> DEFINE r == [q EXCEPT !.refused = TRUE]
  <2>2. r \in Plans /\ r.events = q.events /\ r.held = q.held
    BY <2>1 DEF Plans
  <2> HIDE DEF r
  <2>3. r \in Tracked(k)
    BY <2>1, <2>2 DEF Tracked
  <2> QED
    BY <2>3 DEF r
<1> QED
    BY <1>1, <1>2, <1>3 DEF Closed

(* Strokes of one action only: taps, and the downs of a chord. *)
AllTaps(strokes) == \A i \in 1..Len(strokes) : strokes[i].action = "tap"
AllDowns(strokes) == \A i \in 1..Len(strokes) : strokes[i].action = "down"

(* A sequence of strokes: the same, stroke by stroke. *)
LEMMA PlannedFacts ==
    ASSUME NEW K, Closed(K), NEW plan \in K, NEW strokes \in Seq(ResolvedStrokes)
    PROVE  /\ Planned(plan, strokes) \in K
           /\ AllTaps(strokes) => Planned(plan, strokes).held = plan.held
           /\ AllDowns(strokes) => plan.held \subseteq Planned(plan, strokes).held
<1>n. Len(strokes) \in Nat /\ \A i \in 1..Len(strokes) : strokes[i] \in ResolvedStrokes
    BY LenProperties
<1>1. \A q \in K, e \in ResolvedStrokes : PlanStroke(q, e) \in K
    BY PlanStrokeFacts
<1>2. PICK h \in [0..Len(strokes) -> K] :
          /\ h[0] = plan /\ Planned(plan, strokes) = h[Len(strokes)]
          /\ Planning(h, strokes)
    BY <1>1, PlannedFold
<1>3. ASSUME NEW i \in 1..Len(strokes)
      PROVE  /\ strokes[i].action = "tap" => h[i].held = h[i - 1].held
             /\ strokes[i].action = "down" => h[i - 1].held \subseteq h[i].held
  <2>1. h[i - 1] \in K /\ h[i] = PlanStroke(h[i - 1], strokes[i])
    BY <1>n, <1>2 DEF Planning
  <2>2. strokes[i] \in ResolvedStrokes
    BY <1>n
  <2> QED
    BY <2>1, <2>2, PlanStrokeFacts
<1>4. ASSUME AllTaps(strokes) PROVE h[Len(strokes)].held = plan.held
  <2> DEFINE P == {i \in 0..Len(strokes) : h[i].held = plan.held}
  <2>1. 0 \in P
    BY <1>2, <1>n
  <2>2. ASSUME NEW i \in 1..Len(strokes), i - 1 \in P PROVE i \in P
    BY <1>3, <1>4, <2>2 DEF AllTaps
  <2> HIDE DEF P
  <2>3. \A i \in 0..Len(strokes) : i \in P
    BY <2>1, <2>2, <1>n, RangeInduction
  <2> QED
    BY <2>3, <1>n DEF P
<1>5. ASSUME AllDowns(strokes) PROVE plan.held \subseteq h[Len(strokes)].held
  <2> DEFINE P == {i \in 0..Len(strokes) : plan.held \subseteq h[i].held}
  <2>1. 0 \in P
    BY <1>2, <1>n
  <2>2. ASSUME NEW i \in 1..Len(strokes), i - 1 \in P PROVE i \in P
    BY <1>3, <1>5, <2>2 DEF AllDowns
  <2> HIDE DEF P
  <2>3. \A i \in 0..Len(strokes) : i \in P
    BY <2>1, <2>2, <1>n, RangeInduction
  <2> QED
    BY <2>3, <1>n DEF P
<1>6. h[Len(strokes)] \in K
    BY <1>n
<1> QED
    BY <1>2, <1>4, <1>5, <1>6

(* A plan, emitted to its end, leaves held what the plan says. *)
LEMMA EmittedPlan ==
    ASSUME NEW k \in Keyboards, NEW strokes \in Seq(ResolvedStrokes)
    PROVE  LET plan == PlanKeyEvents(strokes, k.held)
           IN  /\ plan \in Plans
               /\ AllSent(k, plan.events).held = plan.held
               /\ AllTaps(strokes) => plan.held = k.held
               /\ AllDowns(strokes) => k.held \subseteq plan.held
<1> DEFINE none == Plan(k.held, <<>>, FALSE)
           plan == PlanKeyEvents(strokes, k.held)
           last == Planned(none, strokes)
<1>1. none \in Plans /\ none.events = <<>> /\ none.held = k.held
  <2>1. k.held \in SUBSET Keys /\ <<>> \in Seq(KeyEvents)
    BY DEF Keyboards
  <2> QED
    BY <2>1 DEF Plans, Plan
<1>2. AllSent(k, <<>>) = k
  <2>1. \A q \in Keyboards, x \in KeyEvents : Sent(q, x) \in Keyboards
    BY SentFacts DEF Follows
  <2>2. <<>> \in Seq(KeyEvents) /\ Len(<<>>) = 0
    OBVIOUS
  <2>3. PICK h \in [0..Len(<<>>) -> Keyboards] :
          h[0] = k /\ AllSent(k, <<>>) = h[Len(<<>>)] /\ Sending(h, <<>>)
    BY <2>1, <2>2, AllSentFold
  <2> QED
    BY <2>2, <2>3
<1>3. none \in Tracked(k)
    BY <1>1, <1>2 DEF Tracked
<1>4. plan = last
    BY DEF PlanKeyEvents, Planned
<1> HIDE DEF none, plan, last
<1>5. /\ last \in Tracked(k)
      /\ AllTaps(strokes) => last.held = none.held
      /\ AllDowns(strokes) => none.held \subseteq last.held
    BY <1>3, TrackedClosed, PlannedFacts DEF last
<1>6. /\ plan \in Plans /\ AllSent(k, plan.events).held = plan.held
      /\ AllTaps(strokes) => plan.held = k.held
      /\ AllDowns(strokes) => k.held \subseteq plan.held
    BY <1>1, <1>4, <1>5 DEF Tracked
<1> QED
    BY <1>6 DEF plan

-----------------------------------------------------------------------------
(* The index of a keymap. *)

(* Max of a finite set of naturals is one of them. *)
LEMMA MaxOfSet ==
    ASSUME NEW S \in SUBSET Nat, IsFiniteSet(S), S # {}
    PROVE  Max(S) \in S
<1> DEFINE P == {s \in SUBSET S : s = {} \/ \E x \in s : \A y \in s : x >= y}
<1>1. {} \in P
    OBVIOUS
<1>2. ASSUME NEW s \in SUBSET S, s # {}, \A x \in s : s \ {x} \in P PROVE s \in P
  <2>1. PICK x \in s : TRUE
    BY <1>2
  <2>2. x \in Nat /\ \A y \in s : y \in Nat
    OBVIOUS
  <2>3. CASE s \ {x} = {}
    <3>1. \A y \in s : x >= y
        BY <2>2, <2>3
    <3> QED
        BY <3>1
  <2>4. CASE s \ {x} # {}
    <3>1. PICK m \in s \ {x} : \A y \in s \ {x} : m >= y
        BY <1>2, <2>4
    <3>2. CASE x >= m
      <4>1. \A y \in s : x >= y
        BY <2>2, <3>1, <3>2
      <4> QED
        BY <4>1
    <3>3. CASE ~(x >= m)
      <4>1. \A y \in s : m >= y
        BY <2>2, <3>1, <3>3
      <4> QED
        BY <3>1, <4>1
    <3> QED
        BY <3>2, <3>3
  <2> QED
    BY <2>3, <2>4
<1>3. S \in P
  <2> HIDE DEF P
  <2>1. P \in SUBSET (SUBSET S)
    BY DEF P
  <2> QED
    BY <1>1, <1>2, <2>1, SubsetInduction
<1>4. \E x \in S : \A y \in S : x >= y
    BY <1>3
<1> QED
    BY <1>4 DEF Max

(* SetToSeq() of a finite set is a sequence of its elements. *)
LEMMA SetToSeqFacts ==
    ASSUME NEW S, IsFiniteSet(S)
    PROVE  SetToSeq(S) \in Seq(S) /\ Range(SetToSeq(S)) = S
<1> DEFINE n == Cardinality(S)
           f == SetToSeq(S)
<1>1. n \in Nat /\ ExistsBijection(1..n, S)
    BY FS_CardinalityType
<1>2. PICK b \in Bijection(1..n, S) : TRUE
    BY <1>1 DEF ExistsBijection
<1>3. b \in [1..n -> S] /\ IsInjective(b)
    BY <1>2 DEF Bijection, Injection
<1>4. f \in [1..n -> S] /\ IsInjective(f)
    BY <1>3 DEF SetToSeq
<1>5. f \in Injection(1..n, S)
    BY <1>4 DEF Injection
<1>6. IsFiniteSet(1..n) /\ Cardinality(1..n) = n
    BY <1>1, FS_Interval
<1> HIDE DEF f
<1>7. f \in Surjection(1..n, S)
    BY <1>5, <1>6, FS_Injection
<1>8. \A t \in S : \E s \in 1..n : f[s] = t
    BY <1>7 DEF Surjection
<1>9. Range(f) = S
    BY <1>4, <1>8 DEF Range
<1> HIDE DEF n
<1>10. f \in Seq(S)
    BY <1>1, <1>4, SeqDef
<1> QED
    BY <1>9, <1>10 DEF f

(* The parts of the index of a keymap. *)
Shows(m, l, key, mods) == Symbols[m][key][mods \cup l]
Bases(m, l, name) == {key \in Keys : Shows(m, l, key, {}) = name}
Levels(m, l) == {Max(Bases(m, l, name)) : name \in {n \in LevelNames : Bases(m, l, n) # {}}}
Ways(m, l, name) ==
    {w \in [code : Keys, mods : SUBSET Levels(m, l)] : Shows(m, l, w.code, w.mods) = name}
Shown(m, l) == {Shows(m, l, w.code, w.mods) : w \in [code : Keys, mods : SUBSET Levels(m, l)]}
IsFirst(w, ways) ==
    \A v \in ways : /\ Cardinality(w.mods) <= Cardinality(v.mods)
                    /\ w.mods = v.mods => w.code <= v.code
FirstWay(m, l, name) == CHOOSE w \in Ways(m, l, name) : IsFirst(w, Ways(m, l, name))

(* _build_key_index() makes its index of these parts. *)
LEMMA IndexIs ==
    ASSUME NEW m \in Keymaps, NEW l \in Locks
    PROVE  Index[m][l] =
             [keys |-> [name \in Shown(m, l) \ {NoKey} |->
                          [code |-> FirstWay(m, l, name).code,
                           implicit |-> SetToSeq(FirstWay(m, l, name).mods)]],
              modifiers |-> [name \in {n \in ModifierNames : Bases(m, l, n) # {}} |->
                               Max(Bases(m, l, name))]]
BY DEF Index, Shows, Bases, Levels, Ways, Shown, IsFirst, FirstWay

(* The last key that shows a name is a key. *)
LEMMA BasesFacts ==
    ASSUME NEW m, NEW l, NEW name, Bases(m, l, name) # {}
    PROVE  Max(Bases(m, l, name)) \in Keys
<1>1. Bases(m, l, name) \in SUBSET Keys
    BY DEF Bases
<1>2. Bases(m, l, name) \in SUBSET Nat /\ IsFiniteSet(Bases(m, l, name))
    BY <1>1, KeysAssumption, FS_Subset
<1> QED
    BY <1>1, <1>2, MaxOfSet

(* There is a first way to show a symbol that is shown: fewest modifiers, lowest
   keycode. *)
LEMMA FirstWayFacts ==
    ASSUME NEW m, NEW l, NEW name \in Shown(m, l)
    PROVE  FirstWay(m, l, name) \in Ways(m, l, name)
<1> DEFINE ways == Ways(m, l, name)
<1>1. Levels(m, l) \subseteq Keys
    BY BasesFacts DEF Levels
<1>2. PICK w0 \in [code : Keys, mods : SUBSET Levels(m, l)] :
          Shows(m, l, w0.code, w0.mods) = name
    BY DEF Shown
<1>3. w0 \in ways /\ \A w \in ways : w.code \in Keys /\ w.mods \in SUBSET Keys
    BY <1>1, <1>2 DEF Ways
<1> HIDE DEF ways
<1>4. \A w \in ways : w.code \in Nat /\ Cardinality(w.mods) \in Nat
    BY <1>3, KeysAssumption, FS_Subset, FS_CardinalityType
<1> DEFINE Counts == {Cardinality(w.mods) : w \in ways}
<1>5. PICK n \in Counts : \A k \in Counts : n <= k
  <2>1. Counts \in SUBSET Nat /\ Counts # {}
    BY <1>3, <1>4
  <2> HIDE DEF Counts
  <2> QED
    BY <2>1, LeastNat
<1>6. PICK w1 \in ways : n = Cardinality(w1.mods)
    OBVIOUS
<1> DEFINE Codes1 == {w.code : w \in {v \in ways : v.mods = w1.mods}}
<1>7. PICK c \in Codes1 : \A k \in Codes1 : c <= k
  <2>1. Codes1 \in SUBSET Nat /\ Codes1 # {}
    BY <1>4
  <2> HIDE DEF Codes1
  <2> QED
    BY <2>1, LeastNat
<1>8. PICK w2 \in ways : w2.mods = w1.mods /\ c = w2.code
    OBVIOUS
<1>9. IsFirst(w2, ways)
    BY <1>5, <1>6, <1>7, <1>8 DEF IsFirst
<1> QED
    BY <1>9 DEF FirstWay, ways

(* The two parts of the index. *)
KeyIndex(m, l) == [name \in Shown(m, l) \ {NoKey} |->
                     [code |-> FirstWay(m, l, name).code,
                      implicit |-> SetToSeq(FirstWay(m, l, name).mods)]]
ModifierIndex(m, l) == [name \in {n \in ModifierNames : Bases(m, l, n) # {}} |->
                          Max(Bases(m, l, name))]

(* The index has these two parts. *)
LEMMA IndexParts ==
    ASSUME NEW m \in Keymaps, NEW l \in Locks
    PROVE  Index[m][l].keys = KeyIndex(m, l) /\ Index[m][l].modifiers = ModifierIndex(m, l)
<1>1. Index[m][l] = [keys |-> KeyIndex(m, l), modifiers |-> ModifierIndex(m, l)]
    BY IndexIs DEF KeyIndex, ModifierIndex
<1> QED
    BY <1>1

(* An entry of the index of this keymap and these locks shows this symbol. *)
IsKey(entry) == entry.code \in Keys /\ entry.implicit \in Seq(Keys)
EntryShows(m, l, entry, name) ==
    Symbols[m][entry.code][Range(entry.implicit) \cup l] = name

(* What resolve_key() finds shows the symbol that was asked for. *)
LEMMA EntryFacts ==
    ASSUME NEW m \in Keymaps, NEW l \in Locks, NEW name \in DOMAIN Index[m][l].keys
    PROVE  /\ IsKey(Index[m][l].keys[name])
           /\ EntryShows(m, l, Index[m][l].keys[name], name)
<1> DEFINE entry == Index[m][l].keys[name]
           w == FirstWay(m, l, name)
<1>1. name \in Shown(m, l) /\ entry = [code |-> w.code, implicit |-> SetToSeq(w.mods)]
    BY IndexParts DEF KeyIndex
<1>2. w \in Ways(m, l, name)
    BY <1>1, FirstWayFacts
<1>3. Levels(m, l) \subseteq Keys
    BY BasesFacts DEF Levels
<1>4. w.code \in Keys /\ w.mods \in SUBSET Keys /\ Symbols[m][w.code][w.mods \cup l] = name
    BY <1>2, <1>3 DEF Ways, Shows
<1> HIDE DEF w, entry
<1>5. IsFiniteSet(w.mods)
    BY <1>4, KeysAssumption, FS_Subset
<1>6. SetToSeq(w.mods) \in Seq(w.mods) /\ Range(SetToSeq(w.mods)) = w.mods
    BY <1>5, SetToSeqFacts
<1>7. SetToSeq(w.mods) \in Seq(Keys)
    BY <1>4, <1>6
<1>8. entry.code = w.code /\ entry.implicit = SetToSeq(w.mods)
    BY <1>1
<1>9. IsKey(entry) /\ EntryShows(m, l, entry, name)
    BY <1>4, <1>6, <1>7, <1>8 DEF IsKey, EntryShows
<1> QED
    BY <1>9 DEF entry

(* What names resolve to are keycodes. *)
LEMMA IndexFacts ==
    ASSUME NEW m \in Keymaps, NEW l \in Locks
    PROVE  /\ \A name \in DOMAIN Index[m][l].modifiers : Index[m][l].modifiers[name] \in Keys
           /\ \A name \in DOMAIN Index[m][l].keys : IsKey(Index[m][l].keys[name])
<1>1. ASSUME NEW name \in DOMAIN Index[m][l].modifiers
      PROVE  Index[m][l].modifiers[name] \in Keys
  <2>1. Index[m][l].modifiers = ModifierIndex(m, l)
    BY IndexParts
  <2>2. name \in DOMAIN ModifierIndex(m, l)
    BY <2>1
  <2>3. Bases(m, l, name) # {} /\ ModifierIndex(m, l)[name] = Max(Bases(m, l, name))
    BY <2>2 DEF ModifierIndex
  <2> QED
    BY <2>1, <2>3, BasesFacts
<1>2. ASSUME NEW name \in DOMAIN Index[m][l].keys
      PROVE  IsKey(Index[m][l].keys[name])
    BY EntryFacts
<1> QED
    BY <1>1, <1>2

(* _resolve_strokes() resolves a stroke to keycodes, with the same action. *)
LEMMA ResolvedFacts ==
    ASSUME NEW x \in Xkb, NEW stroke \in Strokes, Resolves(x, stroke)
    PROVE  Resolved(x, stroke) \in ResolvedStrokes /\ Resolved(x, stroke).action = stroke.action
<1> DEFINE index == Indexed(x)
           explicit == Codes(x, stroke.modifiers)
           entry == index.keys[stroke.key]
<1>0. x.keymap \in Keymaps /\ x.indexed \in Locks
    BY DEF Xkb
<1>1. /\ \A name \in DOMAIN index.modifiers : index.modifiers[name] \in Keys
      /\ \A name \in DOMAIN index.keys : IsKey(index.keys[name])
    BY <1>0, IndexFacts DEF Indexed
<1>2. /\ stroke.modifiers \in Seq(STRING) /\ stroke.action \in Actions /\ stroke.repeat \in Nat
      /\ Range(stroke.modifiers) \subseteq DOMAIN index.modifiers
      /\ stroke.key \in {NoKey} \cup DOMAIN index.keys
    BY DEF Strokes, Resolves
<1>3. explicit = [i \in DOMAIN stroke.modifiers |-> index.modifiers[stroke.modifiers[i]]]
    BY DEF Codes
<1>4. explicit \in Seq(Keys)
  <2>1. DOMAIN stroke.modifiers = 1..Len(stroke.modifiers) /\ Len(stroke.modifiers) \in Nat
    BY <1>2, LenProperties
  <2>2. \A i \in DOMAIN stroke.modifiers : stroke.modifiers[i] \in DOMAIN index.modifiers
    BY <1>2 DEF Range
  <2> HIDE DEF index, explicit
  <2>3. explicit \in [1..Len(stroke.modifiers) -> Keys]
    BY <1>1, <1>3, <2>1, <2>2
  <2> QED
    BY <2>1, <2>3, SeqDef
<1>5. Resolved(x, stroke) =
        IF stroke.key = NoKey THEN [stroke EXCEPT !.modifiers = explicit]
        ELSE [stroke EXCEPT !.modifiers = explicit \o Without(entry.implicit, Range(explicit)),
                            !.key = entry.code]
    BY DEF Resolved
<1> HIDE DEF index, explicit
<1>6. CASE stroke.key = NoKey
    BY <1>2, <1>4, <1>5, <1>6 DEF ResolvedStrokes, Strokes
<1>7. CASE stroke.key # NoKey
  <2> DEFINE implicit == Without(entry.implicit, Range(explicit))
  <2>1. entry.code \in Keys /\ entry.implicit \in Seq(Keys)
    BY <1>1, <1>2, <1>7 DEF IsKey
  <2>2. implicit \in Seq(Keys)
    BY <2>1, WithoutFacts
  <2> HIDE DEF implicit, entry
  <2>3. explicit \o implicit \in Seq(Keys)
    BY <1>4, <2>2, ConcatProperties
  <2>4. Resolved(x, stroke)
          = [stroke EXCEPT !.modifiers = explicit \o implicit, !.key = entry.code]
    BY <1>5, <1>7 DEF implicit
  <2> QED
    BY <1>2, <2>1, <2>3, <2>4 DEF ResolvedStrokes, Strokes
<1> QED
    BY <1>6, <1>7

-----------------------------------------------------------------------------
(* The handlers of the keyboard. *)

(* Restating the locks keeps keymap, pressed keys and index. *)
LEMMA RestatedFacts ==
    ASSUME NEW x \in Xkb, NEW locks \in Locks
    PROVE  LET y == Restated(x, locks)
           IN  /\ y \in Xkb /\ y.keymap = x.keymap /\ y.base = locks
               /\ y.pressed = x.pressed /\ y.indexed = x.indexed
               /\ x.pressed \cap LockKeys = {} => y.locks = locks
<1> DEFINE x0 == [x EXCEPT !.base = locks, !.locks = locks, !.undo = {}]
           K == {y \in Xkb : /\ y.keymap = x.keymap /\ y.base = locks
                             /\ y.pressed = x.pressed /\ y.indexed = x.indexed
                             /\ x.pressed \cap LockKeys = {} => y.locks = locks}
           r == PressedAgain(x0, x.pressed)
<1>1. x0 \in K
    BY DEF Xkb, Locks
<1>2. x.pressed \in SUBSET Keys /\ IsFiniteSet(x.pressed)
    BY KeysAssumption, FS_Subset DEF Xkb
<1>3. ASSUME NEW q \in K, NEW key \in x.pressed PROVE XkbUpdate(q, key, TRUE) \in K
  <2> DEFINE y == XkbUpdate(q, key, TRUE)
  <2>1. q \in Xkb /\ key \in Keys /\ TRUE \in BOOLEAN
    BY <1>2
  <2>2. /\ y \in Xkb /\ y.keymap = q.keymap /\ y.base = q.base /\ y.indexed = q.indexed
        /\ y.pressed = q.pressed \cup {key}
        /\ key \notin LockKeys => y.locks = q.locks
    BY <2>1, XkbUpdateFacts
  <2> HIDE DEF y
  <2>3. y \in K
    BY <2>2
  <2> QED
    BY <2>3 DEF y
<1>4. Restated(x, locks) = r
    BY DEF Restated, PressedAgain
<1> HIDE DEF x0, K
<1>5. \A q \in K, key \in x.pressed : XkbUpdate(q, key, TRUE) \in K
    BY <1>3
<1>6. PICK g \in [SUBSET x.pressed -> K] : r = g[x.pressed]
  <2> DEFINE keys == x.pressed
  <2>1. IsFiniteSet(keys) /\ \A q \in K, key \in keys : XkbUpdate(q, key, TRUE) \in K
    BY <1>2, <1>5
  <2> HIDE DEF keys
  <2>2. \E g \in [SUBSET keys -> K] :
            g[{}] = x0 /\ PressedAgain(x0, keys) = g[keys] /\ Repressing(g, keys)
    BY <1>1, <2>1, PressedFold
  <2> QED
    BY <2>2 DEF keys
<1>7. r \in K
  <2>1. x.pressed \in SUBSET x.pressed
    OBVIOUS
  <2> QED
    BY <1>6, <2>1
<1> QED
    BY <1>4, <1>7 DEF K

(* set_external_state() keeps keymap and pressed keys, and brings the index up to date. *)
LEMMA ExternalFacts ==
    ASSUME NEW x \in Xkb, NEW locks \in Locks
    PROVE  LET y == SetExternalState(x, locks)
           IN  /\ y \in Xkb /\ y.keymap = x.keymap /\ y.pressed = x.pressed
               /\ XkbOk(x) => XkbOk(y)
<1> DEFINE z == Restated(x, locks)
           y == SetExternalState(x, locks)
<1>1. /\ z \in Xkb /\ z.keymap = x.keymap /\ z.base = locks
      /\ z.pressed = x.pressed /\ z.indexed = x.indexed
      /\ x.pressed \cap LockKeys = {} => z.locks = locks
    BY RestatedFacts
<1>2. y = IF locks = x.base THEN x ELSE [z EXCEPT !.indexed = locks]
    BY DEF SetExternalState
<1> HIDE DEF y, z
<1>3. CASE locks = x.base
    BY <1>2, <1>3 DEF y
<1>4. CASE locks # x.base
  <2>1. /\ y \in Xkb /\ y.keymap = z.keymap /\ y.base = z.base /\ y.pressed = z.pressed
        /\ y.locks = z.locks /\ y.indexed = locks
    BY <1>1, <1>2, <1>4 DEF Xkb
  <2>2. XkbOk(y)
    BY <1>1, <2>1 DEF XkbOk
  <2> QED
    BY <1>1, <2>1, <2>2 DEF y
<1> QED
    BY <1>3, <1>4

-----------------------------------------------------------------------------
(* The keyboard between two handlers: what the compositor has down is what the program
   holds, there is one XKB object at most, and of devices that are gone nothing is left down but
   what could not be released. *)
Known(k) ==
    /\ k \in Keyboards
    /\ k.held = k.down /\ k.stuck \subseteq k.refused
    /\ k.xkbs = IF k.xkb = None THEN 0 ELSE 1
    /\ k.xkb # None => XkbOk(k.xkb)
    /\ ~k.device => k.held = {} /\ k.xkb = None /\ k.keymap = None
    /\ k.device => k.source # None /\ k.manager # None
    /\ k.sourceKeymap # None => k.source # None

(* The compositor was told, if there is a device to tell it with. *)
Agrees(k) == k.device => Accord(k)

(* The handler left the keyboard where it was, seat and manager, and no key down. *)
SamePlace(k, q) ==
    /\ q.manager = k.manager /\ q.source = k.source /\ q.sourceKeymap = k.sourceKeymap
    /\ q.stuck = k.stuck

(* Only a handler that raised left something down for good. *)
Spares(k, o) == o.raised \/ o.state.stuck = k.stuck

(* Key events leave a keyboard that is known known, where it was, and agreeing. *)
LEMMA KnownFollows ==
    ASSUME NEW k, NEW q, Known(k), k.device, Follows(k, q)
    PROVE  /\ Known(q) /\ q.device /\ SamePlace(k, q)
           /\ Agrees(k) => Agrees(q)
BY DEF Known, Follows, Frame, Sync, SamePlace, Agrees

(* Releases of keys, some of which may raise: those sent are no longer held. *)
LEMMA ReleasesFacts ==
    ASSUME NEW k \in Keyboards, NEW keys \in SUBSET Keys, NEW o \in Releases(k, keys)
    PROVE  /\ Follows(k, o.state) /\ o.raised \in BOOLEAN
           /\ o.state.held \subseteq k.held
           /\ ~o.raised => o.state.held = k.held \ keys
<1>1. PICK some \in SUBSET keys :
          \/ o = Ok(ReleasedAll(k, keys))
          \/ o = Raised(ReleasedAll(k, some))
    BY DEF Releases
<1>2. CASE o = Ok(ReleasedAll(k, keys))
  <2>1. o.state = ReleasedAll(k, keys) /\ o.raised = FALSE
    BY <1>2 DEF Ok
  <2>2. Follows(k, ReleasedAll(k, keys)) /\ ReleasedAll(k, keys).held = k.held \ keys
    BY ReleasedFollows
  <2> QED
    BY <2>1, <2>2
<1>3. CASE o = Raised(ReleasedAll(k, some))
  <2>1. o.state = ReleasedAll(k, some) /\ o.raised = TRUE
    BY <1>3 DEF Raised
  <2>2. Follows(k, ReleasedAll(k, some)) /\ ReleasedAll(k, some).held = k.held \ some
    BY ReleasedFollows
  <2> QED
    BY <2>1, <2>2
<1> QED
    BY <1>1, <1>2, <1>3

(* _apply_keymap(): when nothing raises the compositor has keymap, locks and no key
   down, as the program has. *)
LEMMA AppliedFacts ==
    ASSUME NEW k, Known(k), k.device, k.sourceKeymap # None, NEW o \in Applied(k)
    PROVE  /\ Known(o.state) /\ o.state.device /\ o.raised \in BOOLEAN /\ SamePlace(k, o.state)
           /\ o.raised => /\ o.state.held \subseteq k.held
                          /\ o.state.xkb = None <=> k.xkb = None
           /\ ~o.raised => Accord(o.state) \/ (k.keymap = k.sourceKeymap /\ o.state = k)
<1>0. k \in Keyboards /\ k.sourceKeymap \in Keymaps /\ k.locks \in Locks
    BY DEF Known, Keyboards
<1>1. CASE k.keymap = k.sourceKeymap
  <2>1. o = Ok(k)
    BY <1>1 DEF Applied
  <2>2. o.state = k /\ o.raised = FALSE
    BY <2>1 DEF Ok
  <2> QED
    BY <1>1, <2>2 DEF SamePlace
<1>2. CASE k.keymap # k.sourceKeymap
  <2> DEFINE none == [k EXCEPT !.keymap = None]
             new == NewXkb(k.sourceKeymap, k.locks)
             last(q) == [q EXCEPT !.keymap = new.keymap, !.xkb = new,
                                  !.xkbs = IF k.xkb = None THEN @ + 1 ELSE @,
                                  !.sent = [Silent EXCEPT !.keymap = new.keymap]]
  <2>1. /\ Known(none) /\ none.device /\ SamePlace(k, none) /\ none.held = k.held
        /\ none.xkb = k.xkb /\ none.xkbs = k.xkbs
    BY <1>0 DEF Known, Keyboards, SamePlace
  <2>2. /\ new \in Xkb /\ new.keymap = k.sourceKeymap /\ new.pressed = {}
        /\ XkbOk(new) /\ new # None
    BY <1>0, KeyboardAssumption DEF NewXkb, Xkb, Locks, XkbOk
  <2>3. \/ o = Raised(none)
        \/ \E r \in Releases(none, k.held) :
              \/ o = r /\ r.raised
              \/ o = Raised(r.state)
              \/ o = Raised([r.state EXCEPT !.sent = [Silent EXCEPT !.keymap = new.keymap]])
              \/ o = Ok(Told(last(r.state))) /\ ~r.raised
    BY <1>2 DEF Applied
  <2> HIDE DEF none
  <2>4. CASE o = Raised(none)
    <3>1. o.state = none /\ o.raised = TRUE
        BY <2>4 DEF Raised
    <3> QED
        BY <2>1, <3>1
  <2>5. ASSUME NEW r \in Releases(none, k.held),
               \/ o = r /\ r.raised
               \/ o = Raised(r.state)
               \/ o = Raised([r.state EXCEPT !.sent = [Silent EXCEPT !.keymap = new.keymap]])
               \/ o = Ok(Told(last(r.state))) /\ ~r.raised
        PROVE  /\ Known(o.state) /\ o.state.device /\ o.raised \in BOOLEAN /\ SamePlace(k, o.state)
               /\ o.raised => /\ o.state.held \subseteq k.held
                              /\ o.state.xkb = None <=> k.xkb = None
               /\ ~o.raised => Accord(o.state)
    <3> DEFINE s == r.state
    <3>0. k.held \in SUBSET Keys /\ none \in Keyboards
        BY <1>0, <2>1 DEF Keyboards, Known
    <3>1. /\ Follows(none, s) /\ r.raised \in BOOLEAN /\ s.held \subseteq k.held
          /\ ~r.raised => s.held = {}
        BY <2>1, <3>0, ReleasesFacts
    <3>2. Known(s) /\ s.device /\ SamePlace(none, s) /\ (s.xkb = None <=> k.xkb = None)
          /\ s.xkbs = k.xkbs
        BY <2>1, <3>1, KnownFollows DEF Follows, Frame
    <3> HIDE DEF s
    <3>3. CASE o = Raised(s) \/ (o = r /\ r.raised)
      <4>1. o.state = s /\ o.raised = TRUE
        BY <3>1, <3>3 DEF Raised, s
      <4> QED
        BY <2>1, <3>1, <3>2, <4>1 DEF SamePlace
    <3>4. CASE o = Raised([s EXCEPT !.sent = [Silent EXCEPT !.keymap = new.keymap]])
      <4> DEFINE t == [s EXCEPT !.sent = [Silent EXCEPT !.keymap = new.keymap]]
      <4>0. [Silent EXCEPT !.keymap = new.keymap] \in State
        BY <1>0, <2>2 DEF Silent, State, Locks
      <4>1. o.state = t /\ o.raised = TRUE
        BY <3>4 DEF Raised
      <4>2. Known(t) /\ t.device /\ SamePlace(s, t) /\ t.held = s.held /\ t.xkb = s.xkb
        BY <3>2, <4>0 DEF Known, Keyboards, SamePlace
      <4> HIDE DEF t
      <4> QED
        BY <2>1, <3>1, <3>2, <4>1, <4>2 DEF SamePlace
    <3>5. CASE o = Ok(Told(last(s))) /\ ~r.raised
      <4> DEFINE t == last(s)
      <4>0. [Silent EXCEPT !.keymap = new.keymap] \in State
            /\ [Silent EXCEPT !.keymap = new.keymap].keymap = new.keymap
        BY <1>0, <2>2 DEF Silent, State, Locks
      <4>a. (IF k.xkb = None THEN s.xkbs + 1 ELSE s.xkbs) = 1
        BY <3>2 DEF Known
      <4>b. t = [s EXCEPT !.keymap = new.keymap, !.xkb = new, !.xkbs = 1,
                          !.sent = [Silent EXCEPT !.keymap = new.keymap]]
        BY <4>a
      <4> HIDE DEF new
      <4>1. /\ Known(t) /\ t.device /\ SamePlace(s, t) /\ t.held = {} /\ t.xkb = new
            /\ t.keymap = new.keymap /\ t.sent.keymap = new.keymap
        <5> DEFINE sent == [Silent EXCEPT !.keymap = new.keymap]
        <5>1. sent \in State /\ sent.keymap = new.keymap
            BY <4>0
        <5>2. t = [s EXCEPT !.keymap = new.keymap, !.xkb = new, !.xkbs = 1, !.sent = sent]
            BY <4>b
        <5>3. s \in Keyboards /\ new.keymap \in Keymaps /\ new \in Xkb /\ 1 \in Nat
            BY <1>0, <2>2, <3>2 DEF Known
        <5> HIDE DEF t, sent
        <5>4. /\ t \in Keyboards /\ t.manager = s.manager /\ t.source = s.source
              /\ t.sourceKeymap = s.sourceKeymap /\ t.device = s.device
              /\ t.keymap = new.keymap /\ t.xkb = new /\ t.xkbs = 1 /\ t.held = s.held
              /\ t.down = s.down /\ t.sent = sent /\ t.stuck = s.stuck
              /\ t.refused = s.refused
            BY <5>2, <5>3, <5>1 DEF Keyboards
        <5>5. s.held = {}
            BY <3>1, <3>5
        <5> QED
            BY <2>2, <3>2, <5>1, <5>4, <5>5 DEF Known, SamePlace
      <4> HIDE DEF t
      <4>2. o.state = Told(t) /\ o.raised = FALSE
        BY <3>5 DEF Ok, t
      <4>3. /\ Told(t) \in Keyboards /\ Frame(t, Told(t)) /\ Told(t).held = t.held
            /\ Told(t).down = t.down /\ Told(t).xkb = t.xkb
            /\ Told(t).sent = [keymap |-> t.sent.keymap,
                               mods |-> t.xkb.pressed \cap ModifierKeys,
                               locks |-> t.xkb.locks]
        BY <2>2, <4>1, ToldFacts DEF Known
      <4>4. Known(o.state) /\ o.state.device /\ SamePlace(k, o.state)
        <5> DEFINE q == o.state
        <5>1. /\ q \in Keyboards /\ q.held = t.held /\ q.down = t.down /\ q.xkb = t.xkb
              /\ q.manager = t.manager /\ q.source = t.source
              /\ q.sourceKeymap = t.sourceKeymap /\ q.device = t.device
              /\ q.keymap = t.keymap /\ q.xkbs = t.xkbs /\ q.stuck = t.stuck
              /\ q.refused = t.refused
            BY <4>2, <4>3 DEF Frame
        <5> HIDE DEF q
        <5>2. Known(q) /\ q.device /\ SamePlace(t, q)
            BY <4>1, <5>1 DEF Known, SamePlace
        <5> QED
            BY <2>1, <3>2, <4>1, <5>2 DEF SamePlace, q
      <4>5. Accord(o.state)
        <5> DEFINE q == o.state
        <5>1. /\ q.held = t.held /\ q.down = t.down /\ q.xkb = t.xkb
              /\ q.sourceKeymap = t.sourceKeymap /\ q.keymap = t.keymap
              /\ q.sent = [keymap |-> t.sent.keymap, mods |-> t.xkb.pressed \cap ModifierKeys,
                           locks |-> t.xkb.locks]
            BY <4>2, <4>3 DEF Frame
        <5> HIDE DEF q
        <5>2. t.sourceKeymap = k.sourceKeymap /\ t.held = t.down
            BY <2>1, <3>2, <4>1 DEF SamePlace, Known
        <5> QED
            BY <2>2, <4>1, <5>1, <5>2 DEF Accord, q
      <4> QED
        BY <4>2, <4>4, <4>5
    <3> QED
        BY <2>5, <3>3, <3>4, <3>5 DEF s
  <2> QED
    BY <2>3, <2>4, <2>5
<1> QED
    BY <1>1, <1>2

AnySeat == SeatIds \cup {None}

(* _maybe_create_virtual(): a keyboard that agrees, or none. *)
LEMMA TypingFacts ==
    ASSUME NEW k, Known(k), NEW seat \in AnySeat, NEW live \in BOOLEAN,
           NEW o \in Typing(k, seat, live)
    PROVE  /\ Known(o.state) /\ o.raised \in BOOLEAN /\ SamePlace(k, o.state)
           /\ Agrees(k) /\ ~o.raised => Agrees(o.state)
           /\ live /\ ~o.raised /\ k.manager # None /\ k.sourceKeymap # None /\ k.source = seat
                => o.state.device
<1> DEFINE go == /\ live /\ k.manager # None /\ ~k.device
                 /\ k.sourceKeymap # None /\ k.source = seat /\ seat # None
           k1 == [k EXCEPT !.device = TRUE]
           Back(s) == [s EXCEPT !.device = FALSE, !.keymap = None, !.sent = Silent]
<1>1. CASE ~go
  <2>1. o = Ok(k)
    BY <1>1 DEF Typing
  <2>2. o.state = k /\ o.raised = FALSE
    BY <2>1 DEF Ok
  <2> QED
    BY <1>1, <2>2 DEF SamePlace, Known
<1>2. CASE go
  <2>1. \/ o = Raised(k)
        \/ \E r \in Applied(k1) :
              \/ r.raised /\ o = Raised(Back(r.state))
              \/ ~r.raised /\ o = r
    BY <1>2 DEF Typing
  <2>2. CASE o = Raised(k)
    <3>1. o.state = k /\ o.raised = TRUE
        BY <2>2 DEF Raised
    <3> QED
        BY <3>1 DEF SamePlace
  <2>3. ASSUME NEW r \in Applied(k1),
               \/ r.raised /\ o = Raised(Back(r.state))
               \/ ~r.raised /\ o = r
        PROVE  /\ Known(o.state) /\ o.raised \in BOOLEAN /\ SamePlace(k, o.state)
               /\ ~o.raised => (Agrees(o.state) /\ o.state.device)
    <3>1. /\ Known(k1) /\ k1.device /\ SamePlace(k, k1)
          /\ k1.keymap = None /\ k1.sourceKeymap # None
          /\ k1.held = {} /\ k1.xkb = None
        BY <1>2 DEF Known, Keyboards, SamePlace
    <3> HIDE DEF k1
    <3>2. /\ Known(r.state) /\ r.state.device /\ r.raised \in BOOLEAN /\ SamePlace(k1, r.state)
          /\ r.raised => r.state.held = {} /\ r.state.xkb = None
          /\ ~r.raised => Accord(r.state)
        BY <3>1, AppliedFacts
    <3>3. CASE ~r.raised /\ o = r
        BY <3>1, <3>2, <3>3 DEF Agrees, SamePlace
    <3>4. CASE r.raised /\ o = Raised(Back(r.state))
      <4> DEFINE s == r.state
                 t == Back(s)
      <4>1. s.held = {} /\ s.xkb = None /\ Known(s)
        BY <3>2, <3>4
      <4>2. Silent \in State
        BY DEF Silent, State, Locks
      <4>3. o.state = t /\ o.raised = TRUE
        BY <3>4 DEF Raised
      <4> HIDE DEF s
      <4>4. Known(t) /\ SamePlace(s, t)
        BY <4>1, <4>2 DEF Known, Keyboards, SamePlace
      <4> HIDE DEF t
      <4>5. SamePlace(k1, s)
        BY <3>2 DEF s
      <4> QED
        BY <3>1, <4>3, <4>4, <4>5 DEF SamePlace
    <3> QED
        BY <2>3, <3>3, <3>4
  <2> QED
    BY <2>1, <2>2, <2>3
<1> QED
    BY <1>1, <1>2

(* _destroy_virtual() forgets the device, and leaves down what it could not release. *)
LEMMA DroppedFacts ==
    ASSUME NEW k \in Keyboards, k.stuck \subseteq k.refused, k.held = k.down,
           k.xkbs = IF k.xkb = None THEN 0 ELSE 1,
           k.sourceKeymap # None => k.source # None, NEW refused \in SUBSET k.held
    PROVE  LET d == Dropped(k, refused)
           IN  /\ Known(d) /\ ~d.device
               /\ d.manager = k.manager /\ d.source = k.source
               /\ d.sourceKeymap = k.sourceKeymap
               /\ refused = {} => SamePlace(k, d)
<1> DEFINE d == Dropped(k, refused)
           stuck == k.stuck \cup refused
           all == k.refused \cup refused
<1>1. Silent \in State
    BY DEF Silent, State, Locks
<1>2. /\ (IF k.xkb = None THEN k.xkbs ELSE k.xkbs - 1) = 0
      /\ k.down \ (k.held \ refused) = refused
    OBVIOUS
<1>3. /\ stuck \in SUBSET Keys /\ all \in SUBSET Keys /\ stuck \subseteq all
      /\ refused = {} => stuck = k.stuck
    BY DEF Keyboards
<1>4. d = [k EXCEPT !.device = FALSE, !.keymap = None, !.xkb = None,
                    !.xkbs = 0, !.held = {}, !.own = {}, !.down = {}, !.sent = Silent,
                    !.stuck = stuck, !.refused = all]
    BY <1>2 DEF Dropped
<1> HIDE DEF d, stuck, all
<1>5. /\ d \in Keyboards /\ d.device = FALSE /\ d.keymap = None /\ d.xkb = None
      /\ d.xkbs = 0 /\ d.held = {} /\ d.down = {} /\ d.stuck = stuck /\ d.refused = all
      /\ d.manager = k.manager /\ d.source = k.source /\ d.sourceKeymap = k.sourceKeymap
    BY <1>1, <1>3, <1>4 DEF Keyboards
<1>6. Known(d)
    BY <1>3, <1>5 DEF Known
<1> QED
    BY <1>3, <1>5, <1>6 DEF d, SamePlace

(* _release_source_keyboard() leaves no source. *)
LEMMA DetachedFacts ==
    ASSUME NEW k, Known(k), ~k.device
    PROVE  /\ Known(Detached(k)) /\ ~Detached(k).device
           /\ Detached(k).manager = k.manager /\ Detached(k).source = None
           /\ Detached(k).sourceKeymap = None /\ Detached(k).stuck = k.stuck
BY DEF Known, Keyboards, Detached, Locks

(* _sync_source_keyboard(): the source is the selected seat's, or there is none. *)
LEMMA SyncedFacts ==
    ASSUME NEW k, Known(k), NEW seat \in AnySeat, NEW able \in BOOLEAN, able => seat # None,
           NEW init \in BOOLEAN, NEW o \in Synced(k, seat, able, init)
    PROVE  /\ Known(o.state) /\ o.raised \in BOOLEAN /\ o.state.manager = k.manager
           /\ o.state.source \in {None, seat} /\ Spares(k, o)
           /\ k.source = None /\ ~init => o.state.source = None
           /\ Agrees(k) /\ ~o.raised => Agrees(o.state)
           /\ ~o.raised /\ init => o.state.source = IF able THEN seat ELSE None
<1> DEFINE d(refused) == Detached(Dropped(k, refused))
           gone == d({})
           e == [gone EXCEPT !.source = seat]
<1>1. ASSUME NEW refused \in SUBSET k.held
      PROVE  /\ Known(d(refused)) /\ ~d(refused).device /\ d(refused).manager = k.manager
             /\ d(refused).source = None /\ d(refused).sourceKeymap = None
             /\ refused = {} => d(refused).stuck = k.stuck
  <2> DEFINE q == Dropped(k, refused)
  <2>1. Known(q) /\ ~q.device /\ q.manager = k.manager /\ (refused = {} => SamePlace(k, q))
    BY DroppedFacts DEF Known
  <2> HIDE DEF q
  <2>2. /\ Known(Detached(q)) /\ ~Detached(q).device /\ Detached(q).manager = q.manager
        /\ Detached(q).source = None /\ Detached(q).sourceKeymap = None
        /\ Detached(q).stuck = q.stuck
    BY <2>1, DetachedFacts
  <2> QED
    BY <2>1, <2>2 DEF SamePlace, q
<1>a. /\ Known(gone) /\ ~gone.device /\ gone.manager = k.manager /\ gone.source = None
      /\ gone.sourceKeymap = None /\ gone.stuck = k.stuck
  <2>1. {} \in SUBSET k.held
    OBVIOUS
  <2> HIDE DEF d
  <2> QED
    BY <1>1, <2>1
<1>3. \/ able /\ k.source = seat /\ o = Ok(k)
      \/ \E refused \in SUBSET k.held : o = Raised(d(refused))
      \/ able /\ init /\ (o = Ok(e) \/ o = Raised(gone))
      \/ ~(able /\ init) /\ ~(able /\ k.source = seat) /\ o = Ok(gone)
    BY DEF Synced
<1> HIDE DEF d, gone
<1>2. Known(e) /\ ~e.device /\ e.manager = k.manager /\ e.source = seat /\ e.stuck = k.stuck
    BY <1>a DEF Known, Keyboards, AnySeat
<1> HIDE DEF e
<1>4. CASE able /\ k.source = seat /\ o = Ok(k)
  <2>1. o.state = k /\ o.raised = FALSE
    BY <1>4 DEF Ok
  <2> QED
    BY <1>4, <2>1 DEF Spares
<1>5. ASSUME NEW refused \in SUBSET k.held, o = Raised(d(refused))
      PROVE  /\ Known(o.state) /\ o.raised = TRUE /\ o.state.manager = k.manager
             /\ o.state.source = None
  <2>1. o.state = d(refused) /\ o.raised = TRUE
    BY <1>5 DEF Raised
  <2> QED
    BY <1>1, <2>1
<1>6. CASE able /\ init /\ (o = Ok(e) \/ o = Raised(gone))
  <2>1. CASE o = Ok(e)
    <3>1. o.state = e /\ o.raised = FALSE
        BY <2>1 DEF Ok
    <3> QED
        BY <1>2, <1>6, <3>1 DEF Agrees, Spares
  <2>2. CASE o = Raised(gone)
    <3>1. o.state = gone /\ o.raised = TRUE
        BY <2>2 DEF Raised
    <3> QED
        BY <1>a, <3>1 DEF Spares
  <2> QED
    BY <1>6, <2>1, <2>2
<1>7. CASE ~(able /\ init) /\ ~(able /\ k.source = seat) /\ o = Ok(gone)
  <2>1. o.state = gone /\ o.raised = FALSE
    BY <1>7 DEF Ok
  <2> QED
    BY <1>a, <1>7, <2>1 DEF Agrees, Spares
<1>8. CASE \E refused \in SUBSET k.held : o = Raised(d(refused))
    BY <1>5, <1>8 DEF Spares
<1> QED
    BY <1>3, <1>4, <1>6, <1>7, <1>8

(* After the seats' listeners were told, the keyboard is that of the seat. *)
LEMMA KeyboardOnSeatFacts ==
    ASSUME NEW k, Known(k), NEW seat \in AnySeat, NEW able \in BOOLEAN, able => seat # None,
           NEW init \in BOOLEAN, NEW live \in BOOLEAN,
           NEW o \in KeyboardOnSeat(k, seat, able, init, live)
    PROVE  /\ Known(o.state) /\ o.raised \in BOOLEAN /\ o.state.manager = k.manager
           /\ o.state.source \in {None, seat} /\ Spares(k, o)
           /\ k.source = None /\ ~init => o.state.source = None
           /\ Agrees(k) /\ ~o.raised => Agrees(o.state)
           /\ ~o.raised /\ init => o.state.source = IF able THEN seat ELSE None
           /\ live /\ ~o.raised /\ o.state.manager # None /\ o.state.sourceKeymap # None
                => o.state.device
<1>1. PICK s \in Synced(k, seat, able, init) :
          IF s.raised THEN o = s ELSE o \in Typing(s.state, seat, live)
    BY DEF KeyboardOnSeat
<1>2. /\ Known(s.state) /\ s.raised \in BOOLEAN /\ s.state.manager = k.manager
      /\ s.state.source \in {None, seat} /\ Spares(k, s)
      /\ k.source = None /\ ~init => s.state.source = None
      /\ Agrees(k) /\ ~s.raised => Agrees(s.state)
      /\ ~s.raised /\ init => s.state.source = IF able THEN seat ELSE None
    BY SyncedFacts
<1>3. CASE s.raised
    BY <1>1, <1>2, <1>3
<1>4. CASE ~s.raised
  <2>1. /\ Known(o.state) /\ o.raised \in BOOLEAN /\ SamePlace(s.state, o.state)
        /\ Agrees(s.state) /\ ~o.raised => Agrees(o.state)
        /\ live /\ ~o.raised /\ s.state.manager # None /\ s.state.sourceKeymap # None
             /\ s.state.source = seat => o.state.device
    BY <1>1, <1>2, <1>4, TypingFacts
  <2>2. s.state.sourceKeymap # None => s.state.source = seat
    BY <1>2 DEF Known
  <2> QED
    BY <1>2, <1>4, <2>1, <2>2 DEF SamePlace, Spares
<1> QED
    BY <1>3, <1>4, <1>2

(* bind() of the keyboard manager. *)
LEMMA KeyboardBoundFacts ==
    ASSUME NEW k, Known(k), NEW g \in Nat, NEW seat \in AnySeat, NEW live \in BOOLEAN,
           NEW o \in KeyboardBound(k, g, seat, live)
    PROVE  /\ Known(o.state) /\ o.raised \in BOOLEAN
           /\ o.state.source = k.source /\ o.state.sourceKeymap = k.sourceKeymap
           /\ o.state.stuck = k.stuck
           /\ Agrees(k) /\ ~o.raised => Agrees(o.state)
           /\ ~o.raised => o.state.manager = g
           /\ live /\ ~o.raised /\ k.sourceKeymap # None /\ k.source = seat => o.state.device
<1> DEFINE k1 == [k EXCEPT !.manager = g]
<1>0. g # None
    BY PointerAssumption
<1>1. /\ Known(k1) /\ k1.source = k.source /\ k1.sourceKeymap = k.sourceKeymap
      /\ k1.manager = g /\ k1.stuck = k.stuck
      /\ Agrees(k) => Agrees(k1)
    BY <1>0 DEF Known, Keyboards, Agrees, Accord
<1>2. o = Raised(k) \/ o \in Typing(k1, seat, live)
    BY DEF KeyboardBound
<1> HIDE DEF k1
<1>3. CASE o = Raised(k)
  <2>1. o.state = k /\ o.raised = TRUE
    BY <1>3 DEF Raised
  <2> QED
    BY <2>1
<1>4. CASE o \in Typing(k1, seat, live)
  <2>1. /\ Known(o.state) /\ o.raised \in BOOLEAN /\ SamePlace(k1, o.state)
        /\ Agrees(k1) /\ ~o.raised => Agrees(o.state)
        /\ live /\ ~o.raised /\ k1.manager # None /\ k1.sourceKeymap # None
             /\ k1.source = seat => o.state.device
    BY <1>1, <1>4, TypingFacts
  <2> QED
    BY <1>0, <1>1, <2>1 DEF SamePlace
<1> QED
    BY <1>2, <1>3, <1>4

(* remove() of the keyboard manager: there is no device. *)
LEMMA KeyboardRemovedFacts ==
    ASSUME NEW k, Known(k), NEW o \in KeyboardRemoved(k)
    PROVE  /\ Known(o.state) /\ o.raised \in BOOLEAN /\ ~o.state.device
           /\ o.state.manager = None /\ o.state.source = k.source
           /\ o.state.sourceKeymap = k.sourceKeymap /\ Spares(k, o)
<1> DEFINE q == [k EXCEPT !.manager = None]
<1>1. /\ q \in Keyboards /\ q.stuck \subseteq q.refused /\ q.held = q.down
      /\ q.xkbs = IF q.xkb = None THEN 0 ELSE 1
      /\ q.sourceKeymap # None => q.source # None
      /\ q.manager = None /\ q.source = k.source /\ q.sourceKeymap = k.sourceKeymap
      /\ q.held = k.held /\ q.stuck = k.stuck
    BY DEF Known, Keyboards
<1>2. \/ o = Ok(Dropped(q, {}))
      \/ \E refused \in SUBSET k.held : o = Raised(Dropped(q, refused))
    BY DEF KeyboardRemoved
<1> HIDE DEF q
<1>3. PICK refused \in SUBSET q.held :
          /\ o.state = Dropped(q, refused) /\ o.raised \in BOOLEAN
          /\ ~o.raised => refused = {}
  <2>1. CASE o = Ok(Dropped(q, {}))
    <3>1. o.state = Dropped(q, {}) /\ o.raised = FALSE
        BY <2>1 DEF Ok
    <3> QED
        BY <3>1
  <2>2. CASE \E refused \in SUBSET k.held : o = Raised(Dropped(q, refused))
    <3>1. PICK refused \in SUBSET k.held : o = Raised(Dropped(q, refused))
        BY <2>2
    <3>2. o.state = Dropped(q, refused) /\ o.raised = TRUE
        BY <3>1 DEF Raised
    <3> QED
        BY <1>1, <3>2
  <2> QED
    BY <1>2, <2>1, <2>2
<1> DEFINE d == Dropped(q, refused)
<1>4. /\ Known(d) /\ ~d.device /\ d.manager = q.manager /\ d.source = q.source
      /\ d.sourceKeymap = q.sourceKeymap /\ (refused = {} => SamePlace(q, d))
    BY <1>1, DroppedFacts
<1> HIDE DEF d
<1> QED
    BY <1>1, <1>3, <1>4 DEF SamePlace, Spares, d

(* close(): no device, manager or source. *)
LEMMA KeyboardClosedFacts ==
    ASSUME NEW k, Known(k), NEW refused \in SUBSET k.held
    PROVE  LET q == KeyboardClosed(k, refused)
           IN  Known(q) /\ ~q.device /\ q.manager = None /\ q.source = None /\ q.sourceKeymap = None
<1> DEFINE q == [k EXCEPT !.manager = None]
           d == Dropped(q, refused)
<1>1. /\ q \in Keyboards /\ q.stuck \subseteq q.refused /\ q.held = q.down
      /\ q.xkbs = IF q.xkb = None THEN 0 ELSE 1
      /\ q.sourceKeymap # None => q.source # None
      /\ q.manager = None /\ q.held = k.held
    BY DEF Known, Keyboards
<1>2. KeyboardClosed(k, refused) = Detached(d)
    BY DEF KeyboardClosed
<1> HIDE DEF q
<1>3. Known(d) /\ ~d.device /\ d.manager = None
    BY <1>1, DroppedFacts
<1> HIDE DEF d
<1> QED
    BY <1>2, <1>3, DetachedFacts

(* _on_keymap(): a device of the new keymap, or a failure. *)
LEMMA OnKeymapFacts ==
    ASSUME NEW k, Known(k), k.source # None, NEW keymap \in Keymaps, NEW seat \in AnySeat,
           NEW live \in BOOLEAN, NEW o \in OnKeymap(k, keymap, seat, live)
    PROVE  /\ Known(o.state) /\ o.raised \in BOOLEAN
           /\ o.state.manager = k.manager /\ o.state.source = k.source
           /\ o.state.stuck = k.stuck
           /\ Agrees(k) /\ ~o.raised => Agrees(o.state)
           /\ live /\ ~o.raised /\ k.manager # None /\ k.source = seat => o.state.device
<1> DEFINE q == [k EXCEPT !.sourceKeymap = keymap]
<1>0. keymap # None
    BY KeyboardAssumption
<1>1. /\ Known(q) /\ q.sourceKeymap = keymap /\ q.device = k.device
      /\ q.manager = k.manager /\ q.source = k.source /\ q.keymap = k.keymap
      /\ q.stuck = k.stuck
      /\ keymap = k.sourceKeymap /\ Agrees(k) => Agrees(q)
      /\ ~k.device => Agrees(q)
    BY DEF Known, Keyboards, Agrees, Accord
<1>2. \/ o = Raised(k)
      \/ (keymap = k.sourceKeymap \/ ~k.device) /\ o \in Typing(q, seat, live)
      \/ keymap # k.sourceKeymap /\ k.device /\ o \in Applied(q)
    BY DEF OnKeymap
<1> HIDE DEF q
<1>3. CASE o = Raised(k)
  <2>1. o.state = k /\ o.raised = TRUE
    BY <1>3 DEF Raised
  <2> QED
    BY <2>1
<1>4. CASE (keymap = k.sourceKeymap \/ ~k.device) /\ o \in Typing(q, seat, live)
    BY <1>0, <1>1, <1>4, TypingFacts DEF SamePlace
<1>5. CASE keymap # k.sourceKeymap /\ k.device /\ o \in Applied(q)
  <2>1. /\ Known(o.state) /\ o.state.device /\ o.raised \in BOOLEAN /\ SamePlace(q, o.state)
        /\ ~o.raised => Accord(o.state) \/ (q.keymap = q.sourceKeymap /\ o.state = q)
    BY <1>0, <1>1, <1>5, AppliedFacts
  <2>2. Agrees(k) => q.keymap # q.sourceKeymap
    BY <1>1, <1>5 DEF Agrees, Accord
  <2> QED
    BY <1>1, <2>1, <2>2 DEF SamePlace, Agrees
<1> QED
    BY <1>2, <1>3, <1>4, <1>5

(* A keymap of another format: no device. *)
LEMMA OnForeignKeymapFacts ==
    ASSUME NEW k, Known(k), NEW o \in OnForeignKeymap(k)
    PROVE  /\ Known(o.state) /\ o.raised \in BOOLEAN /\ ~o.state.device
           /\ o.state.manager = k.manager /\ o.state.source = k.source
           /\ o.state.sourceKeymap = None /\ Spares(k, o)
<1> DEFINE q == [k EXCEPT !.sourceKeymap = None]
<1>1. /\ q \in Keyboards /\ q.stuck \subseteq q.refused /\ q.held = q.down
      /\ q.xkbs = IF q.xkb = None THEN 0 ELSE 1
      /\ q.sourceKeymap = None /\ q.source = k.source /\ q.manager = k.manager
      /\ q.stuck = k.stuck
    BY DEF Known, Keyboards
<1>2. \/ o = Ok(Dropped(q, {}))
      \/ \E refused \in SUBSET q.held : o = Raised(Dropped(q, refused))
    BY DEF OnForeignKeymap, Drops
<1> HIDE DEF q
<1>3. PICK refused \in SUBSET q.held :
          /\ o.state = Dropped(q, refused) /\ o.raised \in BOOLEAN
          /\ ~o.raised => refused = {}
  <2>1. CASE o = Ok(Dropped(q, {}))
    <3>1. o.state = Dropped(q, {}) /\ o.raised = FALSE
        BY <2>1 DEF Ok
    <3> QED
        BY <3>1
  <2>2. CASE \E refused \in SUBSET q.held : o = Raised(Dropped(q, refused))
    <3>1. PICK refused \in SUBSET q.held : o = Raised(Dropped(q, refused))
        BY <2>2
    <3>2. o.state = Dropped(q, refused) /\ o.raised = TRUE
        BY <3>1 DEF Raised
    <3> QED
        BY <3>2
  <2> QED
    BY <1>2, <2>1, <2>2
<1> DEFINE d == Dropped(q, refused)
<1>4. /\ Known(d) /\ ~d.device /\ d.manager = q.manager /\ d.source = q.source
      /\ d.sourceKeymap = q.sourceKeymap /\ (refused = {} => SamePlace(q, d))
    BY <1>1, DroppedFacts
<1> HIDE DEF d
<1> QED
    BY <1>1, <1>3, <1>4 DEF SamePlace, Spares, d

(* _on_modifiers(): the locks are mirrored, or the handler raised. *)
LEMMA OnModifiersFacts ==
    ASSUME NEW k, Known(k), NEW locks \in Locks, NEW seat \in AnySeat,
           NEW live \in BOOLEAN, NEW o \in OnModifiers(k, locks, seat, live)
    PROVE  /\ Known(o.state) /\ o.raised \in BOOLEAN /\ SamePlace(k, o.state)
           /\ Agrees(k) /\ ~o.raised => Agrees(o.state)
           /\ live /\ ~o.raised /\ k.manager # None /\ k.sourceKeymap # None /\ k.source = seat
                => o.state.device
<1> DEFINE q == [k EXCEPT !.locks = locks]
           x == [q EXCEPT !.xkb = SetExternalState(@, locks)]
<1>1. /\ Known(q) /\ SamePlace(k, q) /\ q.device = k.device /\ q.xkb = k.xkb
      /\ Agrees(k) => Agrees(q)
    BY DEF Known, Keyboards, SamePlace, Agrees, Accord
<1>2. \/ (~q.device \/ q.xkb = None) /\ o \in Typing(q, seat, live)
      \/ q.device /\ q.xkb # None /\ x = q /\ o = Ok(q)
      \/ q.device /\ q.xkb # None /\ (o = Ok(Told(x)) \/ o = Raised(x))
    BY DEF OnModifiers
<1> HIDE DEF q
<1>3. CASE (~q.device \/ q.xkb = None) /\ o \in Typing(q, seat, live)
    BY <1>1, <1>3, TypingFacts DEF SamePlace
<1>4. CASE q.device /\ q.xkb # None /\ x = q /\ o = Ok(q)
  <2>1. o.state = q /\ o.raised = FALSE
    BY <1>4 DEF Ok
  <2> QED
    BY <1>1, <1>4, <2>1
<1>5. CASE q.device /\ q.xkb # None /\ (o = Ok(Told(x)) \/ o = Raised(x))
  <2>1. q.xkb \in Xkb
    BY <1>1, <1>5 DEF Known, Keyboards
  <2> DEFINE y == SetExternalState(q.xkb, locks)
  <2>2. /\ y \in Xkb /\ y.keymap = q.xkb.keymap /\ y.pressed = q.xkb.pressed
        /\ XkbOk(q.xkb) => XkbOk(y)
    BY <2>1, ExternalFacts
  <2>3. y # None
    BY <2>2, KeyboardAssumption
  <2> HIDE DEF y
  <2>4. x = [q EXCEPT !.xkb = y]
    BY DEF y
  <2> HIDE DEF x
  <2>5. /\ Known(x) /\ SamePlace(q, x) /\ x.device /\ x.xkb = y /\ x.held = q.held
        /\ x.down = q.down /\ x.keymap = q.keymap /\ x.sent = q.sent
    BY <1>1, <1>5, <2>2, <2>3, <2>4 DEF Known, Keyboards, SamePlace
  <2>6. CASE o = Raised(x)
    <3>1. o.state = x /\ o.raised = TRUE
        BY <2>6 DEF Raised
    <3> QED
        BY <1>1, <2>5, <3>1 DEF SamePlace
  <2>7. CASE o = Ok(Told(x))
    <3> DEFINE t == Told(x)
    <3>1. o.state = t /\ o.raised = FALSE
        BY <2>7 DEF Ok
    <3>2. /\ t \in Keyboards /\ Frame(x, t) /\ t.held = x.held /\ t.down = x.down
          /\ t.xkb = x.xkb
          /\ t.sent = [keymap |-> x.sent.keymap, mods |-> x.xkb.pressed \cap ModifierKeys,
                       locks |-> x.xkb.locks]
        BY <2>3, <2>5, ToldFacts DEF Known
    <3> HIDE DEF t
    <3>3. Known(t) /\ t.device /\ SamePlace(x, t)
        BY <2>5, <3>2 DEF Known, Frame, SamePlace
    <3>4. ASSUME Accord(q) PROVE Accord(t)
      <4>1. q.keymap = q.sourceKeymap /\ q.xkb.keymap = q.keymap /\ q.held = q.down
            /\ q.xkb.pressed = q.down /\ q.sent.keymap = q.keymap
        BY <3>4 DEF Accord
      <4> QED
        BY <4>1, <2>2, <2>3, <2>5, <3>2 DEF Accord, Frame, SamePlace
    <3>5. Agrees(k) => Agrees(t)
        BY <1>1, <1>5, <3>4 DEF Agrees
    <3> QED
        BY <1>1, <2>5, <3>1, <3>3, <3>5 DEF SamePlace
  <2> QED
    BY <1>5, <2>6, <2>7
<1> QED
    BY <1>2, <1>3, <1>4, <1>5

-----------------------------------------------------------------------------
(* Its commands. *)

KeyOutcomes == [state : Keyboards, raised : BOOLEAN]

(* What a command leaves of the keyboard. *)
KeepsUp(k, o) ==
    /\ o \in KeyOutcomes /\ Known(o.state) /\ SamePlace(k, o.state)
    /\ o.state.device = k.device
    /\ Agrees(k) /\ ~o.raised => Agrees(o.state)

(* An outcome, by its two forms. *)
LEMMA OutcomeOf ==
    ASSUME NEW q \in Keyboards, NEW o,
           o = [state |-> q, raised |-> TRUE] \/ o = [state |-> q, raised |-> FALSE]
    PROVE  o \in KeyOutcomes /\ o.state = q
<1>1. CASE o = [state |-> q, raised |-> TRUE]
    BY <1>1 DEF KeyOutcomes
<1>2. CASE o = [state |-> q, raised |-> FALSE]
    BY <1>2 DEF KeyOutcomes
<1> QED
    BY <1>1, <1>2

(* A command that is refused changes nothing. *)
LEMMA RefusedKeeps ==
    ASSUME NEW k, Known(k), NEW o \in Refused(k)
    PROVE  KeepsUp(k, o) /\ o.state = k
<1>1. o = [state |-> k, raised |-> FALSE]
    BY DEF Refused, Ok
<1>2. o \in KeyOutcomes /\ o.state = k /\ o.raised = FALSE
    BY <1>1 DEF KeyOutcomes, Known
<1> QED
    BY <1>2 DEF KeepsUp, SamePlace

(* Events that are emitted leave what AllSent() leaves, or the handler raised. *)
LEMMA EmittedFacts ==
    ASSUME NEW k, Known(k), k.device, NEW events \in Seq(KeyEvents), NEW o \in Emitted(k, events)
    PROVE  /\ KeepsUp(k, o)
           /\ ~o.raised => o.state = AllSent(k, events)
<1>n. Len(events) \in Nat
    BY LenProperties
<1>1. \/ o = Ok(AllSent(k, events))
      \/ \E n \in 0..Len(events) : o = Raised(AllSent(k, SubSeq(events, 1, n)))
    BY DEF Emitted
<1>2. ASSUME NEW some \in Seq(KeyEvents),
             o = Ok(AllSent(k, some)) \/ o = Raised(AllSent(k, some))
      PROVE  KeepsUp(k, o)
  <2>1. Follows(k, AllSent(k, some))
    BY AllSentFollows DEF Known
  <2> DEFINE q == AllSent(k, some)
  <2>2. Known(q) /\ q.device /\ SamePlace(k, q) /\ (Agrees(k) => Agrees(q))
    BY <2>1, KnownFollows
  <2> HIDE DEF q
  <2>3. \/ o = [state |-> q, raised |-> FALSE]
        \/ o = [state |-> q, raised |-> TRUE]
    BY <1>2 DEF Ok, Raised, q
  <2>a. q \in Keyboards
    BY <2>2 DEF Known
  <2>4. o \in KeyOutcomes /\ o.state = q
    BY <2>3, <2>a, OutcomeOf
  <2>5. k.device \in BOOLEAN /\ q.device \in BOOLEAN
    BY <2>2 DEF Known, Keyboards
  <2> QED
    BY <2>2, <2>4, <2>5 DEF KeepsUp
<1>3. CASE o = Ok(AllSent(k, events))
  <2>1. o.state = AllSent(k, events)
    BY <1>3 DEF Ok
  <2> QED
    BY <1>2, <1>3, <2>1
<1>4. ASSUME NEW n \in 0..Len(events), o = Raised(AllSent(k, SubSeq(events, 1, n)))
      PROVE  KeepsUp(k, o) /\ o.raised = TRUE
  <2>1. SubSeq(events, 1, n) \in Seq(KeyEvents)
    BY <1>n, <1>4, SubSeqProperties
  <2>2. o.raised = TRUE
    BY <1>4 DEF Raised
  <2> QED
    BY <1>2, <1>4, <2>1, <2>2
<1> QED
    BY <1>1, <1>3, <1>4

(* _emit_strokes(): taps hold what was held, and downs let go of nothing. *)
LEMMA TypedFacts ==
    ASSUME NEW k, Known(k), NEW strokes \in Seq(Strokes), NEW o \in Typed(k, strokes)
    PROVE  /\ KeepsUp(k, o)
           /\ ~o.raised /\ AllTaps(strokes) => o.state.held = k.held
           /\ ~o.raised /\ AllDowns(strokes) => k.held \subseteq o.state.held
<1>n. /\ Len(strokes) \in Nat /\ DOMAIN strokes = 1..Len(strokes)
      /\ \A i \in 1..Len(strokes) : strokes[i] \in Strokes
    BY LenProperties
<1> DEFINE codes == [i \in DOMAIN strokes |-> Resolved(k.xkb, strokes[i])]
           plan == PlanKeyEvents(codes, k.held)
           can == CanType(k) /\ \A s \in Range(strokes) : Resolves(k.xkb, s)
<1>1. \/ o \in Refused(k)
      \/ can /\ o \in Emitted(k, plan.events)
    BY DEF Typed
<1>2. CASE o \in Refused(k)
    BY <1>2, RefusedKeeps
<1>3. CASE can /\ o \in Emitted(k, plan.events)
  <2>1. k.device /\ k.xkb \in Xkb /\ k \in Keyboards
    BY <1>3 DEF CanType, Known, Keyboards
  <2>2. \A i \in 1..Len(strokes) : /\ codes[i] = Resolved(k.xkb, strokes[i])
                                   /\ codes[i] \in ResolvedStrokes
                                   /\ codes[i].action = strokes[i].action
    <3> SUFFICES ASSUME NEW i \in 1..Len(strokes)
                 PROVE  /\ Resolved(k.xkb, strokes[i]) \in ResolvedStrokes
                        /\ Resolved(k.xkb, strokes[i]).action = strokes[i].action
        BY <1>n
    <3>1. strokes[i] \in Strokes /\ Resolves(k.xkb, strokes[i])
        BY <1>n, <1>3 DEF Range
    <3> QED
        BY <2>1, <3>1, ResolvedFacts
  <2>3. codes \in [1..Len(strokes) -> ResolvedStrokes]
    BY <1>n, <2>2
  <2> HIDE DEF codes
  <2>4. codes \in Seq(ResolvedStrokes) /\ Len(codes) = Len(strokes)
    BY <1>n, <2>3, SeqDef, LenProperties
  <2>5. (AllTaps(strokes) => AllTaps(codes)) /\ (AllDowns(strokes) => AllDowns(codes))
    BY <2>2, <2>4 DEF AllTaps, AllDowns
  <2>6. /\ plan \in Plans /\ AllSent(k, plan.events).held = plan.held
        /\ AllTaps(codes) => plan.held = k.held
        /\ AllDowns(codes) => k.held \subseteq plan.held
    BY <2>1, <2>4, EmittedPlan
  <2> HIDE DEF plan
  <2>7. plan.events \in Seq(KeyEvents)
    BY <2>6 DEF Plans
  <2>8. KeepsUp(k, o) /\ (~o.raised => o.state = AllSent(k, plan.events))
    BY <1>3, <2>1, <2>7, EmittedFacts
  <2> QED
    BY <2>5, <2>6, <2>8
<1> QED
    BY <1>1, <1>2, <1>3

(* A chord of modifiers is one stroke that goes down. *)
LEMMA ChordIsStrokes ==
    ASSUME NEW chord \in Seq(STRING)
    PROVE  ModifierChord(chord) \in Seq(Strokes) /\ AllDowns(ModifierChord(chord))
<1> DEFINE s == [modifiers |-> chord, key |-> NoKey, action |-> "down", repeat |-> 1]
<1>1. s \in Strokes /\ s.action = "down"
    BY DEF Strokes, Actions
<1>2. ModifierChord(chord) = <<s>>
    BY DEF ModifierChord
<1> HIDE DEF s
<1>3. <<s>> \in Seq(Strokes) /\ Len(<<s>>) = 1 /\ <<s>>[1] = s
    BY <1>1
<1> QED
    BY <1>1, <1>2, <1>3 DEF AllDowns

(* Whose presses they are is the caller's business, not the keyboard's. *)
LEMMA OwnFacts ==
    ASSUME NEW k, NEW o, KeepsUp(k, o), NEW own \in SUBSET Keys
    PROVE  LET q == [o EXCEPT !.state.own = own]
           IN  KeepsUp(k, q) /\ q.state.held = o.state.held /\ q.raised = o.raised
<1> DEFINE q == [o EXCEPT !.state.own = own]
           s == o.state
           t == [s EXCEPT !.own = own]
<1>1. o \in KeyOutcomes /\ Known(s) /\ SamePlace(k, s) /\ s.device = k.device
      /\ (Agrees(k) /\ ~o.raised => Agrees(s)) /\ o.raised \in BOOLEAN
    BY DEF KeepsUp, KeyOutcomes
<1>2. q.state = t /\ q.raised = o.raised /\ DOMAIN q = DOMAIN o
    BY <1>1 DEF KeyOutcomes
<1>a. q = [o EXCEPT !.state = t]
    BY <1>1 DEF KeyOutcomes
<1> HIDE DEF s
<1>3. /\ t \in Keyboards /\ Known(t) /\ SamePlace(s, t) /\ t.device = s.device /\ t.held = s.held
      /\ Agrees(s) => Agrees(t)
    BY <1>1 DEF Known, Keyboards, SamePlace, Agrees, Accord
<1> HIDE DEF t, q
<1>4. q \in KeyOutcomes
    BY <1>1, <1>3, <1>a DEF KeyOutcomes
<1> QED
    BY <1>1, <1>2, <1>3, <1>4 DEF KeepsUp, SamePlace, q, s

(* press_temporary_modifiers() keeps the keyboard up. *)
LEMMA ChordedFacts ==
    ASSUME NEW k, Known(k), NEW chord \in Seq(STRING), NEW o \in Chorded(k, chord)
    PROVE  KeepsUp(k, o)
<1>1. PICK r \in Typed(k, ModifierChord(chord)) :
         o = IF r.raised THEN r ELSE [r EXCEPT !.state.own = @ \cup (r.state.held \ k.held)]
    BY DEF Chorded
<1>2. KeepsUp(k, r)
    BY ChordIsStrokes, TypedFacts
<1> DEFINE own == r.state.own \cup (r.state.held \ k.held)
<1>3. own \in SUBSET Keys
    BY <1>2 DEF KeepsUp, Known, Keyboards
<1>4. o = r \/ o = [r EXCEPT !.state.own = own]
    BY <1>1
<1> HIDE DEF own
<1>5. KeepsUp(k, [r EXCEPT !.state.own = own])
    BY <1>2, <1>3, OwnFacts
<1> QED
    BY <1>2, <1>4, <1>5

(* _release_presses() releases the caller's own presses and no others. *)
LEMMA OwnReleasedFacts ==
    ASSUME NEW k, Known(k), NEW o \in OwnReleased(k, Keys)
    PROVE  /\ KeepsUp(k, o)
           /\ CanType(k) /\ ~o.raised => o.state.held = k.held \ k.own
           /\ ~CanType(k) => o.state = k
<1>1. CASE ~CanType(k)
  <2>1. o \in Refused(k)
    BY <1>1 DEF OwnReleased
  <2> QED
    BY <1>1, <2>1, RefusedKeeps
<1>2. CASE CanType(k)
  <2>1. o \in Releases(k, k.own) /\ k.own \in SUBSET Keys /\ k.device /\ k \in Keyboards
    <3>1. k.own \in SUBSET Keys /\ k.device /\ k \in Keyboards /\ Keys \cap k.own = k.own
        BY <1>2 DEF Known, Keyboards, CanType
    <3> QED
        BY <1>2, <3>1 DEF OwnReleased
  <2>2. /\ Follows(k, o.state) /\ o.raised \in BOOLEAN
        /\ ~o.raised => o.state.held = k.held \ k.own
    BY <2>1, ReleasesFacts
  <2>3. Known(o.state) /\ o.state.device /\ SamePlace(k, o.state) /\ (Agrees(k) => Agrees(o.state))
    BY <2>1, <2>2, KnownFollows
  <2>4. o \in KeyOutcomes
    <3>1. \E q : o = [state |-> q, raised |-> TRUE] \/ o = [state |-> q, raised |-> FALSE]
        BY <2>1 DEF Releases, Ok, Raised
    <3>2. PICK q : o = [state |-> q, raised |-> TRUE] \/ o = [state |-> q, raised |-> FALSE]
        BY <3>1
    <3>3. o.state = q
        BY <3>2
    <3>4. q \in Keyboards
        BY <2>3, <3>3 DEF Known
    <3> QED
        BY <3>2, <3>4, OutcomeOf
  <2>5. o.state.device = k.device
    BY <2>1, <2>3 DEF Known, Keyboards
  <2> QED
    BY <1>2, <2>2, <2>3, <2>4, <2>5 DEF KeepsUp
<1> QED
    BY <1>1, <1>2

(* A device that agrees can type. *)
LEMMA CanTypeIfAgrees ==
    ASSUME NEW k, Known(k), Agrees(k), k.device
    PROVE  CanType(k)
<1>1. k.xkb # None /\ k.xkb.keymap = k.keymap /\ k.xkb \in Xkb
    BY DEF Agrees, Accord, Known, Keyboards
<1>2. k.keymap # None
    BY <1>1, KeyboardAssumption DEF Xkb
<1> QED
    BY <1>1, <1>2 DEF CanType

-----------------------------------------------------------------------------
(* The pointer. *)

(* What is pressed is held, only what could not be released is left down of pointers
   that are gone, and a pointer has a manager. *)
Steady(p) == /\ p \in Pointers /\ p.pressed \subseteq p.held /\ p.stuck \subseteq p.refused
             /\ p.seat # None => p.manager # None

Where(p, q) == /\ q.manager = p.manager /\ q.seat = p.seat /\ q.output = p.output
               /\ q.stuck = p.stuck

(* _maybe_create(): the pointer is the seat's unless the handler raised. *)
LEMMA CreatedFacts ==
    ASSUME NEW p, Steady(p), NEW seat \in AnySeat, NEW live \in BOOLEAN,
           NEW o \in Created(p, seat, live)
    PROVE  /\ Steady(o.state) /\ o.raised \in BOOLEAN
           /\ o.state.manager = p.manager /\ o.state.output = p.output
           /\ o.state.seat \in {p.seat, seat} /\ o.state.stuck = p.stuck
           /\ live /\ ~o.raised /\ p.manager # None /\ p.seat \in {None, seat}
                => o.state.seat = seat
<1> DEFINE q == [p EXCEPT !.seat = seat]
<1>1. \/ o = Ok(p) /\ ~(live /\ p.manager # None /\ seat # None /\ p.seat = None)
      \/ o = Raised(p)
      \/ o = Ok(q) /\ p.manager # None /\ p.seat = None
    BY DEF Created
<1>2. CASE o = Ok(p) /\ ~(live /\ p.manager # None /\ seat # None /\ p.seat = None)
  <2>1. o.state = p /\ o.raised = FALSE
    BY <1>2 DEF Ok
  <2> QED
    BY <1>2, <2>1
<1>3. CASE o = Raised(p)
  <2>1. o.state = p /\ o.raised = TRUE
    BY <1>3 DEF Raised
  <2> QED
    BY <2>1
<1>4. CASE o = Ok(q) /\ p.manager # None /\ p.seat = None
  <2>1. o.state = q /\ o.raised = FALSE
    BY <1>4 DEF Ok
  <2>2. Steady(q) /\ q.manager = p.manager /\ q.output = p.output /\ q.seat = seat
        /\ q.stuck = p.stuck
    BY <1>4 DEF Steady, Pointers, AnySeat
  <2> QED
    BY <2>1, <2>2
<1> QED
    BY <1>1, <1>2, <1>3, <1>4

(* _destroy_pointer(), _destroy_output_pointer(): no pointer, and what it could not
   release is left down. *)
LEMMA DestroyedFacts ==
    ASSUME NEW p \in Pointers, p.pressed \subseteq p.held, p.stuck \subseteq p.refused,
           NEW o \in Destroyed(p)
    PROVE  /\ Steady(o.state) /\ o.raised \in BOOLEAN /\ Spares(p, o)
           /\ o.state.manager = p.manager /\ o.state.output = None /\ o.state.seat = None
<1> DEFINE q(refused) == Lifted(Unbound(p), refused)
<1>1. ASSUME NEW refused \in SUBSET p.held
      PROVE  /\ Steady(q(refused)) /\ q(refused).manager = p.manager
             /\ q(refused).output = None /\ q(refused).seat = None
             /\ refused = {} => q(refused).stuck = p.stuck
  <2> DEFINE u == [p EXCEPT !.output = None]
             stuck == u.stuck \cup (u.pressed \ (u.held \ refused))
             all == u.refused \cup refused
             d == q(refused)
  <2>1. /\ u \in Pointers /\ u.stuck = p.stuck /\ u.pressed = p.pressed /\ u.held = p.held
        /\ u.refused = p.refused /\ u.manager = p.manager /\ u.output = None
    BY DEF Pointers
  <2>2. d = [u EXCEPT !.seat = None, !.held = {}, !.pressed = {}, !.stuck = stuck,
                      !.refused = all]
    BY DEF Lifted, Unbound
  <2>3. /\ stuck \in SUBSET Buttons /\ all \in SUBSET Buttons /\ stuck \subseteq all
        /\ refused = {} => stuck = p.stuck
    BY <2>1 DEF Pointers
  <2> HIDE DEF u, stuck, all, q
  <2>4. /\ d \in Pointers /\ d.seat = None /\ d.held = {} /\ d.pressed = {} /\ d.stuck = stuck
        /\ d.refused = all /\ d.manager = u.manager /\ d.output = u.output
    BY <2>1, <2>2, <2>3 DEF Pointers
  <2> QED
    BY <2>1, <2>3, <2>4 DEF Steady
<1>2. o = Ok(q({})) \/ \E refused \in SUBSET p.held : o = Raised(q(refused))
    BY DEF Destroyed
<1> HIDE DEF q
<1>3. CASE o = Ok(q({}))
  <2>1. o.state = q({}) /\ o.raised = FALSE
    BY <1>3 DEF Ok
  <2>2. {} \in SUBSET p.held
    OBVIOUS
  <2> QED
    BY <1>1, <2>1, <2>2 DEF Spares
<1>4. CASE \E refused \in SUBSET p.held : o = Raised(q(refused))
  <2>1. PICK refused \in SUBSET p.held : o = Raised(q(refused))
    BY <1>4
  <2>2. o.state = q(refused) /\ o.raised = TRUE
    BY <2>1 DEF Raised
  <2> QED
    BY <1>1, <2>2 DEF Spares
<1> QED
    BY <1>2, <1>3, <1>4

(* remove() and close(): neither manager nor pointer. *)
LEMMA PointerRemovedFacts ==
    ASSUME NEW p, Steady(p), NEW o \in PointerRemoved(p)
    PROVE  /\ Steady(o.state) /\ o.raised \in BOOLEAN /\ Spares(p, o)
           /\ o.state.manager = None /\ o.state.output = None /\ o.state.seat = None
<1> DEFINE q == [p EXCEPT !.manager = None]
<1>1. /\ q \in Pointers /\ q.pressed \subseteq q.held /\ q.stuck \subseteq q.refused
      /\ q.manager = None /\ q.stuck = p.stuck
    BY DEF Steady, Pointers
<1>2. o \in Destroyed(q) \/ \E r \in Destroyed(q) : o = Raised(r.state)
    BY DEF PointerRemoved
<1> HIDE DEF q
<1>3. ASSUME NEW r \in Destroyed(q)
      PROVE  /\ Steady(r.state) /\ r.raised \in BOOLEAN /\ Spares(q, r)
             /\ r.state.manager = None /\ r.state.output = None /\ r.state.seat = None
    BY <1>1, DestroyedFacts
<1>4. ASSUME NEW r \in Destroyed(q), o = Raised(r.state)
      PROVE  o.state = r.state /\ o.raised = TRUE
    BY <1>4 DEF Raised
<1> QED
    BY <1>1, <1>2, <1>3, <1>4 DEF Spares

(* bind() of the pointer manager. *)
LEMMA PointerBoundFacts ==
    ASSUME NEW p, Steady(p), NEW g \in Nat, NEW seat \in AnySeat, NEW live \in BOOLEAN,
           NEW o \in PointerBound(p, g, seat, live)
    PROVE  /\ Steady(o.state) /\ o.raised \in BOOLEAN /\ o.state.output = p.output
           /\ o.state.seat \in {p.seat, seat} /\ o.state.stuck = p.stuck
           /\ ~o.raised => o.state.manager = g
           /\ live /\ ~o.raised /\ p.seat \in {None, seat} => o.state.seat = seat
<1> DEFINE q == [p EXCEPT !.manager = g]
<1>0. g # None
    BY PointerAssumption
<1>1. /\ Steady(q) /\ q.manager = g /\ q.seat = p.seat /\ q.output = p.output
      /\ q.stuck = p.stuck
    BY <1>0 DEF Steady, Pointers
<1>2. o = Raised(p) \/ o \in Created(q, seat, live)
    BY DEF PointerBound
<1> HIDE DEF q
<1>3. CASE o = Raised(p)
  <2>1. o.state = p /\ o.raised = TRUE
    BY <1>3 DEF Raised
  <2> QED
    BY <2>1
<1>4. CASE o \in Created(q, seat, live)
    BY <1>0, <1>1, <1>4, CreatedFacts
<1> QED
    BY <1>2, <1>3, <1>4

(* _on_seat_changed(): the pointer is the seat's, and one bound to an output of another
   seat's pointer is gone. *)
LEMMA PointerOnSeatFacts ==
    ASSUME NEW p, Steady(p), NEW seat \in AnySeat, NEW live \in BOOLEAN,
           NEW o \in PointerOnSeat(p, seat, live)
    PROVE  /\ Steady(o.state) /\ o.raised \in BOOLEAN /\ o.state.manager = p.manager
           /\ o.state.seat \in {None, seat} /\ Spares(p, o)
           /\ o.state.output \in {None, p.output}
           /\ p.seat # seat => o.state.output = None
           /\ live /\ ~o.raised /\ p.manager # None => o.state.seat = seat
<1>1. CASE p.seat = seat
  <2>1. o \in Created(p, seat, live)
    BY <1>1 DEF PointerOnSeat
  <2> QED
    BY <1>1, <2>1, CreatedFacts DEF Spares
<1>2. CASE p.seat # seat
  <2>1. PICK r \in Destroyed(p) :
            IF r.raised THEN o = r ELSE o \in Created(r.state, seat, live)
    BY <1>2 DEF PointerOnSeat
  <2>2. /\ Steady(r.state) /\ r.raised \in BOOLEAN /\ r.state.manager = p.manager
        /\ r.state.output = None /\ r.state.seat = None /\ Spares(p, r)
    BY DestroyedFacts DEF Steady
  <2>3. CASE r.raised
    BY <1>2, <2>1, <2>2, <2>3
  <2>4. CASE ~r.raised
    <3>1. /\ Steady(o.state) /\ o.raised \in BOOLEAN
          /\ o.state.manager = r.state.manager /\ o.state.output = r.state.output
          /\ o.state.seat \in {r.state.seat, seat} /\ o.state.stuck = r.state.stuck
          /\ live /\ ~o.raised /\ r.state.manager # None /\ r.state.seat \in {None, seat}
                => o.state.seat = seat
        BY <2>1, <2>2, <2>4, CreatedFacts
    <3> QED
        BY <1>2, <2>2, <2>4, <3>1 DEF Spares
  <2> QED
    BY <2>2, <2>3, <2>4
<1> QED
    BY <1>1, <1>2

(* Without its output-bound pointer a pointer is as it was. *)
LEMMA UnboundFacts ==
    ASSUME NEW p, Steady(p)
    PROVE  /\ Steady(Unbound(p)) /\ Unbound(p).manager = p.manager
           /\ Unbound(p).seat = p.seat /\ Unbound(p).output = None /\ Unbound(p).held = p.held
           /\ Unbound(p).stuck = p.stuck
BY DEF Steady, Unbound, Pointers

(* _on_outputs_changed(): the output-bound pointer is on the output chosen, or gone. *)
LEMMA PointerOnOutputsFacts ==
    ASSUME NEW p, Steady(p), NEW snapshots, NEW o \in PointerOnOutputs(p, snapshots)
    PROVE  /\ Steady(o.state) /\ o.raised \in BOOLEAN
           /\ o.state.manager = p.manager /\ o.state.seat = p.seat
           /\ o.state.stuck = p.stuck
           /\ \/ o.state.output = None
              \/ /\ o.state.output = p.output
                 /\ ChooseOutput(p.output.target, snapshots) = p.output.id
<1>1. \/ o = Ok(Unbound(p)) \/ o = Raised(Unbound(p))
      \/ /\ o = Ok(p)
         /\ p.output = None \/ ChooseOutput(p.output.target, snapshots) = p.output.id
    BY DEF PointerOnOutputs
<1>2. CASE o = Ok(Unbound(p))
  <2>1. o.state = Unbound(p) /\ o.raised = FALSE
    BY <1>2 DEF Ok
  <2> QED
    BY <2>1, UnboundFacts
<1>3. CASE o = Raised(Unbound(p))
  <2>1. o.state = Unbound(p) /\ o.raised = TRUE
    BY <1>3 DEF Raised
  <2> QED
    BY <2>1, UnboundFacts
<1>4. CASE /\ o = Ok(p)
           /\ p.output = None \/ ChooseOutput(p.output.target, snapshots) = p.output.id
  <2>1. o.state = p /\ o.raised = FALSE
    BY <1>4 DEF Ok
  <2> QED
    BY <1>4, <2>1
<1> QED
    BY <1>1, <1>2, <1>3, <1>4

-----------------------------------------------------------------------------
(* A command that moves no pointer from its seat, manager or output. *)
Stays(p, o) == Steady(o.state) /\ Where(p, o.state) /\ o.raised \in BOOLEAN

(* A command that changes the buttons leaves the pointer where it is, *)
LEMMA StaysSo ==
    ASSUME NEW p, Steady(p), NEW held \in SUBSET Buttons, NEW pressed \in SUBSET held, NEW q,
           q = [p EXCEPT !.held = held, !.pressed = pressed], NEW o, o = Ok(q) \/ o = Raised(q)
    PROVE  Stays(p, o)
<1>1. Steady(q) /\ Where(p, q)
    BY DEF Steady, Where, Pointers
<1>2. CASE o = Ok(q)
  <2>1. o.state = q /\ o.raised = FALSE
    BY <1>2 DEF Ok
  <2> QED
    BY <1>1, <2>1 DEF Stays
<1>3. CASE o = Raised(q)
  <2>1. o.state = q /\ o.raised = TRUE
    BY <1>3 DEF Raised
  <2> QED
    BY <1>1, <2>1 DEF Stays
<1> QED
    BY <1>2, <1>3

(* and so does one that changes nothing. *)
LEMMA StaysThere ==
    ASSUME NEW p, Steady(p), NEW o, o = Ok(p) \/ o = Raised(p)
    PROVE  Stays(p, o)
<1>1. p.held \in SUBSET Buttons /\ p.pressed \in SUBSET p.held
    BY DEF Steady, Pointers
<1>2. p = [p EXCEPT !.held = p.held, !.pressed = p.pressed]
    BY DEF Steady, Pointers
<1> QED
    BY <1>1, <1>2, StaysSo

(* _emit_absolute(), _emit_relative(). *)
LEMMA MovedFacts ==
    ASSUME NEW p, Steady(p), NEW o \in Moved(p)
    PROVE  Stays(p, o)
BY StaysThere DEF Moved, Refused

(* _emit_scroll(), _emit_continuous_scroll(). *)
LEMMA ScrolledFacts ==
    ASSUME NEW p, Steady(p), NEW axes, NEW o \in Scrolled(p, axes)
    PROVE  Stays(p, o)
<1>1. o \in Moved(p) \/ o = Ok(p)
    BY DEF Scrolled, Refused
<1> QED
    BY <1>1, MovedFacts, StaysThere

(* _emit_button(). *)
LEMMA ButtonSetFacts ==
    ASSUME NEW p, Steady(p), NEW b \in Buttons, NEW press \in BOOLEAN,
           NEW o \in ButtonSet(p, b, press)
    PROVE  Stays(p, o)
<1> DEFINE held == p.held
           pressed == p.pressed
<1>0. p \in Pointers /\ held \in SUBSET Buttons /\ pressed \in SUBSET held
    BY DEF Steady, Pointers
<1>1. /\ Down(p, b) = [p EXCEPT !.held = held \cup {b}, !.pressed = pressed \cup {b}]
      /\ Up(p, b) = [p EXCEPT !.held = held \ {b}, !.pressed = pressed \ {b}]
      /\ HalfUp(p, b) = [p EXCEPT !.held = held, !.pressed = pressed \ {b}]
    BY <1>0 DEF Down, Up, HalfUp, Pointers
<1>2. \/ o = Ok(p) \/ o = Raised(p)
      \/ o = Ok(Down(p, b)) \/ o = Raised(Down(p, b))
      \/ o = Ok(Up(p, b)) \/ o = Raised(HalfUp(p, b))
    BY DEF ButtonSet, Refused
<1>3. /\ held \cup {b} \in SUBSET Buttons /\ pressed \cup {b} \in SUBSET (held \cup {b})
      /\ held \ {b} \in SUBSET Buttons /\ pressed \ {b} \in SUBSET (held \ {b})
      /\ pressed \ {b} \in SUBSET held
    BY <1>0
<1> HIDE DEF held, pressed
<1>4. CASE o = Ok(p) \/ o = Raised(p)
    BY <1>4, StaysThere
<1>5. CASE o = Ok(Down(p, b)) \/ o = Raised(Down(p, b))
    BY <1>1, <1>3, <1>5, StaysSo
<1>6. CASE o = Ok(Up(p, b))
    BY <1>1, <1>3, <1>6, StaysSo
<1>7. CASE o = Raised(HalfUp(p, b))
    BY <1>0, <1>1, <1>3, <1>7, StaysSo
<1> QED
    BY <1>2, <1>4, <1>5, <1>6, <1>7

(* _toggle_code(). *)
LEMMA ToggledFacts ==
    ASSUME NEW p, Steady(p), NEW b \in Buttons, NEW o \in Toggled(p, b)
    PROVE  Stays(p, o)
<1>1. (b \notin p.held) \in BOOLEAN
    OBVIOUS
<1>2. o \in ButtonSet(p, b, b \notin p.held)
    BY DEF Toggled
<1> QED
    BY <1>1, <1>2, ButtonSetFacts

(* _click_code(): a click that raised nothing leaves the buttons as they were. *)
LEMMA ClickedFacts ==
    ASSUME NEW p, Steady(p), NEW b \in Buttons, NEW o \in Clicked(p, b)
    PROVE  Stays(p, o) /\ (~o.raised => o.state = p)
<1> DEFINE held == p.held
           pressed == p.pressed
<1>0. p \in Pointers /\ held \in SUBSET Buttons /\ pressed \in SUBSET held
    BY DEF Steady, Pointers
<1>1. Down(p, b) = [p EXCEPT !.held = held \cup {b}, !.pressed = pressed \cup {b}]
    BY DEF Down
<1>2. HalfUp(Down(p, b), b) = [p EXCEPT !.held = held \cup {b}, !.pressed = pressed \ {b}]
  <2> DEFINE d == Down(p, b)
  <2>1. d = [p EXCEPT !.held = held \cup {b}, !.pressed = pressed \cup {b}]
    BY <1>1
  <2>a. held \cup {b} \in SUBSET Buttons /\ pressed \cup {b} \in SUBSET Buttons
    BY <1>0
  <2> HIDE DEF d
  <2>2. d \in Pointers /\ d.held = held \cup {b} /\ d.pressed = pressed \cup {b}
    BY <1>0, <2>1, <2>a DEF Pointers
  <2> HIDE DEF held, pressed
  <2>3. HalfUp(d, b) = [d EXCEPT !.pressed = (pressed \cup {b}) \ {b}]
    BY <2>2 DEF HalfUp
  <2>4. (pressed \cup {b}) \ {b} = pressed \ {b}
    OBVIOUS
  <2>5. HalfUp(d, b) = [p EXCEPT !.held = held \cup {b}, !.pressed = pressed \ {b}]
    BY <1>0, <2>1, <2>3, <2>4 DEF Pointers
  <2> QED
    BY <2>5 DEF d
<1>3. \/ o = Ok(p) \/ o = Raised(p)
      \/ o = Raised(Down(p, b)) \/ o = Raised(HalfUp(Down(p, b), b))
    BY DEF Clicked, Refused
<1>4. /\ held \cup {b} \in SUBSET Buttons /\ pressed \cup {b} \in SUBSET (held \cup {b})
      /\ pressed \ {b} \in SUBSET (held \cup {b})
    BY <1>0
<1> HIDE DEF held, pressed
<1>5. CASE o = Ok(p)
  <2>1. o.state = p
    BY <1>5 DEF Ok
  <2> QED
    BY <1>5, <2>1, StaysThere
<1>6. CASE o = Raised(p)
  <2>1. o.raised = TRUE
    BY <1>6 DEF Raised
  <2> QED
    BY <1>6, <2>1, StaysThere
<1>7. CASE o = Raised(Down(p, b))
  <2>1. o.raised = TRUE
    BY <1>7 DEF Raised
  <2> QED
    BY <1>1, <1>4, <1>7, <2>1, StaysSo
<1>8. CASE o = Raised(HalfUp(Down(p, b), b))
  <2>1. o.raised = TRUE
    BY <1>8 DEF Raised
  <2> QED
    BY <1>2, <1>4, <1>8, <2>1, StaysSo
<1> QED
    BY <1>3, <1>5, <1>6, <1>7, <1>8

(* _release_all_codes(). *)
LEMMA AllReleasedFacts ==
    ASSUME NEW p, Steady(p), NEW o \in AllReleased(p)
    PROVE  Stays(p, o)
<1>0. p.held \in SUBSET Buttons /\ p.pressed \in SUBSET p.held /\ p \in Pointers
    BY DEF Steady, Pointers
<1>1. \/ o = Ok(p)
      \/ o = Ok([p EXCEPT !.held = {}, !.pressed = @ \ p.held])
      \/ \E a \in SUBSET p.held, b \in SUBSET p.held :
            b \subseteq a /\ o = Raised([p EXCEPT !.held = a, !.pressed = @ \ (p.held \ b)])
    BY DEF AllReleased, Refused
<1>2. CASE o = Ok(p)
    BY <1>2, StaysThere
<1>3. CASE o = Ok([p EXCEPT !.held = {}, !.pressed = @ \ p.held])
  <2>1. [p EXCEPT !.held = {}, !.pressed = @ \ p.held]
            = [p EXCEPT !.held = {}, !.pressed = p.pressed \ p.held]
    OBVIOUS
  <2>2. {} \in SUBSET Buttons /\ p.pressed \ p.held \in SUBSET {}
    BY <1>0
  <2> QED
    BY <1>3, <2>1, <2>2, StaysSo
<1>4. ASSUME NEW a \in SUBSET p.held, NEW b \in SUBSET p.held, b \subseteq a,
             o = Raised([p EXCEPT !.held = a, !.pressed = @ \ (p.held \ b)])
      PROVE  Stays(p, o)
  <2>1. [p EXCEPT !.held = a, !.pressed = @ \ (p.held \ b)]
            = [p EXCEPT !.held = a, !.pressed = p.pressed \ (p.held \ b)]
    OBVIOUS
  <2>2. a \in SUBSET Buttons /\ p.pressed \ (p.held \ b) \in SUBSET a
    BY <1>0, <1>4
  <2> QED
    BY <1>4, <2>1, <2>2, StaysSo
<1> QED
    BY <1>1, <1>2, <1>3, <1>4

-----------------------------------------------------------------------------
(* The only element of a set is one of it. *)
LEMMA OnlyFacts ==
    ASSUME NEW S
    PROVE  Only(S) \in S \cup {NoOutput}
BY DEF Only

(* choose_output() chooses an output or none. *)
LEMMA ChooseOutputType ==
    ASSUME NEW target, NEW snapshots
    PROVE  ChooseOutput(target, snapshots) \in OutputIds \cup {NoOutput}
<1> DEFINE known == {o \in OutputIds : snapshots[o] # NoOutput}
           named == {o \in known : Same(target.name, snapshots[o].name)}
           made == {o \in known : /\ Same(target.model, snapshots[o].model)
                                  /\ Same(target.size, snapshots[o].size)}
           sized == {o \in known : /\ Same(target.size, snapshots[o].size)
                                   /\ Same(target.mode, snapshots[o].mode)}
           sole == {o \in {Only(known)} \cap known : Compatible(target, snapshots[o])}
           picks == <<Only(named), Only(made), Only(sized), Only(sole)>>
           hits == {i \in DOMAIN picks : picks[i] # NoOutput}
<1>1. /\ named \subseteq OutputIds /\ made \subseteq OutputIds
      /\ sized \subseteq OutputIds /\ sole \subseteq OutputIds
    OBVIOUS
<1>2. ChooseOutput(target, snapshots) = IF hits = {} THEN NoOutput ELSE picks[Min(hits)]
    BY DEF ChooseOutput
<1> HIDE DEF named, made, sized, sole
<1>3. /\ Only(named) \in OutputIds \cup {NoOutput} /\ Only(made) \in OutputIds \cup {NoOutput}
      /\ Only(sized) \in OutputIds \cup {NoOutput} /\ Only(sole) \in OutputIds \cup {NoOutput}
    BY <1>1, OnlyFacts
<1>4. /\ DOMAIN picks = 1..4
      /\ \A i \in DOMAIN picks : picks[i] \in OutputIds \cup {NoOutput}
    BY <1>3
<1> HIDE DEF picks
<1>5. hits \in SUBSET Nat /\ hits \subseteq DOMAIN picks
    BY <1>4
<1> HIDE DEF hits
<1>6. ASSUME hits # {} PROVE picks[Min(hits)] \in OutputIds \cup {NoOutput}
  <2>1. \E n \in hits : \A m \in hits : n <= m
    BY <1>5, <1>6, LeastNat
  <2>2. Min(hits) \in hits
    BY <2>1 DEF Min
  <2> QED
    BY <1>4, <1>5, <2>2
<1> QED
    BY <1>2, <1>6

(* _require_output_pointer(): the bound pointer is on the output chosen for the target,
   and on the seat, or it is as it was. *)
LEMMA MovedOnOutputFacts ==
    ASSUME NEW p, Steady(p), NEW target \in Metadata, NEW snapshots, NEW seat \in AnySeat,
           NEW o \in MovedOnOutput(p, target, snapshots, seat)
    PROVE  /\ Steady(o.state) /\ o.raised \in BOOLEAN
           /\ o.state.manager = p.manager /\ o.state.seat = p.seat
           /\ o.state.stuck = p.stuck
           /\ \/ o.state.output \in {None, p.output}
              \/ /\ o.state.output.target = target
                 /\ o.state.output.id = ChooseOutput(target, snapshots)
                 /\ \/ p.output # None /\ o.state.output.seat = p.output.seat
                    \/ o.state.output.seat = seat /\ p.manager # None
<1> DEFINE id == ChooseOutput(target, snapshots)
           bound == [id |-> id, target |-> target, seat |-> seat]
           same == [p EXCEPT !.output.target = target]
           new == [p EXCEPT !.output = bound]
<1>0. p \in Pointers /\ (p.output # None => p.output \in Bound)
    BY DEF Steady, Pointers
<1>1. \/ o = Ok(p)
      \/ p.output # None /\ p.output.id = id /\ (o = Ok(same) \/ o = Raised(same))
      \/ o = Raised(Unbound(p))
      \/ id # NoOutput /\ p.manager # None /\ seat # None /\ (o = Ok(new) \/ o = Raised(new))
    BY DEF MovedOnOutput, Refused
<1>2. CASE o = Ok(p)
  <2>1. o.state = p /\ o.raised = FALSE
    BY <1>2 DEF Ok
  <2> QED
    BY <2>1
<1>3. CASE o = Raised(Unbound(p))
  <2>1. o.state = Unbound(p) /\ o.raised = TRUE
    BY <1>3 DEF Raised
  <2> QED
    BY <2>1, UnboundFacts
<1>4. ASSUME NEW q, o = Ok(q) \/ o = Raised(q) PROVE o.state = q /\ o.raised \in BOOLEAN
  <2>1. CASE o = Ok(q)
    BY <2>1 DEF Ok
  <2>2. CASE o = Raised(q)
    BY <2>2 DEF Raised
  <2> QED
    BY <1>4, <2>1, <2>2
<1>5. CASE p.output # None /\ p.output.id = id /\ (o = Ok(same) \/ o = Raised(same))
  <2> DEFINE output == [p.output EXCEPT !.target = target]
  <2>1. output \in Bound /\ output.target = target /\ output.id = id
        /\ output.seat = p.output.seat
    BY <1>0, <1>5 DEF Bound
  <2>2. same = [p EXCEPT !.output = output]
    OBVIOUS
  <2>3. o.state = same /\ o.raised \in BOOLEAN
    BY <1>4, <1>5
  <2> HIDE DEF output, same
  <2>4. /\ Steady(same) /\ same.manager = p.manager /\ same.seat = p.seat
        /\ same.output = output /\ same.stuck = p.stuck
    BY <2>1, <2>2 DEF Steady, Pointers
  <2> QED
    BY <1>5, <2>1, <2>3, <2>4
<1>6. CASE /\ id # NoOutput /\ p.manager # None /\ seat # None
           /\ o = Ok(new) \/ o = Raised(new)
  <2>1. id \in OutputIds /\ seat \in SeatIds
    BY <1>6, ChooseOutputType DEF AnySeat
  <2>2. o.state = new /\ o.raised \in BOOLEAN
    BY <1>4, <1>6
  <2> HIDE DEF id
  <2>3. bound \in Bound /\ bound.target = target /\ bound.id = id /\ bound.seat = seat
    BY <2>1 DEF Bound
  <2> HIDE DEF bound
  <2>4. /\ Steady(new) /\ new.manager = p.manager /\ new.seat = p.seat /\ new.output = bound
        /\ new.stuck = p.stuck
    BY <2>3 DEF Steady, Pointers
  <2> QED
    BY <1>6, <2>2, <2>3, <2>4 DEF id
<1> QED
    BY <1>1, <1>2, <1>3, <1>5, <1>6

-----------------------------------------------------------------------------
(* The inductive invariant. *)

(* What was left down for good was left by a handler that raised. *)
Tidy == keyboard.stuck # {} \/ pointer.stuck # {} => stopping

Devices == /\ Known(keyboard) /\ Steady(pointer) /\ Tidy
           /\ ~stopping => Agrees(keyboard)
           /\ ~initialized => keyboard.source = None

(* What is left of a connection that is over. *)
AtRest == ~connected =>
    /\ ~initialized /\ selectedSeat = None
    /\ announced = [i \in Interfaces |-> <<>>] /\ active = [i \in Interfaces |-> NoGlobal]
    /\ keyboard.manager = None /\ keyboard.source = None /\ pointer.manager = None

(* Devices are those of the selected seat, and exist when they can. *)
Follow == /\ pointer.seat \in {None, selectedSeat}
          /\ keyboard.source \in {None, selectedSeat}
          /\ Live => /\ pointer.manager # None => pointer.seat = selectedSeat
                     /\ keyboard.source
                          = IF Able(selectedSeat, capable) THEN selectedSeat ELSE None
                     /\ keyboard.manager # None /\ keyboard.sourceKeymap # None
                          => keyboard.device

(* Types of the rest of the state. *)
PhaseOK == connected \in BOOLEAN /\ initialized \in BOOLEAN /\ stopping \in BOOLEAN
GroundOK == GlobalsTypeOK /\ SeatsTypeOK /\ OutputsTypeOK /\ capable \subseteq SeatIds
            /\ offer \in Compositors

DInv == /\ PhaseOK /\ GroundOK /\ Devices /\ Follow /\ AtRest
        /\ OutputPointerIsRight /\ ManagersFollowGlobals

(* choose_seat() chooses a seat or none. *)
LEMMA ChooseSeatFacts ==
    ASSUME NEW S \in SUBSET SeatIds, NEW preferred \in SUBSET S
    PROVE  ChooseSeat(S, preferred) \in AnySeat
<1>1. ASSUME NEW T \in SUBSET SeatIds, T # {} PROVE First(T) \in T
  <2>1. T \in SUBSET Nat
    BY SeatsAssumption
  <2>2. \E n \in T : \A m \in T : n <= m
    BY <1>1, <2>1, LeastNat
  <2> QED
    BY <2>2 DEF First
<1> QED
  BY <1>1 DEF ChooseSeat, AnySeat

(* The invariant holds at the start. *)
LEMMA InitHolds ==
    ASSUME Init
    PROVE  DInv
<1> USE DEF Init, GlobalsInit, SeatsInit, OutputsInit, PointerInit, KeyboardInit
<1>1. PhaseOK
    BY DEF PhaseOK
<1>2. GroundOK
  <2>1. Blank \in Metadata
    BY DEF Blank, Metadata
  <2>2. announced \in [Interfaces -> Seq(GlobalIds)]
    OBVIOUS
  <2> QED
    BY <2>1, <2>2 DEF GroundOK, GlobalsTypeOK, SeatsTypeOK, OutputsTypeOK, NoOutputs
<1>3. Known(keyboard)
    BY DEF Known, Keyboards, Locks, State, Silent
<1>4. Steady(pointer)
    BY DEF Steady, Pointers
<1>5. keyboard.device = FALSE /\ keyboard.source = None /\ keyboard.manager = None
      /\ pointer.seat = None /\ pointer.manager = None /\ pointer.output = None
    OBVIOUS
<1>6. Devices
    BY <1>3, <1>4, <1>5 DEF Devices, Agrees, Tidy
<1>7. Follow
    BY <1>5 DEF Follow, Live
<1>8. AtRest
    BY <1>5 DEF AtRest
<1>9. OutputPointerIsRight
    BY <1>5 DEF OutputPointerIsRight
<1>10. ManagersFollowGlobals
    BY <1>5 DEF ManagersFollowGlobals
<1> QED
    BY <1>1, <1>2, <1>6, <1>7, <1>8, <1>9, <1>10 DEF DInv

-----------------------------------------------------------------------------
(* The outcome of telling the listeners that this is the seat. *)
Seated(now, can, init) ==
    /\ Known(keyboard') /\ Steady(pointer') /\ stopping' \in BOOLEAN
    /\ stopping => stopping'
    /\ ~stopping' => Agrees(keyboard')
    /\ ~stopping' => keyboard'.stuck = keyboard.stuck /\ pointer'.stuck = pointer.stuck
    /\ ~init => keyboard'.source = None
    /\ keyboard'.manager = keyboard.manager /\ pointer'.manager = pointer.manager
    /\ keyboard'.source \in {None, now} /\ pointer'.seat \in {None, now}
    /\ init /\ ~stopping' =>
         /\ pointer.manager # None => pointer'.seat = now
         /\ keyboard'.source = IF Able(now, can) THEN now ELSE None
         /\ keyboard.manager # None /\ keyboard'.sourceKeymap # None => keyboard'.device
    /\ pointer'.output \in {None, pointer.output}
    /\ pointer.seat # now => pointer'.output = None

(* The listeners leave devices of the seat they were told of. *)
LEMMA TellSeatFacts ==
    ASSUME PhaseOK, Devices, NEW now \in AnySeat, NEW can, NEW init \in BOOLEAN,
           initialized => init, TellSeat(now, can, init)
    PROVE  Seated(now, can, init)
<1> DEFINE able == Able(now, can)
           on == init /\ ~stopping
<1>0. able \in BOOLEAN /\ on \in BOOLEAN /\ (able => now # None) /\ stopping \in BOOLEAN
    BY DEF Able, PhaseOK
<1>1. PICK k \in KeyboardOnSeat(keyboard, now, able, init, on) :
        \E live \in {on} \cup IF k.raised THEN {FALSE} ELSE {} :
            \E p \in PointerOnSeat(pointer, now, live) :
                /\ keyboard' = k.state /\ pointer' = p.state
                /\ Ends(k.raised \/ p.raised)
    BY DEF TellSeat
<1>2. PICK live \in {on} \cup IF k.raised THEN {FALSE} ELSE {} :
            \E p \in PointerOnSeat(pointer, now, live) :
                /\ keyboard' = k.state /\ pointer' = p.state
                /\ Ends(k.raised \/ p.raised)
    BY <1>1
<1>3. PICK p \in PointerOnSeat(pointer, now, live) :
                /\ keyboard' = k.state /\ pointer' = p.state
                /\ Ends(k.raised \/ p.raised)
    BY <1>2
<1>4. live \in BOOLEAN /\ (~k.raised => live = on)
    BY <1>0
<1>5. /\ Known(k.state) /\ k.raised \in BOOLEAN /\ k.state.manager = keyboard.manager
      /\ Spares(keyboard, k) /\ k.state.source \in {None, now}
      /\ keyboard.source = None /\ ~init => k.state.source = None
      /\ Agrees(keyboard) /\ ~k.raised => Agrees(k.state)
      /\ ~k.raised /\ init => k.state.source = IF able THEN now ELSE None
      /\ on /\ ~k.raised /\ k.state.manager # None /\ k.state.sourceKeymap # None
           => k.state.device
  <2> HIDE DEF able, on
  <2> QED
    BY <1>0, KeyboardOnSeatFacts DEF Devices
<1>6. /\ Steady(p.state) /\ p.raised \in BOOLEAN /\ p.state.manager = pointer.manager
      /\ Spares(pointer, p) /\ p.state.seat \in {None, now}
      /\ p.state.output \in {None, pointer.output}
      /\ pointer.seat # now => p.state.output = None
      /\ live /\ ~p.raised /\ pointer.manager # None => p.state.seat = now
    BY <1>4, PointerOnSeatFacts DEF Devices
<1>7. keyboard' = k.state /\ pointer' = p.state
      /\ stopping' = (stopping \/ (k.raised \/ p.raised))
    BY <1>3 DEF Ends
<1>8. ~stopping' => ~stopping /\ ~k.raised /\ ~p.raised
    BY <1>0, <1>5, <1>6, <1>7
<1>9. ~initialized => keyboard.source = None
    BY DEF Devices
<1> DEFINE kk == k.state
           pp == p.state
<1> HIDE DEF able, kk, pp
<1>10. /\ Known(keyboard') /\ Steady(pointer') /\ stopping' \in BOOLEAN
       /\ stopping => stopping'
    BY <1>0, <1>5, <1>6, <1>7
<1>11. ~stopping' => Agrees(keyboard')
    BY <1>5, <1>7, <1>8 DEF Devices
<1>12. ~init => keyboard'.source = None
    BY <1>5, <1>7, <1>9
<1>13. init /\ ~stopping' =>
         /\ pointer.manager # None => pointer'.seat = now
         /\ keyboard'.source = IF Able(now, can) THEN now ELSE None
         /\ keyboard.manager # None /\ keyboard'.sourceKeymap # None => keyboard'.device
    BY <1>4, <1>5, <1>6, <1>7, <1>8 DEF able
<1>14. ~stopping' => keyboard'.stuck = keyboard.stuck /\ pointer'.stuck = pointer.stuck
    BY <1>5, <1>6, <1>7, <1>8 DEF Spares
<1> QED
    BY <1>5, <1>6, <1>7, <1>10, <1>11, <1>12, <1>13, <1>14 DEF Seated

(* The invariant after an event of the seats, its listeners told or not. *)
LEMMA SeatStep ==
    ASSUME DInv, NEW now, NEW can, NEW init,
           now = selectedSeat', can = capable', init = initialized',
           connected, connected' = connected, initialized => init, init \in BOOLEAN,
           GroundOK', UNCHANGED <<globals, outputs>>,
           \/ TellSeat(now, can, init)
           \/ /\ UNCHANGED <<keyboard, pointer, stopping, initialized, selectedSeat>>
              /\ Able(selectedSeat, can) = Able(selectedSeat, capable)
    PROVE  DInv'
<1>0. now \in AnySeat /\ PhaseOK /\ Devices
    BY DEF GroundOK, SeatsTypeOK, AnySeat, DInv
<1>1. CASE TellSeat(now, can, init)
  <2>1. Seated(now, can, init)
    BY <1>0, <1>1, TellSeatFacts
  <2> DEFINE nowhere == {None, now}
  <2>2. PhaseOK' /\ Devices'
    BY <1>0, <2>1 DEF Seated, PhaseOK, Devices, Tidy
  <2>3. Follow'
    BY <2>1 DEF Seated, Follow, Live, Able
  <2>4. AtRest'
    BY DEF AtRest
  <2>5. OutputPointerIsRight'
    <3> SUFFICES ASSUME ~stopping', now # None, pointer'.output # None
                 PROVE  /\ ChooseOutput(pointer'.output.target, committed') = pointer'.output.id
                        /\ pointer'.output.seat = now
                        /\ pointer'.manager # None
        BY DEF OutputPointerIsRight
    <3>1. pointer'.output = pointer.output /\ pointer.seat = now /\ ~stopping
          /\ pointer'.manager = pointer.manager
        BY <2>1 DEF Seated
    <3>2. now = selectedSeat
        BY <3>1 DEF DInv, Follow
    <3>3. committed' = committed
        BY DEF outputs
    <3> QED
        BY <3>1, <3>2, <3>3 DEF DInv, OutputPointerIsRight
  <2>6. ManagersFollowGlobals'
    BY <2>1 DEF Seated, DInv, ManagersFollowGlobals, globals
  <2> QED
    BY <2>2, <2>3, <2>4, <2>5, <2>6 DEF DInv
<1>2. CASE /\ UNCHANGED <<keyboard, pointer, stopping, initialized, selectedSeat>>
           /\ Able(selectedSeat, can) = Able(selectedSeat, capable)
  <2>1. PhaseOK' /\ Devices'
    BY <1>0, <1>2 DEF PhaseOK, Devices, Tidy
  <2>2. Follow'
    BY <1>2 DEF DInv, Follow, Live, Able
  <2>3. AtRest'
    BY DEF AtRest
  <2>4. OutputPointerIsRight'
    BY <1>2 DEF DInv, OutputPointerIsRight, outputs
  <2>5. ManagersFollowGlobals'
    BY <1>2 DEF DInv, ManagersFollowGlobals, globals
  <2> QED
    BY <2>1, <2>2, <2>3, <2>4, <2>5 DEF DInv
<1> QED
    BY <1>1, <1>2

-----------------------------------------------------------------------------
(* The events of seats and connection. *)

(* Types of seats and capabilities, the rest unchanged. *)
LEMMA GroundKept ==
    ASSUME GroundOK, UNCHANGED <<offer, globals, outputs>>,
           seats' \subseteq SeatIds, seat0' \subseteq seats', capable' \subseteq SeatIds,
           selectedSeat' \in AnySeat
    PROVE  GroundOK'
<1>1. UNCHANGED <<announced, active, pending, committed>>
    BY DEF globals, outputs
<1> QED
    BY <1>1 DEF GroundOK, GlobalsTypeOK, SeatsTypeOK, OutputsTypeOK, AnySeat

(* TellSeat of what the event leaves, in terms of its values. *)
LEMMA ToldOfSeat ==
    ASSUME NEW now, NEW can, NEW init, now = selectedSeat', can = capable, init = initialized,
           TellSeat(selectedSeat', capable, initialized)
    PROVE  TellSeat(now, can, init)
BY DEF TellSeat, Ends, Able

(* The same, capabilities changed too, *)
LEMMA ToldOfBoth ==
    ASSUME NEW now, NEW can, NEW init, now = selectedSeat', can = capable', init = initialized,
           TellSeat(selectedSeat', capable', initialized)
    PROVE  TellSeat(now, can, init)
BY DEF TellSeat, Ends, Able

(* and capabilities alone. *)
LEMMA ToldOfCapabilities ==
    ASSUME NEW now, NEW can, NEW init, now = selectedSeat, can = capable', init = initialized,
           TellSeat(selectedSeat, capable', initialized)
    PROVE  TellSeat(now, can, init)
BY DEF TellSeat, Ends, Able

(* The invariant is kept by bind() of a seat, *)
LEMMA SeatAddedKeeps ==
    ASSUME DInv, NEW s \in SeatIds, SeatAdded(s)
    PROVE  DInv'
<1> USE DEF SeatAdded, BindSeat
<1>1. seats \subseteq SeatIds /\ seat0 \subseteq seats /\ capable \subseteq SeatIds /\ GroundOK
      /\ PhaseOK
    BY DEF DInv, GroundOK, SeatsTypeOK
<1>2. seats' \subseteq SeatIds /\ seat0' \subseteq seats'
    BY <1>1
<1>3. selectedSeat' \in AnySeat
    BY <1>2, ChooseSeatFacts DEF Publish
<1>4. UNCHANGED <<offer, globals, outputs, capable, connected, initialized>> /\ connected
    OBVIOUS
<1>5. GroundOK'
    BY <1>1, <1>2, <1>3, <1>4, GroundKept
<1>6. PICK now, can, init : now = selectedSeat' /\ can = capable' /\ init = initialized'
    OBVIOUS
<1>7. \/ TellSeat(now, can, init)
      \/ UNCHANGED <<keyboard, pointer, stopping, selectedSeat>>
  <2>1. CASE Changed
    <3>1. TellSeat(selectedSeat', capable, initialized)
        BY <2>1
    <3>2. can = capable /\ init = initialized
        BY <1>4, <1>6
    <3> QED
        BY <1>6, <3>1, <3>2, ToldOfSeat
  <2>2. CASE ~Changed
    BY <2>2 DEF Untold, Changed
  <2> QED
    BY <2>1, <2>2
<1>8. init \in BOOLEAN /\ (initialized => init) /\ can = capable
    BY <1>1, <1>4, <1>6 DEF PhaseOK
<1>9. connected' = connected /\ UNCHANGED <<globals, outputs>> /\ initialized' = initialized
    BY <1>4
<1> QED
    BY <1>4, <1>5, <1>6, <1>7, <1>8, <1>9, SeatStep

(* by the name of a seat, *)
LEMMA SeatNamedKeeps ==
    ASSUME DInv, NEW s \in SeatIds, SeatNamed(s)
    PROVE  DInv'
<1> USE DEF SeatNamed, NameSeat
<1>1. seats \subseteq SeatIds /\ seat0 \subseteq seats /\ capable \subseteq SeatIds /\ GroundOK
      /\ PhaseOK
    BY DEF DInv, GroundOK, SeatsTypeOK
<1>2. seats' \subseteq SeatIds /\ seat0' \subseteq seats'
    BY <1>1
<1>3. selectedSeat' \in AnySeat
    BY <1>2, ChooseSeatFacts DEF Publish
<1>4. UNCHANGED <<offer, globals, outputs, capable, connected, initialized>> /\ connected
    OBVIOUS
<1>5. GroundOK'
    BY <1>1, <1>2, <1>3, <1>4, GroundKept
<1>6. PICK now, can, init : now = selectedSeat' /\ can = capable' /\ init = initialized'
    OBVIOUS
<1>7. \/ TellSeat(now, can, init)
      \/ UNCHANGED <<keyboard, pointer, stopping, selectedSeat>>
  <2>1. CASE Changed
    <3>1. TellSeat(selectedSeat', capable, initialized)
        BY <2>1
    <3>2. can = capable /\ init = initialized
        BY <1>4, <1>6
    <3> QED
        BY <1>6, <3>1, <3>2, ToldOfSeat
  <2>2. CASE ~Changed
    BY <2>2 DEF Untold, Changed
  <2> QED
    BY <2>1, <2>2
<1>8. init \in BOOLEAN /\ (initialized => init) /\ can = capable
    BY <1>1, <1>4, <1>6 DEF PhaseOK
<1>9. connected' = connected /\ UNCHANGED <<globals, outputs>> /\ initialized' = initialized
    BY <1>4
<1> QED
    BY <1>4, <1>5, <1>6, <1>7, <1>8, <1>9, SeatStep

(* by the end of a seat, *)
LEMMA SeatRemovedKeeps ==
    ASSUME DInv, NEW s \in SeatIds, SeatRemoved(s)
    PROVE  DInv'
<1> USE DEF SeatRemoved, RemoveSeat
<1>1. seats \subseteq SeatIds /\ seat0 \subseteq seats /\ capable \subseteq SeatIds /\ GroundOK
      /\ PhaseOK
    BY DEF DInv, GroundOK, SeatsTypeOK
<1>2. seats' \subseteq SeatIds /\ seat0' \subseteq seats' /\ capable' \subseteq SeatIds
    BY <1>1
<1>3. selectedSeat' \in AnySeat
    BY <1>2, ChooseSeatFacts DEF Publish
<1>4. UNCHANGED <<offer, globals, outputs, connected, initialized>> /\ connected
    OBVIOUS
<1>5. GroundOK'
    BY <1>1, <1>2, <1>3, <1>4, GroundKept
<1>6. PICK now, can, init : now = selectedSeat' /\ can = capable' /\ init = initialized'
    OBVIOUS
<1>7. TellSeat(now, can, init)
  <2>1. TellSeat(selectedSeat', capable', initialized)
    OBVIOUS
  <2>2. init = initialized
    BY <1>4, <1>6
  <2> QED
    BY <1>6, <2>1, <2>2, ToldOfBoth
<1>8. init \in BOOLEAN /\ (initialized => init)
    BY <1>1, <1>4, <1>6 DEF PhaseOK
<1>9. connected' = connected /\ UNCHANGED <<globals, outputs>>
    BY <1>4
<1> QED
    BY <1>4, <1>5, <1>6, <1>7, <1>8, <1>9, SeatStep

(* by its capabilities, *)
LEMMA SetCapabilitiesKeeps ==
    ASSUME DInv, NEW s \in SeatIds, SetCapabilities(s)
    PROVE  DInv'
<1> USE DEF SetCapabilities
<1>1. seats \subseteq SeatIds /\ seat0 \subseteq seats /\ capable \subseteq SeatIds /\ GroundOK
      /\ PhaseOK /\ selectedSeat \in AnySeat
    BY DEF DInv, GroundOK, SeatsTypeOK, AnySeat
<1>2. seats' = seats /\ seat0' = seat0 /\ selectedSeat' = selectedSeat
      /\ capable' \subseteq SeatIds
    BY <1>1 DEF registry
<1>4. UNCHANGED <<offer, globals, outputs, connected, initialized>> /\ connected
    OBVIOUS
<1>5. GroundOK'
    BY <1>1, <1>2, <1>4, GroundKept
<1>6. PICK now, can, init : now = selectedSeat' /\ can = capable' /\ init = initialized'
    OBVIOUS
<1>7. CASE s = selectedSeat
  <2>1. TellSeat(now, can, init)
    <3>1. TellSeat(selectedSeat, capable', initialized)
        BY <1>7
    <3>2. now = selectedSeat /\ init = initialized
        BY <1>2, <1>4, <1>6
    <3> QED
        BY <1>6, <3>1, <3>2, ToldOfCapabilities
  <2>2. init \in BOOLEAN /\ (initialized => init)
    BY <1>1, <1>4, <1>6 DEF PhaseOK
  <2>3. connected' = connected /\ UNCHANGED <<globals, outputs>>
    BY <1>4
  <2> QED
    BY <1>4, <1>5, <1>6, <2>1, <2>2, <2>3, SeatStep
<1>8. CASE s # selectedSeat
  <2>1. UNCHANGED <<keyboard, pointer, stopping, initialized, selectedSeat>>
    BY <1>2, <1>4, <1>8 DEF Untold
  <2>2. Able(selectedSeat, can) = Able(selectedSeat, capable)
    BY <1>6, <1>8 DEF Able
  <2>3. init \in BOOLEAN /\ (initialized => init)
    BY <1>1, <1>4, <1>6 DEF PhaseOK
  <2>4. connected' = connected /\ UNCHANGED <<globals, outputs>>
    BY <1>4
  <2> QED
    BY <1>4, <1>5, <1>6, <2>1, <2>2, <2>3, <2>4, SeatStep
<1> QED
    BY <1>7, <1>8

(* by the first synchronization, *)
LEMMA ReadyKeeps ==
    ASSUME DInv, Ready
    PROVE  DInv'
<1> USE DEF Ready
<1>1. seats \subseteq SeatIds /\ seat0 \subseteq seats /\ capable \subseteq SeatIds /\ GroundOK
      /\ PhaseOK /\ selectedSeat \in AnySeat
    BY DEF DInv, GroundOK, SeatsTypeOK, AnySeat
<1>2. seats' = seats /\ seat0' = seat0 /\ selectedSeat' = selectedSeat
      /\ capable' = capable
    BY <1>1 DEF registry
<1>4. UNCHANGED <<offer, globals, outputs, connected>> /\ connected /\ initialized' = TRUE
    OBVIOUS
<1>5. GroundOK'
    BY <1>1, <1>2, <1>4, GroundKept
<1>6. PICK now, can, init : now = selectedSeat' /\ can = capable' /\ init = initialized'
    OBVIOUS
<1>7. TellSeat(now, can, init)
    BY <1>2, <1>4, <1>6 DEF TellSeat, Ends, Able
<1>8. init \in BOOLEAN /\ (initialized => init)
    BY <1>4, <1>6
<1>9. connected' = connected /\ UNCHANGED <<globals, outputs>>
    BY <1>4
<1> QED
    BY <1>4, <1>5, <1>6, <1>7, <1>8, <1>9, SeatStep

-----------------------------------------------------------------------------
(* by start(), *)
LEMMA ConnectKeeps ==
    ASSUME DInv, Connect
    PROVE  DInv'
<1> DEFINE k == [keyboard EXCEPT !.stuck = {}, !.refused = {}]
           p == [pointer EXCEPT !.stuck = {}, !.refused = {}]
<1>1. PhaseOK' /\ GroundOK'
    BY DEF Connect, DInv, PhaseOK, GroundOK, GlobalsTypeOK, SeatsTypeOK, OutputsTypeOK,
           globals, registry, outputs
<1>2. /\ UNCHANGED <<announced, active, selectedSeat, capable, committed, initialized>>
      /\ stopping' = FALSE /\ connected' = TRUE /\ keyboard' = k /\ pointer' = p
    BY DEF Connect, globals, registry, outputs
<1>3. ~initialized /\ selectedSeat = None /\ keyboard.manager = None /\ keyboard.source = None
      /\ pointer.manager = None
      /\ announced = [i \in Interfaces |-> <<>>] /\ active = [i \in Interfaces |-> NoGlobal]
    BY DEF Connect, DInv, AtRest
<1>4. Known(keyboard) /\ Steady(pointer) /\ ~keyboard.device
      /\ pointer.seat \in {None, selectedSeat}
    BY <1>3 DEF DInv, Devices, Known, Follow
<1>a. /\ Known(k) /\ k.device = keyboard.device /\ k.source = keyboard.source
      /\ k.manager = keyboard.manager /\ k.sourceKeymap = keyboard.sourceKeymap
      /\ k.stuck = {}
    BY <1>4 DEF Known, Keyboards
<1>b. /\ Steady(p) /\ p.seat = pointer.seat /\ p.manager = pointer.manager /\ p.stuck = {}
    BY <1>4 DEF Steady, Pointers
<1> HIDE DEF k, p
<1>5. Devices'
    BY <1>2, <1>3, <1>4, <1>a, <1>b DEF Devices, Agrees, Tidy
<1>6. Follow'
    BY <1>2, <1>3, <1>4, <1>a, <1>b DEF Follow, Live
<1>7. AtRest'
    BY <1>2 DEF AtRest
<1>8. OutputPointerIsRight'
    BY <1>2, <1>3 DEF OutputPointerIsRight
<1>9. ManagersFollowGlobals'
    BY <1>2, <1>3, <1>a, <1>b DEF ManagersFollowGlobals
<1> QED
    BY <1>1, <1>5, <1>6, <1>7, <1>8, <1>9 DEF DInv

(* by stop() or fail(), *)
LEMMA StopKeeps ==
    ASSUME DInv, Stop
    PROVE  DInv'
<1> USE DEF Stop
<1>1. PhaseOK' /\ GroundOK'
    BY DEF DInv, PhaseOK, GroundOK, GlobalsTypeOK, SeatsTypeOK, OutputsTypeOK, globals,
           registry, outputs
<1>2. /\ UNCHANGED <<keyboard, pointer, announced, active, selectedSeat, capable, committed,
                     initialized, connected>>
      /\ stopping' = TRUE /\ connected
    BY DEF globals, registry, outputs
<1>5. Devices'
    BY <1>2 DEF DInv, Devices, Tidy
<1>6. Follow'
    BY <1>2 DEF DInv, Follow, Live
<1>7. AtRest'
    BY <1>2 DEF AtRest
<1>8. OutputPointerIsRight'
    BY <1>2 DEF OutputPointerIsRight
<1>9. ManagersFollowGlobals'
    BY <1>2 DEF ManagersFollowGlobals
<1> QED
    BY <1>1, <1>5, <1>6, <1>7, <1>8, <1>9 DEF DInv

(* and by _disconnect(). *)
LEMMA DisconnectKeeps ==
    ASSUME DInv, Disconnect
    PROVE  DInv'
<1>1. /\ connected' = FALSE /\ initialized' = FALSE /\ stopping' = stopping /\ stopping
      /\ seats' = {} /\ seat0' = {} /\ selectedSeat' = None /\ capable' = {}
      /\ pending' = NoOutputs /\ committed' = NoOutputs
      /\ announced' = [i \in Interfaces |-> <<>>] /\ active' = [i \in Interfaces |-> NoGlobal]
      /\ offer' = offer
    BY DEF Disconnect, CloseOutputs, CloseSeats, GlobalsForgotten
<1>2. PICK o \in PointerRemoved(pointer) : pointer' = o.state
    BY DEF Disconnect
<1>a. PICK refused \in SUBSET keyboard.held : keyboard' = KeyboardClosed(keyboard, refused)
    BY DEF Disconnect
<1>3. PhaseOK'
    BY <1>1 DEF DInv, PhaseOK
<1>4. GroundOK'
  <2>1. announced' \in [Interfaces -> Seq(GlobalIds)]
    BY <1>1
  <2> QED
    BY <1>1, <2>1 DEF DInv, GroundOK, GlobalsTypeOK, SeatsTypeOK, OutputsTypeOK, NoOutputs
<1> DEFINE q == KeyboardClosed(keyboard, refused)
<1>5. /\ Known(q) /\ ~q.device /\ q.manager = None /\ q.source = None
      /\ q.sourceKeymap = None
    BY KeyboardClosedFacts DEF DInv, Devices
<1>6. Steady(o.state) /\ o.state.manager = None /\ o.state.output = None
      /\ o.state.seat = None
    BY PointerRemovedFacts DEF DInv, Devices
<1> DEFINE p == o.state
<1>7. keyboard' = q /\ pointer' = p
    BY <1>2, <1>a
<1> HIDE DEF p, q
<1>8. Devices'
    BY <1>1, <1>5, <1>6, <1>7 DEF Devices, Tidy, p
<1>9. Follow'
    BY <1>1, <1>5, <1>6, <1>7 DEF Follow, Live, p
<1>10. AtRest'
    BY <1>1, <1>5, <1>6, <1>7 DEF AtRest, p
<1>11. OutputPointerIsRight'
    BY <1>1 DEF OutputPointerIsRight
<1>12. ManagersFollowGlobals'
    BY <1>1 DEF ManagersFollowGlobals
<1> QED
    BY <1>3, <1>4, <1>8, <1>9, <1>10, <1>11, <1>12 DEF DInv

-----------------------------------------------------------------------------
(* Commands and events of the devices. *)

(* The invariant after a step of the devices, seats and managers unchanged. *)
LEMMA DeviceStep ==
    ASSUME DInv, GroundOK', OutputPointerIsRight', connected,
           UNCHANGED <<connected, initialized, globals, registry, capable>>,
           NEW raised \in BOOLEAN, Ends(raised),
           Known(keyboard'), keyboard'.manager = keyboard.manager,
           keyboard'.source = keyboard.source,
           Steady(pointer'), pointer'.manager = pointer.manager, pointer'.seat = pointer.seat,
           ~raised => keyboard'.stuck = keyboard.stuck /\ pointer'.stuck = pointer.stuck,
           Agrees(keyboard) /\ ~raised => Agrees(keyboard'),
           Live /\ ~raised /\ keyboard.manager # None /\ keyboard'.sourceKeymap # None
               => keyboard'.device
    PROVE  DInv'
<1>1. /\ UNCHANGED <<announced, active, selectedSeat, capable, connected, initialized>>
      /\ stopping' = (stopping \/ raised)
    BY DEF globals, registry, Ends
<1>2. PhaseOK'
    BY <1>1 DEF DInv, PhaseOK
<1>3. Devices'
  <2>1. ~stopping' => Agrees(keyboard')
    BY <1>1 DEF DInv, Devices, PhaseOK
  <2>2. ~initialized' => keyboard'.source = None
    BY <1>1 DEF DInv, Devices
  <2>3. Tidy'
    BY <1>1 DEF DInv, Devices, Tidy, PhaseOK
  <2> QED
    BY <2>1, <2>2, <2>3 DEF Devices
<1>4. Follow'
    BY <1>1 DEF DInv, Follow, Live, PhaseOK
<1>5. AtRest'
    BY <1>1 DEF AtRest
<1>6. ManagersFollowGlobals'
    BY <1>1 DEF DInv, ManagersFollowGlobals
<1> QED
    BY <1>2, <1>3, <1>4, <1>5, <1>6 DEF DInv

(* The output-bound pointer is as right as it was when nothing it depends on
   changes but that it may be gone. *)
LEMMA OutputStays ==
    ASSUME DInv, UNCHANGED <<selectedSeat, committed>>, stopping => stopping',
           pointer'.manager = pointer.manager, pointer'.output \in {None, pointer.output}
    PROVE  OutputPointerIsRight'
BY DEF DInv, OutputPointerIsRight

(* Types of what the devices do not touch. *)
LEMMA GroundStays ==
    ASSUME DInv, UNCHANGED <<offer, globals, registry, capable, outputs>>
    PROVE  GroundOK'
BY DEF DInv, GroundOK, GlobalsTypeOK, SeatsTypeOK, OutputsTypeOK, globals, registry, outputs

(* A connection that is stopping goes on stopping. *)
LEMMA EndsStops ==
    ASSUME NEW raised \in BOOLEAN, Ends(raised), PhaseOK
    PROVE  stopping => stopping'
BY DEF Ends, PhaseOK

(* A step of the keyboard alone. *)
LEMMA KeyboardStep ==
    ASSUME DInv, connected, NEW q, NEW raised \in BOOLEAN, keyboard' = q, Ends(raised),
           UNCHANGED <<offer, connected, initialized, globals, registry, capable, outputs,
                       pointer>>,
           Known(q), q.manager = keyboard.manager, q.source = keyboard.source,
           ~raised => q.stuck = keyboard.stuck,
           Agrees(keyboard) /\ ~raised => Agrees(q),
           Live /\ ~raised /\ keyboard.manager # None /\ q.sourceKeymap # None => q.device
    PROVE  DInv'
<1>1. GroundOK'
    BY GroundStays
<1>2. UNCHANGED <<selectedSeat, committed, pointer>> /\ (stopping => stopping')
    BY EndsStops DEF outputs, registry, DInv
<1>3. OutputPointerIsRight'
    BY <1>2, OutputStays
<1>4. Steady(pointer')
    BY <1>2 DEF DInv, Devices
<1> QED
    BY <1>1, <1>2, <1>3, <1>4, DeviceStep

(* A step of the pointer alone. *)
LEMMA PointerStep ==
    ASSUME DInv, connected, NEW p, NEW raised \in BOOLEAN, pointer' = p, Ends(raised),
           UNCHANGED <<offer, connected, initialized, globals, registry, capable, outputs,
                       keyboard>>,
           Steady(p), p.manager = pointer.manager, p.seat = pointer.seat,
           p.stuck = pointer.stuck, OutputPointerIsRight'
    PROVE  DInv'
<1>1. GroundOK'
    BY GroundStays
<1>2. UNCHANGED keyboard /\ Known(keyboard)
    BY DEF DInv, Devices
<1>3. Live /\ keyboard.manager # None /\ keyboard.sourceKeymap # None => keyboard.device
    BY DEF DInv, Follow
<1> QED
    BY <1>1, <1>2, <1>3, DeviceStep

-----------------------------------------------------------------------------
(* Commands of the keyboard. *)
LEMMA KeyCommandKeeps ==
    ASSUME DInv, NEW outcomes, KeyCommand(outcomes),
           \A o \in outcomes : KeepsUp(keyboard, o)
    PROVE  DInv'
<1>1. PICK o \in outcomes : keyboard' = o.state /\ Ends(o.raised)
    BY DEF KeyCommand, KeyboardBecomes
<1>2. KeepsUp(keyboard, o)
    BY <1>1
<1>3. /\ Known(o.state) /\ SamePlace(keyboard, o.state) /\ o.state.device = keyboard.device
      /\ o.raised \in BOOLEAN
      /\ Agrees(keyboard) /\ ~o.raised => Agrees(o.state)
    BY <1>2 DEF KeepsUp, KeyOutcomes
<1>4. connected /\ UNCHANGED <<offer, connected, initialized, globals, registry, capable,
                               outputs, pointer>>
    BY DEF KeyCommand
<1>5. Live /\ keyboard.manager # None /\ keyboard.sourceKeymap # None => keyboard.device
    BY DEF DInv, Follow
<1> DEFINE q == o.state
           raised == o.raised
<1>6. keyboard' = q /\ Ends(raised) /\ raised \in BOOLEAN
    BY <1>1, <1>3
<1>7. Known(q) /\ q.manager = keyboard.manager /\ q.source = keyboard.source
      /\ q.sourceKeymap = keyboard.sourceKeymap /\ q.device = keyboard.device
      /\ q.stuck = keyboard.stuck
      /\ (Agrees(keyboard) /\ ~raised => Agrees(q))
    BY <1>3 DEF SamePlace
<1> HIDE DEF q, raised
<1> QED
    BY <1>4, <1>5, <1>6, <1>7, KeyboardStep

(* The invariant is kept by a key expression, *)
LEMMA SendKeyKeeps ==
    ASSUME DInv, NEW e \in Expressions, SendKey(e)
    PROVE  DInv'
<1>1. Known(keyboard) /\ e \in Seq(Strokes)
    BY DesktopAssumption DEF DInv, Devices
<1>2. \A o \in Typed(keyboard, e) : KeepsUp(keyboard, o)
    BY <1>1, TypedFacts
<1> QED
    BY <1>2, KeyCommandKeeps DEF SendKey

(* by the beginning of temporary modifiers, *)
LEMMA BeginModifiersKeeps ==
    ASSUME DInv, NEW c \in Chords, BeginModifiers(c)
    PROVE  DInv'
<1>1. Known(keyboard) /\ c \in Seq(STRING)
    BY DesktopAssumption DEF DInv, Devices
<1>2. \A o \in Chorded(keyboard, c) : KeepsUp(keyboard, o)
    BY <1>1, ChordedFacts
<1> QED
    BY <1>2, KeyCommandKeeps DEF BeginModifiers

(* and by their end. *)
LEMMA EndModifiersKeeps ==
    ASSUME DInv, EndModifiers
    PROVE  DInv'
<1>1. Known(keyboard)
    BY DEF DInv, Devices
<1>2. ASSUME NEW o \in OwnReleased(keyboard, Keys)
      PROVE  KeepsUp(keyboard, [o EXCEPT !.state.own = {}])
    BY <1>1, OwnReleasedFacts, OwnFacts
<1>3. \A o \in {[o EXCEPT !.state.own = {}] : o \in OwnReleased(keyboard, Keys)} :
         KeepsUp(keyboard, o)
    BY <1>2
<1> QED
    BY <1>3, KeyCommandKeeps DEF EndModifiers

(* Events of the source keyboard. *)
LEMMA SourceEventKeeps ==
    ASSUME DInv, SourceEvent
    PROVE  DInv'
<1>1. /\ connected /\ keyboard.source # None
      /\ UNCHANGED <<offer, connected, initialized, globals, registry, capable, outputs,
                     pointer>>
    BY DEF SourceEvent
<1>2. /\ Known(keyboard) /\ selectedSeat \in AnySeat /\ Live \in BOOLEAN
      /\ offer.keymaps \subseteq Keymaps
    BY DesktopAssumption
       DEF DInv, Devices, GroundOK, SeatsTypeOK, AnySeat, Live, PhaseOK
<1>3. keyboard.source \in {None, selectedSeat}
    BY DEF DInv, Follow
<1>4. Live /\ keyboard.manager # None /\ keyboard.sourceKeymap # None => keyboard.device
    BY DEF DInv, Follow
<1>5. ASSUME NEW q, NEW raised, keyboard' = q, Ends(raised),
             Known(q), raised \in BOOLEAN,
             q.manager = keyboard.manager, q.source = keyboard.source,
             ~raised => q.stuck = keyboard.stuck,
             Agrees(keyboard) /\ ~raised => Agrees(q),
             Live /\ ~raised /\ keyboard.manager # None /\ q.sourceKeymap # None => q.device
      PROVE  DInv'
    BY <1>1, <1>5, KeyboardStep
<1>6. ASSUME NEW l \in Locks, NEW o \in OnModifiers(keyboard, l, selectedSeat, Live),
             keyboard' = o.state, Ends(o.raised)
      PROVE  DInv'
  <2>1. /\ Known(o.state) /\ o.raised \in BOOLEAN /\ SamePlace(keyboard, o.state)
        /\ Agrees(keyboard) /\ ~o.raised => Agrees(o.state)
        /\ Live /\ ~o.raised /\ keyboard.manager # None /\ keyboard.sourceKeymap # None
           /\ keyboard.source = selectedSeat => o.state.device
    BY <1>2, OnModifiersFacts
  <2> QED
    BY <1>1, <1>3, <1>5, <1>6, <2>1 DEF SamePlace
<1>7. ASSUME NEW m \in offer.keymaps, NEW o \in OnKeymap(keyboard, m, selectedSeat, Live),
             keyboard' = o.state, Ends(o.raised)
      PROVE  DInv'
  <2>1. /\ Known(o.state) /\ o.raised \in BOOLEAN
        /\ o.state.manager = keyboard.manager /\ o.state.source = keyboard.source
        /\ o.state.stuck = keyboard.stuck
        /\ Agrees(keyboard) /\ ~o.raised => Agrees(o.state)
        /\ Live /\ ~o.raised /\ keyboard.manager # None /\ keyboard.source = selectedSeat
           => o.state.device
    BY <1>1, <1>2, OnKeymapFacts
  <2> QED
    BY <1>1, <1>3, <1>5, <1>7, <2>1
<1>8. ASSUME NEW o \in OnForeignKeymap(keyboard), keyboard' = o.state, Ends(o.raised)
      PROVE  DInv'
  <2>1. /\ Known(o.state) /\ o.raised \in BOOLEAN /\ ~o.state.device
        /\ o.state.manager = keyboard.manager /\ o.state.source = keyboard.source
        /\ o.state.sourceKeymap = None /\ Spares(keyboard, o)
    BY <1>2, OnForeignKeymapFacts
  <2> QED
    BY <1>5, <1>8, <2>1 DEF Agrees, Spares
<1>9. CASE \E l \in Locks : KeyboardBecomes(OnModifiers(keyboard, l, selectedSeat, Live))
    BY <1>6, <1>9 DEF KeyboardBecomes
<1>10. CASE \E m \in offer.keymaps :
               KeyboardBecomes(OnKeymap(keyboard, m, selectedSeat, Live))
    BY <1>7, <1>10 DEF KeyboardBecomes
<1>11. CASE KeyboardBecomes(OnForeignKeymap(keyboard))
    BY <1>8, <1>11 DEF KeyboardBecomes
<1> QED
    BY <1>9, <1>10, <1>11 DEF SourceEvent

(* A command of the pointer that leaves it where it is. *)
LEMMA PointerCommandKeeps ==
    ASSUME DInv, NEW outcomes, PointerCommand(outcomes),
           \A o \in outcomes : Stays(pointer, o)
    PROVE  DInv'
<1>1. PICK o \in outcomes : pointer' = o.state /\ Ends(o.raised)
    BY DEF PointerCommand
<1> DEFINE p == o.state
           raised == o.raised
<1>2. /\ pointer' = p /\ Ends(raised) /\ raised \in BOOLEAN
      /\ Steady(p) /\ p.manager = pointer.manager /\ p.seat = pointer.seat
      /\ p.output = pointer.output /\ p.stuck = pointer.stuck
    BY <1>1 DEF Stays, Where
<1> HIDE DEF p, raised
<1>3. connected /\ UNCHANGED <<offer, connected, initialized, globals, registry, capable,
                               outputs, keyboard>>
    BY DEF PointerCommand
<1>4. stopping => stopping'
    BY <1>2, EndsStops DEF DInv
<1>5. OutputPointerIsRight'
    BY <1>2, <1>3, <1>4, OutputStays DEF registry, outputs
<1> QED
    BY <1>2, <1>3, <1>5, PointerStep

(* The invariant is kept by motion, *)
LEMMA MovePointerKeeps ==
    ASSUME DInv, MovePointer
    PROVE  DInv'
BY MovedFacts, PointerCommandKeeps DEF MovePointer, DInv, Devices

(* by scrolling, *)
LEMMA ScrollPointerKeeps ==
    ASSUME DInv, NEW axes, ScrollPointer(axes)
    PROVE  DInv'
BY ScrolledFacts, PointerCommandKeeps DEF ScrollPointer, DInv, Devices

(* by a button, *)
LEMMA SetButtonKeeps ==
    ASSUME DInv, NEW b \in Buttons, NEW press \in BOOLEAN, SetButton(b, press)
    PROVE  DInv'
BY ButtonSetFacts, PointerCommandKeeps DEF SetButton, DInv, Devices

(* by a toggle, *)
LEMMA ToggleButtonKeeps ==
    ASSUME DInv, NEW b \in Buttons, ToggleButton(b)
    PROVE  DInv'
BY ToggledFacts, PointerCommandKeeps DEF ToggleButton, DInv, Devices

(* by a click, *)
LEMMA ClickButtonKeeps ==
    ASSUME DInv, NEW b \in Buttons, ClickButton(b)
    PROVE  DInv'
BY ClickedFacts, PointerCommandKeeps DEF ClickButton, DInv, Devices

(* by the release of all buttons, *)
LEMMA ReleaseButtonsKeeps ==
    ASSUME DInv, ReleaseButtons
    PROVE  DInv'
BY AllReleasedFacts, PointerCommandKeeps DEF ReleaseButtons, DInv, Devices

(* and by motion on an output. *)
LEMMA MoveOnOutputKeeps ==
    ASSUME DInv, NEW t \in Targets, MoveOnOutput(t)
    PROVE  DInv'
<1>1. PICK o \in MovedOnOutput(pointer, t, committed, selectedSeat) :
         pointer' = o.state /\ Ends(o.raised)
    BY DEF MoveOnOutput, PointerCommand
<1>2. Steady(pointer) /\ t \in Metadata /\ selectedSeat \in AnySeat /\ PhaseOK
    BY DesktopAssumption DEF DInv, Devices, GroundOK, SeatsTypeOK, AnySeat
<1> DEFINE p == o.state
           raised == o.raised
<1>3. /\ Steady(p) /\ raised \in BOOLEAN /\ p.manager = pointer.manager /\ p.seat = pointer.seat
      /\ p.stuck = pointer.stuck
      /\ \/ p.output \in {None, pointer.output}
         \/ /\ p.output.target = t
            /\ p.output.id = ChooseOutput(t, committed)
            /\ \/ pointer.output # None /\ p.output.seat = pointer.output.seat
               \/ p.output.seat = selectedSeat /\ pointer.manager # None
    BY <1>2, MovedOnOutputFacts
<1>4. pointer' = p /\ Ends(raised)
    BY <1>1
<1> HIDE DEF p, raised
<1>5. connected /\ UNCHANGED <<offer, connected, initialized, globals, registry, capable,
                               outputs, keyboard>>
    BY DEF MoveOnOutput, PointerCommand
<1>6. /\ stopping => stopping'
      /\ UNCHANGED <<selectedSeat, committed>>
    BY <1>2, <1>3, <1>4, <1>5, EndsStops DEF registry, outputs
<1>7. OutputPointerIsRight'
  <2>1. CASE p.output \in {None, pointer.output}
    BY <1>3, <1>4, <1>6, <2>1, OutputStays
  <2>2. CASE /\ p.output.target = t
             /\ p.output.id = ChooseOutput(t, committed)
             /\ \/ pointer.output # None /\ p.output.seat = pointer.output.seat
                \/ p.output.seat = selectedSeat /\ pointer.manager # None
    BY <1>3, <1>4, <1>6, <2>2 DEF DInv, OutputPointerIsRight
  <2> QED
    BY <1>3, <2>1, <2>2
<1> QED
    BY <1>3, <1>4, <1>5, <1>7, PointerStep

(* The chord goes down, the button is clicked, and what went down goes up. *)
LEMMA ModifiedClickKeeps ==
    ASSUME DInv, NEW c \in Chords, NEW b \in Buttons, ModifiedClick(c, b)
    PROVE  DInv'
<1>1. connected /\ UNCHANGED <<offer, connected, initialized, globals, registry, capable, outputs>>
    BY DEF ModifiedClick
<1>2. Known(keyboard) /\ Steady(pointer) /\ c \in Seq(STRING) /\ PhaseOK
    BY DesktopAssumption DEF DInv, Devices
<1>3. Live /\ keyboard.manager # None /\ keyboard.sourceKeymap # None => keyboard.device
    BY DEF DInv, Follow
<1>4. CASE UNCHANGED <<keyboard, pointer, stopping>>
  <2>1. FALSE \in BOOLEAN /\ Ends(FALSE)
    BY <1>2, <1>4 DEF Ends, PhaseOK
  <2>2. keyboard' = keyboard /\ (Agrees(keyboard) => Agrees(keyboard))
    BY <1>4
  <2> QED
    BY <1>1, <1>2, <1>3, <1>4, <2>1, <2>2, KeyboardStep
<1>5. ASSUME NEW k \in Typed(keyboard, ModifierChord(c))
      PROVE  KeepsUp(keyboard, k)
    BY <1>2, ChordIsStrokes, TypedFacts
<1>6. ASSUME NEW k \in Typed(keyboard, ModifierChord(c)), k.raised,
             keyboard' = k.state, Ends(TRUE), UNCHANGED pointer
      PROVE  DInv'
  <2> DEFINE q == k.state
  <2>1. /\ Known(q) /\ q.manager = keyboard.manager /\ q.source = keyboard.source
        /\ q.device = keyboard.device /\ q.sourceKeymap = keyboard.sourceKeymap
        /\ q.stuck = keyboard.stuck
    BY <1>5 DEF KeepsUp, SamePlace
  <2>2. keyboard' = q
    BY <1>6
  <2> HIDE DEF q
  <2> QED
    BY <1>1, <1>3, <1>6, <2>1, <2>2, KeyboardStep
<1>7. ASSUME CanType(keyboard), NEW k \in Typed(keyboard, ModifierChord(c)), ~k.raised,
             NEW p \in Clicked(pointer, b),
             NEW r \in Releases(k.state, k.state.held \ keyboard.held),
             pointer' = p.state, keyboard' = r.state, Ends(p.raised \/ r.raised)
      PROVE  DInv'
  <2>1. /\ Known(k.state) /\ SamePlace(keyboard, k.state) /\ k.state.device
        /\ Agrees(keyboard) => Agrees(k.state)
    BY <1>5, <1>7 DEF KeepsUp, CanType
  <2>2. k.state \in Keyboards /\ k.state.held \ keyboard.held \in SUBSET Keys
    BY <2>1 DEF Known, Keyboards
  <2>3. Follows(k.state, r.state) /\ r.raised \in BOOLEAN
    BY <2>2, ReleasesFacts
  <2>4. /\ Known(r.state) /\ r.state.device /\ SamePlace(k.state, r.state)
        /\ Agrees(k.state) => Agrees(r.state)
    BY <2>1, <2>3, KnownFollows
  <2>5. Stays(pointer, p)
    BY <1>2, ClickedFacts
  <2> DEFINE raised == p.raised \/ r.raised
  <2>6. /\ raised \in BOOLEAN /\ Ends(raised)
        /\ stopping => stopping'
        /\ Steady(pointer') /\ pointer'.manager = pointer.manager
        /\ pointer'.seat = pointer.seat /\ pointer'.output = pointer.output
        /\ pointer'.stuck = pointer.stuck
    BY <1>2, <1>7, <2>3, <2>5, EndsStops DEF Stays, Where
  <2>7. /\ Known(keyboard') /\ keyboard'.manager = keyboard.manager
        /\ keyboard'.source = keyboard.source /\ keyboard'.device
        /\ keyboard'.stuck = keyboard.stuck
        /\ Agrees(keyboard) => Agrees(keyboard')
    BY <1>7, <2>1, <2>4 DEF SamePlace
  <2> HIDE DEF raised
  <2>8. OutputPointerIsRight'
    BY <1>1, <2>6, OutputStays DEF registry, outputs
  <2>9. GroundOK'
    BY <1>1, GroundStays
  <2> QED
    BY <1>1, <2>6, <2>7, <2>8, <2>9, DeviceStep
<1>8. CASE ~(UNCHANGED <<keyboard, pointer, stopping>>)
  <2>1. CanType(keyboard)
    BY <1>8 DEF ModifiedClick
  <2>2. PICK k \in Typed(keyboard, ModifierChord(c)) :
           IF k.raised THEN /\ keyboard' = k.state /\ Ends(TRUE)
                            /\ UNCHANGED pointer
           ELSE \E p \in Clicked(pointer, b) :
                   \E r \in Releases(k.state, k.state.held \ keyboard.held) :
                       /\ pointer' = p.state /\ keyboard' = r.state
                       /\ Ends(p.raised \/ r.raised)
    BY <1>8 DEF ModifiedClick
  <2> QED
    BY <1>6, <1>7, <2>1, <2>2
<1> QED
    BY <1>4, <1>8

-----------------------------------------------------------------------------
(* Outputs and managers. *)

(* An event of an output leaves metadata of it. *)
LEMMA SaysType ==
    ASSUME OutputsTypeOK, NEW o \in OutputIds, pending[o] # NoOutput, Says(o)
    PROVE  pending' \in [OutputIds -> Metadata \cup {NoOutput}]
<1>1. pending \in [OutputIds -> Metadata \cup {NoOutput}] /\ pending[o] \in Metadata
    BY DEF OutputsTypeOK
<1>2. ASSUME NEW m \in Metadata, pending' = [pending EXCEPT ![o] = m]
      PROVE  pending' \in [OutputIds -> Metadata \cup {NoOutput}]
    BY <1>1, <1>2
<1>3. ASSUME NEW model \in Models \cup {Unknown}, NEW size \in Sizes \cup {Unknown},
             pending' = [pending EXCEPT ![o].model = model, ![o].size = size]
      PROVE  pending' \in [OutputIds -> Metadata \cup {NoOutput}]
  <2> DEFINE m == [pending[o] EXCEPT !.model = model, !.size = size]
  <2>1. m \in Metadata
    BY <1>1 DEF Metadata
  <2>2. pending' = [pending EXCEPT ![o] = m]
    BY <1>1, <1>3
  <2> HIDE DEF m
  <2> QED
    BY <1>2, <2>1, <2>2
<1>4. ASSUME NEW mode \in OutputModes, pending' = [pending EXCEPT ![o].mode = mode]
      PROVE  pending' \in [OutputIds -> Metadata \cup {NoOutput}]
  <2> DEFINE m == [pending[o] EXCEPT !.mode = mode]
  <2>1. m \in Metadata
    BY <1>1 DEF Metadata
  <2>2. pending' = [pending EXCEPT ![o] = m]
    BY <1>1, <1>4
  <2> HIDE DEF m
  <2> QED
    BY <1>2, <2>1, <2>2
<1>5. ASSUME NEW name \in Names, pending' = [pending EXCEPT ![o].name = name]
      PROVE  pending' \in [OutputIds -> Metadata \cup {NoOutput}]
  <2> DEFINE m == [pending[o] EXCEPT !.name = name]
  <2>1. m \in Metadata
    BY <1>1 DEF Metadata
  <2>2. pending' = [pending EXCEPT ![o] = m]
    BY <1>1, <1>5
  <2> HIDE DEF m
  <2> QED
    BY <1>2, <2>1, <2>2
<1> QED
    BY <1>1, <1>3, <1>4, <1>5 DEF Says

(* So do all events of outputs. *)
LEMMA OutputsTyped ==
    ASSUME OutputsTypeOK, NEW o \in OutputIds,
           BindOutput(o) \/ Describe(o) \/ CommitOutput(o) \/ RemoveOutput(o)
    PROVE  OutputsTypeOK'
<1>1. CASE BindOutput(o)
  <2>1. Blank \in Metadata
    BY DEF Blank, Metadata
  <2> QED
    BY <1>1, <2>1 DEF BindOutput, OutputsTypeOK
<1>2. CASE Describe(o)
  <2>1. pending' \in [OutputIds -> Metadata \cup {NoOutput}]
    BY <1>2, SaysType DEF Describe
  <2> QED
    BY <1>2, <2>1 DEF Describe, OutputsTypeOK
<1>3. CASE CommitOutput(o)
    BY <1>3 DEF CommitOutput, OutputsTypeOK
<1>4. CASE RemoveOutput(o)
    BY <1>4 DEF RemoveOutput, OutputsTypeOK
<1> QED
    BY <1>1, <1>2, <1>3, <1>4

(* The invariant is kept by the events of outputs. *)
LEMMA OutputEventKeeps ==
    ASSUME DInv, NEW out \in OutputIds, OutputEvent(out)
    PROVE  DInv'
<1>1. /\ connected
      /\ UNCHANGED <<offer, connected, initialized, globals, registry, capable, keyboard>>
      /\ TellOutputs
    BY DEF OutputEvent
<1>2. OutputsTypeOK /\ Steady(pointer) /\ Known(keyboard) /\ PhaseOK
    BY DEF DInv, GroundOK, Devices
<1>3. OutputsTypeOK'
    BY <1>2, OutputsTyped DEF OutputEvent
<1>4. GroundOK'
    BY <1>1, <1>3 DEF DInv, GroundOK, GlobalsTypeOK, SeatsTypeOK, globals, registry
<1>5. Live /\ keyboard.manager # None /\ keyboard.sourceKeymap # None => keyboard.device
    BY DEF DInv, Follow
<1>6. ASSUME NEW p, NEW raised \in BOOLEAN, pointer' = p, Ends(raised),
             Steady(p), p.manager = pointer.manager, p.seat = pointer.seat,
             p.stuck = pointer.stuck, OutputPointerIsRight'
      PROVE  DInv'
  <2>1. Known(keyboard') /\ keyboard' = keyboard
    BY <1>1, <1>2
  <2>2. Steady(pointer') /\ pointer'.manager = pointer.manager /\ pointer'.seat = pointer.seat
        /\ pointer'.stuck = pointer.stuck
    BY <1>6
  <2> QED
    BY <1>1, <1>4, <1>5, <1>6, <2>1, <2>2, DeviceStep
<1>7. CASE committed' = committed
  <2>1. UNCHANGED <<pointer, stopping>>
    BY <1>1, <1>7 DEF TellOutputs
  <2>2. FALSE \in BOOLEAN /\ Ends(FALSE)
    BY <1>2, <2>1 DEF Ends, PhaseOK
  <2>3. OutputPointerIsRight'
    BY <1>1, <1>7, <2>1, OutputStays DEF registry
  <2> QED
    BY <1>2, <1>6, <2>1, <2>2, <2>3
<1>8. CASE committed' # committed
  <2>0. PICK now : now = committed'
    OBVIOUS
  <2>1. PICK o \in PointerOnOutputs(pointer, now) : pointer' = o.state /\ Ends(o.raised)
    BY <1>1, <1>8, <2>0 DEF TellOutputs
  <2> DEFINE p == o.state
             raised == o.raised
  <2>2. /\ Steady(p) /\ raised \in BOOLEAN
        /\ p.manager = pointer.manager /\ p.seat = pointer.seat
        /\ p.stuck = pointer.stuck
        /\ \/ p.output = None
           \/ /\ p.output = pointer.output
              /\ ChooseOutput(pointer.output.target, now) = pointer.output.id
    BY <1>2, PointerOnOutputsFacts
  <2>3. pointer' = p /\ Ends(raised)
    BY <2>1
  <2> HIDE DEF p, raised
  <2>4. (stopping => stopping') /\ selectedSeat' = selectedSeat
    BY <1>1, <1>2, <2>2, <2>3, EndsStops DEF registry
  <2>5. OutputPointerIsRight'
    BY <2>0, <2>2, <2>3, <2>4 DEF DInv, OutputPointerIsRight
  <2> QED
    BY <1>6, <2>2, <2>3, <2>5
<1> QED
    BY <1>7, <1>8

-----------------------------------------------------------------------------
(* The registry of managers. *)
LEMMA WithoutOne ==
    ASSUME NEW s \in Seq(GlobalIds), NEW n \in DOMAIN s
    PROVE  /\ RemoveAt(s, n) \in Seq(GlobalIds)
           /\ \A g \in GlobalIds : g # s[n] /\ g \in Range(s) => g \in Range(RemoveAt(s, n))
<1> DEFINE a == SubSeq(s, 1, n - 1)
           c == SubSeq(s, n + 1, Len(s))
           r == a \o c
<1>0. n \in 1..Len(s) /\ Len(s) \in Nat /\ (\A m \in 1..Len(s) : s[m] \in GlobalIds)
      /\ DOMAIN s = 1..Len(s) /\ n \in Nat
    BY LenProperties
<1>1. /\ a \in Seq(GlobalIds) /\ Len(a) = n - 1
      /\ \A m \in 1..(n - 1) : a[m] = s[m]
    BY <1>0, SubSeqProperties
<1>2. /\ c \in Seq(GlobalIds) /\ Len(c) = Len(s) - n
      /\ \A m \in 1..(Len(s) - n) : c[m] = s[m + n]
  <2>1. CASE n + 1 <= Len(s)
    BY <1>0, <2>1, SubSeqProperties
  <2>2. CASE n + 1 > Len(s)
    BY <1>0, <2>2, SubSeqProperties
  <2> QED
    BY <1>0, <2>1, <2>2
<1> HIDE DEF a, c
<1>3. /\ r \in Seq(GlobalIds) /\ Len(r) = Len(s) - 1
      /\ \A m \in 1..Len(r) : r[m] = IF m <= Len(a) THEN a[m] ELSE c[m - Len(a)]
  <2>1. /\ r \in Seq(GlobalIds) /\ Len(r) = Len(a) + Len(c)
        /\ \A m \in 1..(Len(a) + Len(c)) : r[m] = IF m <= Len(a) THEN a[m] ELSE c[m - Len(a)]
    BY <1>1, <1>2, ConcatProperties
  <2> HIDE DEF r
  <2> QED
    BY <1>0, <1>1, <1>2, <2>1
<1>4. RemoveAt(s, n) = r
    BY DEF RemoveAt, a, c
<1> HIDE DEF r
<1>5. ASSUME NEW g \in GlobalIds, g # s[n], g \in Range(s)
      PROVE  g \in Range(r)
  <2>1. PICK m \in 1..Len(s) : s[m] = g
    BY <1>0, <1>5 DEF Range
  <2>2. DOMAIN r = 1..Len(r)
    BY <1>3, LenProperties
  <2>3. CASE m < n
    <3>1. m \in 1..Len(r) /\ m <= Len(a) /\ r[m] = g
        BY <1>0, <1>1, <1>3, <2>1, <2>3
    <3> QED
        BY <2>2, <3>1 DEF Range
  <2>4. CASE m > n
    <3>1. m - 1 \in 1..Len(r) /\ m - 1 > n - 1 /\ m - 1 - (n - 1) = m - n
          /\ m - n \in 1..(Len(s) - n) /\ (m - n) + n = m
        BY <1>0, <1>1, <1>3, <2>1, <2>4
    <3>2. r[m - 1] = c[(m - 1) - Len(a)]
        BY <1>0, <1>1, <1>3, <3>1
    <3>3. (m - 1) - Len(a) = m - n
        BY <1>0, <1>1, <3>1
    <3>4. c[m - n] = s[(m - n) + n]
        BY <1>2, <3>1
    <3>5. r[m - 1] = g /\ m - 1 \in DOMAIN r
        BY <2>1, <2>2, <3>1, <3>2, <3>3, <3>4
    <3> QED
        BY <3>5 DEF Range
  <2> QED
    BY <1>0, <1>5, <2>1, <2>3, <2>4
<1> QED
    BY <1>3, <1>4, <1>5

(* The head of a sequence is one of its elements. *)
LEMMA HeadInRange ==
    ASSUME NEW s \in Seq(GlobalIds), s # <<>>
    PROVE  Head(s) \in Range(s) /\ Head(s) \in GlobalIds
<1>1. Len(s) \in Nat /\ Len(s) # 0 /\ DOMAIN s = 1..Len(s)
    BY LenProperties, EmptySeq
<1>2. Head(s) = s[1] /\ 1 \in DOMAIN s
    BY <1>1, HeadTailProperties
<1> QED
    BY <1>1, <1>2, LenProperties DEF Range

(* What is appended is an element of the sequence, and so is what was. *)
LEMMA AppendInRange ==
    ASSUME NEW s \in Seq(GlobalIds), NEW g \in GlobalIds
    PROVE  /\ Append(s, g) \in Seq(GlobalIds) /\ Append(s, g) # <<>>
           /\ g \in Range(Append(s, g))
           /\ \A h \in Range(s) : h \in Range(Append(s, g))
<1>1. /\ Append(s, g) \in Seq(GlobalIds) /\ Len(Append(s, g)) = Len(s) + 1
      /\ \A i \in 1..Len(s) : Append(s, g)[i] = s[i]
      /\ Append(s, g)[Len(s) + 1] = g /\ Len(s) \in Nat /\ DOMAIN s = 1..Len(s)
    BY AppendProperties, LenProperties
<1>2. DOMAIN Append(s, g) = 1..(Len(s) + 1)
    BY <1>1, LenProperties
<1>3. Append(s, g) # <<>>
    BY <1>1, EmptySeq
<1> QED
    BY <1>1, <1>2, <1>3 DEF Range

ManagerOf(a) == IF a = NoGlobal THEN None ELSE a

(* What an adapter of interface i left of the devices k and p, its manager m if
   it raised nothing. *)
Leaving(i, k, p, o, m) ==
    /\ Known(o.keyboard) /\ Steady(o.pointer) /\ o.raised \in BOOLEAN
    /\ o.keyboard.source = k.source /\ o.keyboard.sourceKeymap = k.sourceKeymap
    /\ o.pointer.seat \in {None, selectedSeat} /\ o.pointer.output \in {None, p.output}
    /\ ~o.raised => o.keyboard.stuck = k.stuck /\ o.pointer.stuck = p.stuck
    /\ Agrees(k) /\ ~o.raised => Agrees(o.keyboard)
    /\ i = "keyboard" => o.pointer = p
    /\ i = "pointer" => o.keyboard = k
    /\ i = "keyboard" /\ ~stopping /\ ~o.raised => o.keyboard.manager = m
    /\ i = "pointer" /\ ~stopping /\ ~o.raised => o.pointer.manager = m

(* What bind() of either adapter leaves. *)
LEMMA BindingsFacts ==
    ASSUME PhaseOK, selectedSeat \in AnySeat, NEW i \in Interfaces, NEW k, NEW p,
           Known(k), Steady(p),
           k.source \in {None, selectedSeat}, p.seat \in {None, selectedSeat},
           NEW g \in GlobalIds, NEW o \in Bindings(i, k, p, g)
    PROVE  /\ Leaving(i, k, p, o, g)
           /\ i = "keyboard" /\ Live /\ ~o.raised /\ k.sourceKeymap # None
                => o.keyboard.device
           /\ i = "pointer" /\ Live /\ ~o.raised => o.pointer.seat = selectedSeat
<1>1. g \in Nat /\ Live \in BOOLEAN /\ i \in {"pointer", "keyboard"}
    BY DesktopAssumption DEF PhaseOK, Live
<1>2. CASE i = "keyboard"
  <2>1. PICK r \in KeyboardBound(k, g, selectedSeat, Live) :
           o = [keyboard |-> r.state, pointer |-> p, raised |-> r.raised]
    BY <1>2 DEF Bindings
  <2>2. /\ Known(r.state) /\ r.raised \in BOOLEAN /\ r.state.stuck = k.stuck
        /\ r.state.source = k.source /\ r.state.sourceKeymap = k.sourceKeymap
        /\ Agrees(k) /\ ~r.raised => Agrees(r.state)
        /\ ~r.raised => r.state.manager = g
        /\ Live /\ ~r.raised /\ k.sourceKeymap # None /\ k.source = selectedSeat
             => r.state.device
    BY <1>1, KeyboardBoundFacts
  <2>3. o.keyboard = r.state /\ o.pointer = p /\ o.raised = r.raised
    BY <2>1
  <2>4. k.sourceKeymap # None => k.source = selectedSeat
    BY DEF Known
  <2> QED
    BY <1>2, <2>2, <2>3, <2>4 DEF Leaving
<1>3. CASE i = "pointer"
  <2>1. PICK r \in PointerBound(p, g, selectedSeat, Live) :
           o = [keyboard |-> k, pointer |-> r.state, raised |-> r.raised]
    BY <1>3 DEF Bindings
  <2>2. /\ Steady(r.state) /\ r.raised \in BOOLEAN /\ r.state.output = p.output
        /\ r.state.stuck = p.stuck
        /\ r.state.seat \in {p.seat, selectedSeat}
        /\ ~r.raised => r.state.manager = g
        /\ Live /\ ~r.raised /\ p.seat \in {None, selectedSeat} => r.state.seat = selectedSeat
    BY <1>1, PointerBoundFacts
  <2>3. o.keyboard = k /\ o.pointer = r.state /\ o.raised = r.raised
    BY <2>1
  <2> QED
    BY <1>3, <2>2, <2>3 DEF Leaving
<1> QED
    BY <1>1, <1>2, <1>3

(* And what remove() leaves. *)
LEMMA RemovalsFacts ==
    ASSUME NEW i \in Interfaces, Known(keyboard), Steady(pointer),
           pointer.seat \in {None, selectedSeat}, NEW o \in Removals(i)
    PROVE  /\ Leaving(i, keyboard, pointer, o, None)
           /\ i = "keyboard" => ~o.keyboard.device /\ Agrees(o.keyboard)
           /\ i = "pointer" => o.pointer.output = None
<1>1. i \in {"pointer", "keyboard"}
    BY DesktopAssumption
<1>2. CASE i = "keyboard"
  <2>1. PICK r \in KeyboardRemoved(keyboard) :
           o = [keyboard |-> r.state, pointer |-> pointer, raised |-> r.raised]
    BY <1>2 DEF Removals
  <2>2. /\ Known(r.state) /\ r.raised \in BOOLEAN /\ ~r.state.device
        /\ r.state.manager = None /\ r.state.source = keyboard.source
        /\ r.state.sourceKeymap = keyboard.sourceKeymap
        /\ ~r.raised => r.state.stuck = keyboard.stuck
    BY KeyboardRemovedFacts DEF Spares
  <2>3. o.keyboard = r.state /\ o.pointer = pointer /\ o.raised = r.raised
    BY <2>1
  <2>4. Agrees(r.state)
    BY <2>2 DEF Agrees
  <2> QED
    BY <1>2, <2>2, <2>3, <2>4 DEF Leaving
<1>3. CASE i = "pointer"
  <2>1. PICK r \in PointerRemoved(pointer) :
           o = [keyboard |-> keyboard, pointer |-> r.state, raised |-> r.raised]
    BY <1>3 DEF Removals
  <2>2. /\ Steady(r.state) /\ r.raised \in BOOLEAN
        /\ r.state.manager = None /\ r.state.output = None /\ r.state.seat = None
        /\ ~r.raised => r.state.stuck = pointer.stuck
    BY PointerRemovedFacts DEF Spares
  <2>3. o.keyboard = keyboard /\ o.pointer = r.state /\ o.raised = r.raised
    BY <2>1
  <2> QED
    BY <1>3, <2>2, <2>3 DEF Leaving
<1> QED
    BY <1>1, <1>2, <1>3

(* The invariant after the announcement or the end of a manager. *)
LEMMA ManagerStep ==
    ASSUME DInv, connected, NEW i \in Interfaces,
           NEW list \in Seq(GlobalIds), announced' = [announced EXCEPT ![i] = list],
           NEW a \in GlobalIds \cup {NoGlobal}, active' = [active EXCEPT ![i] = a],
           UNCHANGED <<offer, connected, initialized, registry, capable, outputs>>,
           NEW o, keyboard' = o.keyboard, pointer' = o.pointer, Ends(o.raised),
           Leaving(i, keyboard, pointer, o, ManagerOf(a)),
           ~stopping /\ ~o.raised => (a = NoGlobal <=> list = <<>>),
           ~stopping /\ ~o.raised /\ a # NoGlobal => a \in Range(list),
           Live /\ ~o.raised /\ o.pointer.manager # None => o.pointer.seat = selectedSeat,
           Live /\ ~o.raised /\ o.keyboard.manager # None /\ keyboard.sourceKeymap # None
             => o.keyboard.device,
           i = "pointer" /\ a = NoGlobal /\ ~stopping /\ ~o.raised => o.pointer.output = None
    PROVE  DInv'
<1>0. /\ announced \in [Interfaces -> Seq(GlobalIds)]
      /\ active \in [Interfaces -> GlobalIds \cup {NoGlobal}]
      /\ i \in {"pointer", "keyboard"} /\ Interfaces = {"pointer", "keyboard"}
    BY DesktopAssumption DEF DInv, GroundOK, GlobalsTypeOK
<1>1. UNCHANGED <<connected, initialized, selectedSeat, capable, committed, pending, seats, seat0,
                  offer>>
    BY DEF registry, outputs
<1> DEFINE k == o.keyboard
           p == o.pointer
           raised == o.raised
<1>2. /\ Known(k) /\ Steady(p) /\ raised \in BOOLEAN
      /\ k.source = keyboard.source /\ k.sourceKeymap = keyboard.sourceKeymap
      /\ p.seat \in {None, selectedSeat} /\ p.output \in {None, pointer.output}
      /\ Agrees(keyboard) /\ ~raised => Agrees(k)
      /\ ~raised => k.stuck = keyboard.stuck /\ p.stuck = pointer.stuck
      /\ i = "keyboard" => p = pointer
      /\ i = "pointer" => k = keyboard
      /\ i = "keyboard" /\ ~stopping /\ ~raised => k.manager = ManagerOf(a)
      /\ i = "pointer" /\ ~stopping /\ ~raised => p.manager = ManagerOf(a)
    BY DEF Leaving
<1>3. /\ keyboard' = k /\ pointer' = p /\ stopping' = (stopping \/ raised)
      /\ Live /\ ~raised /\ p.manager # None => p.seat = selectedSeat
      /\ Live /\ ~raised /\ k.manager # None /\ keyboard.sourceKeymap # None => k.device
      /\ ~stopping /\ ~raised => (a = NoGlobal <=> list = <<>>)
      /\ ~stopping /\ ~raised /\ a # NoGlobal => a \in Range(list)
      /\ i = "pointer" /\ a = NoGlobal /\ ~stopping /\ ~raised => p.output = None
    BY DEF Ends
<1> HIDE DEF k, p, raised
<1>4. PhaseOK'
    BY <1>1, <1>2, <1>3 DEF DInv, PhaseOK
<1>5. GroundOK'
  <2>1. /\ announced' \in [Interfaces -> Seq(GlobalIds)]
        /\ active' \in [Interfaces -> GlobalIds \cup {NoGlobal}]
    BY <1>0
  <2> QED
    BY <1>1, <2>1 DEF DInv, GroundOK, GlobalsTypeOK, SeatsTypeOK, OutputsTypeOK
<1>6. Devices'
  <2>1. ~stopping' => Agrees(keyboard')
    BY <1>2, <1>3 DEF DInv, Devices
  <2>2. ~initialized' => keyboard'.source = None
    BY <1>1, <1>2, <1>3 DEF DInv, Devices
  <2>3. Tidy'
    BY <1>2, <1>3 DEF DInv, Devices, Tidy, PhaseOK
  <2> QED
    BY <1>2, <1>3, <2>1, <2>2, <2>3 DEF Devices
<1>7. Follow'
  <2>1. keyboard'.source \in {None, selectedSeat'} /\ pointer'.seat \in {None, selectedSeat'}
    BY <1>1, <1>2, <1>3 DEF DInv, Follow
  <2>2. Live' => Live /\ ~raised
    BY <1>1, <1>2, <1>3 DEF Live, DInv, PhaseOK
  <2> QED
    BY <1>1, <1>2, <1>3, <2>1, <2>2 DEF DInv, Follow
<1>8. AtRest'
    BY <1>1 DEF AtRest
<1>9. OutputPointerIsRight'
  <2> SUFFICES ASSUME ~stopping', selectedSeat' # None, pointer'.output # None
               PROVE  /\ ChooseOutput(pointer'.output.target, committed') = pointer'.output.id
                      /\ pointer'.output.seat = selectedSeat'
                      /\ pointer'.manager # None
    BY DEF OutputPointerIsRight
  <2>1. ~stopping /\ ~raised /\ pointer'.output = pointer.output /\ selectedSeat # None
        /\ pointer.output # None
    BY <1>1, <1>2, <1>3
  <2>2. /\ ChooseOutput(pointer.output.target, committed) = pointer.output.id
        /\ pointer.output.seat = selectedSeat
        /\ pointer.manager # None
    BY <2>1 DEF DInv, OutputPointerIsRight
  <2>3. pointer'.manager # None
    <3>1. CASE i = "keyboard"
        BY <1>2, <1>3, <2>2, <3>1
    <3>2. CASE i = "pointer"
      <4>1. p.manager = ManagerOf(a) /\ a # NoGlobal
        BY <1>2, <1>3, <2>1, <3>2
      <4>2. a # None
        BY <4>1, DesktopAssumption, PointerAssumption
      <4> QED
        BY <1>3, <4>1, <4>2 DEF ManagerOf
    <3> QED
        BY <1>0, <3>1, <3>2
  <2> QED
    BY <1>1, <2>1, <2>2, <2>3
<1>10. ManagersFollowGlobals'
  <2> SUFFICES ASSUME ~stopping', NEW j \in Interfaces
               PROVE  /\ active'[j] = NoGlobal <=> announced'[j] = <<>>
                      /\ active'[j] # NoGlobal => active'[j] \in Range(announced'[j])
                      /\ (IF j = "keyboard" THEN keyboard'.manager ELSE pointer'.manager)
                            = ManagerOf(active'[j])
    BY DEF ManagersFollowGlobals, ManagerOf
  <2>1. ~stopping /\ ~raised
    BY <1>3
  <2>2. /\ active[j] = NoGlobal <=> announced[j] = <<>>
        /\ active[j] # NoGlobal => active[j] \in Range(announced[j])
        /\ (IF j = "keyboard" THEN keyboard.manager ELSE pointer.manager)
                            = ManagerOf(active[j])
    BY <2>1 DEF DInv, ManagersFollowGlobals, ManagerOf
  <2>3. CASE j = i
    <3>1. active'[j] = a /\ announced'[j] = list
        BY <1>0, <2>3
    <3> QED
        BY <1>0, <1>2, <1>3, <2>1, <2>3, <3>1
  <2>4. CASE j # i
    <3>1. active'[j] = active[j] /\ announced'[j] = announced[j]
        BY <1>0, <2>4
    <3>2. (i = "keyboard" /\ j = "pointer") \/ (i = "pointer" /\ j = "keyboard")
        BY <1>0, <2>4
    <3> QED
        BY <1>2, <1>3, <2>2, <3>1, <3>2
  <2> QED
    BY <2>3, <2>4
<1> QED
    BY <1>4, <1>5, <1>6, <1>7, <1>8, <1>9, <1>10 DEF DInv

(* The invariant is kept by _on_global(), *)
LEMMA OnGlobalKeeps ==
    ASSUME DInv, NEW i \in Interfaces, NEW g \in GlobalIds, OnGlobal(i, g)
    PROVE  DInv'
<1>1. /\ connected /\ UNCHANGED <<offer, connected, initialized, registry, capable, outputs>>
      /\ announced' = [announced EXCEPT ![i] = Append(announced[i], g)]
    BY DEF OnGlobal, Announced
<1>2. /\ announced[i] \in Seq(GlobalIds) /\ active \in [Interfaces -> GlobalIds \cup {NoGlobal}]
      /\ Known(keyboard) /\ Steady(pointer) /\ PhaseOK /\ selectedSeat \in AnySeat
      /\ keyboard.source \in {None, selectedSeat} /\ pointer.seat \in {None, selectedSeat}
      /\ g # NoGlobal /\ g # None
    BY GlobalsAssumption, DesktopAssumption, PointerAssumption
       DEF DInv, GroundOK, GlobalsTypeOK, Devices, SeatsTypeOK, AnySeat, Follow
<1> DEFINE list == Append(announced[i], g)
<1>3. /\ list \in Seq(GlobalIds) /\ list # <<>> /\ g \in Range(list)
      /\ \A h \in Range(announced[i]) : h \in Range(list)
    BY <1>2, AppendInRange
<1>4. announced' = [announced EXCEPT ![i] = list]
    BY <1>1
<1> HIDE DEF list
<1>5. /\ Live /\ keyboard.manager # None /\ keyboard.sourceKeymap # None => keyboard.device
      /\ Live /\ pointer.manager # None => pointer.seat = selectedSeat
    BY DEF DInv, Follow
<1>6. CASE active[i] # NoGlobal
  <2>1. UNCHANGED <<active, keyboard, pointer, stopping>>
    BY <1>6 DEF OnGlobal
  <2> DEFINE a == active[i]
             o == [keyboard |-> keyboard, pointer |-> pointer, raised |-> FALSE]
  <2>2. a \in GlobalIds \cup {NoGlobal} /\ active' = [active EXCEPT ![i] = a] /\ a # NoGlobal
    BY <1>2, <1>6, <2>1
  <2>3. o.keyboard = keyboard /\ o.pointer = pointer /\ o.raised = FALSE
    OBVIOUS
  <2>4. Ends(o.raised)
    BY <1>2, <2>1, <2>3 DEF Ends, PhaseOK
  <2> HIDE DEF o
  <2>5. ~stopping => a \in Range(announced[i])
    BY <1>6 DEF DInv, ManagersFollowGlobals
  <2>6. ~stopping => (IF i = "keyboard" THEN keyboard.manager ELSE pointer.manager) = a
    BY <1>6 DEF DInv, ManagersFollowGlobals
  <2>7. ManagerOf(a) = a
    BY <2>2 DEF ManagerOf
  <2> HIDE DEF a
  <2>8. Leaving(i, keyboard, pointer, o, ManagerOf(a))
    BY <1>2, <2>3, <2>6, <2>7 DEF Leaving
  <2> QED
    BY <1>1, <1>3, <1>4, <1>5, <2>1, <2>2, <2>3, <2>4, <2>5, <2>8, ManagerStep
<1>7. CASE active[i] = NoGlobal
  <2>1. PICK o \in Bindings(i, keyboard, pointer, g) :
           Leaves(o) /\ Activated(i, IF o.raised THEN NoGlobal ELSE g)
    BY <1>7 DEF OnGlobal
  <2>2. /\ Leaving(i, keyboard, pointer, o, g)
        /\ i = "keyboard" /\ Live /\ ~o.raised /\ keyboard.sourceKeymap # None
             => o.keyboard.device
        /\ i = "pointer" /\ Live /\ ~o.raised => o.pointer.seat = selectedSeat
    BY <1>2, BindingsFacts
  <2> DEFINE a == IF o.raised THEN NoGlobal ELSE g
  <2>3. a \in GlobalIds \cup {NoGlobal} /\ active' = [active EXCEPT ![i] = a]
    BY <2>1 DEF Activated
  <2>4. ~o.raised => a = g /\ ManagerOf(a) = g
    BY <1>2 DEF ManagerOf
  <2> HIDE DEF a
  <2>5. Leaving(i, keyboard, pointer, o, ManagerOf(a))
    BY <2>2, <2>4 DEF Leaving
  <2>6. keyboard' = o.keyboard /\ pointer' = o.pointer /\ Ends(o.raised)
    BY <2>1 DEF Leaves
  <2>7. /\ Live /\ ~o.raised /\ o.pointer.manager # None => o.pointer.seat = selectedSeat
        /\ Live /\ ~o.raised /\ o.keyboard.manager # None /\ keyboard.sourceKeymap # None
             => o.keyboard.device
        /\ o.raised \/ (a # NoGlobal /\ a \in Range(list))
    BY <1>2, <1>3, <1>5, <2>2, <2>4, DesktopAssumption DEF Leaving
  <2> QED
    BY <1>1, <1>3, <1>4, <2>3, <2>5, <2>6, <2>7, ManagerStep
<1> QED
    BY <1>6, <1>7

(* and by _on_global_remove(), with the candidate that follows. *)
LEMMA OnGlobalRemoveKeeps ==
    ASSUME DInv, NEW i \in Interfaces, NEW g \in GlobalIds, OnGlobalRemove(i, g)
    PROVE  DInv'
<1>1. connected /\ UNCHANGED <<offer, connected, initialized, registry, capable, outputs>>
    BY DEF OnGlobalRemove
<1>2. /\ announced \in [Interfaces -> Seq(GlobalIds)]
      /\ active \in [Interfaces -> GlobalIds \cup {NoGlobal}]
      /\ Known(keyboard) /\ Steady(pointer) /\ PhaseOK /\ selectedSeat \in AnySeat
      /\ keyboard.source \in {None, selectedSeat} /\ pointer.seat \in {None, selectedSeat}
      /\ g # NoGlobal /\ g # None
    BY GlobalsAssumption, DesktopAssumption, PointerAssumption
       DEF DInv, GroundOK, GlobalsTypeOK, Devices, SeatsTypeOK, AnySeat, Follow
<1>3. PICK n \in DOMAIN announced[i] :
         announced[i][n] = g /\ announced' = [announced EXCEPT ![i] = RemoveAt(announced[i], n)]
    BY DEF OnGlobalRemove, Withdrawn
<1> DEFINE list == RemoveAt(announced[i], n)
<1>4. /\ list \in Seq(GlobalIds)
      /\ \A h \in GlobalIds : h # g /\ h \in Range(announced[i]) => h \in Range(list)
  <2>1. announced[i] \in Seq(GlobalIds)
    BY <1>2
  <2> QED
    BY <1>3, <2>1, WithoutOne
<1>5. announced' = [announced EXCEPT ![i] = list] /\ announced'[i] = list
    BY <1>2, <1>3
<1> HIDE DEF list
<1>6. announced[i] # <<>>
    BY <1>2, <1>3
<1>7. /\ Live /\ keyboard.manager # None /\ keyboard.sourceKeymap # None => keyboard.device
      /\ Live /\ pointer.manager # None => pointer.seat = selectedSeat
    BY DEF DInv, Follow
<1>8. CASE active[i] # g
  <2>1. UNCHANGED <<active, keyboard, pointer, stopping>>
    BY <1>8 DEF OnGlobalRemove
  <2> DEFINE a == active[i]
             o == [keyboard |-> keyboard, pointer |-> pointer, raised |-> FALSE]
  <2>2. a \in GlobalIds \cup {NoGlobal} /\ active' = [active EXCEPT ![i] = a]
    BY <1>2, <2>1
  <2>3. o.keyboard = keyboard /\ o.pointer = pointer /\ o.raised = FALSE
    OBVIOUS
  <2>4. Ends(o.raised)
    BY <1>2, <2>1, <2>3 DEF Ends, PhaseOK
  <2> HIDE DEF o
  <2>5. ~stopping => a # NoGlobal /\ a \in Range(announced[i])
    BY <1>6 DEF DInv, ManagersFollowGlobals
  <2>6. ~stopping => (IF i = "keyboard" THEN keyboard.manager ELSE pointer.manager) = a
    BY <1>6 DEF DInv, ManagersFollowGlobals
  <2>7. a # NoGlobal => ManagerOf(a) = a
    BY DEF ManagerOf
  <2>8. a # g
    BY <1>8
  <2> HIDE DEF a
  <2>9. Leaving(i, keyboard, pointer, o, ManagerOf(a))
    BY <1>2, <2>3, <2>5, <2>6, <2>7 DEF Leaving
  <2>10. ~stopping => a \in Range(list) /\ list # <<>>
    <3>1. ~stopping => a \in Range(list)
        BY <1>4, <2>2, <2>5, <2>8
    <3>2. Range(<<>>) = {}
        BY DEF Range
    <3> QED
        BY <3>1, <3>2
  <2>11. a = NoGlobal => stopping
    BY <2>5
  <2> QED
    BY <1>1, <1>4, <1>5, <1>7, <2>1, <2>2, <2>3, <2>4, <2>5, <2>9, <2>10, <2>11, ManagerStep
<1>9. ASSUME active[i] = g, NEW r \in Removals(i),
             IF r.raised THEN Leaves(r) /\ Activated(i, g)
             ELSE IF Candidate(i) = NoGlobal
             THEN Leaves(r) /\ Activated(i, NoGlobal)
             ELSE \E o \in Bindings(i, r.keyboard, r.pointer, Candidate(i)) :
                     Leaves(o) /\ Activated(i, IF o.raised THEN NoGlobal ELSE Candidate(i))
      PROVE  DInv'
  <2>1. /\ Leaving(i, keyboard, pointer, r, None)
        /\ i = "keyboard" => ~r.keyboard.device /\ Agrees(r.keyboard)
        /\ i = "pointer" => r.pointer.output = None
    BY <1>2, RemovalsFacts
  <2>2. i \in {"pointer", "keyboard"} /\ r.raised \in BOOLEAN
    BY <2>1, DesktopAssumption DEF Leaving
  <2>3. Candidate(i) = IF list = <<>> THEN NoGlobal ELSE Head(list)
    BY <1>5 DEF Candidate
  <2>4. list # <<>> => Head(list) \in GlobalIds /\ Head(list) \in Range(list)
    BY <1>4, HeadInRange
  <2>5. CASE r.raised
    <3>1. g \in GlobalIds \cup {NoGlobal} /\ active' = [active EXCEPT ![i] = g]
        BY <1>9, <2>5 DEF Activated
    <3>2. keyboard' = r.keyboard /\ pointer' = r.pointer /\ Ends(r.raised)
        BY <1>9, <2>5 DEF Leaves
    <3>3. Leaving(i, keyboard, pointer, r, ManagerOf(g))
        BY <2>1, <2>5 DEF Leaving
    <3> QED
        BY <1>1, <1>4, <1>5, <2>5, <3>1, <3>2, <3>3, ManagerStep
  <2>6. CASE ~r.raised /\ list = <<>>
    <3>1. NoGlobal \in GlobalIds \cup {NoGlobal} /\ active' = [active EXCEPT ![i] = NoGlobal]
        BY <1>9, <2>3, <2>6 DEF Activated
    <3>2. keyboard' = r.keyboard /\ pointer' = r.pointer /\ Ends(r.raised)
        BY <1>9, <2>3, <2>6 DEF Leaves
    <3>3. Leaving(i, keyboard, pointer, r, ManagerOf(NoGlobal))
        BY <2>1 DEF Leaving, ManagerOf
    <3>4. /\ Live /\ ~r.raised /\ r.pointer.manager # None => r.pointer.seat = selectedSeat
          /\ Live /\ ~r.raised /\ r.keyboard.manager # None /\ keyboard.sourceKeymap # None
               => r.keyboard.device
      <4>1. CASE i = "keyboard"
        BY <1>7, <2>1, <4>1 DEF Leaving, Live
      <4>2. CASE i = "pointer"
        BY <1>7, <2>1, <4>2 DEF Leaving, Live
      <4> QED
        BY <2>2, <4>1, <4>2
    <3> QED
        BY <1>1, <1>4, <1>5, <2>1, <2>6, <3>1, <3>2, <3>3, <3>4, ManagerStep
  <2>7. CASE ~r.raised /\ list # <<>>
    <3> DEFINE h == Head(list)
    <3>1. h \in GlobalIds /\ h \in Range(list) /\ Candidate(i) = h /\ h # NoGlobal
        BY <2>3, <2>4, <2>7, GlobalsAssumption
    <3> HIDE DEF h
    <3>2. PICK o \in Bindings(i, r.keyboard, r.pointer, h) :
             Leaves(o) /\ Activated(i, IF o.raised THEN NoGlobal ELSE h)
        BY <1>9, <2>7, <3>1
    <3>3. /\ Known(r.keyboard) /\ Steady(r.pointer)
          /\ r.keyboard.source = keyboard.source
          /\ r.keyboard.sourceKeymap = keyboard.sourceKeymap
          /\ r.pointer.seat \in {None, selectedSeat}
        BY <2>1 DEF Leaving
    <3>4. /\ Leaving(i, r.keyboard, r.pointer, o, h)
          /\ i = "keyboard" /\ Live /\ ~o.raised /\ r.keyboard.sourceKeymap # None
               => o.keyboard.device
          /\ i = "pointer" /\ Live /\ ~o.raised => o.pointer.seat = selectedSeat
        BY <1>2, <3>1, <3>3, BindingsFacts
    <3> DEFINE a == IF o.raised THEN NoGlobal ELSE h
    <3>5. a \in GlobalIds \cup {NoGlobal} /\ active' = [active EXCEPT ![i] = a]
        BY <3>1, <3>2 DEF Activated
    <3>6. ~o.raised => a = h /\ ManagerOf(a) = h
        BY <3>1 DEF ManagerOf
    <3> HIDE DEF a
    <3>7. keyboard' = o.keyboard /\ pointer' = o.pointer /\ Ends(o.raised)
        BY <3>2 DEF Leaves
    <3>8. /\ Leaving(i, keyboard, pointer, o, ManagerOf(a))
          /\ Live /\ ~o.raised /\ o.pointer.manager # None => o.pointer.seat = selectedSeat
          /\ Live /\ ~o.raised /\ o.keyboard.manager # None /\ keyboard.sourceKeymap # None
               => o.keyboard.device
      <4>1. CASE i = "keyboard"
        BY <1>7, <2>1, <2>7, <3>3, <3>4, <3>6, <4>1 DEF Leaving
      <4>2. CASE i = "pointer"
        BY <1>7, <2>1, <2>7, <3>3, <3>4, <3>6, <4>2 DEF Leaving
      <4> QED
        BY <2>2, <4>1, <4>2
    <3>9. ~o.raised => a # NoGlobal /\ a \in Range(list)
        BY <3>1, <3>6
    <3> QED
        BY <1>1, <1>4, <1>5, <2>7, <3>5, <3>7, <3>8, <3>9, ManagerStep
  <2> QED
    BY <2>2, <2>5, <2>6, <2>7
<1> QED
    BY <1>8, <1>9 DEF OnGlobalRemove

-----------------------------------------------------------------------------
(* The invariant is inductive. *)
LEMMA NextKeeps ==
    ASSUME DInv, [Next]_vars
    PROVE  DInv'
<1>1. CASE UNCHANGED vars
    BY <1>1 DEF vars, phase, globals, registry, outputs, DInv, PhaseOK, GroundOK, GlobalsTypeOK,
        SeatsTypeOK, OutputsTypeOK, Devices, Tidy, Follow, Live, AtRest, OutputPointerIsRight,
        ManagersFollowGlobals
<1>2. CASE Connect \/ Stop \/ Disconnect
    BY <1>2, ConnectKeeps, StopKeeps, DisconnectKeeps
<1>3. CASE Event
    BY <1>3, SeatAddedKeeps, SeatNamedKeeps, SeatRemovedKeeps, SetCapabilitiesKeeps,
       OutputEventKeeps, OnGlobalKeeps, OnGlobalRemoveKeeps, SourceEventKeeps, ReadyKeeps
       DEF Event
<1>4. CASE Command
    BY <1>4, SendKeyKeeps, BeginModifiersKeeps, EndModifiersKeeps, MovePointerKeeps,
       ReleaseButtonsKeeps, ScrollPointerKeeps, MoveOnOutputKeeps, SetButtonKeeps,
       ToggleButtonKeeps, ClickButtonKeeps, ModifiedClickKeeps
       DEF Command
<1> QED
    BY <1>1, <1>2, <1>3, <1>4 DEF Next

(* The inductive invariant: what is proved of the devices follows from it. *)
THEOREM DesktopInvariant == Spec => []DInv
<1>1. Init => DInv
    BY InitHolds
<1>2. DInv /\ [Next]_vars => DInv'
    BY NextKeeps
<1> QED
    BY <1>1, <1>2, PTL DEF Spec

-----------------------------------------------------------------------------
(* What the invariant gives. *)

(* It gives the types, *)
LEMMA TypeFollows ==
    ASSUME DInv
    PROVE  TypeOK
<1>1. GlobalsTypeOK /\ SeatsTypeOK /\ OutputsTypeOK /\ PhaseOK
    BY DEF DInv, GroundOK
<1>2. PointerTypeOK
    BY DEF DInv, Devices, Steady, PointerTypeOK
<1>3. KeyboardTypeOK
    BY DEF DInv, Devices, GroundOK, Known, KeyboardTypeOK
<1> QED
    BY <1>1, <1>2, <1>3 DEF TypeOK, PhaseOK

(* the devices of the selected seat, *)
LEMMA SeatFollows ==
    ASSUME DInv
    PROVE  DevicesFollowSeat
<1>1. Steady(pointer) /\ Known(keyboard) /\ Follow
    BY DEF DInv, Devices
<1>2. PointerFollows
    BY <1>1 DEF PointerFollows, Steady, Follow
<1>3. KeyboardFollows
    BY <1>1 DEF KeyboardFollows, Known, Follow
<1> QED
    BY <1>2, <1>3 DEF DevicesFollowSeat

(* and the agreement with the compositor, with the entries of the index. *)
LEMMA KeyboardIsBelieved ==
    ASSUME DInv
    PROVE  KeyboardAgrees
<1>1. Known(keyboard) /\ (~stopping => Agrees(keyboard))
    BY DEF DInv, Devices
<1>2. keyboard.xkbs = IF keyboard.xkb = None THEN 0 ELSE 1
    BY <1>1 DEF Known
<1>3. ASSUME ~stopping, keyboard.device
      PROVE  /\ keyboard.xkb # None
             /\ keyboard.keymap = keyboard.sourceKeymap
             /\ keyboard.xkb.keymap = keyboard.keymap
             /\ keyboard.held = keyboard.down /\ keyboard.xkb.pressed = keyboard.down
             /\ keyboard.sent = [keymap |-> keyboard.keymap,
                                 mods |-> keyboard.down \cap ModifierKeys,
                                 locks |-> keyboard.xkb.locks]
             /\ XkbOk(keyboard.xkb) /\ keyboard.xkb \in Xkb
  <2>1. Accord(keyboard)
    BY <1>1, <1>3 DEF Agrees
  <2> QED
    BY <1>1, <2>1 DEF Accord, Known, Keyboards
<1>4. ASSUME ~stopping, keyboard.device, keyboard.down \cap LockKeys = {},
             NEW name \in DOMAIN Indexed(keyboard.xkb).keys
      PROVE  TypesItsName(keyboard, name)
  <2> DEFINE m == keyboard.xkb.keymap
             l == keyboard.xkb.indexed
             entry == Index[m][l].keys[name]
  <2>1. m \in Keymaps /\ l \in Locks /\ keyboard.xkb.locks = l
        /\ keyboard.sent.keymap = m /\ keyboard.sent.locks = l
    BY <1>3, <1>4 DEF Xkb, XkbOk
  <2>2. Indexed(keyboard.xkb).keys = Index[m][l].keys
    BY DEF Indexed
  <2> HIDE DEF m, l
  <2>a. name \in DOMAIN Index[m][l].keys
    BY <1>4, <2>2
  <2>3. EntryShows(m, l, Index[m][l].keys[name], name)
    BY <2>1, <2>a, EntryFacts
  <2>4. Indexed(keyboard.xkb).keys[name] = entry
    BY <2>2
  <2> HIDE DEF entry
  <2>5. Symbols[m][entry.code][Range(entry.implicit) \cup l] = name
    BY <2>3 DEF entry, EntryShows
  <2> QED
    BY <2>1, <2>4, <2>5 DEF TypesItsName
<1> QED
    BY <1>2, <1>3, <1>4 DEF KeyboardAgrees

(* The variables of seats, outputs, managers and devices have their types. *)
THEOREM DesktopTypes == Spec => []TypeOK
BY DesktopInvariant, TypeFollows, PTL

(* A key or button left down when its device goes is one whose own release raised then,
   and the connection ends (_destroy_virtual, _destroy_pointer). *)
THEOREM NothingIsStuck == Spec => []NothingStuck
<1>1. DInv => NothingStuck
    BY DEF DInv, Devices, Tidy, Steady, Known, NothingStuck
<1> QED
    BY <1>1, DesktopInvariant, PTL

(* The devices are those of the selected seat, and none that could be there is missing
   (_on_seat_changed of both adapters, _sync_source_keyboard). *)
THEOREM DevicesAreTheSeats == Spec => []DevicesFollowSeat
BY DesktopInvariant, SeatFollows, PTL

(* The output-bound pointer is on the output its screen stands for now and on the
   selected seat (_on_outputs_changed, _require_output_pointer). *)
THEOREM OutputPointerRight == Spec => []OutputPointerIsRight
<1>1. DInv => OutputPointerIsRight
    BY DEF DInv
<1> QED
    BY <1>1, DesktopInvariant, PTL

(* Each adapter has the manager that is active, which is announced, and there is one
   whenever one is announced (_on_global, _on_global_remove, _activate_next). *)
THEOREM ManagersFollow == Spec => []ManagersFollowGlobals
<1>1. DInv => ManagersFollowGlobals
    BY DEF DInv
<1> QED
    BY <1>1, DesktopInvariant, PTL

(* The compositor believes of the virtual keyboard what the program does, and a name
   typed shows its symbol, for every keymap, lock and key expression (_send_event,
   _apply_keymap, set_external_state). *)
THEOREM KeyboardIsAgreed == Spec => []KeyboardAgrees
BY DesktopInvariant, KeyboardIsBelieved, PTL

-----------------------------------------------------------------------------
(* Taps leave the keys held as they were, *)
LEMMA TapsLeave ==
    ASSUME DInv, ~stopping', Taps
    PROVE  keyboard'.held = keyboard.held
<1>1. PICK e \in Expressions : (\A s \in Range(e) : s.action = "tap") /\ SendKey(e)
    BY DEF Taps
<1>2. Known(keyboard) /\ e \in Seq(Strokes)
    BY DesktopAssumption DEF DInv, Devices
<1>3. AllTaps(e)
  <2>1. DOMAIN e = 1..Len(e)
    BY <1>2, LenProperties
  <2> QED
    BY <1>1, <2>1 DEF AllTaps, Range
<1>4. PICK o \in Typed(keyboard, e) : keyboard' = o.state /\ Ends(o.raised)
    BY <1>1 DEF SendKey, KeyCommand, KeyboardBecomes
<1>5. KeepsUp(keyboard, o) /\ (~o.raised /\ AllTaps(e) => o.state.held = keyboard.held)
    BY <1>2, TypedFacts
<1>6. ~o.raised
    BY <1>4 DEF Ends
<1> QED
    BY <1>3, <1>4, <1>5, <1>6

(* clicks and modified clicks keys and buttons, *)
LEMMA ClicksLeave ==
    ASSUME DInv, ~stopping', Clicks
    PROVE  keyboard'.held = keyboard.held /\ pointer'.held = pointer.held
<1>0. Known(keyboard) /\ Steady(pointer)
    BY DEF DInv, Devices
<1>1. PICK b \in Buttons : ClickButton(b) \/ \E c \in Chords : ModifiedClick(c, b)
    BY DEF Clicks
<1>2. CASE ClickButton(b)
  <2>1. PICK o \in Clicked(pointer, b) : pointer' = o.state /\ Ends(o.raised)
    BY <1>2 DEF ClickButton, PointerCommand
  <2>2. ~o.raised
    BY <2>1 DEF Ends
  <2>3. o.state = pointer
    BY <1>0, <2>2, ClickedFacts
  <2>4. UNCHANGED keyboard
    BY <1>2 DEF ClickButton, PointerCommand
  <2> QED
    BY <2>1, <2>3, <2>4
<1>3. ASSUME NEW c \in Chords, ModifiedClick(c, b)
      PROVE  keyboard'.held = keyboard.held /\ pointer'.held = pointer.held
  <2>1. c \in Seq(STRING)
    BY DesktopAssumption
  <2>2. CASE UNCHANGED <<keyboard, pointer, stopping>>
    BY <2>2
  <2>3. CASE ~(UNCHANGED <<keyboard, pointer, stopping>>)
    <3>1. CanType(keyboard)
        BY <1>3, <2>3 DEF ModifiedClick
    <3>2. PICK k \in Typed(keyboard, ModifierChord(c)) :
            IF k.raised THEN /\ keyboard' = k.state /\ Ends(TRUE)
                             /\ UNCHANGED pointer
            ELSE \E p \in Clicked(pointer, b) :
                    \E r \in Releases(k.state, k.state.held \ keyboard.held) :
                        /\ pointer' = p.state /\ keyboard' = r.state
                        /\ Ends(p.raised \/ r.raised)
        BY <1>3, <2>3 DEF ModifiedClick
    <3>3. ~k.raised
        BY <3>2 DEF Ends
    <3>4. PICK p \in Clicked(pointer, b) :
             \E r \in Releases(k.state, k.state.held \ keyboard.held) :
                        /\ pointer' = p.state /\ keyboard' = r.state
                        /\ Ends(p.raised \/ r.raised)
        BY <3>2, <3>3
    <3>5. PICK r \in Releases(k.state, k.state.held \ keyboard.held) :
                        /\ pointer' = p.state /\ keyboard' = r.state
                        /\ Ends(p.raised \/ r.raised)
        BY <3>4
    <3>6. ~p.raised /\ ~r.raised
        BY <3>5 DEF Ends
    <3>7. p.state = pointer
        BY <1>0, <3>6, ClickedFacts
    <3>8. KeepsUp(keyboard, k) /\ keyboard.held \subseteq k.state.held
        BY <1>0, <2>1, <3>3, ChordIsStrokes, TypedFacts
    <3>9. k.state \in Keyboards /\ k.state.held \ keyboard.held \in SUBSET Keys
        BY <3>8 DEF KeepsUp, Known, Keyboards
    <3>10. r.state.held = k.state.held \ (k.state.held \ keyboard.held)
        BY <3>6, <3>9, ReleasesFacts
    <3>11. r.state.held = keyboard.held
        BY <3>8, <3>10
    <3> QED
        BY <3>5, <3>7, <3>11
  <2> QED
    BY <2>2, <2>3
<1> QED
    BY <1>1, <1>2, <1>3

(* and temporary modifiers end their own presses. *)
LEMMA ModifiersEnd ==
    ASSUME DInv, ~stopping', EndModifiers
    PROVE  keyboard'.held = keyboard.held \ keyboard.own
<1>1. PICK o \in {[o EXCEPT !.state.own = {}] : o \in OwnReleased(keyboard, Keys)} :
         keyboard' = o.state /\ Ends(o.raised)
    BY DEF EndModifiers, KeyCommand, KeyboardBecomes
<1>2. PICK r \in OwnReleased(keyboard, Keys) : o = [r EXCEPT !.state.own = {}]
    BY <1>1
<1>3. Known(keyboard) /\ (~stopping => Agrees(keyboard)) /\ ~stopping
    BY DEF DInv, Devices, EndModifiers, KeyCommand
<1>4. /\ KeepsUp(keyboard, r)
      /\ CanType(keyboard) /\ ~r.raised => r.state.held = keyboard.held \ keyboard.own
      /\ ~CanType(keyboard) => r.state = keyboard
    BY <1>3, OwnReleasedFacts
<1>5. o.state.held = r.state.held /\ o.raised = r.raised
    BY <1>2, <1>4, OwnFacts
<1>6. ~r.raised
    BY <1>1, <1>5 DEF Ends
<1>7. CASE ~CanType(keyboard)
  <2>1. ~keyboard.device
    BY <1>3, <1>7, CanTypeIfAgrees
  <2>2. keyboard.held = {}
    BY <1>3, <2>1 DEF Known
  <2> QED
    BY <1>1, <1>4, <1>5, <1>7, <2>2
<1> QED
    BY <1>1, <1>4, <1>5, <1>6, <1>7

(* Input that is over leaves what it found: the action property of taps, clicks,
   modified clicks and temporary modifiers (plan_key_events, modified_click,
   _release_presses). *)
THEOREM TransparentInput == Spec => InputIsTransparent
<1>1. DInv /\ [Next]_vars =>
        [~stopping' =>
            /\ keyboard'.held # keyboard.held => ~Taps /\ ~Clicks
            /\ pointer'.held # pointer.held => ~Clicks
            /\ keyboard'.held # keyboard.held \ keyboard.own => ~EndModifiers]_vars
    BY TapsLeave, ClicksLeave, ModifiersEnd
<1> QED
    BY <1>1, DesktopInvariant, PTL DEF Spec, InputIsTransparent
=============================================================================
