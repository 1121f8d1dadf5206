------------------------- MODULE HttpRoutingProofs -------------------------
(***************************************************************************)
(* What the server makes of a request, for every request a client may      *)
(* send, every length of it and every place at which TCP cuts it off; and  *)
(* the table of routes.                                                    *)
(*                                                                         *)
(* The operators of HttpMessages are folds and recursive functions, which  *)
(* are defined by CHOOSE: each proof first shows that the function chosen  *)
(* exists and satisfies its equation, and then, by induction (on the set   *)
(* of the numbers or sequences for which the claim holds), what one byte,  *)
(* part, header or cookie more adds.                                       *)
(***************************************************************************)
EXTENDS HttpRouting, NaturalsInduction, WellFoundedInduction, SequenceTheorems,
        FiniteSetTheorems, TLAPS

-----------------------------------------------------------------------------
(* Induction and folds.                                                    *)

\* A set of numbers with an element has a least one: what First chooses exists.
LEMMA LeastElement ==
    ASSUME NEW T \in SUBSET Nat, T # {}
    PROVE  \E x \in T : \A y \in T : x <= y
<1>1. OpToRel(<, Nat) = {ss \in Nat \X Nat : ss[1] < ss[2]}
  BY Zenon DEF OpToRel
<1> DEFINE Less == {ss \in Nat \X Nat : ss[1] < ss[2]}
<1>2. IsWellFoundedOn(Less, Nat)
  BY <1>1, NatLessThanWellFounded, Zenon
<1> HIDE DEF Less
<1>3. PICK x \in T : \A y \in T : ~ (<<y, x>> \in Less)
  BY <1>2, WFMin
<1>4. ASSUME NEW y \in T PROVE x <= y
  <2>1. y < x => <<y, x>> \in Less
    BY DEF Less
  <2>2. QED
    BY <1>3, <2>1
<1>5. QED
  BY <1>4

\* What holds of 0 and, with every number, of the next one, holds of all: the set
\* of counterexamples has no least element.
LEMMA SetInduction ==
    ASSUME NEW A, 0 \in A, \A n \in Nat : n \in A => n + 1 \in A
    PROVE  Nat \subseteq A
<1> SUFFICES ASSUME Nat \ A # {}
             PROVE  FALSE
  OBVIOUS
<1>1. PICK x \in Nat \ A : \A y \in Nat \ A : x <= y
  BY LeastElement
<1>2. x - 1 \in Nat /\ x - 1 \in A
  BY <1>1
<1>3. QED
  BY <1>1, <1>2

\* A set of positions has a last one, which is what FoldLeft takes out first.
LEMMA MaxOf ==
    ASSUME NEW n \in Nat, NEW T \in SUBSET (1..n), T # {}
    PROVE  Max(T) \in T /\ \A y \in T : y <= Max(T)
<1> DEFINE B == {k \in Nat : \A y \in T : y <= k}
<1>1. B \in SUBSET Nat /\ n \in B
  OBVIOUS
<1>2. PICK k \in B : \A j \in B : k <= j
  BY <1>1, LeastElement
<1>3. k \in T
  <2>1. SUFFICES ASSUME k \notin T PROVE FALSE
    OBVIOUS
  <2>2. k > 0
    <3>1. PICK y \in T : TRUE
      OBVIOUS
    <3>2. y \in 1..n /\ y <= k /\ k \in Nat
      BY <1>2
    <3>3. QED
      BY <3>2
  <2>3. k - 1 \in B
    BY <1>2, <2>1, <2>2
  <2>4. QED
    BY <1>2, <2>3
<1>4. \A y \in T : k >= y
  BY <1>2
<1>5. QED
  BY <1>3, <1>4 DEF Max

\* The last position is the last of every set that contains it.
LEMMA MaxIsTop ==
    ASSUME NEW n \in Nat, NEW T \in SUBSET (1..n), n \in T
    PROVE  Max(T) = n
<1>1. Max(T) \in T /\ n <= Max(T)
  BY MaxOf
<1>2. Max(T) \in 1..n
  BY <1>1
<1>3. QED
  BY <1>1, <1>2

\* f is what FoldLeft iterates, as far as its values are in V.
IsFold(f, s, base, step, V) ==
    /\ DOMAIN f = SUBSET DOMAIN s
    /\ f[{}] = base
    /\ \A T \in SUBSET DOMAIN s :
          T # {} /\ f[T \ {Max(T)}] \in V => f[T] = step[f[T \ {Max(T)}], s[Max(T)]]

\* What a fold needs: a first value and a step that stay in V.
Foldable(V, E, base, step) == base \in V /\ step \in [V \X E -> V]

\* f is what FoldLeft iterates.
Folds(f, s, base, step, V) ==
    /\ f \in [SUBSET DOMAIN s -> V]
    /\ \A T \in SUBSET DOMAIN s :
          f[T] = IF T = {} THEN base ELSE step[f[T \ {Max(T)}], s[Max(T)]]

\* The function that FoldLeft chooses exists: it is built up to one position more.
LEMMA FoldExists ==
    ASSUME NEW V, NEW E, NEW base, NEW step, Foldable(V, E, base, step), NEW s \in Seq(E)
    PROVE  \E f : Folds(f, s, base, step, V)
<1> USE DEF Foldable
<1> DEFINE Fold(f, n) == \A T \in SUBSET (1..n) :
              f[T] = IF T = {} THEN base ELSE step[f[T \ {Max(T)}], s[Max(T)]]
<1> DEFINE A == {n \in Nat : n <= Len(s) => \E f \in [SUBSET (1..n) -> V] : Fold(f, n)}
<1>1. 0 \in A
  <2>1. [T \in SUBSET (1..0) |-> base] \in [SUBSET (1..0) -> V]
    OBVIOUS
  <2>2. \A T \in SUBSET (1..0) : T = {}
    OBVIOUS
  <2>3. Fold([T \in SUBSET (1..0) |-> base], 0)
    BY <2>2
  <2>4. QED
    BY <2>1, <2>3, Zenon
<1>2. ASSUME NEW n \in Nat, n \in A
      PROVE  n + 1 \in A
  <2>0. n + 1 \in Nat /\ (n + 1 <= Len(s) => n <= Len(s))
    BY LenProperties
  <2> SUFFICES ASSUME n + 1 <= Len(s)
               PROVE  \E f \in [SUBSET (1..n+1) -> V] : Fold(f, n + 1)
    BY <2>0, Zenon
  <2>1. PICK f \in [SUBSET (1..n) -> V] : Fold(f, n)
    BY <1>2, <2>0, Zenon
  <2>2. s[n + 1] \in E
    BY ElementOfSeq
  <2> DEFINE g == [T \in SUBSET (1..n+1) |->
                     IF n + 1 \in T THEN step[f[T \ {n + 1}], s[n + 1]] ELSE f[T]]
  <2>3. ASSUME NEW T \in SUBSET (1..n+1)
        PROVE  /\ n + 1 \in T => T \ {n + 1} \in SUBSET (1..n) /\ f[T \ {n + 1}] \in V
               /\ n + 1 \notin T => T \in SUBSET (1..n) /\ f[T] \in V
    OBVIOUS
  <2>4. ASSUME NEW T \in SUBSET (1..n+1)
        PROVE  g[T] \in V
    <3>1. CASE n + 1 \in T
      <4>1. g[T] = step[f[T \ {n + 1}], s[n + 1]]
        BY <3>1
      <4>2. QED
        BY <4>1, <3>1, <2>2, <2>3
    <3>2. CASE n + 1 \notin T
      BY <3>2, <2>3
    <3>3. QED
      BY <3>1, <3>2
  <2>5. ASSUME NEW T \in SUBSET (1..n+1)
        PROVE  g[T] = IF T = {} THEN base ELSE step[g[T \ {Max(T)}], s[Max(T)]]
    <3>1. CASE n + 1 \in T
      <4>1. Max(T) = n + 1
        BY <3>1, MaxIsTop
      <4>2. g[T \ {n + 1}] = f[T \ {n + 1}]
        BY <3>1, <2>3
      <4>3. g[T] = step[f[T \ {n + 1}], s[n + 1]] /\ T # {}
        BY <3>1
      <4>4. QED
        BY <4>1, <4>2, <4>3, Zenon
    <3>2. CASE n + 1 \notin T
      <4>1. /\ T \in SUBSET (1..n) /\ T \ {Max(T)} \in SUBSET (1..n)
        BY <3>2, <2>3
      <4>2. T \in SUBSET (1..n+1) /\ T \ {Max(T)} \in SUBSET (1..n+1) /\ n + 1 \notin T \ {Max(T)}
        BY <3>2
      <4>3. g[T] = f[T] /\ g[T \ {Max(T)}] = f[T \ {Max(T)}]
        BY <3>2, <4>2
      <4>4. QED
        BY <4>1, <4>3, <2>1, Zenon
    <3>3. QED
      BY <3>1, <3>2
  <2>6. g \in [SUBSET (1..n+1) -> V]
    <3> HIDE DEF g
    <3>1. g = [T \in SUBSET (1..n+1) |-> g[T]]
      BY DEF g
    <3>2. QED
      BY <2>4, <3>1
  <2> HIDE DEF g
  <2>7. QED
    BY <2>5, <2>6
<1> HIDE DEF A
<1>3. Len(s) \in A /\ DOMAIN s = 1..Len(s) /\ Len(s) \in Nat
  BY <1>1, <1>2, SetInduction, LenProperties
<1>4. \E f \in [SUBSET (1..Len(s)) -> V] : Fold(f, Len(s))
  <2>1. Len(s) <= Len(s)
    BY <1>3
  <2>2. QED
    BY <1>3, <2>1, Zenon DEF A
<1>5. QED
  BY <1>3, <1>4, Zenon DEF Folds

\* The values of a fold stay in the set its step stays in.
LEMMA FoldTyped ==
    ASSUME NEW V, NEW E, NEW base, NEW step, Foldable(V, E, base, step), NEW s \in Seq(E),
           NEW f, IsFold(f, s, base, step, V)
    PROVE  \A T \in SUBSET DOMAIN s : f[T] \in V
<1> USE DEF Foldable
<1> DEFINE A == {n \in Nat : n <= Len(s) => \A T \in SUBSET (1..n) : f[T] \in V}
<1>1. 0 \in A
  <2>1. \A T \in SUBSET (1..0) : T = {}
    OBVIOUS
  <2>2. f[{}] \in V
    BY DEF IsFold
  <2>3. QED
    BY <2>1, <2>2
<1>2. ASSUME NEW n \in Nat, n \in A
      PROVE  n + 1 \in A
  <2> SUFFICES ASSUME n + 1 <= Len(s), NEW T \in SUBSET (1..n+1)
               PROVE  f[T] \in V
    OBVIOUS
  <2>1. CASE n + 1 \notin T
    <3>1. T \in SUBSET (1..n)
      BY <2>1
    <3>2. QED
      BY <3>1, <1>2
  <2>2. CASE n + 1 \in T
    <3>1. Max(T) = n + 1
      BY <2>2, MaxIsTop
    <3>2. T \ {n + 1} \in SUBSET (1..n)
      OBVIOUS
    <3>3. f[T \ {n + 1}] \in V
      BY <3>2, <1>2
    <3>4. T \in SUBSET DOMAIN s /\ T # {}
      BY <2>2, LenProperties
    <3>5. f[T] = step[f[T \ {n + 1}], s[n + 1]]
      BY <3>1, <3>3, <3>4, Zenon DEF IsFold
    <3>6. s[n + 1] \in E
      BY ElementOfSeq
    <3>7. QED
      BY <3>3, <3>5, <3>6
  <2>3. QED
    BY <2>1, <2>2
<1> HIDE DEF A
<1>3. Len(s) \in A /\ DOMAIN s = 1..Len(s) /\ Len(s) \in Nat
  BY <1>1, <1>2, SetInduction, LenProperties
<1>4. QED
  BY <1>3 DEF A

\* The fold h of t is the fold f of s and one step more.
OneMore(h, t, f, s, step, e) == h[DOMAIN t] = step[f[DOMAIN s], e]

\* The fold of a sequence with one element more is one step from the fold of it.
LEMMA FoldAppend ==
    ASSUME NEW V, NEW E, NEW base, NEW step, Foldable(V, E, base, step),
           NEW s \in Seq(E), NEW e \in E, NEW f, NEW h,
           IsFold(f, s, base, step, V), IsFold(h, Append(s, e), base, step, V)
    PROVE  OneMore(h, Append(s, e), f, s, step, e)
<1> DEFINE t == Append(s, e)
<1>1. /\ t \in Seq(E) /\ DOMAIN t = 1..Len(s)+1 /\ t[Len(s) + 1] = e
      /\ DOMAIN s = 1..Len(s) /\ Len(s) \in Nat
      /\ \A i \in 1..Len(s) : t[i] = s[i]
  BY AppendProperties, LenProperties
<1> HIDE DEF t
<1>2. /\ \A T \in SUBSET DOMAIN t : h[T] \in V
      /\ \A T \in SUBSET DOMAIN s : f[T] \in V
  <2>1. IsFold(h, t, base, step, V)
    BY DEF t
  <2>2. QED
    BY <1>1, <2>1, FoldTyped
<1> DEFINE A == {n \in Nat : n <= Len(s) => \A T \in SUBSET (1..n) : f[T] = h[T]}
<1>3. 0 \in A
  <2>1. ASSUME NEW T \in SUBSET (1..0) PROVE T = {}
    OBVIOUS
  <2>2. f[{}] = h[{}]
    BY DEF IsFold
  <2>3. QED
    BY <2>1, <2>2
<1>4. ASSUME NEW n \in Nat, n \in A
      PROVE  n + 1 \in A
  <2> SUFFICES ASSUME n + 1 <= Len(s), NEW T \in SUBSET (1..n+1)
               PROVE  f[T] = h[T]
    OBVIOUS
  <2>1. CASE n + 1 \notin T
    <3>1. T \in SUBSET (1..n)
      BY <2>1
    <3>2. QED
      BY <3>1, <1>4
  <2>2. CASE n + 1 \in T
    <3>1. Max(T) = n + 1
      BY <2>2, MaxIsTop
    <3>2. T \ {n + 1} \in SUBSET (1..n)
      OBVIOUS
    <3>3. f[T \ {n + 1}] = h[T \ {n + 1}]
      BY <3>2, <1>4
    <3>4. /\ T \in SUBSET DOMAIN s /\ T # {} /\ T \in SUBSET DOMAIN t
          /\ T \ {n + 1} \in SUBSET DOMAIN s /\ T \ {n + 1} \in SUBSET DOMAIN t
      BY <2>2, <1>1
    <3>5. f[T] = step[f[T \ {n + 1}], s[n + 1]]
      BY <3>1, <3>4, <1>2, Zenon DEF IsFold
    <3>6. h[T] = step[h[T \ {n + 1}], t[n + 1]]
      BY <3>1, <3>4, <1>2, Zenon DEF IsFold, t
    <3>7. t[n + 1] = s[n + 1]
      BY <1>1
    <3>8. QED
      BY <3>3, <3>5, <3>6, <3>7, Zenon
  <2>3. QED
    BY <2>1, <2>2
<1> HIDE DEF A
<1>5. Len(s) \in A
  BY <1>1, <1>3, <1>4, SetInduction
<1>6. f[DOMAIN s] = h[DOMAIN s]
  BY <1>1, <1>5 DEF A
<1>7. Max(DOMAIN t) = Len(s) + 1
  BY <1>1, MaxIsTop
<1>8. DOMAIN t \ {Len(s) + 1} = DOMAIN s /\ DOMAIN t # {} /\ DOMAIN s \in SUBSET DOMAIN t
  BY <1>1
<1>9. h[DOMAIN t] = step[h[DOMAIN s], t[Len(s) + 1]]
  <2>1. h[DOMAIN s] \in V
    BY <1>2, <1>8, Zenon
  <2>2. DOMAIN t \in SUBSET DOMAIN t
    OBVIOUS
  <2>3. QED
    BY <2>1, <2>2, <1>7, <1>8, Zenon DEF IsFold, t
<1>10. QED
  BY <1>1, <1>6, <1>9, Zenon DEF t, OneMore

-----------------------------------------------------------------------------
(* Split.                                                                  *)

\* One turn of the loop of getline.
SplitStep(parts, c, sep) ==
    IF c = sep THEN Append(parts, <<>>)
    ELSE [parts EXCEPT ![Len(parts)] = Append(parts[Len(parts)], c)]

\* The function that Split chooses.
SplitIter(s, sep) ==
    CHOOSE f : f = [T \in SUBSET DOMAIN s |->
                      IF T = {} THEN << <<>> >>
                      ELSE SplitStep(f[T \ {Max(T)}], s[Max(T)], sep)]

\* Split is the fold of its step over the bytes.
LEMMA SplitIterates ==
    ASSUME NEW s, NEW sep
    PROVE  Split(s, sep) = SplitIter(s, sep)[DOMAIN s]
BY Zenon DEF Split, FoldLeft, MapThenFoldSet, SplitIter, SplitStep

\* Lists of at least one part.
Parts(S) == Seq(Seq(S)) \ {<<>>}

\* The step of Split as a function.
SplitFcn(S, sep) == [p \in Parts(S) \X S |-> SplitStep(p[1], p[2], sep)]

\* A turn of the loop keeps a list of parts a list of parts, with at least one.
LEMMA SplitStepTyped ==
    ASSUME NEW S, NEW sep, NEW parts \in Parts(S), NEW c \in S
    PROVE  /\ SplitStep(parts, c, sep) \in Parts(S)
           /\ SplitFcn(S, sep)[parts, c] = SplitStep(parts, c, sep)
<1>1. SplitFcn(S, sep)[parts, c] = SplitStep(parts, c, sep)
  BY DEF SplitFcn
<1>2. parts \in Seq(Seq(S)) /\ parts # <<>>
  BY DEF Parts
<1>3. <<>> \in Seq(S)
  OBVIOUS
<1>4. Append(parts, <<>>) \in Parts(S)
  BY <1>2, <1>3, AppendProperties DEF Parts
<1>5. Len(parts) \in 1..Len(parts)
  BY <1>2, EmptySeq
<1>6. parts[Len(parts)] \in Seq(S)
  BY <1>2, <1>5, ElementOfSeq
<1>7. Append(parts[Len(parts)], c) \in Seq(S)
  BY <1>6
<1>8. /\ [parts EXCEPT ![Len(parts)] = Append(parts[Len(parts)], c)] \in Seq(Seq(S))
      /\ Len([parts EXCEPT ![Len(parts)] = Append(parts[Len(parts)], c)]) = Len(parts)
  BY <1>2, <1>5, <1>7, ExceptSeq
<1>9. [parts EXCEPT ![Len(parts)] = Append(parts[Len(parts)], c)] # <<>>
  BY <1>8, <1>5, EmptySeq
<1>10. QED
  BY <1>1, <1>4, <1>8, <1>9, Zenon DEF SplitStep, Parts

\* The loop begins with one empty part.
LEMMA SplitBase == ASSUME NEW S PROVE << <<>> >> \in Parts(S)
<1>1. <<>> \in Seq(S)
  OBVIOUS
<1>2. << <<>> >> \in Seq(Seq(S)) /\ << <<>> >> # <<>>
  BY <1>1
<1>3. QED
  BY <1>2 DEF Parts

\* Split is a fold in the sense of the lemmas above.
LEMMA SplitFoldable ==
    ASSUME NEW S, NEW sep PROVE Foldable(Parts(S), S, << <<>> >>, SplitFcn(S, sep))
<1>1. \A p \in Parts(S) \X S : SplitStep(p[1], p[2], sep) \in Parts(S)
  BY SplitStepTyped
<1>2. SplitFcn(S, sep) \in [Parts(S) \X S -> Parts(S)]
  BY <1>1 DEF SplitFcn
<1>3. QED
  BY <1>2, SplitBase DEF Foldable

\* The function that Split chooses satisfies its equation.
LEMMA SplitFolds ==
    ASSUME NEW S, NEW s \in Seq(S), NEW sep
    PROVE  IsFold(SplitIter(s, sep), s, << <<>> >>, SplitFcn(S, sep), Parts(S))
<1> DEFINE it == SplitIter(s, sep)
<1>0. PICK g : Folds(g, s, << <<>> >>, SplitFcn(S, sep), Parts(S))
  BY SplitFoldable, FoldExists, Zenon
<1>1. /\ g \in [SUBSET DOMAIN s -> Parts(S)]
      /\ \A T \in SUBSET DOMAIN s :
            g[T] = IF T = {} THEN << <<>> >>
                   ELSE SplitFcn(S, sep)[g[T \ {Max(T)}], s[Max(T)]]
  BY <1>0, Zenon DEF Folds
<1>2. \A T \in SUBSET DOMAIN s : T # {} => T \ {Max(T)} \in SUBSET DOMAIN s /\ s[Max(T)] \in S
  <2>1. DOMAIN s = 1..Len(s) /\ Len(s) \in Nat
    BY LenProperties
  <2>2. \A T \in SUBSET DOMAIN s : T # {} => Max(T) \in T
    BY <2>1, MaxOf
  <2>3. QED
    BY <2>1, <2>2, ElementOfSeq
<1>3. g = [T \in SUBSET DOMAIN s |->
             IF T = {} THEN << <<>> >>
             ELSE SplitStep(g[T \ {Max(T)}], s[Max(T)], sep)]
  <2>1. ASSUME NEW T \in SUBSET DOMAIN s
        PROVE  g[T] = IF T = {} THEN << <<>> >>
                      ELSE SplitStep(g[T \ {Max(T)}], s[Max(T)], sep)
    <3>1. CASE T = {}
      BY <1>1, <3>1, Zenon
    <3>2. CASE T # {}
      <4>1. g[T \ {Max(T)}] \in Parts(S) /\ s[Max(T)] \in S
        BY <1>1, <1>2, <3>2
      <4>2. g[T] = SplitFcn(S, sep)[g[T \ {Max(T)}], s[Max(T)]]
        BY <1>1, <3>2, Zenon
      <4>3. SplitFcn(S, sep)[g[T \ {Max(T)}], s[Max(T)]]
              = SplitStep(g[T \ {Max(T)}], s[Max(T)], sep)
        BY <4>1, SplitStepTyped
      <4>4. QED
        BY <3>2, <4>2, <4>3, Zenon
    <3>3. QED
      BY <3>1, <3>2
  <2>2. QED
    BY <2>1, <1>1, Zenon
<1>4. it = [T \in SUBSET DOMAIN s |->
              IF T = {} THEN << <<>> >>
              ELSE SplitStep(it[T \ {Max(T)}], s[Max(T)], sep)]
  BY <1>3, Zenon DEF SplitIter
<1> HIDE DEF it
<1>5. DOMAIN it = SUBSET DOMAIN s
  BY <1>4, Zenon
<1>6. it[{}] = << <<>> >>
  BY <1>4, Zenon
<1>7. ASSUME NEW T \in SUBSET DOMAIN s, T # {}, it[T \ {Max(T)}] \in Parts(S)
      PROVE  it[T] = SplitFcn(S, sep)[it[T \ {Max(T)}], s[Max(T)]]
  <2>1. it[T] = SplitStep(it[T \ {Max(T)}], s[Max(T)], sep)
    BY <1>4, <1>7, Zenon
  <2>2. SplitFcn(S, sep)[it[T \ {Max(T)}], s[Max(T)]]
          = SplitStep(it[T \ {Max(T)}], s[Max(T)], sep)
    BY <1>2, <1>7, SplitStepTyped
  <2>3. QED
    BY <2>1, <2>2, Zenon
<1>8. QED
  BY <1>5, <1>6, <1>7, Zenon DEF IsFold, it

\* Without bytes there is one part, and that is empty.
LEMMA SplitEmpty == ASSUME NEW sep PROVE Split(<<>>, sep) = << <<>> >>
<1>1. <<>> \in Seq({}) /\ DOMAIN <<>> = {}
  OBVIOUS
<1>2. IsFold(SplitIter(<<>>, sep), <<>>, << <<>> >>, SplitFcn({}, sep), Parts({}))
  BY <1>1, SplitFolds, Zenon
<1>3. QED
  BY <1>1, <1>2, SplitIterates, Zenon DEF IsFold

\* Split returns at least one part.
LEMMA SplitTyped ==
    ASSUME NEW S, NEW s \in Seq(S), NEW sep
    PROVE  Split(s, sep) \in Parts(S)
<1>1. IsFold(SplitIter(s, sep), s, << <<>> >>, SplitFcn(S, sep), Parts(S))
  BY SplitFolds, Zenon
<1>2. SplitIter(s, sep)[DOMAIN s] \in Parts(S)
  BY <1>1, SplitFoldable, FoldTyped, Zenon
<1>3. QED
  BY <1>2, SplitIterates, Zenon

\* A byte goes to the last part, a separator opens a new one.
LEMMA SplitAppend ==
    ASSUME NEW S, NEW s \in Seq(S), NEW c \in S, NEW sep
    PROVE  Split(Append(s, c), sep) = SplitStep(Split(s, sep), c, sep)
<1>1. Append(s, c) \in Seq(S)
  OBVIOUS
<1>2. /\ IsFold(SplitIter(s, sep), s, << <<>> >>, SplitFcn(S, sep), Parts(S))
      /\ IsFold(SplitIter(Append(s, c), sep), Append(s, c), << <<>> >>, SplitFcn(S, sep), Parts(S))
  BY <1>1, SplitFolds, Zenon
<1>3. OneMore(SplitIter(Append(s, c), sep), Append(s, c), SplitIter(s, sep), s,
              SplitFcn(S, sep), c)
  BY <1>2, SplitFoldable, FoldAppend, Zenon
<1>4. SplitFcn(S, sep)[Split(s, sep), c] = SplitStep(Split(s, sep), c, sep)
  BY SplitTyped, SplitStepTyped
<1>5. QED
  BY <1>3, <1>4, SplitIterates, Zenon DEF OneMore

\* What holds of the empty sequence and, with every sequence, of one that is one
\* element longer, holds of all.
LEMMA SeqInduction ==
    ASSUME NEW S, NEW A, <<>> \in A,
           \A s \in Seq(S) : \A c \in S : s \in A => Append(s, c) \in A
    PROVE  Seq(S) \subseteq A
<1> DEFINE B == {n \in Nat : \A s \in Seq(S) : Len(s) = n => s \in A}
<1>1. 0 \in B
  <2>1. \A s \in Seq(S) : Len(s) = 0 => s = <<>>
    BY EmptySeq
  <2>2. QED
    BY <2>1
<1>2. ASSUME NEW n \in Nat, n \in B
      PROVE  n + 1 \in B
  <2> SUFFICES ASSUME NEW s \in Seq(S), Len(s) = n + 1
               PROVE  s \in A
    OBVIOUS
  <2>1. s # <<>>
    BY EmptySeq
  <2>2. PICK t \in Seq(S), c \in S : s = Append(t, c)
    BY <2>1, SequenceEmptyOrAppend
  <2>3. Len(t) = n
    BY <2>2, AppendProperties, LenProperties
  <2>4. t \in A
    BY <1>2, <2>3
  <2>5. QED
    BY <2>2, <2>4
<1> HIDE DEF B
<1>3. Nat \subseteq B
  BY <1>1, <1>2, SetInduction
<1>4. QED
  BY <1>3, LenProperties DEF B

\* Overwriting what was appended.
LEMMA LastOfAppend ==
    ASSUME NEW S, NEW s \in Seq(S), NEW c \in S, NEW e \in S
    PROVE  [Append(s, c) EXCEPT ![Len(Append(s, c))] = e] = Append(s, e)
<1> DEFINE t == Append(s, c)
           u == Append(s, e)
           x == [t EXCEPT ![Len(t)] = e]
<1>1. /\ t \in Seq(S) /\ Len(t) = Len(s) + 1 /\ \A i \in 1..Len(s) : t[i] = s[i]
      /\ u \in Seq(S) /\ Len(u) = Len(s) + 1 /\ \A i \in 1..Len(s) : u[i] = s[i]
      /\ u[Len(s) + 1] = e /\ Len(s) \in Nat
  BY AppendProperties, LenProperties
<1> HIDE DEF t, u
<1>2. Len(t) \in 1..Len(t)
  BY <1>1
<1>3. /\ x \in Seq(S) /\ Len(x) = Len(t)
      /\ \A j \in 1..Len(t) : x[j] = IF j = Len(t) THEN e ELSE t[j]
  BY <1>1, <1>2, ExceptSeq
<1> HIDE DEF x
<1>4. \A j \in 1..Len(x) : x[j] = u[j]
  BY <1>1, <1>3
<1>5. x = u
  BY <1>1, <1>3, <1>4, SeqEqual
<1>6. QED
  BY <1>5, Zenon DEF x, t, u

\* Which of two concatenations comes first makes no difference.
Associates(s, t, u) == (s \o t) \o u = s \o (t \o u)

\* It never does.
LEMMA ConcatAssociates ==
    ASSUME NEW S, NEW s \in Seq(S), NEW t \in Seq(S), NEW u \in Seq(S)
    PROVE  Associates(s, t, u)
BY ConcatAssociative DEF Associates

\* Appending to the second of two sequences appends to both.
LEMMA ConcatAppend ==
    ASSUME NEW S, NEW s \in Seq(S), NEW t \in Seq(S), NEW c \in S
    PROVE  s \o Append(t, c) = Append(s \o t, c)
<1>1. Append(t, c) = t \o <<c>> /\ <<c>> \in Seq(S) /\ s \o t \in Seq(S)
  BY AppendIsConcat
<1>2. Append(s \o t, c) = (s \o t) \o <<c>>
  BY <1>1, AppendIsConcat
<1>3. (s \o t) \o <<c>> = s \o (t \o <<c>>)
  <2>1. Associates(s, t, <<c>>)
    BY <1>1, ConcatAssociates, Zenon
  <2>2. QED
    BY <2>1 DEF Associates
<1>4. QED
  BY <1>1, <1>2, <1>3, Zenon

\* Bytes other than the separator all go to the last part.
LEMMA SplitClean ==
    ASSUME NEW S, NEW sep, NEW s \in Seq(S), NEW l \in Seq(S \ {sep}),
           NEW parts \in Seq(Seq(S)), NEW p \in Seq(S), Split(s, sep) = Append(parts, p)
    PROVE  Split(s \o l, sep) = Append(parts, p \o l)
<1> DEFINE A == {t \in Seq(S \ {sep}) : Split(s \o t, sep) = Append(parts, p \o t)}
<1>1. <<>> \in A
  <2>1. s \o <<>> = s /\ p \o <<>> = p /\ <<>> \in Seq(S \ {sep})
    BY ConcatEmptySeq, EmptySeq
  <2>2. QED
    BY <2>1
<1>2. ASSUME NEW t \in Seq(S \ {sep}), NEW c \in S \ {sep}, t \in A
      PROVE  Append(t, c) \in A
  <2>1. /\ Append(t, c) \in Seq(S \ {sep}) /\ t \in Seq(S) /\ c \in S /\ s \o t \in Seq(S)
        /\ p \o t \in Seq(S) /\ Append(p \o t, c) \in Seq(S)
    BY SeqMonotonic
  <2>2. /\ s \o Append(t, c) = Append(s \o t, c)
        /\ p \o Append(t, c) = Append(p \o t, c)
    BY <2>1, ConcatAppend
  <2>3. Split(Append(s \o t, c), sep) = SplitStep(Split(s \o t, sep), c, sep)
    BY <2>1, SplitAppend, Zenon
  <2>4. Split(s \o t, sep) = Append(parts, p \o t)
    BY <1>2
  <2>6. Append(parts, p \o t)[Len(Append(parts, p \o t))] = p \o t
    <3> HIDE DEF A
    <3>1. /\ Append(parts, p \o t) \in Seq(Seq(S))
          /\ Append(parts, p \o t)[Len(parts) + 1] = p \o t
          /\ Len(Append(parts, p \o t)) = Len(parts) + 1
      BY <2>1, AppendProperties
    <3>2. QED
      BY <3>1, Zenon
  <2>7. SplitStep(Append(parts, p \o t), c, sep) = Append(parts, Append(p \o t, c))
    <3>1. [Append(parts, p \o t) EXCEPT ![Len(Append(parts, p \o t))] = Append(p \o t, c)]
            = Append(parts, Append(p \o t, c))
      <4>1. p \o t \in Seq(S) /\ Append(p \o t, c) \in Seq(S)
        BY <2>1
      <4>2. \A x, y \in Seq(S) :
               [Append(parts, x) EXCEPT ![Len(Append(parts, x))] = y] = Append(parts, y)
        BY LastOfAppend
      <4>3. QED
        BY <4>1, <4>2, Zenon
    <3>2. c # sep
      OBVIOUS
    <3>3. QED
      BY <2>6, <3>1, <3>2, Zenon DEF SplitStep
  <2>8. QED
    BY <2>1, <2>2, <2>3, <2>4, <2>7, Zenon
<1> HIDE DEF A
<1>3. l \in A
  BY <1>1, <1>2, SeqInduction
<1>4. QED
  BY <1>3 DEF A

\* What contains no separator is one part.
LEMMA SplitOne ==
    ASSUME NEW S, NEW sep, NEW l \in Seq(S \ {sep})
    PROVE  Split(l, sep) = <<l>>
<1>0. <<>> \in Seq(S) /\ <<>> \in Seq(Seq(S))
  OBVIOUS
<1>1. /\ Append(<<>>, <<>>) = << <<>> >>
      /\ <<>> \o l = l
      /\ Append(<<>>, l) = <<l>>
  BY SeqMonotonic
<1>2. Split(<<>>, sep) = Append(<<>>, <<>>)
  BY <1>1, SplitEmpty
<1>3. Split(<<>> \o l, sep) = Append(<<>>, <<>> \o l)
  BY <1>0, <1>2, SplitClean, Zenon
<1>4. QED
  BY <1>1, <1>3, Zenon

\* A separator and what contains none are one part more.
LEMMA SplitMore ==
    ASSUME NEW S, NEW sep \in S, NEW s \in Seq(S), NEW l \in Seq(S \ {sep})
    PROVE  Split((s \o <<sep>>) \o l, sep) = Append(Split(s, sep), l)
<1>0. <<>> \in Seq(S) /\ s \o <<sep>> \in Seq(S)
  OBVIOUS
<1>1. s \o <<sep>> = Append(s, sep) /\ <<>> \o l = l
  BY AppendIsConcat, ConcatEmptySeq
<1>2. Split(s, sep) \in Seq(Seq(S))
  BY SplitTyped DEF Parts
<1>3. Split(s \o <<sep>>, sep) = Append(Split(s, sep), <<>>)
  <2>1. Split(Append(s, sep), sep) = SplitStep(Split(s, sep), sep, sep)
    BY SplitAppend
  <2>2. QED
    BY <1>1, <2>1, Zenon DEF SplitStep
<1>4. Split((s \o <<sep>>) \o l, sep) = Append(Split(s, sep), <<>> \o l)
  <2>1. \A t \in Seq(S) : \A q \in Seq(Seq(S)) : \A p \in Seq(S) :
           Split(t, sep) = Append(q, p) => Split(t \o l, sep) = Append(q, p \o l)
    BY SplitClean
  <2>2. QED
    BY <1>0, <1>2, <1>3, <2>1, Zenon
<1>5. QED
  BY <1>1, <1>4, Zenon

\* The value at k depends on the values below k.
LooksBack(G, V) ==
    /\ G \in [Nat \X [Nat -> V] -> V]
    /\ \A k \in Nat : \A f, g \in [Nat -> V] :
          (\A j \in Nat : j < k => f[j] = g[j]) => G[k, f] = G[k, g]

\* f is defined by G up to n.
Recurs(f, G, V, n) == f \in [Nat -> V] /\ \A k \in Nat : k <= n => f[k] = G[k, f]

\* A function whose value at k depends on the values below k exists up to every n.
LEMMA Recursion ==
    ASSUME NEW V, NEW v \in V, NEW G, LooksBack(G, V), NEW n \in Nat
    PROVE  \E f : Recurs(f, G, V, n)
<1> DEFINE A == {m \in Nat : \E f \in [Nat -> V] : \A k \in Nat : k <= m => f[k] = G[k, f]}
<1>0. ASSUME NEW f \in [Nat -> V], NEW m \in Nat, \A k \in Nat : k < m => f[k] = G[k, f]
      PROVE  \E g \in [Nat -> V] : \A k \in Nat : k <= m => g[k] = G[k, g]
  <2> DEFINE g == [f EXCEPT ![m] = G[m, f]]
  <2>1. G[m, f] \in V
    BY Zenon DEF LooksBack
  <2>2. g \in [Nat -> V] /\ g[m] = G[m, f] /\ \A k \in Nat : k # m => g[k] = f[k]
    BY <2>1
  <2> HIDE DEF g
  <2>3. ASSUME NEW k \in Nat, k <= m PROVE g[k] = G[k, g]
    <3>0. \A j \in Nat : j < k => j # m
      BY <2>3
    <3>1. \A j \in Nat : j < k => f[j] = g[j]
      BY <2>2, <3>0, Zenon
    <3>2. G[k, f] = G[k, g]
      BY <2>2, <3>1, Zenon DEF LooksBack
    <3>3. CASE k = m
      BY <3>2, <3>3, <2>2
    <3>4. CASE k # m
      <4>1. k < m
        BY <2>3, <3>4
      <4>2. QED
        BY <1>0, <2>2, <3>2, <3>4, <4>1, Zenon
    <3>5. QED
      BY <3>3, <3>4
  <2>4. QED
    BY <2>2, <2>3
<1>1. 0 \in A
  <2>1. [k \in Nat |-> v] \in [Nat -> V] /\ \A k \in Nat : ~ (k < 0)
    OBVIOUS
  <2>2. QED
    BY <1>0, <2>1
<1>2. ASSUME NEW m \in Nat, m \in A PROVE m + 1 \in A
  <2>1. PICK f \in [Nat -> V] : \A k \in Nat : k <= m => f[k] = G[k, f]
    BY <1>2
  <2>2. m + 1 \in Nat /\ \A k \in Nat : k < m + 1 => k <= m
    OBVIOUS
  <2>3. \A k \in Nat : k < m + 1 => f[k] = G[k, f]
    BY <2>1, <2>2, Zenon
  <2>4. \E g \in [Nat -> V] : \A k \in Nat : k <= m + 1 => g[k] = G[k, g]
    BY <1>0, <2>2, <2>3, Zenon
  <2>5. QED
    BY <2>2, <2>4, Zenon
<1> HIDE DEF A
<1>3. n \in A
  BY <1>1, <1>2, SetInduction
<1>4. QED
  BY <1>3 DEF A, Recurs

-----------------------------------------------------------------------------
(* FlattenSeq.                                                             *)

\* The function that FlattenSeq chooses.
FlatIter(seqs) ==
    CHOOSE f : f = [i \in 1..Len(seqs) |-> IF i = 1 THEN seqs[i] ELSE f[i-1] \o seqs[i]]

\* FlattenSeq is the last value of the function it chooses.
LEMMA FlattenIterates ==
    ASSUME NEW seqs
    PROVE  FlattenSeq(seqs) = IF Len(seqs) = 0 THEN seqs ELSE FlatIter(seqs)[Len(seqs)]
BY Zenon DEF FlattenSeq, FlatIter

\* What is there of seqs after each of its sequences.
Growth(p, seqs, S) ==
    /\ p \in [Nat -> Seq(S)]
    /\ p[0] = <<>>
    /\ \A k \in Nat : k < Len(seqs) => p[k + 1] = p[k] \o seqs[k + 1]

\* The concatenations of the first k sequences exist for every k.
LEMMA GrowthExists ==
    ASSUME NEW S, NEW seqs \in Seq(Seq(S))
    PROVE  \E p : Growth(p, seqs, S)
<1> DEFINE V == Seq(S)
           n == Len(seqs)
           Step(k, f) == IF k \in 1..n THEN f[k - 1] \o seqs[k] ELSE <<>>
           G == [kf \in Nat \X [Nat -> V] |-> Step(kf[1], kf[2])]
<1>1. n \in Nat /\ <<>> \in V /\ \A k \in 1..n : seqs[k] \in V
  BY LenProperties, ElementOfSeq
<1>2. \A k \in Nat : \A f \in [Nat -> V] : Step(k, f) \in V /\ G[k, f] = Step(k, f)
  <2>1. ASSUME NEW k \in Nat, NEW f \in [Nat -> V] PROVE Step(k, f) \in V
    <3>1. CASE k \in 1..n
      <4>1. f[k - 1] \in Seq(S) /\ seqs[k] \in Seq(S)
        BY <1>1, <3>1
      <4>2. QED
        BY <4>1, <3>1, ConcatProperties
    <3>2. CASE k \notin 1..n
      BY <3>2, <1>1
    <3>3. QED
      BY <3>1, <3>2
  <2> HIDE DEF Step, V
  <2>2. QED
    BY <2>1
<1>3. \A k \in Nat : \A f, g \in [Nat -> V] :
          (\A j \in Nat : j < k => f[j] = g[j]) => G[k, f] = G[k, g]
  <2>1. ASSUME NEW k \in Nat, NEW f \in [Nat -> V], NEW g \in [Nat -> V],
               \A j \in Nat : j < k => f[j] = g[j]
        PROVE  Step(k, f) = Step(k, g)
    <3> HIDE DEF V, n
    <3>1. CASE k \in 1..n
      <4>1. k - 1 \in Nat /\ k - 1 < k
        BY <1>1, <3>1
      <4>2. f[k - 1] = g[k - 1]
        BY <4>1, <2>1, Zenon
      <4>3. QED
        BY <4>2, Zenon
    <3>2. CASE k \notin 1..n
      BY <3>2, Zenon
    <3>3. QED
      BY <3>1, <3>2
  <2> HIDE DEF Step, V, G, n
  <2>2. ASSUME NEW k \in Nat, NEW f \in [Nat -> V], NEW g \in [Nat -> V],
               \A j \in Nat : j < k => f[j] = g[j]
        PROVE  G[k, f] = G[k, g]
    <3>1. Step(k, f) = Step(k, g)
      BY <2>1, <2>2
    <3>2. G[k, f] = Step(k, f) /\ G[k, g] = Step(k, g)
      BY <1>2, Zenon
    <3>3. QED
      BY <3>1, <3>2, Zenon
  <2>3. QED
    BY <2>2, Zenon
<1>4. LooksBack(G, V)
  <2>1. G \in [Nat \X [Nat -> V] -> V]
    <3>1. \A kf \in Nat \X [Nat -> V] : Step(kf[1], kf[2]) \in V
      <4> HIDE DEF Step, G, V
      <4>1. QED
        BY <1>2
    <3> HIDE DEF Step, V
    <3>2. QED
      BY <3>1
  <2> HIDE DEF G, V
  <2>2. QED
    BY <2>1, <1>3, Zenon DEF LooksBack
<1> HIDE DEF G, V, n
<1>5. PICK p : Recurs(p, G, V, n)
  <2>1. PICK v \in V : TRUE
    BY <1>1, Zenon
  <2>2. n \in Nat
    BY <1>1, Zenon
  <2>3. QED
    BY <2>1, <2>2, <1>4, Recursion, Zenon
<1>6. p \in [Nat -> V] /\ \A k \in Nat : k <= n => p[k] = Step(k, p)
  BY <1>5, <1>2, Zenon DEF Recurs
<1>7. p[0] = <<>>
  <2>1. 0 \in Nat /\ 0 <= n /\ ~ (0 \in 1..n)
    BY <1>1
  <2>2. QED
    BY <1>6, <2>1, Zenon
<1>8. ASSUME NEW k \in Nat, k < n PROVE p[k + 1] = p[k] \o seqs[k + 1]
  <2>1. k + 1 \in Nat /\ k + 1 <= n /\ k + 1 \in 1..n /\ (k + 1) - 1 = k
    BY <1>1, <1>8
  <2>2. p[k + 1] = p[(k + 1) - 1] \o seqs[k + 1]
    BY <2>1, <1>6, Zenon
  <2>3. QED
    BY <2>1, <2>2, Zenon
<1>9. QED
  BY <1>6, <1>7, <1>8, Zenon DEF Growth, n, V

\* FlattenSeq is the last of them.
LEMMA FlattenGrows ==
    ASSUME NEW S, NEW seqs \in Seq(Seq(S)), NEW p, Growth(p, seqs, S)
    PROVE  FlattenSeq(seqs) = p[Len(seqs)]
<1> DEFINE n == Len(seqs)
           it == FlatIter(seqs)
<1>1. n \in Nat /\ \A k \in 1..n : seqs[k] \in Seq(S)
  BY LenProperties, ElementOfSeq
<1>2. /\ p \in [Nat -> Seq(S)] /\ p[0] = <<>>
      /\ \A k \in Nat : k < n => p[k + 1] = p[k] \o seqs[k + 1]
  BY Zenon DEF Growth
<1> HIDE DEF n
<1>3. \A i \in 1..n : p[i] = IF i = 1 THEN seqs[i] ELSE p[i - 1] \o seqs[i]
  <2> SUFFICES ASSUME NEW i \in 1..n
               PROVE  p[i] = IF i = 1 THEN seqs[i] ELSE p[i - 1] \o seqs[i]
    OBVIOUS
  <2>1. i - 1 \in Nat /\ i - 1 < n /\ (i - 1) + 1 = i
    BY <1>1
  <2>2. p[i] = p[i - 1] \o seqs[i]
    BY <1>2, <2>1, Zenon
  <2>3. i = 1 => i - 1 = 0
    OBVIOUS
  <2>4. <<>> \o seqs[i] = seqs[i]
    BY <1>1, ConcatEmptySeq
  <2>5. QED
    BY <1>2, <2>2, <2>3, <2>4, Zenon
<1>4. [i \in 1..n |-> p[i]]
        = [i \in 1..n |-> IF i = 1 THEN seqs[i] ELSE [j \in 1..n |-> p[j]][i - 1] \o seqs[i]]
  <2>1. \A i \in 1..n : i # 1 => i - 1 \in 1..n
    BY <1>1
  <2>2. \A i \in 1..n : i # 1 => [j \in 1..n |-> p[j]][i - 1] = p[i - 1]
    BY <2>1, Zenon
  <2>3. QED
    BY <1>3, <2>2, Zenon
<1>5. it = [i \in 1..n |-> IF i = 1 THEN seqs[i] ELSE it[i - 1] \o seqs[i]]
  <2>1. \E f : f = [i \in 1..n |-> IF i = 1 THEN seqs[i] ELSE f[i - 1] \o seqs[i]]
    BY <1>4, Zenon
  <2>2. QED
    BY <2>1, Zenon DEF FlatIter, n
<1> HIDE DEF it
<1> DEFINE A == {k \in Nat : k \in 1..n => it[k] = p[k]}
<1>6. 0 \in A
  BY <1>1
<1>7. ASSUME NEW k \in Nat, k \in A PROVE k + 1 \in A
  <2> SUFFICES ASSUME k + 1 \in 1..n PROVE it[k + 1] = p[k + 1]
    BY DEF A
  <2>1. it[k + 1] = IF k + 1 = 1 THEN seqs[k + 1] ELSE it[(k + 1) - 1] \o seqs[k + 1]
    BY <1>5, Zenon
  <2>2. p[k + 1] = IF k + 1 = 1 THEN seqs[k + 1] ELSE p[(k + 1) - 1] \o seqs[k + 1]
    BY <1>3, Zenon
  <2>3. (k + 1) - 1 = k /\ (k + 1 = 1 \/ k \in 1..n)
    BY <1>1
  <2>4. k + 1 = 1 \/ it[k] = p[k]
    BY <2>3, <1>7, Zenon
  <2>5. QED
    BY <2>1, <2>2, <2>3, <2>4, Zenon
<1> HIDE DEF A
<1>8. n \in A
  BY <1>1, <1>6, <1>7, SetInduction
<1>9. CASE n = 0
  <2>1. seqs = <<>>
    BY <1>9, EmptySeq DEF n
  <2>2. QED
    BY <2>1, <1>2, <1>9, FlattenIterates, Zenon DEF n
<1>10. CASE n # 0
  <2>1. n \in 1..n
    BY <1>1, <1>10
  <2>2. it[n] = p[n]
    BY <1>8, <2>1 DEF A
  <2>3. QED
    BY <2>2, <1>10, FlattenIterates, Zenon DEF n, it
<1>11. QED
  BY <1>9, <1>10

\* Nothing put together is nothing.
LEMMA FlattenEmpty == FlattenSeq(<<>>) = <<>>
<1>1. Len(<<>>) = 0
  OBVIOUS
<1>2. QED
  BY <1>1, FlattenIterates, Zenon

\* Sequences put together are a sequence.
LEMMA FlattenTyped ==
    ASSUME NEW S, NEW seqs \in Seq(Seq(S))
    PROVE  FlattenSeq(seqs) \in Seq(S)
<1>1. PICK p : Growth(p, seqs, S)
  BY GrowthExists, Zenon
<1>2. FlattenSeq(seqs) = p[Len(seqs)]
  BY <1>1, FlattenGrows, Zenon
<1>3. Len(seqs) \in Nat /\ p \in [Nat -> Seq(S)]
  BY <1>1, LenProperties, Zenon DEF Growth
<1>4. QED
  BY <1>2, <1>3, Zenon

\* One sequence more is put behind what the others make.
LEMMA FlattenAppend ==
    ASSUME NEW S, NEW seqs \in Seq(Seq(S)), NEW s \in Seq(S)
    PROVE  FlattenSeq(Append(seqs, s)) = FlattenSeq(seqs) \o s
<1> DEFINE t == Append(seqs, s)
<1>1. /\ t \in Seq(Seq(S)) /\ Len(t) = Len(seqs) + 1 /\ t[Len(seqs) + 1] = s
      /\ \A i \in 1..Len(seqs) : t[i] = seqs[i]
      /\ Len(seqs) \in Nat
  BY AppendProperties, LenProperties
<1> HIDE DEF t
<1>2. PICK p : Growth(p, t, S)
  BY <1>1, GrowthExists, Zenon
<1>3. Growth(p, seqs, S)
  <2>1. \A k \in Nat : k < Len(seqs) => k < Len(t) /\ t[k + 1] = seqs[k + 1]
    <3>1. \A k \in Nat : k < Len(seqs) => k < Len(t) /\ k + 1 \in 1..Len(seqs)
      BY <1>1
    <3>2. QED
      BY <1>1, <3>1, Zenon
  <2>2. QED
    BY <1>2, <2>1, Zenon DEF Growth
<1>4. FlattenSeq(t) = p[Len(seqs) + 1] /\ FlattenSeq(seqs) = p[Len(seqs)]
  BY <1>1, <1>2, <1>3, FlattenGrows, Zenon
<1>5. Len(seqs) < Len(t)
  BY <1>1
<1>6. p[Len(seqs) + 1] = p[Len(seqs)] \o t[Len(seqs) + 1]
  BY <1>1, <1>2, <1>5, Zenon DEF Growth
<1>7. QED
  BY <1>1, <1>4, <1>6, Zenon DEF t

\* s is what t begins with.
Begins(s, t) == Len(s) <= Len(t) /\ \A i \in 1..Len(s) : t[i] = s[i]

\* A sequence begins with itself.
LEMMA BeginsItself == ASSUME NEW S, NEW s \in Seq(S) PROVE Begins(s, s)
BY LenProperties DEF Begins

\* What is put behind a sequence leaves it the beginning.
LEMMA BeginsConcat ==
    ASSUME NEW S, NEW s \in Seq(S), NEW t \in Seq(S) PROVE Begins(s, s \o t)
BY ConcatProperties, LenProperties DEF Begins

\* Beginnings of beginnings.
LEMMA BeginsOn ==
    ASSUME NEW S, NEW s \in Seq(S), NEW t \in Seq(S), NEW u \in Seq(S),
           Begins(s, t), Begins(t, u)
    PROVE  Begins(s, u)
BY LenProperties DEF Begins

\* Where every value begins the next one, every value begins all later ones.
LEMMA Growing ==
    ASSUME NEW S, NEW N \in Nat, NEW p \in [Nat -> Seq(S)],
           \A k \in Nat : k < N => Begins(p[k], p[k + 1]),
           NEW k \in 0..N, NEW n \in k..N
    PROVE  Begins(p[k], p[n])
<1> DEFINE A == {m \in Nat : k + m <= N => Begins(p[k], p[k + m])}
<1>1. 0 \in A
  <2>1. k + 0 = k /\ k \in Nat
    OBVIOUS
  <2>2. Begins(p[k], p[k + 0])
    BY <2>1, BeginsItself
  <2>3. QED
    BY <2>2
<1>2. ASSUME NEW m \in Nat, m \in A PROVE m + 1 \in A
  <2>0. m + 1 \in Nat
    OBVIOUS
  <2> SUFFICES ASSUME k + (m + 1) <= N
               PROVE  Begins(p[k], p[k + (m + 1)])
    BY <2>0, Zenon
  <2>1. /\ k + m \in Nat /\ k + m < N /\ (k + m) + 1 = k + (m + 1)
        /\ k + m <= N /\ k \in Nat /\ k + (m + 1) \in Nat
    OBVIOUS
  <2>2. Begins(p[k + m], p[k + (m + 1)])
    BY <2>1, Zenon
  <2>3. Begins(p[k], p[k + m])
    BY <1>2, <2>1, Zenon
  <2>4. p[k] \in Seq(S) /\ p[k + m] \in Seq(S) /\ p[k + (m + 1)] \in Seq(S)
    BY <2>1, Zenon
  <2>5. QED
    BY <2>2, <2>3, <2>4, BeginsOn, Zenon
<1> HIDE DEF A
<1>3. Nat \subseteq A
  BY <1>1, <1>2, SetInduction
<1>4. n - k \in Nat /\ k + (n - k) = n /\ n <= N
  OBVIOUS
<1>5. k + (n - k) <= N => Begins(p[k], p[k + (n - k)])
  BY <1>3, <1>4, Zenon DEF A
<1>6. QED
  BY <1>4, <1>5

\* What the first k sequences make begins what more of them make.
LEMMA GrowthBegins ==
    ASSUME NEW S, NEW seqs \in Seq(Seq(S)), NEW p, Growth(p, seqs, S), 
           NEW k \in 0..Len(seqs), NEW n \in k..Len(seqs)
    PROVE  Begins(p[k], p[n])
<1>1. Len(seqs) \in Nat /\ p \in [Nat -> Seq(S)]
  BY LenProperties DEF Growth
<1>2. ASSUME NEW j \in Nat, j < Len(seqs) PROVE Begins(p[j], p[j + 1])
  <2>1. p[j + 1] = p[j] \o seqs[j + 1]
    BY <1>2, Zenon DEF Growth
  <2>2. j + 1 \in 1..Len(seqs)
    BY <1>1, <1>2
  <2>3. p[j] \in Seq(S) /\ seqs[j + 1] \in Seq(S)
    BY <1>1, <2>2, ElementOfSeq
  <2>4. QED
    BY <2>1, <2>3, BeginsConcat
<1>3. QED
  BY <1>1, <1>2, Growing, Zenon

-----------------------------------------------------------------------------
(* The coding of a query.                                                  *)

\* The percent codes and the plus sign of a query, character by character.
LEMMA CodeValues ==
    /\ DOMAIN Code = {"%", "&", "=", "+", " "}
    /\ Code["%"] = <<"%", "2", "5">>
    /\ Code["&"] = <<"%", "2", "6">>
    /\ Code["="] = <<"%", "3", "D">>
    /\ Code["+"] = <<"%", "2", "B">>
    /\ Code[" "] = <<"+">>
BY DEF Code, SP

\* No two characters have the same percent code.
LEMMA CodesDiffer ==
    /\ <<"%", "2", "5">> # <<"%", "2", "6">>
    /\ <<"%", "2", "5">> # <<"%", "3", "D">>
    /\ <<"%", "2", "5">> # <<"%", "2", "B">>
    /\ <<"%", "2", "6">> # <<"%", "2", "5">>
    /\ <<"%", "2", "6">> # <<"%", "3", "D">>
    /\ <<"%", "2", "6">> # <<"%", "2", "B">>
    /\ <<"%", "3", "D">> # <<"%", "2", "5">>
    /\ <<"%", "3", "D">> # <<"%", "2", "6">>
    /\ <<"%", "3", "D">> # <<"%", "2", "B">>
    /\ <<"%", "2", "B">> # <<"%", "2", "5">>
    /\ <<"%", "2", "B">> # <<"%", "2", "6">>
    /\ <<"%", "2", "B">> # <<"%", "3", "D">>
OBVIOUS

\* c is the character of which a and b are the code.
IsChar(c, a, b) ==
    IF c = "?" THEN \A d \in DOMAIN Code : Code[d] # <<"%", a, b>>
    ELSE Code[c] = <<"%", a, b>>

\* The character each code stands for.
LEMMA CharValues ==
    /\ Char("2", "5") = "%" /\ Char("2", "6") = "&"
    /\ Char("3", "D") = "=" /\ Char("2", "B") = "+"
<1>1. \A a, b : Char(a, b) = CHOOSE c \in DOMAIN Code \cup {"?"} : IsChar(c, a, b)
  BY Zenon DEF Char, IsChar
<1>2. \A a, b : <<"+">> # <<"%", a, b>>
  OBVIOUS
<1>3. ASSUME NEW a, NEW b, NEW c \in {"%", "&", "=", "+"}, Code[c] = <<"%", a, b>>,
             \A e \in {"%", "&", "=", "+"} : Code[e] = <<"%", a, b>> => e = c
      PROVE  Char(a, b) = c
  <2>0. c \in DOMAIN Code /\ c # "?"
    BY CodeValues
  <2>1. IsChar(c, a, b)
    BY <1>3, <2>0, Zenon DEF IsChar
  <2>2. ASSUME NEW e \in DOMAIN Code \cup {"?"}, IsChar(e, a, b) PROVE e = c
    <3>1. e # "?"
      BY <1>3, <2>0, <2>2, Zenon DEF IsChar
    <3>2. Code[e] = <<"%", a, b>>
      BY <2>2, <3>1, Zenon DEF IsChar
    <3>3. Code[" "] # <<"%", a, b>>
      BY <1>2, CodeValues, Zenon
    <3>4. e \in {"%", "&", "=", "+"}
      BY <3>1, <3>2, <3>3, CodeValues, Zenon
    <3>5. QED
      BY <1>3, <3>2, <3>4, Zenon
  <2>3. QED
    BY <1>1, <2>0, <2>1, <2>2
<1>4. Char("2", "5") = "%"
  <2>1. \A e \in {"%", "&", "=", "+"} : Code[e] = <<"%", "2", "5">> => e = "%"
    <3>1. Code["&"] # <<"%", "2", "5">>
      BY CodeValues, CodesDiffer, Zenon
    <3>2. Code["="] # <<"%", "2", "5">>
      BY CodeValues, CodesDiffer, Zenon
    <3>3. Code["+"] # <<"%", "2", "5">>
      BY CodeValues, CodesDiffer, Zenon
    <3>4. QED
      BY <3>1, <3>2, <3>3, Zenon
  <2>2. Code["%"] = <<"%", "2", "5">> /\ "%" \in {"%", "&", "=", "+"}
    BY CodeValues, Zenon
  <2>3. QED
    BY <1>3, <2>1, <2>2, Zenon
<1>5. Char("2", "6") = "&"
  <2>1. \A e \in {"%", "&", "=", "+"} : Code[e] = <<"%", "2", "6">> => e = "&"
    <3>1. Code["%"] # <<"%", "2", "6">>
      BY CodeValues, CodesDiffer, Zenon
    <3>2. Code["="] # <<"%", "2", "6">>
      BY CodeValues, CodesDiffer, Zenon
    <3>3. Code["+"] # <<"%", "2", "6">>
      BY CodeValues, CodesDiffer, Zenon
    <3>4. QED
      BY <3>1, <3>2, <3>3, Zenon
  <2>2. Code["&"] = <<"%", "2", "6">> /\ "&" \in {"%", "&", "=", "+"}
    BY CodeValues, Zenon
  <2>3. QED
    BY <1>3, <2>1, <2>2, Zenon
<1>6. Char("3", "D") = "="
  <2>1. \A e \in {"%", "&", "=", "+"} : Code[e] = <<"%", "3", "D">> => e = "="
    <3>1. Code["%"] # <<"%", "3", "D">>
      BY CodeValues, CodesDiffer, Zenon
    <3>2. Code["&"] # <<"%", "3", "D">>
      BY CodeValues, CodesDiffer, Zenon
    <3>3. Code["+"] # <<"%", "3", "D">>
      BY CodeValues, CodesDiffer, Zenon
    <3>4. QED
      BY <3>1, <3>2, <3>3, Zenon
  <2>2. Code["="] = <<"%", "3", "D">> /\ "=" \in {"%", "&", "=", "+"}
    BY CodeValues, Zenon
  <2>3. QED
    BY <1>3, <2>1, <2>2, Zenon
<1>7. Char("2", "B") = "+"
  <2>1. \A e \in {"%", "&", "=", "+"} : Code[e] = <<"%", "2", "B">> => e = "+"
    <3>1. Code["%"] # <<"%", "2", "B">>
      BY CodeValues, CodesDiffer, Zenon
    <3>2. Code["&"] # <<"%", "2", "B">>
      BY CodeValues, CodesDiffer, Zenon
    <3>3. Code["="] # <<"%", "2", "B">>
      BY CodeValues, CodesDiffer, Zenon
    <3>4. QED
      BY <3>1, <3>2, <3>3, Zenon
  <2>2. Code["+"] = <<"%", "2", "B">> /\ "+" \in {"%", "&", "=", "+"}
    BY CodeValues, Zenon
  <2>3. QED
    BY <1>3, <2>1, <2>2, Zenon
<1>8. QED
  BY <1>4, <1>5, <1>6, <1>7

\* A code stands at i.
CodeAt(s, i) == s[i] = "%" /\ CodeFits(s, i) /\ s[i+1] \in Hex /\ s[i+2] \in Hex

\* urlDecode at one byte, given what it makes of the later ones.
DecodeAt(d, s, i) ==
    IF i > Len(s) THEN <<>>
    ELSE IF CodeAt(s, i) THEN <<Char(s[i+1], s[i+2])>> \o d[i + 3]
    ELSE <<IF s[i] = "+" THEN SP ELSE s[i]>> \o d[i + 1]

\* The function that UrlDecode chooses.
UrlIter(s) == CHOOSE d : d = [i \in 1..Len(s)+1 |-> DecodeAt(d, s, i)]

\* UrlDecode is the value at the first byte of the function it chooses.
LEMMA UrlIterates == ASSUME NEW s PROVE UrlDecode(s) = UrlIter(s)[1]
BY Zenon DEF UrlDecode, UrlIter, DecodeAt, CodeAt

\* That function exists: it is built from the last byte to the first.
LEMMA UrlIterExists ==
    ASSUME NEW S, NEW s \in Seq(S)
    PROVE  \E d : d = [i \in 1..Len(s)+1 |-> DecodeAt(d, s, i)]
<1> DEFINE n == Len(s)
           T == S \cup {SP} \cup {Char(a, b) : a \in Hex, b \in Hex}
           V == Seq(T)
           At(k) == n + 1 - k
           Step(k, f) == IF k \notin 1..n THEN <<>>
                         ELSE IF CodeAt(s, At(k))
                              THEN <<Char(s[At(k)+1], s[At(k)+2])>> \o f[k - 3]
                              ELSE <<IF s[At(k)] = "+" THEN SP ELSE s[At(k)]>> \o f[k - 1]
           G == [kf \in Nat \X [Nat -> V] |-> Step(kf[1], kf[2])]
<1>1. n \in Nat /\ <<>> \in V /\ \A k \in 1..n : s[k] \in T
  BY LenProperties, ElementOfSeq
<1>2. \A x \in T : \A t \in V : <<x>> \o t \in V
  OBVIOUS
<1>3. SP \in T /\ \A a, b \in Hex : Char(a, b) \in T
  OBVIOUS
<1>4. ASSUME NEW k \in Nat, NEW f \in [Nat -> V] PROVE G[k, f] = Step(k, f)
  <2> HIDE DEF Step, V
  <2>1. QED
    OBVIOUS
<1> HIDE DEF n, T, V, At, Step, G
<1>5. \A k \in 1..n : /\ At(k) \in 1..n /\ k - 1 \in Nat /\ k - 1 < k
                      /\ At(k) + 1 = n + 1 - (k - 1)
  BY <1>1 DEF At
<1>6. ASSUME NEW k \in 1..n, CodeAt(s, At(k))
      PROVE  /\ k - 3 \in Nat /\ k - 3 < k /\ At(k) + 3 = n + 1 - (k - 3)
             /\ s[At(k) + 1] \in Hex /\ s[At(k) + 2] \in Hex
  <2>1. CodeFits(s, At(k)) /\ s[At(k) + 1] \in Hex /\ s[At(k) + 2] \in Hex
    BY <1>6, Zenon DEF CodeAt
  <2>2. At(k) + 2 <= n
    BY <2>1, Zenon DEF CodeFits, n
  <2>3. QED
    BY <1>1, <2>1, <2>2 DEF At
<1>7. ASSUME NEW k \in Nat, NEW f \in [Nat -> V] PROVE Step(k, f) \in V
  <2>1. CASE k \notin 1..n
    BY <1>1, <2>1, Zenon DEF Step
  <2>2. CASE k \in 1..n /\ CodeAt(s, At(k))
    <3>1. s[At(k) + 1] \in Hex /\ s[At(k) + 2] \in Hex /\ k - 3 \in Nat
      BY <1>6, <2>2, Zenon
    <3>2. Char(s[At(k) + 1], s[At(k) + 2]) \in T
      BY <1>3, <3>1, Zenon
    <3>3. f[k - 3] \in V
      BY <3>1, Zenon
    <3>4. <<Char(s[At(k) + 1], s[At(k) + 2])>> \o f[k - 3] \in V
      BY <1>2, <3>2, <3>3, Zenon
    <3>5. QED
      BY <2>2, <3>4, Zenon DEF Step
  <2>3. CASE k \in 1..n /\ ~ CodeAt(s, At(k))
    <3>1. s[At(k)] \in T /\ k - 1 \in Nat
      BY <1>1, <1>5, <2>3, Zenon
    <3>2. f[k - 1] \in V
      BY <3>1, Zenon
    <3>3. (IF s[At(k)] = "+" THEN SP ELSE s[At(k)]) \in T
      BY <1>3, <3>1, Zenon
    <3>4. <<IF s[At(k)] = "+" THEN SP ELSE s[At(k)]>> \o f[k - 1] \in V
      BY <1>2, <3>2, <3>3, Zenon
    <3>5. QED
      BY <2>3, <3>4, Zenon DEF Step
  <2>4. QED
    BY <2>1, <2>2, <2>3, Zenon
<1>8. ASSUME NEW k \in Nat, NEW f \in [Nat -> V], NEW g \in [Nat -> V],
             \A j \in Nat : j < k => f[j] = g[j]
      PROVE  Step(k, f) = Step(k, g)
  <2>1. CASE k \notin 1..n
    BY <2>1, Zenon DEF Step
  <2>2. CASE k \in 1..n /\ CodeAt(s, At(k))
    <3>1. f[k - 3] = g[k - 3]
      BY <1>6, <1>8, <2>2, Zenon
    <3>2. QED
      BY <2>2, <3>1, Zenon DEF Step
  <2>3. CASE k \in 1..n /\ ~ CodeAt(s, At(k))
    <3>1. f[k - 1] = g[k - 1]
      BY <1>5, <1>8, <2>3, Zenon
    <3>2. QED
      BY <2>3, <3>1, Zenon DEF Step
  <2>4. QED
    BY <2>1, <2>2, <2>3, Zenon
<1>8b. G \in [Nat \X [Nat -> V] -> V]
  BY <1>7 DEF G
<1>8c. \A k \in Nat : \A f, g \in [Nat -> V] :
          (\A j \in Nat : j < k => f[j] = g[j]) => G[k, f] = G[k, g]
  <2>1. ASSUME NEW k \in Nat, NEW f \in [Nat -> V], NEW g \in [Nat -> V],
               \A j \in Nat : j < k => f[j] = g[j]
        PROVE  G[k, f] = G[k, g]
    <3>1. Step(k, f) = Step(k, g)
      BY <1>8, <2>1
    <3>2. G[k, f] = Step(k, f) /\ G[k, g] = Step(k, g)
      BY <1>4, Zenon
    <3>3. QED
      BY <3>1, <3>2, Zenon
  <2>2. QED
    BY <2>1, Zenon
<1>9. LooksBack(G, V)
  BY <1>8b, <1>8c, Zenon DEF LooksBack
<1>10. PICK p : Recurs(p, G, V, n)
  <2>1. PICK v \in V : TRUE
    BY <1>1, Zenon
  <2>2. n \in Nat
    BY <1>1, Zenon
  <2>3. QED
    BY <2>1, <2>2, <1>9, Recursion, Zenon
<1>11. p \in [Nat -> V] /\ \A k \in Nat : k <= n => p[k] = Step(k, p)
  BY <1>10, <1>4, Zenon DEF Recurs
<1> DEFINE d == [i \in 1..n+1 |-> p[n + 1 - i]]
<1>12. ASSUME NEW i \in 1..n+1 PROVE d[i] = DecodeAt(d, s, i)
  <2>1. n + 1 - i \in Nat /\ n + 1 - i <= n /\ n + 1 - (n + 1 - i) = i /\ i \in Nat
    BY <1>1
  <2>2. d[i] = Step(n + 1 - i, p)
    BY <1>11, <2>1, Zenon
  <2>3. CASE i > n
    <3>1. n + 1 - i \notin 1..n
      BY <1>1, <2>3
    <3>2. d[i] = <<>>
      BY <2>2, <3>1, Zenon DEF Step
    <3>3. i > Len(s)
      BY <2>3 DEF n
    <3> HIDE DEF d
    <3>4. QED
      BY <3>2, <3>3, Zenon DEF DecodeAt
  <2>4. CASE ~ (i > n)
    <3>1. n + 1 - i \in 1..n
      BY <1>1, <2>4
    <3>2. At(n + 1 - i) = i
      BY <2>1, Zenon DEF At
    <3>3. ~ (i > Len(s))
      BY <2>4 DEF n
    <3>4. CASE CodeAt(s, i)
      <4>1. (n + 1 - i) - 3 \in Nat /\ i + 3 = n + 1 - ((n + 1 - i) - 3)
        <5>1. CodeAt(s, At(n + 1 - i))
          BY <3>2, <3>4, Zenon
        <5>2. (n + 1 - i) - 3 \in Nat
          BY <1>6, <3>1, <5>1, Zenon
        <5>3. QED
          BY <5>2, <1>1
      <4>2. i + 3 \in 1..n+1 /\ n + 1 - (i + 3) = (n + 1 - i) - 3
        BY <1>1, <4>1
      <4>3. d[i + 3] = p[(n + 1 - i) - 3]
        BY <4>2, Zenon
      <4>4. d[i] = <<Char(s[i+1], s[i+2])>> \o d[i + 3]
        <5>1. Step(n + 1 - i, p) = <<Char(s[i+1], s[i+2])>> \o p[(n + 1 - i) - 3]
          BY <3>1, <3>2, <3>4, Zenon DEF Step
        <5> HIDE DEF d
        <5>2. QED
          BY <2>2, <4>3, <5>1, Zenon
      <4> HIDE DEF d
      <4>5. QED
        BY <3>3, <3>4, <4>4, Zenon DEF DecodeAt
    <3>5. CASE ~ CodeAt(s, i)
      <4>2. i + 1 \in 1..n+1 /\ n + 1 - (i + 1) = (n + 1 - i) - 1
        BY <1>1, <3>1
      <4>3. d[i + 1] = p[(n + 1 - i) - 1]
        BY <4>2, Zenon
      <4>4. d[i] = <<IF s[i] = "+" THEN SP ELSE s[i]>> \o d[i + 1]
        <5>1. Step(n + 1 - i, p) = <<IF s[i] = "+" THEN SP ELSE s[i]>> \o p[(n + 1 - i) - 1]
          BY <3>1, <3>2, <3>5, Zenon DEF Step
        <5> HIDE DEF d
        <5>2. QED
          BY <2>2, <4>3, <5>1, Zenon
      <4> HIDE DEF d
      <4>5. QED
        BY <3>3, <3>5, <4>4, Zenon DEF DecodeAt
    <3>6. QED
      BY <3>4, <3>5, Zenon
  <2>5. QED
    BY <2>3, <2>4, Zenon
<1>13. d = [i \in 1..n+1 |-> d[i]]
  OBVIOUS
<1> HIDE DEF d
<1>14. d = [i \in 1..n+1 |-> DecodeAt(d, s, i)]
  BY <1>12, <1>13, Zenon
<1>15. QED
  BY <1>14, Zenon DEF n

\* The query, character by character, as it is sent.
Encoded(q) == [i \in DOMAIN q |-> IF q[i] \in DOMAIN Code THEN Code[q[i]] ELSE <<q[i]>>]

\* A sequence of one element.
LEMMA SeqOfOne == \A S : \A x \in S : <<x>> \in Seq(S)
OBVIOUS

\* The function satisfies the equation of urlDecode at every byte.
LEMMA UrlIterValue ==
    ASSUME NEW S, NEW s \in Seq(S), NEW i \in 1..Len(s)+1
    PROVE  UrlIter(s)[i] = DecodeAt(UrlIter(s), s, i)
<1>1. UrlIter(s) = [j \in 1..Len(s)+1 |-> DecodeAt(UrlIter(s), s, j)]
  BY UrlIterExists, Zenon DEF UrlIter
<1>2. QED
  BY <1>1, Zenon

\* The bytes of an encoded query.
QueryByte == Word \cup {"%", "+", "2", "3", "5", "6", "B", "D"}

\* A word is none of the bytes the syntax of a request uses.
LEMMA PlainWord ==
    \A w \in Word : w \notin {CR, LF, SP, "\t", ":", ";", "=", "&", "%", "+", "?", "/", " ", "\r", "\n"}
BY RequestAssumption DEF Reserved, CR, LF, SP

\* A query is encoded in bytes that need no further encoding.
LEMMA EncodedTyped ==
    ASSUME NEW q \in Seq(Word \cup DOMAIN Code)
    PROVE  Encoded(q) \in Seq(Seq(QueryByte))
<1>1. DOMAIN q = 1..Len(q) /\ Len(q) \in Nat /\ \A i \in 1..Len(q) : q[i] \in Word \cup DOMAIN Code
  BY LenProperties, ElementOfSeq
<1>2. \A c \in DOMAIN Code : Code[c] \in Seq(QueryByte)
  <2>1. /\ <<"%", "2", "5">> \in Seq(QueryByte) /\ <<"%", "2", "6">> \in Seq(QueryByte)
        /\ <<"%", "3", "D">> \in Seq(QueryByte) /\ <<"%", "2", "B">> \in Seq(QueryByte)
        /\ <<"+">> \in Seq(QueryByte)
    <3>1. {"%", "2", "3", "5", "6", "B", "D", "+"} \subseteq QueryByte
      BY DEF QueryByte
    <3> HIDE DEF QueryByte
    <3>2. QED
      BY <3>1
  <2>2. QED
    BY <2>1, CodeValues, Zenon
<1>3. \A w \in Word : <<w>> \in Seq(QueryByte)
  <2>1. \A w \in Word : w \in QueryByte
    BY Zenon DEF QueryByte
  <2>2. QED
    BY <2>1, SeqOfOne, Zenon
<1>4. \A i \in 1..Len(q) : (IF q[i] \in DOMAIN Code THEN Code[q[i]] ELSE <<q[i]>>) \in Seq(QueryByte)
  BY <1>1, <1>2, <1>3, Zenon
<1>5. Encoded(q) \in [1..Len(q) -> Seq(QueryByte)]
  <2> HIDE DEF QueryByte
  <2>1. QED
    BY <1>1, <1>4, Zenon DEF Encoded
<1>6. QED
  BY <1>1, <1>5

\* A percent code is decoded to its character and three bytes are skipped.
LEMMA DecodeCode ==
    ASSUME NEW S, NEW s \in Seq(S), NEW o \in Nat, NEW a \in Hex, NEW b \in Hex,
           o + 3 <= Len(s), s[o + 1] = "%", s[o + 2] = a, s[o + 3] = b
    PROVE  UrlIter(s)[o + 1] = <<Char(a, b)>> \o UrlIter(s)[o + 4]
<1>1. /\ o + 1 \in 1..Len(s)+1 /\ ~ (o + 1 > Len(s)) /\ (o + 1) + 2 <= Len(s)
      /\ (o + 1) + 1 = o + 2 /\ (o + 1) + 2 = o + 3 /\ (o + 1) + 3 = o + 4
  BY LenProperties
<1>2. UrlIter(s)[o + 1] = DecodeAt(UrlIter(s), s, o + 1)
  BY <1>1, UrlIterValue
<1>3. CodeAt(s, o + 1)
  BY <1>1, Zenon DEF CodeAt, CodeFits
<1>4. QED
  BY <1>1, <1>2, <1>3, Zenon DEF DecodeAt

\* Any other byte is taken over, a plus sign as a space.
LEMMA DecodePlain ==
    ASSUME NEW S, NEW s \in Seq(S), NEW o \in Nat, NEW x,
           o + 1 <= Len(s), s[o + 1] = x, x # "%"
    PROVE  UrlIter(s)[o + 1] = <<IF x = "+" THEN SP ELSE x>> \o UrlIter(s)[o + 2]
<1>1. /\ o + 1 \in 1..Len(s)+1 /\ ~ (o + 1 > Len(s)) /\ (o + 1) + 1 = o + 2
  BY LenProperties
<1>2. UrlIter(s)[o + 1] = DecodeAt(UrlIter(s), s, o + 1)
  BY <1>1, UrlIterValue
<1>3. ~ CodeAt(s, o + 1)
  BY Zenon DEF CodeAt
<1>4. QED
  BY <1>1, <1>2, <1>3, Zenon DEF DecodeAt

\* The lengths and elements of short tuples.
LEMMA TupleValues ==
    /\ \A a : Len(<<a>>) = 1 /\ <<a>>[1] = a
    /\ \A a, b, c : /\ Len(<<a, b, c>>) = 3 /\ <<a, b, c>>[1] = a
                    /\ <<a, b, c>>[2] = b /\ <<a, b, c>>[3] = c
    /\ 1 \in 1..1 /\ 1 \in 1..3 /\ 2 \in 1..3 /\ 3 \in 1..3
OBVIOUS

\* The bytes of s behind the first o.
Holds(s, o, t) == o + Len(t) <= Len(s) /\ \A j \in 1..Len(t) : s[o + j] = t[j]

\* What decoding makes of a percent code that stands behind o bytes.
LEMMA DecodeTriple ==
    ASSUME NEW S, NEW s \in Seq(S), NEW o \in Nat, NEW a \in Hex, NEW b \in Hex,
           Holds(s, o, <<"%", a, b>>)
    PROVE  UrlIter(s)[o + 1] = <<Char(a, b)>> \o UrlIter(s)[o + Len(<<"%", a, b>>) + 1]
<1>1. /\ o + 3 <= Len(s) /\ s[o + 1] = "%" /\ s[o + 2] = a /\ s[o + 3] = b
  BY TupleValues, Zenon DEF Holds
<1>2. o + 3 + 1 = o + 4
  OBVIOUS
<1>3. UrlIter(s)[o + 1] = <<Char(a, b)>> \o UrlIter(s)[o + 4]
  BY <1>1, DecodeCode, Zenon
<1>4. QED
  BY <1>2, <1>3, TupleValues, Zenon

\* What decoding makes of another byte that stands behind o bytes.
LEMMA DecodeSingle ==
    ASSUME NEW S, NEW s \in Seq(S), NEW o \in Nat, NEW x, NEW c,
           Holds(s, o, <<x>>), x # "%", c = IF x = "+" THEN SP ELSE x
    PROVE  UrlIter(s)[o + 1] = <<c>> \o UrlIter(s)[o + Len(<<x>>) + 1]
<1>1. o + 1 <= Len(s) /\ s[o + 1] = x
  BY TupleValues, Zenon DEF Holds
<1>2. o + 1 + 1 = o + 2
  OBVIOUS
<1>3. UrlIter(s)[o + 1] = <<IF x = "+" THEN SP ELSE x>> \o UrlIter(s)[o + 2]
  BY <1>1, DecodePlain, Zenon
<1>4. QED
  BY <1>2, <1>3, TupleValues, Zenon

\* How one character of a query is sent.
EncodedChar(c) == IF c \in DOMAIN Code THEN Code[c] ELSE <<c>>

\* What stands behind o is decoded to the character it encodes.
LEMMA DecodeOne ==
    ASSUME NEW S, NEW s \in Seq(S), NEW o \in Nat, NEW c,
           Holds(s, o, EncodedChar(c))
    PROVE  UrlIter(s)[o + 1] = <<c>> \o UrlIter(s)[o + Len(EncodedChar(c)) + 1]
<1>0. /\ "2" \in Hex /\ "3" \in Hex /\ "5" \in Hex /\ "6" \in Hex /\ "B" \in Hex /\ "D" \in Hex
      /\ "+" # "%" /\ SP = " "
  BY DEF Hex, SP
<1>9. \A a, b \in Hex : Holds(s, o, <<"%", a, b>>) =>
         UrlIter(s)[o + 1] = <<Char(a, b)>> \o UrlIter(s)[o + Len(<<"%", a, b>>) + 1]
  BY DecodeTriple, Zenon
<1>1. CASE c = "%"
  <2>1. EncodedChar(c) = <<"%", "2", "5">>
    BY <1>1, CodeValues, Zenon DEF EncodedChar
  <2>2. Holds(s, o, <<"%", "2", "5">>)
    BY <2>1, Zenon
  <2>3. UrlIter(s)[o + 1] = <<Char("2", "5")>> \o UrlIter(s)[o + Len(<<"%", "2", "5">>) + 1]
    BY <1>0, <1>9, <2>2, Zenon
  <2>4. Char("2", "5") = c
    BY <1>1, CharValues, Zenon
  <2>5. QED
    BY <2>1, <2>3, <2>4, Zenon
<1>2. CASE c = "&"
  <2>1. EncodedChar(c) = <<"%", "2", "6">>
    BY <1>2, CodeValues, Zenon DEF EncodedChar
  <2>2. Holds(s, o, <<"%", "2", "6">>)
    BY <2>1, Zenon
  <2>3. UrlIter(s)[o + 1] = <<Char("2", "6")>> \o UrlIter(s)[o + Len(<<"%", "2", "6">>) + 1]
    BY <1>0, <1>9, <2>2, Zenon
  <2>4. Char("2", "6") = c
    BY <1>2, CharValues, Zenon
  <2>5. QED
    BY <2>1, <2>3, <2>4, Zenon
<1>3. CASE c = "="
  <2>1. EncodedChar(c) = <<"%", "3", "D">>
    BY <1>3, CodeValues, Zenon DEF EncodedChar
  <2>2. Holds(s, o, <<"%", "3", "D">>)
    BY <2>1, Zenon
  <2>3. UrlIter(s)[o + 1] = <<Char("3", "D")>> \o UrlIter(s)[o + Len(<<"%", "3", "D">>) + 1]
    BY <1>0, <1>9, <2>2, Zenon
  <2>4. Char("3", "D") = c
    BY <1>3, CharValues, Zenon
  <2>5. QED
    BY <2>1, <2>3, <2>4, Zenon
<1>4. CASE c = "+"
  <2>1. EncodedChar(c) = <<"%", "2", "B">>
    BY <1>4, CodeValues, Zenon DEF EncodedChar
  <2>2. Holds(s, o, <<"%", "2", "B">>)
    BY <2>1, Zenon
  <2>3. UrlIter(s)[o + 1] = <<Char("2", "B")>> \o UrlIter(s)[o + Len(<<"%", "2", "B">>) + 1]
    BY <1>0, <1>9, <2>2, Zenon
  <2>4. Char("2", "B") = c
    BY <1>4, CharValues, Zenon
  <2>5. QED
    BY <2>1, <2>3, <2>4, Zenon
<1>5. CASE c = " "
  <2>1. EncodedChar(c) = <<"+">>
    BY <1>5, CodeValues, Zenon DEF EncodedChar
  <2>2. QED
    BY <1>0, <1>5, <2>1, DecodeSingle, Zenon
<1>6. CASE c \notin {"%", "&", "=", "+", " "}
  <2>1. EncodedChar(c) = <<c>>
    BY <1>6, CodeValues, Zenon DEF EncodedChar
  <2>2. c # "%" /\ c # "+"
    BY <1>6
  <2>3. QED
    BY <2>1, <2>2, DecodeSingle, Zenon
<1>7. QED
  BY <1>1, <1>2, <1>3, <1>4, <1>5, <1>6, Zenon

\* urlDecode undoes the encoding of the client: every query, whatever characters
\* of the syntax it contains and however long it is, is decoded to itself.
THEOREM DecodedAsEncoded ==
    \A q \in Seq(Word \cup DOMAIN Code) : UrlDecode(UrlEncode(q)) = q
<1> SUFFICES ASSUME NEW q \in Seq(Word \cup DOMAIN Code)
             PROVE  UrlDecode(UrlEncode(q)) = q
  OBVIOUS
<1> DEFINE n == Len(q)
           C == Word \cup DOMAIN Code
           seqs == Encoded(q)
           s == UrlEncode(q)
<1>1. n \in Nat /\ DOMAIN q = 1..n /\ q \in Seq(C) /\ \A i \in 1..n : q[i] \in C
  BY LenProperties, ElementOfSeq
<1>2. seqs \in Seq(Seq(QueryByte)) /\ Len(seqs) = n /\ DOMAIN seqs = 1..n
      /\ \A i \in 1..n : seqs[i] = IF q[i] \in DOMAIN Code THEN Code[q[i]] ELSE <<q[i]>>
  <2>1. seqs \in Seq(Seq(QueryByte))
    BY EncodedTyped
  <2>2. DOMAIN seqs = 1..n
    BY <1>1, Zenon DEF Encoded
  <2>3. DOMAIN seqs = 1..Len(seqs) /\ Len(seqs) \in Nat
    BY <2>1, LenProperties
  <2> HIDE DEF seqs, n
  <2>4. Len(seqs) = n
    BY <2>2, <2>3, <1>1
  <2>5. \A i \in 1..n : seqs[i] = IF q[i] \in DOMAIN Code THEN Code[q[i]] ELSE <<q[i]>>
    BY <1>1, Zenon DEF seqs, Encoded
  <2>6. QED
    BY <2>1, <2>2, <2>4, <2>5, Zenon
<1>3. s = FlattenSeq(seqs)
  BY Zenon DEF UrlEncode, Encoded
<1> HIDE DEF seqs, s, n, C
<1>4. PICK p : Growth(p, seqs, QueryByte)
  BY <1>2, GrowthExists, Zenon
<1>5. s = p[n]
  BY <1>2, <1>3, <1>4, FlattenGrows, Zenon
<1>6. p \in [Nat -> Seq(QueryByte)] /\ p[0] = <<>>
      /\ \A k \in Nat : k < n => p[k + 1] = p[k] \o seqs[k + 1]
  BY <1>2, <1>4, Zenon DEF Growth
<1> DEFINE d == UrlIter(s)
           B == {m \in Nat : m <= n => d[Len(p[n - m]) + 1] = SubSeq(q, n - m + 1, n)}
<1>7. s \in Seq(QueryByte) /\ Len(s) \in Nat
  BY <1>1, <1>5, <1>6, LenProperties
<1> HIDE DEF d
<1>8. 0 \in B
  <2>1. d[Len(s) + 1] = <<>>
    <3>1. Len(s) + 1 \in 1..Len(s)+1 /\ Len(s) + 1 > Len(s)
      BY <1>7
    <3>2. d[Len(s) + 1] = DecodeAt(d, s, Len(s) + 1)
      BY <1>7, <3>1, UrlIterValue, Zenon DEF d
    <3>3. QED
      BY <3>1, <3>2, Zenon DEF DecodeAt
  <2>2. n - 0 = n /\ n < n + 1 /\ n \in Int /\ n + 1 \in Int
    BY <1>1
  <2>3. SubSeq(q, n + 1, n) = <<>>
    BY <2>2, SubSeqEmpty, Zenon
  <2>4. QED
    BY <2>1, <2>2, <2>3, <1>5, Zenon
<1>9. ASSUME NEW m \in Nat, m \in B PROVE m + 1 \in B
  <2>0. m + 1 \in Nat
    OBVIOUS
  <2> SUFFICES ASSUME m + 1 <= n
               PROVE  d[Len(p[n - (m + 1)]) + 1] = SubSeq(q, n - (m + 1) + 1, n)
    BY <2>0, Zenon
  <2> DEFINE k == n - (m + 1)
             o == Len(p[k])
             c == q[k + 1]
             code == seqs[k + 1]
  <2>1. /\ k \in Nat /\ k < n /\ k + 1 = n - m /\ k + 1 \in 1..n /\ m <= n
        /\ k + 1 \in 0..n /\ n \in (k+1)..n
    BY <1>1
  <2> HIDE DEF k
  <2>2. p[k + 1] = p[k] \o code
    BY <1>6, <2>1, Zenon
  <2>3. code \in Seq(QueryByte) /\ p[k] \in Seq(QueryByte) /\ p[k + 1] \in Seq(QueryByte)
    <3>1. k + 1 \in 1..Len(seqs) /\ k + 1 \in Nat
      BY <2>1, <1>2
    <3>2. code \in Seq(QueryByte)
      BY <1>2, <3>1, ElementOfSeq, Zenon
    <3>3. QED
      BY <1>6, <2>1, <3>1, <3>2, Zenon
  <2> HIDE DEF code, c
  <2>4. /\ Len(p[k + 1]) = o + Len(code) /\ o \in Nat /\ Len(code) \in Nat
        /\ \A j \in 1..Len(code) : p[k + 1][o + j] = code[j]
    <3>1. /\ Len(p[k] \o code) = Len(p[k]) + Len(code)
          /\ \A i \in 1..Len(p[k]) + Len(code) :
                (p[k] \o code)[i] = IF i <= Len(p[k]) THEN p[k][i] ELSE code[i - Len(p[k])]
      BY <2>3, ConcatProperties, Zenon
    <3>2. Len(p[k]) \in Nat /\ Len(code) \in Nat
      BY <2>3, LenProperties
    <3>3. \A j \in 1..Len(code) : o + j \in 1..o + Len(code) /\ ~ (o + j <= o) /\ (o + j) - o = j
      BY <3>2
    <3>4. QED
      BY <3>1, <3>2, <3>3, <2>2, Zenon
  <2> HIDE DEF o
  <2>5. Begins(p[k + 1], s)
    <3>1. k + 1 \in 0..Len(seqs) /\ n \in (k+1)..Len(seqs)
      BY <1>2, <2>1, Zenon
    <3>2. QED
      BY <1>2, <1>4, <1>5, <3>1, GrowthBegins, Zenon
  <2>6. Holds(s, o, code)
    <3>1. o + Len(code) <= Len(s)
      BY <2>4, <2>5, Zenon DEF Begins
    <3>2. \A j \in 1..Len(code) : o + j \in 1..o + Len(code)
      BY <2>4
    <3>3. QED
      BY <2>4, <2>5, <3>1, <3>2, Zenon DEF Begins, Holds
  <2>7. code = EncodedChar(c)
    BY <1>2, <2>1, Zenon DEF c, code, EncodedChar
  <2>8. d[o + 1] = <<c>> \o d[o + Len(code) + 1]
    <3>1. o \in Nat /\ s \in Seq(QueryByte)
      BY <1>7, <2>4, Zenon
    <3>2. QED
      BY <3>1, <2>6, <2>7, DecodeOne, Zenon DEF d
  <2>9. d[o + Len(code) + 1] = SubSeq(q, n - m + 1, n)
    BY <1>9, <2>1, <2>4, Zenon
  <2>10. SubSeq(q, k + 1, n) = <<c>> \o SubSeq(q, (k + 1) + 1, n)
    <3>1. k + 1 \in 1..Len(q) /\ n \in (k + 1)..Len(q)
      BY <2>1 DEF n
    <3>2. QED
      BY <1>1, <3>1, SubSeqRecursiveFirst, Zenon DEF c
  <2>11. n - (m + 1) + 1 = k + 1 /\ n - m + 1 = (k + 1) + 1
    BY <2>1 DEF k
  <2>12. QED
    BY <2>8, <2>9, <2>10, <2>11, Zenon DEF k, o
<1> HIDE DEF B
<1>10. n \in B
  BY <1>1, <1>8, <1>9, SetInduction
<1>11. d[Len(p[0]) + 1] = SubSeq(q, 1, n)
  <2>1. n <= n /\ n - n = 0 /\ 0 + 1 = 1
    BY <1>1
  <2>2. QED
    BY <1>10, <2>1, Zenon DEF B
<1>12. SubSeq(q, 1, n) = q
  BY <1>1, SubSeqFull, Zenon DEF n
<1>13. Len(p[0]) + 1 = 1
  BY <1>6
<1>14. UrlDecode(s) = q
  BY <1>11, <1>12, <1>13, UrlIterates, Zenon DEF d
<1>15. QED
  BY <1>14, Zenon DEF s

-----------------------------------------------------------------------------
(* Words.                                                                  *)

\* One turn of the loop that collects the parts that are not empty.
WordsStep(words, p) == IF p = <<>> THEN words ELSE Append(words, p)

\* The function that Words chooses.
WordsIter(s) ==
    CHOOSE f : f = [T \in SUBSET DOMAIN s |->
                      IF T = {} THEN <<>> ELSE WordsStep(f[T \ {Max(T)}], s[Max(T)])]

\* Words is the fold of its step over the parts.
LEMMA WordsIterates ==
    ASSUME NEW s PROVE Words(s) = WordsIter(s)[DOMAIN s]
BY Zenon DEF Words, FoldLeft, MapThenFoldSet, WordsIter, WordsStep

\* The step of Words as a function.
WordsFcn(E) == [p \in Seq(E) \X E |-> WordsStep(p[1], p[2])]

\* A turn of the loop keeps a list a list.
LEMMA WordsStepTyped ==
    ASSUME NEW E, NEW words \in Seq(E), NEW c \in E
    PROVE  /\ WordsStep(words, c) \in Seq(E)
           /\ WordsFcn(E)[words, c] = WordsStep(words, c)
<1>1. WordsFcn(E)[words, c] = WordsStep(words, c)
  BY DEF WordsFcn
<1>2. QED
  BY <1>1, AppendProperties DEF WordsStep

\* Words is a fold in the sense of the lemmas above.
LEMMA WordsFoldable == ASSUME NEW E PROVE Foldable(Seq(E), E, <<>>, WordsFcn(E))
<1>1. \A p \in Seq(E) \X E : WordsStep(p[1], p[2]) \in Seq(E)
  BY WordsStepTyped
<1>2. WordsFcn(E) \in [Seq(E) \X E -> Seq(E)]
  BY <1>1 DEF WordsFcn
<1>3. QED
  BY <1>2 DEF Foldable

\* What is left without the last position, and what stands there.
LEMMA MaxInDomain ==
    ASSUME NEW E, NEW s \in Seq(E), NEW T \in SUBSET DOMAIN s, T # {}
    PROVE  T \ {Max(T)} \in SUBSET DOMAIN s /\ s[Max(T)] \in E
<1>1. DOMAIN s = 1..Len(s) /\ Len(s) \in Nat
  BY LenProperties
<1>2. Max(T) \in T
  BY <1>1, MaxOf
<1>3. QED
  BY <1>1, <1>2, ElementOfSeq

\* The function that Words chooses satisfies its equation.
LEMMA WordsFolds ==
    ASSUME NEW E, NEW s \in Seq(E)
    PROVE  IsFold(WordsIter(s), s, <<>>, WordsFcn(E), Seq(E))
<1> DEFINE it == WordsIter(s)
<1>0. PICK g : Folds(g, s, <<>>, WordsFcn(E), Seq(E))
  BY WordsFoldable, FoldExists, Zenon
<1>1. /\ g \in [SUBSET DOMAIN s -> Seq(E)]
      /\ \A T \in SUBSET DOMAIN s :
            g[T] = IF T = {} THEN <<>> ELSE WordsFcn(E)[g[T \ {Max(T)}], s[Max(T)]]
  BY <1>0, Zenon DEF Folds
<1>2. g = [T \in SUBSET DOMAIN s |->
             IF T = {} THEN <<>> ELSE WordsStep(g[T \ {Max(T)}], s[Max(T)])]
  <2>1. ASSUME NEW T \in SUBSET DOMAIN s
        PROVE  g[T] = IF T = {} THEN <<>> ELSE WordsStep(g[T \ {Max(T)}], s[Max(T)])
    <3>1. CASE T = {}
      BY <1>1, <3>1, Zenon
    <3>2. CASE T # {}
      <4>1. g[T \ {Max(T)}] \in Seq(E) /\ s[Max(T)] \in E
        BY <1>1, <3>2, MaxInDomain
      <4>2. g[T] = WordsFcn(E)[g[T \ {Max(T)}], s[Max(T)]]
        BY <1>1, <3>2, Zenon
      <4>3. WordsFcn(E)[g[T \ {Max(T)}], s[Max(T)]] = WordsStep(g[T \ {Max(T)}], s[Max(T)])
        BY <4>1, WordsStepTyped
      <4>4. QED
        BY <3>2, <4>2, <4>3, Zenon
    <3>3. QED
      BY <3>1, <3>2
  <2>2. QED
    BY <2>1, <1>1, Zenon
<1>3. it = [T \in SUBSET DOMAIN s |->
              IF T = {} THEN <<>> ELSE WordsStep(it[T \ {Max(T)}], s[Max(T)])]
  BY <1>2, Zenon DEF WordsIter
<1> HIDE DEF it
<1>4. DOMAIN it = SUBSET DOMAIN s /\ it[{}] = <<>>
  BY <1>3, Zenon
<1>5. ASSUME NEW T \in SUBSET DOMAIN s, T # {}, it[T \ {Max(T)}] \in Seq(E)
      PROVE  it[T] = WordsFcn(E)[it[T \ {Max(T)}], s[Max(T)]]
  <2>1. it[T] = WordsStep(it[T \ {Max(T)}], s[Max(T)])
    BY <1>3, <1>5, Zenon
  <2>2. WordsFcn(E)[it[T \ {Max(T)}], s[Max(T)]] = WordsStep(it[T \ {Max(T)}], s[Max(T)])
    <3>1. s[Max(T)] \in E
      BY <1>5, MaxInDomain, Zenon
    <3>2. QED
      BY <1>5, <3>1, WordsStepTyped, Zenon
  <2>3. QED
    BY <2>1, <2>2, Zenon
<1>6. QED
  BY <1>4, <1>5, Zenon DEF IsFold, it

\* No parts, no words.
LEMMA WordsEmpty == Words(<<>>) = <<>>
<1>1. <<>> \in Seq({}) /\ DOMAIN <<>> = {}
  OBVIOUS
<1>2. IsFold(WordsIter(<<>>), <<>>, <<>>, WordsFcn({}), Seq({}))
  BY <1>1, WordsFolds, Zenon
<1>3. QED
  BY <1>1, <1>2, WordsIterates, Zenon DEF IsFold

\* One part more is one word more, unless it is empty.
LEMMA WordsAppend ==
    ASSUME NEW E, NEW s \in Seq(E), NEW c \in E
    PROVE  Words(Append(s, c)) = WordsStep(Words(s), c)
<1>1. Append(s, c) \in Seq(E)
  OBVIOUS
<1>2. /\ IsFold(WordsIter(s), s, <<>>, WordsFcn(E), Seq(E))
      /\ IsFold(WordsIter(Append(s, c)), Append(s, c), <<>>, WordsFcn(E), Seq(E))
  BY <1>1, WordsFolds, Zenon
<1>3. OneMore(WordsIter(Append(s, c)), Append(s, c), WordsIter(s), s, WordsFcn(E), c)
  BY <1>2, WordsFoldable, FoldAppend, Zenon
<1>4. Words(s) \in Seq(E)
  <2>1. WordsIter(s)[DOMAIN s] \in Seq(E)
    BY <1>2, WordsFoldable, FoldTyped, Zenon
  <2>2. QED
    BY <2>1, WordsIterates, Zenon
<1>5. WordsFcn(E)[Words(s), c] = WordsStep(Words(s), c)
  BY <1>4, WordsStepTyped
<1>6. QED
  BY <1>3, <1>5, WordsIterates, Zenon DEF OneMore

\* Where no part is empty, every part is a word.
LEMMA WordsOfFull ==
    ASSUME NEW E, NEW s \in Seq(E), <<>> \notin E
    PROVE  Words(s) = s
<1> DEFINE A == {t \in Seq(E) : Words(t) = t}
<1>1. <<>> \in A
  BY WordsEmpty
<1>2. ASSUME NEW t \in Seq(E), NEW c \in E, t \in A PROVE Append(t, c) \in A
  <2>1. Append(t, c) \in Seq(E) /\ c # <<>> /\ Words(t) = t
    BY <1>2
  <2>2. Words(Append(t, c)) = WordsStep(Words(t), c)
    BY WordsAppend, Zenon
  <2>3. QED
    BY <2>1, <2>2, Zenon DEF WordsStep
<1> HIDE DEF A
<1>3. Seq(E) \subseteq A
  BY <1>1, <1>2, SeqInduction
<1>4. QED
  BY <1>3 DEF A

-----------------------------------------------------------------------------
(* Numbers.                                                                *)

\* The ten digits.
Dig == {Digit[k] : k \in 0..9}

\* The value of a digit.
ValueOf(d) == CHOOSE k \in 0..9 : Digit[k] = d

\* The digits and their values correspond.
LEMMA DigitValues == \A k \in 0..9 : ValueOf(Digit[k]) = k /\ Digit[k] \in Dig
<1>1. /\ Digit[0] = "0" /\ Digit[1] = "1" /\ Digit[2] = "2" /\ Digit[3] = "3" /\ Digit[4] = "4"
      /\ Digit[5] = "5" /\ Digit[6] = "6" /\ Digit[7] = "7" /\ Digit[8] = "8" /\ Digit[9] = "9"
  BY DEF Digit, Digits
<1>2. \A k, j \in 0..9 : Digit[k] = Digit[j] => k = j
  BY <1>1
<1>3. QED
  BY <1>2 DEF ValueOf, Dig

\* The value of a digit is a number.
LEMMA ValueTyped == \A d \in Dig : ValueOf(d) \in Nat
<1>1. \A k \in 0..9 : k \in Nat
  OBVIOUS
<1>2. QED
  BY <1>1, DigitValues, Zenon DEF Dig

\* A digit more behind a number.
NumberStep(n, d) == 10 * n + ValueOf(d)

\* The function that ToNumber chooses.
NumberIter(s) ==
    CHOOSE f : f = [T \in SUBSET DOMAIN s |->
                      IF T = {} THEN 0 ELSE NumberStep(f[T \ {Max(T)}], s[Max(T)])]

\* ToNumber is the fold of its step over the digits.
LEMMA NumberIterates ==
    ASSUME NEW s PROVE ToNumber(s) = NumberIter(s)[DOMAIN s]
BY Zenon DEF ToNumber, FoldLeft, MapThenFoldSet, NumberIter, NumberStep, ValueOf

\* The step of ToNumber as a function.
NumberFcn == [p \in Nat \X Dig |-> NumberStep(p[1], p[2])]

\* A digit more makes a number of a number.
LEMMA NumberStepTyped ==
    ASSUME NEW n \in Nat, NEW d \in Dig
    PROVE  /\ NumberStep(n, d) \in Nat
           /\ NumberFcn[n, d] = NumberStep(n, d)
<1>1. NumberFcn[n, d] = NumberStep(n, d)
  BY DEF NumberFcn
<1>2. ValueOf(d) \in Nat
  BY ValueTyped
<1>3. NumberStep(n, d) \in Nat
  BY <1>2 DEF NumberStep
<1>4. QED
  BY <1>1, <1>3, Zenon

\* ToNumber is a fold in the sense of the lemmas above.
LEMMA NumberFoldable == Foldable(Nat, Dig, 0, NumberFcn)
<1>1. \A p \in Nat \X Dig : NumberStep(p[1], p[2]) \in Nat
  BY NumberStepTyped
<1>2. NumberFcn \in [Nat \X Dig -> Nat]
  BY <1>1 DEF NumberFcn
<1>3. QED
  BY <1>2 DEF Foldable

\* The function that ToNumber chooses satisfies its equation.
LEMMA NumberFolds ==
    ASSUME NEW s \in Seq(Dig)
    PROVE  IsFold(NumberIter(s), s, 0, NumberFcn, Nat)
<1> DEFINE it == NumberIter(s)
<1>0. PICK g : Folds(g, s, 0, NumberFcn, Nat)
  BY NumberFoldable, FoldExists, Zenon
<1>1. /\ g \in [SUBSET DOMAIN s -> Nat]
      /\ \A T \in SUBSET DOMAIN s :
            g[T] = IF T = {} THEN 0 ELSE NumberFcn[g[T \ {Max(T)}], s[Max(T)]]
  BY <1>0, Zenon DEF Folds
<1>2. g = [T \in SUBSET DOMAIN s |->
             IF T = {} THEN 0 ELSE NumberStep(g[T \ {Max(T)}], s[Max(T)])]
  <2>1. ASSUME NEW T \in SUBSET DOMAIN s
        PROVE  g[T] = IF T = {} THEN 0 ELSE NumberStep(g[T \ {Max(T)}], s[Max(T)])
    <3>1. CASE T = {}
      BY <1>1, <3>1, Zenon
    <3>2. CASE T # {}
      <4>1. g[T \ {Max(T)}] \in Nat /\ s[Max(T)] \in Dig
        BY <1>1, <3>2, MaxInDomain
      <4>2. g[T] = NumberFcn[g[T \ {Max(T)}], s[Max(T)]]
        BY <1>1, <3>2, Zenon
      <4>3. NumberFcn[g[T \ {Max(T)}], s[Max(T)]] = NumberStep(g[T \ {Max(T)}], s[Max(T)])
        BY <4>1, NumberStepTyped
      <4>4. QED
        BY <3>2, <4>2, <4>3, Zenon
    <3>3. QED
      BY <3>1, <3>2
  <2>2. QED
    BY <2>1, <1>1, Zenon
<1>3. it = [T \in SUBSET DOMAIN s |->
              IF T = {} THEN 0 ELSE NumberStep(it[T \ {Max(T)}], s[Max(T)])]
  BY <1>2, Zenon DEF NumberIter
<1> HIDE DEF it
<1>4. DOMAIN it = SUBSET DOMAIN s /\ it[{}] = 0
  BY <1>3, Zenon
<1>5. ASSUME NEW T \in SUBSET DOMAIN s, T # {}, it[T \ {Max(T)}] \in Nat
      PROVE  it[T] = NumberFcn[it[T \ {Max(T)}], s[Max(T)]]
  <2>1. it[T] = NumberStep(it[T \ {Max(T)}], s[Max(T)])
    BY <1>3, <1>5, Zenon
  <2>2. NumberFcn[it[T \ {Max(T)}], s[Max(T)]] = NumberStep(it[T \ {Max(T)}], s[Max(T)])
    <3>1. s[Max(T)] \in Dig
      BY <1>5, MaxInDomain, Zenon
    <3>2. QED
      BY <1>5, <3>1, NumberStepTyped, Zenon
  <2>3. QED
    BY <2>1, <2>2, Zenon
<1>6. QED
  BY <1>4, <1>5, Zenon DEF IsFold, it

\* No digits are zero.
LEMMA NumberEmpty == ToNumber(<<>>) = 0
<1>1. <<>> \in Seq(Dig) /\ DOMAIN <<>> = {}
  OBVIOUS
<1>2. IsFold(NumberIter(<<>>), <<>>, 0, NumberFcn, Nat)
  BY <1>1, NumberFolds, Zenon
<1>3. QED
  BY <1>1, <1>2, NumberIterates, Zenon DEF IsFold

\* A digit more behind a number.
LEMMA NumberAppend ==
    ASSUME NEW s \in Seq(Dig), NEW d \in Dig
    PROVE  ToNumber(Append(s, d)) = 10 * ToNumber(s) + ValueOf(d)
<1>1. Append(s, d) \in Seq(Dig)
  OBVIOUS
<1>2. /\ IsFold(NumberIter(s), s, 0, NumberFcn, Nat)
      /\ IsFold(NumberIter(Append(s, d)), Append(s, d), 0, NumberFcn, Nat)
  BY <1>1, NumberFolds, Zenon
<1>3. OneMore(NumberIter(Append(s, d)), Append(s, d), NumberIter(s), s, NumberFcn, d)
  BY <1>2, NumberFoldable, FoldAppend, Zenon
<1>4. ToNumber(s) \in Nat
  <2>1. NumberIter(s)[DOMAIN s] \in Nat
    BY <1>2, NumberFoldable, FoldTyped, Zenon
  <2>2. QED
    BY <2>1, NumberIterates, Zenon
<1>5. NumberFcn[ToNumber(s), d] = NumberStep(ToNumber(s), d)
  BY <1>4, NumberStepTyped
<1>6. QED
  BY <1>3, <1>5, NumberIterates, Zenon DEF OneMore, NumberStep

\* The digits of k, given those of smaller numbers.
DecimalAt(d, k) == IF k < 10 THEN <<Digit[k]>> ELSE d[k \div 10] \o <<Digit[k % 10]>>

\* The function that Decimal chooses.
DecimalIter(n) == CHOOSE d : d = [k \in 0..n |-> DecimalAt(d, k)]

\* Decimal is the value at n of the function it chooses.
LEMMA DecimalIterates == ASSUME NEW n PROVE Decimal(n) = DecimalIter(n)[n]
BY Zenon DEF Decimal, DecimalIter, DecimalAt

\* A number is ten times its tenth and its last digit.
LEMMA Tens ==
    ASSUME NEW k \in Nat
    PROVE  /\ k \div 10 \in Nat /\ k % 10 \in 0..9 /\ k = 10 * (k \div 10) + (k % 10)
           /\ ~ (k < 10) => k \div 10 < k
OBVIOUS

\* That function exists: it is built from 0 up to n.
LEMMA DecimalIterExists ==
    ASSUME NEW n \in Nat
    PROVE  \E d : d = [k \in 0..n |-> DecimalAt(d, k)]
<1> DEFINE V == Seq(Dig)
           G == [kf \in Nat \X [Nat -> V] |-> DecimalAt(kf[2], kf[1])]
<1>1. ASSUME NEW k \in Nat, NEW f \in [Nat -> V] PROVE G[k, f] = DecimalAt(f, k)
  <2> HIDE DEF V
  <2>1. QED
    OBVIOUS
<1>2. ASSUME NEW k \in Nat, NEW f \in [Nat -> V] PROVE DecimalAt(f, k) \in V
  <2>1. CASE k < 10
    <3>1. Digit[k] \in Dig
      <4>1. k \in 0..9
        BY <2>1
      <4>2. QED
        BY <4>1, DigitValues, Zenon
    <3>2. <<Digit[k]>> \in V
      BY <3>1, SeqOfOne, Zenon
    <3>3. QED
      BY <2>1, <3>2, Zenon DEF DecimalAt
  <2>2. CASE ~ (k < 10)
    <3>1. k \div 10 \in Nat /\ k % 10 \in 0..9
      BY Tens
    <3>2. f[k \div 10] \in Seq(Dig) /\ <<Digit[k % 10]>> \in Seq(Dig)
      BY <3>1, DigitValues, SeqOfOne, Zenon
    <3>3. f[k \div 10] \o <<Digit[k % 10]>> \in V
      BY <3>2, ConcatProperties
    <3>4. QED
      BY <2>2, <3>3, Zenon DEF DecimalAt
  <2>3. QED
    BY <2>1, <2>2, Zenon
<1> HIDE DEF V
<1>3. G \in [Nat \X [Nat -> V] -> V]
  BY <1>2
<1> HIDE DEF G
<1>4. \A k \in Nat : \A f, g \in [Nat -> V] :
          (\A j \in Nat : j < k => f[j] = g[j]) => G[k, f] = G[k, g]
  <2>1. ASSUME NEW k \in Nat, NEW f \in [Nat -> V], NEW g \in [Nat -> V],
               \A j \in Nat : j < k => f[j] = g[j]
        PROVE  G[k, f] = G[k, g]
    <3>1. k < 10 \/ f[k \div 10] = g[k \div 10]
      BY <2>1, Tens
    <3>2. DecimalAt(f, k) = DecimalAt(g, k)
      BY <3>1, Zenon DEF DecimalAt
    <3>3. QED
      BY <1>1, <3>2, Zenon
  <2>2. QED
    BY <2>1, Zenon
<1>5. LooksBack(G, V)
  BY <1>3, <1>4, Zenon DEF LooksBack
<1>6. PICK p : Recurs(p, G, V, n)
  <2>1. PICK v \in V : TRUE
    <3>1. <<>> \in Seq(Dig)
      OBVIOUS
    <3>2. QED
      BY <3>1, Zenon DEF V
  <2>2. QED
    BY <2>1, <1>5, Recursion, Zenon
<1>7. p \in [Nat -> V] /\ \A k \in Nat : k <= n => p[k] = DecimalAt(p, k)
  BY <1>6, <1>1, Zenon DEF Recurs
<1> DEFINE d == [k \in 0..n |-> p[k]]
<1>8. ASSUME NEW k \in 0..n PROVE d[k] = DecimalAt(d, k)
  <2>1. k \in Nat /\ k <= n
    OBVIOUS
  <2>2. k < 10 \/ k \div 10 \in 0..n
    BY <2>1, Tens
  <2>3. k < 10 \/ d[k \div 10] = p[k \div 10]
    BY <2>2, Zenon
  <2>4. DecimalAt(d, k) = DecimalAt(p, k)
    <3> HIDE DEF d
    <3>1. QED
      BY <2>3, Zenon DEF DecimalAt
  <2>5. d[k] = p[k]
    OBVIOUS
  <2> HIDE DEF d
  <2>6. QED
    BY <1>7, <2>1, <2>4, <2>5, Zenon
<1>9. d = [k \in 0..n |-> d[k]]
  OBVIOUS
<1> HIDE DEF d
<1>10. d = [k \in 0..n |-> DecimalAt(d, k)]
  BY <1>8, <1>9, Zenon
<1>11. QED
  BY <1>10, Zenon

\* A number that is written in decimal digits and read again is the same.
IsDecimal(s, k) == s \in Seq(Dig) /\ s # <<>> /\ ToNumber(s) = k

\* The length of a body that the client writes in decimal digits is the length
\* that the parser reads, whatever the length.
THEOREM ReadAsWritten == ASSUME NEW n \in Nat PROVE IsDecimal(Decimal(n), n)
<1> DEFINE d == DecimalIter(n)
<1>1. d = [k \in 0..n |-> DecimalAt(d, k)]
  BY DecimalIterExists, Zenon DEF DecimalIter
<1> HIDE DEF d
<1>2. \A k \in 0..n : d[k] = DecimalAt(d, k)
  BY <1>1, Zenon
<1>3. ASSUME NEW k \in 0..9 PROVE IsDecimal(<<Digit[k]>>, k)
  <2>1. Append(<<>>, Digit[k]) = <<Digit[k]>>
    OBVIOUS
  <2>2. Digit[k] \in Dig /\ ValueOf(Digit[k]) = k
    BY DigitValues
  <2>3. <<>> \in Seq(Dig)
    OBVIOUS
  <2>4. ToNumber(<<Digit[k]>>) = 10 * ToNumber(<<>>) + ValueOf(Digit[k])
    BY <2>1, <2>2, <2>3, NumberAppend, Zenon
  <2>5. ToNumber(<<Digit[k]>>) = k
    BY <2>2, <2>4, NumberEmpty
  <2>6. <<Digit[k]>> \in Seq(Dig) /\ <<Digit[k]>> # <<>>
    BY <2>2
  <2>7. QED
    BY <2>5, <2>6, Zenon DEF IsDecimal
<1>4. ASSUME NEW s, NEW j \in Nat, NEW k \in 0..9, IsDecimal(s, j)
      PROVE  IsDecimal(s \o <<Digit[k]>>, 10 * j + k)
  <2>1. Digit[k] \in Dig /\ ValueOf(Digit[k]) = k
    BY DigitValues
  <2>2. s \in Seq(Dig) /\ ToNumber(s) = j
    BY <1>4, Zenon DEF IsDecimal
  <2>3. Append(s, Digit[k]) = s \o <<Digit[k]>>
    BY <2>1, <2>2, AppendIsConcat, Zenon
  <2>4. Append(s, Digit[k]) \in Seq(Dig) /\ Append(s, Digit[k]) # <<>>
    BY <2>1, <2>2, AppendProperties, Zenon
  <2>5. ToNumber(Append(s, Digit[k])) = 10 * j + k
    BY <2>1, <2>2, NumberAppend, Zenon
  <2>6. QED
    BY <2>3, <2>4, <2>5, Zenon DEF IsDecimal
<1> DEFINE B == {m \in Nat : \A k \in 0..n : k <= m => IsDecimal(d[k], k)}
<1>5. ASSUME NEW k \in 0..n, \A j \in 0..n : j < k => IsDecimal(d[j], j)
      PROVE  IsDecimal(d[k], k)
  <2>1. CASE k < 10
    <3>1. k \in 0..9
      BY <2>1
    <3>2. d[k] = <<Digit[k]>>
      BY <1>2, <2>1, Zenon DEF DecimalAt
    <3>3. QED
      BY <1>3, <3>1, <3>2, Zenon
  <2>2. CASE ~ (k < 10)
    <3>1. /\ k \div 10 \in 0..n /\ k \div 10 < k /\ k \div 10 \in Nat /\ k % 10 \in 0..9
          /\ 10 * (k \div 10) + (k % 10) = k
      BY <2>2, Tens
    <3>2. d[k] = d[k \div 10] \o <<Digit[k % 10]>>
      BY <1>2, <2>2, Zenon DEF DecimalAt
    <3>3. IsDecimal(d[k \div 10] \o <<Digit[k % 10]>>, 10 * (k \div 10) + (k % 10))
      BY <1>4, <1>5, <3>1, Zenon
    <3>4. QED
      BY <3>1, <3>2, <3>3, Zenon
  <2>3. QED
    BY <2>1, <2>2, Zenon
<1>6. 0 \in B
  <2>1. \A k \in 0..n : k <= 0 => \A j \in 0..n : ~ (j < k)
    OBVIOUS
  <2>2. QED
    BY <1>5, <2>1
<1>7. ASSUME NEW m \in Nat, m \in B PROVE m + 1 \in B
  <2>1. \A k \in 0..n : k <= m + 1 => \A j \in 0..n : j < k => j <= m
    OBVIOUS
  <2>2. \A k \in 0..n : k <= m + 1 => IsDecimal(d[k], k)
    BY <1>5, <1>7, <2>1, Zenon
  <2>3. m + 1 \in Nat
    OBVIOUS
  <2>4. QED
    BY <2>2, <2>3, Zenon
<1> HIDE DEF B
<1>8. n \in B /\ n \in 0..n /\ n <= n
  BY <1>6, <1>7, SetInduction
<1>9. IsDecimal(d[n], n)
  BY <1>8, Zenon DEF B
<1>10. QED
  BY <1>9, DecimalIterates, Zenon DEF d

\* find returns the first place at which the byte stands.
LEMMA FindFirst ==
    ASSUME NEW S, NEW s \in Seq(S), NEW c, NEW i \in 1..Len(s),
           s[i] = c, \A j \in 1..(i-1) : s[j] # c
    PROVE  Find(s, c) = i
<1>1. DOMAIN s = 1..Len(s) /\ Len(s) \in Nat
  BY LenProperties
<1>2. \E k \in DOMAIN s : s[k] = c
  BY <1>1
<1>3. Find(s, c) = CHOOSE k \in DOMAIN s : s[k] = c /\ \A j \in 1..(k-1) : s[j] # c
  BY <1>2, Zenon DEF Find
<1>4. ASSUME NEW k \in DOMAIN s, s[k] = c, \A j \in 1..(k-1) : s[j] # c
      PROVE  k = i
  <2>1. k \in 1..(i-1) \/ k = i \/ i \in 1..(k-1)
    BY <1>1
  <2>2. QED
    BY <1>4, <2>1, Zenon
<1>5. QED
  BY <1>1, <1>3, <1>4

\* find returns npos when the byte stands nowhere.
LEMMA FindNothing ==
    ASSUME NEW S, NEW c, NEW s \in Seq(S \ {c})
    PROVE  Find(s, c) = 0
<1>1. \A i \in DOMAIN s : s[i] # c
  BY LenProperties, ElementOfSeq
<1>2. QED
  BY <1>1, Zenon DEF Find

\* What is asked about two sequences put together.
ConcatIs(s, t, S) ==
    /\ s \o t \in Seq(S)
    /\ Len(s \o t) = Len(s) + Len(t)
    /\ \A i \in 1..Len(s) : (s \o t)[i] = s[i]
    /\ \A i \in 1..Len(t) : (s \o t)[Len(s) + i] = t[i]

\* What stands where in two sequences put together.
LEMMA ConcatValues ==
    ASSUME NEW S, NEW s \in Seq(S), NEW t \in Seq(S) PROVE ConcatIs(s, t, S)
<1>1. Len(s) \in Nat /\ Len(t) \in Nat
  BY LenProperties
<1>2. /\ s \o t \in Seq(S)
      /\ Len(s \o t) = Len(s) + Len(t)
      /\ \A i \in 1..Len(s) + Len(t) : (s \o t)[i] = IF i <= Len(s) THEN s[i] ELSE t[i - Len(s)]
  BY ConcatProperties
<1>3. ASSUME NEW i \in 1..Len(s) PROVE (s \o t)[i] = s[i]
  <2>1. i \in 1..Len(s) + Len(t) /\ i <= Len(s)
    BY <1>1
  <2>2. QED
    BY <1>2, <2>1, Zenon
<1>4. ASSUME NEW i \in 1..Len(t) PROVE (s \o t)[Len(s) + i] = t[i]
  <2> DEFINE j == Len(s) + i
  <2>1. j \in 1..Len(s) + Len(t) /\ ~ (j <= Len(s)) /\ j - Len(s) = i
    BY <1>1
  <2> HIDE DEF j
  <2>2. (s \o t)[j] = IF j <= Len(s) THEN s[j] ELSE t[j - Len(s)]
    BY <1>2, <2>1, Zenon
  <2>3. (s \o t)[j] = t[i]
    BY <2>1, <2>2, Zenon
  <2>4. QED
    BY <2>3, Zenon DEF j
<1>5. QED
  BY <1>2, <1>3, <1>4, Zenon DEF ConcatIs

\* t is what stands in s from m on.
IsPart(t, s, m) == \A i \in 1..Len(t) : s[m + i - 1] = t[i]

\* A piece of a sequence is what stands there.
LEMMA SubSeqValues ==
    ASSUME NEW S, NEW s, NEW t \in Seq(S), NEW m \in Int, NEW n \in Int,
           n = m + Len(t) - 1, IsPart(t, s, m)
    PROVE  SubSeq(s, m, n) = t
<1>1. Len(t) \in Nat /\ \A i \in 1..Len(t) : t[i] \in S
  BY LenProperties, ElementOfSeq
<1>2. \A i \in m..n : i - m + 1 \in 1..Len(t) /\ m + (i - m + 1) - 1 = i
  BY <1>1
<1>3. \A i \in m..n : s[i] \in S
  BY <1>1, <1>2, Zenon DEF IsPart
<1> DEFINE u == SubSeq(s, m, n)
<1>4. /\ u \in Seq(S) /\ Len(u) = (IF m <= n THEN n - m + 1 ELSE 0)
      /\ \A i \in 1..n - m + 1 : u[i] = s[m + i - 1]
  BY <1>3, SubSeqProperties
<1> HIDE DEF u
<1>5. Len(u) = Len(t) /\ n - m + 1 = Len(t)
  BY <1>1, <1>4
<1>6. \A i \in 1..Len(u) : u[i] = t[i]
  BY <1>4, <1>5, Zenon DEF IsPart
<1>7. u = t
  BY <1>4, <1>5, <1>6, SeqEqual
<1>8. QED
  BY <1>7, Zenon DEF u

\* A separator between what does not contain it and the rest.
Joined(a, c, b) == (a \o <<c>>) \o b

\* What is asked about two sequences joined by a separator.
JoinedIs(a, c, b, S) ==
    /\ Joined(a, c, b) \in Seq(S)
    /\ Len(Joined(a, c, b)) = Len(a) + 1 + Len(b)
    /\ \A i \in 1..Len(a) : Joined(a, c, b)[i] = a[i]
    /\ Joined(a, c, b)[Len(a) + 1] = c
    /\ \A i \in 1..Len(b) : Joined(a, c, b)[Len(a) + 1 + i] = b[i]

\* What stands where when a separator joins two sequences.
LEMMA JoinedAt ==
    ASSUME NEW S, NEW a \in Seq(S), NEW c \in S, NEW b \in Seq(S)
    PROVE  JoinedIs(a, c, b, S)
<1> DEFINE t == a \o <<c>>
<1>1. <<c>> \in Seq(S) /\ Len(<<c>>) = 1 /\ <<c>>[1] = c /\ Len(a) \in Nat /\ Len(b) \in Nat
  BY LenProperties
<1>2. /\ t \in Seq(S) /\ Len(t) = Len(a) + 1
      /\ \A i \in 1..Len(a) : t[i] = a[i]
      /\ t[Len(a) + 1] = c
  <2>0. ConcatIs(a, <<c>>, S)
    BY <1>1, ConcatValues, Zenon
  <2>1. /\ t \in Seq(S) /\ Len(t) = Len(a) + Len(<<c>>)
        /\ \A i \in 1..Len(a) : t[i] = a[i]
        /\ \A i \in 1..Len(<<c>>) : t[Len(a) + i] = <<c>>[i]
    BY <2>0, Zenon DEF ConcatIs
  <2> HIDE DEF t
  <2>2. 1 \in 1..Len(<<c>>)
    OBVIOUS
  <2>3. t[Len(a) + 1] = c
    BY <1>1, <2>1, <2>2, Zenon
  <2>4. QED
    BY <1>1, <2>1, <2>3, Zenon
<1> HIDE DEF t
<1>3a. ConcatIs(t, b, S)
  BY <1>2, ConcatValues, Zenon
<1>3. /\ t \o b \in Seq(S) /\ Len(t \o b) = Len(t) + Len(b)
      /\ \A i \in 1..Len(t) : (t \o b)[i] = t[i]
      /\ \A i \in 1..Len(b) : (t \o b)[Len(t) + i] = b[i]
  BY <1>3a, Zenon DEF ConcatIs
<1>4. /\ \A i \in 1..Len(a) : i \in 1..Len(t)
      /\ Len(a) + 1 \in 1..Len(t)
  BY <1>1, <1>2
<1>5. Joined(a, c, b) = t \o b
  BY Zenon DEF Joined, t
<1>6. \A i \in 1..Len(a) : (t \o b)[i] = a[i]
  BY <1>2, <1>3, <1>4, Zenon
<1>7. (t \o b)[Len(a) + 1] = c
  BY <1>2, <1>3, <1>4, Zenon
<1>8. \A i \in 1..Len(b) : (t \o b)[Len(a) + 1 + i] = b[i]
  BY <1>2, <1>3, Zenon
<1>9. Len(t \o b) = Len(a) + 1 + Len(b)
  BY <1>2, <1>3, Zenon
<1>10. QED
  BY <1>3, <1>5, <1>6, <1>7, <1>8, <1>9, Zenon DEF JoinedIs

\* The first separator is the one that joins, if none stands before it.
LEMMA FindJoined ==
    ASSUME NEW S, NEW c \in S, NEW a \in Seq(S \ {c}), NEW b \in Seq(S)
    PROVE  Find(Joined(a, c, b), c) = Len(a) + 1
<1>1. a \in Seq(S) /\ Len(a) \in Nat /\ Len(b) \in Nat
  BY SeqMonotonic, LenProperties
<1>2. /\ Joined(a, c, b) \in Seq(S)
      /\ Len(Joined(a, c, b)) = Len(a) + 1 + Len(b)
      /\ \A i \in 1..Len(a) : Joined(a, c, b)[i] = a[i]
      /\ Joined(a, c, b)[Len(a) + 1] = c
  <2>1. JoinedIs(a, c, b, S)
    BY <1>1, JoinedAt, Zenon
  <2>2. QED
    BY <2>1, Zenon DEF JoinedIs
<1>3. Len(a) + 1 \in 1..Len(Joined(a, c, b)) /\ (Len(a) + 1) - 1 = Len(a)
  BY <1>1, <1>2
<1>4. \A j \in 1..Len(a) : a[j] # c
  BY ElementOfSeq
<1>5. \A j \in 1..((Len(a) + 1) - 1) : Joined(a, c, b)[j] # c
  BY <1>2, <1>3, <1>4, Zenon
<1>6. QED
  BY <1>2, <1>3, <1>5, FindFirst, Zenon

\* What stands before the separator.
LEMMA BeforeJoined ==
    ASSUME NEW S, NEW c \in S, NEW a \in Seq(S), NEW b \in Seq(S)
    PROVE  Before(Joined(a, c, b), Len(a) + 1) = a
<1>1. JoinedIs(a, c, b, S)
  BY JoinedAt, Zenon
<1>2. \A i \in 1..Len(a) : Joined(a, c, b)[i] = a[i]
  BY <1>1, Zenon DEF JoinedIs
<1>3. Len(a) \in Nat
  BY LenProperties
<1>4. \A i \in 1..Len(a) : 1 + i - 1 = i
  OBVIOUS
<1>5. IsPart(a, Joined(a, c, b), 1)
  BY <1>2, <1>4, Zenon DEF IsPart
<1>6. Len(a) = 1 + Len(a) - 1 /\ 1 \in Int /\ Len(a) \in Int /\ (Len(a) + 1) - 1 = Len(a)
  BY <1>3
<1>7. SubSeq(Joined(a, c, b), 1, Len(a)) = a
  BY <1>5, <1>6, SubSeqValues, Zenon
<1>8. QED
  BY <1>6, <1>7, Zenon DEF Before

\* The end of a sequence is what stands there.
LEMMA FromValues ==
    ASSUME NEW S, NEW s, NEW t \in Seq(S), NEW k \in Int, Len(s) \in Nat,
           Len(s) = k + Len(t) - 1, IsPart(t, s, k)
    PROVE  From(s, k) = t
<1>1. Len(s) \in Int
  OBVIOUS
<1>2. QED
  BY <1>1, SubSeqValues, Zenon DEF From

\* What stands behind the separator.
LEMMA FromJoined ==
    ASSUME NEW S, NEW c \in S, NEW a \in Seq(S), NEW b \in Seq(S)
    PROVE  From(Joined(a, c, b), Len(a) + 1 + 1) = b
<1>1. JoinedIs(a, c, b, S)
  BY JoinedAt, Zenon
<1>2. /\ Len(Joined(a, c, b)) = Len(a) + 1 + Len(b)
      /\ \A i \in 1..Len(b) : Joined(a, c, b)[Len(a) + 1 + i] = b[i]
  BY <1>1, Zenon DEF JoinedIs
<1>3. Len(a) \in Nat /\ Len(b) \in Nat
  BY LenProperties
<1>4. \A i \in 1..Len(b) : Len(a) + 1 + 1 + i - 1 = Len(a) + 1 + i
  BY <1>3
<1>5. IsPart(b, Joined(a, c, b), Len(a) + 1 + 1)
  BY <1>2, <1>4, Zenon DEF IsPart
<1>6. /\ Len(Joined(a, c, b)) \in Nat /\ Len(a) + 1 + 1 \in Int
      /\ Len(Joined(a, c, b)) = Len(a) + 1 + 1 + Len(b) - 1
  BY <1>2, <1>3
<1>7. QED
  BY <1>5, <1>6, FromValues, Zenon

\* All of a sequence is the sequence.
LEMMA FromStart == ASSUME NEW S, NEW s \in Seq(S) PROVE From(s, 1) = s
BY SubSeqFull, Zenon DEF From

-----------------------------------------------------------------------------
(* Trim.                                                                   *)

\* What trim drops.
Blank == {SP, "\t"}

\* How many blanks a sequence may begin with.
LeadingBlanks(s) == {n \in DOMAIN s : \A i \in 1..n : s[i] \in {SP, "\t"}}

\* TrimFront drops the leading blanks.
LEMMA TrimFrontIs == ASSUME NEW s PROVE TrimFront(s) = From(s, 1 + Cardinality(LeadingBlanks(s)))
BY Zenon DEF TrimFront, LeadingBlanks

\* Nothing is dropped when the first byte is no blank.
LEMMA TrimFrontOfFull ==
    ASSUME NEW S, NEW s \in Seq(S), s # <<>>, s[1] \notin Blank
    PROVE  TrimFront(s) = s
<1>1. LeadingBlanks(s) = {}
  <2>1. \A n \in DOMAIN s : 1 \in 1..n
    BY LenProperties
  <2>2. QED
    BY <2>1, Zenon DEF LeadingBlanks, Blank
<1>2. Cardinality(LeadingBlanks(s)) = 0
  BY <1>1, FS_EmptySet, Zenon
<1>3. 1 + 0 = 1
  OBVIOUS
<1>4. QED
  BY <1>2, <1>3, TrimFrontIs, FromStart, Zenon

\* The one blank before it is dropped.
LEMMA TrimFrontOne ==
    ASSUME NEW S, NEW s \in Seq(S), s # <<>>, s[1] \notin Blank, SP \in S
    PROVE  TrimFront(<<SP>> \o s) = s
<1> DEFINE t == <<SP>> \o s
<1>1. /\ t \in Seq(S) /\ Len(t) = 1 + Len(s) /\ Len(s) \in Nat /\ Len(s) # 0
      /\ t[1] = SP /\ \A i \in 1..Len(s) : t[1 + i] = s[i]
  <2>1. <<SP>> \in Seq(S) /\ Len(<<SP>>) = 1 /\ <<SP>>[1] = SP
    OBVIOUS
  <2>0. ConcatIs(<<SP>>, s, S)
    BY <2>1, ConcatValues, Zenon
  <2>2. /\ t \in Seq(S) /\ Len(t) = Len(<<SP>>) + Len(s)
        /\ \A i \in 1..Len(<<SP>>) : t[i] = <<SP>>[i]
        /\ \A i \in 1..Len(s) : t[Len(<<SP>>) + i] = s[i]
    BY <2>0, Zenon DEF ConcatIs
  <2>3. Len(s) \in Nat /\ Len(s) # 0 /\ 1 \in 1..1
    BY EmptySeq
  <2> HIDE DEF t
  <2>4. QED
    BY <2>1, <2>2, <2>3, Zenon
<1> HIDE DEF t
<1>2. DOMAIN t = 1..1 + Len(s)
  BY <1>1, LenProperties
<1>3. LeadingBlanks(t) = {1}
  <2>1. 1 \in DOMAIN t /\ \A i \in 1..1 : t[i] \in Blank
    BY <1>1, <1>2 DEF Blank
  <2>2. ASSUME NEW n \in DOMAIN t, \A i \in 1..n : t[i] \in Blank PROVE n = 1
    <3>1. n # 1 => 1 + 1 \in 1..n
      BY <1>1, <1>2
    <3>2. t[1 + 1] = s[1]
      BY <1>1
    <3>3. QED
      BY <2>2, <3>1, <3>2, Zenon
  <2>3. QED
    BY <2>1, <2>2, Zenon DEF LeadingBlanks, Blank
<1>4. Cardinality(LeadingBlanks(t)) = 1
  BY <1>3, FS_Singleton, Zenon
<1>5. /\ Len(t) \in Nat /\ 1 + 1 \in Int /\ Len(t) = (1 + 1) + Len(s) - 1
      /\ \A i \in 1..Len(s) : (1 + 1) + i - 1 = 1 + i
  BY <1>1
<1>6. From(t, 1 + 1) = s
  <2>1. IsPart(s, t, 1 + 1)
    BY <1>1, <1>5, Zenon DEF IsPart
  <2>2. QED
    BY <1>5, <2>1, FromValues, Zenon
<1>7. TrimFront(t) = s
  BY <1>4, <1>6, TrimFrontIs, Zenon
<1>8. QED
  BY <1>7, Zenon DEF t

\* Neither begins nor ends with a blank.
Tight(s) == s # <<>> /\ s[1] \notin Blank /\ s[Len(s)] \notin Blank

\* Nothing is dropped behind when the last byte is no blank.
LEMMA TrimmedBehind ==
    ASSUME NEW S, NEW s \in Seq(S), Tight(s)
    PROVE  Reverse(TrimFront(Reverse(s))) = s
<1> DEFINE r == Reverse(s)
<1>1. Len(s) \in Nat /\ Len(s) # 0 /\ \A i \in 1..Len(s) : s[i] \in S
  BY EmptySeq, ElementOfSeq DEF Tight
<1>2. \A i \in 1..Len(s) : (Len(s) - i) + 1 \in 1..Len(s) /\ (Len(s) - ((Len(s) - i) + 1)) + 1 = i
  BY <1>1
<1>3. r = [i \in 1..Len(s) |-> s[(Len(s) - i) + 1]]
  BY Zenon DEF Reverse
<1>4. \A i \in 1..Len(s) : s[(Len(s) - i) + 1] \in S
  BY <1>1, <1>2, Zenon
<1> HIDE DEF r
<1>5. r \in Seq(S) /\ Len(r) = Len(s)
  BY <1>1, <1>3, <1>4
<1>6. r[1] = s[Len(s)]
  BY <1>1, <1>3
<1>7. r # <<>> /\ r[1] \notin Blank
  <2>1. r # <<>>
    BY <1>1, <1>5, EmptySeq
  <2>2. QED
    BY <2>1, <1>6, Zenon DEF Tight
<1>8. TrimFront(r) = r
  BY <1>5, <1>7, TrimFrontOfFull
<1>9. Reverse(r) = [i \in 1..Len(s) |-> r[(Len(s) - i) + 1]]
  BY <1>5, Zenon DEF Reverse
<1>10. \A i \in 1..Len(s) : r[(Len(s) - i) + 1] = s[i]
  BY <1>2, <1>3, Zenon
<1>11. Reverse(r) = [i \in 1..Len(s) |-> s[i]]
  BY <1>9, <1>10, Zenon
<1>12. s = [i \in 1..Len(s) |-> s[i]]
  BY LenProperties
<1>13. QED
  BY <1>8, <1>11, <1>12, Zenon DEF r

\* What neither begins nor ends with a blank is left as it is.
LEMMA TrimTight ==
    ASSUME NEW S, NEW s \in Seq(S), Tight(s)
    PROVE  Trim(s) = s
<1>1. TrimFront(s) = s
  BY TrimFrontOfFull, Zenon DEF Tight
<1>2. QED
  BY <1>1, TrimmedBehind, Zenon DEF Trim

\* The blank that follows a colon or a semicolon is dropped.
LEMMA TrimBlank ==
    ASSUME NEW S, NEW s \in Seq(S), Tight(s), SP \in S
    PROVE  Trim(<<SP>> \o s) = s
<1>1. TrimFront(<<SP>> \o s) = s
  BY TrimFrontOne, Zenon DEF Tight
<1>2. QED
  BY <1>1, TrimmedBehind, Zenon DEF Trim

\* A line without a carriage return is left as it is.
LEMMA WithoutCRClean ==
    ASSUME NEW S, NEW s \in Seq(S \ {CR})
    PROVE  WithoutCR(s) = s
<1>1. s # <<>> => Len(s) \in 1..Len(s)
  BY EmptySeq
<1>2. s # <<>> => Last(s) # CR
  BY <1>1, ElementOfSeq DEF Last
<1>3. QED
  BY <1>2, Zenon DEF WithoutCR

\* The carriage return before the line feed is dropped.
LEMMA WithoutCRAppend ==
    ASSUME NEW S, NEW s \in Seq(S), CR \in S
    PROVE  WithoutCR(Append(s, CR)) = s
<1> DEFINE t == Append(s, CR)
<1>1. /\ t \in Seq(S) /\ t # <<>> /\ Len(t) = Len(s) + 1 /\ Len(s) \in Nat
      /\ \A i \in 1..Len(s) : t[i] = s[i] /\ t[Len(s) + 1] = CR
  BY AppendProperties, LenProperties
<1>2. Last(t) = CR
  BY AppendProperties DEF Last
<1> HIDE DEF t
<1>3. Front(t) = s
  <2>1. Len(t) - 1 = 1 + Len(s) - 1 /\ 1 \in Int /\ Len(t) - 1 \in Int
        /\ \A i \in 1..Len(s) : 1 + i - 1 = i
    BY <1>1
  <2>2. IsPart(s, t, 1)
    BY <1>1, <2>1, Zenon DEF IsPart
  <2>3. QED
    BY <2>1, <2>2, SubSeqValues, Zenon DEF Front
<1>4. QED
  BY <1>1, <1>2, <1>3, Zenon DEF WithoutCR, t

-----------------------------------------------------------------------------
(* The lines of a head.                                                    *)

\* One line more behind B, from which the end of line separates it.
NextLine(B, l) == Joined(Append(B, CR), LF, l)

\* No end of line is followed by another.
NoEmptyLine(B) == \A i \in 1..Len(B) : B[i] = CR => i + 2 \in 1..Len(B) /\ B[i + 2] # CR

\* What is asked about a line that is added.
NextLineIs(B, l, S) ==
    /\ NextLine(B, l) \in Seq(S)
    /\ Len(NextLine(B, l)) = Len(B) + 2 + Len(l)
    /\ \A i \in 1..Len(B) : NextLine(B, l)[i] = B[i]
    /\ NextLine(B, l)[Len(B) + 1] = CR
    /\ NextLine(B, l)[Len(B) + 2] = LF
    /\ \A i \in 1..Len(l) : NextLine(B, l)[Len(B) + 2 + i] = l[i]

\* What stands where when a line is added.
LEMMA NextLineValues ==
    ASSUME NEW S, NEW B \in Seq(S), NEW l \in Seq(S), CR \in S, LF \in S
    PROVE  NextLineIs(B, l, S)
<1> DEFINE a == Append(B, CR)
           t == NextLine(B, l)
<1>1. /\ a \in Seq(S) /\ Len(a) = Len(B) + 1 /\ \A i \in 1..Len(B) : a[i] = B[i]
      /\ a[Len(B) + 1] = CR /\ Len(B) \in Nat /\ Len(l) \in Nat
  BY AppendProperties, LenProperties
<1>2. JoinedIs(a, LF, l, S)
  BY <1>1, JoinedAt, Zenon
<1>3. t = Joined(a, LF, l)
  BY Zenon DEF NextLine
<1> HIDE DEF a, t
<1>4. /\ t \in Seq(S) /\ Len(t) = Len(a) + 1 + Len(l)
      /\ \A i \in 1..Len(a) : t[i] = a[i]
      /\ t[Len(a) + 1] = LF
      /\ \A i \in 1..Len(l) : t[Len(a) + 1 + i] = l[i]
  BY <1>2, <1>3, Zenon DEF JoinedIs
<1>5. Len(a) + 1 = Len(B) + 2 /\ Len(B) + 1 \in 1..Len(a) /\ \A i \in 1..Len(B) : i \in 1..Len(a)
  BY <1>1
<1>6. t[Len(B) + 1] = CR
  BY <1>1, <1>4, <1>5, Zenon
<1>7. \A i \in 1..Len(B) : t[i] = B[i]
  BY <1>1, <1>4, <1>5, Zenon
<1>8. QED
  BY <1>4, <1>5, <1>6, <1>7, Zenon DEF t, NextLineIs

\* One line has no empty line in it.
LEMMA NoEmptyFirst ==
    ASSUME NEW S, NEW l \in Seq(S \ {CR}) PROVE NoEmptyLine(l)
BY ElementOfSeq DEF NoEmptyLine

\* Adding a line that is not empty adds no empty line.
LEMMA NoEmptyMore ==
    ASSUME NEW S, NEW B \in Seq(S), NEW l \in Seq(S \ {CR}), CR \in S, LF \in S,
           l # <<>>, NoEmptyLine(B)
    PROVE  NoEmptyLine(NextLine(B, l))
<1> DEFINE t == NextLine(B, l)
<1>0. l \in Seq(S)
  BY SeqMonotonic
<1>1. /\ t \in Seq(S) /\ Len(t) = Len(B) + 2 + Len(l)
      /\ \A i \in 1..Len(B) : t[i] = B[i]
      /\ t[Len(B) + 1] = CR /\ t[Len(B) + 2] = LF
      /\ \A i \in 1..Len(l) : t[Len(B) + 2 + i] = l[i]
  <2>1. NextLineIs(B, l, S)
    BY <1>0, NextLineValues, Zenon
  <2>2. QED
    BY <2>1, Zenon DEF NextLineIs
<1> HIDE DEF t
<1>2. Len(B) \in Nat /\ Len(l) \in Nat /\ Len(l) # 0 /\ \A i \in 1..Len(l) : l[i] # CR
  BY <1>0, LenProperties, EmptySeq, ElementOfSeq
<1>3. CR # LF
  BY DEF CR, LF
<1>4. ASSUME NEW i \in 1..Len(t), t[i] = CR
      PROVE  i + 2 \in 1..Len(t) /\ t[i + 2] # CR
  <2>1. CASE i \in 1..Len(B)
    <3>1. B[i] = CR
      BY <1>1, <1>4, <2>1, Zenon
    <3>2. i + 2 \in 1..Len(B) /\ B[i + 2] # CR
      BY <2>1, <3>1, Zenon DEF NoEmptyLine
    <3>3. t[i + 2] = B[i + 2]
      BY <1>1, <3>2, Zenon
    <3>4. i + 2 \in 1..Len(t)
      BY <1>1, <1>2, <3>2
    <3>5. QED
      BY <3>2, <3>3, <3>4, Zenon
  <2>2. CASE i = Len(B) + 1
    <3>1. i + 2 = Len(B) + 2 + 1 /\ 1 \in 1..Len(l) /\ i + 2 \in 1..Len(t)
      BY <1>1, <1>2, <2>2
    <3>2. t[i + 2] = l[1]
      BY <1>1, <3>1, Zenon
    <3>3. QED
      BY <1>2, <3>1, <3>2, Zenon
  <2>3. CASE i = Len(B) + 2
    BY <1>1, <1>3, <1>4, <2>3, Zenon
  <2>4. CASE ~ (i <= Len(B) + 2)
    <3> DEFINE j == i - (Len(B) + 2)
    <3>1. j \in 1..Len(l) /\ Len(B) + 2 + j = i
      BY <1>1, <1>2, <2>4
    <3> HIDE DEF j
    <3>2. t[i] = l[j]
      BY <1>1, <3>1, Zenon
    <3>3. QED
      BY <1>2, <1>4, <3>1, <3>2, Zenon
  <2>5. i \in 1..Len(B) \/ i = Len(B) + 1 \/ i = Len(B) + 2 \/ ~ (i <= Len(B) + 2)
    BY <1>2
  <2>6. QED
    BY <2>1, <2>2, <2>3, <2>4, <2>5, Zenon
<1>5. QED
  BY <1>4, Zenon DEF NoEmptyLine, t

\* The parts of a head between the ends of line: all lines but the last still
\* have the carriage return.
Reads(B, L) ==
    /\ Len(Split(B, LF)) = Len(L)
    /\ Split(B, LF)[Len(L)] = L[Len(L)]
    /\ \A i \in 1..Len(L) : Split(B, LF)[i] = L[i] \/ Split(B, LF)[i] = Append(L[i], CR)

\* One line is read as one line.
LEMMA ReadsFirst ==
    ASSUME NEW S, NEW l \in Seq(S \ {LF}) PROVE Reads(l, <<l>>)
<1>1. Split(l, LF) = <<l>>
  BY SplitOne, Zenon
<1>2. Len(<<l>>) = 1 /\ <<l>>[1] = l /\ \A i \in 1..1 : i = 1
  OBVIOUS
<1>3. QED
  BY <1>1, <1>2, Zenon DEF Reads

\* One line more is one more to read, and the one before it gets its carriage return.
LEMMA ReadsMore ==
    ASSUME NEW S, NEW B \in Seq(S), NEW L \in Seq(Seq(S)), NEW l \in Seq(S \ {LF}),
           CR \in S, LF \in S, L # <<>>, Reads(B, L)
    PROVE  Reads(NextLine(B, l), Append(L, l))
<1> DEFINE P == Split(B, LF)
           n == Len(L)
           x == Append(P[Len(P)], CR)
           Q == [P EXCEPT ![Len(P)] = x]
           M == Append(L, l)
           N == Split(NextLine(B, l), LF)
<1>0. CR # LF
  BY DEF CR, LF
<1>1. P \in Seq(Seq(S)) /\ P # <<>>
  BY SplitTyped DEF Parts
<1>2. /\ Len(P) = n /\ P[n] = L[n]
      /\ \A i \in 1..n : P[i] = L[i] \/ P[i] = Append(L[i], CR)
  BY Zenon DEF Reads
<1>3. n \in Nat /\ n # 0 /\ n \in 1..n
  BY EmptySeq
<1>4. Split(Append(B, CR), LF) = Q
  <2>1. Split(Append(B, CR), LF) = SplitStep(Split(B, LF), CR, LF)
    BY SplitAppend, Zenon
  <2>2. QED
    BY <1>0, <2>1, Zenon DEF SplitStep
<1> HIDE DEF P
<1>5. P[n] \in Seq(S)
  BY <1>1, <1>2, <1>3, ElementOfSeq
<1>6. x \in Seq(S) /\ x = Append(L[n], CR)
  BY <1>2, <1>5, AppendProperties
<1> HIDE DEF x
<1>7. Q \in Seq(Seq(S)) /\ Len(Q) = n /\ \A j \in 1..n : Q[j] = IF j = n THEN x ELSE P[j]
  BY <1>1, <1>2, <1>3, <1>6, ExceptSeq
<1> HIDE DEF Q
<1>8. N = Append(Q, l)
  <2>1. Append(B, CR) \in Seq(S)
    BY AppendProperties
  <2>2. Split(Joined(Append(B, CR), LF, l), LF) = Append(Split(Append(B, CR), LF), l)
    BY <2>1, SplitMore, Zenon DEF Joined
  <2>3. QED
    BY <1>4, <2>2, Zenon DEF NextLine
<1>9. l \in Seq(S)
  BY SeqMonotonic
<1>10. Len(N) = n + 1 /\ N[n + 1] = l /\ \A i \in 1..n : N[i] = Q[i]
  BY <1>7, <1>8, <1>9, AppendProperties
<1>11. Len(M) = n + 1 /\ M[n + 1] = l /\ \A i \in 1..n : M[i] = L[i]
  BY <1>9, AppendProperties
<1> HIDE DEF N, M, n
<1>12. \A i \in 1..n : N[i] = M[i] \/ N[i] = Append(M[i], CR)
  <2> SUFFICES ASSUME NEW i \in 1..n PROVE N[i] = M[i] \/ N[i] = Append(M[i], CR)
    OBVIOUS
  <2>1. CASE i = n
    <3>1. N[i] = x /\ M[i] = L[i]
      BY <1>7, <1>10, <1>11, <2>1, Zenon
    <3>2. QED
      BY <1>6, <2>1, <3>1, Zenon
  <2>2. CASE i # n
    <3>1. N[i] = P[i] /\ M[i] = L[i]
      BY <1>7, <1>10, <1>11, <2>2, Zenon
    <3>2. QED
      BY <1>2, <3>1, Zenon
  <2>3. QED
    BY <2>1, <2>2, Zenon
<1>13. \A i \in 1..n + 1 : i \in 1..n \/ i = n + 1
  BY <1>3
<1>14. \A i \in 1..n + 1 : N[i] = M[i] \/ N[i] = Append(M[i], CR)
  BY <1>10, <1>11, <1>12, <1>13, Zenon
<1>15. QED
  BY <1>10, <1>11, <1>14, Zenon DEF Reads, N, M

\* A line is read without the carriage return.
LEMMA LineRead ==
    ASSUME NEW S, CR \in S, NEW B, NEW L \in Seq(Seq(S \ {CR})), Reads(B, L), NEW i \in 1..Len(L)
    PROVE  WithoutCR(Split(B, LF)[i]) = L[i]
<1>1. L[i] \in Seq(S \ {CR})
  BY ElementOfSeq
<1>2. L[i] \in Seq(S)
  BY <1>1, SeqMonotonic
<1>3. WithoutCR(L[i]) = L[i]
  BY <1>1, WithoutCRClean, Zenon
<1>4. WithoutCR(Append(L[i], CR)) = L[i]
  BY <1>2, WithoutCRAppend, Zenon
<1>5. QED
  BY <1>3, <1>4, Zenon DEF Reads

-----------------------------------------------------------------------------
(* The head of a request.                                                  *)

\* All bytes a client sends.
Byte == Word \cup Reserved \cup Hex \cup Dig \cup
        {"k", "h", "HTTP/1.1", "Host", "X-Username", "u", "Authorization", "token",
         "Cookie", "Content-Length"}

\* The bytes within a line.
LineByte == Byte \ {CR, LF}

\* What a client sends as headers.
HeaderRecord ==
    {h \in [name : Byte, value : Seq(LineByte)] : h.name \notin Reserved /\ Tight(h.value)}

\* The line of a header: its name, a colon, a blank and its value.
HeaderLine(h) == Joined(<<h.name>>, ":", <<SP>> \o h.value)

\* The lines of a head: the first one and one for each header.
HeadLines(line, hs) ==
    [i \in 1..Len(hs) + 1 |-> IF i = 1 THEN line ELSE HeaderLine(hs[i - 1])]

\* The lines with these headers, from the first one on.
HeadOf(B, line, hs) ==
    /\ B \in Seq(Byte)
    /\ hs \in Seq(HeaderRecord)
    /\ HeadLines(line, hs) \in Seq(Seq(LineByte))
    /\ NoEmptyLine(B)
    /\ Reads(B, HeadLines(line, hs))

\* The bytes of the syntax are sent.
LEMMA ReservedBytes ==
    /\ CR \in Byte /\ LF \in Byte /\ SP \in Byte /\ ":" \in Byte /\ ";" \in Byte
    /\ "=" \in Byte /\ "&" \in Byte /\ "?" \in Byte /\ "/" \in Byte
BY DEF Byte, Reserved

\* The bytes of the syntax within a line.
LEMMA LineBytes ==
    /\ SP \in LineByte /\ ":" \in LineByte /\ ";" \in LineByte
    /\ "=" \in LineByte /\ "&" \in LineByte /\ "?" \in LineByte /\ "/" \in LineByte
<1>1. /\ SP # CR /\ ":" # CR /\ ";" # CR /\ "=" # CR /\ "&" # CR /\ "?" # CR /\ "/" # CR
      /\ SP # LF /\ ":" # LF /\ ";" # LF /\ "=" # LF /\ "&" # LF /\ "?" # LF /\ "/" # LF
  BY DEF CR, LF, SP
<1>2. QED
  BY <1>1, ReservedBytes, Zenon DEF LineByte

\* What a line is made of is made of bytes.
LEMMA LineByteIn == Seq(LineByte) \subseteq Seq(Byte)
BY SeqMonotonic DEF LineByte

\* The line of a header has a colon after the name, and no end of line.
HeaderLineIs(h) ==
    /\ HeaderLine(h) \in Seq(LineByte)
    /\ HeaderLine(h) # <<>>
    /\ <<h.name>> \in Seq(LineByte \ {":"})
    /\ <<SP>> \o h.value \in Seq(LineByte)
    /\ Tight(<<h.name>>)
    /\ Tight(h.value)

\* Every header the client sends is such a line.
LEMMA HeaderLineValues == ASSUME NEW h \in HeaderRecord PROVE HeaderLineIs(h)
<1>1. h.name \in Byte /\ h.value \in Seq(LineByte) /\ h.name \notin Reserved /\ Tight(h.value)
  BY DEF HeaderRecord
<1>2. CR \in Reserved /\ LF \in Reserved /\ SP \in Reserved /\ "\t" \in Reserved /\ ":" \in Reserved
  BY DEF Reserved
<1>3. h.name \in LineByte \ {":"} /\ h.name \in LineByte /\ h.name # SP /\ h.name # "\t"
  BY <1>1, <1>2, Zenon DEF LineByte
<1>4. <<h.name>> \in Seq(LineByte \ {":"}) /\ <<h.name>> \in Seq(LineByte)
  BY <1>3, SeqOfOne, Zenon
<1>5. <<SP>> \o h.value \in Seq(LineByte)
  <2>1. <<SP>> \in Seq(LineByte)
    BY LineBytes, SeqOfOne, Zenon
  <2>2. ConcatIs(<<SP>>, h.value, LineByte)
    BY <1>1, <2>1, ConcatValues, Zenon
  <2>3. QED
    BY <2>2, Zenon DEF ConcatIs
<1>6. JoinedIs(<<h.name>>, ":", <<SP>> \o h.value, LineByte)
  BY <1>4, <1>5, LineBytes, JoinedAt, Zenon
<1>7. /\ HeaderLine(h) \in Seq(LineByte)
      /\ Len(HeaderLine(h)) = Len(<<h.name>>) + 1 + Len(<<SP>> \o h.value)
  BY <1>6, Zenon DEF JoinedIs, HeaderLine
<1>8. HeaderLine(h) # <<>>
  <2>1. Len(<<h.name>>) = 1 /\ Len(<<SP>> \o h.value) \in Nat
    BY <1>5, LenProperties
  <2>2. Len(HeaderLine(h)) # 0
    BY <1>7, <2>1
  <2>3. QED
    BY <1>7, <2>2, EmptySeq
<1>9. Tight(<<h.name>>)
  <2>1. Len(<<h.name>>) = 1 /\ <<h.name>>[1] = h.name /\ <<h.name>> # <<>>
    OBVIOUS
  <2>2. h.name \notin Blank
    BY <1>3, Zenon DEF Blank
  <2>3. QED
    BY <2>1, <2>2, Zenon DEF Tight
<1>10. QED
  BY <1>1, <1>4, <1>5, <1>7, <1>8, <1>9, Zenon DEF HeaderLineIs

\* A header more is a line more.
LEMMA HeadLinesMore ==
    ASSUME NEW line, NEW hs \in Seq(HeaderRecord), NEW h \in HeaderRecord,
           HeadLines(line, hs) \in Seq(Seq(LineByte))
    PROVE  /\ HeadLines(line, Append(hs, h)) = Append(HeadLines(line, hs), HeaderLine(h))
           /\ HeadLines(line, Append(hs, h)) \in Seq(Seq(LineByte))
<1> DEFINE ks == Append(hs, h)
           L == HeadLines(line, hs)
           M == HeadLines(line, ks)
           x == HeaderLine(h)
<1>1. /\ ks \in Seq(HeaderRecord) /\ Len(ks) = Len(hs) + 1 /\ ks[Len(hs) + 1] = h
      /\ \A i \in 1..Len(hs) : ks[i] = hs[i]
      /\ Len(hs) \in Nat
  BY AppendProperties, LenProperties
<1>2. x \in Seq(LineByte)
  BY HeaderLineValues, Zenon DEF HeaderLineIs
<1> HIDE DEF ks
<1>3. /\ DOMAIN L = 1..Len(hs) + 1
      /\ \A i \in 1..Len(hs) + 1 : L[i] = IF i = 1 THEN line ELSE HeaderLine(hs[i - 1])
      /\ DOMAIN M = 1..Len(ks) + 1
      /\ M = [i \in 1..Len(ks) + 1 |-> M[i]]
      /\ \A i \in 1..Len(ks) + 1 : M[i] = IF i = 1 THEN line ELSE HeaderLine(ks[i - 1])
  BY Zenon DEF HeadLines
<1> HIDE DEF L, M, x
<1>4. L \in Seq(Seq(LineByte))
  BY DEF L
<1>5. Len(L) = Len(hs) + 1
  BY <1>1, <1>3, <1>4, LenProperties
<1> DEFINE N == Append(L, x)
<1>6. /\ N \in Seq(Seq(LineByte)) /\ Len(N) = Len(L) + 1 /\ N[Len(L) + 1] = x
      /\ \A i \in 1..Len(L) : N[i] = L[i]
  BY <1>2, <1>4, AppendProperties
<1> HIDE DEF N
<1>7. ASSUME NEW i \in 1..Len(ks) + 1 PROVE M[i] = N[i]
  <2>1. CASE i = 1
    <3>1. i \in 1..Len(L) /\ i \in 1..Len(hs) + 1
      BY <1>1, <1>5, <2>1
    <3>2. QED
      BY <1>3, <1>6, <2>1, <3>1, Zenon
  <2>2. CASE i # 1 /\ i # Len(ks) + 1
    <3>1. i \in 1..Len(L) /\ i \in 1..Len(hs) + 1 /\ i - 1 \in 1..Len(hs)
      BY <1>1, <1>5, <2>2
    <3>2. M[i] = HeaderLine(ks[i - 1]) /\ N[i] = L[i] /\ L[i] = HeaderLine(hs[i - 1])
      BY <1>3, <1>6, <2>2, <3>1, Zenon
    <3>3. ks[i - 1] = hs[i - 1]
      BY <1>1, <3>1, Zenon
    <3>4. QED
      BY <3>2, <3>3, Zenon
  <2>3. CASE i = Len(ks) + 1
    <3>1. i - 1 = Len(hs) + 1 /\ i # 1 /\ i = Len(L) + 1
      BY <1>1, <1>5, <2>3
    <3>2. M[i] = HeaderLine(ks[i - 1]) /\ ks[i - 1] = h
      BY <1>1, <1>3, <3>1, Zenon
    <3>3. QED
      BY <1>6, <3>1, <3>2, Zenon DEF x
  <2>4. QED
    BY <2>1, <2>2, <2>3, Zenon
<1>8. M \in Seq(Seq(LineByte)) /\ Len(M) = Len(N)
  <2>1. Len(ks) + 1 = Len(N) /\ Len(ks) + 1 \in Nat
    BY <1>1, <1>5, <1>6
  <2>2. \A i \in 1..Len(N) : N[i] \in Seq(LineByte)
    BY <1>6, ElementOfSeq
  <2>3. \A i \in 1..Len(ks) + 1 : M[i] \in Seq(LineByte)
    BY <1>7, <2>1, <2>2, Zenon
  <2>4. M \in [1..Len(ks) + 1 -> Seq(LineByte)]
    BY <1>3, <2>3, Zenon
  <2>5. M \in Seq(Seq(LineByte))
    BY <2>1, <2>4
  <2>6. Len(M) = Len(ks) + 1
    BY <1>3, <2>1, <2>5, LenProperties
  <2>7. QED
    BY <2>1, <2>5, <2>6
<1>9. M = N
  <2>1. Len(M) = Len(ks) + 1
    BY <1>1, <1>5, <1>6, <1>8
  <2>2. \A i \in 1..Len(M) : M[i] = N[i]
    BY <1>7, <2>1, Zenon
  <2>3. QED
    BY <1>6, <1>8, <2>2, SeqEqual
<1>10. QED
  BY <1>8, <1>9, Zenon DEF M, N, L, ks, x

\* One header more.
LEMMA NextHeader ==
    ASSUME NEW B, NEW line, NEW hs, NEW h \in HeaderRecord, HeadOf(B, line, hs)
    PROVE  HeadOf(NextLine(B, HeaderLine(h)), line, Append(hs, h))
<1> DEFINE l == HeaderLine(h)
           L == HeadLines(line, hs)
<1>1. B \in Seq(Byte) /\ hs \in Seq(HeaderRecord) /\ L \in Seq(Seq(LineByte))
      /\ NoEmptyLine(B) /\ Reads(B, L)
  BY Zenon DEF HeadOf
<1>2. l \in Seq(LineByte) /\ l # <<>>
  BY HeaderLineValues, Zenon DEF HeaderLineIs
<1>3. l \in Seq(Byte) /\ l \in Seq(Byte \ {CR}) /\ l \in Seq(Byte \ {LF})
  BY <1>2, SeqMonotonic DEF LineByte
<1>4. HeadLines(line, Append(hs, h)) = Append(L, l)
      /\ HeadLines(line, Append(hs, h)) \in Seq(Seq(LineByte))
  BY <1>1, HeadLinesMore, Zenon
<1>5. L # <<>> /\ L \in Seq(Seq(Byte))
  <2>1. 1 \in DOMAIN L
    <3>1. 1 \in 1..Len(hs) + 1
      BY <1>1, LenProperties
    <3>2. QED
      BY <3>1, Zenon DEF HeadLines
  <2>2. L # <<>>
    BY <1>1, <2>1
  <2>3. L \in Seq(Seq(Byte))
    BY <1>1, LineByteIn, SeqMonotonic
  <2>4. QED
    BY <2>2, <2>3
<1> HIDE DEF l, L
<1>6. NoEmptyLine(NextLine(B, l))
  BY <1>1, <1>2, <1>3, ReservedBytes, NoEmptyMore, Zenon
<1>7. Reads(NextLine(B, l), Append(L, l))
  BY <1>1, <1>3, <1>5, ReservedBytes, ReadsMore, Zenon
<1>8. NextLineIs(B, l, Byte)
  BY <1>1, <1>3, ReservedBytes, NextLineValues, Zenon
<1>9. NextLine(B, l) \in Seq(Byte)
  BY <1>8, Zenon DEF NextLineIs
<1>10. Append(hs, h) \in Seq(HeaderRecord)
  BY <1>1, AppendProperties
<1>11. QED
  BY <1>4, <1>6, <1>7, <1>9, <1>10, Zenon DEF HeadOf, l, L

\* The first line alone is a head without headers.
LEMMA FirstLine ==
    ASSUME NEW line \in Seq(LineByte)
    PROVE  HeadOf(line, line, <<>>)
<1>1. line \in Seq(Byte) /\ line \in Seq(Byte \ {CR}) /\ line \in Seq(Byte \ {LF})
  BY SeqMonotonic DEF LineByte
<1>2. HeadLines(line, <<>>) = <<line>>
  <2>1. Len(<<>>) + 1 = 1 /\ 1..1 = {1}
    OBVIOUS
  <2>2. HeadLines(line, <<>>) = [i \in 1..1 |-> IF i = 1 THEN line ELSE HeaderLine(<<>>[i - 1])]
    BY <2>1, Zenon DEF HeadLines
  <2>3. <<line>> = [i \in 1..1 |-> line]
    OBVIOUS
  <2>4. \A i \in 1..1 : i = 1
    OBVIOUS
  <2>5. QED
    BY <2>2, <2>3, <2>4
<1>3. <<>> \in Seq(HeaderRecord)
  BY EmptySeq
<1>4. <<line>> \in Seq(Seq(LineByte))
  BY SeqOfOne, Zenon
<1>5. NoEmptyLine(line) /\ Reads(line, <<line>>)
  BY <1>1, NoEmptyFirst, ReadsFirst, Zenon
<1>6. QED
  BY <1>1, <1>2, <1>3, <1>4, <1>5, Zenon DEF HeadOf

-----------------------------------------------------------------------------
(* Tuples put together.                                                    *)

\* Two sequences put together are the one with their elements.
LEMMA ConcatEqual ==
    ASSUME NEW S, NEW s \in Seq(S), NEW t \in Seq(S), NEW u \in Seq(S),
           Len(u) = Len(s) + Len(t), \A i \in 1..Len(s) : u[i] = s[i],
           \A i \in 1..Len(t) : u[Len(s) + i] = t[i]
    PROVE  s \o t = u
<1> DEFINE v == s \o t
<1>1. /\ v \in Seq(S) /\ Len(v) = Len(s) + Len(t)
      /\ \A i \in 1..Len(s) : v[i] = s[i]
      /\ \A i \in 1..Len(t) : v[Len(s) + i] = t[i]
  <2>1. ConcatIs(s, t, S)
    BY ConcatValues, Zenon
  <2>2. QED
    BY <2>1, Zenon DEF ConcatIs
<1> HIDE DEF v
<1>2. ASSUME NEW i \in 1..Len(v) PROVE v[i] = u[i]
  <2>1. CASE i \in 1..Len(s)
    BY <1>1, <2>1, Zenon
  <2>2. CASE i \notin 1..Len(s)
    <3> DEFINE j == i - Len(s)
    <3>1. j \in 1..Len(t) /\ Len(s) + j = i
      BY <1>1, <2>2, LenProperties
    <3> HIDE DEF j
    <3>2. QED
      BY <1>1, <3>1, Zenon
  <2>3. QED
    BY <2>1, <2>2, Zenon
<1>3. v = u
  BY <1>1, <1>2, SeqEqual
<1>4. QED
  BY <1>3, Zenon DEF v

\* A tuple is its elements put together (two).
LEMMA Tuple2 == ASSUME NEW a, NEW b PROVE <<a>> \o <<b>> = <<a, b>>
<1>1. <<a>> \in Seq({a, b}) /\ <<b>> \in Seq({a, b}) /\ <<a, b>> \in Seq({a, b})
  OBVIOUS
<1>2. Len(<<a, b>>) = Len(<<a>>) + Len(<<b>>)
  OBVIOUS
<1>3. \A i \in 1..Len(<<a>>) : <<a, b>>[i] = <<a>>[i]
  OBVIOUS
<1>4. \A i \in 1..Len(<<b>>) : <<a, b>>[Len(<<a>>) + i] = <<b>>[i]
  OBVIOUS
<1>5. QED
  BY <1>1, <1>2, <1>3, <1>4, ConcatEqual, Zenon

\* A tuple is its elements put together (three).
LEMMA Tuple3 == ASSUME NEW a, NEW b, NEW c PROVE <<a, b>> \o <<c>> = <<a, b, c>>
<1> DEFINE S == {a, b, c}
<1>1. <<a, b>> \in Seq(S) /\ <<c>> \in Seq(S) /\ <<a, b, c>> \in Seq(S)
  OBVIOUS
<1>2. /\ Len(<<a, b, c>>) = Len(<<a, b>>) + Len(<<c>>)
      /\ \A i \in 1..Len(<<a, b>>) : <<a, b, c>>[i] = <<a, b>>[i]
      /\ \A i \in 1..Len(<<c>>) : <<a, b, c>>[Len(<<a, b>>) + i] = <<c>>[i]
  OBVIOUS
<1>3. QED
  BY <1>1, <1>2, ConcatEqual, Zenon

\* A tuple is its elements put together (four).
LEMMA Tuple4 == ASSUME NEW a, NEW b, NEW c, NEW d PROVE <<a, b, c>> \o <<d>> = <<a, b, c, d>>
<1> DEFINE S == {a, b, c, d}
<1>1. <<a, b, c>> \in Seq(S) /\ <<d>> \in Seq(S) /\ <<a, b, c, d>> \in Seq(S)
  OBVIOUS
<1>2. /\ Len(<<a, b, c, d>>) = Len(<<a, b, c>>) + Len(<<d>>)
      /\ \A i \in 1..Len(<<a, b, c>>) : <<a, b, c, d>>[i] = <<a, b, c>>[i]
      /\ \A i \in 1..Len(<<d>>) : <<a, b, c, d>>[Len(<<a, b, c>>) + i] = <<d>>[i]
  OBVIOUS
<1>3. QED
  BY <1>1, <1>2, ConcatEqual, Zenon

\* A tuple is its elements put together (six).
LEMMA Tuple6 ==
    ASSUME NEW a, NEW b, NEW c, NEW d, NEW e, NEW f
    PROVE  <<a, b, c>> \o <<d, e, f>> = <<a, b, c, d, e, f>>
<1> DEFINE S == {a, b, c, d, e, f}
           u == <<a, b, c, d, e, f>>
<1>1. <<a, b, c>> \in Seq(S) /\ <<d, e, f>> \in Seq(S) /\ u \in Seq(S)
  OBVIOUS
<1>2. Len(u) = Len(<<a, b, c>>) + Len(<<d, e, f>>)
  OBVIOUS
<1>3. \A i \in 1..Len(<<a, b, c>>) : u[i] = <<a, b, c>>[i]
  OBVIOUS
<1>4. \A i \in 1..Len(<<d, e, f>>) : u[Len(<<a, b, c>>) + i] = <<d, e, f>>[i]
  OBVIOUS
<1>5. QED
  BY <1>1, <1>2, <1>3, <1>4, ConcatEqual, Zenon

\* The end of a line and the line that follows.
LEMMA LineEnd ==
    ASSUME NEW S, NEW X \in Seq(S), NEW l \in Seq(S), CR \in S, LF \in S
    PROVE  (X \o CRLF) \o l = NextLine(X, l)
<1>1. <<CR>> \in Seq(S) /\ <<LF>> \in Seq(S)
  BY SeqOfOne, Zenon
<1>2. CRLF = <<CR>> \o <<LF>>
  BY Tuple2, Zenon DEF CRLF
<1>3. X \o CRLF = (X \o <<CR>>) \o <<LF>>
  <2>1. Associates(X, <<CR>>, <<LF>>)
    BY <1>1, ConcatAssociates, Zenon
  <2>2. QED
    BY <2>1, <1>2 DEF Associates
<1>4. X \o <<CR>> = Append(X, CR)
  BY AppendIsConcat
<1>5. QED
  BY <1>3, <1>4, Zenon DEF NextLine, Joined

\* The same with the end of the line that follows.
LEMMA LineAdded ==
    ASSUME NEW S, NEW X \in Seq(S), NEW l \in Seq(S), CR \in S, LF \in S
    PROVE  (X \o CRLF) \o (l \o CRLF) = NextLine(X, l) \o CRLF
<1>1. CRLF \in Seq(S)
  BY DEF CRLF
<1>2. X \o CRLF \in Seq(S)
  BY <1>1, ConcatProperties
<1>3. (X \o CRLF) \o (l \o CRLF) = ((X \o CRLF) \o l) \o CRLF
  <2>1. Associates(X \o CRLF, l, CRLF)
    BY <1>1, <1>2, ConcatAssociates, Zenon
  <2>2. QED
    BY <2>1 DEF Associates
<1>4. QED
  BY <1>3, LineEnd, Zenon

\* A header that may be left out.
Extended(hs, present, h) == IF present THEN Append(hs, h) ELSE hs
WithLine(B, present, h) == IF present THEN NextLine(B, HeaderLine(h)) ELSE B
Optional(present, l) == IF present THEN l \o CRLF ELSE <<>>

\* A head to which a header is added, or not, is a head.
LEMMA OptionalHeader ==
    ASSUME NEW B, NEW line, NEW hs, NEW present \in BOOLEAN, NEW h,
           HeadOf(B, line, hs), present => h \in HeaderRecord
    PROVE  HeadOf(WithLine(B, present, h), line, Extended(hs, present, h))
<1>1. CASE present
  <2>1. HeadOf(NextLine(B, HeaderLine(h)), line, Append(hs, h))
    BY <1>1, NextHeader, Zenon
  <2>2. QED
    BY <1>1, <2>1, Zenon DEF WithLine, Extended
<1>2. CASE ~present
  BY <1>2, Zenon DEF WithLine, Extended
<1>3. QED
  BY <1>1, <1>2, Zenon

\* What the client concatenates for an optional header adds its line, or nothing.
LEMMA OptionalLine ==
    ASSUME NEW B \in Seq(Byte), NEW present \in BOOLEAN, NEW h, present => h \in HeaderRecord
    PROVE  (B \o CRLF) \o Optional(present, HeaderLine(h)) = WithLine(B, present, h) \o CRLF
<1>1. CASE present
  <2>1. HeaderLine(h) \in Seq(Byte)
    BY <1>1, HeaderLineValues, LineByteIn DEF HeaderLineIs
  <2>2. (B \o CRLF) \o (HeaderLine(h) \o CRLF) = NextLine(B, HeaderLine(h)) \o CRLF
    BY <2>1, ReservedBytes, LineAdded, Zenon
  <2>3. QED
    BY <1>1, <2>2, Zenon DEF Optional, WithLine
<1>2. CASE ~present
  <2>1. CRLF \in Seq(Byte)
    <3>1. CR \in Byte /\ LF \in Byte
      BY ReservedBytes, Zenon
    <3>2. QED
      BY <3>1 DEF CRLF
  <2>2. B \o CRLF \in Seq(Byte)
    BY <2>1, ConcatProperties
  <2>3. (B \o CRLF) \o <<>> = B \o CRLF
    BY <2>2, ConcatEmptySeq
  <2>4. QED
    BY <1>2, <2>3, Zenon DEF Optional, WithLine
<1>3. QED
  BY <1>1, <1>2, Zenon

-----------------------------------------------------------------------------
(* The headers of a request.                                               *)

\* A header.
Field(name, value) == [name |-> name, value |-> value]

\* The value of the Cookie header (what Cookies sends).
CookieText(c) ==
    FlattenSeq([i \in DOMAIN c |-> (IF i = 1 THEN <<>> ELSE <<";", SP>>) \o
                                   <<c[i][1], "=", c[i][2]>>])

\* The first line of a request.
RequestLine(r) == <<r.method, SP>> \o Target(r) \o Query(r.query) \o <<SP, "HTTP/1.1">>

\* The five headers a request may have.
HostField == Field("Host", <<"h", ":", "1">>)
NameField == Field("X-Username", <<"u">>)
TokenField == Field("Authorization", <<"token">>)
CookieField(r) == Field("Cookie", CookieText(r.cookies))
LengthField(r) == Field("Content-Length", Decimal(Len(r.body)))

\* The head of a request, header by header.
HeadFrom0(r) == NextLine(RequestLine(r), HeaderLine(HostField))
HeadFrom1(r) == WithLine(HeadFrom0(r), r.named, NameField)
HeadFrom2(r) == WithLine(HeadFrom1(r), r.token # "none", TokenField)
HeadFrom3(r) == WithLine(HeadFrom2(r), r.cookies # <<>>, CookieField(r))
Head4(r) == WithLine(HeadFrom3(r), r.body # <<>>, LengthField(r))

\* The headers of a request, one by one.
Fields0 == <<HostField>>
Fields1(r) == Extended(Fields0, r.named, NameField)
Fields2(r) == Extended(Fields1(r), r.token # "none", TokenField)
Fields3(r) == Extended(Fields2(r), r.cookies # <<>>, CookieField(r))
Fields4(r) == Extended(Fields3(r), r.body # <<>>, LengthField(r))

\* The headers that are the same in every request.
LEMMA SimpleFields ==
    HostField \in HeaderRecord /\ NameField \in HeaderRecord /\ TokenField \in HeaderRecord
<1>1. /\ "h" \in Byte /\ "1" \in Byte /\ "u" \in Byte /\ "token" \in Byte
      /\ "Host" \in Byte /\ "X-Username" \in Byte /\ "Authorization" \in Byte
  BY DEF Byte, Hex
<1>2. "h" \in LineByte /\ "1" \in LineByte /\ "u" \in LineByte /\ "token" \in LineByte
  BY <1>1 DEF LineByte, CR, LF
<1>3. "Host" \notin Reserved /\ "X-Username" \notin Reserved /\ "Authorization" \notin Reserved
  BY DEF Reserved, CR, LF, SP
<1>4. "h" \notin Blank /\ "1" \notin Blank /\ "u" \notin Blank /\ "token" \notin Blank
  BY DEF Blank, SP
<1>5. Tight(<<"h", ":", "1">>) /\ Tight(<<"u">>) /\ Tight(<<"token">>)
  BY <1>4 DEF Tight
<1>6. <<"h", ":", "1">> \in Seq(LineByte) /\ <<"u">> \in Seq(LineByte) /\ <<"token">> \in Seq(LineByte)
  <2>1. ":" \in LineByte
    BY LineBytes, Zenon
  <2>2. QED
    BY <1>2, <2>1
<1>7. QED
  BY <1>1, <1>3, <1>5, <1>6 DEF HostField, NameField, TokenField, Field, HeaderRecord

\* The number of the bytes is written without a sign or a blank.
LEMMA DecimalIsValue ==
    ASSUME NEW n \in Nat
    PROVE  Decimal(n) \in Seq(LineByte) /\ Tight(Decimal(n))
<1>1. Decimal(n) \in Seq(Dig) /\ Decimal(n) # <<>>
  BY ReadAsWritten, Zenon DEF IsDecimal
<1>2. ASSUME NEW d \in Dig PROVE d \in LineByte /\ d \notin Blank
  <2>1. d \in {"0", "1", "2", "3", "4", "5", "6", "7", "8", "9"}
    BY DEF Dig, Digit, Digits
  <2>2. d # CR /\ d # LF /\ d # SP /\ d # "\t"
    BY <2>1 DEF CR, LF, SP
  <2>3. d \in Byte
    BY Zenon DEF Byte
  <2>4. QED
    BY <2>2, <2>3, Zenon DEF LineByte, Blank
<1>3. Decimal(n) \in Seq(LineByte)
  BY <1>1, <1>2, SeqMonotonic
<1>4. Decimal(n)[1] \in Dig /\ Decimal(n)[Len(Decimal(n))] \in Dig
  <2>1. 1 \in 1..Len(Decimal(n)) /\ Len(Decimal(n)) \in 1..Len(Decimal(n))
    BY <1>1, EmptySeq, LenProperties
  <2>2. QED
    BY <1>1, <2>1, ElementOfSeq
<1>5. QED
  BY <1>1, <1>2, <1>3, <1>4, Zenon DEF Tight

\* The header with the length of the body.
LEMMA LengthFieldIs ==
    ASSUME NEW r \in Request PROVE LengthField(r) \in HeaderRecord
<1>1. Len(r.body) \in Nat
  BY RequestAssumption, LenProperties
<1>2. Decimal(Len(r.body)) \in Seq(LineByte) /\ Tight(Decimal(Len(r.body)))
  BY <1>1, DecimalIsValue, Zenon
<1>3. "Content-Length" \in Byte /\ "Content-Length" \notin Reserved
  BY DEF Byte, Reserved, CR, LF, SP
<1>4. QED
  BY <1>2, <1>3 DEF LengthField, Field, HeaderRecord

-----------------------------------------------------------------------------
(* The lines of a request.                                                 *)

\* The line of a header, piece by piece.
LEMMA FieldLine ==
    ASSUME NEW name, NEW value
    PROVE  HeaderLine(Field(name, value)) = (<<name>> \o <<":">>) \o (<<SP>> \o value)
BY DEF HeaderLine, Field, Joined

\* The line of a header as the client writes it.
LEMMA OpenLine ==
    ASSUME NEW S, NEW value \in Seq(S), NEW name
    PROVE  HeaderLine(Field(name, value)) = <<name, ":", SP>> \o value
<1> DEFINE T == S \cup {name, ":", SP}
<1>1. value \in Seq(T) /\ <<SP>> \in Seq(T) /\ <<name>> \o <<":">> \in Seq(T)
  BY SeqMonotonic
<1>2. (<<name>> \o <<":">>) \o (<<SP>> \o value) = ((<<name>> \o <<":">>) \o <<SP>>) \o value
  <2>1. Associates(<<name>> \o <<":">>, <<SP>>, value)
    BY <1>1, ConcatAssociates, Zenon
  <2>2. QED
    BY <2>1 DEF Associates
<1>3. (<<name>> \o <<":">>) \o <<SP>> = <<name, ":", SP>>
  <2>1. <<name>> \o <<":">> = <<name, ":">>
    BY Tuple2, Zenon
  <2>2. <<name, ":">> \o <<SP>> = <<name, ":", SP>>
    BY Tuple3, Zenon
  <2>3. QED
    BY <2>1, <2>2, Zenon
<1>4. QED
  BY <1>2, <1>3, FieldLine, Zenon

\* The lines of the headers that are the same in every request.
LEMMA FixedLines ==
    /\ HeaderLine(HostField) = <<"Host", ":", SP, "h", ":", "1">>
    /\ HeaderLine(NameField) = <<"X-Username", ":", SP, "u">>
    /\ HeaderLine(TokenField) = <<"Authorization", ":", SP, "token">>
<1>1. /\ <<"h", ":", "1">> \in Seq({"h", ":", "1"}) /\ <<"u">> \in Seq({"u"})
      /\ <<"token">> \in Seq({"token"})
  OBVIOUS
<1>2. /\ HeaderLine(HostField) = <<"Host", ":", SP>> \o <<"h", ":", "1">>
      /\ HeaderLine(NameField) = <<"X-Username", ":", SP>> \o <<"u">>
      /\ HeaderLine(TokenField) = <<"Authorization", ":", SP>> \o <<"token">>
  BY <1>1, OpenLine, Zenon DEF HostField, NameField, TokenField
<1>3. <<"Host", ":", SP>> \o <<"h", ":", "1">> = <<"Host", ":", SP, "h", ":", "1">>
  BY Tuple6
<1>4. <<"X-Username", ":", SP>> \o <<"u">> = <<"X-Username", ":", SP, "u">>
  BY Tuple4, Zenon
<1>5. <<"Authorization", ":", SP>> \o <<"token">> = <<"Authorization", ":", SP, "token">>
  BY Tuple4, Zenon
<1>6. QED
  BY <1>2, <1>3, <1>4, <1>5, Zenon

\* The four optional lines of a request are the lines of its four optional headers.
LEMMA LinesOfRequest ==
    ASSUME NEW r \in Request, CookieText(r.cookies) \in Seq(LineByte)
    PROVE  /\ Line(r.named, "X-Username", "u") = Optional(r.named, HeaderLine(NameField))
           /\ Line(r.token # "none", "Authorization", "token")
                = Optional(r.token # "none", HeaderLine(TokenField))
           /\ Cookies(r.cookies) = Optional(r.cookies # <<>>, HeaderLine(CookieField(r)))
           /\ Body(r.body) = Optional(r.body # <<>>, HeaderLine(LengthField(r)))
<1>1. Line(r.named, "X-Username", "u") = Optional(r.named, HeaderLine(NameField))
  BY FixedLines, Zenon DEF Line, Optional
<1>2. Line(r.token # "none", "Authorization", "token") = Optional(r.token # "none", HeaderLine(TokenField))
  BY FixedLines, Zenon DEF Line, Optional
<1>3. Cookies(r.cookies) = Optional(r.cookies # <<>>, HeaderLine(CookieField(r)))
  <2>1. HeaderLine(CookieField(r)) = <<"Cookie", ":", SP>> \o CookieText(r.cookies)
    BY OpenLine, Zenon DEF CookieField
  <2>2. Cookies(r.cookies) = IF r.cookies = <<>> THEN <<>>
                             ELSE (<<"Cookie", ":", SP>> \o CookieText(r.cookies)) \o CRLF
    BY Zenon DEF Cookies, CookieText
  <2>3. QED
    BY <2>1, <2>2, Zenon DEF Optional
<1>4. Body(r.body) = Optional(r.body # <<>>, HeaderLine(LengthField(r)))
  <2>1. Decimal(Len(r.body)) \in Seq(LineByte)
    BY RequestAssumption, LenProperties, DecimalIsValue
  <2>2. HeaderLine(LengthField(r)) = <<"Content-Length", ":", SP>> \o Decimal(Len(r.body))
    BY <2>1, OpenLine, Zenon DEF LengthField
  <2>3. QED
    BY <2>2, Zenon DEF Optional, Body
<1>5. QED
  BY <1>1, <1>2, <1>3, <1>4, Zenon

\* What a request is made of: a head, an empty line and the body.
LEMMA HeadAndBody ==
    ASSUME NEW r \in Request, RequestLine(r) \in Seq(LineByte),
           CookieText(r.cookies) \in Seq(LineByte),
           r.cookies # <<>> => CookieField(r) \in HeaderRecord
    PROVE  /\ HeadOf(Head4(r), RequestLine(r), Fields4(r))
           /\ Serialize(r) = ((Head4(r) \o CRLF) \o CRLF) \o r.body
<1> DEFINE L == RequestLine(r)
           N == r.named
           T == r.token # "none"
           C == r.cookies # <<>>
           D == r.body # <<>>
<1>0. N \in BOOLEAN /\ T \in BOOLEAN /\ C \in BOOLEAN /\ D \in BOOLEAN
  BY RequestAssumption
<1>1. HeadOf(L, L, <<>>)
  BY FirstLine, Zenon
<1>2. HeadOf(HeadFrom0(r), L, Fields0)
  <2>1. HeadOf(NextLine(L, HeaderLine(HostField)), L, Append(<<>>, HostField))
    BY <1>1, SimpleFields, NextHeader, Zenon
  <2>2. Append(<<>>, HostField) = <<HostField>>
    OBVIOUS
  <2>3. QED
    BY <2>1, <2>2, Zenon DEF HeadFrom0, Fields0
<1>3. HeadOf(HeadFrom1(r), L, Fields1(r))
  BY <1>0, <1>2, SimpleFields, OptionalHeader, Zenon DEF HeadFrom1, Fields1
<1>4. HeadOf(HeadFrom2(r), L, Fields2(r))
  BY <1>0, <1>3, SimpleFields, OptionalHeader, Zenon DEF HeadFrom2, Fields2
<1>5. HeadOf(HeadFrom3(r), L, Fields3(r))
  BY <1>0, <1>4, OptionalHeader, Zenon DEF HeadFrom3, Fields3
<1>6. HeadOf(Head4(r), L, Fields4(r))
  BY <1>0, <1>5, LengthFieldIs, OptionalHeader, Zenon DEF Head4, Fields4
<1>7. /\ HeadFrom0(r) \in Seq(Byte) /\ HeadFrom1(r) \in Seq(Byte)
      /\ HeadFrom2(r) \in Seq(Byte) /\ HeadFrom3(r) \in Seq(Byte)
  BY <1>2, <1>3, <1>4, <1>5, Zenon DEF HeadOf
<1>8. /\ (HeadFrom0(r) \o CRLF) \o Optional(N, HeaderLine(NameField)) = HeadFrom1(r) \o CRLF
      /\ (HeadFrom1(r) \o CRLF) \o Optional(T, HeaderLine(TokenField)) = HeadFrom2(r) \o CRLF
      /\ (HeadFrom2(r) \o CRLF) \o Optional(C, HeaderLine(CookieField(r))) = HeadFrom3(r) \o CRLF
      /\ (HeadFrom3(r) \o CRLF) \o Optional(D, HeaderLine(LengthField(r))) = Head4(r) \o CRLF
  <2>1. (HeadFrom0(r) \o CRLF) \o Optional(N, HeaderLine(NameField)) = HeadFrom1(r) \o CRLF
    BY <1>0, <1>7, SimpleFields, OptionalLine, Zenon DEF HeadFrom1
  <2>2. (HeadFrom1(r) \o CRLF) \o Optional(T, HeaderLine(TokenField)) = HeadFrom2(r) \o CRLF
    BY <1>0, <1>7, SimpleFields, OptionalLine, Zenon DEF HeadFrom2
  <2>3. (HeadFrom2(r) \o CRLF) \o Optional(C, HeaderLine(CookieField(r))) = HeadFrom3(r) \o CRLF
    BY <1>0, <1>7, OptionalLine, Zenon DEF HeadFrom3
  <2>4. (HeadFrom3(r) \o CRLF) \o Optional(D, HeaderLine(LengthField(r))) = Head4(r) \o CRLF
    BY <1>0, <1>7, LengthFieldIs, OptionalLine, Zenon DEF Head4
  <2>5. QED
    BY <2>1, <2>2, <2>3, <2>4, Zenon
<1>9. (L \o CRLF) \o HeaderLine(HostField) = HeadFrom0(r)
  <2>1. L \in Seq(Byte)
    BY <1>1, Zenon DEF HeadOf
  <2>2. HeaderLine(HostField) \in Seq(Byte)
    BY SimpleFields, HeaderLineValues, LineByteIn DEF HeaderLineIs
  <2>3. QED
    BY <2>1, <2>2, ReservedBytes, LineEnd, Zenon DEF HeadFrom0
<1> DEFINE K == r.body
<1>10. Serialize(r) =
         (((((((((<<r.method, SP>> \o Target(r)) \o Query(r.query)) \o <<SP, "HTTP/1.1">>) \o CRLF) \o
          <<"Host", ":", SP, "h", ":", "1">>) \o CRLF) \o Line(N, "X-Username", "u")) \o
          Line(T, "Authorization", "token")) \o Cookies(r.cookies)) \o Body(K) \o CRLF \o K
  BY Zenon DEF Serialize
<1>11. L = ((<<r.method, SP>> \o Target(r)) \o Query(r.query)) \o <<SP, "HTTP/1.1">>
  BY Zenon DEF RequestLine
<1>12. /\ Line(N, "X-Username", "u") = Optional(N, HeaderLine(NameField))
       /\ Line(T, "Authorization", "token") = Optional(T, HeaderLine(TokenField))
       /\ Cookies(r.cookies) = Optional(C, HeaderLine(CookieField(r)))
       /\ Body(K) = Optional(D, HeaderLine(LengthField(r)))
       /\ HeaderLine(HostField) = <<"Host", ":", SP, "h", ":", "1">>
  BY LinesOfRequest, FixedLines, Zenon
<1>13. Serialize(r) = ((Head4(r) \o CRLF) \o CRLF) \o K
  BY <1>8, <1>9, <1>10, <1>11, <1>12, Zenon
<1>14. QED
  BY <1>6, <1>13, Zenon

-----------------------------------------------------------------------------
(* What the parser makes of the headers.                                   *)

\* What the parser makes of the headers: their names and values.
Pairs(hs) == [i \in 1..Len(hs) |-> [key |-> <<hs[i].name>>, value |-> hs[i].value]]

\* The lines behind the first one.
LEMMA TailValues ==
    ASSUME NEW S, NEW s \in Seq(S), s # <<>>
    PROVE  /\ Len(s) - 1 \in Nat
           /\ DOMAIN Tail(s) = 1..Len(s) - 1
           /\ \A i \in 1..Len(s) - 1 : Tail(s)[i] = s[i + 1]
<1>1. Tail(s) \in Seq(S) /\ Len(Tail(s)) = Len(s) - 1 /\ Len(s) - 1 \in Nat
  BY EmptySeq, LenProperties, HeadTailProperties
<1>2. DOMAIN Tail(s) = 1..Len(s) - 1
  BY <1>1, LenProperties
<1>3. \A i \in 1..Len(s) - 1 : Tail(s)[i] = s[i + 1]
  BY HeadTailProperties
<1>4. QED
  BY <1>1, <1>2, <1>3

\* The line of a header is cut behind the name.
LEMMA HeaderCut ==
    ASSUME NEW h \in HeaderRecord
    PROVE  /\ Find(HeaderLine(h), ":") # 0
           /\ Before(HeaderLine(h), Find(HeaderLine(h), ":")) = <<h.name>>
           /\ From(HeaderLine(h), Find(HeaderLine(h), ":") + 1) = <<SP>> \o h.value
           /\ Trim(<<h.name>>) = <<h.name>>
           /\ Trim(<<SP>> \o h.value) = h.value
<1> DEFINE a == <<h.name>>
           b == <<SP>> \o h.value
<1>1. a \in Seq(LineByte \ {":"}) /\ b \in Seq(LineByte) /\ Tight(a) /\ Tight(h.value)
  BY HeaderLineValues, Zenon DEF HeaderLineIs
<1>2. a \in Seq(LineByte)
  BY <1>1, SeqMonotonic
<1>3. h.value \in Seq(LineByte)
  BY DEF HeaderRecord
<1>4. Trim(b) = h.value
  BY <1>1, <1>3, LineBytes, TrimBlank, Zenon
<1> HIDE DEF a, b
<1>5. Trim(a) = a
  BY <1>1, <1>2, TrimTight, Zenon
<1>6. Find(Joined(a, ":", b), ":") = Len(a) + 1
  BY <1>1, LineBytes, FindJoined, Zenon
<1>7. Before(Joined(a, ":", b), Len(a) + 1) = a
  BY <1>1, <1>2, LineBytes, BeforeJoined, Zenon
<1>8. From(Joined(a, ":", b), Len(a) + 1 + 1) = b
  BY <1>1, <1>2, LineBytes, FromJoined, Zenon
<1>9. Len(a) + 1 # 0
  BY <1>2, LenProperties
<1>10. HeaderLine(h) = Joined(a, ":", b)
  BY Zenon DEF HeaderLine, a, b
<1>11. QED
  BY <1>4, <1>5, <1>6, <1>7, <1>8, <1>9, <1>10, Zenon DEF a, b

\* The first line of a head, and the lines of its headers.
LEMMA LinesRead ==
    ASSUME NEW B, NEW line, NEW hs, HeadOf(B, line, hs)
    PROVE  /\ WithoutCR(Split(B, LF)[1]) = line
           /\ DOMAIN Tail(Split(B, LF)) = 1..Len(hs)
           /\ \A i \in 1..Len(hs) : WithoutCR(Tail(Split(B, LF))[i]) = HeaderLine(hs[i])
<1> DEFINE L == HeadLines(line, hs)
           P == Split(B, LF)
<1>1. /\ B \in Seq(Byte) /\ hs \in Seq(HeaderRecord)
      /\ L \in Seq(Seq(LineByte)) /\ Reads(B, L)
  BY Zenon DEF HeadOf
<1>2. L \in Seq(Seq(Byte \ {CR}))
  <2>1. Seq(LineByte) \subseteq Seq(Byte \ {CR})
    BY SeqMonotonic DEF LineByte
  <2>2. QED
    BY <1>1, <2>1, SeqMonotonic
<1>3. /\ DOMAIN L = 1..Len(hs) + 1
      /\ \A i \in 1..Len(hs) + 1 : L[i] = IF i = 1 THEN line ELSE HeaderLine(hs[i - 1])
  BY Zenon DEF HeadLines
<1> HIDE DEF L
<1>4. Len(hs) \in Nat /\ Len(L) = Len(hs) + 1
  BY <1>1, <1>3, LenProperties
<1>5. \A i \in 1..Len(L) : WithoutCR(P[i]) = L[i]
  BY <1>1, <1>2, ReservedBytes, LineRead, Zenon
<1>6. P \in Seq(Seq(Byte)) /\ P # <<>>
  <2>1. P \in Parts(Byte)
    BY <1>1, SplitTyped, Zenon
  <2>2. QED
    BY <2>1 DEF Parts
<1>7. Len(P) = Len(hs) + 1
  <2>1. Len(P) = Len(L)
    BY <1>1, Zenon DEF Reads
  <2>2. QED
    BY <1>4, <2>1
<1> HIDE DEF P
<1>8. DOMAIN Tail(P) = 1..Len(hs) /\ \A i \in 1..Len(hs) : Tail(P)[i] = P[i + 1]
  <2>1. Len(P) - 1 = Len(hs)
    BY <1>4, <1>7
  <2>2. QED
    BY <1>6, <2>1, TailValues, Zenon
<1>9. /\ 1 \in 1..Len(L) /\ 1 \in 1..Len(hs) + 1
      /\ \A i \in 1..Len(hs) : /\ i + 1 \in 1..Len(L) /\ i + 1 \in 1..Len(hs) + 1
                               /\ i + 1 # 1 /\ (i + 1) - 1 = i
  BY <1>4
<1>10. WithoutCR(P[1]) = line
  BY <1>3, <1>5, <1>9, Zenon
<1>11. ASSUME NEW i \in 1..Len(hs) PROVE WithoutCR(Tail(P)[i]) = HeaderLine(hs[i])
  <2>1. L[i + 1] = HeaderLine(hs[(i + 1) - 1])
    BY <1>3, <1>9, Zenon
  <2>2. QED
    BY <1>5, <1>8, <1>9, <2>1, Zenon
<1>12. QED
  BY <1>8, <1>10, <1>11, Zenon DEF P

\* Lines cut at their first separator.
CutAll(lines, sep, n) ==
    [i \in 1..n |-> [key |-> Before(lines[i], Find(lines[i], sep)),
                     value |-> From(lines[i], Find(lines[i], sep) + 1)]]

\* Every line that has the separator is cut there.
LEMMA CutOfAll ==
    ASSUME NEW n \in Nat, NEW lines, NEW sep, DOMAIN lines = 1..n,
           \A i \in 1..n : Find(lines[i], sep) # 0
    PROVE  CutAt(lines, sep) = CutAll(lines, sep, n)
<1>1. {j \in DOMAIN lines : Find(lines[j], sep) # 0} = 1..n
  BY Zenon
<1>2. QED
  BY <1>1, Zenon DEF CutAt, CutAll

\* The parser reads, behind the first line, exactly the headers the client sent,
\* each name with its value and without the blank and the carriage return.
THEOREM HeadersRead ==
    ASSUME NEW B, NEW line, NEW hs, HeadOf(B, line, hs)
    PROVE  ParseHeaders(Tail(Split(B, LF))) = Table(Pairs(hs))
<1> DEFINE n == Len(hs)
           T == Tail(Split(B, LF))
           C == [i \in DOMAIN T |-> WithoutCR(T[i])]
           D == CutAt(C, ":")
<1>1. hs \in Seq(HeaderRecord) /\ n \in Nat
  <2>1. hs \in Seq(HeaderRecord)
    BY Zenon DEF HeadOf
  <2>2. QED
    BY <2>1, LenProperties
<1>2. \A i \in 1..n : hs[i] \in HeaderRecord
  BY <1>1, ElementOfSeq
<1>3. DOMAIN T = 1..n /\ \A i \in 1..n : WithoutCR(T[i]) = HeaderLine(hs[i])
  BY LinesRead, Zenon
<1> HIDE DEF T, n
<1>4. DOMAIN C = 1..n /\ \A i \in 1..n : C[i] = HeaderLine(hs[i])
  BY <1>3, Zenon
<1> HIDE DEF C
<1>5. \A i \in 1..n : Find(C[i], ":") # 0
  <2> SUFFICES ASSUME NEW i \in 1..n PROVE Find(C[i], ":") # 0
    BY Zenon
  <2>1. Find(HeaderLine(hs[i]), ":") # 0
    BY <1>2, HeaderCut, Zenon
  <2>2. QED
    BY <1>4, <2>1, Zenon
<1>6. D = [i \in 1..n |-> [key |-> Before(C[i], Find(C[i], ":")),
                           value |-> From(C[i], Find(C[i], ":") + 1)]]
  <2>1. D = CutAll(C, ":", n)
    BY <1>1, <1>4, <1>5, CutOfAll, Zenon
  <2>2. QED
    BY <2>1, Zenon DEF CutAll
<1> HIDE DEF D
<1>7. DOMAIN D = 1..n
  BY <1>6, Zenon
<1>8. ASSUME NEW i \in 1..n
      PROVE  [key |-> Trim(D[i].key), value |-> Trim(D[i].value)] =
             [key |-> <<hs[i].name>>, value |-> hs[i].value]
  <2>1. D[i] = [key |-> Before(C[i], Find(C[i], ":")), value |-> From(C[i], Find(C[i], ":") + 1)]
    BY <1>6, Zenon
  <2>2. /\ D[i].key = Before(HeaderLine(hs[i]), Find(HeaderLine(hs[i]), ":"))
        /\ D[i].value = From(HeaderLine(hs[i]), Find(HeaderLine(hs[i]), ":") + 1)
    <3>1. D[i].key = Before(C[i], Find(C[i], ":")) /\ D[i].value = From(C[i], Find(C[i], ":") + 1)
      BY <2>1
    <3>2. QED
      BY <1>4, <3>1, Zenon
  <2>3. /\ Before(HeaderLine(hs[i]), Find(HeaderLine(hs[i]), ":")) = <<hs[i].name>>
        /\ From(HeaderLine(hs[i]), Find(HeaderLine(hs[i]), ":") + 1) = <<SP>> \o hs[i].value
        /\ Trim(<<hs[i].name>>) = <<hs[i].name>>
        /\ Trim(<<SP>> \o hs[i].value) = hs[i].value
    BY <1>2, HeaderCut, Zenon
  <2>4. Trim(D[i].key) = <<hs[i].name>> /\ Trim(D[i].value) = hs[i].value
    BY <2>2, <2>3, Zenon
  <2>5. QED
    BY <2>4, Zenon
<1>9. Trimmed(D) = [i \in 1..n |-> [key |-> Trim(D[i].key), value |-> Trim(D[i].value)]]
  BY <1>7, Zenon DEF Trimmed
<1>10. Trimmed(D) = Pairs(hs)
  BY <1>8, <1>9, Zenon DEF Pairs, n
<1>11. ParseHeaders(T) = Table(Trimmed(D))
  BY Zenon DEF ParseHeaders, D, C
<1>12. QED
  BY <1>10, <1>11, Zenon DEF T

-----------------------------------------------------------------------------
(* Tables.                                                                 *)

\* The only pair with its key.
OnlyAt(pairs, i) ==
    /\ i \in DOMAIN pairs
    /\ \A j \in DOMAIN pairs : pairs[j].key = pairs[i].key => j = i

\* A key that occurs once has its value in the table.
LEMMA TableHas ==
    ASSUME NEW pairs, NEW i \in Nat, OnlyAt(pairs, i)
    PROVE  /\ pairs[i].key \in DOMAIN Table(pairs)
           /\ Table(pairs)[pairs[i].key] = pairs[i].value
<1> DEFINE k == pairs[i].key
           Is(x) == pairs[x].key = k /\ \A j \in DOMAIN pairs : pairs[j].key = k => j <= x
<1>1. i \in DOMAIN pairs /\ \A j \in DOMAIN pairs : pairs[j].key = k => j = i
  BY Zenon DEF OnlyAt
<1>2. i <= i
  OBVIOUS
<1>3. pairs[i].key = k /\ \A j \in DOMAIN pairs : pairs[j].key = k => j <= i
  BY <1>1, <1>2, Zenon
<1>4. LastWith(pairs, k) = i
  <2>1. /\ LastWith(pairs, k) \in DOMAIN pairs
        /\ pairs[LastWith(pairs, k)].key = k
    BY <1>1, <1>3, Zenon DEF LastWith
  <2>2. QED
    BY <1>1, <2>1, Zenon
<1>5. k \in {pairs[j].key : j \in DOMAIN pairs}
  BY <1>1, Zenon
<1>6. QED
  BY <1>4, <1>5, Zenon DEF Table

\* The keys of the table are the keys of the pairs.
LEMMA TableDomain == ASSUME NEW pairs PROVE DOMAIN Table(pairs) = {pairs[j].key : j \in DOMAIN pairs}
BY Zenon DEF Table

-----------------------------------------------------------------------------
(* The headers the parser looks for.                                       *)

\* The header is there once, with this value.
Carries(hs, name, value) ==
    \E i \in 1..Len(hs) : /\ hs[i].name = name /\ hs[i].value = value
                          /\ \A j \in 1..Len(hs) : hs[j].name = name => j = i

\* The header is not there.
Lacks(hs, name) == \A j \in 1..Len(hs) : hs[j].name # name

\* The header is there if it is present, and with this value.
FieldIs(hs, name, present, value) ==
    IF present THEN Carries(hs, name, value) ELSE Lacks(hs, name)

\* Another header neither hides a header nor adds it.
LEMMA CarriedOn ==
    ASSUME NEW S, NEW hs \in Seq(S), NEW h \in S, NEW name, NEW value, h.name # name
    PROVE  /\ Lacks(hs, name) => Lacks(Append(hs, h), name)
           /\ Carries(hs, name, value) => Carries(Append(hs, h), name, value)
<1> DEFINE ks == Append(hs, h)
<1>1. /\ Len(hs) \in Nat /\ Len(ks) = Len(hs) + 1 /\ ks[Len(hs) + 1] = h
      /\ \A i \in 1..Len(hs) : ks[i] = hs[i]
  BY AppendProperties, LenProperties
<1> HIDE DEF ks
<1>2. /\ \A i \in 1..Len(ks) : i \in 1..Len(hs) \/ i = Len(hs) + 1
      /\ \A i \in 1..Len(hs) : i \in 1..Len(ks)
  BY <1>1
<1>3. \A i \in 1..Len(ks) : ks[i].name = name => i \in 1..Len(hs) /\ hs[i].name = name
  BY <1>1, <1>2, Zenon
<1>4. Lacks(hs, name) => Lacks(ks, name)
  BY <1>3, Zenon DEF Lacks
<1>5. Carries(hs, name, value) => Carries(ks, name, value)
  <2> SUFFICES ASSUME Carries(hs, name, value) PROVE Carries(ks, name, value)
    BY Zenon
  <2>1. PICK i \in 1..Len(hs) : /\ hs[i].name = name /\ hs[i].value = value
                                /\ \A j \in 1..Len(hs) : hs[j].name = name => j = i
    BY Zenon DEF Carries
  <2>2. i \in 1..Len(ks) /\ ks[i].name = name /\ ks[i].value = value
    BY <1>1, <1>2, <2>1, Zenon
  <2>3. \A j \in 1..Len(ks) : ks[j].name = name => j = i
    BY <1>3, <2>1, Zenon
  <2>4. QED
    BY <2>2, <2>3, Zenon DEF Carries
<1>6. QED
  BY <1>4, <1>5, Zenon DEF ks

\* A header that was not there is there once it is added.
LEMMA CarriedFrom ==
    ASSUME NEW S, NEW hs \in Seq(S), NEW h \in S, Lacks(hs, h.name)
    PROVE  Carries(Append(hs, h), h.name, h.value)
<1> DEFINE ks == Append(hs, h)
<1>1. /\ Len(hs) \in Nat /\ Len(ks) = Len(hs) + 1 /\ ks[Len(hs) + 1] = h
      /\ \A i \in 1..Len(hs) : ks[i] = hs[i]
  BY AppendProperties, LenProperties
<1> HIDE DEF ks
<1>2. /\ \A i \in 1..Len(ks) : i \in 1..Len(hs) \/ i = Len(hs) + 1
      /\ Len(hs) + 1 \in 1..Len(ks)
  BY <1>1
<1>3. \A j \in 1..Len(ks) : ks[j].name = h.name => j = Len(hs) + 1
  BY <1>1, <1>2, Zenon DEF Lacks
<1>4. Carries(ks, h.name, h.value)
  BY <1>1, <1>2, <1>3, Zenon DEF Carries
<1>5. QED
  BY <1>4, Zenon DEF ks

\* What the headers carry is what the table says.
LEMMA HeaderTable ==
    ASSUME NEW hs, Len(hs) \in Nat, NEW name, NEW value
    PROVE  /\ Lacks(hs, name) => <<name>> \notin DOMAIN Table(Pairs(hs))
           /\ Carries(hs, name, value) => /\ <<name>> \in DOMAIN Table(Pairs(hs))
                                          /\ Table(Pairs(hs))[<<name>>] = value
<1> DEFINE ps == Pairs(hs)
<1>1. /\ DOMAIN ps = 1..Len(hs)
      /\ \A i \in 1..Len(hs) : ps[i] = [key |-> <<hs[i].name>>, value |-> hs[i].value]
  BY Zenon DEF Pairs
<1> HIDE DEF ps
<1>2. \A i \in 1..Len(hs) : ps[i].key = <<hs[i].name>> /\ ps[i].value = hs[i].value
  BY <1>1
<1>3. \A j \in 1..Len(hs) : ps[j].key = <<name>> => hs[j].name = name
  BY <1>2
<1>4. Lacks(hs, name) => <<name>> \notin DOMAIN Table(ps)
  <2>1. DOMAIN Table(ps) = {ps[j].key : j \in DOMAIN ps}
    BY TableDomain, Zenon
  <2>2. QED
    BY <1>1, <1>3, <2>1, Zenon DEF Lacks
<1>5. ASSUME Carries(hs, name, value)
      PROVE  <<name>> \in DOMAIN Table(ps) /\ Table(ps)[<<name>>] = value
  <2>1. PICK i \in 1..Len(hs) : /\ hs[i].name = name /\ hs[i].value = value
                                /\ \A j \in 1..Len(hs) : hs[j].name = name => j = i
    BY <1>5, Zenon DEF Carries
  <2>2. ps[i].key = <<name>> /\ ps[i].value = value /\ i \in DOMAIN ps
    BY <1>1, <1>2, <2>1, Zenon
  <2>3. \A j \in DOMAIN ps : ps[j].key = ps[i].key => j = i
    BY <1>1, <1>3, <2>1, <2>2, Zenon
  <2>4. OnlyAt(ps, i)
    BY <2>2, <2>3, Zenon DEF OnlyAt
  <2>5. i \in Nat
    BY <2>1
  <2>6. ps[i].key \in DOMAIN Table(ps) /\ Table(ps)[ps[i].key] = ps[i].value
    BY <2>4, <2>5, TableHas, Zenon
  <2>7. QED
    BY <2>2, <2>6, Zenon
<1>6. QED
  BY <1>4, <1>5, Zenon DEF ps

\* An optional header with another name changes nothing for a name.
LEMMA OtherField ==
    ASSUME NEW S, NEW hs \in Seq(S), NEW present \in BOOLEAN, NEW h, NEW name, NEW value,
           NEW p \in BOOLEAN, present => h \in S, h.name # name, FieldIs(hs, name, p, value)
    PROVE  FieldIs(Extended(hs, present, h), name, p, value)
<1>1. CASE present
  <2>1. /\ Lacks(hs, name) => Lacks(Append(hs, h), name)
        /\ Carries(hs, name, value) => Carries(Append(hs, h), name, value)
    BY <1>1, CarriedOn, Zenon
  <2>2. QED
    BY <1>1, <2>1, Zenon DEF FieldIs, Extended
<1>2. CASE ~present
  BY <1>2, Zenon DEF Extended
<1>3. QED
  BY <1>1, <1>2, Zenon

\* An optional header is there if it is present.
LEMMA OwnField ==
    ASSUME NEW S, NEW hs \in Seq(S), NEW present \in BOOLEAN, NEW h, present => h \in S,
           Lacks(hs, h.name)
    PROVE  FieldIs(Extended(hs, present, h), h.name, present, h.value)
<1>1. CASE present
  <2>1. Carries(Append(hs, h), h.name, h.value)
    BY <1>1, CarriedFrom, Zenon
  <2>2. QED
    BY <1>1, <2>1, Zenon DEF FieldIs, Extended
<1>2. CASE ~present
  BY <1>2, Zenon DEF FieldIs, Extended
<1>3. QED
  BY <1>1, <1>2, Zenon

\* Headers with an optional one more are headers.
LEMMA ExtendedTyped ==
    ASSUME NEW S, NEW hs \in Seq(S), NEW present \in BOOLEAN, NEW h, present => h \in S
    PROVE  Extended(hs, present, h) \in Seq(S)
BY AppendProperties DEF Extended

\* The five headers have five names.
LEMMA FieldNames ==
    /\ HostField.name = "Host" /\ NameField.name = "X-Username"
    /\ TokenField.name = "Authorization"
    /\ \A r : /\ CookieField(r).name = "Cookie" /\ CookieField(r).value = CookieText(r.cookies)
              /\ LengthField(r).name = "Content-Length"
              /\ LengthField(r).value = Decimal(Len(r.body))
<1>1. \A a, b : Field(a, b).name = a /\ Field(a, b).value = b
  BY DEF Field
<1>2. QED
  BY <1>1, Zenon DEF HostField, NameField, TokenField, CookieField, LengthField

\* Neither header is among those before it.
LEMMA NotYet ==
    ASSUME NEW name, name # "Host", name # "X-Username", name # "Authorization",
           NEW r \in Request
    PROVE  Lacks(Fields2(r), name) /\ Fields2(r) \in Seq(HeaderRecord)
<1> DEFINE N == r.named
           T == r.token # "none"
<1>0. N \in BOOLEAN /\ T \in BOOLEAN
  BY RequestAssumption
<1>1. Fields0 \in Seq(HeaderRecord)
  BY SimpleFields, SeqOfOne, Zenon DEF Fields0
<1>2. Lacks(Fields0, name)
  <2>1. Len(Fields0) = 1 /\ Fields0[1] = HostField
    BY DEF Fields0
  <2>2. \A j \in 1..1 : j = 1
    OBVIOUS
  <2>3. QED
    BY <2>1, <2>2, FieldNames, Zenon DEF Lacks
<1>3. Fields1(r) \in Seq(HeaderRecord)
  BY <1>0, <1>1, SimpleFields, ExtendedTyped, Zenon DEF Fields1
<1>4. Fields2(r) \in Seq(HeaderRecord)
  BY <1>0, <1>3, SimpleFields, ExtendedTyped, Zenon DEF Fields2
<1>5. Lacks(Fields1(r), name)
  <2>1. FieldIs(Fields0, name, FALSE, 0)
    BY <1>2, Zenon DEF FieldIs
  <2>2. NameField.name # name
    BY FieldNames, Zenon
  <2>3. FieldIs(Fields1(r), name, FALSE, 0)
    BY <1>0, <1>1, <2>1, <2>2, SimpleFields, OtherField, Zenon DEF Fields1
  <2>4. QED
    BY <2>3, Zenon DEF FieldIs
<1>6. Lacks(Fields2(r), name)
  <2>1. FieldIs(Fields1(r), name, FALSE, 0)
    BY <1>5, Zenon DEF FieldIs
  <2>2. TokenField.name # name
    BY FieldNames, Zenon
  <2>3. FieldIs(Fields2(r), name, FALSE, 0)
    BY <1>0, <1>3, <2>1, <2>2, SimpleFields, OtherField, Zenon DEF Fields2
  <2>4. QED
    BY <2>3, Zenon DEF FieldIs
<1>7. QED
  BY <1>4, <1>6

\* Cookie and Content-Length are among the headers exactly when there are cookies
\* and a body, with their text and its length.
LEMMA FieldsOfRequest ==
    ASSUME NEW r \in Request, r.cookies # <<>> => CookieField(r) \in HeaderRecord
    PROVE  /\ FieldIs(Fields4(r), "Cookie", r.cookies # <<>>, CookieText(r.cookies))
           /\ FieldIs(Fields4(r), "Content-Length", r.body # <<>>, Decimal(Len(r.body)))
           /\ Len(Fields4(r)) \in Nat
<1> DEFINE C == r.cookies # <<>>
           D == r.body # <<>>
           cookie == CookieField(r)
           length == LengthField(r)
<1>0. C \in BOOLEAN /\ D \in BOOLEAN
  OBVIOUS
<1>1. /\ cookie.name = "Cookie" /\ cookie.value = CookieText(r.cookies)
      /\ length.name = "Content-Length" /\ length.value = Decimal(Len(r.body))
  BY FieldNames, Zenon
<1>2. length \in HeaderRecord
  BY LengthFieldIs, Zenon
<1> HIDE DEF cookie, length
<1>3. /\ Lacks(Fields2(r), "Cookie") /\ Lacks(Fields2(r), "Content-Length")
      /\ Fields2(r) \in Seq(HeaderRecord)
  <2>1. "Cookie" # "Host" /\ "Cookie" # "X-Username" /\ "Cookie" # "Authorization"
    OBVIOUS
  <2>2. /\ "Content-Length" # "Host" /\ "Content-Length" # "X-Username"
        /\ "Content-Length" # "Authorization"
    OBVIOUS
  <2>3. QED
    BY <2>1, <2>2, NotYet, Zenon
<1>4. "Cookie" # "Content-Length"
  OBVIOUS
<1>5. C => cookie \in HeaderRecord
  BY Zenon DEF cookie
<1>6. Fields3(r) = Extended(Fields2(r), C, cookie) /\ Fields4(r) = Extended(Fields3(r), D, length)
  BY Zenon DEF Fields3, Fields4, cookie, length
<1>7. Fields3(r) \in Seq(HeaderRecord)
  BY <1>0, <1>3, <1>5, <1>6, ExtendedTyped, Zenon
<1>8. Fields4(r) \in Seq(HeaderRecord)
  BY <1>0, <1>2, <1>6, <1>7, ExtendedTyped, Zenon
<1> HIDE DEF C, D
<1>9. FieldIs(Fields3(r), "Cookie", C, CookieText(r.cookies))
  <2>1. Lacks(Fields2(r), cookie.name)
    BY <1>1, <1>3, Zenon
  <2>2. FieldIs(Extended(Fields2(r), C, cookie), cookie.name, C, cookie.value)
    BY <1>0, <1>3, <1>5, <2>1, OwnField, Zenon
  <2>3. QED
    BY <1>1, <1>6, <2>2, Zenon
<1>10. FieldIs(Fields4(r), "Cookie", C, CookieText(r.cookies))
  <2>1. length.name # "Cookie"
    BY <1>1, <1>4, Zenon
  <2>2. FieldIs(Extended(Fields3(r), D, length), "Cookie", C, CookieText(r.cookies))
    BY <1>0, <1>2, <1>7, <1>9, <2>1, OtherField, Zenon
  <2>3. QED
    BY <1>6, <2>2, Zenon
<1>11. Lacks(Fields3(r), "Content-Length")
  <2>1. FieldIs(Fields2(r), "Content-Length", FALSE, 0)
    BY <1>3, Zenon DEF FieldIs
  <2>2. cookie.name # "Content-Length"
    BY <1>1, <1>4, Zenon
  <2>3. FieldIs(Extended(Fields2(r), C, cookie), "Content-Length", FALSE, 0)
    BY <1>0, <1>3, <1>5, <2>1, <2>2, OtherField, Zenon
  <2>4. QED
    BY <1>6, <2>3, Zenon DEF FieldIs
<1>12. FieldIs(Fields4(r), "Content-Length", D, Decimal(Len(r.body)))
  <2>1. Lacks(Fields3(r), length.name)
    BY <1>1, <1>11, Zenon
  <2>2. FieldIs(Extended(Fields3(r), D, length), length.name, D, length.value)
    BY <1>0, <1>2, <1>7, <2>1, OwnField, Zenon
  <2>3. QED
    BY <1>1, <1>6, <2>2, Zenon
<1>13. QED
  BY <1>8, <1>10, <1>12, LenProperties, Zenon DEF C, D

-----------------------------------------------------------------------------
(* Cookies.                                                                *)

\* A function on 1..n is a sequence.
LEMMA FunctionIsSeq ==
    ASSUME NEW S, NEW n \in Nat, NEW f \in [1..n -> S] PROVE f \in Seq(S)
OBVIOUS

\* Two elements before a sequence, one after the other.
LEMMA RegroupedFirst ==
    ASSUME NEW S, NEW z \in Seq(S), NEW a \in S, NEW b \in S
    PROVE  <<a, b>> \o z = <<a>> \o (<<b>> \o z)
<1>1. <<a>> \in Seq(S) /\ <<b>> \in Seq(S)
  BY SeqOfOne, Zenon
<1>2. (<<a>> \o <<b>>) \o z = <<a>> \o (<<b>> \o z)
  <2>1. Associates(<<a>>, <<b>>, z)
    BY <1>1, ConcatAssociates, Zenon
  <2>2. QED
    BY <2>1 DEF Associates
<1>3. <<a>> \o <<b>> = <<a, b>>
  BY Tuple2, Zenon
<1>4. QED
  BY <1>2, <1>3, Zenon

\* A separator before the second sequence joins the two.
LEMMA RegroupedLast ==
    ASSUME NEW S, NEW t \in Seq(S), NEW l \in Seq(S), NEW a \in S
    PROVE  t \o (<<a>> \o l) = Joined(t, a, l)
<1>1. <<a>> \in Seq(S)
  BY SeqOfOne, Zenon
<1>2. (t \o <<a>>) \o l = t \o (<<a>> \o l)
  <2>1. Associates(t, <<a>>, l)
    BY <1>1, ConcatAssociates, Zenon
  <2>2. QED
    BY <2>1 DEF Associates
<1>3. QED
  BY <1>2, Zenon DEF Joined

\* A cookie as it is sent.
CookiePair(x) == Joined(<<x[1]>>, "=", <<x[2]>>)

\* The same behind the separator.
CookiePart(c, i) == (IF i = 1 THEN <<>> ELSE <<";", SP>>) \o <<c[i][1], "=", c[i][2]>>

\* All cookies as they are sent.
CookieParts(c) == [i \in DOMAIN c |-> CookiePart(c, i)]

\* Every cookie but the first follows a space.
CookieCuts(c) == [i \in 1..Len(c) |-> IF i = 1 THEN CookiePair(c[i]) ELSE <<SP>> \o CookiePair(c[i])]

\* A word is sent as it is, and separates nothing.
LEMMA WordIsPlain ==
    /\ \A w \in Word : /\ w \in LineByte /\ w \notin Blank /\ w # ";" /\ w # "="
    /\ SP # ";" /\ "=" # ";"
<1>1. ASSUME NEW w \in Word PROVE w \in LineByte /\ w \notin Blank /\ w # ";" /\ w # "="
  <2>1. w \notin Reserved
    BY RequestAssumption
  <2>2. CR \in Reserved /\ LF \in Reserved /\ SP \in Reserved /\ "\t" \in Reserved
        /\ ";" \in Reserved /\ "=" \in Reserved
    BY DEF Reserved
  <2>3. w \in Byte
    BY Zenon DEF Byte
  <2>4. QED
    BY <2>1, <2>2, <2>3, Zenon DEF LineByte, Blank
<1>2. SP # ";" /\ "=" # ";"
  BY DEF SP
<1>3. QED
  BY <1>1, <1>2, Zenon

\* What is asked about a cookie as it is sent.
PairIs(x) ==
    /\ CookiePair(x) \in Seq(LineByte) /\ CookiePair(x) \in Seq(LineByte \ {";"})
    /\ CookiePair(x) # <<>>
    /\ Len(CookiePair(x)) = 3
    /\ CookiePair(x)[1] = x[1] /\ CookiePair(x)[3] = x[2]
    /\ CookiePair(x) = <<x[1], "=", x[2]>>

\* Every cookie the client sends is such a text.
LEMMA PairValues == ASSUME NEW x \in Word \X Word PROVE PairIs(x)
<1> DEFINE T == LineByte \ {";"}
           a == x[1]
           b == x[2]
           p == CookiePair(x)
<1>1. a \in Word /\ b \in Word
  OBVIOUS
<1>2. a \in T /\ b \in T /\ "=" \in T
  BY <1>1, WordIsPlain, LineBytes, Zenon
<1>3. p = Joined(<<a>>, "=", <<b>>)
  BY Zenon DEF CookiePair
<1> HIDE DEF p, T, a, b
<1>4. <<a>> \in Seq(T) /\ <<b>> \in Seq(T)
  BY <1>2, SeqOfOne, Zenon
<1>5. JoinedIs(<<a>>, "=", <<b>>, T)
  BY <1>2, <1>4, JoinedAt, Zenon
<1>6. /\ p \in Seq(T) /\ Len(p) = Len(<<a>>) + 1 + Len(<<b>>)
      /\ \A i \in 1..Len(<<a>>) : p[i] = <<a>>[i]
      /\ \A i \in 1..Len(<<b>>) : p[Len(<<a>>) + 1 + i] = <<b>>[i]
  BY <1>3, <1>5, Zenon DEF JoinedIs
<1>7. Len(<<a>>) = 1 /\ Len(<<b>>) = 1 /\ 1 \in 1..1 /\ 1 + 1 + 1 = 3 /\ <<a>>[1] = a /\ <<b>>[1] = b
  OBVIOUS
<1>8. Len(p) = 3 /\ p[1] = a /\ p[3] = b
  BY <1>6, <1>7, Zenon
<1>9. p # <<>>
  BY <1>8
<1>10. p = <<a, "=", b>>
  <2>1. <<a>> \o <<"=">> = <<a, "=">>
    BY Tuple2, Zenon
  <2>2. <<a, "=">> \o <<b>> = <<a, "=", b>>
    BY Tuple3, Zenon
  <2>3. QED
    BY <1>3, <2>1, <2>2, Zenon DEF Joined
<1>11. p \in Seq(LineByte)
  BY <1>6, SeqMonotonic DEF T
<1>12. QED
  BY <1>6, <1>8, <1>9, <1>10, <1>11, Zenon DEF PairIs, p, T, a, b

\* What the text of the cookies is, and how it is split.
CookiesAre(c) ==
    /\ CookieText(c) \in Seq(LineByte)
    /\ CookieParts(c) \in Seq(Seq(LineByte))
    /\ c # <<>> => /\ CookieText(c) # <<>>
                   /\ CookieText(c)[1] \in Word
                   /\ CookieText(c)[Len(CookieText(c))] \in Word
                   /\ Split(CookieText(c), ";") = CookieCuts(c)

\* A cookie more is a part more.
LEMMA CookiePartsMore ==
    ASSUME NEW c \in Seq(Word \X Word), NEW x \in Word \X Word,
           CookieParts(c) \in Seq(Seq(LineByte)),
           NEW p \in Seq(LineByte), p = CookiePart(Append(c, x), Len(c) + 1)
    PROVE  /\ CookieParts(Append(c, x)) = Append(CookieParts(c), p)
           /\ CookieParts(Append(c, x)) \in Seq(Seq(LineByte))
<1> DEFINE d == Append(c, x)
           P == CookieParts(c)
           Q == CookieParts(d)
           A == Append(P, p)
<1>1. /\ d \in Seq(Word \X Word) /\ Len(c) \in Nat /\ Len(d) = Len(c) + 1 /\ d[Len(c) + 1] = x
      /\ \A i \in 1..Len(c) : d[i] = c[i]
      /\ DOMAIN c = 1..Len(c) /\ DOMAIN d = 1..Len(d)
  BY AppendProperties, LenProperties
<1> HIDE DEF d
<1>2. /\ DOMAIN P = DOMAIN c /\ \A i \in DOMAIN c : P[i] = CookiePart(c, i)
      /\ DOMAIN Q = DOMAIN d /\ \A i \in DOMAIN d : Q[i] = CookiePart(d, i)
      /\ Q = [i \in DOMAIN d |-> Q[i]]
  BY Zenon DEF CookieParts
<1> HIDE DEF P, Q
<1>3. P \in Seq(Seq(LineByte)) /\ Len(P) = Len(c)
  <2>1. P \in Seq(Seq(LineByte))
    BY DEF P
  <2>2. QED
    BY <1>1, <1>2, <2>1, LenProperties
<1>4. /\ A \in Seq(Seq(LineByte)) /\ Len(A) = Len(P) + 1 /\ A[Len(P) + 1] = p
      /\ \A i \in 1..Len(P) : A[i] = P[i]
  BY <1>3, AppendProperties
<1> HIDE DEF A
<1>5. \A i \in 1..Len(c) : CookiePart(d, i) = CookiePart(c, i)
  BY <1>1, Zenon DEF CookiePart
<1>6. p = CookiePart(d, Len(c) + 1)
  BY Zenon DEF d
<1>7. \A i \in 1..Len(d) : i \in 1..Len(c) \/ i = Len(c) + 1
  BY <1>1
<1>8. ASSUME NEW i \in 1..Len(d) PROVE Q[i] = A[i]
  <2>1. CASE i \in 1..Len(c)
    BY <1>1, <1>2, <1>3, <1>4, <1>5, <2>1, Zenon
  <2>2. CASE i = Len(c) + 1
    BY <1>1, <1>2, <1>3, <1>4, <1>6, <2>2, Zenon
  <2>3. QED
    BY <1>7, <2>1, <2>2, Zenon
<1>9. Q \in Seq(Seq(LineByte)) /\ Len(Q) = Len(d)
  <2>1. Len(A) = Len(d) /\ Len(d) \in Nat
    BY <1>1, <1>3, <1>4
  <2>2. \A i \in 1..Len(A) : A[i] \in Seq(LineByte)
    BY <1>4, ElementOfSeq
  <2>3. \A i \in 1..Len(d) : Q[i] \in Seq(LineByte)
    BY <1>8, <2>1, <2>2, Zenon
  <2>4. Q \in [1..Len(d) -> Seq(LineByte)]
    BY <1>1, <1>2, <2>3, Zenon
  <2>5. Q \in Seq(Seq(LineByte))
    BY <2>1, <2>4, FunctionIsSeq, Zenon
  <2>6. QED
    BY <1>1, <1>2, <2>1, <2>5, LenProperties
<1>10. Q = A
  <2>1. Len(A) = Len(Q)
    BY <1>1, <1>3, <1>4, <1>9
  <2>2. \A i \in 1..Len(Q) : Q[i] = A[i]
    BY <1>8, <1>9, Zenon
  <2>3. QED
    BY <1>4, <1>9, <2>1, <2>2, SeqEqual
<1>11. QED
  BY <1>9, <1>10, Zenon DEF Q, A, P, d

\* A cookie more is, after the split, a piece more, behind its blank.
LEMMA CookieCutsMore ==
    ASSUME NEW c \in Seq(Word \X Word), NEW x \in Word \X Word, c # <<>>,
           CookieCuts(c) \in Seq(Seq(LineByte))
    PROVE  CookieCuts(Append(c, x)) = Append(CookieCuts(c), <<SP>> \o CookiePair(x))
<1> DEFINE d == Append(c, x)
           P == CookieCuts(c)
           Q == CookieCuts(d)
           p == <<SP>> \o CookiePair(x)
           A == Append(P, p)
<1>0. p \in Seq(LineByte)
  <2>1. CookiePair(x) \in Seq(LineByte)
    BY PairValues, Zenon DEF PairIs
  <2>2. SP \in LineByte
    BY LineBytes, Zenon
  <2>3. <<SP>> \in Seq(LineByte)
    BY <2>2, SeqOfOne, Zenon
  <2>4. QED
    BY <2>1, <2>3, ConcatProperties
<1>1. /\ Len(c) \in Nat /\ Len(d) = Len(c) + 1 /\ d[Len(c) + 1] = x
      /\ \A i \in 1..Len(c) : d[i] = c[i]
      /\ Len(c) + 1 # 1
  BY AppendProperties, LenProperties, EmptySeq
<1> HIDE DEF d
<1>2. /\ DOMAIN P = 1..Len(c)
      /\ \A i \in 1..Len(c) : P[i] = IF i = 1 THEN CookiePair(c[i]) ELSE <<SP>> \o CookiePair(c[i])
      /\ Q = [i \in 1..Len(d) |-> IF i = 1 THEN CookiePair(d[i]) ELSE <<SP>> \o CookiePair(d[i])]
  BY Zenon DEF CookieCuts
<1> HIDE DEF P, Q, p
<1>3. P \in Seq(Seq(LineByte)) /\ Len(P) = Len(c)
  <2>1. P \in Seq(Seq(LineByte))
    BY DEF P
  <2>2. QED
    BY <1>1, <1>2, <2>1, LenProperties
<1>4. /\ A \in Seq(Seq(LineByte)) /\ Len(A) = Len(P) + 1 /\ A[Len(P) + 1] = p
      /\ \A i \in 1..Len(P) : A[i] = P[i]
  BY <1>0, <1>3, AppendProperties
<1>5. A = [i \in 1..Len(d) |-> A[i]]
  <2>1. Len(A) = Len(d)
    BY <1>1, <1>3, <1>4
  <2>2. A = [i \in 1..Len(A) |-> A[i]]
    BY <1>4, LenProperties
  <2>3. QED
    BY <2>1, <2>2, Zenon
<1> HIDE DEF A
<1>6. \A i \in 1..Len(d) : i \in 1..Len(c) \/ i = Len(c) + 1
  BY <1>1
<1>7. ASSUME NEW i \in 1..Len(d)
      PROVE  A[i] = IF i = 1 THEN CookiePair(d[i]) ELSE <<SP>> \o CookiePair(d[i])
  <2>1. CASE i \in 1..Len(c)
    BY <1>1, <1>2, <1>3, <1>4, <2>1, Zenon
  <2>2. CASE i = Len(c) + 1
    BY <1>1, <1>3, <1>4, <2>2, Zenon DEF p
  <2>3. QED
    BY <1>6, <2>1, <2>2, Zenon
<1>8. Q = A
  BY <1>2, <1>5, <1>7, Zenon
<1>9. QED
  BY <1>8, Zenon DEF Q, A, P, p, d

\* What is claimed of some cookies holds with one more.
LEMMA CookiesMore ==
    ASSUME NEW c \in Seq(Word \X Word), NEW x \in Word \X Word, CookiesAre(c)
    PROVE  CookiesAre(Append(c, x))
<1> DEFINE d == Append(c, x)
           t == CookieText(c)
           u == CookieText(d)
           z == CookiePair(x)
           l == <<SP>> \o z
<1>1. /\ Len(c) \in Nat /\ Len(d) = Len(c) + 1 /\ d[Len(c) + 1] = x
  BY AppendProperties, LenProperties
<1>2. /\ z \in Seq(LineByte) /\ z \in Seq(LineByte \ {";"}) /\ z # <<>>
      /\ Len(z) = 3 /\ z[1] = x[1] /\ z[3] = x[2] /\ z = <<x[1], "=", x[2]>>
  BY PairValues, Zenon DEF PairIs
<1>3. t \in Seq(LineByte) /\ CookieParts(c) \in Seq(Seq(LineByte))
  BY Zenon DEF CookiesAre
<1>4. t = FlattenSeq(CookieParts(c)) /\ u = FlattenSeq(CookieParts(d))
  BY Zenon DEF CookieText, CookieParts, CookiePart
<1>5. x[1] \in Word /\ x[2] \in Word
  OBVIOUS
<1>6. SP \in LineByte /\ ";" \in LineByte /\ SP \in LineByte \ {";"}
  BY LineBytes, WordIsPlain, Zenon
<1>7. CASE c = <<>>
  <2>1. CookiePart(d, Len(c) + 1) = z
    <3>1. Len(c) + 1 = 1
      BY <1>7
    <3>2. CookiePart(d, Len(c) + 1) = <<>> \o <<x[1], "=", x[2]>>
      BY <1>1, <3>1, Zenon DEF CookiePart
    <3>3. <<>> \o z = z
      BY <1>2, ConcatEmptySeq
    <3>4. QED
      BY <1>2, <3>2, <3>3, Zenon
  <2>2. /\ CookieParts(d) = Append(CookieParts(c), z)
        /\ CookieParts(d) \in Seq(Seq(LineByte))
    BY <1>2, <1>3, <2>1, CookiePartsMore, Zenon
  <2>3. u = t \o z
    BY <1>2, <1>3, <1>4, <2>2, FlattenAppend, Zenon
  <2>4. t = <<>>
    <3>1. CookieParts(c) = <<>>
      BY <1>3, <1>7, EmptySeq DEF CookieParts
    <3>2. QED
      BY <1>4, <3>1, FlattenEmpty, Zenon
  <2>5. u = z
    BY <1>2, <2>3, <2>4, ConcatEmptySeq
  <2>6. Split(z, ";") = <<z>>
    BY <1>2, SplitOne, Zenon
  <2>7. CookieCuts(d) = <<z>>
    <3>1. Len(d) = 1 /\ d[1] = x
      BY <1>1, <1>7
    <3>2. CookieCuts(d) = [i \in 1..1 |-> IF i = 1 THEN CookiePair(d[i]) ELSE <<SP>> \o CookiePair(d[i])]
      BY <3>1, Zenon DEF CookieCuts
    <3> HIDE DEF z
    <3>3. <<z>> = [i \in 1..1 |-> z]
      OBVIOUS
    <3>4. \A i \in 1..1 : i = 1
      OBVIOUS
    <3>5. \A i \in 1..1 : (IF i = 1 THEN CookiePair(d[i]) ELSE <<SP>> \o CookiePair(d[i])) = z
      BY <3>1, <3>4, Zenon DEF z
    <3>6. QED
      BY <3>2, <3>3, <3>5, Zenon
  <2>8. QED
    BY <1>2, <1>5, <2>2, <2>5, <2>6, <2>7, Zenon DEF CookiesAre
<1>8. CASE c # <<>>
  <2>1. /\ t # <<>> /\ t[1] \in Word /\ t[Len(t)] \in Word
        /\ Split(t, ";") = CookieCuts(c)
    BY <1>8, Zenon DEF CookiesAre
  <2>2. <<SP>> \in Seq(LineByte) /\ <<SP>> \in Seq(LineByte \ {";"}) /\ <<";">> \in Seq(LineByte)
    BY <1>6, SeqOfOne, Zenon
  <2>3. l \in Seq(LineByte) /\ l \in Seq(LineByte \ {";"})
    BY <1>2, <2>2, ConcatProperties
  <2> DEFINE q == <<";">> \o l
  <2>4. q \in Seq(LineByte)
    BY <2>2, <2>3, ConcatProperties
  <2>5. CookiePart(d, Len(c) + 1) = q
    <3>1. Len(c) + 1 # 1
      BY <1>1, <1>8, EmptySeq
    <3>2. CookiePart(d, Len(c) + 1) = <<";", SP>> \o <<x[1], "=", x[2]>>
      BY <1>1, <3>1, Zenon DEF CookiePart
    <3>3. <<";", SP>> \o z = q
      <4>1. z \in Seq(LineByte)
        BY <1>2, Zenon
      <4> HIDE DEF z
      <4>2. QED
        BY <1>6, <4>1, RegroupedFirst
    <3>4. QED
      BY <1>2, <3>2, <3>3, Zenon
  <2>6. /\ CookieParts(d) = Append(CookieParts(c), q)
        /\ CookieParts(d) \in Seq(Seq(LineByte))
    BY <1>3, <2>4, <2>5, CookiePartsMore, Zenon
  <2>7. u = t \o q
    BY <1>3, <1>4, <2>4, <2>6, FlattenAppend, Zenon
  <2>8. u = Joined(t, ";", l)
    <3>1. t \o q = Joined(t, ";", l)
      <4>1. l \in Seq(LineByte)
        BY <2>3, Zenon
      <4> HIDE DEF l, t
      <4>2. QED
        BY <1>3, <1>6, <4>1, RegroupedLast
    <3>2. QED
      BY <2>7, <3>1, Zenon
  <2>9. Split(u, ";") = Append(CookieCuts(c), l)
    <3>1. Split((t \o <<";">>) \o l, ";") = Append(Split(t, ";"), l)
      BY <1>3, <1>6, <2>3, SplitMore, Zenon
    <3>2. QED
      BY <2>1, <2>8, <3>1, Zenon DEF Joined
  <2>10. Append(CookieCuts(c), l) = CookieCuts(d)
    <3>1. Split(t, ";") \in Parts(LineByte)
      BY <1>3, SplitTyped, Zenon
    <3>2. CookieCuts(c) \in Seq(Seq(LineByte))
      BY <2>1, <3>1 DEF Parts
    <3>3. QED
      BY <1>8, <3>2, CookieCutsMore, Zenon
  <2>11. JoinedIs(t, ";", l, LineByte)
    BY <1>3, <1>6, <2>3, JoinedAt, Zenon
  <2>12. /\ u \in Seq(LineByte) /\ Len(u) = Len(t) + 1 + Len(l)
         /\ \A i \in 1..Len(t) : u[i] = t[i]
         /\ \A i \in 1..Len(l) : u[Len(t) + 1 + i] = l[i]
    BY <2>8, <2>11, Zenon DEF JoinedIs
  <2>13. Len(l) = 4 /\ l[4] = x[2]
    <3>1. ConcatIs(<<SP>>, z, LineByte)
      BY <1>2, <2>2, ConcatValues, Zenon
    <3>2. /\ Len(l) = Len(<<SP>>) + Len(z)
          /\ \A i \in 1..Len(z) : l[Len(<<SP>>) + i] = z[i]
      BY <3>1, Zenon DEF ConcatIs
    <3> HIDE DEF l, z
    <3>3. Len(<<SP>>) = 1 /\ 1 + 3 = 4 /\ 3 \in 1..3
      OBVIOUS
    <3>4. QED
      BY <1>2, <3>2, <3>3, Zenon
  <2> HIDE DEF l, u, t, z
  <2>14. Len(t) \in Nat /\ 1 \in 1..Len(t) /\ 4 \in 1..Len(l) /\ Len(u) = Len(t) + 1 + 4 /\ Len(u) # 0
    <3>1. Len(t) \in Nat /\ Len(t) # 0
      BY <1>3, <2>1, LenProperties, EmptySeq
    <3>2. Len(l) = 4 /\ Len(u) = Len(t) + 1 + Len(l)
      BY <2>12, <2>13, Zenon
    <3>3. QED
      BY <3>1, <3>2
  <2>15. u[1] \in Word /\ u[Len(u)] \in Word
    BY <1>5, <2>1, <2>12, <2>13, <2>14, Zenon
  <2>16. u # <<>>
    BY <2>12, <2>14, EmptySeq
  <2>17. QED
    BY <2>6, <2>9, <2>10, <2>12, <2>15, <2>16, Zenon DEF CookiesAre, u
<1>9. QED
  BY <1>7, <1>8, Zenon

\* It holds of all lists of cookies.
LEMMA CookiesOf == ASSUME NEW c \in Seq(Word \X Word) PROVE CookiesAre(c)
<1> DEFINE A == {d \in Seq(Word \X Word) : CookiesAre(d)}
<1>1. <<>> \in A
  <2>1. <<>> \in Seq(Word \X Word)
    BY EmptySeq
  <2>2. CookieParts(<<>>) = <<>>
    BY DEF CookieParts
  <2>3. CookieText(<<>>) = <<>>
    BY <2>2, FlattenEmpty, Zenon DEF CookieText, CookieParts, CookiePart
  <2>4. <<>> \in Seq(Seq(LineByte)) /\ <<>> \in Seq(LineByte)
    BY EmptySeq
  <2>5. CookiesAre(<<>>)
    BY <2>2, <2>3, <2>4, Zenon DEF CookiesAre
  <2>6. QED
    BY <2>1, <2>5, Zenon
<1>2. ASSUME NEW d \in Seq(Word \X Word), NEW x \in Word \X Word, d \in A
      PROVE  Append(d, x) \in A
  <2>1. CookiesAre(Append(d, x))
    BY <1>2, CookiesMore, Zenon
  <2>2. Append(d, x) \in Seq(Word \X Word)
    BY AppendProperties
  <2>3. QED
    BY <2>1, <2>2, Zenon
<1> HIDE DEF A
<1>3. Seq(Word \X Word) \subseteq A
  BY <1>1, <1>2, SeqInduction, Zenon
<1>4. QED
  BY <1>3, Zenon DEF A

\* The header with the cookies.
LEMMA CookieFieldIs ==
    ASSUME NEW r \in Request
    PROVE  /\ CookieText(r.cookies) \in Seq(LineByte)
           /\ r.cookies # <<>> => CookieField(r) \in HeaderRecord
<1> DEFINE t == CookieText(r.cookies)
<1>1. r.cookies \in Seq(Word \X Word)
  BY RequestAssumption
<1>2. CookiesAre(r.cookies)
  BY <1>1, CookiesOf, Zenon
<1>3. /\ t \in Seq(LineByte)
      /\ r.cookies # <<>> => t # <<>> /\ t[1] \in Word /\ t[Len(t)] \in Word
  BY <1>2, Zenon DEF CookiesAre
<1>4. r.cookies # <<>> => Tight(t)
  BY <1>3, WordIsPlain, Zenon DEF Tight
<1>5. "Cookie" \in Byte /\ "Cookie" \notin Reserved
  BY DEF Byte, Reserved, CR, LF, SP
<1> HIDE DEF t
<1>6. CookieField(r) = [name |-> "Cookie", value |-> t]
  BY Zenon DEF CookieField, Field, t
<1>7. r.cookies # <<>> => CookieField(r) \in HeaderRecord
  BY <1>3, <1>4, <1>5, <1>6 DEF HeaderRecord
<1>8. QED
  BY <1>3, <1>7, Zenon DEF t

\* The parser cuts a cookie at its equals sign, with the blank before it or without.
LEMMA CookieCut ==
    ASSUME NEW x \in Word \X Word
    PROVE  /\ Find(CookiePair(x), "=") # 0
           /\ Before(CookiePair(x), Find(CookiePair(x), "=")) = <<x[1]>>
           /\ From(CookiePair(x), Find(CookiePair(x), "=") + 1) = <<x[2]>>
           /\ TrimFront(CookiePair(x)) = CookiePair(x)
           /\ TrimFront(<<SP>> \o CookiePair(x)) = CookiePair(x)
<1> DEFINE a == <<x[1]>>
           b == <<x[2]>>
           p == CookiePair(x)
<1>1. x[1] \in Word /\ x[2] \in Word
  OBVIOUS
<1>2. x[1] \in LineByte /\ x[1] \in LineByte \ {"="} /\ x[2] \in LineByte
  BY <1>1, WordIsPlain, Zenon
<1>3. a \in Seq(LineByte \ {"="}) /\ a \in Seq(LineByte) /\ b \in Seq(LineByte)
  BY <1>2, SeqOfOne, Zenon
<1>4. p \in Seq(LineByte) /\ p # <<>> /\ p[1] = x[1]
  BY PairValues, Zenon DEF PairIs
<1>5. p[1] \notin Blank
  BY <1>1, <1>4, WordIsPlain, Zenon
<1> HIDE DEF a, b, p
<1>6. TrimFront(p) = p /\ TrimFront(<<SP>> \o p) = p
  BY <1>4, <1>5, LineBytes, TrimFrontOfFull, TrimFrontOne, Zenon
<1>7. Find(Joined(a, "=", b), "=") = Len(a) + 1
  BY <1>3, LineBytes, FindJoined, Zenon
<1>8. Before(Joined(a, "=", b), Len(a) + 1) = a
  BY <1>3, LineBytes, BeforeJoined, Zenon
<1>9. From(Joined(a, "=", b), Len(a) + 1 + 1) = b
  BY <1>3, LineBytes, FromJoined, Zenon
<1>10. Len(a) + 1 # 0
  BY <1>3, LenProperties
<1>11. p = Joined(a, "=", b)
  BY Zenon DEF CookiePair, p, a, b
<1>12. QED
  BY <1>6, <1>7, <1>8, <1>9, <1>10, <1>11, Zenon DEF p, a, b

\* The names and values of the cookies.
CookieTable(c) == [i \in 1..Len(c) |-> [key |-> <<c[i][1]>>, value |-> <<c[i][2]>>]]

\* The parser makes of the cookies the table of their names and values.
LEMMA CookiesCut ==
    ASSUME NEW c \in Seq(Word \X Word), c # <<>>
    PROVE  ParseCookies(CookieText(c)) = Named(Table(CookieTable(c)))
<1> DEFINE n == Len(c)
           P == Split(CookieText(c), ";")
           W == WithoutSpace(P)
           D == CutAt(W, "=")
<1>0. n \in Nat
  BY LenProperties
<1>1. P = CookieCuts(c)
  BY CookiesOf, Zenon DEF CookiesAre
<1> HIDE DEF n
<1>2. /\ DOMAIN P = 1..n
      /\ \A i \in 1..n : P[i] = IF i = 1 THEN CookiePair(c[i]) ELSE <<SP>> \o CookiePair(c[i])
  BY <1>1, Zenon DEF CookieCuts, n
<1> HIDE DEF P
<1>3. \A i \in 1..n : c[i] \in Word \X Word
  BY ElementOfSeq DEF n
<1>4. DOMAIN W = 1..n /\ \A i \in 1..n : W[i] = CookiePair(c[i])
  <2>1. DOMAIN W = 1..n /\ \A i \in 1..n : W[i] = TrimFront(P[i])
    BY <1>2, Zenon DEF WithoutSpace
  <2>2. ASSUME NEW i \in 1..n PROVE TrimFront(P[i]) = CookiePair(c[i])
    <3>1. /\ TrimFront(CookiePair(c[i])) = CookiePair(c[i])
          /\ TrimFront(<<SP>> \o CookiePair(c[i])) = CookiePair(c[i])
      BY <1>3, CookieCut, Zenon
    <3>2. P[i] = CookiePair(c[i]) \/ P[i] = <<SP>> \o CookiePair(c[i])
      BY <1>2, Zenon
    <3>3. QED
      BY <3>1, <3>2, Zenon
  <2>3. QED
    BY <2>1, <2>2, Zenon
<1> HIDE DEF W
<1>5. ASSUME NEW i \in 1..n
      PROVE  /\ Find(W[i], "=") # 0
             /\ Before(W[i], Find(W[i], "=")) = <<c[i][1]>>
             /\ From(W[i], Find(W[i], "=") + 1) = <<c[i][2]>>
  <2>1. /\ Find(CookiePair(c[i]), "=") # 0
        /\ Before(CookiePair(c[i]), Find(CookiePair(c[i]), "=")) = <<c[i][1]>>
        /\ From(CookiePair(c[i]), Find(CookiePair(c[i]), "=") + 1) = <<c[i][2]>>
    BY <1>3, CookieCut, Zenon
  <2>2. W[i] = CookiePair(c[i])
    BY <1>4, Zenon
  <2>3. QED
    BY <2>1, <2>2, Zenon
<1>6. D = CutAll(W, "=", n)
  <2>1. \A i \in 1..n : Find(W[i], "=") # 0
    BY <1>5, Zenon
  <2>2. DOMAIN W = 1..n
    BY <1>4, Zenon
  <2>3. QED
    BY <1>0, <2>1, <2>2, CutOfAll, Zenon
<1>7. CutAll(W, "=", n) = CookieTable(c)
  BY <1>5, Zenon DEF CutAll, CookieTable, n
<1>8. ParseCookies(CookieText(c)) = Named(Table(D))
  BY Zenon DEF ParseCookies, D, W, P
<1>9. QED
  BY <1>6, <1>7, <1>8, Zenon

\* A table without the empty name loses nothing.
LEMMA NamedIs ==
    ASSUME NEW f, <<>> \notin DOMAIN f
    PROVE  /\ DOMAIN Named(f) = DOMAIN f
           /\ \A k \in DOMAIN f : Named(f)[k] = f[k]
<1>1. DOMAIN f \ {<<>>} = DOMAIN f
  BY Zenon
<1>2. QED
  BY <1>1, Zenon DEF Named, Restrict

\* The parser reads, of a Cookie header, exactly the cookies the client sent: each
\* name, with its value.
THEOREM CookiesRead ==
    ASSUME NEW c \in Seq(Word \X Word), c # <<>>,
           \A i, j \in DOMAIN c : c[i][1] = c[j][1] => i = j
    PROVE  /\ DOMAIN ParseCookies(CookieText(c)) = {<<x[1]>> : x \in Range(c)}
           /\ \A x \in Range(c) : ParseCookies(CookieText(c))[<<x[1]>>] = <<x[2]>>
<1> DEFINE ps == CookieTable(c)
           T == Table(ps)
           N == Named(T)
<1>0. DOMAIN c = 1..Len(c) /\ Len(c) \in Nat
  BY LenProperties
<1>1. DOMAIN ps = 1..Len(c) /\ \A i \in 1..Len(c) : ps[i] = [key |-> <<c[i][1]>>, value |-> <<c[i][2]>>]
  BY Zenon DEF CookieTable
<1> HIDE DEF ps
<1>2. \A i \in 1..Len(c) : ps[i].key = <<c[i][1]>> /\ ps[i].value = <<c[i][2]>>
  BY <1>1
<1>3. \A i, j \in 1..Len(c) : ps[i].key = ps[j].key => c[i][1] = c[j][1]
  BY <1>2
<1>4. DOMAIN T = {ps[j].key : j \in DOMAIN ps}
  BY TableDomain, Zenon
<1>5. ASSUME NEW i \in 1..Len(c) PROVE T[ps[i].key] = ps[i].value /\ ps[i].key \in DOMAIN T
  <2>1. OnlyAt(ps, i)
    BY <1>0, <1>1, <1>3, Zenon DEF OnlyAt
  <2>2. i \in Nat
    OBVIOUS
  <2>3. QED
    BY <2>1, <2>2, TableHas, Zenon
<1> HIDE DEF T
<1>6. <<>> \notin DOMAIN T
  <2>1. ASSUME NEW i \in 1..Len(c) PROVE ps[i].key # <<>>
    <3>1. <<c[i][1]>> # <<>>
      OBVIOUS
    <3>2. QED
      BY <1>2, <3>1, Zenon
  <2>2. QED
    BY <1>1, <1>4, <2>1, Zenon
<1>7. DOMAIN N = DOMAIN T /\ \A k \in DOMAIN T : N[k] = T[k]
  BY <1>6, NamedIs, Zenon
<1>8. ParseCookies(CookieText(c)) = N
  BY CookiesCut, Zenon DEF T, ps
<1> HIDE DEF N
<1>9. Range(c) = {c[i] : i \in 1..Len(c)}
  BY <1>0, Zenon DEF Range
<1>10. DOMAIN N = {<<x[1]>> : x \in Range(c)}
  <2>1. ASSUME NEW k \in DOMAIN N PROVE k \in {<<x[1]>> : x \in Range(c)}
    <3>1. \E i \in 1..Len(c) : k = ps[i].key
      <4>1. k \in DOMAIN T
        BY <1>7, Zenon
      <4>2. k \in {ps[j].key : j \in DOMAIN ps}
        BY <1>4, <4>1, Zenon
      <4>3. QED
        BY <1>1, <4>2, Zenon
    <3>2. PICK i \in 1..Len(c) : k = ps[i].key
      BY <3>1, Zenon
    <3>3. k = <<c[i][1]>> /\ c[i] \in Range(c)
      BY <1>2, <1>9, <3>2, Zenon
    <3>4. QED
      BY <3>3, Zenon
  <2>2. ASSUME NEW x \in Range(c) PROVE <<x[1]>> \in DOMAIN N
    <3>1. PICK i \in 1..Len(c) : x = c[i]
      BY <1>9, <2>2, Zenon
    <3>2. <<x[1]>> = ps[i].key
      BY <1>2, <3>1, Zenon
    <3>3. QED
      BY <1>5, <1>7, <3>2, Zenon
  <2>3. QED
    BY <2>1, <2>2, Zenon
<1>11. ASSUME NEW x \in Range(c) PROVE N[<<x[1]>>] = <<x[2]>>
  <2>1. PICK i \in 1..Len(c) : x = c[i]
    BY <1>9, <1>11, Zenon
  <2>2. <<x[1]>> = ps[i].key /\ <<x[2]>> = ps[i].value
    BY <1>2, <2>1, Zenon
  <2>3. QED
    BY <1>5, <1>7, <2>2, Zenon
<1>12. QED
  BY <1>8, <1>10, <1>11, Zenon

-----------------------------------------------------------------------------
(* The line of a request.                                                  *)

\* The bytes of a path.
PathByte == Word \cup {"/"}

\* The bytes of the words of the first line.
WordByte == LineByte \ {SP}

\* The query as it is sent.
Sent(q) == UrlEncode(q)

\* The bytes of a path, of a query and of the words of the first line.
LEMMA TargetBytes ==
    /\ PathByte \subseteq WordByte \ {"?"}
    /\ QueryByte \subseteq WordByte \ {"&", "="}
    /\ "?" \in WordByte /\ "k" \in WordByte \ {"&", "="} /\ "=" \in WordByte \ {"&"}
    /\ "HTTP/1.1" \in WordByte
<1>1. \A w \in Word : w \in WordByte /\ w # "?" /\ w # "&" /\ w # "="
  <2> SUFFICES ASSUME NEW w \in Word PROVE w \in WordByte /\ w # "?" /\ w # "&" /\ w # "="
    OBVIOUS
  <2>1. w \notin {CR, LF, SP, "\t", ":", ";", "=", "&", "%", "+", "?", "/", " ", "\r", "\n"}
    BY PlainWord, Zenon
  <2>2. w # SP /\ w # "?" /\ w # "&" /\ w # "="
    BY <2>1
  <2>3. w \in LineByte
    BY WordIsPlain, Zenon
  <2>4. QED
    BY <2>2, <2>3, Zenon DEF WordByte
<1>2. \A c \in {"/", "%", "+", "2", "3", "5", "6", "B", "D", "?", "k", "=", "HTTP/1.1"} :
          c \in Byte /\ c # CR /\ c # LF /\ c # SP
  <2>1. \A c \in {"/", "%", "+", "2", "3", "5", "6", "B", "D", "?", "k", "=", "HTTP/1.1"} : c \in Byte
    BY DEF Byte, Reserved, Hex
  <2>2. \A c \in {"/", "%", "+", "2", "3", "5", "6", "B", "D", "?", "k", "=", "HTTP/1.1"} :
           c # CR /\ c # LF /\ c # SP
    BY DEF CR, LF, SP
  <2>3. QED
    BY <2>1, <2>2, Zenon
<1>3. \A c \in {"/", "%", "+", "2", "3", "5", "6", "B", "D", "?", "k", "=", "HTTP/1.1"} : c \in WordByte
  BY <1>2, Zenon DEF WordByte, LineByte
<1>4. "/" # "?" /\ "k" # "&" /\ "k" # "=" /\ "=" # "&"
  OBVIOUS
<1>5. \A c \in {"%", "+", "2", "3", "5", "6", "B", "D"} : c # "&" /\ c # "="
  OBVIOUS
<1> HIDE DEF WordByte
<1>6. PathByte \subseteq WordByte \ {"?"}
  BY <1>1, <1>3, <1>4 DEF PathByte
<1>7. QueryByte \subseteq WordByte \ {"&", "="}
  BY <1>1, <1>3, <1>5 DEF QueryByte
<1>8. QED
  BY <1>3, <1>4, <1>6, <1>7

\* The segments of the path as they are sent.
PathParts(r) == [i \in DOMAIN r.path |-> <<"/", r.path[i]>>]

\* A path has no question mark and is not empty.
LEMMA PathTyped ==
    ASSUME NEW r \in Request
    PROVE  /\ Target(r) \in Seq(PathByte)
           /\ Target(r) # <<>>
<1> DEFINE path == r.path
           P == PathParts(r)
           odd == IF r.odd THEN <<"/">> ELSE <<>>
<1>1. path \in Seq(Word) /\ path # <<>>
  BY RequestAssumption
<1>2. P \in Seq(Seq(PathByte)) /\ DOMAIN P = 1..Len(path) /\ Len(P) = Len(path)
  <2>1. DOMAIN path = 1..Len(path) /\ Len(path) \in Nat /\ \A i \in 1..Len(path) : path[i] \in Word
    BY <1>1, LenProperties, ElementOfSeq
  <2>2. \A w \in Word : <<"/", w>> \in Seq(PathByte)
    <3>1. "/" \in PathByte /\ \A w \in Word : w \in PathByte
      BY DEF PathByte
    <3> HIDE DEF PathByte
    <3>2. QED
      BY <3>1
  <2>3. P \in [1..Len(path) -> Seq(PathByte)]
    BY <2>1, <2>2, Zenon DEF PathParts
  <2>4. P \in Seq(Seq(PathByte))
    BY <2>1, <2>3, FunctionIsSeq, Zenon
  <2>5. DOMAIN P = 1..Len(path)
    BY <2>1, Zenon DEF PathParts
  <2> HIDE DEF P, path
  <2>6. Len(P) = Len(path)
    BY <2>1, <2>4, <2>5, LenProperties
  <2>7. QED
    BY <2>4, <2>5, <2>6
<1>3. odd \in Seq(PathByte)
  <2>1. "/" \in PathByte
    BY DEF PathByte
  <2>2. <<"/">> \in Seq(PathByte) /\ <<>> \in Seq(PathByte)
    BY <2>1, SeqOfOne, EmptySeq, Zenon
  <2>3. QED
    BY <2>2, Zenon
<1>4. Target(r) = FlattenSeq(P) \o odd
  BY Zenon DEF Target, PathParts
<1>5. FlattenSeq(P) \in Seq(PathByte)
  BY <1>2, FlattenTyped, Zenon
<1>6. Target(r) \in Seq(PathByte)
  BY <1>3, <1>4, <1>5, ConcatProperties
<1>7. FlattenSeq(P) # <<>>
  <2> DEFINE F == Front(P)
             x == Last(P)
             S == Seq(PathByte)
  <2>1. P # <<>>
    BY <1>1, <1>2, EmptySeq
  <2>2. PICK F1 \in Seq(S), x1 \in S : P = Append(F1, x1)
    BY <1>2, <2>1, SequenceEmptyOrAppend
  <2>3. Len(P) = Len(F1) + 1 /\ P[Len(F1) + 1] = x1 /\ Len(F1) + 1 \in 1..Len(P)
    BY <2>2, AppendProperties, LenProperties
  <2>4. x1 = <<"/", path[Len(F1) + 1]>>
    BY <1>2, <2>3, Zenon DEF PathParts
  <2>5. FlattenSeq(P) = FlattenSeq(F1) \o x1
    BY <2>2, FlattenAppend, Zenon
  <2>6. FlattenSeq(F1) \in Seq(PathByte)
    BY <2>2, FlattenTyped, Zenon
  <2>7. Len(x1) = 2
    BY <2>4
  <2>8. Len(FlattenSeq(F1) \o x1) = Len(FlattenSeq(F1)) + Len(x1) /\ Len(FlattenSeq(F1)) \in Nat
    BY <2>2, <2>6, ConcatProperties, LenProperties
  <2>9. Len(FlattenSeq(P)) # 0
    BY <2>5, <2>7, <2>8
  <2>10. QED
    BY <1>5, <2>9, EmptySeq
<1>8. Len(FlattenSeq(P)) \in Nat /\ Len(FlattenSeq(P)) # 0 /\ Len(odd) \in Nat
  BY <1>3, <1>5, <1>7, LenProperties, EmptySeq
<1> HIDE DEF odd, P
<1>9. Len(Target(r)) = Len(FlattenSeq(P)) + Len(odd)
  BY <1>3, <1>4, <1>5, ConcatProperties
<1>10. Len(Target(r)) # 0
  BY <1>8, <1>9
<1>11. QED
  BY <1>6, <1>10, EmptySeq

\* An encoded query has no ampersand and no equals sign.
LEMMA SentTyped ==
    ASSUME NEW q \in Seq(Word \cup DOMAIN Code) PROVE Sent(q) \in Seq(QueryByte)
<1>1. Encoded(q) \in Seq(Seq(QueryByte))
  BY EncodedTyped, Zenon
<1>2. FlattenSeq(Encoded(q)) \in Seq(QueryByte)
  BY <1>1, FlattenTyped, Zenon
<1>3. QED
  BY <1>2, Zenon DEF Sent, UrlEncode, Encoded

\* The second word of the line.
SentTarget(r) == Target(r) \o Query(r.query)

\* The parameter of the query as it is sent.
KeyAndValue(q) == Joined(<<"k">>, "=", Sent(q))

\* What the client sends behind the path.
LEMMA QueryIs ==
    ASSUME NEW q \in Seq(Word \cup DOMAIN Code), q # <<>>
    PROVE  /\ Query(q) = <<"?">> \o KeyAndValue(q)
           /\ KeyAndValue(q) \in Seq(WordByte \ {"&"})
           /\ KeyAndValue(q) \in Seq(WordByte)
           /\ Sent(q) \in Seq(WordByte)
<1> DEFINE e == Sent(q)
<1>1. e \in Seq(WordByte) /\ e \in Seq(WordByte \ {"&"})
  <2>1. QueryByte \subseteq WordByte /\ QueryByte \subseteq WordByte \ {"&"}
    BY TargetBytes
  <2>2. QED
    BY <2>1, SentTyped, SeqMonotonic
<1>2. Query(q) = <<"?", "k", "=">> \o e
  BY Zenon DEF Query, Sent
<1>3. /\ <<"?">> \in Seq(WordByte) /\ <<"k">> \in Seq(WordByte) /\ <<"=">> \in Seq(WordByte)
      /\ <<"k">> \in Seq(WordByte \ {"&"}) /\ "=" \in WordByte \ {"&"}
  <2>1. "?" \in WordByte /\ "k" \in WordByte \ {"&"} /\ "=" \in WordByte \ {"&"}
    BY TargetBytes
  <2> HIDE DEF WordByte
  <2>2. QED
    BY <2>1
<1> HIDE DEF e, WordByte
<1>4. <<"?">> \o <<"k">> = <<"?", "k">>
  BY Tuple2, Zenon
<1>5. <<"?", "k">> \o <<"=">> = <<"?", "k", "=">>
  BY Tuple3, Zenon
<1>6. (<<"?">> \o <<"k">>) \o <<"=">> = <<"?">> \o (<<"k">> \o <<"=">>)
  <2>1. Associates(<<"?">>, <<"k">>, <<"=">>)
    BY <1>3, ConcatAssociates, Zenon
  <2>2. QED
    BY <2>1 DEF Associates
<1>7. <<"k">> \o <<"=">> \in Seq(WordByte)
  BY <1>3, ConcatProperties
<1>8. (<<"?">> \o (<<"k">> \o <<"=">>)) \o e = <<"?">> \o ((<<"k">> \o <<"=">>) \o e)
  <2>1. Associates(<<"?">>, <<"k">> \o <<"=">>, e)
    BY <1>1, <1>3, <1>7, ConcatAssociates, Zenon
  <2>2. QED
    BY <2>1 DEF Associates
<1>9. Query(q) = <<"?">> \o KeyAndValue(q)
  BY <1>2, <1>4, <1>5, <1>6, <1>8, Zenon DEF KeyAndValue, Joined, e
<1>10. JoinedIs(<<"k">>, "=", e, WordByte \ {"&"})
  BY <1>1, <1>3, JoinedAt, Zenon
<1>11. KeyAndValue(q) \in Seq(WordByte \ {"&"})
  BY <1>10, Zenon DEF JoinedIs, KeyAndValue, e
<1>12. KeyAndValue(q) \in Seq(WordByte)
  BY <1>11, SeqMonotonic
<1>13. QED
  BY <1>1, <1>9, <1>11, <1>12, Zenon DEF e

\* With a query, the target is followed by a question mark.
LEMMA SentTargetIs ==
    ASSUME NEW r \in Request
    PROVE  /\ SentTarget(r) \in Seq(WordByte)
           /\ SentTarget(r) # <<>>
           /\ Target(r) \in Seq(WordByte \ {"?"})
           /\ Target(r) \in Seq(WordByte)
           /\ r.query = <<>> => SentTarget(r) = Target(r)
           /\ r.query # <<>> => SentTarget(r) = Joined(Target(r), "?", KeyAndValue(r.query))
<1> DEFINE t == Target(r)
           q == r.query
           u == SentTarget(r)
<1>1. t \in Seq(WordByte \ {"?"}) /\ t \in Seq(WordByte) /\ t # <<>>
  <2>1. PathByte \subseteq WordByte \ {"?"} /\ PathByte \subseteq WordByte
    BY TargetBytes
  <2>2. QED
    BY <2>1, PathTyped, SeqMonotonic
<1>2. q \in Seq(Word \cup DOMAIN Code)
  BY RequestAssumption
<1>3. u = t \o Query(q)
  BY Zenon DEF SentTarget
<1> HIDE DEF t, q, u
<1>4. CASE q = <<>>
  <2>1. Query(q) = <<>>
    BY <1>4, Zenon DEF Query
  <2>2. u = t
    BY <1>1, <1>3, <2>1, ConcatEmptySeq
  <2>3. QED
    BY <1>1, <1>4, <2>2, Zenon DEF t, q, u
<1>5. CASE q # <<>>
  <2>1. Query(q) = <<"?">> \o KeyAndValue(q) /\ KeyAndValue(q) \in Seq(WordByte)
    BY <1>2, <1>5, QueryIs, Zenon
  <2>2. "?" \in WordByte
    BY TargetBytes, Zenon
  <2>3. t \o (<<"?">> \o KeyAndValue(q)) = Joined(t, "?", KeyAndValue(q))
    BY <1>1, <2>1, <2>2, RegroupedLast
  <2>4. u = Joined(t, "?", KeyAndValue(q))
    BY <1>3, <2>1, <2>3, Zenon
  <2>5. JoinedIs(t, "?", KeyAndValue(q), WordByte)
    BY <1>1, <2>1, <2>2, JoinedAt, Zenon
  <2>6. u \in Seq(WordByte) /\ Len(u) = Len(t) + 1 + Len(KeyAndValue(q))
    BY <2>4, <2>5, Zenon DEF JoinedIs
  <2>7. Len(t) \in Nat /\ Len(KeyAndValue(q)) \in Nat
    BY <1>1, <2>1, LenProperties
  <2>8. Len(u) # 0
    BY <2>6, <2>7
  <2>9. u # <<>>
    BY <2>6, <2>8, EmptySeq
  <2>10. QED
    BY <1>1, <1>5, <2>4, <2>6, <2>9, Zenon DEF t, q, u
<1>6. QED
  BY <1>4, <1>5, Zenon

-----------------------------------------------------------------------------
(* The three words.                                                        *)

\* The three words of the first line.
LineWords(r) == << <<r.method>>, SentTarget(r), <<"HTTP/1.1">> >>

\* The first line is split into its three words.
LEMMA LineJoined ==
    ASSUME NEW r \in Request
    PROVE  /\ RequestLine(r) =
                Joined(Joined(<<r.method>>, SP, SentTarget(r)), SP, <<"HTTP/1.1">>)
           /\ RequestLine(r) \in Seq(LineByte)
           /\ Split(RequestLine(r), SP) = LineWords(r)
<1> DEFINE m == <<r.method>>
           u == SentTarget(r)
           t == Target(r)
           q == Query(r.query)
           v == <<"HTTP/1.1">>
           x == Joined(m, SP, u)
<1>1. r.method \in Word
  BY RequestAssumption
<1>2. r.method \in WordByte /\ "HTTP/1.1" \in WordByte
  <2>1. r.method \in PathByte
    BY <1>1, Zenon DEF PathByte
  <2>2. QED
    BY <2>1, TargetBytes, Zenon
<1>3. /\ WordByte = LineByte \ {SP} /\ SP \in LineByte
      /\ r.method \in LineByte /\ "HTTP/1.1" \in LineByte
  BY <1>2, LineBytes, Zenon DEF WordByte
<1>4. m \in Seq(LineByte) /\ v \in Seq(LineByte) /\ m \in Seq(LineByte \ {SP}) /\ v \in Seq(LineByte \ {SP})
  BY <1>2, <1>3, SeqOfOne, Zenon
<1>5. u \in Seq(LineByte \ {SP}) /\ u \in Seq(LineByte)
  <2>1. u \in Seq(LineByte \ {SP})
    BY <1>3, SentTargetIs, Zenon
  <2>2. QED
    BY <2>1, SeqMonotonic
<1>6. t \in Seq(LineByte) /\ q \in Seq(LineByte)
  <2>1. t \in Seq(LineByte)
    BY <1>3, SentTargetIs, SeqMonotonic
  <2>2. q \in Seq(LineByte)
    <3>1. CASE r.query = <<>>
      BY <3>1, EmptySeq DEF Query
    <3>2. CASE r.query # <<>>
      <4>1. r.query \in Seq(Word \cup DOMAIN Code)
        BY RequestAssumption
      <4>2. q = <<"?">> \o KeyAndValue(r.query) /\ KeyAndValue(r.query) \in Seq(WordByte)
        BY <3>2, <4>1, QueryIs, Zenon
      <4>3. KeyAndValue(r.query) \in Seq(LineByte)
        BY <1>3, <4>2, SeqMonotonic
      <4>4. <<"?">> \in Seq(LineByte)
        BY LineBytes, SeqOfOne, Zenon
      <4>5. QED
        BY <4>2, <4>3, <4>4, ConcatProperties
    <3>3. QED
      BY <3>1, <3>2, Zenon
  <2>3. QED
    BY <2>1, <2>2, Zenon
<1>7. RequestLine(r) = ((<<r.method, SP>> \o t) \o q) \o <<SP, "HTTP/1.1">>
  BY Zenon DEF RequestLine
<1>8. u = t \o q
  BY Zenon DEF SentTarget
<1>9. <<r.method, SP>> = m \o <<SP>> /\ <<SP, "HTTP/1.1">> = <<SP>> \o v
  BY Tuple2, Zenon
<1> HIDE DEF m, v, u, t, q
<1>10. <<SP>> \in Seq(LineByte)
  BY <1>3, SeqOfOne, Zenon
<1>11. m \o <<SP>> \in Seq(LineByte)
  BY <1>4, <1>10, ConcatProperties
<1>12. ((m \o <<SP>>) \o t) \o q = (m \o <<SP>>) \o (t \o q)
  <2>1. Associates(m \o <<SP>>, t, q)
    BY <1>6, <1>11, ConcatAssociates, Zenon
  <2>2. QED
    BY <2>1 DEF Associates
<1>13. ((m \o <<SP>>) \o t) \o q = x
  BY <1>8, <1>12, Zenon DEF Joined
<1>14. JoinedIs(m, SP, u, LineByte)
  BY <1>3, <1>4, <1>5, JoinedAt, Zenon
<1>15. x \in Seq(LineByte)
  BY <1>14, Zenon DEF JoinedIs
<1>16. Split(x, SP) = Append(Split(m, SP), u)
  BY <1>3, <1>4, <1>5, SplitMore, Zenon DEF Joined
<1>17. Split(m, SP) = <<m>>
  BY <1>4, SplitOne, Zenon
<1> HIDE DEF x
<1>18. x \o (<<SP>> \o v) = Joined(x, SP, v)
  BY <1>3, <1>4, <1>15, RegroupedLast
<1>19. RequestLine(r) = Joined(x, SP, v)
  BY <1>7, <1>9, <1>13, <1>18, Zenon
<1>20. JoinedIs(x, SP, v, LineByte)
  BY <1>3, <1>4, <1>15, JoinedAt, Zenon
<1>21. Split(Joined(x, SP, v), SP) = Append(Split(x, SP), v)
  BY <1>3, <1>4, <1>15, SplitMore, Zenon DEF Joined
<1>22. Split(RequestLine(r), SP) = Append(Append(<<m>>, u), v)
  BY <1>16, <1>17, <1>19, <1>21, Zenon
<1>23. Append(Append(<<m>>, u), v) = <<m, u, v>>
  <2>1. Append(<<m>>, u) = <<m>> \o <<u>> /\ Append(<<m, u>>, v) = <<m, u>> \o <<v>>
    BY <1>4, <1>5, AppendIsConcat
  <2>2. <<m>> \o <<u>> = <<m, u>>
    BY Tuple2, Zenon
  <2>3. <<m, u>> \o <<v>> = <<m, u, v>>
    BY Tuple3, Zenon
  <2>4. QED
    BY <2>1, <2>2, <2>3, Zenon
<1>24. RequestLine(r) \in Seq(LineByte)
  BY <1>19, <1>20, Zenon DEF JoinedIs
<1>25. QED
  BY <1>19, <1>22, <1>23, <1>24, Zenon DEF LineWords, m, u, v, x

\* The parser reads the three words.
LEMMA WordsRead ==
    ASSUME NEW r \in Request
    PROVE  /\ Words(Split(RequestLine(r), SP)) = LineWords(r)
           /\ Len(LineWords(r)) = 3
           /\ LineWords(r)[1] = <<r.method>>
           /\ LineWords(r)[2] = SentTarget(r)
<1> DEFINE u == SentTarget(r)
           m == <<r.method>>
           v == <<"HTTP/1.1">>
           E == Seq(Byte) \ {<<>>}
<1>1. m \in E
  <2>1. r.method \in Word
    BY RequestAssumption
  <2>2. r.method \in Byte
    BY <2>1, Zenon DEF Byte
  <2>3. m # <<>>
    OBVIOUS
  <2>4. QED
    BY <2>2, <2>3, SeqOfOne, Zenon
<1>2. v \in E
  <2>1. "HTTP/1.1" \in Byte
    BY DEF Byte
  <2>2. v # <<>>
    OBVIOUS
  <2>3. QED
    BY <2>1, <2>2, SeqOfOne, Zenon
<1>3. u \in E
  <2>1. u \in Seq(WordByte) /\ u # <<>>
    BY SentTargetIs, Zenon
  <2>2. WordByte \subseteq Byte
    BY Zenon DEF WordByte, LineByte
  <2>3. u \in Seq(Byte)
    BY <2>1, <2>2, SeqMonotonic
  <2>4. QED
    BY <2>1, <2>3
<1>4. LineWords(r) = <<m, u, v>>
  BY Zenon DEF LineWords
<1>5. <<>> \notin E
  OBVIOUS
<1> HIDE DEF m, u, v, E
<1>6. <<m, u, v>> \in Seq(E)
  BY <1>1, <1>2, <1>3
<1>7. Words(<<m, u, v>>) = <<m, u, v>>
  BY <1>5, <1>6, WordsOfFull, Zenon
<1>8. Split(RequestLine(r), SP) = LineWords(r)
  BY LineJoined, Zenon
<1>9. Len(<<m, u, v>>) = 3 /\ <<m, u, v>>[1] = m /\ <<m, u, v>>[2] = u
  OBVIOUS
<1>10. QED
  BY <1>4, <1>7, <1>8, <1>9, Zenon DEF m, u

\* The parser cuts the path at the question mark, if there is one.
THEOREM PathRead ==
    ASSUME NEW r \in Request
    PROVE  /\ PathOf(SentTarget(r), Find(SentTarget(r), "?")) = Target(r)
           /\ r.query = <<>> => Find(SentTarget(r), "?") = 0
           /\ r.query # <<>> =>
                /\ Find(SentTarget(r), "?") # 0
                /\ From(SentTarget(r), Find(SentTarget(r), "?") + 1) = KeyAndValue(r.query)
<1> DEFINE t == Target(r)
           u == SentTarget(r)
           kv == KeyAndValue(r.query)
<1>1. /\ t \in Seq(WordByte \ {"?"}) /\ t \in Seq(WordByte)
      /\ r.query = <<>> => u = t
      /\ r.query # <<>> => u = Joined(t, "?", kv)
  BY SentTargetIs, Zenon
<1>2. r.query # <<>> => kv \in Seq(WordByte)
  <2>1. r.query \in Seq(Word \cup DOMAIN Code)
    BY RequestAssumption
  <2>2. QED
    BY <2>1, QueryIs, Zenon
<1>3. "?" \in WordByte
  BY TargetBytes, Zenon
<1>4. Len(t) \in Nat
  BY <1>1, LenProperties
<1>5. Len(t) + 1 # 0
  BY <1>4
<1> HIDE DEF t, u, kv
<1>6. CASE r.query = <<>>
  <2>1. Find(t, "?") = 0
    BY <1>1, FindNothing, Zenon
  <2>2. QED
    BY <1>1, <1>6, <2>1, Zenon DEF PathOf, t, u
<1>7. CASE r.query # <<>>
  <2>1. u = Joined(t, "?", kv) /\ kv \in Seq(WordByte)
    BY <1>1, <1>2, <1>7, Zenon
  <2>2. Find(Joined(t, "?", kv), "?") = Len(t) + 1
    BY <1>1, <1>3, <2>1, FindJoined, Zenon
  <2>3. Before(Joined(t, "?", kv), Len(t) + 1) = t
    BY <1>1, <1>3, <2>1, BeforeJoined, Zenon
  <2>4. From(Joined(t, "?", kv), Len(t) + 1 + 1) = kv
    BY <1>1, <1>3, <2>1, FromJoined, Zenon
  <2>5. PathOf(u, Find(u, "?")) = t
    BY <1>5, <2>1, <2>2, <2>3, Zenon DEF PathOf
  <2>6. QED
    BY <1>5, <1>7, <2>1, <2>2, <2>4, <2>5, Zenon DEF t, u, kv
<1>8. QED
  BY <1>6, <1>7, Zenon

\* The key of the query is sent as it is.
LEMMA KeyDecoded == UrlDecode(<<"k">>) = <<"k">>
<1> DEFINE s == <<"k">>
           d == UrlIter(s)
<1>1. s \in Seq({"k"}) /\ Len(s) = 1 /\ s[1] = "k"
  OBVIOUS
<1> HIDE DEF s
<1>2. d[0 + 1] = <<"k">> \o d[0 + Len(<<"k">>) + 1]
  <2>1. Holds(s, 0, <<"k">>)
    <3>1. 0 + Len(<<"k">>) <= Len(s)
      BY <1>1
    <3>2. \A j \in 1..Len(<<"k">>) : j = 1
      OBVIOUS
    <3>3. s[0 + 1] = <<"k">>[1]
      BY <1>1
    <3>4. \A j \in 1..Len(<<"k">>) : s[0 + j] = <<"k">>[j]
      BY <3>2, <3>3, Zenon
    <3>5. QED
      BY <3>1, <3>4, Zenon DEF Holds
  <2>2. "k" # "%" /\ "k" = (IF "k" = "+" THEN SP ELSE "k") /\ 0 \in Nat
    OBVIOUS
  <2>3. QED
    BY <1>1, <2>1, <2>2, DecodeSingle, Zenon
<1>3. 0 + 1 = 1 /\ 0 + Len(<<"k">>) + 1 = 2
  OBVIOUS
<1>4. d[2] = <<>>
  <2>1. 2 \in 1..Len(s)+1 /\ 2 > Len(s)
    BY <1>1
  <2>2. d[2] = DecodeAt(d, s, 2)
    BY <1>1, <2>1, UrlIterValue, Zenon
  <2>3. QED
    BY <2>1, <2>2, Zenon DEF DecodeAt
<1>5. <<"k">> \o <<>> = <<"k">>
  <2>1. <<"k">> \in Seq({"k"})
    OBVIOUS
  <2>2. QED
    BY <2>1, ConcatEmptySeq
<1>6. d[1] = <<"k">>
  BY <1>2, <1>3, <1>4, <1>5, Zenon
<1>7. QED
  BY <1>6, UrlIterates, Zenon DEF s

\* The parser reads the query the client sent, decoded.
THEOREM QueryRead ==
    ASSUME NEW q \in Seq(Word \cup DOMAIN Code), q # <<>>
    PROVE  ParseQueryParams(KeyAndValue(q)) = [k \in {<<"k">>} |-> q]
<1> DEFINE s == KeyAndValue(q)
           e == Sent(q)
           P == Split(s, "&")
           C == CutAt(P, "=")
           D == Decoded(C)
           T == Table(D)
           N == Named(T)
           key == <<"k">>
<1>1. s \in Seq(WordByte \ {"&"}) /\ s \in Seq(WordByte) /\ e \in Seq(WordByte)
  BY QueryIs, Zenon
<1>2. P = <<s>>
  BY <1>1, SplitOne, Zenon
<1>3. UrlDecode(e) = q
  BY DecodedAsEncoded, Zenon DEF Sent
<1>4. /\ Find(s, "=") # 0
      /\ Before(s, Find(s, "=")) = key
      /\ From(s, Find(s, "=") + 1) = e
  <2>1. s = Joined(key, "=", e)
    BY Zenon DEF KeyAndValue
  <2>2. "k" \in WordByte \ {"="} /\ "k" \in WordByte /\ "=" \in WordByte
    BY TargetBytes
  <2>3. key \in Seq(WordByte \ {"="}) /\ key \in Seq(WordByte)
    BY <2>2, SeqOfOne, Zenon
  <2> HIDE DEF s, e, key
  <2>4. Find(Joined(key, "=", e), "=") = Len(key) + 1
    BY <1>1, <2>2, <2>3, FindJoined, Zenon
  <2>5. Before(Joined(key, "=", e), Len(key) + 1) = key
    BY <1>1, <2>2, <2>3, BeforeJoined, Zenon
  <2>6. From(Joined(key, "=", e), Len(key) + 1 + 1) = e
    BY <1>1, <2>2, <2>3, FromJoined, Zenon
  <2>7. Len(key) + 1 # 0
    BY <2>3, LenProperties
  <2>8. QED
    BY <2>1, <2>4, <2>5, <2>6, <2>7, Zenon
<1>5. DOMAIN <<s>> = 1..1 /\ <<s>>[1] = s /\ 1 \in Nat /\ (\A i \in 1..1 : i = 1) /\ 1 \in 1..1
  OBVIOUS
<1> HIDE DEF s, e, P, key
<1>6. DOMAIN P = 1..1 /\ P[1] = s
  BY <1>2, <1>5, Zenon
<1>7. C = CutAll(P, "=", 1)
  <2>1. \A i \in 1..1 : Find(P[i], "=") # 0
    BY <1>4, <1>5, <1>6, Zenon
  <2>2. QED
    BY <1>5, <1>6, <2>1, CutOfAll, Zenon
<1> HIDE DEF C
<1>8. DOMAIN C = 1..1 /\ C[1] = [key |-> Before(P[1], Find(P[1], "=")),
                                 value |-> From(P[1], Find(P[1], "=") + 1)]
  BY <1>5, <1>7, Zenon DEF CutAll
<1>9. C[1].key = key /\ C[1].value = e
  <2>1. C[1].key = Before(P[1], Find(P[1], "=")) /\ C[1].value = From(P[1], Find(P[1], "=") + 1)
    BY <1>8
  <2>2. QED
    BY <1>4, <1>6, <2>1, Zenon
<1>10. DOMAIN D = 1..1 /\ D[1] = [key |-> UrlDecode(C[1].key), value |-> UrlDecode(C[1].value)]
  BY <1>5, <1>8, Zenon DEF Decoded
<1> HIDE DEF D
<1>11. D[1].key = key /\ D[1].value = q
  <2>1. D[1].key = UrlDecode(C[1].key) /\ D[1].value = UrlDecode(C[1].value)
    BY <1>10
  <2>2. UrlDecode(key) = key
    BY KeyDecoded, Zenon DEF key
  <2>3. QED
    BY <1>3, <1>9, <2>1, <2>2, Zenon
<1>12. OnlyAt(D, 1)
  BY <1>5, <1>10, Zenon DEF OnlyAt
<1>13. T[key] = q
  <2>1. T[D[1].key] = D[1].value
    BY <1>5, <1>12, TableHas, Zenon
  <2>2. QED
    BY <1>11, <2>1, Zenon
<1>14. DOMAIN T = {key}
  <2>1. DOMAIN T = {D[j].key : j \in DOMAIN D}
    BY TableDomain, Zenon
  <2>2. QED
    BY <1>5, <1>10, <1>11, <2>1, Zenon
<1> HIDE DEF T
<1>15. <<>> # key
  BY DEF key
<1>16. DOMAIN T \ {<<>>} = {key}
  BY <1>14, <1>15
<1>17. N = [k \in {key} |-> T[k]]
  BY <1>16, Zenon DEF Named, Restrict
<1>18. N = [k \in {key} |-> q]
  BY <1>13, <1>17, Zenon
<1>19. ParseQueryParams(s) = N
  BY Zenon DEF ParseQueryParams, N, T, D, C, P
<1>20. QED
  BY <1>18, <1>19, Zenon DEF s, key

-----------------------------------------------------------------------------
(* The end of the head.                                                    *)

\* What ends a head.
EmptyLine == CRLF \o CRLF

\* The bytes of an end of line and of an empty line stand at i.
Ends(s, i) ==
    i + 3 <= Len(s) /\ s[i] = CR /\ s[i + 1] = LF /\ s[i + 2] = CR /\ s[i + 3] = LF

\* The four bytes that end a head.
LEMMA EmptyLineIs ==
    /\ EmptyLine = <<CR, LF, CR, LF>>
    /\ Len(EmptyLine) = 4 /\ EmptyLine[1] = CR /\ EmptyLine[2] = LF
    /\ EmptyLine[3] = CR /\ EmptyLine[4] = LF
    /\ EmptyLine \in Seq({CR, LF})
<1>1. <<CR, LF, CR>> \o <<LF>> = <<CR, LF, CR, LF>>
  BY Tuple4, Zenon
<1>2. <<CR, LF>> \o <<CR>> = <<CR, LF, CR>>
  BY Tuple3, Zenon
<1>3. <<CR>> \o <<LF>> = <<CR, LF>>
  BY Tuple2, Zenon
<1>4. <<CR>> \in Seq({CR, LF}) /\ <<LF>> \in Seq({CR, LF}) /\ <<CR, LF>> \in Seq({CR, LF})
  OBVIOUS
<1>5. (<<CR, LF>> \o <<CR>>) \o <<LF>> = <<CR, LF>> \o (<<CR>> \o <<LF>>)
  <2>1. Associates(<<CR, LF>>, <<CR>>, <<LF>>)
    BY <1>4, ConcatAssociates, Zenon
  <2>2. QED
    BY <2>1 DEF Associates
<1>6. EmptyLine = <<CR, LF, CR, LF>>
  BY <1>1, <1>2, <1>3, <1>5, Zenon DEF EmptyLine, CRLF
<1>7. \A a, b : /\ Len(<<a, b, a, b>>) = 4 /\ <<a, b, a, b>>[1] = a /\ <<a, b, a, b>>[2] = b
                /\ <<a, b, a, b>>[3] = a /\ <<a, b, a, b>>[4] = b
  OBVIOUS
<1>8. <<CR, LF, CR, LF>> \in Seq({CR, LF})
  OBVIOUS
<1>9. QED
  BY <1>6, <1>7, <1>8, Zenon

\* Where the parser finds them is where they stand.
LEMMA EmptyLineAt ==
    ASSUME NEW S, NEW s \in Seq(S), NEW i \in 1..Len(s)
    PROVE  IsPrefix(EmptyLine, From(s, i)) <=> Ends(s, i)
<1> DEFINE f == From(s, i)
           n == Len(s)
           t == EmptyLine
<1>0. n \in Nat
  BY LenProperties
<1>1. f \in Seq(S) /\ Len(f) = n - i + 1 /\ \A j \in 1..n - i + 1 : f[j] = s[i + j - 1]
  <2>1. i \in 1..n + 1 /\ n \in i - 1..n
    BY <1>0
  <2> HIDE DEF n
  <2>2. From(s, i) = SubSeq(s, i, n)
    BY Zenon DEF From, n
  <2>3. SubSeq(s, i, n) \in Seq(S)
    BY <1>0, <2>1, SubSeqProperties DEF n
  <2>4. Len(SubSeq(s, i, n)) = n - i + 1
    BY <1>0, <2>1, SubSeqProperties DEF n
  <2>5. \A j \in 1..n - i + 1 : SubSeq(s, i, n)[j] = s[i + j - 1]
    BY <1>0, <2>1, SubSeqProperties DEF n
  <2>6. QED
    BY <2>2, <2>3, <2>4, <2>5, Zenon
<1>2. Len(t) = 4 /\ t[1] = CR /\ t[2] = LF /\ t[3] = CR /\ t[4] = LF /\ t \in Seq({CR, LF})
  BY EmptyLineIs, Zenon
<1> HIDE DEF f, n, t
<1>3. IsPrefix(t, f) <=> Len(t) <= Len(f) /\ SubSeq(t, 1, Len(t)) = SubSeq(f, 1, Len(t))
  BY Zenon DEF IsPrefix
<1>4. SubSeq(t, 1, Len(t)) = t
  BY <1>2, SubSeqFull, Zenon
<1>5. CASE i + 3 <= n
  <2>1. 4 <= Len(f)
    BY <1>0, <1>1, <1>5
  <2>2. f[1] = s[i] /\ f[2] = s[i + 1] /\ f[3] = s[i + 2] /\ f[4] = s[i + 3]
    <3>1. 1 \in 1..n - i + 1 /\ 2 \in 1..n - i + 1 /\ 3 \in 1..n - i + 1 /\ 4 \in 1..n - i + 1
      BY <1>0, <1>5
    <3>2. i + 1 - 1 = i /\ i + 2 - 1 = i + 1 /\ i + 3 - 1 = i + 2 /\ i + 4 - 1 = i + 3
      OBVIOUS
    <3>3. QED
      BY <1>1, <3>1, <3>2, Zenon
  <2> DEFINE g == SubSeq(f, 1, 4)
  <2>3. g \in Seq(S) /\ Len(g) = 4 /\ g[1] = f[1] /\ g[2] = f[2] /\ g[3] = f[3] /\ g[4] = f[4]
    <3>1. Len(f) \in Nat /\ 1 \in 1..Len(f) + 1 /\ 4 \in 1 - 1..Len(f)
      BY <1>1, <2>1, LenProperties
    <3>2. SubSeq(f, 1, 4) \in Seq(S) /\ Len(SubSeq(f, 1, 4)) = 4 - 1 + 1
      BY <1>1, <3>1, SubSeqProperties
    <3>3. \A j \in 1..4 - 1 + 1 : SubSeq(f, 1, 4)[j] = f[1 + j - 1]
      BY <1>1, <3>1, SubSeqProperties
    <3> HIDE DEF g
    <3>4. g = SubSeq(f, 1, 4)
      BY Zenon DEF g
    <3>5. QED
      BY <3>2, <3>3, <3>4
  <2> HIDE DEF g
  <2>4. t = g <=> g[1] = CR /\ g[2] = LF /\ g[3] = CR /\ g[4] = LF
    <3>1. ASSUME g[1] = CR, g[2] = LF, g[3] = CR, g[4] = LF PROVE t = g
      <4>1. \A j \in 1..4 : j = 1 \/ j = 2 \/ j = 3 \/ j = 4
        OBVIOUS
      <4>2. \A j \in 1..Len(t) : t[j] = g[j]
        BY <1>2, <3>1, <4>1, Zenon
      <4>3. Len(t) = Len(g)
        BY <1>2, <2>3, Zenon
      <4>4. t \in Seq(S \cup {CR, LF}) /\ g \in Seq(S \cup {CR, LF})
        BY <1>2, <2>3, SeqMonotonic
      <4>5. QED
        BY <4>2, <4>3, <4>4, SeqEqual
    <3>2. QED
      BY <1>2, <3>1, Zenon
  <2>5. QED
    BY <1>2, <1>3, <1>4, <1>5, <2>1, <2>2, <2>3, <2>4, Zenon DEF Ends, g, f, t, n
<1>6. CASE ~ (i + 3 <= n)
  <2>1. ~ (4 <= Len(f))
    BY <1>0, <1>1, <1>6
  <2>2. QED
    BY <1>2, <1>3, <1>6, <2>1, Zenon DEF Ends, f, t, n
<1>7. QED
  BY <1>5, <1>6, Zenon

\* Where the head ends: what Parse looks for first, 0 if there is no end yet.
EndOf(raw) ==
    IF \E i \in DOMAIN raw : IsPrefix(EmptyLine, From(raw, i))
    THEN CHOOSE i \in DOMAIN raw :
           /\ IsPrefix(EmptyLine, From(raw, i))
           /\ \A j \in 1..(i-1) : ~IsPrefix(EmptyLine, From(raw, j))
    ELSE 0

\* The first empty line, if there is one.
LEMMA EndFound ==
    ASSUME NEW S, NEW s \in Seq(S), NEW e \in 1..Len(s), Ends(s, e),
           \A j \in 1..(e-1) : ~Ends(s, j)
    PROVE  EndOf(s) = e
<1>1. DOMAIN s = 1..Len(s) /\ Len(s) \in Nat
  BY LenProperties
<1>2. \A i \in DOMAIN s : IsPrefix(EmptyLine, From(s, i)) <=> Ends(s, i)
  BY <1>1, EmptyLineAt, Zenon
<1>3. \A j \in 1..(e-1) : j \in DOMAIN s
  BY <1>1
<1>4. e \in DOMAIN s /\ IsPrefix(EmptyLine, From(s, e))
      /\ \A j \in 1..(e-1) : ~IsPrefix(EmptyLine, From(s, j))
  BY <1>1, <1>2, <1>3, Zenon
<1> DEFINE k == EndOf(s)
<1>5. k \in DOMAIN s /\ IsPrefix(EmptyLine, From(s, k))
      /\ \A j \in 1..(k-1) : ~IsPrefix(EmptyLine, From(s, j))
  BY <1>4, Zenon DEF EndOf
<1> HIDE DEF k
<1>6. ~ (k \in 1..(e-1)) /\ ~ (e \in 1..(k-1))
  BY <1>4, <1>5, Zenon
<1>7. k = e
  BY <1>1, <1>5, <1>6
<1>8. QED
  BY <1>7, Zenon DEF k

\* The parser finds no end where there is none.
LEMMA NoEnd ==
    ASSUME NEW S, NEW s \in Seq(S), \A i \in 1..Len(s) : ~Ends(s, i)
    PROVE  EndOf(s) = 0
<1>1. DOMAIN s = 1..Len(s)
  BY LenProperties
<1>2. \A i \in DOMAIN s : IsPrefix(EmptyLine, From(s, i)) <=> Ends(s, i)
  BY <1>1, EmptyLineAt, Zenon
<1>3. QED
  BY <1>1, <1>2, Zenon DEF EndOf

\* The bytes of a request: the head, the empty line and the body.
RawIs(w, B, b) ==
    /\ w \in Seq(Byte)
    /\ Len(w) = Len(B) + 4 + Len(b)
    /\ \A i \in 1..Len(B) : w[i] = B[i]
    /\ w[Len(B) + 1] = CR /\ w[Len(B) + 2] = LF
    /\ w[Len(B) + 3] = CR /\ w[Len(B) + 4] = LF
    /\ \A i \in 1..Len(b) : w[Len(B) + 4 + i] = b[i]

\* What the client concatenates is the head, the empty line and the body.
LEMMA RawValues ==
    ASSUME NEW B \in Seq(Byte), NEW b \in Seq(Byte)
    PROVE  RawIs(((B \o CRLF) \o CRLF) \o b, B, b)
<1> DEFINE e == EmptyLine
           x == B \o e
           w == x \o b
<1>1. CRLF \in Seq(Byte) /\ e \in Seq(Byte)
  <2>1. CR \in Byte /\ LF \in Byte
    BY ReservedBytes, Zenon
  <2>2. CRLF \in Seq(Byte)
    BY <2>1 DEF CRLF
  <2>3. QED
    BY <2>2, ConcatProperties DEF EmptyLine
<1>2. (B \o CRLF) \o CRLF = B \o (CRLF \o CRLF)
  <2>1. Associates(B, CRLF, CRLF)
    BY <1>1, ConcatAssociates, Zenon
  <2>2. QED
    BY <2>1 DEF Associates
<1>3. ((B \o CRLF) \o CRLF) \o b = w
  BY <1>2, Zenon DEF EmptyLine
<1> HIDE DEF e
<1>4. /\ Len(e) = 4 /\ e[1] = CR /\ e[2] = LF /\ e[3] = CR /\ e[4] = LF
  BY EmptyLineIs, Zenon DEF e
<1>5. ConcatIs(B, e, Byte)
  BY <1>1, ConcatValues, Zenon
<1>6. /\ x \in Seq(Byte) /\ Len(x) = Len(B) + Len(e)
      /\ \A i \in 1..Len(B) : x[i] = B[i]
      /\ \A i \in 1..Len(e) : x[Len(B) + i] = e[i]
  BY <1>5, Zenon DEF ConcatIs
<1> HIDE DEF x
<1>7. ConcatIs(x, b, Byte)
  BY <1>6, ConcatValues, Zenon
<1>8. /\ w \in Seq(Byte) /\ Len(w) = Len(x) + Len(b)
      /\ \A i \in 1..Len(x) : w[i] = x[i]
      /\ \A i \in 1..Len(b) : w[Len(x) + i] = b[i]
  BY <1>7, Zenon DEF ConcatIs
<1> HIDE DEF w
<1>9. /\ Len(B) \in Nat /\ Len(b) \in Nat /\ Len(x) = Len(B) + 4
      /\ 1 \in 1..4 /\ 2 \in 1..4 /\ 3 \in 1..4 /\ 4 \in 1..4
  BY <1>4, <1>6, LenProperties
<1>10. /\ \A i \in 1..Len(B) : i \in 1..Len(x)
       /\ \A i \in 1..4 : Len(B) + i \in 1..Len(x)
  BY <1>9
<1>11. \A i \in 1..4 : w[Len(B) + i] = e[i]
  BY <1>4, <1>6, <1>8, <1>10, Zenon
<1>12. \A i \in 1..Len(B) : w[i] = B[i]
  BY <1>6, <1>8, <1>10, Zenon
<1>13. RawIs(w, B, b)
  BY <1>4, <1>8, <1>9, <1>11, <1>12, Zenon DEF RawIs
<1>14. QED
  BY <1>3, <1>13, Zenon

\* What has arrived of a request is its first n bytes.
LEMMA Arrived ==
    ASSUME NEW S, NEW w \in Seq(S), NEW n \in 0..Len(w)
    PROVE  /\ SubSeq(w, 1, n) \in Seq(S)
           /\ Len(SubSeq(w, 1, n)) = n
           /\ \A i \in 1..n : SubSeq(w, 1, n)[i] = w[i]
<1>1. Len(w) \in Nat /\ \A i \in 1..Len(w) : w[i] \in S
  BY LenProperties, ElementOfSeq
<1>2. \A i \in 1..n : w[i] \in S
  BY <1>1
<1>3. n \in Int /\ 1 \in Int /\ \A i \in 1..n : 1 + i - 1 = i /\ i \in 1..n - 1 + 1
  BY <1>1
<1>4. /\ SubSeq(w, 1, n) \in Seq(S)
      /\ \A i \in 1..n - 1 + 1 : SubSeq(w, 1, n)[i] = w[1 + i - 1]
  BY <1>2, <1>3, SubSeqProperties
<1>5. Len(SubSeq(w, 1, n)) = IF 1 <= n THEN n - 1 + 1 ELSE 0
  BY <1>2, <1>3, SubSeqProperties
<1>6. Len(SubSeq(w, 1, n)) = n
  BY <1>1, <1>5
<1>7. ASSUME NEW i \in 1..n PROVE SubSeq(w, 1, n)[i] = w[i]
  <2>1. SubSeq(w, 1, n)[i] = w[1 + i - 1]
    BY <1>3, <1>4, Zenon
  <2>2. 1 + i - 1 = i
    OBVIOUS
  <2>3. QED
    BY <2>1, <2>2, Zenon
<1>8. QED
  BY <1>4, <1>6, <1>7, Zenon

\* The parser sees the end of the head as soon as all of it is there, and
\* nowhere else.
THEOREM HeadEnd ==
    ASSUME NEW B \in Seq(Byte), NEW b \in Seq(Byte), NoEmptyLine(B), NEW w, RawIs(w, B, b),
           NEW n \in 0..Len(w), NEW s, s = SubSeq(w, 1, n)
    PROVE  EndOf(s) = IF Len(B) + 4 <= n THEN Len(B) + 1 ELSE 0
<1> DEFINE m == Len(B)
<1>1. /\ w \in Seq(Byte) /\ \A i \in 1..m : w[i] = B[i]
      /\ w[m + 1] = CR /\ w[m + 2] = LF /\ w[m + 3] = CR /\ w[m + 4] = LF
  BY Zenon DEF RawIs
<1>2. s \in Seq(Byte) /\ Len(s) = n /\ \A i \in 1..n : s[i] = w[i]
  BY <1>1, Arrived, Zenon
<1>3. m \in Nat /\ n \in Nat
  BY <1>1, LenProperties
<1>4. \A i \in 1..m : B[i] = CR => i + 2 \in 1..m /\ B[i + 2] # CR
  BY Zenon DEF NoEmptyLine
<1> HIDE DEF m
<1>5. ASSUME NEW j \in 1..m PROVE ~Ends(s, j)
  <2> SUFFICES ASSUME Ends(s, j) PROVE FALSE
    OBVIOUS
  <2>1. j + 3 <= n /\ s[j] = CR /\ s[j + 2] = CR
    BY <1>2, Zenon DEF Ends
  <2>2. j \in 1..n /\ j + 2 \in 1..n
    BY <1>3, <2>1
  <2>3. w[j] = CR /\ w[j + 2] = CR
    BY <1>2, <2>1, <2>2, Zenon
  <2>4. B[j] = CR
    BY <1>1, <2>3, Zenon
  <2>5. j + 2 \in 1..m /\ B[j + 2] # CR
    BY <1>4, <2>4, Zenon
  <2>6. QED
    BY <1>1, <2>3, <2>5, Zenon
<1>6. CASE m + 4 <= n
  <2>1. /\ m + 1 \in 1..Len(s) /\ (m + 1) + 3 <= Len(s)
        /\ (m + 1) + 1 = m + 2 /\ (m + 1) + 2 = m + 3 /\ (m + 1) + 3 = m + 4
        /\ m + 1 \in 1..n /\ m + 2 \in 1..n /\ m + 3 \in 1..n /\ m + 4 \in 1..n
        /\ \A j \in 1..((m + 1) - 1) : j \in 1..m
    BY <1>2, <1>3, <1>6
  <2>2. s[m + 1] = CR /\ s[m + 2] = LF /\ s[m + 3] = CR /\ s[m + 4] = LF
    BY <1>1, <1>2, <2>1, Zenon
  <2>3. Ends(s, m + 1)
    BY <2>1, <2>2, Zenon DEF Ends
  <2>4. \A j \in 1..((m + 1) - 1) : ~Ends(s, j)
    BY <1>5, <2>1, Zenon
  <2>5. EndOf(s) = m + 1
    BY <1>2, <2>1, <2>3, <2>4, EndFound, Zenon
  <2>6. QED
    BY <1>6, <2>5, Zenon DEF m
<1>7. CASE ~ (m + 4 <= n)
  <2>1. ASSUME NEW i \in 1..Len(s) PROVE ~Ends(s, i)
    <3>1. CASE i \in 1..m
      BY <1>5, <3>1, Zenon
    <3>2. CASE i \notin 1..m
      <4>1. ~ (i + 3 <= Len(s))
        BY <1>2, <1>3, <1>7, <3>2
      <4>2. QED
        BY <4>1, Zenon DEF Ends
    <3>3. QED
      BY <3>1, <3>2, Zenon
  <2>2. EndOf(s) = 0
    BY <1>2, <2>1, NoEnd, Zenon
  <2>3. QED
    BY <1>7, <2>2, Zenon DEF m
<1>8. QED
  BY <1>6, <1>7, Zenon

\* The first n bytes of w split as the parser splits them: the head B, and the
\* body b as soon as all of it is there.
SplitAs(s, n, w, B, b) ==
    /\ Before(s, Len(B) + 1) = B
    /\ Missing(s, (Len(B) + 1) + 4, Len(b)) <=> n # Len(w)
    /\ n = Len(w) => Substr(s, (Len(B) + 1) + 4, Len(b)) = b

\* What stands before and behind the empty line.
LEMMA PartsOfRaw ==
    ASSUME NEW B \in Seq(Byte), NEW b \in Seq(Byte), NEW w, RawIs(w, B, b),
           NEW n \in 0..Len(w), Len(B) + 4 <= n
    PROVE  SplitAs(SubSeq(w, 1, n), n, w, B, b)
<1> DEFINE m == Len(B)
           k == Len(b)
           s == SubSeq(w, 1, n)
<1>1. /\ w \in Seq(Byte) /\ Len(w) = m + 4 + k
      /\ \A i \in 1..m : w[i] = B[i]
      /\ \A i \in 1..k : w[m + 4 + i] = b[i]
  BY Zenon DEF RawIs
<1>2. s \in Seq(Byte) /\ Len(s) = n /\ \A i \in 1..n : s[i] = w[i]
  BY <1>1, Arrived, Zenon
<1>3. m \in Nat /\ n \in Nat /\ k \in Nat /\ m + 4 <= n
  BY <1>1, LenProperties
<1> HIDE DEF m, k, s
<1>4. Before(s, m + 1) = B
  <2>1. /\ 1 \in Int /\ (m + 1) - 1 \in Int /\ (m + 1) - 1 = 1 + m - 1
        /\ \A i \in 1..m : 1 + i - 1 = i /\ i \in 1..n
    BY <1>3
  <2>2. IsPart(B, s, 1)
    BY <1>1, <1>2, <2>1, Zenon DEF IsPart, m
  <2>3. SubSeq(s, 1, (m + 1) - 1) = B
    BY <2>1, <2>2, SubSeqValues, Zenon DEF m
  <2>4. QED
    BY <2>3, Zenon DEF Before
<1>5. Missing(s, (m + 1) + 4, k) <=> n # Len(w)
  BY <1>1, <1>2, <1>3 DEF Missing
<1>6. ASSUME n = Len(w) PROVE Substr(s, (m + 1) + 4, k) = b
  <2> DEFINE o == (m + 1) + 4
  <2>1. /\ o \in Int /\ o + k - 1 \in Int /\ ~ (o + k - 1 > Len(s))
        /\ \A i \in 1..k : o + i - 1 = m + 4 + i /\ m + 4 + i \in 1..n
    BY <1>1, <1>2, <1>3, <1>6
  <2> HIDE DEF o
  <2>2. IsPart(b, s, o)
    BY <1>1, <1>2, <2>1, Zenon DEF IsPart, k
  <2>3. SubSeq(s, o, o + k - 1) = b
    BY <2>1, <2>2, SubSeqValues, Zenon DEF k
  <2>4. QED
    BY <2>1, <2>3, Zenon DEF Substr, o
<1>7. QED
  BY <1>4, <1>5, <1>6, Zenon DEF m, k, s, SplitAs

-----------------------------------------------------------------------------
(* The parser as a whole.                                                  *)

\* The length the parser takes the body to have.
LengthIn(headers) ==
    IF <<"Content-Length">> \in DOMAIN headers THEN ToNumber(headers[<<"Content-Length">>]) ELSE 0

\* What the parser makes of a request it accepts.
Accepted(raw, e, words, headers) ==
    [accepted |-> TRUE,
     method |-> words[1],
     path |-> PathOf(words[2], Find(words[2], "?")),
     query |-> IF Find(words[2], "?") = 0 THEN <<>>
               ELSE ParseQueryParams(From(words[2], Find(words[2], "?") + 1)),
     cookies |-> IF <<"Cookie">> \in DOMAIN headers
                 THEN ParseCookies(headers[<<"Cookie">>]) ELSE <<>>,
     headers |-> headers,
     body |-> Substr(raw, e + 4, LengthIn(headers))]

\* What the parser makes of what has arrived.
Parsed(raw, e, words, headers) ==
    IF e = 0 THEN NoRequest
    ELSE IF Len(words) < 3 THEN NoRequest
    ELSE IF /\ <<"Content-Length">> \in DOMAIN headers
            /\ Missing(raw, e + 4, LengthIn(headers)) THEN NoRequest
    ELSE Accepted(raw, e, words, headers)

\* The words of the first line.
FirstWords(head) == Words(Split(WithoutCR(Split(head, LF)[1]), SP))
\* The headers of a head.
HeadersOf(head) == ParseHeaders(Tail(Split(head, LF)))

\* Parse, with names for what it computes on the way.
LEMMA ParseUnfolded ==
    ASSUME NEW raw
    PROVE  Parse(raw) = Parsed(raw, EndOf(raw), FirstWords(Before(raw, EndOf(raw))),
                               HeadersOf(Before(raw, EndOf(raw))))
BY Zenon DEF Parse, Parsed, Accepted, LengthIn, FirstWords, HeadersOf, EndOf, EmptyLine

\* What the server is to make of a request of which n bytes have arrived.
Understood(r, n, p) ==
    /\ p.accepted <=> n = Len(Serialize(r))
    /\ p.accepted =>
        /\ p.method = <<r.method>>
        /\ p.path = Target(r)
        /\ p.query = IF r.query = <<>> THEN <<>> ELSE [k \in {<<"k">>} |-> r.query]
        /\ DOMAIN p.cookies = {<<c[1]>> : c \in Range(r.cookies)}
        /\ \A c \in Range(r.cookies) : p.cookies[<<c[1]>>] = <<c[2]>>
        /\ p.body = r.body

\* The bytes of a request are a head of this form and the body.
LEMMA RequestIs ==
    ASSUME NEW r \in Request
    PROVE  /\ HeadOf(Head4(r), RequestLine(r), Fields4(r))
           /\ RawIs(Serialize(r), Head4(r), r.body)
           /\ r.body \in Seq(Byte)
           /\ Head4(r) \in Seq(Byte)
           /\ NoEmptyLine(Head4(r))
           /\ Serialize(r) \in Seq(Byte)
<1>1. RequestLine(r) \in Seq(LineByte)
  BY LineJoined, Zenon
<1>2. /\ CookieText(r.cookies) \in Seq(LineByte)
      /\ r.cookies # <<>> => CookieField(r) \in HeaderRecord
  BY CookieFieldIs, Zenon
<1>3. /\ HeadOf(Head4(r), RequestLine(r), Fields4(r))
      /\ Serialize(r) = ((Head4(r) \o CRLF) \o CRLF) \o r.body
  BY <1>1, <1>2, HeadAndBody, Zenon
<1>4. r.body \in Seq(Byte)
  <2>1. r.body \in Seq(Word \cup Reserved)
    BY RequestAssumption
  <2>2. Word \cup Reserved \subseteq Byte
    BY Zenon DEF Byte
  <2>3. QED
    BY <2>1, <2>2, SeqMonotonic
<1>5. Head4(r) \in Seq(Byte) /\ NoEmptyLine(Head4(r))
  BY <1>3, Zenon DEF HeadOf
<1>6. RawIs(Serialize(r), Head4(r), r.body)
  BY <1>3, <1>4, <1>5, RawValues, Zenon
<1>7. Serialize(r) \in Seq(Byte)
  BY <1>6, Zenon DEF RawIs
<1>8. QED
  BY <1>3, <1>4, <1>5, <1>6, <1>7, Zenon

\* The headers the parser finds in a request.
LEMMA HeadersFound ==
    ASSUME NEW r \in Request
    PROVE  /\ FirstWords(Head4(r)) = LineWords(r)
           /\ <<"Content-Length">> \in DOMAIN HeadersOf(Head4(r)) <=> r.body # <<>>
           /\ LengthIn(HeadersOf(Head4(r))) = Len(r.body)
           /\ <<"Cookie">> \in DOMAIN HeadersOf(Head4(r)) <=> r.cookies # <<>>
           /\ r.cookies # <<>> => HeadersOf(Head4(r))[<<"Cookie">>] = CookieText(r.cookies)
<1> DEFINE B == Head4(r)
           H == HeadersOf(B)
           hs == Fields4(r)
           T == Table(Pairs(hs))
<1>1. HeadOf(B, RequestLine(r), hs)
  BY RequestIs, Zenon
<1>2. FirstWords(B) = LineWords(r)
  <2>1. WithoutCR(Split(B, LF)[1]) = RequestLine(r)
    BY <1>1, LinesRead, Zenon
  <2>2. Words(Split(RequestLine(r), SP)) = LineWords(r)
    BY WordsRead, Zenon
  <2>3. QED
    BY <2>1, <2>2, Zenon DEF FirstWords
<1>3. H = T
  <2>1. ParseHeaders(Tail(Split(B, LF))) = Table(Pairs(hs))
    BY <1>1, HeadersRead, Zenon
  <2>2. QED
    BY <2>1, Zenon DEF HeadersOf
<1>4. /\ FieldIs(hs, "Cookie", r.cookies # <<>>, CookieText(r.cookies))
      /\ FieldIs(hs, "Content-Length", r.body # <<>>, Decimal(Len(r.body)))
      /\ Len(hs) \in Nat
  <2>1. r.cookies # <<>> => CookieField(r) \in HeaderRecord
    BY CookieFieldIs, Zenon
  <2>2. QED
    BY <2>1, FieldsOfRequest, Zenon
<1> HIDE DEF B, H, hs, T
<1>5. \A name, value :
         /\ Lacks(hs, name) => <<name>> \notin DOMAIN T
         /\ Carries(hs, name, value) => <<name>> \in DOMAIN T /\ T[<<name>>] = value
  BY <1>4, HeaderTable, Zenon DEF T
<1>6. r.cookies # <<>> => /\ <<"Cookie">> \in DOMAIN H
                          /\ H[<<"Cookie">>] = CookieText(r.cookies)
  <2>1. r.cookies # <<>> => Carries(hs, "Cookie", CookieText(r.cookies))
    BY <1>4, Zenon DEF FieldIs
  <2>2. QED
    BY <1>3, <1>5, <2>1, Zenon
<1>7. r.cookies = <<>> => <<"Cookie">> \notin DOMAIN H
  <2>1. r.cookies = <<>> => Lacks(hs, "Cookie")
    BY <1>4, Zenon DEF FieldIs
  <2>2. QED
    BY <1>3, <1>5, <2>1, Zenon
<1>8. r.body # <<>> => /\ <<"Content-Length">> \in DOMAIN H
                       /\ H[<<"Content-Length">>] = Decimal(Len(r.body))
  <2>1. r.body # <<>> => Carries(hs, "Content-Length", Decimal(Len(r.body)))
    BY <1>4, Zenon DEF FieldIs
  <2>2. QED
    BY <1>3, <1>5, <2>1, Zenon
<1>9. r.body = <<>> => <<"Content-Length">> \notin DOMAIN H
  <2>1. r.body = <<>> => Lacks(hs, "Content-Length")
    BY <1>4, Zenon DEF FieldIs
  <2>2. QED
    BY <1>3, <1>5, <2>1, Zenon
<1>10. LengthIn(H) = Len(r.body)
  <2>1. CASE r.body = <<>>
    <3>1. Len(r.body) = 0
      BY <2>1
    <3>2. QED
      BY <1>9, <2>1, <3>1, Zenon DEF LengthIn
  <2>2. CASE r.body # <<>>
    <3>1. Len(r.body) \in Nat
      BY RequestIs, LenProperties
    <3>2. ToNumber(Decimal(Len(r.body))) = Len(r.body)
      BY <3>1, ReadAsWritten, Zenon DEF IsDecimal
    <3>3. QED
      BY <1>8, <2>2, <3>2, Zenon DEF LengthIn
  <2>3. QED
    BY <2>1, <2>2, Zenon
<1>11. QED
  BY <1>2, <1>6, <1>7, <1>8, <1>9, <1>10, Zenon DEF B, H

\* Where the fields of an accepted request come from.
FieldsAre(p, raw, e, words, headers) ==
    /\ p.accepted
    /\ p.method = words[1]
    /\ p.path = PathOf(words[2], Find(words[2], "?"))
    /\ p.query = IF Find(words[2], "?") = 0 THEN <<>>
                 ELSE ParseQueryParams(From(words[2], Find(words[2], "?") + 1))
    /\ p.cookies = IF <<"Cookie">> \in DOMAIN headers
                   THEN ParseCookies(headers[<<"Cookie">>]) ELSE <<>>
    /\ p.body = Substr(raw, e + 4, LengthIn(headers))

\* The fields of a request that the parser accepts.
LEMMA FieldsOfAccepted ==
    ASSUME NEW raw, NEW e, NEW words, NEW headers
    PROVE  FieldsAre(Accepted(raw, e, words, headers), raw, e, words, headers)
BY DEF Accepted, FieldsAre

\* Whatever is cut off, only the whole request is accepted, and it is what the
\* client means.
THEOREM RequestUnderstood ==
    ASSUME NEW r \in Request, NEW n \in 0..Len(Serialize(r)), NEW p,
           p = Parse(SubSeq(Serialize(r), 1, n))
    PROVE  Understood(r, n, p)
<1> DEFINE w == Serialize(r)
           s == SubSeq(w, 1, n)
           B == Head4(r)
           b == r.body
           m == Len(B)
           H == HeadersOf(B)
           W == LineWords(r)
<1>1. /\ RawIs(w, B, b) /\ B \in Seq(Byte) /\ b \in Seq(Byte) /\ NoEmptyLine(B) /\ w \in Seq(Byte)
  BY RequestIs, Zenon
<1>2. EndOf(s) = IF m + 4 <= n THEN m + 1 ELSE 0
  BY <1>1, HeadEnd, Zenon
<1>3. p = Parsed(s, EndOf(s), FirstWords(Before(s, EndOf(s))), HeadersOf(Before(s, EndOf(s))))
  BY ParseUnfolded, Zenon
<1>4. Len(w) = m + 4 + Len(b) /\ m \in Nat /\ Len(b) \in Nat
  BY <1>1, LenProperties DEF RawIs
<1>5. NoRequest.accepted = FALSE
  BY DEF NoRequest
<1>6. /\ FirstWords(B) = W
      /\ <<"Content-Length">> \in DOMAIN H <=> b # <<>>
      /\ LengthIn(H) = Len(b)
      /\ <<"Cookie">> \in DOMAIN H <=> r.cookies # <<>>
      /\ r.cookies # <<>> => H[<<"Cookie">>] = CookieText(r.cookies)
  BY HeadersFound, Zenon
<1>7. Len(W) = 3 /\ W[1] = <<r.method>> /\ W[2] = SentTarget(r)
  BY WordsRead, Zenon
<1>8. CASE ~ (m + 4 <= n)
  <2>1. p = NoRequest
    BY <1>2, <1>3, <1>8, Zenon DEF Parsed
  <2>2. n # Len(w)
    <3> HIDE DEF w, m, b
    <3>1. QED
      BY <1>4, <1>8
  <2>3. ~ p.accepted
    BY <1>5, <2>1, Zenon
  <2>4. QED
    BY <2>2, <2>3, Zenon DEF Understood
<1>9. CASE m + 4 <= n
  <2>1. EndOf(s) = m + 1
    BY <1>2, <1>9, Zenon
  <2>2. /\ Before(s, m + 1) = B
        /\ Missing(s, (m + 1) + 4, Len(b)) <=> n # Len(w)
        /\ n = Len(w) => Substr(s, (m + 1) + 4, Len(b)) = b
    <3>1. m + 4 <= n /\ n \in 0..Len(w)
      BY <1>9
    <3> HIDE DEF w, B, b
    <3>2. SplitAs(s, n, w, B, b)
      BY <1>1, <3>1, PartsOfRaw, Zenon
    <3>3. QED
      BY <3>2, Zenon DEF SplitAs
  <2>3. p = Parsed(s, m + 1, W, H)
    BY <1>3, <1>6, <2>1, <2>2, Zenon
  <2>4. m + 1 # 0 /\ ~ (Len(W) < 3)
    <3> HIDE DEF m, W
    <3>1. QED
      BY <1>4, <1>7
  <2>5. CASE n # Len(w)
    <3>1. b # <<>>
      <4>1. Len(b) # 0
        <5>1. n \in 0..Len(w)
          OBVIOUS
        <5> HIDE DEF w, m, b, s, B, H, W
        <5>2. QED
          BY <1>4, <1>9, <2>5, <5>1
      <4>2. QED
        BY <4>1
    <3>2. p = NoRequest
      BY <1>6, <2>2, <2>3, <2>4, <2>5, <3>1, Zenon DEF Parsed
    <3>3. ~ p.accepted
      BY <1>5, <3>2, Zenon
    <3>4. QED
      BY <2>5, <3>3, Zenon DEF Understood
  <2>6. CASE n = Len(w)
    <3>1. p = Accepted(s, m + 1, W, H)
      BY <1>6, <2>2, <2>3, <2>4, <2>6, Zenon DEF Parsed
    <3> HIDE DEF w, s, B, b, m, H, W
    <3>2. /\ p.accepted /\ p.method = W[1] /\ p.path = PathOf(W[2], Find(W[2], "?"))
          /\ p.query = IF Find(W[2], "?") = 0 THEN <<>>
                       ELSE ParseQueryParams(From(W[2], Find(W[2], "?") + 1))
          /\ p.cookies = IF <<"Cookie">> \in DOMAIN H
                         THEN ParseCookies(H[<<"Cookie">>]) ELSE <<>>
          /\ p.body = Substr(s, (m + 1) + 4, LengthIn(H))
      <4>1. FieldsAre(p, s, m + 1, W, H)
        BY <3>1, FieldsOfAccepted, Zenon
      <4>2. QED
        BY <4>1, Zenon DEF FieldsAre
    <3>3. p.method = <<r.method>>
      BY <1>7, <3>2, Zenon
    <3>4. p.path = Target(r)
      BY <1>7, <3>2, PathRead, Zenon
    <3>5. p.query = IF r.query = <<>> THEN <<>> ELSE [k \in {<<"k">>} |-> r.query]
      <4>1. CASE r.query = <<>>
        BY <1>7, <3>2, <4>1, PathRead, Zenon
      <4>2. CASE r.query # <<>>
        <5>1. r.query \in Seq(Word \cup DOMAIN Code)
          BY RequestAssumption
        <5>2. ParseQueryParams(KeyAndValue(r.query)) = [k \in {<<"k">>} |-> r.query]
          BY <4>2, <5>1, QueryRead, Zenon
        <5>3. /\ Find(SentTarget(r), "?") # 0
              /\ From(SentTarget(r), Find(SentTarget(r), "?") + 1) = KeyAndValue(r.query)
          BY <4>2, PathRead, Zenon
        <5>4. p.query = [k \in {<<"k">>} |-> r.query]
          BY <1>7, <3>2, <5>2, <5>3, Zenon
        <5>5. QED
          BY <4>2, <5>4, Zenon
      <4>3. QED
        BY <4>1, <4>2, Zenon
    <3>6. /\ DOMAIN p.cookies = {<<c[1]>> : c \in Range(r.cookies)}
          /\ \A c \in Range(r.cookies) : p.cookies[<<c[1]>>] = <<c[2]>>
      <4>0. /\ r.cookies \in Seq(Word \X Word)
            /\ \A i, j \in DOMAIN r.cookies : r.cookies[i][1] = r.cookies[j][1] => i = j
        BY RequestAssumption
      <4>1. CASE r.cookies = <<>>
        <5>1. p.cookies = <<>>
          BY <1>6, <3>2, <4>1, Zenon
        <5>2. DOMAIN <<>> = {}
          OBVIOUS
        <5>3. Range(r.cookies) = {}
          BY <4>1, <5>2, Zenon DEF Range
        <5>4. QED
          BY <5>1, <5>2, <5>3, Zenon
      <4>2. CASE r.cookies # <<>>
        <5>1. p.cookies = ParseCookies(CookieText(r.cookies))
          BY <1>6, <3>2, <4>2, Zenon
        <5>2. /\ DOMAIN ParseCookies(CookieText(r.cookies)) = {<<c[1]>> : c \in Range(r.cookies)}
              /\ \A c \in Range(r.cookies) : ParseCookies(CookieText(r.cookies))[<<c[1]>>] = <<c[2]>>
          BY <4>0, <4>2, CookiesRead, Zenon
        <5>3. QED
          BY <5>1, <5>2, Zenon
      <4>3. QED
        BY <4>1, <4>2, Zenon
    <3>7. p.body = r.body
      BY <1>6, <2>2, <2>6, <3>2, Zenon DEF b
    <3>8. QED
      BY <2>6, <3>2, <3>3, <3>4, <3>5, <3>6, <3>7, Zenon DEF Understood, w
  <2>7. QED
    BY <2>5, <2>6, Zenon
<1>10. QED
  BY <1>8, <1>9, Zenon

-----------------------------------------------------------------------------
(* What is parsed is what has arrived.                                     *)

\* parsed is what the parser makes of what has arrived.
ParsedInv ==
    /\ meant \in Request
    /\ arrived \in 0..Len(Serialize(meant))
    /\ parsed = IF phase = "arriving" THEN NoRequest
                ELSE Parse(SubSeq(Serialize(meant), 1, arrived))

\* Nothing has arrived and nothing is parsed at first.
LEMMA ParsedInit == RoutingInit => ParsedInv
<1> SUFFICES ASSUME RoutingInit PROVE ParsedInv
  OBVIOUS
<1>1. meant \in Request /\ arrived = 0 /\ parsed = NoRequest /\ phase = "arriving"
  BY Zenon DEF RoutingInit
<1>2. Len(Serialize(meant)) \in Nat
  BY <1>1, RequestIs, LenProperties
<1>3. arrived \in 0..Len(Serialize(meant))
  BY <1>1, <1>2
<1>4. QED
  BY <1>1, <1>3, Zenon DEF ParsedInv

\* Every step parses what has arrived.
LEMMA ParsedNext == ParsedInv /\ [RoutingNext]_routingVars => ParsedInv'
<1> SUFFICES ASSUME ParsedInv, [RoutingNext]_routingVars PROVE ParsedInv'
  OBVIOUS
<1>1. CASE Arrive
  <2>1. /\ phase = "arriving" /\ arrived < Len(Serialize(meant)) /\ arrived' = arrived + 1
        /\ meant' = meant /\ parsed' = parsed /\ phase' = phase
    BY <1>1, Zenon DEF Arrive
  <2>2. Len(Serialize(meant)) \in Nat
    BY RequestIs, LenProperties DEF ParsedInv
  <2>3. arrived \in 0..Len(Serialize(meant)) /\ meant \in Request /\ parsed = NoRequest
    BY <2>1, Zenon DEF ParsedInv
  <2>4. arrived' \in 0..Len(Serialize(meant))
    BY <2>1, <2>2, <2>3
  <2>5. QED
    BY <2>1, <2>3, <2>4, Zenon DEF ParsedInv
<1>2. CASE Read
  <2>1. /\ parsed' = Parse(SubSeq(Serialize(meant), 1, arrived))
        /\ phase' = "routing" \/ phase' = "answered"
        /\ meant' = meant /\ arrived' = arrived
    BY <1>2, Zenon DEF Read, AnswerWith
  <2>2. phase' # "arriving"
    BY <2>1
  <2>3. QED
    BY <2>1, <2>2, Zenon DEF ParsedInv
<1>3. ASSUME UNCHANGED request, phase # "arriving", phase' # "arriving" PROVE ParsedInv'
  <2>1. meant' = meant /\ arrived' = arrived /\ parsed' = parsed
    BY <1>3 DEF request
  <2>2. QED
    BY <1>3, <2>1, Zenon DEF ParsedInv
<1>4. CASE Expire
  <2>1. UNCHANGED request /\ phase' = phase /\ phase \in {"routing", "handler"}
    BY <1>4, Zenon DEF Expire
  <2>2. phase # "arriving"
    BY <2>1
  <2>3. QED
    BY <1>3, <2>1, <2>2, Zenon
<1>5. CASE Preflight \/ NoRoute
  <2>1. UNCHANGED request /\ phase = "routing" /\ phase' = "answered"
    BY <1>5, Zenon DEF Preflight, NoRoute, AnswerWith
  <2>2. phase # "arriving" /\ phase' # "arriving"
    BY <2>1
  <2>3. QED
    BY <1>3, <2>1, <2>2, Zenon
<1>6. CASE RouteRequest
  <2>1. UNCHANGED request /\ phase = "routing" /\ (phase' = "answered" \/ phase' = "handler")
    BY <1>6, Zenon DEF RouteRequest, AnswerWith
  <2>2. phase # "arriving" /\ phase' # "arriving"
    BY <2>1
  <2>3. QED
    BY <1>3, <2>1, <2>2, Zenon
<1>7. CASE Handle
  <2>1. UNCHANGED request /\ phase = "handler" /\ phase' = "answered"
    BY <1>7, Zenon DEF Handle, AnswerWith
  <2>2. phase # "arriving" /\ phase' # "arriving"
    BY <2>1
  <2>3. QED
    BY <1>3, <2>1, <2>2, Zenon
<1>8. CASE UNCHANGED routingVars
  <2>1. UNCHANGED request /\ phase' = phase
    BY <1>8 DEF routingVars
  <2>2. meant' = meant /\ arrived' = arrived /\ parsed' = parsed
    BY <2>1 DEF request
  <2>3. QED
    BY <2>1, <2>2, Zenon DEF ParsedInv
<1>9. QED
  BY <1>1, <1>2, <1>4, <1>5, <1>6, <1>7, <1>8, Zenon DEF RoutingNext

\* What is parsed is understood as it was meant.
LEMMA ParsedIsUnderstood == ParsedInv => UnderstoodAsMeant
<1> SUFFICES ASSUME ParsedInv PROVE UnderstoodAsMeant
  OBVIOUS
<1>1. CASE phase = "arriving"
  <2>1. parsed = NoRequest
    BY <1>1, Zenon DEF ParsedInv
  <2>2. ~ parsed.accepted
    BY <2>1 DEF NoRequest
  <2>3. QED
    BY <1>1, <2>2, Zenon DEF UnderstoodAsMeant
<1>2. CASE phase # "arriving"
  <2>1. Understood(meant, arrived, parsed)
    BY <1>2, RequestUnderstood, Zenon DEF ParsedInv
  <2>2. QED
    BY <2>1, Zenon DEF Understood, UnderstoodAsMeant
<1>3. QED
  BY <1>1, <1>2, Zenon

\* Whatever the client sends and wherever TCP cuts it off: the parser accepts the
\* request exactly when all of it has arrived, and then finds the method, path,
\* query, cookies and body the client meant (HttpRequest::parse).
THEOREM AlwaysUnderstoodAsMeant == RoutingSpec => []UnderstoodAsMeant
<1>1. RoutingInit => ParsedInv
  BY ParsedInit
<1>2. ParsedInv /\ [RoutingNext]_routingVars => ParsedInv'
  BY ParsedNext
<1>3. ParsedInv => UnderstoodAsMeant
  BY ParsedIsUnderstood
<1>4. QED
  BY <1>1, <1>2, <1>3, PTL DEF RoutingSpec

-----------------------------------------------------------------------------
(* routeRequest: the table of routes.                                     *)

\* The routes of the five services.
Registered ==
    {AuthRoutes[i] : i \in 1..3} \cup {RoomRoutes[i] : i \in 1..7}
        \cup {MessageRoutes[i] : i \in 1..1} \cup {UserRoutes[i] : i \in 1..4}
        \cup {ServerRoutes[i] : i \in 1..5}

\* A list that is written down is a sequence of its elements.
LEMMA ListIsSeq ==
    ASSUME NEW s, NEW n \in Nat, NEW S, s = [i \in 1..n |-> s[i]],
           \A i \in 1..n : s[i] \in S
    PROVE  s \in Seq(S) /\ Len(s) = n
OBVIOUS

\* How many routes each registerRoutes adds.
LEMMA AuthCounted == AuthRoutes \in Seq(Registered) /\ Len(AuthRoutes) = 3
<1>1. AuthRoutes = [i \in 1..3 |-> AuthRoutes[i]]
  BY DEF AuthRoutes
<1>2. \A i \in 1..3 : AuthRoutes[i] \in Registered
  BY DEF Registered
<1>3. QED
  BY <1>1, <1>2, ListIsSeq

\* The routes of the room service.
LEMMA RoomCounted == RoomRoutes \in Seq(Registered) /\ Len(RoomRoutes) = 7
<1>1. RoomRoutes = [i \in 1..7 |-> RoomRoutes[i]]
  BY DEF RoomRoutes
<1>2. \A i \in 1..7 : RoomRoutes[i] \in Registered
  BY DEF Registered
<1>3. QED
  BY <1>1, <1>2, ListIsSeq

\* The route of the message service.
LEMMA MessageCounted == MessageRoutes \in Seq(Registered) /\ Len(MessageRoutes) = 1
<1>1. MessageRoutes = [i \in 1..1 |-> MessageRoutes[i]]
  BY DEF MessageRoutes
<1>2. \A i \in 1..1 : MessageRoutes[i] \in Registered
  BY DEF Registered
<1>3. QED
  BY <1>1, <1>2, ListIsSeq

\* The routes of the user service.
LEMMA UserCounted == UserRoutes \in Seq(Registered) /\ Len(UserRoutes) = 4
<1>1. UserRoutes = [i \in 1..4 |-> UserRoutes[i]]
  BY DEF UserRoutes
<1>2. \A i \in 1..4 : UserRoutes[i] \in Registered
  BY DEF Registered
<1>3. QED
  BY <1>1, <1>2, ListIsSeq

\* The routes of the server service.
LEMMA ServerCounted == ServerRoutes \in Seq(Registered) /\ Len(ServerRoutes) = 5
<1>1. ServerRoutes = [i \in 1..5 |-> ServerRoutes[i]]
  BY DEF ServerRoutes
<1>2. \A i \in 1..5 : ServerRoutes[i] \in Registered
  BY DEF Registered
<1>3. QED
  BY <1>1, <1>2, ListIsSeq

\* Two lists, one behind the other.
LEMMA Two ==
    ASSUME NEW S, NEW a \in Seq(S), NEW b \in Seq(S)
    PROVE  /\ a \o b \in Seq(S) /\ Len(a \o b) = Len(a) + Len(b)
           /\ \A i \in 1..Len(a) : (a \o b)[i] = a[i]
           /\ \A i \in 1..Len(b) : (a \o b)[Len(a) + i] = b[i]
OBVIOUS

\* The table is the five lists, one behind the other.
LEMMA RouteAt ==
    /\ DOMAIN Routes = 1..20
    /\ \A i \in 1..3 : Routes[i] = AuthRoutes[i]
    /\ \A i \in 1..7 : Routes[3 + i] = RoomRoutes[i]
    /\ \A i \in 1..1 : Routes[10 + i] = MessageRoutes[i]
    /\ \A i \in 1..4 : Routes[11 + i] = UserRoutes[i]
    /\ \A i \in 1..5 : Routes[15 + i] = ServerRoutes[i]
<1> DEFINE a == AuthRoutes
           b == RoomRoutes
           c == MessageRoutes
           d == UserRoutes
           e == ServerRoutes
           s == Routes
           ab == a \o b
           abc == ab \o c
           abcd == abc \o d
<1>a. s = abcd \o e
  BY DEF Routes
<1>b. /\ a \in Seq(Registered) /\ b \in Seq(Registered) /\ c \in Seq(Registered)
      /\ d \in Seq(Registered) /\ e \in Seq(Registered)
  BY AuthCounted, RoomCounted, MessageCounted, UserCounted, ServerCounted
<1>c. Len(a) = 3 /\ Len(b) = 7 /\ Len(c) = 1 /\ Len(d) = 4 /\ Len(e) = 5
  BY AuthCounted, RoomCounted, MessageCounted, UserCounted, ServerCounted
<1> HIDE DEF a, b, c, d, e, s
<1>1. /\ ab \in Seq(Registered) /\ abc \in Seq(Registered)
      /\ abcd \in Seq(Registered) /\ abcd \o e \in Seq(Registered)
  BY <1>b
<1>2. /\ Len(ab) = Len(a) + Len(b)
      /\ \A i \in 1..Len(a) : ab[i] = a[i]
      /\ \A i \in 1..Len(b) : ab[Len(a) + i] = b[i]
  BY <1>b, Two
<1> HIDE DEF ab
<1>3. /\ Len(abc) = Len(ab) + Len(c)
      /\ \A i \in 1..Len(ab) : abc[i] = ab[i]
      /\ \A i \in 1..Len(c) : abc[Len(ab) + i] = c[i]
  BY <1>b, <1>1, Two
<1> HIDE DEF abc
<1>4. /\ Len(abcd) = Len(abc) + Len(d)
      /\ \A i \in 1..Len(abc) : abcd[i] = abc[i]
      /\ \A i \in 1..Len(d) : abcd[Len(abc) + i] = d[i]
  BY <1>b, <1>1, Two
<1> HIDE DEF abcd
<1>5. /\ Len(s) = Len(abcd) + Len(e)
      /\ \A i \in 1..Len(abcd) : s[i] = abcd[i]
      /\ \A i \in 1..Len(e) : s[Len(abcd) + i] = e[i]
  BY <1>a, <1>b, <1>1, Two
<1>6. DOMAIN s = 1..Len(s)
  BY <1>a, <1>1
<1>7. /\ Len(a) \in Nat /\ Len(b) \in Nat /\ Len(c) \in Nat /\ Len(d) \in Nat
      /\ Len(e) \in Nat
  BY <1>b
<1>8. DOMAIN s = 1..(Len(a) + Len(b) + Len(c) + Len(d) + Len(e))
  BY <1>2, <1>3, <1>4, <1>5, <1>6, <1>7
<1>9. \A i \in 1..Len(ab) : s[i] = ab[i]
  <2>1. \A i \in 1..Len(ab) : i \in 1..Len(abc) /\ i \in 1..Len(abcd)
    BY <1>2, <1>3, <1>4, <1>7
  <2>2. QED
    BY <2>1, <1>3, <1>4, <1>5
<1>10. \A i \in 1..Len(a) : s[i] = a[i]
  <2>1. \A i \in 1..Len(a) : i \in 1..Len(ab)
    BY <1>2, <1>7
  <2>2. QED
    BY <2>1, <1>2, <1>9
<1>11. \A i \in 1..Len(b) : s[Len(a) + i] = b[i]
  <2>1. \A i \in 1..Len(b) : Len(a) + i \in 1..Len(ab)
    BY <1>2, <1>7
  <2>2. QED
    BY <2>1, <1>2, <1>9
<1>12. \A i \in 1..Len(c) : s[Len(a) + Len(b) + i] = c[i]
  <2>1. \A i \in 1..Len(c) : Len(ab) + i \in 1..Len(abc) /\ Len(ab) + i \in 1..Len(abcd)
    BY <1>2, <1>3, <1>4, <1>7
  <2>2. \A i \in 1..Len(c) : s[Len(ab) + i] = c[i]
    BY <2>1, <1>3, <1>4, <1>5
  <2>3. QED
    BY <2>2, <1>2
<1>13. \A i \in 1..Len(d) : s[Len(a) + Len(b) + Len(c) + i] = d[i]
  <2>1. \A i \in 1..Len(d) : Len(abc) + i \in 1..Len(abcd)
    BY <1>2, <1>3, <1>4, <1>7
  <2>2. \A i \in 1..Len(d) : s[Len(abc) + i] = d[i]
    BY <2>1, <1>4, <1>5
  <2>3. QED
    BY <2>2, <1>2, <1>3
<1>14. \A i \in 1..Len(e) : s[Len(a) + Len(b) + Len(c) + Len(d) + i] = e[i]
  BY <1>2, <1>3, <1>4, <1>5
<1>15. /\ DOMAIN s = 1..20
       /\ \A i \in 1..3 : s[i] = a[i]
       /\ \A i \in 1..7 : s[3 + i] = b[i]
       /\ \A i \in 1..1 : s[10 + i] = c[i]
       /\ \A i \in 1..4 : s[11 + i] = d[i]
       /\ \A i \in 1..5 : s[15 + i] = e[i]
  BY <1>c, <1>8, <1>10, <1>11, <1>12, <1>13, <1>14
<1>16. QED
  BY <1>15 DEF a, b, c, d, e, s

\* What the proofs ask about a route.
Guarded(r) == r.auth \/ r.handler \in Open

Literal(r) == \A k \in DOMAIN r.path : r.path[k] \notin Param

\* The same, place by place.
LEMMA Places ==
    /\ Routes[1] = AuthRoutes[1]
    /\ Routes[2] = AuthRoutes[2]
    /\ Routes[3] = AuthRoutes[3]
    /\ Routes[4] = RoomRoutes[1]
    /\ Routes[5] = RoomRoutes[2]
    /\ Routes[6] = RoomRoutes[3]
    /\ Routes[7] = RoomRoutes[4]
    /\ Routes[8] = RoomRoutes[5]
    /\ Routes[9] = RoomRoutes[6]
    /\ Routes[10] = RoomRoutes[7]
    /\ Routes[11] = MessageRoutes[1]
    /\ Routes[12] = UserRoutes[1]
    /\ Routes[13] = UserRoutes[2]
    /\ Routes[14] = UserRoutes[3]
    /\ Routes[15] = UserRoutes[4]
    /\ Routes[16] = ServerRoutes[1]
    /\ Routes[17] = ServerRoutes[2]
    /\ Routes[18] = ServerRoutes[3]
    /\ Routes[19] = ServerRoutes[4]
    /\ Routes[20] = ServerRoutes[5]
BY RouteAt

\* The numbers of the routes, one by one.
LEMMA Numbers ==
    \A i \in DOMAIN Routes :
      \/ i = 1 \/ i = 2 \/ i = 3 \/ i = 4 \/ i = 5 \/ i = 6 \/ i = 7
      \/ i = 8 \/ i = 9 \/ i = 10 \/ i = 11 \/ i = 12 \/ i = 13 \/ i = 14
      \/ i = 15 \/ i = 16 \/ i = 17 \/ i = 18 \/ i = 19 \/ i = 20
BY RouteAt

\* Every route asks for a token or is open.
LEMMA AllGuarded == \A i \in DOMAIN Routes : Guarded(Routes[i])
<1>1. /\ Guarded(AuthRoutes[1]) /\ Guarded(AuthRoutes[2])
      /\ Guarded(AuthRoutes[3])
  BY DEF Guarded, AuthRoutes, R, Open
<1>2. /\ Guarded(RoomRoutes[1]) /\ Guarded(RoomRoutes[2])
      /\ Guarded(RoomRoutes[3]) /\ Guarded(RoomRoutes[4])
      /\ Guarded(RoomRoutes[5]) /\ Guarded(RoomRoutes[6])
      /\ Guarded(RoomRoutes[7])
  BY DEF Guarded, RoomRoutes, R, Open
<1>3. /\ Guarded(MessageRoutes[1])
  BY DEF Guarded, MessageRoutes, R, Open
<1>4. /\ Guarded(UserRoutes[1]) /\ Guarded(UserRoutes[2])
      /\ Guarded(UserRoutes[3]) /\ Guarded(UserRoutes[4])
  BY DEF Guarded, UserRoutes, R, Open
<1>5. /\ Guarded(ServerRoutes[1]) /\ Guarded(ServerRoutes[2])
      /\ Guarded(ServerRoutes[3]) /\ Guarded(ServerRoutes[4])
      /\ Guarded(ServerRoutes[5])
  BY DEF Guarded, ServerRoutes, R, Open
<1>6. /\ Guarded(Routes[1]) /\ Guarded(Routes[2])
      /\ Guarded(Routes[3]) /\ Guarded(Routes[4])
      /\ Guarded(Routes[5]) /\ Guarded(Routes[6])
      /\ Guarded(Routes[7]) /\ Guarded(Routes[8])
      /\ Guarded(Routes[9]) /\ Guarded(Routes[10])
      /\ Guarded(Routes[11]) /\ Guarded(Routes[12])
      /\ Guarded(Routes[13]) /\ Guarded(Routes[14])
      /\ Guarded(Routes[15]) /\ Guarded(Routes[16])
      /\ Guarded(Routes[17]) /\ Guarded(Routes[18])
      /\ Guarded(Routes[19]) /\ Guarded(Routes[20])
  BY <1>1, <1>2, <1>3, <1>4, <1>5, Places
<1>7. QED
  BY <1>6, Numbers, Zenon

\* The paths of the routes.
LEMMA Paths ==
    /\ Routes[1].path = <<"auth", "register">>
    /\ Routes[2].path = <<"auth", "login">>
    /\ Routes[3].path = <<"auth", "logout">>
    /\ Routes[4].path = <<"rooms">>
    /\ Routes[5].path = <<"rooms">>
    /\ Routes[6].path = <<"rooms", "joined">>
    /\ Routes[7].path = <<"rooms", "join">>
    /\ Routes[8].path = <<"rooms", "leave">>
    /\ Routes[9].path = <<"rooms", "{room_id}">>
    /\ Routes[10].path = <<"rooms", "{room_id}">>
    /\ Routes[11].path = <<"messages">>
    /\ Routes[12].path = <<"users", "me">>
    /\ Routes[13].path = <<"users">>
    /\ Routes[14].path = <<"users", "{userId}">>
    /\ Routes[15].path = <<"users", "{userId}", "status">>
    /\ Routes[16].path = <<"health">>
    /\ Routes[17].path = <<"info">>
    /\ Routes[18].path = <<"echo">>
    /\ Routes[19].path = <<"echo">>
    /\ Routes[20].path = <<"protected">>
<1>1. /\ AuthRoutes[1].path = <<"auth", "register">>
      /\ AuthRoutes[2].path = <<"auth", "login">>
      /\ AuthRoutes[3].path = <<"auth", "logout">>
  BY DEF AuthRoutes, R
<1>2. /\ RoomRoutes[1].path = <<"rooms">>
      /\ RoomRoutes[2].path = <<"rooms">>
      /\ RoomRoutes[3].path = <<"rooms", "joined">>
      /\ RoomRoutes[4].path = <<"rooms", "join">>
      /\ RoomRoutes[5].path = <<"rooms", "leave">>
      /\ RoomRoutes[6].path = <<"rooms", "{room_id}">>
      /\ RoomRoutes[7].path = <<"rooms", "{room_id}">>
  BY DEF RoomRoutes, R
<1>3. /\ MessageRoutes[1].path = <<"messages">>
  BY DEF MessageRoutes, R
<1>4. /\ UserRoutes[1].path = <<"users", "me">>
      /\ UserRoutes[2].path = <<"users">>
      /\ UserRoutes[3].path = <<"users", "{userId}">>
      /\ UserRoutes[4].path = <<"users", "{userId}", "status">>
  BY DEF UserRoutes, R
<1>5. /\ ServerRoutes[1].path = <<"health">>
      /\ ServerRoutes[2].path = <<"info">>
      /\ ServerRoutes[3].path = <<"echo">>
      /\ ServerRoutes[4].path = <<"echo">>
      /\ ServerRoutes[5].path = <<"protected">>
  BY DEF ServerRoutes, R
<1>6. QED
  BY <1>1, <1>2, <1>3, <1>4, <1>5, Places

\* What a path looks like: only four have a parameter.
PathWords == {"auth", "echo", "health", "info", "join", "joined", "leave", "login",
           "logout", "me", "messages", "protected", "register", "rooms", "users"}

\* A path without a parameter is one or two words.
LEMMA Shapes ==
    \A i \in DOMAIN Routes :
        \/ \E v \in PathWords : Routes[i].path = <<v>>
        \/ \E v, w \in PathWords : Routes[i].path = <<v, w>>
        \/ i = 9 \/ i = 10 \/ i = 14 \/ i = 15
<1>1. /\ "auth" \in PathWords /\ "echo" \in PathWords /\ "health" \in PathWords
      /\ "info" \in PathWords /\ "join" \in PathWords /\ "joined" \in PathWords
      /\ "leave" \in PathWords /\ "login" \in PathWords /\ "logout" \in PathWords
      /\ "me" \in PathWords /\ "messages" \in PathWords /\ "protected" \in PathWords
      /\ "register" \in PathWords /\ "rooms" \in PathWords /\ "users" \in PathWords
  BY DEF PathWords
<1> DEFINE S(i) == \/ \E v \in PathWords : Routes[i].path = <<v>>
                   \/ \E v, w \in PathWords : Routes[i].path = <<v, w>>
<1>2. S(1) /\ S(2) /\ S(3)
  BY <1>1, Paths, Zenon
<1>3. S(4) /\ S(5) /\ S(6)
  BY <1>1, Paths, Zenon
<1>4. S(7) /\ S(8) /\ S(11)
  BY <1>1, Paths, Zenon
<1>5. S(12) /\ S(13)
  BY <1>1, Paths, Zenon
<1>6. S(16) /\ S(17) /\ S(18)
  BY <1>1, Paths, Zenon
<1>7. S(19) /\ S(20)
  BY <1>1, Paths, Zenon
<1> HIDE DEF S
<1>8. \A i \in DOMAIN Routes : S(i) \/ i = 9 \/ i = 10 \/ i = 14 \/ i = 15
  BY <1>2, <1>3, <1>4, <1>5, <1>6, <1>7, Numbers, Zenon
<1>9. QED
  BY <1>8, Zenon DEF S

\* What the provers need to know about short sequences.
LEMMA OneWord ==
    ASSUME NEW s, NEW v, s = <<v>>
    PROVE  DOMAIN s = 1..1 /\ \A k \in DOMAIN s : s[k] = v
OBVIOUS

\* The places of a path of two segments.
LEMMA TwoWords ==
    ASSUME NEW s, NEW v, NEW w, s = <<v, w>>
    PROVE  DOMAIN s = 1..2 /\ \A k \in DOMAIN s : s[k] \in {v, w}
OBVIOUS

\* The places of a path of three segments.
LEMMA ThreeWords ==
    ASSUME NEW s, NEW u, NEW v, NEW w, s = <<u, v, w>>
    PROVE  DOMAIN s = 1..3
OBVIOUS

\* The four paths with a parameter.
LEMMA WithParameter ==
    /\ DOMAIN Routes[9].path = 1..2
    /\ DOMAIN Routes[10].path = 1..2
    /\ DOMAIN Routes[14].path = 1..2
    /\ DOMAIN Routes[15].path = 1..3
<1>1. Routes[9].path = <<"rooms", "{room_id}">>
      /\ Routes[10].path = <<"rooms", "{room_id}">>
      /\ Routes[14].path = <<"users", "{userId}">>
  BY Paths, Zenon
<1>2. Routes[15].path = <<"users", "{userId}", "status">>
  BY Paths, Zenon
<1>3. /\ DOMAIN Routes[9].path = 1..2 /\ DOMAIN Routes[10].path = 1..2
      /\ DOMAIN Routes[14].path = 1..2
  BY <1>1, TwoWords
<1>4. DOMAIN Routes[15].path = 1..3
  BY <1>2, ThreeWords
<1>5. QED
  BY <1>3, <1>4

\* The routes behind them have one segment.
LEMMA LastPaths ==
    \A n \in 16..20 : DOMAIN Routes[n].path = 1..1
<1>1. /\ Routes[16].path = <<"health">> /\ Routes[17].path = <<"info">>
      /\ Routes[18].path = <<"echo">> /\ Routes[19].path = <<"echo">>
      /\ Routes[20].path = <<"protected">>
  BY Paths, Zenon
<1>2. /\ DOMAIN Routes[16].path = 1..1 /\ DOMAIN Routes[17].path = 1..1
      /\ DOMAIN Routes[18].path = 1..1 /\ DOMAIN Routes[19].path = 1..1
      /\ DOMAIN Routes[20].path = 1..1
  BY <1>1, OneWord
<1>3. \A n \in 16..20 : n = 16 \/ n = 17 \/ n = 18 \/ n = 19 \/ n = 20
  OBVIOUS
<1>4. QED
  BY <1>2, <1>3, Zenon

\* A word is not taken for a parameter.
LEMMA NoWordIsParam == \A w \in PathWords : w \notin Param
BY DEF PathWords, Param

\* How long the paths are, and which have no parameter.
LEMMA Shaped ==
    ASSUME NEW i \in DOMAIN Routes
    PROVE  /\ DOMAIN Routes[i].path \in {1..1, 1..2, 1..3}
           /\ i \in {9, 10, 14, 15} \/ Literal(Routes[i])
<1>1. ASSUME NEW v \in PathWords, Routes[i].path = <<v>>
      PROVE  DOMAIN Routes[i].path = 1..1 /\ Literal(Routes[i])
  BY <1>1, OneWord, NoWordIsParam DEF Literal
<1>2. ASSUME NEW v \in PathWords, NEW w \in PathWords, Routes[i].path = <<v, w>>
      PROVE  DOMAIN Routes[i].path = 1..2 /\ Literal(Routes[i])
  BY <1>2, TwoWords, NoWordIsParam DEF Literal
<1>3. CASE i = 9 \/ i = 10 \/ i = 14 \/ i = 15
  BY <1>3, WithParameter
<1>4. QED
  BY <1>1, <1>2, <1>3, Shapes

\* The methods of the routes with a parameter, and of those behind them.
LEMMA Methods ==
    /\ Routes[9].method = "PATCH" /\ Routes[10].method = "DELETE"
    /\ \A i \in 11..20 : Routes[i].method \in {"GET", "POST"}
<1>1. RoomRoutes[6].method = "PATCH" /\ RoomRoutes[7].method = "DELETE"
  BY DEF RoomRoutes, R
<1>2. MessageRoutes[1].method = "GET"
  BY DEF MessageRoutes, R
<1>3. /\ UserRoutes[1].method = "GET" /\ UserRoutes[2].method = "GET"
      /\ UserRoutes[3].method = "GET" /\ UserRoutes[4].method = "GET"
  BY DEF UserRoutes, R
<1>4. /\ ServerRoutes[1].method = "GET" /\ ServerRoutes[2].method = "GET"
      /\ ServerRoutes[3].method = "GET" /\ ServerRoutes[4].method = "POST"
      /\ ServerRoutes[5].method = "GET"
  BY DEF ServerRoutes, R
<1>5. \A i \in 11..20 : \/ i = 11 \/ i = 12 \/ i = 13 \/ i = 14 \/ i = 15
                        \/ i = 16 \/ i = 17 \/ i = 18 \/ i = 19 \/ i = 20
  OBVIOUS
<1> DEFINE M(i) == Routes[i].method \in {"GET", "POST"}
<1>6. /\ M(11) /\ M(12) /\ M(13) /\ M(14) /\ M(15)
  BY <1>2, <1>3, Places
<1>7. /\ M(16) /\ M(17) /\ M(18) /\ M(19) /\ M(20)
  BY <1>4, Places
<1>8. /\ Routes[9].method = "PATCH" /\ Routes[10].method = "DELETE"
  BY <1>1, Places
<1> HIDE DEF M
<1>9. \A i \in 11..20 : M(i)
  BY <1>5, <1>6, <1>7, Zenon
<1>10. QED
  BY <1>8, <1>9 DEF M

\* Of two routes that match a request, the one registered first has no
\* parameter, unless they are the same.
LEMMA NoneMoreSpecificLater ==
    ASSUME NEW i \in DOMAIN Routes, NEW j \in DOMAIN Routes, j <= i,
           Routes[i].method = Routes[j].method,
           DOMAIN Routes[i].path = DOMAIN Routes[j].path
    PROVE  i = j \/ Literal(Routes[j])
<1>1. i \in 1..20 /\ j \in 1..20
  BY RouteAt
<1>2. \A n \in 16..20 : DOMAIN Routes[n].path = 1..1
  BY LastPaths
<1>3. 1..1 # 1..2 /\ 1..1 # 1..3 /\ 1..2 # 1..3
  <2>1. 2 \notin 1..1 /\ 2 \in 1..2 /\ 2 \in 1..3 /\ 3 \notin 1..2 /\ 3 \in 1..3
    OBVIOUS
  <2>2. QED
    BY <2>1, Zenon
<1>4. CASE j = 9
  BY <1>1, <1>4, Methods
<1>5. CASE j = 10
  BY <1>1, <1>5, Methods
<1>6. CASE j = 14
  BY <1>1, <1>2, <1>3, <1>6, WithParameter
<1>7. CASE j = 15
  BY <1>1, <1>2, <1>3, <1>7, WithParameter
<1>8. QED
  BY <1>4, <1>5, <1>6, <1>7, Shaped

\* First is a route that matches, and none before it does.
LEMMA MatchingRoutes ==
    /\ Matching \subseteq 1..20
    /\ Matching # {} =>
         /\ First \in Matching
         /\ \A i \in Matching : First <= i
<1>1. Matching \subseteq 1..20
  BY RouteAt DEF Matching
<1>2. ASSUME Matching # {}
      PROVE  \E i \in Matching : \A j \in Matching : i <= j
  <2>1. Matching \in SUBSET Nat
    BY <1>1
  <2>2. QED
    BY <1>2, <2>1, LeastElement
<1>3. QED
  BY <1>1, <1>2 DEF First

\* The first of the routes that match spells out what any other does: either
\* they are the same, or it has no parameter at all.
LEMMA FirstIsMostSpecific ==
    ASSUME NEW i \in Matching, NEW j \in Matching, j <= i
    PROVE  Literals(i) \subseteq Literals(j)
<1>1. /\ i \in DOMAIN Routes /\ j \in DOMAIN Routes
      /\ Routes[i].method = Routes[j].method
      /\ DOMAIN Routes[i].path = DOMAIN Routes[j].path
      /\ DOMAIN Routes[j].path = DOMAIN Segments
      /\ \A k \in DOMAIN Segments :
            Routes[j].path[k] \in Param \cup {Segments[k]}
  BY DEF Matching, Matches
<1>2. CASE i = j
  BY <1>2
<1>3. CASE Literal(Routes[j])
  BY <1>1, <1>3 DEF Literal, Literals
<1>4. QED
  BY <1>1, <1>2, <1>3, NoneMoreSpecificLater

-----------------------------------------------------------------------------
(* From the table to the answer.                                           *)

\* A route that was chosen is the first that matches; what waits in front of
\* its handler, and what the handler has done, is for the subject of the token
\* if the route asks for one.
Routed ==
    /\ user \in {Nobody, "subject"}
    /\ route # 0 =>
         /\ phase \in {"handler", "answered"}
         /\ route \in Matching /\ \A i \in Matching : route <= i
    /\ phase # "answered" => status = "none"
    /\ phase = "handler" =>
         /\ route # 0
         /\ Routes[route].auth => user = "subject"
    /\ status = "done" =>
         /\ phase = "answered" /\ route # 0
         /\ Handler \notin Open => user = "subject"

\* Nothing was routed yet.
LEMMA InitRouted == RoutingInit => Routed
BY DEF RoutingInit, Routed

\* What a step does not change of what was asked for, the routes keep.
LEMMA SameRequest ==
    ASSUME UNCHANGED parsed
    PROVE  Matching' = Matching /\ First' = First
<1>1. Segments' = Segments /\ Method' = Method
  BY DEF Segments, Method
<1>2. QED
  BY <1>1 DEF Matching, Matches, First

\* The invariant is inductive: a handler is entered for a subject, and the one
\* that verifies again works for nobody else, whether the token expired or not.
LEMMA RoutedStep == Routed /\ [RoutingNext]_routingVars => Routed'
<1> SUFFICES ASSUME Routed, [RoutingNext]_routingVars
             PROVE  Routed'
  OBVIOUS
<1>1. CASE Arrive
  BY <1>1, SameRequest DEF Arrive, Routed, Handler
<1>2. CASE Read
  BY <1>2 DEF Read, Routed, Handler, AnswerWith
<1>3. CASE Expire
  BY <1>3, SameRequest DEF Expire, Routed, Handler, request
<1>4. CASE Preflight
  BY <1>4, SameRequest DEF Preflight, Routed, Handler, request, AnswerWith
<1>5. CASE RouteRequest
  <2>1. /\ phase = "routing" /\ Matching # {} /\ route' = First
        /\ UNCHANGED <<meant, arrived, parsed, token>>
    BY <1>5 DEF RouteRequest, request
  <2>2. /\ route' \in Matching' /\ \A i \in Matching' : route' <= i
    BY <2>1, SameRequest, MatchingRoutes
  <2>3. route' # 0
    <3>1. 0 \notin 1..20
      OBVIOUS
    <3>2. QED
      BY <2>1, <3>1, MatchingRoutes, Zenon
  <2>4. Verified \in {Nobody, "subject"} /\ status # "done"
    BY <2>1 DEF Verified, Routed
  <2>5. CASE Routes[First].auth /\ Verified = Nobody
    BY <1>5, <2>1, <2>2, <2>5 DEF RouteRequest, Routed, AnswerWith
  <2>6. CASE ~(Routes[First].auth /\ Verified = Nobody)
    <3>1. /\ phase' = "handler" /\ status' = status
          /\ user' = IF Routes[First].auth THEN Verified ELSE Nobody
      BY <1>5, <2>6 DEF RouteRequest
    <3>2. user' \in {Nobody, "subject"} /\ (Routes[route'].auth => user' = "subject")
      BY <2>1, <2>4, <2>6, <3>1
    <3>3. status' = "none"
      BY <2>1, <3>1 DEF Routed
    <3>4. QED
      BY <2>2, <2>3, <3>1, <3>2, <3>3 DEF Routed
  <2>7. QED
    BY <2>5, <2>6
<1>6. CASE NoRoute
  BY <1>6, SameRequest DEF NoRoute, Routed, Handler, request, AnswerWith
<1>7. CASE Handle
  <2>1. /\ phase = "handler" /\ route # 0 /\ UNCHANGED <<meant, arrived, parsed, token, route>>
        /\ user' = IF Handler \in Rechecking THEN Verified ELSE user
        /\ Routes[route].auth => user = "subject"
    BY <1>7 DEF Handle, request, Routed
  <2>2. phase' = "answered"
    BY <1>7 DEF Handle, AnswerWith
  <2>3. Handler' = Handler
    BY <2>1 DEF Handler
  <2>4. route' \in Matching' /\ \A i \in Matching' : route' <= i
    BY <2>1, SameRequest DEF Routed
  <2>5. user' \in {Nobody, "subject"}
    BY <2>1 DEF Routed, Verified
  <2>6. ASSUME status' = "done", Handler \notin Open
        PROVE  user' = "subject"
    <3>1. CASE Handler \in Rechecking
      <4>1. Verified # Nobody
        BY <1>7, <2>6, <3>1 DEF Handle, AnswerWith
      <4>2. QED
        BY <2>1, <3>1, <4>1 DEF Verified
    <3>2. CASE Handler \notin Rechecking
      <4>1. route \in DOMAIN Routes
        BY <2>1 DEF Routed, Matching
      <4>2. Routes[route].auth
        BY <2>6, <4>1, AllGuarded, Zenon DEF Guarded, Handler
      <4>3. QED
        BY <2>1, <3>2, <4>2
    <3>3. QED
      BY <3>1, <3>2
  <2>7. QED
    BY <2>1, <2>2, <2>3, <2>4, <2>5, <2>6 DEF Routed
<1>8. CASE UNCHANGED routingVars
  BY <1>8, SameRequest DEF Routed, Handler, request, routingVars
<1>9. QED
  BY <1>1, <1>2, <1>3, <1>4, <1>5, <1>6, <1>7, <1>8 DEF RoutingNext

\* A route is chosen by the order of registration alone, and what waits for its
\* handler or has been done by it is for the subject of the token, for any set of
\* requests.
THEOREM AlwaysRouted == RoutingSpec => []Routed
BY InitRouted, RoutedStep, PTL DEF RoutingSpec

\* No handler that asks for a token has worked for nobody: the check of the
\* middleware and the second one of the handler leave no gap when the token
\* expires between them.
THEOREM AlwaysWorksForSomebody == RoutingSpec => []WorksForSomebody
<1>1. Routed => WorksForSomebody
  BY DEF Routed, WorksForSomebody
<1>2. QED
  BY <1>1, AlwaysRouted, PTL

\* routeRequest takes the first route that matches, and registerRoutes puts
\* users/me before users/{userId}: no request is taken by a route that spells out
\* less of it than another.
THEOREM AlwaysMostSpecific == RoutingSpec => []MostSpecific
<1>1. Routed => MostSpecific
  BY FirstIsMostSpecific DEF Routed, MostSpecific
<1>2. QED
  BY <1>1, AlwaysRouted, PTL
-----------------------------------------------------------------------------
(* The types of the variables.                                             *)

\* What Parse returns is refused or has been accepted.
LEMMA ParseDecides ==
    ASSUME NEW raw, NEW p, p = Parse(raw)
    PROVE  p.accepted \/ p = NoRequest
<1> DEFINE e == EndOf(raw)
           W == FirstWords(Before(raw, e))
           H == HeadersOf(Before(raw, e))
<1>1. p = Parsed(raw, e, W, H)
  BY ParseUnfolded, Zenon
<1>2. p = NoRequest \/ p = Accepted(raw, e, W, H)
  BY <1>1, Zenon DEF Parsed
<1>3. FieldsAre(Accepted(raw, e, W, H), raw, e, W, H)
  BY FieldsOfAccepted, Zenon
<1>4. QED
  BY <1>2, <1>3, Zenon DEF FieldsAre

\* The part of the types that follows from neither ParsedInv nor Routed.
Stages ==
    /\ token \in {"none", "refused", "valid", "expired"}
    /\ phase \in {"arriving", "routing", "handler", "answered"}
    /\ status \in {"none", "preflight", "file", "404", "400", "401", "done"}

\* A client begins with the token of its request.
LEMMA InitStages == RoutingInit => Stages
<1> SUFFICES ASSUME RoutingInit PROVE Stages
  OBVIOUS
<1>1. meant.token \in {"none", "refused", "valid", "expired"}
  BY RequestAssumption DEF RoutingInit
<1>2. QED
  BY <1>1 DEF RoutingInit, Stages

\* Every step keeps to the phases and the answers there are.
LEMMA StagesStep == Stages /\ [RoutingNext]_routingVars => Stages'
<1> SUFFICES ASSUME Stages, [RoutingNext]_routingVars PROVE Stages'
  OBVIOUS
<1>1. CASE Arrive
  BY <1>1 DEF Arrive, Stages
<1>2. CASE Read
  BY <1>2 DEF Read, Stages, AnswerWith
<1>3. CASE Expire
  BY <1>3 DEF Expire, Stages
<1>4. CASE Preflight
  BY <1>4 DEF Preflight, Stages, AnswerWith
<1>5. CASE RouteRequest
  BY <1>5 DEF RouteRequest, Stages, AnswerWith
<1>6. CASE NoRoute
  BY <1>6 DEF NoRoute, Stages, AnswerWith
<1>7. CASE Handle
  BY <1>7 DEF Handle, Stages, AnswerWith
<1>8. CASE UNCHANGED routingVars
  BY <1>8 DEF routingVars, Stages
<1>9. QED
  BY <1>1, <1>2, <1>3, <1>4, <1>5, <1>6, <1>7, <1>8, Zenon DEF RoutingNext

\* The three invariants give the type of every variable.
LEMMA TypesFromInvariants == ParsedInv /\ Routed /\ Stages => RoutingTypeOK
<1> SUFFICES ASSUME ParsedInv, Routed, Stages PROVE RoutingTypeOK
  OBVIOUS
<1>1. meant \in Request /\ arrived \in 0..Len(Serialize(meant))
  BY Zenon DEF ParsedInv
<1>2. parsed.accepted \/ parsed = NoRequest
  BY ParseDecides, Zenon DEF ParsedInv
<1>3. route \in 0..Len(Routes)
  <2>1. Len(Routes) = 20
    BY RouteAt
  <2>2. route = 0 \/ route \in 1..20
    BY MatchingRoutes, Zenon DEF Routed
  <2>3. QED
    BY <2>1, <2>2
<1>4. QED
  BY <1>1, <1>2, <1>3, Zenon DEF Routed, Stages, RoutingTypeOK

\* The variables of handleClient and routeRequest keep their types; what was
\* parsed is the whole request or nothing, and a route is one of the table.
THEOREM RoutingTypeCorrect == RoutingSpec => []RoutingTypeOK
<1>1. RoutingSpec => []ParsedInv
  BY ParsedInit, ParsedNext, PTL DEF RoutingSpec
<1>2. RoutingSpec => []Stages
  BY InitStages, StagesStep, PTL DEF RoutingSpec
<1>3. QED
  BY <1>1, <1>2, AlwaysRouted, TypesFromInvariants, PTL
=============================================================================
