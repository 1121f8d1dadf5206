---------------------------- MODULE ListingProofs ----------------------------
(***************************************************************************)
(* Theorems about Listing.  The property counts items, so the proof is     *)
(* about how many of them a creation or a deletion moves over the place    *)
(* the client has come to: one at most.                                    *)
(***************************************************************************)
EXTENDS Listing, FiniteSetTheorems, SequenceTheorems, TLAPS

\* What stands at the first n places, and what behind them.
FirstOf(s, n) == {s[i] : i \in {j \in DOMAIN s : j <= n}}
RestOf(s, n) == {s[i] : i \in {j \in DOMAIN s : j > n}}

-----------------------------------------------------------------------------
(* Sets and sequences.                                                     *)

\* A set that has at most one element more than another.
LEMMA OneMore ==
    ASSUME NEW S, NEW T, NEW x, IsFiniteSet(T), S \subseteq T \cup {x}
    PROVE  IsFiniteSet(S) /\ Cardinality(S) <= Cardinality(T) + 1
<1>1. IsFiniteSet(T \cup {x}) /\ Cardinality(T \cup {x}) <= Cardinality(T) + 1
  <2>1. Cardinality(T) \in Nat
    BY FS_CardinalityType
  <2>2. /\ IsFiniteSet(T \cup {x})
        /\ Cardinality(T \cup {x}) = IF x \in T THEN Cardinality(T) ELSE Cardinality(T) + 1
    BY FS_AddElement
  <2>3. QED
    BY <2>1, <2>2
<1>2. IsFiniteSet(S) /\ Cardinality(S) <= Cardinality(T \cup {x})
  <2>1. S \in SUBSET (T \cup {x})
    OBVIOUS
  <2>2. QED
    BY <1>1, <2>1, FS_Subset
<1>3. Cardinality(S) \in Nat /\ Cardinality(T) \in Nat /\ Cardinality(T \cup {x}) \in Nat
  BY <1>1, <1>2, FS_CardinalityType
<1>4. QED
  BY <1>1, <1>2, <1>3

\* A part of a finite set is finite and not larger.
LEMMA NotMore ==
    ASSUME NEW S, NEW T, IsFiniteSet(T), S \subseteq T
    PROVE  IsFiniteSet(S) /\ Cardinality(S) <= Cardinality(T)
<1>1. S \in SUBSET T
  OBVIOUS
<1>2. QED
  BY <1>1, FS_Subset

\* A sequence has finitely many elements.
LEMMA ElementsFinite ==
    ASSUME NEW S, NEW s \in Seq(S)
    PROVE  IsFiniteSet(ToSet(s)) /\ ToSet(s) \subseteq S
<1>1. s \in [1..Len(s) -> ToSet(s)]
  BY DEF ToSet
<1>2. s \in Surjection(1..Len(s), ToSet(s))
  BY <1>1 DEF Surjection, ToSet
<1>3. IsFiniteSet(1..Len(s))
  BY FS_Interval
<1>4. QED
  BY <1>2, <1>3, FS_Surjection DEF ToSet

\* A sequence without repetitions has as many elements as places.
LEMMA ElementsCounted ==
    ASSUME NEW S, NEW s \in Seq(S), IsInjective(s)
    PROVE  Cardinality(ToSet(s)) = Len(s)
<1>1. s \in [1..Len(s) -> ToSet(s)] /\ Len(s) \in Nat
  BY DEF ToSet
<1>2. s \in Surjection(1..Len(s), ToSet(s))
  BY <1>1 DEF Surjection, ToSet
<1>3. s \in Injection(1..Len(s), ToSet(s))
  BY <1>1 DEF Injection, IsInjective
<1>4. ExistsBijection(1..Len(s), ToSet(s))
  BY <1>2, <1>3 DEF ExistsBijection, Bijection
<1>5. QED
  BY <1>1, <1>4, FS_CountingElements

\* Where nothing stands twice, nothing stands on both sides of a place.
LEMMA BeforeOrBehind ==
    ASSUME NEW S, NEW s \in Seq(S), IsInjective(s), NEW n \in Nat
    PROVE  FirstOf(s, n) \cap RestOf(s, n) = {}
<1> SUFFICES ASSUME NEW i \in 1..Len(s), NEW j \in 1..Len(s), i <= n, j > n,
                    s[i] = s[j]
             PROVE  FALSE
  BY DEF FirstOf, RestOf
<1>1. i = j
  BY DEF IsInjective
<1>2. QED
  BY <1>1

\* Those behind place i move up by one.
LEMMA Removed ==
    ASSUME NEW S, NEW s \in Seq(S), NEW i \in 1..Len(s)
    PROVE  /\ RemoveAt(s, i) \in Seq(S)
           /\ Len(RemoveAt(s, i)) = Len(s) - 1
           /\ \A j \in 1..Len(s)-1 : RemoveAt(s, i)[j] = IF j < i THEN s[j] ELSE s[j+1]
<1> DEFINE a == SubSeq(s, 1, i-1)
           b == SubSeq(s, i+1, Len(s))
<1>1. /\ a \in Seq(S) /\ Len(a) = i - 1
      /\ \A j \in 1..i-1 : a[j] = s[j]
  BY SubSeqProperties
<1>2. /\ b \in Seq(S) /\ Len(b) = Len(s) - i
      /\ \A j \in 1..Len(s)-i : b[j] = s[i+j]
  BY SubSeqProperties
<1>3. RemoveAt(s, i) = a \o b
  BY DEF RemoveAt
<1> HIDE DEF a, b
<1>4. a \in Seq(S) /\ b \in Seq(S)
  BY <1>1, <1>2
<1>5. a \o b \in Seq(S) /\ Len(a \o b) = Len(a) + Len(b)
  BY <1>4
<1>6. \A j \in 1..(Len(a) + Len(b)) :
          (a \o b)[j] = IF j <= Len(a) THEN a[j] ELSE b[j - Len(a)]
  BY <1>4
<1>7. Len(a) = i - 1 /\ Len(a) + Len(b) = Len(s) - 1
  BY <1>1, <1>2
<1>8. \A j \in 1..Len(s)-1 : (a \o b)[j] = IF j < i THEN s[j] ELSE s[j+1]
  BY <1>1, <1>2, <1>6, <1>7
<1>9. QED
  BY <1>3, <1>5, <1>7, <1>8

\* Removing one place removes one element and moves those behind it by one.
LEMMA RemovedElements ==
    ASSUME NEW S, NEW s \in Seq(S), NEW i \in 1..Len(s), IsInjective(s),
           NEW n \in Nat
    PROVE  LET t == RemoveAt(s, i)
           IN  /\ IsInjective(t)
               /\ ToSet(t) = ToSet(s) \ {s[i]}
               /\ FirstOf(t, n) \subseteq FirstOf(s, n) \cup {s[n+1]}
               /\ RestOf(t, n) \subseteq RestOf(s, n)
<1> DEFINE t == RemoveAt(s, i)
<1>1. /\ t \in Seq(S) /\ Len(t) = Len(s) - 1
      /\ \A j \in 1..Len(s)-1 : t[j] = IF j < i THEN s[j] ELSE s[j+1]
  BY Removed
<1>2. DOMAIN t = 1..Len(s)-1 /\ DOMAIN s = 1..Len(s)
  BY <1>1
<1> HIDE DEF t
<1>3. IsInjective(t)
  <2> SUFFICES ASSUME NEW j \in 1..Len(s)-1, NEW k \in 1..Len(s)-1, t[j] = t[k]
               PROVE  j = k
    BY <1>2 DEF IsInjective
  <2> DEFINE from(m) == IF m < i THEN m ELSE m + 1
  <2>1. from(j) \in 1..Len(s) /\ from(k) \in 1..Len(s) /\ s[from(j)] = s[from(k)]
    BY <1>1
  <2>2. from(j) = from(k)
    BY <1>2, <2>1 DEF IsInjective
  <2>3. QED
    BY <2>2
<1>4. ToSet(t) \subseteq ToSet(s) \ {s[i]}
  <2> SUFFICES ASSUME NEW j \in 1..Len(s)-1
               PROVE  t[j] \in ToSet(s) \ {s[i]}
    BY <1>2 DEF ToSet
  <2>1. PICK k \in 1..Len(s) : t[j] = s[k] /\ k # i
    BY <1>1
  <2>2. s[k] # s[i]
    BY <1>2, <2>1 DEF IsInjective
  <2>3. QED
    BY <1>2, <2>1, <2>2 DEF ToSet
<1>5. ASSUME NEW x \in ToSet(s) \ {s[i]}
      PROVE  x \in ToSet(t)
  <2>1. PICK j \in 1..Len(s) : s[j] = x /\ j # i
    BY <1>2 DEF ToSet
  <2>2. CASE j < i
    <3>1. j \in 1..Len(s)-1 /\ t[j] = x
      BY <1>1, <2>1, <2>2
    <3>2. QED
      BY <1>2, <3>1 DEF ToSet
  <2>3. CASE j > i
    <3>1. j - 1 \in 1..Len(s)-1 /\ t[j-1] = x
      BY <1>1, <2>1, <2>3
    <3>2. QED
      BY <1>2, <3>1 DEF ToSet
  <2>4. QED
    BY <2>1, <2>2, <2>3
<1>6. FirstOf(t, n) \subseteq FirstOf(s, n) \cup {s[n+1]}
  <2> SUFFICES ASSUME NEW j \in 1..Len(s)-1, j <= n
               PROVE  t[j] \in FirstOf(s, n) \cup {s[n+1]}
    BY <1>2 DEF FirstOf
  <2>1. t[j] = s[j] \/ t[j] = s[j+1]
    BY <1>1
  <2>2. s[j] \in FirstOf(s, n)
    BY <1>2 DEF FirstOf
  <2>3. j + 1 <= n => s[j+1] \in FirstOf(s, n)
    BY <1>2 DEF FirstOf
  <2>4. j + 1 <= n \/ j + 1 = n + 1
    OBVIOUS
  <2>5. QED
    BY <2>1, <2>2, <2>3, <2>4
<1>7. RestOf(t, n) \subseteq RestOf(s, n)
  <2> SUFFICES ASSUME NEW j \in 1..Len(s)-1, j > n
               PROVE  t[j] \in RestOf(s, n)
    BY <1>2 DEF RestOf
  <2>1. t[j] = s[j] \/ t[j] = s[j+1]
    BY <1>1
  <2>2. s[j] \in RestOf(s, n) /\ s[j+1] \in RestOf(s, n)
    BY <1>2 DEF RestOf
  <2>3. QED
    BY <2>1, <2>2
<1>8. QED
  BY <1>3, <1>4, <1>5, <1>6, <1>7 DEF t

\* A new room comes in front: one room moves over any place.
LEMMA InFront ==
    ASSUME NEW S, NEW s \in Seq(S), NEW r \in S, IsInjective(s),
           r \notin ToSet(s), NEW n \in Nat
    PROVE  LET t == Cons(r, s)
           IN  /\ t \in Seq(S) /\ IsInjective(t)
               /\ ToSet(t) = ToSet(s) \cup {r}
               /\ FirstOf(t, n) \subseteq FirstOf(s, n) \cup {r}
               /\ RestOf(t, n) \subseteq RestOf(s, n) \cup {t[n+1]}
<1> DEFINE t == Cons(r, s)
<1>1. t \in Seq(S) /\ Len(t) = Len(s) + 1
  BY DEF Cons
<1>2. t[1] = r /\ \A j \in 1..Len(s) : t[j+1] = s[j]
  BY DEF Cons
<1>3. DOMAIN t = 1..Len(s)+1 /\ DOMAIN s = 1..Len(s)
  BY <1>1
<1> HIDE DEF t
<1>4. \A j \in 1..Len(s)+1 : j = 1 \/ (j - 1 \in 1..Len(s) /\ t[j] = s[j-1])
  BY <1>2
<1>5. ToSet(t) = ToSet(s) \cup {r}
  <2>1. ToSet(t) \subseteq ToSet(s) \cup {r}
    BY <1>2, <1>3, <1>4 DEF ToSet
  <2>2. r \in ToSet(t)
    BY <1>2, <1>3 DEF ToSet
  <2>3. ToSet(s) \subseteq ToSet(t)
    <3>1. \A j \in 1..Len(s) : j + 1 \in 1..Len(s)+1 /\ t[j+1] = s[j]
      BY <1>2
    <3>2. QED
      BY <1>3, <3>1 DEF ToSet
  <2>4. QED
    BY <2>1, <2>2, <2>3
<1>6. IsInjective(t)
  <2> SUFFICES ASSUME NEW i \in 1..Len(s)+1, NEW j \in 1..Len(s)+1, t[i] = t[j]
               PROVE  i = j
    BY <1>3 DEF IsInjective
  <2>1. \A k \in 1..Len(s) : s[k] # r
    BY <1>3 DEF ToSet
  <2>2. CASE i = 1 \/ j = 1
    BY <1>2, <1>4, <2>1, <2>2
  <2>3. CASE i # 1 /\ j # 1
    <3>1. i - 1 \in 1..Len(s) /\ j - 1 \in 1..Len(s) /\ s[i-1] = s[j-1]
      BY <1>4, <2>3
    <3>2. i - 1 = j - 1
      BY <1>3, <3>1 DEF IsInjective
    <3>3. QED
      BY <3>2
  <2>4. QED
    BY <2>2, <2>3
<1>7. FirstOf(t, n) \subseteq FirstOf(s, n) \cup {r}
  <2> SUFFICES ASSUME NEW j \in 1..Len(s)+1, j <= n
               PROVE  t[j] \in FirstOf(s, n) \cup {r}
    BY <1>3 DEF FirstOf
  <2>1. CASE j = 1
    BY <1>2, <2>1
  <2>2. CASE j - 1 \in 1..Len(s) /\ t[j] = s[j-1]
    BY <1>3, <2>2 DEF FirstOf
  <2>3. QED
    BY <1>4, <2>1, <2>2
<1>8. RestOf(t, n) \subseteq RestOf(s, n) \cup {t[n+1]}
  <2> SUFFICES ASSUME NEW j \in 1..Len(s)+1, j > n, j # n + 1
               PROVE  t[j] \in RestOf(s, n)
    BY <1>3 DEF RestOf
  <2>1. j - 1 \in 1..Len(s) /\ t[j] = s[j-1] /\ j - 1 > n
    BY <1>4
  <2>2. QED
    BY <1>3, <2>1 DEF RestOf
<1>9. QED
  BY <1>1, <1>5, <1>6, <1>7, <1>8 DEF t

\* A new user comes last: nobody moves.
LEMMA Behind ==
    ASSUME NEW S, NEW s \in Seq(S), NEW r \in S, IsInjective(s),
           r \notin ToSet(s), NEW n \in Nat
    PROVE  LET t == Append(s, r)
           IN  /\ t \in Seq(S) /\ IsInjective(t) /\ Len(t) = Len(s) + 1
               /\ ToSet(t) = ToSet(s) \cup {r}
               /\ FirstOf(t, n) \subseteq FirstOf(s, n) \cup {r}
               /\ n <= Len(s) => FirstOf(t, n) = FirstOf(s, n)
               /\ RestOf(t, n) \subseteq RestOf(s, n) \cup {r}
<1> DEFINE t == Append(s, r)
<1>1. /\ t \in Seq(S) /\ Len(t) = Len(s) + 1
      /\ t[Len(s)+1] = r /\ \A j \in 1..Len(s) : t[j] = s[j]
  OBVIOUS
<1>2. DOMAIN t = 1..Len(s)+1 /\ DOMAIN s = 1..Len(s) /\ Len(s) \in Nat
  BY <1>1
<1> HIDE DEF t
<1>3. ToSet(t) = ToSet(s) \cup {r}
  <2>1. ToSet(t) \subseteq ToSet(s) \cup {r}
    BY <1>1, <1>2 DEF ToSet
  <2>2. r \in ToSet(t)
    BY <1>1, <1>2 DEF ToSet
  <2>3. ToSet(s) \subseteq ToSet(t)
    BY <1>1, <1>2 DEF ToSet
  <2>4. QED
    BY <2>1, <2>2, <2>3
<1>4. \A k \in 1..Len(s) : s[k] # r
  BY <1>2 DEF ToSet
<1>5. IsInjective(t)
  BY <1>1, <1>2, <1>4 DEF IsInjective
<1>6. \A j \in 1..Len(s)+1 :
          (j \in 1..Len(s) /\ t[j] = s[j]) \/ (j = Len(s) + 1 /\ t[j] = r)
  BY <1>1, <1>2
<1>7. FirstOf(t, n) \subseteq FirstOf(s, n) \cup {r}
  BY <1>2, <1>6 DEF FirstOf
<1>8. n <= Len(s) => FirstOf(t, n) = FirstOf(s, n)
  BY <1>2, <1>6 DEF FirstOf
<1>9. RestOf(t, n) \subseteq RestOf(s, n) \cup {r}
  BY <1>2, <1>6 DEF RestOf
<1>10. QED
  BY <1>1, <1>3, <1>5, <1>7, <1>8, <1>9 DEF t

-----------------------------------------------------------------------------
(* Pages.                                                                  *)

\* Whatever limit is asked for, a page has at least one place.
LEMMA LimitIsPositive ==
    ASSUME NEW asked \in Asked
    PROVE  LimitFor(asked) \in Nat \ {0}
BY LimitAssumption DEF LimitFor

\* A page is what stands between the place the client has come to and the next.
LEMMA PageItems ==
    ASSUME NEW S, NEW s \in Seq(S), NEW limit \in Nat, NEW offset \in Nat
    PROVE  LET items == ToSet(Page(s, limit, offset))
           IN  /\ items \subseteq ToSet(s)
               /\ items \subseteq RestOf(s, offset)
               /\ FirstOf(s, offset + limit) = FirstOf(s, offset) \cup items
               /\ RestOf(s, offset + limit) \subseteq RestOf(s, offset)
<1> DEFINE start == Least(offset, Len(s))
           end == Least(start + limit, Len(s))
           page == SubSeq(s, start + 1, end)
<1>1. start \in 0..Len(s) /\ end \in start..Len(s) /\ DOMAIN s = 1..Len(s)
  BY DEF Least
<1>2. /\ page \in Seq(S) /\ Len(page) = end - start
      /\ \A k \in 1..(end - start) : page[k] = s[start + k]
  <2>1. start \in Nat /\ end \in Nat /\ start <= end /\ end <= Len(s)
    BY <1>1
  <2> HIDE DEF start, end
  <2>2. \A k \in (start + 1)..end : s[k] \in S
    BY <2>1
  <2>3. /\ page \in Seq(S)
        /\ Len(page) = IF start + 1 <= end THEN end - (start + 1) + 1 ELSE 0
        /\ \A k \in 1..(end - (start + 1) + 1) : page[k] = s[(start + 1) + k - 1]
    BY <2>1, <2>2, SubSeqProperties
  <2>4. \A k \in Nat : (start + 1) + k - 1 = start + k
    BY <2>1
  <2>5. QED
    BY <2>1, <2>3, <2>4
<1>3. \A j \in 1..Len(s) : start < j /\ j <= end <=> offset < j /\ j <= offset + limit
  BY <1>1 DEF Least
<1>4. Page(s, limit, offset) = page
  BY DEF Page
<1> HIDE DEF start, end, page
<1>5. DOMAIN page = 1..(end - start)
  BY <1>2
<1>6. ASSUME NEW x \in ToSet(page)
      PROVE  \E j \in 1..Len(s) : s[j] = x /\ offset < j /\ j <= offset + limit
  <2>1. PICK k \in 1..(end - start) : page[k] = x
    BY <1>5 DEF ToSet
  <2>2. start + k \in 1..Len(s) /\ start < start + k /\ start + k <= end
    BY <1>1
  <2>3. QED
    BY <1>2, <1>3, <2>1, <2>2
<1>7. ASSUME NEW j \in 1..Len(s), offset < j, j <= offset + limit
      PROVE  s[j] \in ToSet(page)
  <2>1. j - start \in 1..(end - start) /\ start + (j - start) = j
    BY <1>1, <1>3, <1>7
  <2>2. page[j - start] = s[j]
    BY <1>2, <2>1
  <2>3. QED
    BY <1>5, <2>1, <2>2 DEF ToSet
<1>8. ToSet(page) \subseteq ToSet(s) /\ ToSet(page) \subseteq RestOf(s, offset)
  BY <1>1, <1>6 DEF ToSet, RestOf
<1>9. FirstOf(s, offset) \cup ToSet(page) \subseteq FirstOf(s, offset + limit)
  BY <1>1, <1>6 DEF FirstOf
<1>10. FirstOf(s, offset + limit) \subseteq FirstOf(s, offset) \cup ToSet(page)
  <2> SUFFICES ASSUME NEW j \in 1..Len(s), j <= offset + limit
               PROVE  s[j] \in FirstOf(s, offset) \cup ToSet(page)
    BY <1>1 DEF FirstOf
  <2>1. CASE j <= offset
    BY <1>1, <2>1 DEF FirstOf
  <2>2. CASE offset < j
    BY <1>7, <2>2
  <2>3. QED
    BY <2>1, <2>2
<1>11. RestOf(s, offset + limit) \subseteq RestOf(s, offset)
  BY <1>1 DEF RestOf
<1>12. QED
  BY <1>4, <1>8, <1>9, <1>10, <1>11

-----------------------------------------------------------------------------
(* The invariant.                                                          *)

Skipped == (pager.here \ pager.seen) \cap FirstOf(order, pager.offset)

Repeatable == pager.twice \cup (pager.seen \cap RestOf(order, pager.offset))

Moved == IF list = "rooms" THEN pager.created ELSE 0

\* Nothing is stored twice or again; the client knows what was stored only.
Known ==
    /\ IsInjective(order) /\ ToSet(order) \subseteq drawn
    /\ pager.pc = "ready" => pager = Ready
    /\ IsFiniteSet(pager.seen) /\ pager.seen \subseteq drawn
    /\ pager.twice \subseteq pager.seen
    /\ IsFiniteSet(pager.here)
    /\ Paging => pager.here \subseteq ToSet(order)

\* What stands before the place the client has come to and was not listed has
\* moved there, over that place, by a deletion.
SkippedByDeletions ==
    /\ Paging => Cardinality(Skipped) <= pager.deleted
    /\ pager.pc = "done" => Cardinality(pager.here \ pager.seen) <= pager.deleted

\* What was listed and stands behind that place again has been pushed there by
\* a creation; so has, some time ago, what was listed twice.
RepeatedByCreations ==
    /\ Paging => Cardinality(Repeatable) <= Moved
    /\ pager.pc = "done" => Cardinality(pager.twice) <= Moved

\* Users do not move: the client has the first ones.
UsersInPlace ==
    list = "users" =>
        /\ Paging => /\ pager.offset <= Len(order)
                     /\ pager.seen = FirstOf(order, pager.offset)
        /\ pager.pc = "done" => Cardinality(pager.seen) = pager.total

IInv == TypeOK /\ Known /\ SkippedByDeletions /\ RepeatedByCreations /\ UsersInPlace

PagerType ==
    [pc : {"ready", "paging", "done"}, offset : Nat, seen : SUBSET Item,
     twice : SUBSET Item, here : SUBSET Item, created : Nat, deleted : Nat, total : Nat]

\* What an answer changes, field by field.
LEMMA PageStep ==
    ASSUME TypeOK, GetPage
    PROVE  \E limit \in Nat \ {0} :
               LET items == ToSet(Page(order, limit, pager.offset))
               IN  /\ pager' \in PagerType
                   /\ pager'.pc = IF pager.offset + limit >= Len(order) THEN "done"
                                                                        ELSE "paging"
                   /\ pager'.offset = pager.offset + limit
                   /\ pager'.seen = pager.seen \cup items
                   /\ pager'.twice = pager.twice \cup (items \cap pager.seen)
                   /\ pager'.total = Len(order)
                   /\ pager'.here = pager.here /\ pager'.created = pager.created
                   /\ pager'.deleted = pager.deleted
                   /\ UNCHANGED <<list, order, drawn>>
<1>1. PICK asked \in Asked :
        LET limit == LimitFor(asked)
            items == ToSet(Page(order, limit, pager.offset))
            next == pager.offset + limit
        IN  pager' = [pager EXCEPT
                          !.offset = next,
                          !.seen = @ \cup items,
                          !.twice = @ \cup (items \cap pager.seen),
                          !.total = Len(order),
                          !.pc = IF next >= Len(order) THEN "done" ELSE @]
  BY DEF GetPage
<1> DEFINE limit == LimitFor(asked)
           items == ToSet(Page(order, limit, pager.offset))
           next == pager.offset + limit
<1>2. limit \in Nat \ {0} /\ pager.offset \in Nat /\ next \in Nat
  BY LimitIsPositive DEF TypeOK
<1>3. items \subseteq Item
  BY <1>2, PageItems, ElementsFinite DEF TypeOK
<1>4. Len(order) \in Nat /\ pager \in PagerType /\ pager.pc = "paging"
  BY DEF TypeOK, PagerType, GetPage, Paging
<1>5. pager' = [pager EXCEPT
                    !.offset = next,
                    !.seen = @ \cup items,
                    !.twice = @ \cup (items \cap pager.seen),
                    !.total = Len(order),
                    !.pc = IF next >= Len(order) THEN "done" ELSE @]
  BY <1>1
<1>6. UNCHANGED <<list, order, drawn>>
  BY DEF GetPage
<1>7. limit \in Nat \ {0} /\ next = pager.offset + limit
      /\ items = ToSet(Page(order, limit, pager.offset))
  BY <1>2
<1> HIDE DEF limit, items, next
<1>8. /\ pager' \in PagerType
      /\ pager'.pc = IF next >= Len(order) THEN "done" ELSE "paging"
      /\ pager'.offset = next
      /\ pager'.seen = pager.seen \cup items
      /\ pager'.twice = pager.twice \cup (items \cap pager.seen)
      /\ pager'.total = Len(order)
      /\ pager'.here = pager.here /\ pager'.created = pager.created
      /\ pager'.deleted = pager.deleted
  BY <1>2, <1>3, <1>4, <1>5 DEF PagerType
<1>9. QED
  BY <1>6, <1>7, <1>8

\* What a creation does to a client that is between two pages.
LEMMA CreateStep ==
    ASSUME TypeOK, NEW r \in Item, Create(r)
    PROVE  /\ pager' \in PagerType
           /\ pager'.pc = pager.pc /\ pager'.offset = pager.offset
           /\ pager'.seen = pager.seen /\ pager'.twice = pager.twice
           /\ pager'.here = pager.here /\ pager'.total = pager.total
           /\ pager'.deleted = pager.deleted
           /\ pager'.created = IF Paging THEN pager.created + 1 ELSE pager.created
           /\ ~Paging => pager' = pager
           /\ list' = list
<1>1. pager \in PagerType
  BY DEF TypeOK, PagerType
<1>2. pager' = IF Paging THEN [pager EXCEPT !.created = @ + 1] ELSE pager
  BY DEF Create
<1>3. CASE Paging
  BY <1>1, <1>2, <1>3 DEF PagerType, Create
<1>4. CASE ~Paging
  BY <1>1, <1>2, <1>4 DEF Create
<1>5. QED
  BY <1>3, <1>4

\* What a deletion changes of a client that is between two pages.
LEMMA DeleteStep ==
    ASSUME TypeOK, NEW r \in Item, DeleteRoom(r)
    PROVE  /\ pager' \in PagerType
           /\ pager'.pc = pager.pc /\ pager'.offset = pager.offset
           /\ pager'.seen = pager.seen /\ pager'.twice = pager.twice
           /\ pager'.here = IF Paging THEN pager.here \ {r} ELSE pager.here
           /\ pager'.total = pager.total /\ pager'.created = pager.created
           /\ pager'.deleted = IF Paging THEN pager.deleted + 1 ELSE pager.deleted
           /\ ~Paging => pager' = pager
           /\ list = "rooms" /\ UNCHANGED <<list, drawn>>
<1>1. pager \in PagerType
  BY DEF TypeOK, PagerType
<1>2. pager' = IF Paging THEN [pager EXCEPT !.deleted = @ + 1, !.here = @ \ {r}]
                         ELSE pager
  BY DEF DeleteRoom
<1>3. list = "rooms" /\ UNCHANGED <<list, drawn>>
  BY DEF DeleteRoom
<1>4. CASE Paging
  <2>1. pager' = [pager EXCEPT !.deleted = @ + 1, !.here = @ \ {r}]
    BY <1>2, <1>4
  <2>2. /\ pager.pc = "paging" /\ pager.deleted + 1 \in Nat
        /\ pager.here \ {r} \in SUBSET Item
    BY <1>1, <1>4 DEF Paging, PagerType
  <2>3. pager' \in PagerType
    BY <1>1, <2>1, <2>2 DEF PagerType
  <2>4. /\ pager'.pc = pager.pc /\ pager'.offset = pager.offset
        /\ pager'.seen = pager.seen /\ pager'.twice = pager.twice
        /\ pager'.here = pager.here \ {r} /\ pager'.total = pager.total
        /\ pager'.created = pager.created /\ pager'.deleted = pager.deleted + 1
    BY <1>1, <2>1 DEF PagerType
  <2>5. QED
    BY <1>3, <1>4, <2>3, <2>4
<1>5. CASE ~Paging
  BY <1>1, <1>2, <1>3, <1>5
<1>6. QED
  BY <1>4, <1>5

\* Every step keeps the types.
LEMMA TypeStep == TypeOK /\ [Next]_vars => TypeOK'
<1> SUFFICES ASSUME TypeOK, [Next]_vars
             PROVE  TypeOK'
  OBVIOUS
<1>1. ASSUME NEW r \in Item, Create(r)
      PROVE  TypeOK'
  <2>1. order' \in Seq(Item)
    <3>1. order \in Seq(Item) /\ <<r>> \in Seq(Item)
      BY DEF TypeOK
    <3>2. Cons(r, order) \in Seq(Item) /\ Append(order, r) \in Seq(Item)
      BY <3>1 DEF Cons
    <3>3. QED
      BY <1>1, <3>2 DEF Create, Inserted
  <2>2. drawn' \subseteq Item
    BY <1>1 DEF Create, TypeOK
  <2>3. QED
    BY <1>1, <2>1, <2>2, CreateStep DEF TypeOK, PagerType
<1>2. ASSUME NEW r \in Item, DeleteRoom(r)
      PROVE  TypeOK'
  <2>1. PICK i \in DOMAIN order : order[i] = r /\ order' = RemoveAt(order, i)
    BY <1>2 DEF DeleteRoom
  <2>2. order' \in Seq(Item)
    BY <2>1, Removed DEF TypeOK
  <2>3. QED
    BY <1>2, <2>2, DeleteStep DEF TypeOK, PagerType
<1>3. CASE Begin
  <2>1. ToSet(order) \subseteq Item
    BY ElementsFinite DEF TypeOK
  <2>2. QED
    BY <1>3, <2>1 DEF Begin, Ready, TypeOK
<1>4. CASE GetPage
  <2>1. pager' \in PagerType /\ UNCHANGED <<list, order, drawn>>
    BY <1>4, PageStep
  <2>2. QED
    BY <2>1 DEF TypeOK, PagerType
<1>5. CASE UNCHANGED vars
  BY <1>5 DEF vars, TypeOK
<1>6. QED
  BY <1>1, <1>2, <1>3, <1>4, <1>5 DEF Next

\* Where everybody stands after a creation.
LEMMA Creates ==
    ASSUME TypeOK, Known, NEW r \in Item, Create(r), NEW n \in Nat
    PROVE  /\ r \notin drawn /\ drawn' = drawn \cup {r}
           /\ IsInjective(order') /\ ToSet(order') = ToSet(order) \cup {r}
           /\ FirstOf(order', n) \subseteq FirstOf(order, n) \cup {r}
           /\ \E x : RestOf(order', n) \subseteq RestOf(order, n) \cup {x}
           /\ list = "users" =>
                /\ RestOf(order', n) \subseteq RestOf(order, n) \cup {r}
                /\ n <= Len(order) => FirstOf(order', n) = FirstOf(order, n)
                /\ Len(order') = Len(order) + 1
<1>1. /\ r \notin drawn /\ drawn' = drawn \cup {r}
      /\ order' = IF list = "rooms" THEN Cons(r, order) ELSE Append(order, r)
  BY DEF Create, Inserted
<1>2. order \in Seq(Item) /\ IsInjective(order) /\ r \notin ToSet(order)
  BY <1>1 DEF TypeOK, Known
<1>3. CASE list = "rooms"
  <2>1. order' = Cons(r, order)
    BY <1>1, <1>3
  <2>2. /\ IsInjective(order') /\ ToSet(order') = ToSet(order) \cup {r}
        /\ FirstOf(order', n) \subseteq FirstOf(order, n) \cup {r}
        /\ RestOf(order', n) \subseteq RestOf(order, n) \cup {order'[n+1]}
    BY <1>2, <2>1, InFront
  <2>3. QED
    BY <1>1, <1>3, <2>2
<1>4. CASE list = "users"
  <2>1. order' = Append(order, r)
    BY <1>1, <1>4
  <2>2. /\ IsInjective(order') /\ ToSet(order') = ToSet(order) \cup {r}
        /\ FirstOf(order', n) \subseteq FirstOf(order, n) \cup {r}
        /\ RestOf(order', n) \subseteq RestOf(order, n) \cup {r}
        /\ n <= Len(order) => FirstOf(order', n) = FirstOf(order, n)
        /\ Len(order') = Len(order) + 1
    BY <1>2, <2>1, Behind
  <2>3. QED
    BY <1>1, <2>2
<1>5. QED
  BY <1>3, <1>4 DEF TypeOK

\* And after a deletion.
LEMMA Deletes ==
    ASSUME TypeOK, Known, NEW r \in Item, DeleteRoom(r), NEW n \in Nat
    PROVE  /\ IsInjective(order') /\ ToSet(order') = ToSet(order) \ {r}
           /\ \E x : FirstOf(order', n) \subseteq FirstOf(order, n) \cup {x}
           /\ RestOf(order', n) \subseteq RestOf(order, n)
<1>1. PICK i \in DOMAIN order : order[i] = r /\ order' = RemoveAt(order, i)
  BY DEF DeleteRoom
<1>2. order \in Seq(Item) /\ IsInjective(order) /\ i \in 1..Len(order)
  BY DEF TypeOK, Known
<1>3. QED
  BY <1>1, <1>2, RemovedElements

\* What the client knows was stored once, and no item is stored twice.
LEMMA KnownStep == TypeOK /\ Known /\ [Next]_vars => Known'
<1> SUFFICES ASSUME TypeOK, Known, [Next]_vars
             PROVE  Known'
  OBVIOUS
<1>1. ASSUME NEW r \in Item, Create(r)
      PROVE  Known'
  <2>1. /\ drawn' = drawn \cup {r} /\ IsInjective(order')
        /\ ToSet(order') = ToSet(order) \cup {r}
    BY <1>1, Creates
  <2>2. QED
    BY <1>1, <2>1, CreateStep DEF Known, Paging
<1>2. ASSUME NEW r \in Item, DeleteRoom(r)
      PROVE  Known'
  <2>1. IsInjective(order') /\ ToSet(order') = ToSet(order) \ {r}
    BY <1>2, Deletes
  <2>2. IsFiniteSet(pager.here \ {r})
    BY FS_RemoveElement DEF Known
  <2>3. QED
    BY <1>2, <2>1, <2>2, DeleteStep DEF Known, Paging
<1>3. CASE Begin
  <2>1. IsFiniteSet(ToSet(order)) /\ IsFiniteSet({})
    BY ElementsFinite, FS_EmptySet DEF TypeOK
  <2>2. pager' = [Ready EXCEPT !.pc = "paging", !.here = ToSet(order)]
        /\ UNCHANGED <<list, order, drawn>>
    BY <1>3 DEF Begin
  <2>3. /\ pager'.pc = "paging" /\ pager'.here = ToSet(order)
        /\ pager'.seen = {} /\ pager'.twice = {}
    BY <2>2 DEF Ready
  <2>4. QED
    BY <2>1, <2>2, <2>3 DEF Known
<1>4. CASE GetPage
  <2>1. PICK limit \in Nat :
          LET items == ToSet(Page(order, limit, pager.offset))
          IN  /\ pager'.pc \in {"done", "paging"}
              /\ pager'.seen = pager.seen \cup items
              /\ pager'.twice = pager.twice \cup (items \cap pager.seen)
              /\ pager'.here = pager.here
              /\ UNCHANGED <<list, order, drawn>>
    BY <1>4, PageStep
  <2> DEFINE items == ToSet(Page(order, limit, pager.offset))
  <2>2. items \subseteq ToSet(order)
    BY PageItems DEF TypeOK
  <2>3. IsFiniteSet(items)
    BY <2>2, ElementsFinite, FS_Subset DEF TypeOK
  <2>4. IsFiniteSet(pager.seen \cup items)
    BY <2>3, FS_Union DEF Known
  <2> HIDE DEF items
  <2>5. /\ pager'.seen = pager.seen \cup items
        /\ pager'.twice = pager.twice \cup (items \cap pager.seen)
    BY <2>1 DEF items
  <2>6. QED
    BY <1>4, <2>1, <2>2, <2>4, <2>5 DEF Known, GetPage, Paging
<1>5. CASE UNCHANGED vars
  BY <1>5 DEF vars, Known, Paging
<1>6. QED
  BY <1>1, <1>2, <1>3, <1>4, <1>5 DEF Next

\* An answer takes the client over what it lists, and to the end in the last.
LEMMA PagePlaces ==
    ASSUME TypeOK, Known, GetPage
    PROVE  \E items \in SUBSET ToSet(order) :
             /\ items \subseteq RestOf(order, pager.offset)
             /\ pager'.pc \in {"paging", "done"} /\ pager.pc = "paging"
             /\ pager'.seen = pager.seen \cup items
             /\ pager'.twice = pager.twice \cup (items \cap pager.seen)
             /\ pager'.here = pager.here /\ pager'.created = pager.created
             /\ pager'.deleted = pager.deleted
             /\ UNCHANGED <<list, order, drawn>>
             /\ FirstOf(order, pager'.offset) = FirstOf(order, pager.offset) \cup items
             /\ RestOf(order, pager'.offset) \subseteq RestOf(order, pager.offset)
             /\ pager'.pc = "paging" => pager'.offset <= Len(order)
             /\ pager'.pc = "done" => /\ FirstOf(order, pager'.offset) = ToSet(order)
                                      /\ pager'.total = Len(order)
<1>1. PICK limit \in Nat \ {0} :
        LET items == ToSet(Page(order, limit, pager.offset))
        IN  /\ pager' \in PagerType
            /\ pager'.pc = IF pager.offset + limit >= Len(order) THEN "done"
                                                                 ELSE "paging"
            /\ pager'.offset = pager.offset + limit
            /\ pager'.seen = pager.seen \cup items
            /\ pager'.twice = pager.twice \cup (items \cap pager.seen)
            /\ pager'.total = Len(order)
            /\ pager'.here = pager.here /\ pager'.created = pager.created
            /\ pager'.deleted = pager.deleted
            /\ UNCHANGED <<list, order, drawn>>
  BY PageStep
<1> DEFINE items == ToSet(Page(order, limit, pager.offset))
<1>2. pager.offset \in Nat /\ order \in Seq(Item) /\ limit \in Nat /\ Len(order) \in Nat
  BY DEF TypeOK
<1>3. /\ items \subseteq ToSet(order) /\ items \subseteq RestOf(order, pager.offset)
      /\ FirstOf(order, pager.offset + limit) = FirstOf(order, pager.offset) \cup items
      /\ RestOf(order, pager.offset + limit) \subseteq RestOf(order, pager.offset)
  BY <1>2, PageItems
<1>4. pager.offset + limit >= Len(order)
          => FirstOf(order, pager.offset + limit) = ToSet(order)
  BY <1>2 DEF FirstOf, ToSet
<1>5. /\ pager'.pc = IF pager.offset + limit >= Len(order) THEN "done" ELSE "paging"
      /\ pager'.offset = pager.offset + limit
      /\ pager'.seen = pager.seen \cup items
      /\ pager'.twice = pager.twice \cup (items \cap pager.seen)
      /\ pager'.total = Len(order)
      /\ pager'.here = pager.here /\ pager'.created = pager.created
      /\ pager'.deleted = pager.deleted
      /\ UNCHANGED <<list, order, drawn>>
  BY <1>1
<1>6. pager.pc = "paging"
  BY DEF GetPage, Paging
<1> HIDE DEF items
<1>7. pager'.pc = "paging" => pager'.offset <= Len(order)
  BY <1>2, <1>5
<1>8. QED
  BY <1>2, <1>3, <1>4, <1>5, <1>6, <1>7

\* A client begins with nothing collected, in front of everything stored.
LEMMA BeginStep ==
    ASSUME TypeOK, Begin
    PROVE  /\ pager'.pc = "paging" /\ pager'.offset = 0 /\ pager'.here = ToSet(order)
           /\ pager'.seen = {} /\ pager'.twice = {}
           /\ pager'.created = 0 /\ pager'.deleted = 0
           /\ UNCHANGED <<list, order, drawn>>
           /\ FirstOf(order, 0) = {}
BY DEF Begin, Ready, FirstOf, TypeOK

\* One deletion moves at most one item over the place of the client.
LEMMA SkippedStep ==
    TypeOK /\ Known /\ SkippedByDeletions /\ [Next]_vars => SkippedByDeletions'
<1> SUFFICES ASSUME TypeOK, Known, SkippedByDeletions, [Next]_vars
             PROVE  SkippedByDeletions'
  OBVIOUS
<1>1. IsFiniteSet(Skipped) /\ Cardinality(Skipped) \in Nat
  <2>1. IsFiniteSet(Skipped)
    BY NotMore DEF Skipped, Known
  <2>2. QED
    BY <2>1, FS_CardinalityType
<1>2. pager.deleted \in Nat /\ pager.offset \in Nat
  BY DEF TypeOK
<1>3. ASSUME NEW r \in Item, Create(r)
      PROVE  SkippedByDeletions'
  <2>1. CASE Paging
    <3>1. FirstOf(order', pager.offset) \subseteq FirstOf(order, pager.offset) \cup {r}
          /\ r \notin pager.here
      BY <1>2, <1>3, <2>1, Creates DEF Known
    <3>2. /\ pager'.pc = "paging" /\ pager'.deleted = pager.deleted
          /\ Skipped' = (pager.here \ pager.seen) \cap FirstOf(order', pager.offset)
      BY <1>3, <2>1, CreateStep DEF Skipped, Paging
    <3>3. Skipped' \subseteq Skipped
      BY <3>1, <3>2 DEF Skipped
    <3>4. Cardinality(Skipped') <= Cardinality(Skipped) /\ Cardinality(Skipped') \in Nat
      BY <1>1, <3>3, NotMore, FS_CardinalityType
    <3>5. Cardinality(Skipped)' <= pager.deleted
      BY <1>1, <1>2, <2>1, <3>4 DEF SkippedByDeletions
    <3>6. QED
      BY <3>2, <3>5 DEF SkippedByDeletions
  <2>2. CASE ~Paging
    BY <1>3, <2>2, CreateStep DEF SkippedByDeletions, Paging
  <2>3. QED
    BY <2>1, <2>2
<1>4. ASSUME NEW r \in Item, DeleteRoom(r)
      PROVE  SkippedByDeletions'
  <2>1. CASE Paging
    <3>1. PICK x : FirstOf(order', pager.offset)
                       \subseteq FirstOf(order, pager.offset) \cup {x}
      BY <1>2, <1>4, Deletes
    <3>2. /\ pager'.pc = "paging" /\ pager'.deleted = pager.deleted + 1
          /\ Skipped' = ((pager.here \ {r}) \ pager.seen) \cap FirstOf(order', pager.offset)
      BY <1>4, <2>1, DeleteStep DEF Skipped, Paging
    <3>3. Skipped' \subseteq Skipped \cup {x}
      BY <3>1, <3>2 DEF Skipped
    <3>4. Cardinality(Skipped') <= Cardinality(Skipped) + 1 /\ Cardinality(Skipped') \in Nat
      BY <1>1, <3>3, OneMore, FS_CardinalityType
    <3>5. Cardinality(Skipped') <= pager.deleted + 1
      BY <1>1, <1>2, <2>1, <3>4 DEF SkippedByDeletions
    <3>6. QED
      BY <3>2, <3>5 DEF SkippedByDeletions
  <2>2. CASE ~Paging
    BY <1>4, <2>2, DeleteStep DEF SkippedByDeletions, Paging
  <2>3. QED
    BY <2>1, <2>2
<1>5. CASE Begin
  <2>1. Skipped' = {} /\ pager'.deleted = 0 /\ pager'.pc = "paging"
    BY <1>5, BeginStep DEF Skipped
  <2>2. QED
    BY <2>1, FS_EmptySet DEF SkippedByDeletions
<1>6. CASE GetPage
  <2>1. PICK items \in SUBSET ToSet(order) :
             /\ pager'.pc \in {"paging", "done"} /\ pager.pc = "paging"
             /\ pager'.seen = pager.seen \cup items
             /\ pager'.here = pager.here /\ pager'.deleted = pager.deleted
             /\ order' = order
             /\ FirstOf(order, pager'.offset) = FirstOf(order, pager.offset) \cup items
             /\ pager'.pc = "done" => FirstOf(order, pager'.offset) = ToSet(order)
    BY <1>6, PagePlaces
  <2>2. Skipped' = (pager.here \ (pager.seen \cup items)) \cap FirstOf(order, pager'.offset)
    BY <2>1 DEF Skipped
  <2>3. Skipped' \subseteq Skipped
    BY <2>1, <2>2 DEF Skipped
  <2>4. pager'.pc = "done" => pager'.here \ pager'.seen = Skipped'
    BY <2>1, <2>2 DEF Known, Paging
  <2>5. Cardinality(Skipped') <= Cardinality(Skipped) /\ Cardinality(Skipped') \in Nat
    BY <1>1, <2>3, NotMore, FS_CardinalityType
  <2>6. Cardinality(Skipped') <= pager'.deleted
    BY <1>1, <1>2, <2>1, <2>5 DEF SkippedByDeletions, Paging
  <2>7. QED
    BY <2>4, <2>6 DEF SkippedByDeletions, Paging
<1>7. CASE UNCHANGED vars
  BY <1>7 DEF vars, SkippedByDeletions, Skipped, Paging
<1>8. QED
  BY <1>3, <1>4, <1>5, <1>6, <1>7 DEF Next

\* One creation pushes at most one item back over the place of the client.
LEMMA RepeatedStep ==
    TypeOK /\ Known /\ RepeatedByCreations /\ [Next]_vars => RepeatedByCreations'
<1> SUFFICES ASSUME TypeOK, Known, RepeatedByCreations, [Next]_vars
             PROVE  RepeatedByCreations'
  OBVIOUS
<1>1. IsFiniteSet(Repeatable) /\ Cardinality(Repeatable) \in Nat
  <2>1. Repeatable \subseteq pager.seen
    BY DEF Repeatable, Known
  <2>2. IsFiniteSet(Repeatable)
    BY <2>1, NotMore DEF Known
  <2>3. QED
    BY <2>2, FS_CardinalityType
<1>2. pager.created \in Nat /\ pager.offset \in Nat /\ list \in {"rooms", "users"}
  BY DEF TypeOK
<1>3. ASSUME NEW r \in Item, Create(r)
      PROVE  RepeatedByCreations'
  <2>1. CASE Paging
    <3>1. /\ pager'.pc = "paging" /\ pager'.created = pager.created + 1 /\ list' = list
          /\ Repeatable' = pager.twice
                               \cup (pager.seen \cap RestOf(order', pager.offset))
      BY <1>3, <2>1, CreateStep DEF Repeatable, Paging
    <3>2. CASE list = "rooms"
      <4>1. PICK x : RestOf(order', pager.offset)
                         \subseteq RestOf(order, pager.offset) \cup {x}
        BY <1>2, <1>3, Creates
      <4>2. Repeatable' \subseteq Repeatable \cup {x}
        BY <3>1, <4>1 DEF Repeatable
      <4>3. Cardinality(Repeatable') <= Cardinality(Repeatable) + 1
            /\ Cardinality(Repeatable') \in Nat
        BY <1>1, <4>2, OneMore, FS_CardinalityType
      <4>4. Moved' = Moved + 1 /\ Moved \in Nat
        BY <1>2, <3>1, <3>2 DEF Moved
      <4>5. Cardinality(Repeatable) <= Moved
        BY <2>1 DEF RepeatedByCreations
      <4>6. Cardinality(Repeatable') <= Moved'
        BY <1>1, <4>3, <4>4, <4>5
      <4>7. QED
        BY <3>1, <4>6 DEF RepeatedByCreations
    <3>3. CASE list = "users"
      <4>1. /\ r \notin pager.seen
            /\ RestOf(order', pager.offset) \subseteq RestOf(order, pager.offset) \cup {r}
        BY <1>2, <1>3, <3>3, Creates DEF Known
      <4>2. Repeatable' \subseteq Repeatable
        BY <3>1, <4>1 DEF Repeatable
      <4>3. Cardinality(Repeatable') <= Cardinality(Repeatable)
            /\ Cardinality(Repeatable') \in Nat
        BY <1>1, <4>2, NotMore, FS_CardinalityType
      <4>4. Moved' = 0 /\ Moved = 0
        BY <3>1, <3>3 DEF Moved
      <4>5. Cardinality(Repeatable) <= Moved
        BY <2>1 DEF RepeatedByCreations
      <4>6. Cardinality(Repeatable') <= Moved'
        BY <1>1, <4>3, <4>4, <4>5
      <4>7. QED
        BY <3>1, <4>6 DEF RepeatedByCreations
    <3>4. QED
      BY <1>2, <3>2, <3>3
  <2>2. CASE ~Paging
    BY <1>3, <2>2, CreateStep DEF RepeatedByCreations, Paging, Moved
  <2>3. QED
    BY <2>1, <2>2
<1>4. ASSUME NEW r \in Item, DeleteRoom(r)
      PROVE  RepeatedByCreations'
  <2>1. CASE Paging
    <3>1. RestOf(order', pager.offset) \subseteq RestOf(order, pager.offset)
      BY <1>2, <1>4, Deletes
    <3>2. /\ pager'.pc = "paging" /\ pager'.created = pager.created /\ list' = list
          /\ Repeatable' = pager.twice
                               \cup (pager.seen \cap RestOf(order', pager.offset))
      BY <1>4, <2>1, DeleteStep DEF Repeatable, Paging
    <3>3. Repeatable' \subseteq Repeatable
      BY <3>1, <3>2 DEF Repeatable
    <3>4. Cardinality(Repeatable') <= Cardinality(Repeatable)
          /\ Cardinality(Repeatable') \in Nat
      BY <1>1, <3>3, NotMore, FS_CardinalityType
    <3>5. Cardinality(Repeatable) <= Moved /\ Moved' = Moved /\ Moved \in Nat
      BY <1>2, <2>1, <3>2 DEF RepeatedByCreations, Moved
    <3>6. Cardinality(Repeatable') <= Moved'
      BY <1>1, <3>4, <3>5
    <3>7. QED
      BY <3>2, <3>6 DEF RepeatedByCreations
  <2>2. CASE ~Paging
    BY <1>4, <2>2, DeleteStep DEF RepeatedByCreations, Paging, Moved
  <2>3. QED
    BY <2>1, <2>2
<1>5. CASE Begin
  <2>1. /\ Repeatable' = {} /\ pager'.created = 0 /\ pager'.pc = "paging"
        /\ list' = list
    BY <1>5, BeginStep DEF Repeatable
  <2>2. Moved' = 0
    BY <2>1 DEF Moved
  <2>3. Cardinality(Repeatable') = 0
    BY <2>1, FS_EmptySet
  <2>4. QED
    BY <2>1, <2>2, <2>3 DEF RepeatedByCreations
<1>6. CASE GetPage
  <2>1. PICK items \in SUBSET ToSet(order) :
             /\ items \subseteq RestOf(order, pager.offset)
             /\ pager'.pc \in {"paging", "done"} /\ pager.pc = "paging"
             /\ pager'.seen = pager.seen \cup items
             /\ pager'.twice = pager.twice \cup (items \cap pager.seen)
             /\ pager'.created = pager.created
             /\ order' = order /\ list' = list
             /\ FirstOf(order, pager'.offset) = FirstOf(order, pager.offset) \cup items
             /\ RestOf(order, pager'.offset) \subseteq RestOf(order, pager.offset)
    BY <1>6, PagePlaces
  <2>2. FirstOf(order, pager'.offset) \cap RestOf(order, pager'.offset) = {}
    <3>1. pager'.offset \in Nat
      BY TypeStep DEF TypeOK
    <3>2. QED
      BY <3>1, BeforeOrBehind DEF TypeOK, Known
  <2>3. Repeatable' = pager'.twice \cup (pager'.seen \cap RestOf(order, pager'.offset))
    BY <2>1 DEF Repeatable
  <2>4. Repeatable' \subseteq Repeatable /\ pager'.twice \subseteq Repeatable
    BY <2>1, <2>2, <2>3 DEF Repeatable
  <2>5. /\ Cardinality(Repeatable') <= Cardinality(Repeatable)
        /\ Cardinality(Repeatable') \in Nat
        /\ Cardinality(pager'.twice) <= Cardinality(Repeatable)
        /\ Cardinality(pager'.twice) \in Nat
    BY <1>1, <2>4, NotMore, FS_CardinalityType
  <2>6. Cardinality(Repeatable) <= Moved /\ Moved' = Moved /\ Moved \in Nat
    BY <1>2, <2>1 DEF RepeatedByCreations, Moved, Paging
  <2>7. Cardinality(Repeatable') <= Moved' /\ Cardinality(pager'.twice) <= Moved'
    BY <1>1, <2>5, <2>6
  <2>8. QED
    BY <2>7 DEF RepeatedByCreations
<1>7. CASE UNCHANGED vars
  BY <1>7 DEF vars, RepeatedByCreations, Repeatable, Paging, Moved
<1>8. QED
  BY <1>3, <1>4, <1>5, <1>6, <1>7 DEF Next

\* Users move neither for a creation nor for an answer.
LEMMA UsersStep ==
    TypeOK /\ Known /\ UsersInPlace /\ [Next]_vars => UsersInPlace'
<1> SUFFICES ASSUME TypeOK, Known, UsersInPlace, [Next]_vars, list' = "users"
             PROVE  UsersInPlace'
  BY DEF UsersInPlace
<1>1. pager.offset \in Nat /\ Len(order) \in Nat
  BY DEF TypeOK
<1>2. ASSUME NEW r \in Item, Create(r)
      PROVE  UsersInPlace'
  <2>1. /\ pager'.pc = pager.pc /\ pager'.offset = pager.offset
        /\ pager'.seen = pager.seen /\ pager'.total = pager.total /\ list = "users"
    BY <1>2, CreateStep
  <2>2. /\ pager.offset <= Len(order)
              => FirstOf(order', pager.offset) = FirstOf(order, pager.offset)
        /\ Len(order') = Len(order) + 1
    BY <1>1, <1>2, <2>1, Creates
  <2>3. QED
    BY <1>1, <2>1, <2>2 DEF UsersInPlace, Paging
<1>3. ASSUME NEW r \in Item, DeleteRoom(r)
      PROVE  UsersInPlace'
  BY <1>3, DeleteStep
<1>4. CASE Begin
  <2>1. /\ pager'.pc = "paging" /\ pager'.offset = 0 /\ pager'.seen = {}
        /\ order' = order /\ FirstOf(order, 0) = {}
    BY <1>4, BeginStep
  <2>2. QED
    BY <1>1, <2>1 DEF UsersInPlace
<1>5. CASE GetPage
  <2>1. PICK items \in SUBSET ToSet(order) :
             /\ pager'.pc \in {"paging", "done"} /\ pager.pc = "paging"
             /\ pager'.seen = pager.seen \cup items
             /\ order' = order /\ list' = list
             /\ FirstOf(order, pager'.offset) = FirstOf(order, pager.offset) \cup items
             /\ pager'.pc = "paging" => pager'.offset <= Len(order)
             /\ pager'.pc = "done" => /\ FirstOf(order, pager'.offset) = ToSet(order)
                                      /\ pager'.total = Len(order)
    BY <1>5, PagePlaces
  <2>2. pager'.seen = FirstOf(order, pager'.offset)
    BY <2>1 DEF UsersInPlace, Paging
  <2>3. Cardinality(ToSet(order)) = Len(order)
    BY ElementsCounted DEF TypeOK, Known
  <2>4. QED
    BY <2>1, <2>2, <2>3 DEF UsersInPlace, Paging
<1>6. CASE UNCHANGED vars
  BY <1>6 DEF vars, UsersInPlace, Paging
<1>7. QED
  BY <1>2, <1>3, <1>4, <1>5, <1>6 DEF Next

-----------------------------------------------------------------------------
(* The theorems.                                                           *)

\* Nobody has asked for a page at first.
LEMMA InitInvariant == Init => IInv
<1> SUFFICES ASSUME Init
             PROVE  IInv
  OBVIOUS
<1>1. /\ list \in {"rooms", "users"} /\ drawn = ToSet(order)
      /\ pager = Ready /\ ~Paging /\ pager.pc = "ready"
      /\ pager.seen = {} /\ pager.twice = {} /\ pager.here = {}
  BY DEF Init, Ready, Paging
<1>2. order \in Seq(Item) /\ IsInjective(order) /\ ToSet(order) \subseteq Item
  <2>1. order = <<>> \/ \E r \in Item : order = <<r>>
    BY DEF Init
  <2>2. order \in Seq(Item) /\ Len(order) <= 1
    <3>1. CASE order = <<>>
      <4>1. <<>> \in Seq(Item) /\ Len(<<>>) = 0
        OBVIOUS
      <4>2. QED
        BY <3>1, <4>1
    <3>2. ASSUME NEW r \in Item, order = <<r>>
          PROVE  order \in Seq(Item) /\ Len(order) <= 1
      <4>1. <<r>> \in Seq(Item) /\ Len(<<r>>) = 1
        OBVIOUS
      <4>2. QED
        BY <3>2, <4>1
    <3>3. QED
      BY <2>1, <3>1, <3>2
  <2>3. IsInjective(order)
    BY <2>2 DEF IsInjective
  <2>4. QED
    BY <2>2, <2>3, ElementsFinite
<1>3. TypeOK
  BY <1>1, <1>2 DEF TypeOK, Ready
<1>4. Known
  BY <1>1, <1>2, FS_EmptySet DEF Known
<1>5. SkippedByDeletions /\ RepeatedByCreations /\ UsersInPlace
  BY <1>1 DEF SkippedByDeletions, RepeatedByCreations, UsersInPlace
<1>6. QED
  BY <1>3, <1>4, <1>5 DEF IInv

\* Every variable keeps its type.
THEOREM TypeCorrect == Spec => []TypeOK
<1>1. Init => TypeOK
  BY InitInvariant DEF IInv
<1>2. QED
  BY <1>1, TypeStep, PTL DEF Spec

\* What the client missed and was given twice is bounded by what was deleted
\* and created since its first page, at every place of the list it comes to.
THEOREM PlacesAccountedFor == Spec => []IInv
<1>1. IInv /\ [Next]_vars => IInv'
  BY TypeStep, KnownStep, SkippedStep, RepeatedStep, UsersStep DEF IInv
<1>2. QED
  BY <1>1, InitInvariant, PTL DEF Spec

\* A client that collects all pages of handleGetRooms or handleGetAllUsers has
\* missed at most as many rooms as were deleted meanwhile, was given at most as
\* many twice as were created, and has each user exactly once.
THEOREM PagesCollected == Spec => []CollectedOrChanged
<1>1. IInv => CollectedOrChanged
  <2> SUFFICES ASSUME IInv
               PROVE  CollectedOrChanged
    OBVIOUS
  <2>1. pager.pc \in {"ready", "paging", "done"} /\ pager.created \in Nat
        /\ Moved \in Nat
    BY DEF IInv, TypeOK, Moved
  <2>2. Cardinality(pager.twice) <= Moved
    <3>1. CASE pager.pc = "ready"
      <4>1. pager.twice = {}
        BY <3>1 DEF IInv, Known, Ready
      <4>2. QED
        BY <2>1, <4>1, FS_EmptySet
    <3>2. CASE Paging
      <4>1. pager.twice \subseteq Repeatable /\ Repeatable \subseteq pager.seen
            /\ IsFiniteSet(pager.seen)
        BY DEF Repeatable, IInv, Known
      <4>2. IsFiniteSet(Repeatable)
        BY <4>1, NotMore
      <4>3. /\ Cardinality(pager.twice) <= Cardinality(Repeatable)
            /\ Cardinality(pager.twice) \in Nat /\ Cardinality(Repeatable) \in Nat
        BY <4>1, <4>2, NotMore, FS_CardinalityType
      <4>4. Cardinality(Repeatable) <= Moved
        BY <3>2 DEF IInv, RepeatedByCreations
      <4>5. QED
        BY <2>1, <4>3, <4>4
    <3>3. CASE pager.pc = "done"
      BY <3>3 DEF IInv, RepeatedByCreations
    <3>4. QED
      BY <2>1, <3>1, <3>2, <3>3 DEF Paging
  <2>3. QED
    BY <2>2 DEF IInv, SkippedByDeletions, UsersInPlace, CollectedOrChanged, Moved
<1>2. QED
  BY <1>1, PlacesAccountedFor, PTL
=============================================================================
