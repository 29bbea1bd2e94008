------------------------ MODULE InterviewReportProofs ------------------------
(***************************************************************************)
(* What InterviewReport guarantees for any job descriptions, knowledge     *)
(* base, matches, replies and evaluations, and any caps; and that the      *)
(* review of the evaluations' reports, which takes them apart and computes *)
(* their scores again, agrees with them.                                   *)
(***************************************************************************)
EXTENDS OfflineModel, ReviewStudy, TLAPS, FiniteSetTheorems, WellFoundedInduction

(***************************************************************************)
(* The place of an element is the number of those before it: no two share  *)
(* one, there are as many places as elements, so each place is taken.      *)
(***************************************************************************)
LEMMA OrderedByEnumerates ==
    ASSUME NEW S, IsFiniteSet(S), NEW R,
           \A x \in S : <<x, x>> \notin R,
           \A x, y, z \in S : <<x, y>> \in R /\ <<y, z>> \in R => <<x, z>> \in R,
           \A x, y \in S : x # y => <<x, y>> \in R \/ <<y, x>> \in R
    PROVE  /\ OrderedBy(S, R) \in [1..Cardinality(S) -> S]
           /\ \A x \in S : \E r \in 1..Cardinality(S) : OrderedBy(S, R)[r] = x
           /\ \A q, r \in 1..Cardinality(S) :
                 <<OrderedBy(S, R)[q], OrderedBy(S, R)[r]>> \in R <=> q < r
           /\ \A r \in 1..Cardinality(S) :
                 Cardinality({y \in S : <<y, OrderedBy(S, R)[r]>> \in R}) = r - 1
<1> DEFINE n == Cardinality(S)
           before(x) == {y \in S : <<y, x>> \in R}
           place == [x \in S |-> Cardinality(before(x)) + 1]
<1>1. n \in Nat
  BY FS_CardinalityType
<1>2. \A x \in S : IsFiniteSet(before(x)) /\ Cardinality(before(x)) \in Nat
  <2> SUFFICES ASSUME NEW x \in S PROVE IsFiniteSet(before(x)) /\ Cardinality(before(x)) \in Nat
    OBVIOUS
  <2>1. before(x) \in SUBSET S
    OBVIOUS
  <2> HIDE DEF before
  <2> QED BY <2>1, FS_Subset, FS_CardinalityType
<1>3. \A x, y \in S : <<x, y>> \in R => place[x] < place[y]
  <2> SUFFICES ASSUME NEW x \in S, NEW y \in S, <<x, y>> \in R PROVE place[x] < place[y]
    OBVIOUS
  <2>1. before(x) \cup {x} \in SUBSET before(y) /\ x \notin before(x)
    OBVIOUS
  <2>2. /\ IsFiniteSet(before(x)) /\ Cardinality(before(x)) \in Nat
        /\ IsFiniteSet(before(y)) /\ Cardinality(before(y)) \in Nat
    BY <1>2
  <2>3. place[x] = Cardinality(before(x)) + 1 /\ place[y] = Cardinality(before(y)) + 1
    OBVIOUS
  <2> HIDE DEF before, place
  <2>4. Cardinality(before(x) \cup {x}) = Cardinality(before(x)) + 1
    BY <2>1, <2>2, FS_AddElement
  <2>5. Cardinality(before(x) \cup {x}) <= Cardinality(before(y))
    BY <2>1, <2>2, FS_Subset
  <2> QED BY <2>2, <2>3, <2>4, <2>5
<1>4. \A x \in S : place[x] \in 1..n
  <2> SUFFICES ASSUME NEW x \in S PROVE place[x] \in 1..n
    OBVIOUS
  <2>1. before(x) \in SUBSET (S \ {x}) /\ place[x] = Cardinality(before(x)) + 1
    OBVIOUS
  <2>2. IsFiniteSet(S \ {x}) /\ Cardinality(S \ {x}) = n - 1
    BY FS_RemoveElement
  <2>3. Cardinality(before(x)) \in Nat
    BY <1>2
  <2> HIDE DEF before, place
  <2>4. Cardinality(before(x)) <= n - 1
    BY <2>1, <2>2, FS_Subset
  <2> QED BY <1>1, <2>1, <2>3, <2>4
<1>5. \A x, y \in S : place[x] = place[y] => x = y
  <2> SUFFICES ASSUME NEW x \in S, NEW y \in S, place[x] = place[y], x # y PROVE FALSE
    OBVIOUS
  <2>1. place[x] < place[y] \/ place[y] < place[x]
    <3> HIDE DEF place
    <3> QED BY <1>3
  <2>2. place[x] \in Int
    <3> HIDE DEF place
    <3> QED BY <1>4
  <2> HIDE DEF place
  <2> QED BY <2>1, <2>2
<1>6. \A r \in 1..n : \E x \in S : place[x] = r
  <2>1. place \in Injection(S, 1..n)
    <3>1. place \in [S -> 1..n]
      BY <1>4
    <3> HIDE DEF place
    <3> QED BY <3>1, <1>5 DEF Injection, IsInjective
  <2>2. IsFiniteSet(1..n) /\ Cardinality(1..n) = n
    BY <1>1, FS_Interval
  <2> HIDE DEF place
  <2>3. place \in Surjection(S, 1..n)
    BY <2>1, <2>2, FS_Injection
  <2> QED BY <2>3 DEF Surjection
<1>7. \A r \in 1..n : OrderedBy(S, R)[r] \in S /\ place[OrderedBy(S, R)[r]] = r
  <2> SUFFICES ASSUME NEW r \in 1..n
               PROVE  OrderedBy(S, R)[r] \in S /\ place[OrderedBy(S, R)[r]] = r
    OBVIOUS
  <2>1. OrderedBy(S, R)[r] = CHOOSE x \in S : Cardinality(before(x)) = r - 1
    BY DEF OrderedBy
  <2>2. \E x \in S : Cardinality(before(x)) = r - 1
    <3>1. PICK x \in S : place[x] = r
      BY <1>6
    <3>2. place[x] = Cardinality(before(x)) + 1 /\ Cardinality(before(x)) \in Nat
      BY <1>2
    <3> HIDE DEF before, place
    <3> QED BY <3>1, <3>2
  <2> HIDE DEF before
  <2>3. OrderedBy(S, R)[r] \in S /\ Cardinality(before(OrderedBy(S, R)[r])) = r - 1
    BY <2>1, <2>2
  <2> QED BY <2>3
<1>11. \A r \in 1..n : Cardinality({y \in S : <<y, OrderedBy(S, R)[r]>> \in R}) = r - 1
  <2> SUFFICES ASSUME NEW r \in 1..n
               PROVE  Cardinality(before(OrderedBy(S, R)[r])) = r - 1
    OBVIOUS
  <2>1. /\ OrderedBy(S, R)[r] \in S /\ place[OrderedBy(S, R)[r]] = r
        /\ Cardinality(before(OrderedBy(S, R)[r])) \in Nat
    BY <1>2, <1>7
  <2>2. \A x \in S : place[x] = Cardinality(before(x)) + 1
    OBVIOUS
  <2> HIDE DEF before, place
  <2> QED BY <2>1, <2>2
<1> HIDE DEF before, place
<1>8. OrderedBy(S, R) \in [1..n -> S]
  BY <1>7 DEF OrderedBy
<1>9. \A x \in S : OrderedBy(S, R)[place[x]] = x
  BY <1>4, <1>5, <1>7
<1>10. ASSUME NEW q \in 1..n, NEW r \in 1..n
       PROVE  <<OrderedBy(S, R)[q], OrderedBy(S, R)[r]>> \in R <=> q < r
  <2> DEFINE x == OrderedBy(S, R)[q]
             y == OrderedBy(S, R)[r]
  <2>1. x \in S /\ y \in S /\ place[x] = q /\ place[y] = r
    BY <1>7
  <2> HIDE DEF x, y
  <2>2. <<x, y>> \in R => q < r
    BY <2>1, <1>3
  <2>3. q < r => <<x, y>> \in R
    <3> SUFFICES ASSUME q < r, <<x, y>> \notin R PROVE FALSE
      OBVIOUS
    <3>1. x # y
      BY <2>1, <1>1
    <3>2. <<y, x>> \in R
      BY <3>1, <2>1
    <3>3. r < q
      BY <3>2, <2>1, <1>3
    <3> QED BY <3>3, <1>1
  <2> QED BY <2>2, <2>3 DEF x, y
<1> QED BY <1>8, <1>9, <1>4, <1>10, <1>11

\* A finite set of integers in order: every element once, ascending.
LEMMA InOrderEnumerates ==
    ASSUME NEW S \in SUBSET Int, IsFiniteSet(S)
    PROVE  /\ Cardinality(S) \in Nat
           /\ InOrder(S) \in [1..Cardinality(S) -> S]
           /\ \A x \in S : \E r \in 1..Cardinality(S) : InOrder(S)[r] = x
           /\ \A q, r \in 1..Cardinality(S) : InOrder(S)[q] < InOrder(S)[r] <=> q < r
<1> DEFINE R == {p \in S \X S : p[1] < p[2]}
<1>1. \A x, y \in S : <<x, y>> \in R <=> x < y
  OBVIOUS
<1>2. InOrder(S) = OrderedBy(S, R)
  BY DEF InOrder
<1> HIDE DEF R
<1>3. /\ \A x \in S : <<x, x>> \notin R
      /\ \A x, y, z \in S : <<x, y>> \in R /\ <<y, z>> \in R => <<x, z>> \in R
      /\ \A x, y \in S : x # y => <<x, y>> \in R \/ <<y, x>> \in R
  BY <1>1
<1>4. /\ OrderedBy(S, R) \in [1..Cardinality(S) -> S]
      /\ \A x \in S : \E r \in 1..Cardinality(S) : OrderedBy(S, R)[r] = x
      /\ \A q, r \in 1..Cardinality(S) :
            <<OrderedBy(S, R)[q], OrderedBy(S, R)[r]>> \in R <=> q < r
  BY <1>3, OrderedByEnumerates
<1>5. Cardinality(S) \in Nat
  BY FS_CardinalityType
<1> QED BY <1>1, <1>2, <1>4, <1>5

(***************************************************************************)
(* A sublist has the items at the places, in order.                        *)
(***************************************************************************)
LEMMA SublistItems ==
    ASSUME NEW X, NEW s \in Seq(X), NEW P \in SUBSET (DOMAIN s)
    PROVE  /\ IsFiniteSet(P) /\ Cardinality(P) \in Nat
           /\ Sublist(s, P) \in Seq(X)
           /\ Len(Sublist(s, P)) = Cardinality(P)
           /\ InOrder(P) \in [1..Cardinality(P) -> P]
           /\ \A k \in 1..Cardinality(P) : Sublist(s, P)[k] = s[InOrder(P)[k]]
           /\ \A p \in P : \E k \in 1..Cardinality(P) : InOrder(P)[k] = p
           /\ \A j, k \in 1..Cardinality(P) : InOrder(P)[j] < InOrder(P)[k] <=> j < k
<1>1. P \in SUBSET Nat /\ \A p \in P : p <= Len(s)
  OBVIOUS
<1>2. IsFiniteSet(P)
  BY <1>1, FS_BoundedSetOfNaturals
<1>3. P \in SUBSET Int
  BY <1>1
<1>4. /\ Cardinality(P) \in Nat
      /\ InOrder(P) \in [1..Cardinality(P) -> P]
      /\ \A x \in P : \E r \in 1..Cardinality(P) : InOrder(P)[r] = x
      /\ \A q, r \in 1..Cardinality(P) : InOrder(P)[q] < InOrder(P)[r] <=> q < r
  BY <1>2, <1>3, InOrderEnumerates
<1>5. /\ \A k \in 1..Cardinality(P) : Sublist(s, P)[k] = s[InOrder(P)[k]]
      /\ Sublist(s, P) \in [1..Cardinality(P) -> X]
  BY <1>4 DEF Sublist
<1>6. Sublist(s, P) \in Seq(X) /\ Len(Sublist(s, P)) = Cardinality(P)
  BY <1>4, <1>5
<1> QED BY <1>2, <1>4, <1>5, <1>6

\* The places of a list in order are a list of just these places.
LEMMA InOrderItems ==
    ASSUME NEW n \in Nat, NEW P \in SUBSET (1..n)
    PROVE  /\ IsFiniteSet(P)
           /\ InOrder(P) \in Seq(P)
           /\ ToSet(InOrder(P)) = P
<1>1. P \in SUBSET Nat /\ P \in SUBSET Int /\ \A p \in P : p <= n
  OBVIOUS
<1>2. IsFiniteSet(P)
  BY <1>1, FS_BoundedSetOfNaturals
<1>3. /\ Cardinality(P) \in Nat
      /\ InOrder(P) \in [1..Cardinality(P) -> P]
      /\ \A x \in P : \E r \in 1..Cardinality(P) : InOrder(P)[r] = x
  BY <1>1, <1>2, InOrderEnumerates
<1>4. DOMAIN InOrder(P) = 1..Cardinality(P) /\ InOrder(P) \in Seq(P)
  BY <1>3
<1>5. ToSet(InOrder(P)) = P
  BY <1>3, <1>4 DEF ToSet
<1> QED BY <1>2, <1>4, <1>5

(***************************************************************************)
(* Induction, and recursion over the places of a list.                     *)
(***************************************************************************)
Less == {p \in Nat \X Nat : p[1] < p[2]}

\* The order of the naturals is well founded: the library's fact, for Less.
LEMMA LessWellFounded == IsWellFoundedOn(Less, Nat)
<1>1. OpToRel(<, Nat) = Less
  BY DEF OpToRel, Less
<1> QED BY <1>1, NatLessThanWellFounded

\* Induction over the naturals, on a set instead of a predicate.
LEMMA SetInduction ==
    ASSUME NEW S \in SUBSET Nat, 0 \in S, \A n \in S : n + 1 \in S
    PROVE  S = Nat
<1>1. SUFFICES ASSUME Nat \ S # {} PROVE FALSE
  OBVIOUS
<1>2. PICK m \in Nat \ S : \A y \in Nat \ S : ~(<<y, m>> \in Less)
  BY <1>1, LessWellFounded, WFMin
<1>3. m # 0 /\ m - 1 \in Nat /\ m = (m - 1) + 1
  BY <1>2
<1>4. m - 1 \notin S
  BY <1>2, <1>3
<1>5. <<m - 1, m>> \in Less
  BY <1>3 DEF Less
<1> QED BY <1>2, <1>3, <1>4, <1>5

(***************************************************************************)
(* The least number with a property.                                       *)
(***************************************************************************)
LEMMA Least ==
    ASSUME NEW S \in SUBSET Nat, S # {}
    PROVE  \E m \in S : \A k \in S : m <= k
<1>1. PICK m \in S : \A y \in S : ~(<<y, m>> \in Less)
  BY LessWellFounded, WFMin
<1>2. \A y \in S : y < m => <<y, m>> \in Less
  <2>1. \A y \in S : y \in Nat
    OBVIOUS
  <2> QED BY <2>1 DEF Less
<1>3. \A y \in S : ~(y < m)
  BY <1>1, <1>2
<1>4. \A y \in S : y \in Int /\ m \in Int
  OBVIOUS
<1> QED BY <1>3, <1>4

\* A non-empty set of bounded naturals has a greatest element.
LEMMA Greatest ==
    ASSUME NEW n \in Nat, NEW S \in SUBSET (0..n), S # {}
    PROVE  \E m \in S : \A k \in S : k <= m
<1> DEFINE T == {n - k : k \in S}
<1>1. T \in SUBSET Nat /\ T # {}
  <2>1. \A k \in S : k \in 0..n /\ n - k \in Nat
    OBVIOUS
  <2>2. PICK k \in S : TRUE
    OBVIOUS
  <2>3. n - k \in T
    OBVIOUS
  <2> QED BY <2>1, <2>3
<1>2. PICK m \in T : \A k \in T : m <= k
  <2> HIDE DEF T
  <2> QED BY <1>1, Least
<1>3. \A k \in S : n - k \in T
  OBVIOUS
<1>5. PICK x \in S : m = n - x
  OBVIOUS
<1>4. \A k \in S : n - x <= n - k
  <2> HIDE DEF T
  <2> QED BY <1>2, <1>3, <1>5
<1> QED BY <1>4

Pairs(V, n) == V \X (1..n)

Follows(f, V, base, n, step) ==
    /\ f \in [0..n -> V]
    /\ f[0] = base
    /\ \A k \in 1..n : f[k] = step[<<f[k - 1], k>>]

\* A recursive function up to n exists, for any step on pairs of a value and a place.
LEMMA Recursion ==
    ASSUME NEW V, NEW base \in V, NEW n \in Nat, NEW step \in [Pairs(V, n) -> V]
    PROVE  \E f : Follows(f, V, base, n, step)
<1> DEFINE Solves(f, m) == f \in [0..m -> V] /\ f[0] = base
                             /\ \A k \in 1..m : f[k] = step[<<f[k - 1], k>>]
           T == {m \in Nat : m <= n => \E f \in [0..m -> V] : Solves(f, m)}
<1>0. step \in [V \X (1..n) -> V]
  BY DEF Pairs
<1>1. 0 \in T
  <2>1. Solves([k \in 0..0 |-> base], 0)
    OBVIOUS
  <2> QED BY <2>1
<1>2. ASSUME NEW m \in T PROVE m + 1 \in T
  <2>0. m \in Nat
    OBVIOUS
  <2> SUFFICES ASSUME m + 1 <= n PROVE \E f \in [0..m + 1 -> V] : Solves(f, m + 1)
    OBVIOUS
  <2>1. PICK f \in [0..m -> V] : Solves(f, m)
    OBVIOUS
  <2> DEFINE g == [k \in 0..m + 1 |-> IF k = m + 1 THEN step[<<f[m], m + 1>>] ELSE f[k]]
  <2>2. step[<<f[m], m + 1>>] \in V
    BY <1>0, <2>1
  <2>3. g \in [0..m + 1 -> V] /\ g[0] = base
    BY <2>1, <2>2
  <2>4. \A k \in 1..m + 1 : g[k] = step[<<g[k - 1], k>>]
    <3> SUFFICES ASSUME NEW k \in 1..m + 1 PROVE g[k] = step[<<g[k - 1], k>>]
      OBVIOUS
    <3>1. CASE k = m + 1
      <4>1. g[m + 1] = step[<<f[m], m + 1>>] /\ g[m] = f[m] /\ k - 1 = m
        BY <3>1, <2>0
      <4> HIDE DEF g
      <4> QED BY <3>1, <4>1
    <3>2. CASE k # m + 1
      <4>1. k \in 1..m /\ k - 1 \in 0..m /\ k # m + 1 /\ k - 1 # m + 1
        BY <3>2, <2>0
      <4>2. g[k] = f[k] /\ g[k - 1] = f[k - 1]
        BY <4>1
      <4> HIDE DEF g
      <4> QED BY <4>1, <4>2, <2>1
    <3> QED BY <3>1, <3>2
  <2> QED BY <2>3, <2>4
<1>3. T = Nat
  <2> HIDE DEF T
  <2>1. T \in SUBSET Nat
    BY DEF T
  <2> QED BY <1>1, <1>2, <2>1, SetInduction
<1>4. n \in T
  BY <1>3
<1>5. PICK f \in [0..n -> V] : Solves(f, n)
  BY <1>4
<1> QED BY <1>5 DEF Follows

-----------------------------------------------------------------------------
(***************************************************************************)
(* The plan.  Its lists have an entry for each name, in the job            *)
(* description's words.                                                    *)
(***************************************************************************)
DistinctNames(list) == \A i, j \in DOMAIN list : list[i].name = list[j].name => i = j

\* A list that names nothing twice has as many names as entries.
LEMMA DistinctCount ==
    ASSUME NEW X, NEW list \in Seq(X), DistinctNames(list)
    PROVE  IsFiniteSet(NamesOf(list)) /\ Cardinality(NamesOf(list)) = Len(list)
<1> DEFINE f == [k \in 1..Len(list) |-> list[k].name]
<1>1. IsFiniteSet(1..Len(list)) /\ Cardinality(1..Len(list)) = Len(list)
  <2>1. Len(list) \in Nat /\ 1 \in Int /\ Len(list) \in Int
    OBVIOUS
  <2>2. /\ IsFiniteSet(1..Len(list))
        /\ Cardinality(1..Len(list)) = IF 1 > Len(list) THEN 0 ELSE Len(list) - 1 + 1
    BY <2>1, FS_Interval
  <2> QED BY <2>1, <2>2
<1>2. f \in Bijection(1..Len(list), NamesOf(list))
  <2>1. f \in [1..Len(list) -> NamesOf(list)]
    BY DEF NamesOf
  <2>2. \A i, j \in 1..Len(list) : f[i] = f[j] => i = j
    BY DEF DistinctNames
  <2>3. \A x \in NamesOf(list) : \E k \in 1..Len(list) : f[k] = x
    BY DEF NamesOf
  <2> HIDE DEF f
  <2> QED BY <2>1, <2>2, <2>3 DEF Bijection, Injection, IsInjective, Surjection
<1> HIDE DEF f
<1>3. ExistsBijection(1..Len(list), NamesOf(list))
  BY <1>2 DEF ExistsBijection
<1> QED BY <1>1, <1>3, FS_Bijection

\* The smaller of two naturals.
LEMMA Least2 ==
    ASSUME NEW a \in Nat, NEW b \in Nat
    PROVE  Min({a, b}) = IF a <= b THEN a ELSE b
<1>1. \E m \in {a, b} : \A k \in {a, b} : m <= k
  OBVIOUS
<1>2. Min({a, b}) \in {a, b} /\ \A k \in {a, b} : Min({a, b}) <= k
  BY <1>1 DEF Min
<1> QED BY <1>2

\* The first n of a list: Python's list[:n].
LEMMA FirstItems ==
    ASSUME NEW X, NEW s \in Seq(X), NEW n \in Nat
    PROVE  /\ First(s, n) \in Seq(X)
           /\ Len(First(s, n)) = Min({n, Len(s)})
           /\ Min({n, Len(s)}) \in 0..Len(s)
           /\ \A k \in 1..Min({n, Len(s)}) : First(s, n)[k] = s[k]
<1> DEFINE m == Min({n, Len(s)})
<1>1. m \in 0..Len(s)
  BY Least2
<1> HIDE DEF m
<1>2. /\ SubSeq(s, 1, m) \in Seq(X)
      /\ Len(SubSeq(s, 1, m)) = m
      /\ \A k \in 1..m : SubSeq(s, 1, m)[k] = s[k]
  BY <1>1
<1> QED BY <1>1, <1>2 DEF First, m

\* The places at which a name occurs first: each name has exactly one.
LEMMA FirstPlacesOf ==
    ASSUME NEW X, NEW list \in Seq(X)
    PROVE  /\ FirstPlaces(list) \in SUBSET (DOMAIN list)
           /\ \A i, j \in FirstPlaces(list) : list[i].name = list[j].name => i = j
           /\ \A k \in DOMAIN list : \E i \in FirstPlaces(list) : list[i].name = list[k].name
<1>1. FirstPlaces(list) \in SUBSET (DOMAIN list)
  BY DEF FirstPlaces
<1>2. ASSUME NEW i \in FirstPlaces(list), NEW j \in FirstPlaces(list), list[i].name = list[j].name
      PROVE  i = j
  <2>1. i \in 1..Len(list) /\ j \in 1..Len(list)
    BY <1>1
  <2>2. ~(i \in 1..j - 1) /\ ~(j \in 1..i - 1)
    BY <1>2 DEF FirstPlaces
  <2> QED BY <2>1, <2>2
<1>3. ASSUME NEW k \in DOMAIN list
      PROVE  \E i \in FirstPlaces(list) : list[i].name = list[k].name
  <2> DEFINE S == {i \in DOMAIN list : list[i].name = list[k].name}
  <2>1. S \in SUBSET Nat /\ S # {}
    OBVIOUS
  <2>2. PICK m \in S : \A i \in S : m <= i
    <3> HIDE DEF S
    <3> QED BY <2>1, Least
  <2>3. \A j \in 1..m - 1 : j \in DOMAIN list /\ j \notin S
    BY <2>2
  <2>4. m \in FirstPlaces(list)
    BY <2>3 DEF FirstPlaces
  <2> QED BY <2>4
<1> QED BY <1>1, <1>2, <1>3

\* A list keyed by name keeps every name, once (dict.setdefault per entry).
LEMMA KeyedItems ==
    ASSUME NEW E, NEW entries \in Seq(E)
    PROVE  /\ Keyed(entries) \in Seq(E)
           /\ DistinctNames(Keyed(entries))
           /\ NamesOf(Keyed(entries)) = NamesOf(entries)
<1> DEFINE P == FirstPlaces(entries)
           last(k) == Max({j \in DOMAIN entries : entries[j].name = entries[k].name})
           order == InOrder(P)
<1>1. /\ P \in SUBSET (DOMAIN entries)
      /\ \A i, j \in P : entries[i].name = entries[j].name => i = j
      /\ \A k \in DOMAIN entries : \E i \in P : entries[i].name = entries[k].name
  BY FirstPlacesOf
<1>2. \A k \in DOMAIN entries : last(k) \in DOMAIN entries /\ entries[last(k)].name = entries[k].name
  <2> SUFFICES ASSUME NEW k \in DOMAIN entries
               PROVE  last(k) \in DOMAIN entries /\ entries[last(k)].name = entries[k].name
    OBVIOUS
  <2> DEFINE S == {j \in DOMAIN entries : entries[j].name = entries[k].name}
  <2>1. S \in SUBSET (0..Len(entries)) /\ S # {} /\ Len(entries) \in Nat
    OBVIOUS
  <2>2. PICK m \in S : \A i \in S : i <= m
    <3> HIDE DEF S
    <3> QED BY <2>1, Greatest
  <2>3. \A i \in S : m >= i
    BY <2>2
  <2>4. Max(S) \in S
    <3> HIDE DEF S
    <3> QED BY <2>3 DEF Max
  <2> QED BY <2>4
<1> HIDE DEF P, last
<1>3. /\ Cardinality(P) \in Nat
      /\ order \in [1..Cardinality(P) -> P]
      /\ \A p \in P : \E k \in 1..Cardinality(P) : order[k] = p
      /\ \A j, k \in 1..Cardinality(P) : order[j] < order[k] <=> j < k
  BY <1>1, SublistItems
<1>4. Keyed(entries) = [i \in 1..Cardinality(P) |-> entries[last(order[i])]]
  BY <1>3 DEF Keyed, P, last
<1> HIDE DEF order
<1>5. Keyed(entries) \in [1..Cardinality(P) -> E]
  BY <1>1, <1>2, <1>3, <1>4
<1>6. Keyed(entries) \in Seq(E) /\ DOMAIN Keyed(entries) = 1..Cardinality(P)
  BY <1>3, <1>5
<1>7. \A i \in 1..Cardinality(P) : Keyed(entries)[i].name = entries[order[i]].name
  BY <1>1, <1>2, <1>3, <1>4
<1>8. ASSUME NEW i \in 1..Cardinality(P), NEW j \in 1..Cardinality(P),
             Keyed(entries)[i].name = Keyed(entries)[j].name
      PROVE  i = j
  <2>1. order[i] = order[j]
    <3>1. order[i] \in P /\ order[j] \in P
      BY <1>3
    <3>2. entries[order[i]].name = entries[order[j]].name
      BY <1>7, <1>8
    <3> QED BY <1>1, <3>1, <3>2
  <2>2. order[i] \in Nat /\ order[j] \in Nat
    <3>1. \A p \in P : p \in Nat
      BY <1>1
    <3> QED BY <1>3, <3>1
  <2>3. ~(i < j) /\ ~(j < i)
    BY <1>3, <2>1, <2>2
  <2> QED BY <2>3, <1>3
<1>9. NamesOf(Keyed(entries)) = NamesOf(entries)
  <2>1. \A x \in NamesOf(Keyed(entries)) : x \in NamesOf(entries)
    BY <1>1, <1>3, <1>6, <1>7 DEF NamesOf
  <2>2. ASSUME NEW k \in DOMAIN entries PROVE entries[k].name \in NamesOf(Keyed(entries))
    <3>1. PICK p \in P : entries[p].name = entries[k].name
      BY <1>1
    <3>2. PICK i \in 1..Cardinality(P) : order[i] = p
      BY <1>3
    <3>3. Keyed(entries)[i].name = entries[k].name
      BY <1>7, <3>1, <3>2
    <3> QED BY <3>3, <1>6 DEF NamesOf
  <2> QED BY <2>1, <2>2 DEF NamesOf
<1> QED BY <1>6, <1>8, <1>9 DEF DistinctNames

Annotation(E) == [entry : E, name : Names, source : {"both", "jobspec"}]

\* Annotating entries with the occupation's keeps them, their names and their number.
LEMMA AnnotatedItems ==
    ASSUME NEW E, \A e \in E : e.name \in Names, NEW entries \in Seq(E), NEW names
    PROVE  /\ Annotated(entries, names) \in Seq(Annotation(E))
           /\ Len(Annotated(entries, names)) = Len(entries)
           /\ \A k \in DOMAIN entries : /\ Annotated(entries, names)[k].entry = entries[k]
                                        /\ Annotated(entries, names)[k].name = entries[k].name
           /\ NamesOf(Annotated(entries, names)) = NamesOf(entries)
           /\ DistinctNames(entries) => DistinctNames(Annotated(entries, names))
<1>1. \A k \in 1..Len(entries) :
        [entry |-> entries[k], name |-> entries[k].name,
         source |-> IF entries[k].name \in names THEN "both" ELSE "jobspec"] \in Annotation(E)
  BY DEF Annotation
<1>2. /\ Annotated(entries, names) \in [1..Len(entries) -> Annotation(E)]
      /\ \A k \in DOMAIN entries : /\ Annotated(entries, names)[k].entry = entries[k]
                                   /\ Annotated(entries, names)[k].name = entries[k].name
  BY <1>1 DEF Annotated
<1>3. /\ Annotated(entries, names) \in Seq(Annotation(E))
      /\ Len(Annotated(entries, names)) = Len(entries)
      /\ DOMAIN Annotated(entries, names) = 1..Len(entries) /\ DOMAIN entries = 1..Len(entries)
  BY <1>2
<1>4. NamesOf(Annotated(entries, names)) = NamesOf(entries)
  BY <1>2, <1>3 DEF NamesOf
<1>5. DistinctNames(entries) => DistinctNames(Annotated(entries, names))
  BY <1>2, <1>3 DEF DistinctNames
<1> QED BY <1>2, <1>3, <1>4, <1>5

(***************************************************************************)
(* What a cap leaves of a list with distinct names.                        *)
(***************************************************************************)
LEMMA CapFills ==
    ASSUME NEW X, NEW list \in Seq(X), DistinctNames(list), NEW cap \in Nat
    PROVE  /\ First(list, cap) \in Seq(X)
           /\ DistinctNames(First(list, cap))
           /\ NamesOf(First(list, cap)) \subseteq NamesOf(list)
           /\ Cardinality(NamesOf(First(list, cap))) = Min({cap, Cardinality(NamesOf(list))})
<1> DEFINE m == Min({cap, Len(list)})
<1>1. /\ First(list, cap) \in Seq(X)
      /\ Len(First(list, cap)) = m
      /\ m \in 0..Len(list)
      /\ \A k \in 1..m : First(list, cap)[k] = list[k]
  BY FirstItems
<1> HIDE DEF m
<1>2. DOMAIN First(list, cap) = 1..m /\ \A k \in 1..m : k \in DOMAIN list
  BY <1>1
<1>3. DistinctNames(First(list, cap)) /\ NamesOf(First(list, cap)) \subseteq NamesOf(list)
  BY <1>1, <1>2 DEF DistinctNames, NamesOf
<1>4. Cardinality(NamesOf(First(list, cap))) = m
  BY <1>1, <1>3, DistinctCount
<1> QED BY <1>1, <1>3, <1>4, DistinctCount DEF m

-----------------------------------------------------------------------------
(***************************************************************************)
(* Technologies: the cap takes the first places of the ranking, required   *)
(* ones before preferred ones.                                             *)
(***************************************************************************)
Ahead(technologies) ==
    {p \in (DOMAIN technologies) \X (DOMAIN technologies) :
        \/ technologies[p[1]].entry.required /\ ~technologies[p[2]].entry.required
        \/ /\ technologies[p[1]].entry.required = technologies[p[2]].entry.required
           /\ p[1] < p[2]}

\* The caps of the plan, as PlanBuildingAssumption has them.
LEMMA CapsAreNaturals ==
    /\ MaxCompetencies \in Nat /\ MaxTechnologies \in Nat /\ MaxTasks \in Nat
    /\ MaxContext \in Nat /\ MinOccupations \in Nat
<1>1. {MaxCompetencies, MaxTechnologies, MaxTasks, MaxContext, MinOccupations} \subseteq Nat
  BY PlanBuildingAssumption
<1> QED BY <1>1

\* The cut of the technologies keeps as many as the cap allows, and no preferred one
\* while a required one goes (planning._build_technologies).
LEMMA SurvivingAre ==
    ASSUME NEW technologies \in Seq(Annotation(Skill))
    PROVE  LET n == Len(technologies)
           IN  /\ Surviving(technologies) \in SUBSET (1..n)
               /\ IsFiniteSet(Surviving(technologies))
               /\ Cardinality(Surviving(technologies)) = Min({MaxTechnologies, n})
               /\ \A j, k \in 1..n :
                     /\ k \in Surviving(technologies)
                     /\ technologies[j].entry.required /\ ~technologies[k].entry.required
                     => j \in Surviving(technologies)
<1> DEFINE n == Len(technologies)
           R == Ahead(technologies)
           o == OrderedBy(1..n, R)
           m == Min({MaxTechnologies, n})
<1>1. n \in Nat /\ DOMAIN technologies = 1..n /\ MaxTechnologies \in Nat
  <2>1. n \in Nat /\ DOMAIN technologies = 1..n
    OBVIOUS
  <2>2. MaxTechnologies \in Nat
    BY CapsAreNaturals
  <2> QED BY <2>1, <2>2
<1>2. \A k \in 1..n : technologies[k].entry.required \in BOOLEAN
  <2>1. \A k \in 1..n : technologies[k] \in Annotation(Skill)
    BY <1>1
  <2> HIDE DEF n
  <2>2. \A a \in Annotation(Skill) : a.entry.required \in BOOLEAN
    <3>1. \A a \in Annotation(Skill) : a.entry \in Skill
      BY DEF Annotation
    <3>2. \A x \in Skill : x.required \in BOOLEAN
      BY DEF Skill
    <3> QED BY <3>1, <3>2
  <2> QED BY <2>1, <2>2
<1>3. m \in 0..n /\ m = IF MaxTechnologies <= n THEN MaxTechnologies ELSE n
  BY <1>1, Least2
<1>4. \A j, k \in 1..n : <<j, k>> \in R <=>
         \/ technologies[j].entry.required /\ ~technologies[k].entry.required
         \/ technologies[j].entry.required = technologies[k].entry.required /\ j < k
  BY <1>1 DEF Ahead
<1>5. /\ \A x \in 1..n : <<x, x>> \notin R
      /\ \A x, y, z \in 1..n : <<x, y>> \in R /\ <<y, z>> \in R => <<x, z>> \in R
      /\ \A x, y \in 1..n : x # y => <<x, y>> \in R \/ <<y, x>> \in R
  <2> HIDE DEF R
  <2> QED BY <1>2, <1>4, SMTT(60)
<1>6. IsFiniteSet(1..n) /\ Cardinality(1..n) = n
  <2>1. /\ IsFiniteSet(1..n)
        /\ Cardinality(1..n) = IF 1 > n THEN 0 ELSE n - 1 + 1
    BY <1>1, FS_Interval, SMTT(60)
  <2> QED BY <1>1, <2>1
<1>7. Surviving(technologies) = {k \in 1..n : Cardinality({j \in 1..n : <<j, k>> \in R}) < MaxTechnologies}
  <2>1. \A k \in 1..n : {j \in 1..n : <<j, k>> \in R}
          = {j \in 1..n : \/ technologies[j].entry.required /\ ~technologies[k].entry.required
                          \/ technologies[j].entry.required = technologies[k].entry.required /\ j < k}
    <3> HIDE DEF R
    <3> QED BY <1>4
  <2> HIDE DEF R
  <2> QED BY <1>1, <2>1 DEF Surviving
<1> HIDE DEF n, R, m
<1>8. /\ o \in [1..n -> 1..n]
      /\ \A x \in 1..n : \E r \in 1..n : o[r] = x
      /\ \A q, r \in 1..n : <<o[q], o[r]>> \in R <=> q < r
      /\ \A r \in 1..n : Cardinality({y \in 1..n : <<y, o[r]>> \in R}) = r - 1
  BY <1>5, <1>6, OrderedByEnumerates
<1> HIDE DEF o
<1>9. \A r \in 1..n : o[r] \in Surviving(technologies) <=> r <= m
  <2> SUFFICES ASSUME NEW r \in 1..n PROVE o[r] \in Surviving(technologies) <=> r <= m
    OBVIOUS
  <2>1. o[r] \in Surviving(technologies) <=> r - 1 < MaxTechnologies
    BY <1>7, <1>8
  <2> QED BY <1>1, <1>3, <2>1
<1>10. Surviving(technologies) \in SUBSET (1..n)
  BY <1>7
<1>11. IsFiniteSet(Surviving(technologies)) /\ Cardinality(Surviving(technologies)) = m
  <2> DEFINE f == [r \in 1..m |-> o[r]]
  <2>1. \A r \in 1..m : r \in 1..n
    BY <1>1, <1>3
  <2>2. f \in [1..m -> Surviving(technologies)]
    BY <1>8, <1>9, <2>1, <1>3
  <2>3. ASSUME NEW q \in 1..m, NEW r \in 1..m, f[q] = f[r] PROVE q = r
    <3>1. o[q] = o[r] /\ q \in 1..n /\ r \in 1..n
      BY <2>1, <2>3
    <3>2. ~(q < r) /\ ~(r < q)
      BY <1>5, <1>8, <3>1
    <3> QED BY <1>3, <3>2, <1>1
  <2>4. \A x \in Surviving(technologies) : \E r \in 1..m : f[r] = x
    <3> SUFFICES ASSUME NEW x \in Surviving(technologies) PROVE \E r \in 1..m : f[r] = x
      OBVIOUS
    <3>1. PICK r \in 1..n : o[r] = x
      BY <1>8, <1>10
    <3>2. r \in 1..m
      BY <1>1, <1>3, <1>9, <3>1
    <3> QED BY <3>1, <3>2
  <2>5. IsFiniteSet(1..m) /\ Cardinality(1..m) = m
    <3>1. m \in Int /\ m >= 0
      BY <1>1, <1>3
    <3>2. IsFiniteSet(1..m) /\ Cardinality(1..m) = IF 1 > m THEN 0 ELSE m - 1 + 1
      BY <3>1, FS_Interval
    <3> QED BY <3>1, <3>2
  <2> HIDE DEF f
  <2>6. f \in Bijection(1..m, Surviving(technologies))
    BY <2>2, <2>3, <2>4 DEF Bijection, Injection, IsInjective, Surjection
  <2>7. ExistsBijection(1..m, Surviving(technologies))
    BY <2>6 DEF ExistsBijection
  <2> QED BY <2>5, <2>7, FS_Bijection
<1>12. ASSUME NEW j \in 1..n, NEW k \in Surviving(technologies),
              technologies[j].entry.required, ~technologies[k].entry.required
       PROVE  j \in Surviving(technologies)
  <2>1. PICK q \in 1..n, r \in 1..n : o[q] = j /\ o[r] = k
    BY <1>8, <1>10
  <2>2. <<j, k>> \in R
    BY <1>4, <1>10, <1>12
  <2>3. q < r /\ r <= m
    BY <1>8, <1>9, <2>1, <2>2
  <2> QED BY <1>1, <1>3, <1>9, <2>1, <2>3
<1> QED BY <1>10, <1>11, <1>12 DEF n, m

\* What survives the cut is a sublist: its names are the job's, each once, to the cap.
LEMMA TechnologiesKept ==
    ASSUME NEW technologies \in Seq(Annotation(Skill)), DistinctNames(technologies)
    PROVE  LET kept == Sublist(technologies, Surviving(technologies))
           IN  /\ kept \in Seq(Annotation(Skill))
               /\ DistinctNames(kept)
               /\ NamesOf(kept) \subseteq NamesOf(technologies)
               /\ Cardinality(NamesOf(kept)) = Min({MaxTechnologies, Cardinality(NamesOf(technologies))})
               /\ \A k \in DOMAIN technologies :
                     technologies[k].name \in NamesOf(kept) <=> k \in Surviving(technologies)
<1> DEFINE P == Surviving(technologies)
           kept == Sublist(technologies, P)
<1>1. P \in SUBSET (DOMAIN technologies) /\ Cardinality(P) = Min({MaxTechnologies, Len(technologies)})
  <2>1. DOMAIN technologies = 1..Len(technologies)
    OBVIOUS
  <2> QED BY <2>1, SurvivingAre
<1> HIDE DEF P
<1>2. /\ Cardinality(P) \in Nat
      /\ kept \in Seq(Annotation(Skill)) /\ Len(kept) = Cardinality(P)
      /\ InOrder(P) \in [1..Cardinality(P) -> P]
      /\ \A k \in 1..Cardinality(P) : kept[k] = technologies[InOrder(P)[k]]
      /\ \A p \in P : \E k \in 1..Cardinality(P) : InOrder(P)[k] = p
      /\ \A j, k \in 1..Cardinality(P) : InOrder(P)[j] < InOrder(P)[k] <=> j < k
  BY <1>1, SublistItems, ZenonT(60)
<1> HIDE DEF kept
<1>3. DOMAIN kept = 1..Cardinality(P)
  BY <1>2
<1>4. \A k \in 1..Cardinality(P) : InOrder(P)[k] \in DOMAIN technologies /\ InOrder(P)[k] \in Nat
  <2>1. \A p \in P : p \in DOMAIN technologies /\ p \in Nat
    BY <1>1
  <2> QED BY <2>1, <1>2
<1>5. ASSUME NEW j \in 1..Cardinality(P), NEW k \in 1..Cardinality(P), kept[j].name = kept[k].name
      PROVE  j = k
  <2>1. InOrder(P)[j] = InOrder(P)[k]
    BY <1>2, <1>4, <1>5 DEF DistinctNames
  <2>2. ~(j < k) /\ ~(k < j)
    BY <1>2, <1>4, <2>1
  <2> QED BY <1>2, <2>2
<1>6. DistinctNames(kept)
  BY <1>3, <1>5 DEF DistinctNames
<1>7. NamesOf(kept) \subseteq NamesOf(technologies)
  BY <1>2, <1>3, <1>4 DEF NamesOf
<1>8. Cardinality(NamesOf(kept)) = Cardinality(P) /\ Cardinality(NamesOf(technologies)) = Len(technologies)
  BY <1>2, <1>6, DistinctCount
<1>9. ASSUME NEW k \in DOMAIN technologies
      PROVE  technologies[k].name \in NamesOf(kept) <=> k \in P
  <2>1. ASSUME technologies[k].name \in NamesOf(kept) PROVE k \in P
    <3>1. PICK i \in 1..Cardinality(P) : kept[i].name = technologies[k].name
      BY <1>3, <2>1 DEF NamesOf
    <3>2. InOrder(P)[i] = k
      BY <1>2, <1>4, <3>1 DEF DistinctNames
    <3> QED BY <1>2, <3>2
  <2>2. ASSUME k \in P PROVE technologies[k].name \in NamesOf(kept)
    <3>1. PICK i \in 1..Cardinality(P) : InOrder(P)[i] = k
      BY <1>2, <2>2
    <3> QED BY <1>2, <1>3, <3>1 DEF NamesOf
  <2> QED BY <2>1, <2>2
<1> QED BY <1>1, <1>2, <1>6, <1>7, <1>8, <1>9 DEF P, kept
-----------------------------------------------------------------------------
(***************************************************************************)
(* The occupation a job description is matched with is one of the          *)
(* knowledge base.                                                         *)
(***************************************************************************)
LEMMA OccupationIs ==
    ASSUME NEW m \in JobMatches
    PROVE  /\ Head(Ranked(m.scores)) \in DOMAIN KnowledgeBase
           /\ Occupation(m) \in [competencies : Seq(STRING), technologies : Seq(STRING),
                                 tasks : Seq(STRING)]
<1> DEFINE n == Len(KnowledgeBase)
           scores == m.scores
           R == Outranks(scores)
<1>1. /\ KnowledgeBase \in Seq([competencies : Seq(STRING), technologies : Seq(STRING),
                                tasks : Seq(STRING)])
      /\ KnowledgeBase # <<>>
  BY PlanBuildingAssumption
<1>2. DOMAIN KnowledgeBase = 1..n /\ n \in Nat /\ n > 0
  BY <1>1
<1>3. scores \in [1..n -> Nat]
  <2>1. scores \in [DOMAIN KnowledgeBase -> Nat]
    BY DEF JobMatches
  <2> HIDE DEF scores, n
  <2> QED BY <1>2, <2>1
<1> HIDE DEF scores, n
<1>4. \A j, k \in 1..n : <<j, k>> \in R <=>
         scores[j] > scores[k] \/ (scores[j] = scores[k] /\ j > k)
  BY <1>3 DEF Outranks
<1>5. IsFiniteSet(1..n) /\ Cardinality(1..n) = n
  <2>1. n \in Int
    BY <1>2
  <2>2. IsFiniteSet(1..n) /\ Cardinality(1..n) = IF 1 > n THEN 0 ELSE n - 1 + 1
    BY <2>1, FS_Interval
  <2> QED BY <1>2, <2>2
<1>6. \A k \in 1..n : scores[k] \in Nat /\ k \in Nat
  BY <1>3
<1>7. /\ \A x \in 1..n : <<x, x>> \notin R
      /\ \A x, y, z \in 1..n : <<x, y>> \in R /\ <<y, z>> \in R => <<x, z>> \in R
      /\ \A x, y \in 1..n : x # y => <<x, y>> \in R \/ <<y, x>> \in R
  <2> HIDE DEF R
  <2> QED BY <1>4, <1>6
<1>8. Ranked(scores) = OrderedBy(1..n, R)
  BY <1>3 DEF Ranked
<1> HIDE DEF R
<1>9. Ranked(scores) \in [1..n -> 1..n]
  <2>1. OrderedBy(1..n, R) \in [1..Cardinality(1..n) -> 1..n]
    BY <1>5, <1>7, OrderedByEnumerates
  <2> QED BY <1>5, <1>8, <2>1
<1>10. Head(Ranked(scores)) \in 1..n
  <2>1. Ranked(scores)[1] \in 1..n
    BY <1>2, <1>9
  <2>2. Ranked(scores) \in Seq(1..n) /\ Ranked(scores) # <<>>
    BY <1>2, <1>9
  <2>3. Head(Ranked(scores)) = Ranked(scores)[1]
    BY <2>2
  <2> QED BY <2>1, <2>3
<1>11. Head(Ranked(m.scores)) \in DOMAIN KnowledgeBase
  BY <1>2, <1>10 DEF scores
<1> DEFINE k == Head(Ranked(m.scores))
<1>12. Occupation(m) = KnowledgeBase[k] /\ k \in 1..Len(KnowledgeBase)
  BY <1>11, <1>1 DEF Occupation
<1> HIDE DEF k
<1>13. KnowledgeBase[k] \in [competencies : Seq(STRING), technologies : Seq(STRING),
                            tasks : Seq(STRING)]
  <2> DEFINE X == [competencies : Seq(STRING), technologies : Seq(STRING), tasks : Seq(STRING)]
  <2>1. KnowledgeBase \in Seq(X) /\ k \in 1..Len(KnowledgeBase)
    BY <1>1, <1>12
  <2> HIDE DEF X
  <2>2. KnowledgeBase[k] \in X
    BY <2>1
  <2> QED BY <2>2 DEF X
<1> QED BY <1>11, <1>12, <1>13

(***************************************************************************)
(* Each part of the plan: entries of the job description, a name once, as  *)
(* many as the cap has room for.                                           *)
(***************************************************************************)
Fills(list, entries, cap) ==
    /\ DistinctNames(list)
    /\ NamesOf(list) \subseteq NamesOf(entries)
    /\ Cardinality(NamesOf(list)) = Min({cap, Cardinality(NamesOf(entries))})

\* The plan's competencies are the job's, up to the cap.
LEMMA CompetenciesFill ==
    ASSUME NEW s, IsJobSpec(s), NEW occupation, NEW reliable
    PROVE  LET list == BuildCompetencies(s, occupation, reliable)
           IN  /\ list \in Seq(Annotation(Entry))
               /\ Fills(list, s.competencies, MaxCompetencies)
<1> DEFINE names == OnetNames(occupation.competencies, reliable)
           keyed == Keyed(s.competencies)
           noted == Annotated(keyed, names)
<1>1. s.competencies \in Seq(Entry) /\ \A e \in Entry : e.name \in Names
  BY DEF IsJobSpec, Entry
<1>2. keyed \in Seq(Entry) /\ DistinctNames(keyed) /\ NamesOf(keyed) = NamesOf(s.competencies)
  BY <1>1, KeyedItems
<1>3. BuildCompetencies(s, occupation, reliable) = First(noted, MaxCompetencies)
  BY DEF BuildCompetencies
<1> HIDE DEF names, keyed
<1>4. /\ noted \in Seq(Annotation(Entry)) /\ DistinctNames(noted)
      /\ NamesOf(noted) = NamesOf(s.competencies)
  BY <1>1, <1>2, AnnotatedItems
<1> HIDE DEF noted
<1> QED BY <1>3, <1>4, CapFills, CapsAreNaturals DEF Fills

\* The plan's tasks are the job's responsibilities, up to the cap.
LEMMA TasksFill ==
    ASSUME NEW s, IsJobSpec(s), NEW occupation, NEW reliable
    PROVE  LET list == BuildTasks(s, occupation, reliable)
           IN  /\ list \in Seq(Annotation(Entry))
               /\ Fills(list, s.responsibilities, MaxTasks)
<1> DEFINE names == OnetNames(occupation.tasks, reliable)
           all == s.responsibilities
           P == FirstPlaces(all)
           kept == Sublist(all, P)
           noted == Annotated(kept, names)
<1>1. all \in Seq(Entry) /\ \A e \in Entry : e.name \in Names
  BY DEF IsJobSpec, Entry
<1>3. BuildTasks(s, occupation, reliable) = First(noted, MaxTasks)
  BY DEF BuildTasks
<1> HIDE DEF names, all, noted
<1>2. /\ P \in SUBSET (DOMAIN all)
      /\ \A i, j \in P : all[i].name = all[j].name => i = j
      /\ \A k \in DOMAIN all : \E i \in P : all[i].name = all[k].name
  BY <1>1, FirstPlacesOf
<1> HIDE DEF P
<1>5. /\ Cardinality(P) \in Nat
      /\ kept \in Seq(Entry) /\ Len(kept) = Cardinality(P)
      /\ InOrder(P) \in [1..Cardinality(P) -> P]
      /\ \A k \in 1..Cardinality(P) : kept[k] = all[InOrder(P)[k]]
      /\ \A p \in P : \E k \in 1..Cardinality(P) : InOrder(P)[k] = p
      /\ \A j, k \in 1..Cardinality(P) : InOrder(P)[j] < InOrder(P)[k] <=> j < k
  <2>1. P \in SUBSET (DOMAIN all) /\ all \in Seq(Entry)
    BY <1>1, <1>2
  <2> QED BY <2>1, SublistItems
<1> HIDE DEF kept
<1>6. DOMAIN kept = 1..Cardinality(P)
  BY <1>5
<1>7. \A p \in P : p \in DOMAIN all /\ p \in Nat
  BY <1>1, <1>2
<1>8. ASSUME NEW j \in 1..Cardinality(P), NEW k \in 1..Cardinality(P), kept[j].name = kept[k].name
      PROVE  j = k
  <2>1. InOrder(P)[j] \in P /\ InOrder(P)[k] \in P
    BY <1>5
  <2>2. InOrder(P)[j] = InOrder(P)[k]
    BY <1>2, <1>5, <1>8, <2>1
  <2>3. ~(j < k) /\ ~(k < j)
    BY <1>5, <1>7, <2>1, <2>2
  <2> QED BY <1>5, <2>3
<1>9. DistinctNames(kept)
  BY <1>6, <1>8 DEF DistinctNames
<1>10. NamesOf(kept) = NamesOf(all)
  <2>1. \A k \in 1..Cardinality(P) : kept[k].name \in NamesOf(all)
    BY <1>5, <1>7 DEF NamesOf
  <2>2. ASSUME NEW k \in DOMAIN all PROVE all[k].name \in NamesOf(kept)
    <3>1. PICK p \in P : all[p].name = all[k].name
      BY <1>2
    <3>2. PICK i \in 1..Cardinality(P) : InOrder(P)[i] = p
      BY <1>5
    <3>3. kept[i].name = all[k].name
      BY <1>5, <3>1, <3>2
    <3> QED BY <1>6, <3>3 DEF NamesOf
  <2> QED BY <1>6, <2>1, <2>2 DEF NamesOf
<1>4. /\ noted \in Seq(Annotation(Entry)) /\ DistinctNames(noted)
      /\ NamesOf(noted) = NamesOf(all)
  BY <1>1, <1>5, <1>9, <1>10, AnnotatedItems DEF noted
<1>11. Fills(First(noted, MaxTasks), all, MaxTasks) /\ First(noted, MaxTasks) \in Seq(Annotation(Entry))
  BY <1>4, CapFills, CapsAreNaturals DEF Fills
<1> QED BY <1>3, <1>11 DEF all

\* The plan's technologies are the job's, up to the cap, and a required one is cut only
\* when no preferred one is kept.
LEMMA TechnologiesFill ==
    ASSUME NEW s, IsJobSpec(s), NEW occupation, NEW reliable
    PROVE  LET list == BuildTechnologies(s, occupation, reliable)
               keyed == Keyed(s.skills)
           IN  /\ list \in Seq(Annotation(Skill))
               /\ Fills(list, s.skills, MaxTechnologies)
               /\ \A j, k \in DOMAIN keyed :
                     /\ keyed[k].name \in NamesOf(list)
                     /\ keyed[j].name \notin NamesOf(list)
                     /\ keyed[j].required
                     => keyed[k].required
<1> DEFINE names == OnetNames(occupation.technologies, reliable)
           keyed == Keyed(s.skills)
           noted == Annotated(keyed, names)
           list == Sublist(noted, Surviving(noted))
<1>1. s.skills \in Seq(Skill) /\ \A e \in Skill : e.name \in Names /\ e.required \in BOOLEAN
  BY DEF IsJobSpec, Skill
<1>2. keyed \in Seq(Skill) /\ DistinctNames(keyed) /\ NamesOf(keyed) = NamesOf(s.skills)
  BY <1>1, KeyedItems
<1>3. BuildTechnologies(s, occupation, reliable) = list
  BY DEF BuildTechnologies
<1> HIDE DEF names, keyed
<1>4. /\ noted \in Seq(Annotation(Skill)) /\ DistinctNames(noted)
      /\ Len(noted) = Len(keyed)
      /\ \A k \in DOMAIN keyed : noted[k].entry = keyed[k] /\ noted[k].name = keyed[k].name
      /\ NamesOf(noted) = NamesOf(s.skills)
  BY <1>1, <1>2, AnnotatedItems, ZenonT(60)
<1> HIDE DEF noted
<1>5. /\ list \in Seq(Annotation(Skill))
      /\ DistinctNames(list)
      /\ NamesOf(list) \subseteq NamesOf(noted)
      /\ Cardinality(NamesOf(list)) = Min({MaxTechnologies, Cardinality(NamesOf(noted))})
      /\ \A k \in DOMAIN noted : noted[k].name \in NamesOf(list) <=> k \in Surviving(noted)
  BY <1>4, TechnologiesKept
<1> HIDE DEF list
<1>6. \A j, k \in 1..Len(noted) :
         k \in Surviving(noted) /\ noted[j].entry.required /\ ~noted[k].entry.required
           => j \in Surviving(noted)
  BY <1>4, SurvivingAre
<1>7. DOMAIN keyed = 1..Len(noted) /\ DOMAIN noted = 1..Len(noted)
  BY <1>2, <1>4
<1>8. ASSUME NEW j \in DOMAIN keyed, NEW k \in DOMAIN keyed,
             keyed[k].name \in NamesOf(list), keyed[j].name \notin NamesOf(list),
             keyed[j].required
      PROVE  keyed[k].required
  BY <1>4, <1>5, <1>6, <1>7, <1>8
<1>9. Fills(list, s.skills, MaxTechnologies)
  BY <1>4, <1>5 DEF Fills
<1> QED BY <1>3, <1>5, <1>8, <1>9 DEF keyed
-----------------------------------------------------------------------------
(***************************************************************************)
(* The coverage targets are the three lists one after another.             *)
(***************************************************************************)
NameList(entries) == [k \in DOMAIN entries |-> entries[k].name]

TieredList(technologies) ==
    [k \in DOMAIN technologies |->
       [name |-> technologies[k].name, required |-> technologies[k].entry.required]]

\* A function on 1..n is a list of n.
LEMMA ListOf ==
    ASSUME NEW X, NEW n \in Nat, NEW f \in [1..n -> X]
    PROVE  f \in Seq(X) /\ Len(f) = n /\ DOMAIN f = 1..n
OBVIOUS

LaidOut(targets, a, b, c) ==
    /\ targets \in Seq(Target)
    /\ Len(targets) = Len(a) + Len(b) + Len(c)
    /\ \A k \in 1..Len(a) : targets[k].category = "competency" /\ targets[k].name = a[k]
    /\ \A k \in 1..Len(b) : /\ targets[Len(a) + k].category = "technology"
                             /\ targets[Len(a) + k].name = b[k].name
    /\ \A k \in 1..Len(c) : /\ targets[Len(a) + Len(b) + k].category = "task"
                             /\ targets[Len(a) + Len(b) + k].name = c[k]

\* Where the targets of each category lie in the list coverage.build_coverage_targets makes.
LEMMA CoverageTargetsAre ==
    ASSUME NEW a \in Seq(Names), NEW b \in Seq([name : Names, required : BOOLEAN]),
           NEW c \in Seq(Names)
    PROVE  LaidOut(BuildCoverageTargets(a, b, c), a, b, c)
<1> DEFINE x == [k \in 1..Len(a) |->
                   [category |-> "competency", name |-> a[k],
                    required |-> TRUE, priority |-> k - 1]]
           y == [k \in 1..Len(b) |->
                   [category |-> "technology", name |-> b[k].name,
                    required |-> b[k].required,
                    priority |-> IF b[k].required
                                 THEN k - 1 ELSE k - 1 + PreferredPriorityOffset]]
           z == [k \in 1..Len(c) |->
                   [category |-> "task", name |-> c[k], required |-> TRUE, priority |-> k - 1]]
<1>1. BuildCoverageTargets(a, b, c) = x \o y \o z
  BY DEF BuildCoverageTargets
<1>0. Len(a) \in Nat /\ Len(b) \in Nat /\ Len(c) \in Nat
  OBVIOUS
<1>2. /\ x \in Seq(Target) /\ Len(x) = Len(a)
      /\ \A k \in 1..Len(a) : x[k].category = "competency" /\ x[k].name = a[k]
  <2>1. \A k \in 1..Len(a) : a[k] \in Names /\ k - 1 \in Nat
    OBVIOUS
  <2>2. \A k \in 1..Len(a) : x[k] \in Target
    BY <2>1 DEF Target, Categories
  <2>3. x = [k \in 1..Len(a) |-> x[k]]
    OBVIOUS
  <2>4. \A k \in 1..Len(a) : x[k].category = "competency" /\ x[k].name = a[k]
    OBVIOUS
  <2> HIDE DEF x
  <2>5. x \in [1..Len(a) -> Target]
    BY <2>2, <2>3
  <2> QED BY <1>0, <2>4, <2>5, ListOf
<1>3. /\ y \in Seq(Target) /\ Len(y) = Len(b)
      /\ \A k \in 1..Len(b) : y[k].category = "technology" /\ y[k].name = b[k].name
  <2> DEFINE Tier == [name : Names, required : BOOLEAN]
  <2>1. \A k \in 1..Len(b) : b[k] \in Tier /\ k - 1 \in Nat /\ k - 1 + PreferredPriorityOffset \in Nat
    <3>1. \A k \in 1..Len(b) : b[k] \in Tier
      <4> HIDE DEF Tier
      <4>1. b \in Seq(Tier)
        BY DEF Tier
      <4> QED BY <4>1
    <3>2. \A k \in 1..Len(b) : k - 1 \in Nat /\ k - 1 + PreferredPriorityOffset \in Nat
      BY <1>0 DEF PreferredPriorityOffset
    <3> QED BY <3>1, <3>2
  <2>2. \A k \in 1..Len(b) : y[k] \in Target
    BY <2>1 DEF Target, Categories
  <2>3. y = [k \in 1..Len(b) |-> y[k]]
    OBVIOUS
  <2>4. \A k \in 1..Len(b) : y[k].category = "technology" /\ y[k].name = b[k].name
    OBVIOUS
  <2> HIDE DEF y
  <2>5. y \in [1..Len(b) -> Target]
    BY <2>2, <2>3
  <2> QED BY <1>0, <2>4, <2>5, ListOf
<1>4. /\ z \in Seq(Target) /\ Len(z) = Len(c)
      /\ \A k \in 1..Len(c) : z[k].category = "task" /\ z[k].name = c[k]
  <2>1. \A k \in 1..Len(c) : c[k] \in Names /\ k - 1 \in Nat
    OBVIOUS
  <2>2. \A k \in 1..Len(c) : z[k] \in Target
    BY <2>1 DEF Target, Categories
  <2>3. z = [k \in 1..Len(c) |-> z[k]]
    OBVIOUS
  <2>4. \A k \in 1..Len(c) : z[k].category = "task" /\ z[k].name = c[k]
    OBVIOUS
  <2> HIDE DEF z
  <2>5. z \in [1..Len(c) -> Target]
    BY <2>2, <2>3
  <2> QED BY <1>0, <2>4, <2>5, ListOf
<1> HIDE DEF x, y, z
<1>5. /\ x \o y \in Seq(Target) /\ Len(x \o y) = Len(a) + Len(b)
      /\ \A k \in 1..Len(a) : (x \o y)[k] = x[k]
      /\ \A k \in 1..Len(b) : (x \o y)[Len(a) + k] = y[k]
  <2>1. x \in Seq(Target) /\ y \in Seq(Target)
    BY <1>2, <1>3
  <2>2. /\ x \o y \in Seq(Target)
        /\ Len(x \o y) = Len(x) + Len(y)
        /\ \A k \in 1..Len(x) : (x \o y)[k] = x[k]
        /\ \A k \in 1..Len(y) : (x \o y)[Len(x) + k] = y[k]
    BY ONLY <2>1
  <2>3. Len(x) = Len(a) /\ Len(y) = Len(b)
    BY <1>2, <1>3
  <2> QED BY <2>2, <2>3, Zenon
<1> DEFINE w == x \o y
<1>10. w \in Seq(Target) /\ Len(w) = Len(a) + Len(b)
  BY <1>5
<1> HIDE DEF w
<1>6. /\ w \o z \in Seq(Target) /\ Len(w \o z) = Len(a) + Len(b) + Len(c)
      /\ \A k \in 1..(Len(a) + Len(b)) : (w \o z)[k] = w[k]
      /\ \A k \in 1..Len(c) : (w \o z)[Len(a) + Len(b) + k] = z[k]
  <2>1. w \in Seq(Target) /\ z \in Seq(Target)
    BY <1>4, <1>10
  <2>2. /\ w \o z \in Seq(Target)
        /\ Len(w \o z) = Len(w) + Len(z)
        /\ \A k \in 1..Len(w) : (w \o z)[k] = w[k]
        /\ \A k \in 1..Len(z) : (w \o z)[Len(w) + k] = z[k]
    BY ONLY <2>1
  <2>3. Len(w) = Len(a) + Len(b) /\ Len(z) = Len(c)
    BY <1>4, <1>10
  <2> QED BY <2>2, <2>3, Zenon
<1>7. \A k \in 1..Len(a) : (w \o z)[k] = x[k]
  <2>1. \A k \in 1..Len(a) : k \in 1..(Len(a) + Len(b))
    OBVIOUS
  <2> QED BY <2>1, <1>5, <1>6 DEF w
<1>8. \A k \in 1..Len(b) : (w \o z)[Len(a) + k] = y[k]
  <2>1. \A k \in 1..Len(b) : Len(a) + k \in 1..(Len(a) + Len(b))
    OBVIOUS
  <2> QED BY <2>1, <1>5, <1>6 DEF w
<1>9. BuildCoverageTargets(a, b, c) = w \o z
  BY <1>1 DEF w
<1>11. \A k \in 1..Len(a) : (w \o z)[k].category = "competency" /\ (w \o z)[k].name = a[k]
  BY <1>2, <1>7
<1>12. \A k \in 1..Len(b) : /\ (w \o z)[Len(a) + k].category = "technology"
                            /\ (w \o z)[Len(a) + k].name = b[k].name
  BY <1>3, <1>8
<1>13. \A k \in 1..Len(c) : /\ (w \o z)[Len(a) + Len(b) + k].category = "task"
                            /\ (w \o z)[Len(a) + Len(b) + k].name = c[k]
  BY <1>4, <1>6
<1>14. LaidOut(w \o z, a, b, c)
  BY <1>6, <1>11, <1>12, <1>13 DEF LaidOut
<1> QED BY <1>9, <1>14
PlannedNames(targets, category) ==
    {targets[t].name : t \in {u \in DOMAIN targets : targets[u].category = category}}

\* The coverage targets of three lists without repeated names are a plan of these names.
LEMMA CoveragePlan ==
    ASSUME NEW a \in Seq(Annotation(Entry)), DistinctNames(a),
           NEW b \in Seq(Annotation(Skill)), DistinctNames(b),
           NEW c \in Seq(Annotation(Entry)), DistinctNames(c)
    PROVE  LET targets == BuildCoverageTargets(NameList(a), TieredList(b), NameList(c))
           IN  /\ IsPlan(targets)
               /\ PlannedNames(targets, "competency") = NamesOf(a)
               /\ PlannedNames(targets, "technology") = NamesOf(b)
               /\ PlannedNames(targets, "task") = NamesOf(c)
<1> DEFINE na == NameList(a)
           nb == TieredList(b)
           nc == NameList(c)
           targets == BuildCoverageTargets(na, nb, nc)
<1>0. Len(a) \in Nat /\ Len(b) \in Nat /\ Len(c) \in Nat
  OBVIOUS
<1>1. /\ na \in Seq(Names) /\ Len(na) = Len(a)
      /\ \A k \in 1..Len(a) : na[k] = a[k].name
  <2>1. \A k \in 1..Len(a) : a[k].name \in Names
    <3>1. \A k \in 1..Len(a) : a[k] \in Annotation(Entry)
      OBVIOUS
    <3>2. \A x \in Annotation(Entry) : x.name \in Names
      BY DEF Annotation
    <3> QED BY <3>1, <3>2
  <2>2. DOMAIN a = 1..Len(a)
    OBVIOUS
  <2>3. na = [k \in 1..Len(a) |-> a[k].name]
    BY <2>2 DEF NameList
  <2>4. na \in [1..Len(a) -> Names]
    BY <2>1, <2>3
  <2> HIDE DEF na
  <2> QED BY <1>0, <2>3, <2>4, ListOf
<1>2. /\ nc \in Seq(Names) /\ Len(nc) = Len(c)
      /\ \A k \in 1..Len(c) : nc[k] = c[k].name
  <2>1. \A k \in 1..Len(c) : c[k].name \in Names
    <3>1. \A k \in 1..Len(c) : c[k] \in Annotation(Entry)
      OBVIOUS
    <3>2. \A x \in Annotation(Entry) : x.name \in Names
      BY DEF Annotation
    <3> QED BY <3>1, <3>2
  <2>2. DOMAIN c = 1..Len(c)
    OBVIOUS
  <2>3. nc = [k \in 1..Len(c) |-> c[k].name]
    BY <2>2 DEF NameList
  <2>4. nc \in [1..Len(c) -> Names]
    BY <2>1, <2>3
  <2> HIDE DEF nc
  <2> QED BY <1>0, <2>3, <2>4, ListOf
<1>3. /\ nb \in Seq([name : Names, required : BOOLEAN]) /\ Len(nb) = Len(b)
      /\ \A k \in 1..Len(b) : nb[k].name = b[k].name
  <2>1. \A k \in 1..Len(b) : b[k].name \in Names /\ b[k].entry.required \in BOOLEAN
    <3>1. \A k \in 1..Len(b) : b[k] \in Annotation(Skill)
      OBVIOUS
    <3>2. \A x \in Annotation(Skill) : x.name \in Names /\ x.entry \in Skill
      BY DEF Annotation
    <3>3. \A x \in Skill : x.required \in BOOLEAN
      BY DEF Skill
    <3> QED BY <3>1, <3>2, <3>3
  <2>2. DOMAIN b = 1..Len(b)
    OBVIOUS
  <2>3. nb = [k \in 1..Len(b) |-> [name |-> b[k].name, required |-> b[k].entry.required]]
    BY <2>2 DEF TieredList
  <2>4. nb \in [1..Len(b) -> [name : Names, required : BOOLEAN]]
    BY <2>1, <2>3
  <2> HIDE DEF nb
  <2> QED BY <1>0, <2>3, <2>4, ListOf, SMTT(60)
<1> HIDE DEF na, nb, nc
<1>4. /\ targets \in Seq(Target)
      /\ Len(targets) = Len(a) + Len(b) + Len(c)
      /\ \A k \in 1..Len(a) : targets[k].category = "competency" /\ targets[k].name = a[k].name
      /\ \A k \in 1..Len(b) : /\ targets[Len(a) + k].category = "technology"
                               /\ targets[Len(a) + k].name = b[k].name
      /\ \A k \in 1..Len(c) : /\ targets[Len(a) + Len(b) + k].category = "task"
                               /\ targets[Len(a) + Len(b) + k].name = c[k].name
  <2>1. /\ na \in Seq(Names) /\ nc \in Seq(Names)
        /\ nb \in Seq([name : Names, required : BOOLEAN])
    BY <1>1, <1>2, <1>3
  <2>2. LaidOut(targets, na, nb, nc)
    BY <2>1, CoverageTargetsAre
  <2> HIDE DEF targets
  <2>3. Len(na) = Len(a) /\ Len(nb) = Len(b) /\ Len(nc) = Len(c)
    BY <1>1, <1>2, <1>3
  <2>4. /\ \A k \in 1..Len(a) : na[k] = a[k].name
        /\ \A k \in 1..Len(b) : nb[k].name = b[k].name
        /\ \A k \in 1..Len(c) : nc[k] = c[k].name
    BY <1>1, <1>2, <1>3
  <2> QED BY ONLY <2>2, <2>3, <2>4 DEF LaidOut
<1> HIDE DEF targets
<1> DEFINE inA(t) == t \in 1..Len(a)
           inB(t) == \E k \in 1..Len(b) : t = Len(a) + k
           inC(t) == \E k \in 1..Len(c) : t = Len(a) + Len(b) + k
<1>13. DOMAIN targets = 1..(Len(a) + Len(b) + Len(c))
  BY <1>4
<1>5. \A t \in DOMAIN targets : inA(t) \/ inB(t) \/ inC(t)
  <2> SUFFICES ASSUME NEW t \in 1..(Len(a) + Len(b) + Len(c))
               PROVE  inA(t) \/ inB(t) \/ inC(t)
    BY <1>13
  <2>1. CASE t <= Len(a)
    BY <1>0, <2>1
  <2>2. CASE t > Len(a) /\ t <= Len(a) + Len(b)
    <3>1. t - Len(a) \in 1..Len(b) /\ t = Len(a) + (t - Len(a))
      BY <1>0, <2>2
    <3> QED BY <3>1
  <2>3. CASE t > Len(a) + Len(b)
    <3>1. t - Len(a) - Len(b) \in 1..Len(c) /\ t = Len(a) + Len(b) + (t - Len(a) - Len(b))
      BY <1>0, <2>3
    <3> QED BY <3>1
  <2> QED BY <1>0, <2>1, <2>2, <2>3
<1>6. /\ \A k \in 1..Len(a) : k \in DOMAIN targets
      /\ \A k \in 1..Len(b) : Len(a) + k \in DOMAIN targets
      /\ \A k \in 1..Len(c) : Len(a) + Len(b) + k \in DOMAIN targets
  BY <1>0, <1>13
<1>7. DOMAIN a = 1..Len(a) /\ DOMAIN b = 1..Len(b) /\ DOMAIN c = 1..Len(c)
  OBVIOUS
<1>14. /\ \A t : inA(t) => targets[t].category = "competency"
       /\ \A t : inB(t) => targets[t].category = "technology"
       /\ \A t : inC(t) => targets[t].category = "task"
  BY <1>4
<1>15. /\ \A t \in DOMAIN targets : targets[t].category = "competency" => inA(t)
       /\ \A t \in DOMAIN targets : targets[t].category = "technology" => inB(t)
       /\ \A t \in DOMAIN targets : targets[t].category = "task" => inC(t)
  <2> HIDE DEF inA, inB, inC
  <2> QED BY <1>5, <1>14
<1>8. PlannedNames(targets, "competency") = NamesOf(a)
  <2>1. ASSUME NEW t \in DOMAIN targets, targets[t].category = "competency"
        PROVE  targets[t].name \in NamesOf(a)
    BY <1>4, <1>7, <1>15, <2>1 DEF NamesOf
  <2>2. ASSUME NEW k \in DOMAIN a PROVE a[k].name \in PlannedNames(targets, "competency")
    BY <1>4, <1>6, <1>7, <2>2 DEF PlannedNames
  <2>3. PlannedNames(targets, "competency") \subseteq NamesOf(a)
    BY <2>1 DEF PlannedNames
  <2>4. NamesOf(a) \subseteq PlannedNames(targets, "competency")
    BY <2>2 DEF NamesOf
  <2> QED BY <2>3, <2>4
<1>9. PlannedNames(targets, "technology") = NamesOf(b)
  <2>1. ASSUME NEW t \in DOMAIN targets, targets[t].category = "technology"
        PROVE  targets[t].name \in NamesOf(b)
    <3>1. PICK k \in 1..Len(b) : t = Len(a) + k
      BY <1>15, <2>1
    <3>2. targets[t].name = b[k].name
      BY <1>4, <3>1
    <3> QED BY <1>7, <3>2 DEF NamesOf
  <2>2. ASSUME NEW k \in 1..Len(b) PROVE b[k].name \in PlannedNames(targets, "technology")
    <3> DEFINE t == Len(a) + k
    <3>1. t \in DOMAIN targets /\ targets[t].category = "technology" /\ targets[t].name = b[k].name
      BY <1>4, <1>6
    <3> HIDE DEF t
    <3> QED BY <3>1 DEF PlannedNames
  <2>3. PlannedNames(targets, "technology") \subseteq NamesOf(b)
    BY <2>1 DEF PlannedNames
  <2>4. NamesOf(b) \subseteq PlannedNames(targets, "technology")
    BY <1>7, <2>2 DEF NamesOf
  <2> QED BY <2>3, <2>4
<1>10. PlannedNames(targets, "task") = NamesOf(c)
  <2>1. ASSUME NEW t \in DOMAIN targets, targets[t].category = "task"
        PROVE  targets[t].name \in NamesOf(c)
    <3>1. PICK k \in 1..Len(c) : t = Len(a) + Len(b) + k
      BY <1>15, <2>1
    <3>2. targets[t].name = c[k].name
      BY <1>4, <3>1
    <3> QED BY <1>7, <3>2 DEF NamesOf
  <2>2. ASSUME NEW k \in 1..Len(c) PROVE c[k].name \in PlannedNames(targets, "task")
    <3> DEFINE t == Len(a) + Len(b) + k
    <3>1. t \in DOMAIN targets /\ targets[t].category = "task" /\ targets[t].name = c[k].name
      BY <1>4, <1>6
    <3> HIDE DEF t
    <3> QED BY <3>1 DEF PlannedNames
  <2>3. PlannedNames(targets, "task") \subseteq NamesOf(c)
    BY <2>1 DEF PlannedNames
  <2>4. NamesOf(c) \subseteq PlannedNames(targets, "task")
    BY <1>7, <2>2 DEF NamesOf
  <2> QED BY <2>3, <2>4
<1>11. ASSUME NEW t \in DOMAIN targets, NEW u \in DOMAIN targets,
              targets[t].category = targets[u].category, targets[t].name = targets[u].name
       PROVE  t = u
  <2>1. CASE inA(t)
    <3>1. inA(u)
      <4> HIDE DEF inA, inB, inC
      <4> QED BY <1>14, <1>15, <1>11, <2>1
    <3>2. a[t].name = a[u].name
      BY <1>4, <1>11, <2>1, <3>1
    <3> QED BY <1>7, <2>1, <3>1, <3>2 DEF DistinctNames
  <2>2. CASE inB(t)
    <3>1. inB(u)
      <4> HIDE DEF inA, inB, inC
      <4> QED BY <1>14, <1>15, <1>11, <2>2
    <3>2. PICK k \in 1..Len(b), l \in 1..Len(b) : t = Len(a) + k /\ u = Len(a) + l
      BY <2>2, <3>1
    <3>3. b[k].name = b[l].name
      BY <1>4, <1>11, <3>2
    <3> QED BY <1>7, <3>2, <3>3 DEF DistinctNames
  <2>3. CASE inC(t)
    <3>1. inC(u)
      <4> HIDE DEF inA, inB, inC
      <4> QED BY <1>14, <1>15, <1>11, <2>3
    <3>2. PICK k \in 1..Len(c), l \in 1..Len(c) : t = Len(a) + Len(b) + k /\ u = Len(a) + Len(b) + l
      BY <2>3, <3>1
    <3>3. c[k].name = c[l].name
      BY <1>4, <1>11, <3>2
    <3> QED BY <1>7, <3>2, <3>3 DEF DistinctNames
  <2> HIDE DEF inA, inB, inC
  <2> QED BY <1>5, <2>1, <2>2, <2>3
<1>12. IsPlan(targets)
  BY <1>4, <1>11 DEF IsPlan
<1> QED BY <1>8, <1>9, <1>10, <1>12 DEF targets, na, nb, nc

\* The plan of any job description, with any match, covers the job's own words.
LEMMA PlanIsFaithful ==
    ASSUME NEW s, IsJobSpec(s), NEW m \in JobMatches
    PROVE  IsPlan(Plan(s, m).coverage_targets) /\ FaithfulPlan(s, Plan(s, m))
<1> DEFINE occupation == Occupation(m)
           a == BuildCompetencies(s, occupation, Grounded(m))
           b == BuildTechnologies(s, occupation, Grounded(m))
           c == BuildTasks(s, occupation, Grounded(m))
           targets == BuildCoverageTargets(NameList(a), TieredList(b), NameList(c))
           planned(category) == {Plan(s, m).coverage_targets[t].name :
                                   t \in {u \in DOMAIN Plan(s, m).coverage_targets :
                                            Plan(s, m).coverage_targets[u].category = category}}
<1>1. Plan(s, m).coverage_targets = targets
  BY DEF Plan, NameList, TieredList
<1>2. a \in Seq(Annotation(Entry)) /\ Fills(a, s.competencies, MaxCompetencies)
  <2> HIDE DEF occupation
  <2> QED BY CompetenciesFill
<1>3. c \in Seq(Annotation(Entry)) /\ Fills(c, s.responsibilities, MaxTasks)
  <2> HIDE DEF occupation
  <2> QED BY TasksFill
<1>4. /\ b \in Seq(Annotation(Skill)) /\ Fills(b, s.skills, MaxTechnologies)
      /\ \A j, k \in DOMAIN Keyed(s.skills) :
            /\ Keyed(s.skills)[k].name \in NamesOf(b)
            /\ Keyed(s.skills)[j].name \notin NamesOf(b)
            /\ Keyed(s.skills)[j].required
            => Keyed(s.skills)[k].required
  <2> HIDE DEF occupation
  <2> QED BY TechnologiesFill
<1> HIDE DEF a, b, c
<1>5. /\ IsPlan(targets)
      /\ PlannedNames(targets, "competency") = NamesOf(a)
      /\ PlannedNames(targets, "technology") = NamesOf(b)
      /\ PlannedNames(targets, "task") = NamesOf(c)
  BY <1>2, <1>3, <1>4, CoveragePlan DEF Fills
<1> HIDE DEF targets
<1>6. \A category : planned(category) = PlannedNames(targets, category)
  BY <1>1 DEF PlannedNames
<1>7. /\ planned("competency") = NamesOf(a)
      /\ planned("technology") = NamesOf(b)
      /\ planned("task") = NamesOf(c)
  <2> HIDE DEF planned
  <2> QED BY <1>5, <1>6
<1>8. ASSUME NEW k \in {i \in DOMAIN Keyed(s.skills) : Keyed(s.skills)[i].name \in planned("technology")},
             NEW j \in DOMAIN Keyed(s.skills) \
                        {i \in DOMAIN Keyed(s.skills) : Keyed(s.skills)[i].name \in planned("technology")},
             Keyed(s.skills)[j].required
      PROVE  Keyed(s.skills)[k].required
  <2> HIDE DEF planned
  <2> QED BY <1>4, <1>7, <1>8
<1>9. /\ planned("competency") \subseteq NamesOf(s.competencies)
      /\ Cardinality(planned("competency")) = Min({MaxCompetencies, Cardinality(NamesOf(s.competencies))})
      /\ planned("technology") \subseteq NamesOf(s.skills)
      /\ Cardinality(planned("technology")) = Min({MaxTechnologies, Cardinality(NamesOf(s.skills))})
      /\ planned("task") \subseteq NamesOf(s.responsibilities)
      /\ Cardinality(planned("task")) = Min({MaxTasks, Cardinality(NamesOf(s.responsibilities))})
  <2> HIDE DEF planned
  <2> QED BY <1>2, <1>3, <1>4, <1>7 DEF Fills
<1>10. IsPlan(Plan(s, m).coverage_targets)
  BY <1>1, <1>5
<1> QED BY <1>8, <1>9, <1>10 DEF FaithfulPlan

\* What is in a capped sublist was at one of its places.
LEMMA SublistSelects ==
    ASSUME NEW X, NEW list \in Seq(X), NEW P \in SUBSET (DOMAIN list), NEW cap \in Nat
    PROVE  \A x \in ToSet(First(Sublist(list, P), cap)) : \E p \in P : list[p] = x
<1> DEFINE kept == Sublist(list, P)
<1>1. /\ Cardinality(P) \in Nat
      /\ kept \in Seq(X) /\ Len(kept) = Cardinality(P)
      /\ InOrder(P) \in [1..Cardinality(P) -> P]
      /\ \A k \in 1..Cardinality(P) : kept[k] = list[InOrder(P)[k]]
  BY SublistItems
<1> HIDE DEF kept
<1>2. /\ First(kept, cap) \in Seq(X)
      /\ Len(First(kept, cap)) = Min({cap, Len(kept)})
      /\ Min({cap, Len(kept)}) \in 0..Len(kept)
      /\ \A k \in 1..Min({cap, Len(kept)}) : First(kept, cap)[k] = kept[k]
  BY <1>1, FirstItems
<1> DEFINE m == Min({cap, Len(kept)})
<1> HIDE DEF m
<1>3. \A k \in 1..m : k \in 1..Cardinality(P) /\ First(kept, cap)[k] = kept[k]
  <2>1. m \in 0..Cardinality(P) /\ \A k \in 1..m : First(kept, cap)[k] = kept[k]
    BY <1>1, <1>2 DEF m
  <2> QED BY <1>1, <2>1
<1>4. DOMAIN First(kept, cap) = 1..m
  BY <1>2 DEF m
<1>5. \A k \in 1..m : InOrder(P)[k] \in P /\ First(kept, cap)[k] = list[InOrder(P)[k]]
  BY <1>1, <1>3
<1> QED BY <1>4, <1>5 DEF ToSet, kept

\* What the occupation adds is context: never a name the job has, and only when the match
\* is reliable enough.
LEMMA ContextIs ==
    ASSUME NEW s, NEW m \in JobMatches
    PROVE  ContextIsSupplementary(s, m, Plan(s, m))
<1> DEFINE occupation == Occupation(m)
           news == {k \in DOMAIN occupation.technologies :
                       occupation.technologies[k] \notin NamesOf(s.skills)
                         /\ ~Ubiquitous(occupation.technologies[k])}
           duties == {k \in DOMAIN occupation.tasks :
                       occupation.tasks[k] \notin NamesOf(s.responsibilities)
                         /\ m.relevance[occupation.tasks[k]] >= 500}
           technologies == First(Sublist(occupation.technologies, news), MaxContext)
           tasks == First(Sublist(occupation.tasks, duties), MaxContext)
           context == Plan(s, m).onet_context
<1>1. /\ context.technologies = IF Grounded(m) /\ ClearOfRunnerUp(m) THEN technologies ELSE <<>>
      /\ context.tasks = IF Grounded(m) THEN tasks ELSE <<>>
      /\ ~Grounded(m) => context = [technologies |-> <<>>, tasks |-> <<>>]
  BY DEF Plan, BuildOnetContext
<1>2. occupation.technologies \in Seq(STRING) /\ occupation.tasks \in Seq(STRING)
  BY OccupationIs
<1>3. \A x \in ToSet(technologies) : x \notin NamesOf(s.skills)
  <2>1. \A x \in ToSet(technologies) : \E p \in news : occupation.technologies[p] = x
    <3>1. news \in SUBSET (DOMAIN occupation.technologies)
      OBVIOUS
    <3> HIDE DEF news, occupation
    <3> QED BY <1>2, <3>1, SublistSelects, CapsAreNaturals
  <2> HIDE DEF occupation, technologies
  <2> QED BY <2>1
<1>4. \A x \in ToSet(tasks) : x \notin NamesOf(s.responsibilities)
  <2>1. \A x \in ToSet(tasks) : \E p \in duties : occupation.tasks[p] = x
    <3>1. duties \in SUBSET (DOMAIN occupation.tasks)
      OBVIOUS
    <3> HIDE DEF duties, occupation
    <3> QED BY <1>2, <3>1, SublistSelects, CapsAreNaturals
  <2> HIDE DEF occupation, tasks
  <2> QED BY <2>1
<1>5. ToSet(<<>>) = {}
  BY DEF ToSet
<1>6. Grounded(m) => \E k \in DOMAIN KnowledgeBase : \E task \in ToSet(KnowledgeBase[k].tasks) :
                        m.scores[k] = TopScore(m) /\ m.relevance[task] >= 1000
  BY OccupationIs DEF Grounded, TopScore, Occupation
<1> HIDE DEF occupation, news, duties, technologies, tasks, context
<1> QED BY <1>1, <1>3, <1>4, <1>5, <1>6 DEF ContextIsSupplementary, context
-----------------------------------------------------------------------------
(***************************************************************************)
(* The job and its plan: once made, the plan is what Plan makes of the job *)
(* description, and nothing has been asked before.                         *)
(***************************************************************************)
PlanInv ==
    /\ spec \in Specs
    /\ match \in Matches
    /\ stage # "planning" => plan = Plan(spec, match)

\* The job descriptions and matches are what the schemas allow (InterviewReportAssumption).
LEMMA InputsTyped ==
    /\ \A s \in Specs : IsJobSpec(s)
    /\ \A m \in Matches : m \in JobMatches
    /\ MaxFollowUps \in Nat
BY InterviewReportAssumption

\* Once there is a plan it is the one made of this job description and match.
LEMMA PlanInvHolds == Spec => []PlanInv
<1>1. Init => PlanInv
  BY DEF Init, PlanInv
<1>2. PlanInv /\ [Next]_vars => PlanInv'
  <2> SUFFICES ASSUME PlanInv, [Next]_vars PROVE PlanInv'
    OBVIOUS
  <2> USE DEF PlanInv
  <2>1. CASE MakePlan
    BY <2>1 DEF MakePlan
  <2>2. ASSUME NEW t \in DOMAIN Targets, NEW replies \in Replies, Ask(t, replies) PROVE PlanInv'
    BY <2>2 DEF Ask
  <2>3. CASE NothingLeft
    BY <2>3 DEF NothingLeft
  <2>4. ASSUME NEW e \in Evaluations \cup {Unevaluated}, Answer(e) PROVE PlanInv'
    <3>1. UNCHANGED <<spec, match, plan, stage>>
      BY <2>4 DEF Answer
    <3> QED BY <3>1
  <2>5. ASSUME NEW narrative \in Narratives, Generate(narrative) PROVE PlanInv'
    BY <2>5 DEF Generate
  <2>6. CASE UNCHANGED vars
    BY <2>6 DEF vars
  <2> QED BY <2>1, <2>2, <2>3, <2>4, <2>5, <2>6 DEF Next
<1> QED BY <1>1, <1>2, PTL DEF Spec

(***************************************************************************)
(* However job descriptions, knowledge base and match come out and         *)
(* whatever the caps, the plan (InterviewPlannerService.plan) assesses     *)
(* nothing the description does not say, nothing twice, of each part as    *)
(* much as the cap allows, and no preferred technology at the price of a   *)
(* required one; what O*NET adds is news, from a similar occupation.       *)
(***************************************************************************)
THEOREM PlanIsAlwaysTheJobs == Spec => []PlanIsTheJobs
<1>1. PlanInv => PlanIsTheJobs
  <2> SUFFICES ASSUME PlanInv, stage # "planning"
               PROVE  FaithfulPlan(spec, plan) /\ ContextIsSupplementary(spec, match, plan)
    BY DEF PlanIsTheJobs
  <2>1. plan = Plan(spec, match) /\ IsJobSpec(spec) /\ match \in JobMatches
    BY InputsTyped DEF PlanInv
  <2>2. FaithfulPlan(spec, Plan(spec, match))
    BY <2>1, PlanIsFaithful
  <2>3. ContextIsSupplementary(spec, match, Plan(spec, match))
    BY <2>1, ContextIs
  <2> QED BY <2>1, <2>2, <2>3
<1> QED BY <1>1, PlanInvHolds, PTL
-----------------------------------------------------------------------------
(***************************************************************************)
(* The interview: what is on record and what was asked about are the same  *)
(* targets, but for the one being asked about.  (The provers do not know   *)
(* that a literal is in STRING: the words this code writes are named.)     *)
(***************************************************************************)
Texts == STRING \cup {"none", "note", "cross", "demonstrated", "explicit_lack"}

Recorded ==
    [score : -1..100, type : Texts, evidence : Seq(Texts), strengths : Seq(Texts),
     weaknesses : Seq(Texts)]

Turn(targets) ==
    [root : DOMAIN targets, question_id : Nat \X Nat, evaluation : Recorded,
     method : {"direct", "cross_target"}]

Roots(list) == {list[k].root : k \in DOMAIN list}

AskedAbout == {asked[k][1] : k \in DOMAIN asked}

LoopInv ==
    /\ stage \in {"planning", "interviewing", "completed", "reported"}
    /\ stage = "planning" =>
          /\ Targets = <<>> /\ turns = <<>> /\ asked = <<>>
          /\ assessed = {} /\ current = 0
    /\ Targets \in Seq(Target)
    /\ current \in {0} \cup DOMAIN Targets
    /\ current # 0 => stage = "interviewing"
    /\ follow_ups \in Nat
    /\ assessed \subseteq DOMAIN Targets
    /\ asked \in Seq((DOMAIN Targets) \X Nat)
    /\ turns \in Seq(Turn(Targets))
    /\ AskedAbout \cup assessed = Roots(turns) \cup ({current} \ {0})

(***************************************************************************)
(* The report is what ReportGenerationService.generate makes of the turns. *)
(***************************************************************************)
ReportInv == stage = "reported" => \E narrative \in Narratives : report = Reported(narrative)

\* Of all the replies to a generation, the first to be asked is for the requested target.
LEMMA WordedIsTheRequest ==
    ASSUME NEW t, NEW replies \in Replies, Generated(t, replies) # <<>>
    PROVE  Head(Generated(t, replies)) = <<Requested(t)>>
<1> DEFINE X == Seq([category : Categories, name : Names])
           P == {k \in DOMAIN First(replies, MaxAttempts) : Valid(t, replies[k])}
<1>1. replies \in Seq(X)
  BY InterviewReportAssumption
<1> HIDE DEF X
<1>2. P \in SUBSET (DOMAIN replies)
  <2>1. /\ Len(First(replies, MaxAttempts)) = Min({MaxAttempts, Len(replies)})
        /\ Min({MaxAttempts, Len(replies)}) \in 0..Len(replies)
        /\ First(replies, MaxAttempts) \in Seq(X)
    BY <1>1, FirstItems DEF MaxAttempts
  <2>2. \A k \in DOMAIN First(replies, MaxAttempts) : k \in 1..Len(replies)
    BY <1>1, <2>1
  <2> QED BY <1>1, <2>2
<1>3. \A p \in P : replies[p] = <<Requested(t)>>
  BY DEF Valid
<1>4. Generated(t, replies) = Sublist(replies, P)
  BY DEF Generated
<1> HIDE DEF P
<1>5. /\ Cardinality(P) \in Nat
      /\ Sublist(replies, P) \in Seq(X) /\ Len(Sublist(replies, P)) = Cardinality(P)
      /\ InOrder(P) \in [1..Cardinality(P) -> P]
      /\ \A k \in 1..Cardinality(P) : Sublist(replies, P)[k] = replies[InOrder(P)[k]]
  BY <1>1, <1>2, SublistItems
<1> DEFINE list == Sublist(replies, P)
<1>6. 1 \in 1..Cardinality(P) /\ Head(list) = list[1]
  <2> HIDE DEF list
  <2>1. list \in Seq(X) /\ Len(list) = Cardinality(P) /\ list # <<>>
    BY <1>4, <1>5 DEF list
  <2> QED BY <2>1
<1>7. list[1] = <<Requested(t)>>
  BY <1>3, <1>5, <1>6
<1> QED BY <1>4, <1>6, <1>7

\* A list of one.
LEMMA SingletonList == ASSUME NEW X, NEW x \in X PROVE <<x>> \in Seq(X)
OBVIOUS

\* The empty list.
LEMMA EmptyList == ASSUME NEW X PROVE <<>> \in Seq(X)
OBVIOUS

\* A list of elements of X is one of a larger set.
LEMMA WiderList == ASSUME NEW X, NEW Y, X \subseteq Y, NEW s \in Seq(X) PROVE s \in Seq(Y)
<1>1. s \in [1..Len(s) -> X] /\ Len(s) \in Nat
  OBVIOUS
<1>2. s \in [1..Len(s) -> Y]
  BY <1>1
<1> QED BY <1>1, <1>2

\* What a turn records of an evaluation has a score, texts and a type.
LEMMA SubstanceTyped ==
    ASSUME NEW e \in Evaluations \cup {Unevaluated}
    PROVE  Substance(e) \in Recorded
<1>1. CASE e \in Evaluations
  <2>1. Substance(e) \in TurnEvaluation
    BY <1>1, InterviewReportAssumption
  <2>2. \A s \in Seq(STRING) : s \in Seq(Texts)
    <3>1. STRING \subseteq Texts
      BY DEF Texts
    <3> QED BY <3>1, WiderList
  <2> DEFINE texts == Seq(STRING)
             lists == Seq(Texts)
  <2>3. \A s \in texts : s \in lists
    BY <2>2
  <2>4. \A x \in STRING : x \in Texts
    BY DEF Texts
  <2>5. TurnEvaluation = [score : 0..100, type : STRING, evidence : texts, strengths : texts,
                          weaknesses : texts]
    BY DEF TurnEvaluation
  <2>6. Recorded = [score : -1..100, type : Texts, evidence : lists, strengths : lists,
                    weaknesses : lists]
    BY DEF Recorded
  <2> HIDE DEF texts, lists
  <2>7. \A k \in 0..100 : k \in -1..100
    OBVIOUS
  <2> QED BY <2>1, <2>3, <2>4, <2>5, <2>6, <2>7
<1>2. CASE e = Unevaluated
  <2>1. Substance(Unevaluated) = Unevaluated
    BY DEF Substance, Unevaluated
  <2> DEFINE lists == Seq(Texts)
             none == <<>>
  <2>2. none \in lists
    BY EmptyList
  <2>3. "none" \in Texts
    BY DEF Texts
  <2>4. Recorded = [score : -1..100, type : Texts, evidence : lists, strengths : lists,
                    weaknesses : lists]
    BY DEF Recorded
  <2>5. Unevaluated = [score |-> -1, type |-> "none", evidence |-> none, strengths |-> none,
                       weaknesses |-> none]
    BY DEF Unevaluated
  <2> HIDE DEF lists, none
  <2> QED BY <1>2, <2>1, <2>2, <2>3, <2>4, <2>5
<1> QED BY <1>1, <1>2

\* So has the evaluation written for a target somebody volunteered evidence about.
LEMMA SynthesizedTyped ==
    \A type \in {"demonstrated", "explicit_lack"} : Synthesized(type) \in Recorded
<1> DEFINE texts == Seq(Texts)
           none == <<>>
           note == <<"note">>
           cross == <<"cross">>
<1>1. none \in texts /\ note \in texts /\ cross \in texts
  <2>1. "note" \in Texts /\ "cross" \in Texts
    BY DEF Texts
  <2> QED BY <2>1, SingletonList, EmptyList
<1>2. /\ Synthesized("demonstrated") =
            [score |-> 80, type |-> "demonstrated", evidence |-> note, strengths |-> cross,
             weaknesses |-> none]
      /\ Synthesized("explicit_lack") =
            [score |-> 5, type |-> "explicit_lack", evidence |-> none, strengths |-> none,
             weaknesses |-> cross]
  BY DEF Synthesized
<1>3. Recorded = [score : -1..100, type : Texts, evidence : texts, strengths : texts,
                  weaknesses : texts]
  BY DEF Recorded
<1> HIDE DEF texts, none, note, cross
<1>4. 80 \in -1..100 /\ 5 \in -1..100
  OBVIOUS
<1>7. "demonstrated" \in Texts /\ "explicit_lack" \in Texts
  BY DEF Texts
<1>5. Synthesized("demonstrated") \in Recorded
  BY <1>1, <1>2, <1>3, <1>4, <1>7
<1>6. Synthesized("explicit_lack") \in Recorded
  BY <1>1, <1>2, <1>3, <1>4, <1>7
<1> QED BY <1>5, <1>6

\* The targets an answer newly assesses, in order, and the turns recorded for them.
LEMMA NewlyAre ==
    ASSUME NEW e \in Evaluations \cup {Unevaluated}, NEW so_far, Targets \in Seq(Target)
    PROVE  LET items == IF e = Unevaluated THEN {} ELSE e.cross_target_evidence
               newly == NewlyAssessed(Targets, current, so_far, items)
           IN  /\ newly \in SUBSET (DOMAIN Targets)
               /\ InOrder(newly) \in Seq(newly)
               /\ ToSet(InOrder(newly)) = newly
               /\ \A t \in newly : CrossTurn(t, items) \in Turn(Targets) /\ CrossTurn(t, items).root = t
<1> DEFINE items == IF e = Unevaluated THEN {} ELSE e.cross_target_evidence
           newly == NewlyAssessed(Targets, current, so_far, items)
           about(t) == CHOOSE i \in items : Conclusive(i) /\ t \in Match(Targets, current, i.target)
<1>1. items \in SUBSET Evidence
  BY InterviewReportAssumption
<1>2. newly \in SUBSET (DOMAIN Targets)
  BY DEF NewlyAssessed, Match
<1>3. \A t \in newly : \E i \in items : Conclusive(i) /\ t \in Match(Targets, current, i.target)
  BY DEF NewlyAssessed
<1> HIDE DEF items, newly
<1>4. \A t \in newly : about(t) \in items /\ Conclusive(about(t))
  BY <1>3
<1>5. DOMAIN Targets = 1..Len(Targets) /\ Len(Targets) \in Nat
  OBVIOUS
<1>6. InOrder(newly) \in Seq(newly) /\ ToSet(InOrder(newly)) = newly
  BY <1>2, <1>5, InOrderItems
<1>7. ASSUME NEW t \in newly
      PROVE  CrossTurn(t, items) \in Turn(Targets) /\ CrossTurn(t, items).root = t
  <2>1. CrossTurn(t, items) =
          [root |-> t, question_id |-> <<t, 0>>,
           evaluation |-> Synthesized(about(t).evidence_type), method |-> "cross_target"]
    BY DEF CrossTurn
  <2>2. about(t).evidence_type \in {"demonstrated", "explicit_lack"}
    <3> HIDE DEF about
    <3> QED BY <1>4 DEF Conclusive
  <2> HIDE DEF about
  <2>3. \A type \in {"demonstrated", "explicit_lack"} : Synthesized(type) \in Recorded
    BY SynthesizedTyped
  <2>4. t \in DOMAIN Targets /\ <<t, 0>> \in Nat \X Nat
    BY <1>2, <1>5
  <2> QED BY <2>1, <2>2, <2>3, <2>4 DEF Turn
<1> QED BY <1>2, <1>4, <1>6, <1>7 DEF items, newly

\* The targets of a list of turns to which one is added,
LEMMA RootsAppend ==
    ASSUME NEW X, NEW u \in Seq(X), NEW x \in X
    PROVE  Append(u, x) \in Seq(X) /\ Roots(Append(u, x)) = Roots(u) \cup {x.root}
<1> DEFINE w == Append(u, x)
<1>1. /\ w \in Seq(X) /\ DOMAIN w = 1..Len(u) + 1 /\ DOMAIN u = 1..Len(u) /\ Len(u) \in Nat
      /\ \A k \in 1..Len(u) : w[k] = u[k]
      /\ w[Len(u) + 1] = x
  OBVIOUS
<1> HIDE DEF w
<1>2. ASSUME NEW k \in DOMAIN w PROVE w[k].root \in Roots(u) \cup {x.root}
  <2>1. CASE k = Len(u) + 1
    BY <1>1, <2>1
  <2>2. CASE k # Len(u) + 1
    <3>1. k \in 1..Len(u)
      BY <1>1, <2>2
    <3> QED BY <1>1, <3>1 DEF Roots
  <2> QED BY <2>1, <2>2
<1>3. ASSUME NEW k \in DOMAIN u PROVE u[k].root \in Roots(w)
  <2>1. k \in DOMAIN w /\ w[k] = u[k]
    BY <1>1
  <2> QED BY <2>1 DEF Roots
<1>4. x.root \in Roots(w)
  <2>1. Len(u) + 1 \in DOMAIN w /\ w[Len(u) + 1] = x
    BY <1>1
  <2> QED BY <2>1 DEF Roots
<1>5. Roots(w) \subseteq Roots(u) \cup {x.root}
  BY <1>2 DEF Roots
<1>6. Roots(u) \subseteq Roots(w)
  BY <1>3 DEF Roots
<1> QED BY <1>1, <1>4, <1>5, <1>6 DEF w

\* or another list is joined,
LEMMA RootsJoin ==
    ASSUME NEW X, NEW u \in Seq(X), NEW v \in Seq(X)
    PROVE  u \o v \in Seq(X) /\ Roots(u \o v) = Roots(u) \cup Roots(v)
<1> DEFINE w == u \o v
<1>1. /\ w \in Seq(X) /\ DOMAIN w = 1..Len(u) + Len(v)
      /\ DOMAIN u = 1..Len(u) /\ DOMAIN v = 1..Len(v) /\ Len(u) \in Nat /\ Len(v) \in Nat
      /\ \A k \in 1..Len(u) : w[k] = u[k]
      /\ \A k \in 1..Len(v) : w[Len(u) + k] = v[k]
  OBVIOUS
<1> HIDE DEF w
<1>2. ASSUME NEW k \in DOMAIN w PROVE w[k].root \in Roots(u) \cup Roots(v)
  <2>1. CASE k <= Len(u)
    <3>1. k \in DOMAIN u /\ w[k] = u[k]
      BY <1>1, <2>1
    <3> QED BY <3>1 DEF Roots
  <2>2. CASE k > Len(u)
    <3>1. k - Len(u) \in 1..Len(v) /\ k = Len(u) + (k - Len(u))
      BY <1>1, <2>2
    <3>2. w[k] = v[k - Len(u)]
      BY <1>1, <3>1
    <3> QED BY <1>1, <3>1, <3>2 DEF Roots
  <2> QED BY <1>1, <2>1, <2>2
<1>3. ASSUME NEW k \in DOMAIN u PROVE u[k].root \in Roots(w)
  <2>1. k \in DOMAIN w /\ w[k] = u[k]
    BY <1>1
  <2> QED BY <2>1 DEF Roots
<1>4. ASSUME NEW k \in DOMAIN v PROVE v[k].root \in Roots(w)
  <2>1. Len(u) + k \in DOMAIN w /\ w[Len(u) + k] = v[k]
    BY <1>1
  <2> QED BY <2>1 DEF Roots
<1>5. Roots(w) \subseteq Roots(u) \cup Roots(v)
  BY <1>2 DEF Roots
<1>6. Roots(u) \subseteq Roots(w) /\ Roots(v) \subseteq Roots(w)
  BY <1>3, <1>4 DEF Roots
<1> QED BY <1>1, <1>5, <1>6 DEF w

Subjects(list) == {list[k][1] : k \in DOMAIN list}

\* and those asked about, when one more question is asked.
LEMMA SubjectsAppend ==
    ASSUME NEW X, NEW u \in Seq(X), NEW x \in X
    PROVE  Append(u, x) \in Seq(X) /\ Subjects(Append(u, x)) = Subjects(u) \cup {x[1]}
<1> DEFINE w == Append(u, x)
<1>1. /\ w \in Seq(X) /\ DOMAIN w = 1..Len(u) + 1 /\ DOMAIN u = 1..Len(u) /\ Len(u) \in Nat
      /\ \A k \in 1..Len(u) : w[k] = u[k]
      /\ w[Len(u) + 1] = x
  OBVIOUS
<1> HIDE DEF w
<1>2. ASSUME NEW k \in DOMAIN w PROVE w[k][1] \in Subjects(u) \cup {x[1]}
  <2>1. CASE k = Len(u) + 1
    BY <1>1, <2>1
  <2>2. CASE k # Len(u) + 1
    <3>1. k \in 1..Len(u)
      BY <1>1, <2>2
    <3> QED BY <1>1, <3>1 DEF Subjects
  <2> QED BY <2>1, <2>2
<1>3. ASSUME NEW k \in DOMAIN u PROVE u[k][1] \in Subjects(w)
  <2>1. k \in DOMAIN w /\ w[k] = u[k]
    BY <1>1
  <2> QED BY <2>1 DEF Subjects
<1>4. x[1] \in Subjects(w)
  <2>1. Len(u) + 1 \in DOMAIN w /\ w[Len(u) + 1] = x
    BY <1>1
  <2> QED BY <2>1 DEF Subjects
<1>5. Subjects(w) \subseteq Subjects(u) \cup {x[1]}
  BY <1>2 DEF Subjects
<1>6. Subjects(u) \subseteq Subjects(w)
  BY <1>3 DEF Subjects
<1> QED BY <1>1, <1>4, <1>5, <1>6 DEF w

(***************************************************************************)
(* One answer: its turn and the incidental ones, in the terms of LoopInv.  *)
(***************************************************************************)
LEMMA AnswerRecords ==
    ASSUME LoopInv, NEW e \in Evaluations \cup {Unevaluated}, Answer(e)
    PROVE  /\ UNCHANGED <<spec, match, plan, stage, report>>
           /\ \E newly \in SUBSET (DOMAIN Targets) :
                 /\ turns' \in Seq(Turn(Targets))
                 /\ Roots(turns') = Roots(turns) \cup {current} \cup newly
                 /\ asked' \in Seq((DOMAIN Targets) \X Nat)
                 /\ AskedAbout' \in {AskedAbout, AskedAbout \cup {current}}
                 /\ \/ current' = current /\ assessed' = assessed \cup newly
                    \/ current' = 0 /\ assessed' = assessed \cup {current} \cup newly
                 /\ follow_ups' \in Nat
<1> DEFINE turn == [root |-> current, question_id |-> <<current, follow_ups>>,
                    evaluation |-> Substance(e), method |-> "direct"]
           so_far == IF FollowUp(e) THEN assessed ELSE assessed \cup {current}
           items == IF e = Unevaluated THEN {} ELSE e.cross_target_evidence
           N == NewlyAssessed(Targets, current, so_far, items)
           newly == InOrder(N)
           cross == [k \in DOMAIN newly |-> CrossTurn(newly[k], items)]
<1>1. /\ current # 0
      /\ turns' = Append(turns, turn) \o cross
      /\ assessed' = so_far \cup ToSet(newly)
      /\ asked' = IF follow_ups > 0 THEN Append(asked, <<current, follow_ups>>) ELSE asked
      /\ FollowUp(e) => follow_ups' = follow_ups + 1 /\ current' = current
      /\ ~FollowUp(e) => follow_ups' = 0 /\ current' = 0
      /\ UNCHANGED <<spec, match, plan, stage, report>>
  BY DEF Answer
<1>2. /\ Targets \in Seq(Target) /\ current \in DOMAIN Targets /\ follow_ups \in Nat
      /\ turns \in Seq(Turn(Targets)) /\ asked \in Seq((DOMAIN Targets) \X Nat)
  BY <1>1 DEF LoopInv
<1>3. /\ N \in SUBSET (DOMAIN Targets)
      /\ newly \in Seq(N) /\ ToSet(newly) = N
      /\ \A t \in N : CrossTurn(t, items) \in Turn(Targets) /\ CrossTurn(t, items).root = t
  <2> HIDE DEF so_far
  <2> QED BY <1>2, NewlyAre
<1>4. DOMAIN Targets \in SUBSET Nat
  BY <1>2
<1>5. turn \in Turn(Targets) /\ turn.root = current
  <2>1. current \in Nat /\ Substance(e) \in Recorded
    BY <1>2, <1>4, SubstanceTyped
  <2> HIDE DEF Recorded
  <2> QED BY <1>2, <2>1 DEF Turn
<1> HIDE DEF turn, N, newly, items
<1>6. cross \in Seq(Turn(Targets)) /\ Roots(cross) = N
  <2>1. DOMAIN newly = 1..Len(newly) /\ Len(newly) \in Nat
    BY <1>3
  <2>2. \A k \in 1..Len(newly) : newly[k] \in N
    BY <1>3
  <2>3. \A k \in 1..Len(newly) : cross[k] \in Turn(Targets) /\ cross[k].root = newly[k]
    BY <1>3, <2>1, <2>2
  <2>4. cross = [k \in 1..Len(newly) |-> cross[k]]
    BY <2>1
  <2>5. N = {newly[k] : k \in 1..Len(newly)}
    BY <1>3, <2>1 DEF ToSet
  <2> HIDE DEF cross
  <2>6. cross \in [1..Len(newly) -> Turn(Targets)]
    BY <2>3, <2>4
  <2>7. cross \in Seq(Turn(Targets)) /\ DOMAIN cross = 1..Len(newly)
    BY <2>1, <2>6, ListOf
  <2>8. Roots(cross) = N
    BY <2>3, <2>5, <2>7 DEF Roots
  <2> QED BY <2>7, <2>8
<1> HIDE DEF cross
<1>7. turns' \in Seq(Turn(Targets)) /\ Roots(turns') = Roots(turns) \cup {current} \cup N
  <2>1. /\ Append(turns, turn) \in Seq(Turn(Targets))
        /\ Roots(Append(turns, turn)) = Roots(turns) \cup {current}
    BY <1>2, <1>5, RootsAppend
  <2>2. /\ Append(turns, turn) \o cross \in Seq(Turn(Targets))
        /\ Roots(Append(turns, turn) \o cross) = Roots(Append(turns, turn)) \cup Roots(cross)
    BY <1>6, <2>1, RootsJoin, ZenonT(60)
  <2> QED BY <1>1, <1>6, <2>1, <2>2
<1>8. /\ asked' \in Seq((DOMAIN Targets) \X Nat)
      /\ AskedAbout' \in {AskedAbout, AskedAbout \cup {current}}
  <2>0. AskedAbout = Subjects(asked) /\ AskedAbout' = Subjects(asked')
    BY DEF AskedAbout, Subjects
  <2>1. CASE follow_ups > 0
    <3> DEFINE x == <<current, follow_ups>>
    <3>1. x \in (DOMAIN Targets) \X Nat /\ x[1] = current /\ asked' = Append(asked, x)
      BY <1>1, <1>2, <2>1
    <3> DEFINE X == (DOMAIN Targets) \X Nat
    <3>3. asked \in Seq(X) /\ x \in X
      BY <1>2, <3>1
    <3> HIDE DEF x, X
    <3>4. Append(asked, x) \in Seq(X) /\ Subjects(Append(asked, x)) = Subjects(asked) \cup {x[1]}
      BY <3>3, SubjectsAppend
    <3>2. /\ Append(asked, x) \in Seq((DOMAIN Targets) \X Nat)
          /\ Subjects(Append(asked, x)) = Subjects(asked) \cup {x[1]}
      BY <3>4 DEF X
    <3> QED BY <2>0, <3>1, <3>2
  <2>2. CASE ~(follow_ups > 0)
    BY <1>1, <1>2, <2>0, <2>2
  <2> QED BY <2>1, <2>2
<1>9. /\ \/ current' = current /\ assessed' = assessed \cup N
         \/ current' = 0 /\ assessed' = assessed \cup {current} \cup N
      /\ follow_ups' \in Nat
  BY <1>1, <1>2, <1>3
<1> QED BY <1>1, <1>3, <1>7, <1>8, <1>9

\* A target has turns exactly when it was asked about or assessed, but for the one now asked.
LEMMA LoopInvHolds == Spec => [](PlanInv /\ LoopInv)
<1>1. Init => LoopInv
  <2> SUFFICES ASSUME Init PROVE LoopInv
    OBVIOUS
  <2>1. /\ Targets = <<>> /\ turns = <<>> /\ asked = <<>> /\ assessed = {} /\ current = 0
        /\ stage = "planning" /\ follow_ups = 0
    BY DEF Init, Targets
  <2>2. AskedAbout = {} /\ Roots(turns) = {}
    BY <2>1 DEF AskedAbout, Roots
  <2>3. /\ Targets \in Seq(Target) /\ asked \in Seq((DOMAIN Targets) \X Nat)
        /\ turns \in Seq(Turn(Targets))
    BY <2>1, EmptyList
  <2> QED BY <2>1, <2>2, <2>3 DEF LoopInv
<1>2. PlanInv /\ LoopInv /\ [Next]_vars => LoopInv'
  <2> SUFFICES ASSUME PlanInv, LoopInv, [Next]_vars PROVE LoopInv'
    OBVIOUS
  <2>1. CASE MakePlan
    <3>1. /\ turns' = <<>> /\ asked' = <<>> /\ assessed' = {} /\ current' = 0
          /\ stage' = "interviewing" /\ follow_ups' \in Nat
      BY <2>1 DEF MakePlan, LoopInv
    <3>2. Targets' \in Seq(Target)
      <4>1. IsPlan(Plan(spec, match).coverage_targets)
        BY PlanIsFaithful, InputsTyped DEF PlanInv
      <4>2. Targets' = Plan(spec, match).coverage_targets
        BY <2>1 DEF MakePlan, Targets
      <4> QED BY <4>1, <4>2 DEF IsPlan
    <3>3. AskedAbout' = {} /\ Roots(turns') = {}
      BY <3>1 DEF AskedAbout, Roots
    <3>4. asked' \in Seq((DOMAIN Targets') \X Nat) /\ turns' \in Seq(Turn(Targets'))
      BY <3>1, EmptyList
    <3> QED BY <3>1, <3>2, <3>3, <3>4 DEF LoopInv
  <2>2. ASSUME NEW t \in DOMAIN Targets, NEW replies \in Replies, Ask(t, replies) PROVE LoopInv'
    <3> DEFINE x == <<t, 0>>
    <3>1. /\ stage = "interviewing" /\ current = 0 /\ current' = t /\ asked' = Append(asked, x)
          /\ follow_ups' = 0 /\ Targets' = Targets
          /\ UNCHANGED <<stage, assessed, turns>>
      BY <2>2 DEF Ask, Targets
    <3>2. x \in (DOMAIN Targets) \X Nat /\ x[1] = t
      OBVIOUS
    <3> DEFINE X == (DOMAIN Targets) \X Nat
    <3>6. asked \in Seq(X) /\ x \in X
      BY <3>2 DEF LoopInv
    <3> HIDE DEF x, X
    <3>7. Append(asked, x) \in Seq(X) /\ Subjects(Append(asked, x)) = Subjects(asked) \cup {x[1]}
      BY <3>6, SubjectsAppend
    <3>3. /\ asked' \in Seq((DOMAIN Targets) \X Nat)
          /\ Subjects(asked') = Subjects(asked) \cup {t}
      BY <3>1, <3>2, <3>7 DEF X
    <3>4. AskedAbout' = AskedAbout \cup {t}
      BY <3>3 DEF AskedAbout, Subjects
    <3>5. t # 0
      BY DEF LoopInv
    <3> QED BY <3>1, <3>3, <3>4, <3>5 DEF LoopInv
  <2>3. CASE NothingLeft
    <3>1. /\ stage = "interviewing" /\ stage' = "completed" /\ current = 0 /\ Targets' = Targets
          /\ AskedAbout' = AskedAbout
          /\ UNCHANGED <<assessed, asked, current, follow_ups, turns>>
      BY <2>3 DEF NothingLeft, Targets, AskedAbout
    <3> QED BY <3>1 DEF LoopInv
  <2>4. ASSUME NEW e \in Evaluations \cup {Unevaluated}, Answer(e) PROVE LoopInv'
    <3>1. /\ plan' = plan /\ stage' = stage
          /\ \E newly \in SUBSET (DOMAIN Targets) :
                 /\ turns' \in Seq(Turn(Targets))
                 /\ Roots(turns') = Roots(turns) \cup {current} \cup newly
                 /\ asked' \in Seq((DOMAIN Targets) \X Nat)
                 /\ AskedAbout' \in {AskedAbout, AskedAbout \cup {current}}
                 /\ \/ current' = current /\ assessed' = assessed \cup newly
                    \/ current' = 0 /\ assessed' = assessed \cup {current} \cup newly
                 /\ follow_ups' \in Nat
      BY <2>4, AnswerRecords
    <3>2. PICK newly \in SUBSET (DOMAIN Targets) :
                 /\ turns' \in Seq(Turn(Targets))
                 /\ Roots(turns') = Roots(turns) \cup {current} \cup newly
                 /\ asked' \in Seq((DOMAIN Targets) \X Nat)
                 /\ AskedAbout' \in {AskedAbout, AskedAbout \cup {current}}
                 /\ \/ current' = current /\ assessed' = assessed \cup newly
                    \/ current' = 0 /\ assessed' = assessed \cup {current} \cup newly
                 /\ follow_ups' \in Nat
      BY <3>1
    <3>3. current # 0 /\ current \in DOMAIN Targets /\ stage = "interviewing" /\ Targets' = Targets
      BY <2>4, <3>1 DEF Answer, LoopInv, Targets
    <3>4. AskedAbout \cup assessed = Roots(turns) \cup {current}
      BY <3>3 DEF LoopInv
    <3>5. AskedAbout' \cup assessed' = Roots(turns') \cup ({current'} \ {0})
      BY <3>2, <3>3, <3>4
    <3> QED BY <3>1, <3>2, <3>3, <3>5 DEF LoopInv
  <2>5. ASSUME NEW narrative \in Narratives, Generate(narrative) PROVE LoopInv'
    <3>1. /\ stage = "completed" /\ stage' = "reported" /\ Targets' = Targets
          /\ AskedAbout' = AskedAbout
          /\ UNCHANGED <<assessed, asked, current, follow_ups, turns>>
      BY <2>5 DEF Generate, Targets, AskedAbout
    <3> QED BY <3>1 DEF LoopInv
  <2>6. CASE UNCHANGED vars
    <3>1. /\ Targets' = Targets /\ AskedAbout' = AskedAbout
          /\ UNCHANGED <<stage, assessed, asked, current, follow_ups, turns>>
      BY <2>6 DEF vars, Targets, AskedAbout
    <3> QED BY <3>1 DEF LoopInv
  <2> QED BY <2>1, <2>2, <2>3, <2>4, <2>5, <2>6 DEF Next
<1>3. Spec => []LoopInv
  BY <1>1, <1>2, PlanInvHolds, PTL DEF Spec
<1> QED BY <1>3, PlanInvHolds, PTL

(***************************************************************************)
(* Whatever the wording model returns and however often it has to be asked *)
(* (QuestionGenerationService.generate), the question's wording was given  *)
(* for the target the answer goes on record under.                         *)
(***************************************************************************)
THEOREM AlwaysWordedForTheTarget == Spec => []WordedForTheTarget
<1>1. Init => WordedForTheTarget
  BY DEF Init, WordedForTheTarget
<1>2. LoopInv /\ WordedForTheTarget /\ [Next]_vars => WordedForTheTarget'
  <2> SUFFICES ASSUME LoopInv, WordedForTheTarget, [Next]_vars PROVE WordedForTheTarget'
    OBVIOUS
  <2>0. UNCHANGED <<plan, current, wording>> => WordedForTheTarget'
    BY DEF WordedForTheTarget, Requested, Targets
  <2>1. CASE MakePlan
    BY <2>1 DEF MakePlan, LoopInv, WordedForTheTarget
  <2>2. ASSUME NEW t \in DOMAIN Targets, NEW replies \in Replies, Ask(t, replies)
        PROVE  WordedForTheTarget'
    <3>1. current' = t /\ wording' = Head(Generated(t, replies)) /\ plan' = plan
      BY <2>2 DEF Ask
    <3>2. wording' = <<Requested(t)>>
      BY <2>2, <3>1, WordedIsTheRequest DEF Ask
    <3> QED BY <3>1, <3>2 DEF WordedForTheTarget, Requested, Targets
  <2>3. CASE NothingLeft
    BY <2>0, <2>3 DEF NothingLeft
  <2>4. ASSUME NEW e \in Evaluations \cup {Unevaluated}, Answer(e) PROVE WordedForTheTarget'
    <3>1. plan' = plan /\ (UNCHANGED <<current, wording>> \/ current' = 0)
      BY <2>4 DEF Answer
    <3>2. CASE current' = 0
      BY <3>2 DEF WordedForTheTarget
    <3> QED BY <2>0, <3>1, <3>2
  <2>5. ASSUME NEW narrative \in Narratives, Generate(narrative) PROVE WordedForTheTarget'
    BY <2>0, <2>5 DEF Generate
  <2>6. CASE UNCHANGED vars
    BY <2>0, <2>6 DEF vars
  <2> QED BY <2>1, <2>2, <2>3, <2>4, <2>5, <2>6 DEF Next
<1> QED BY <1>1, <1>2, LoopInvHolds, PTL DEF Spec

\* A report is the one generate makes of the turns recorded by then.
LEMMA ReportInvHolds == Spec => [](PlanInv /\ LoopInv /\ ReportInv)
<1>1. Init => ReportInv
  BY DEF Init, ReportInv
<1>2. LoopInv /\ ReportInv /\ [Next]_vars => ReportInv'
  <2> SUFFICES ASSUME LoopInv, ReportInv, [Next]_vars PROVE ReportInv'
    OBVIOUS
  <2>0. UNCHANGED <<stage, plan, turns, report>> => ReportInv'
    <3> SUFFICES ASSUME UNCHANGED <<stage, plan, turns, report>>, stage = "reported"
                 PROVE  \E narrative \in Narratives : report' = Reported(narrative)'
      BY DEF ReportInv
    <3>1. PICK narrative \in Narratives : report = Reported(narrative)
      BY DEF ReportInv
    <3>2. Reported(narrative)' = Reported(narrative)
      BY DEF Reported, Targets
    <3> QED BY <3>1, <3>2
  <2>1. CASE MakePlan
    BY <2>1 DEF MakePlan, ReportInv
  <2>2. ASSUME NEW t \in DOMAIN Targets, NEW replies \in Replies, Ask(t, replies) PROVE ReportInv'
    BY <2>0, <2>2 DEF Ask
  <2>3. CASE NothingLeft
    BY <2>3 DEF NothingLeft, ReportInv
  <2>4. ASSUME NEW e \in Evaluations \cup {Unevaluated}, Answer(e) PROVE ReportInv'
    <3>1. current # 0 /\ stage' = stage
      BY <2>4 DEF Answer
    <3> QED BY <3>1 DEF LoopInv, ReportInv
  <2>5. ASSUME NEW narrative \in Narratives, Generate(narrative) PROVE ReportInv'
    <3>1. report' = Reported(narrative) /\ UNCHANGED <<plan, turns>>
      BY <2>5 DEF Generate
    <3>2. Reported(narrative)' = Reported(narrative)
      BY <3>1 DEF Reported, Targets
    <3> QED BY <3>1, <3>2 DEF ReportInv
  <2>6. CASE UNCHANGED vars
    BY <2>0, <2>6 DEF vars
  <2> QED BY <2>1, <2>2, <2>3, <2>4, <2>5, <2>6 DEF Next
<1>3. Spec => []ReportInv
  BY <1>1, <1>2, LoopInvHolds, PTL DEF Spec
<1> QED BY <1>3, LoopInvHolds, PTL
-----------------------------------------------------------------------------
(***************************************************************************)
(* The report.  Lists of lists made into one, without repeats.             *)
(***************************************************************************)
Items(list) == {list[k] : k \in DOMAIN list}

\* What two joined lists hold.
LEMMA JoinedItems ==
    ASSUME NEW X, NEW u \in Seq(X), NEW v \in Seq(X)
    PROVE  u \o v \in Seq(X) /\ Items(u \o v) = Items(u) \cup Items(v)
<1> DEFINE w == u \o v
<1>1. /\ w \in Seq(X) /\ DOMAIN w = 1..Len(u) + Len(v)
      /\ DOMAIN u = 1..Len(u) /\ DOMAIN v = 1..Len(v) /\ Len(u) \in Nat /\ Len(v) \in Nat
      /\ \A k \in 1..Len(u) : w[k] = u[k]
      /\ \A k \in 1..Len(v) : w[Len(u) + k] = v[k]
  OBVIOUS
<1> HIDE DEF w
<1>2. ASSUME NEW k \in DOMAIN w PROVE w[k] \in Items(u) \cup Items(v)
  <2>1. CASE k <= Len(u)
    <3>1. k \in DOMAIN u /\ w[k] = u[k]
      BY <1>1, <2>1
    <3> QED BY <3>1 DEF Items
  <2>2. CASE k > Len(u)
    <3>1. k - Len(u) \in 1..Len(v) /\ k = Len(u) + (k - Len(u))
      BY <1>1, <2>2
    <3>2. w[k] = v[k - Len(u)]
      BY <1>1, <3>1
    <3> QED BY <1>1, <3>1, <3>2 DEF Items
  <2> QED BY <1>1, <2>1, <2>2
<1>3. ASSUME NEW k \in DOMAIN u PROVE u[k] \in Items(w)
  <2>1. k \in DOMAIN w /\ w[k] = u[k]
    BY <1>1
  <2> QED BY <2>1 DEF Items
<1>4. ASSUME NEW k \in DOMAIN v PROVE v[k] \in Items(w)
  <2>1. Len(u) + k \in DOMAIN w /\ w[Len(u) + k] = v[k]
    BY <1>1
  <2> QED BY <2>1 DEF Items
<1>5. Items(w) \subseteq Items(u) \cup Items(v)
  BY <1>2 DEF Items
<1>6. Items(u) \subseteq Items(w) /\ Items(v) \subseteq Items(w)
  BY <1>3, <1>4 DEF Items
<1> QED BY <1>1, <1>5, <1>6 DEF w

\* A list of lists, flattened, holds what they hold.
LEMMA FlattenedItems ==
    ASSUME NEW X, NEW lists \in Seq(Seq(X))
    PROVE  /\ FlattenSeq(lists) \in Seq(X)
           /\ Items(FlattenSeq(lists)) = UNION {Items(lists[j]) : j \in DOMAIN lists}
<1> DEFINE n == Len(lists)
           V == Seq(X)
           Flat(f) == f = [i \in 1..n |-> IF i = 1 THEN lists[i] ELSE f[i - 1] \o lists[i]]
           flatten == CHOOSE f : Flat(f)
<1>1. n \in Nat /\ DOMAIN lists = 1..n /\ \A i \in 1..n : lists[i] \in V
  OBVIOUS
<1>2. CASE n = 0
  <2>1. FlattenSeq(lists) = lists
    BY <1>2 DEF FlattenSeq
  <2>2. lists = <<>>
    BY <1>2
  <2>3. <<>> \in Seq(X) /\ DOMAIN <<>> = {}
    OBVIOUS
  <2> QED BY <2>1, <2>2, <2>3 DEF Items
<1>3. CASE n # 0
  <2>1. FlattenSeq(lists) = flatten[n]
    BY <1>3 DEF FlattenSeq
  <2> HIDE DEF V, n
  <2>2. \A u, v \in V : u \o v \in V
    BY JoinedItems DEF V
  <2>3. \E f : Flat(f)
    <3> DEFINE step == [p \in V \X (1..n) |-> p[1] \o lists[p[2]]]
    <3>1. step \in [Pairs(V, n) -> V]
      BY <1>1, <2>2 DEF Pairs
    <3> DEFINE none == <<>>
    <3>2. none \in V
      BY EmptyList DEF V
    <3>4. \A v \in V, k \in 1..n : step[<<v, k>>] = v \o lists[k]
      OBVIOUS
    <3> HIDE DEF step, none
    <3>3. PICK f \in [0..n -> V] : f[0] = none /\ \A k \in 1..n : f[k] = step[<<f[k - 1], k>>]
      <4>1. \E f : Follows(f, V, none, n, step)
        BY <1>1, <3>1, <3>2, Recursion
      <4> QED BY <4>1 DEF Follows
    <3> DEFINE g == [i \in 1..n |-> f[i]]
    <3>5. \A i \in 1..n : f[i - 1] \in V /\ f[i] = f[i - 1] \o lists[i]
      <4>1. \A i \in 1..n : i - 1 \in 0..n
        BY <1>1
      <4> QED BY <3>3, <3>4, <4>1
    <3>6. 1 \in 1..n
      BY <1>1, <1>3
    <3>7. f[1] = lists[1]
      <4>1. f[1] = f[1 - 1] \o lists[1]
        BY <3>5, <3>6, Zenon
      <4>3. 1 - 1 = 0
        OBVIOUS
      <4>4. f[1] = none \o lists[1]
        BY <3>3, <4>1, <4>3, Zenon
      <4>2. none \o lists[1] = lists[1]
        BY <1>1, <3>6 DEF V, none
      <4> QED BY <4>4, <4>2
    <3>8. \A i \in 1..n : i # 1 => f[i] = g[i - 1] \o lists[i]
      <4>1. \A i \in 1..n : i # 1 => i - 1 \in 1..n
        BY <1>1
      <4>2. \A i \in 1..n : i # 1 => g[i - 1] = f[i - 1]
        BY <4>1
      <4> HIDE DEF g
      <4> QED BY <3>5, <4>2
    <3>9. Flat(g)
      BY <3>7, <3>8
    <3> HIDE DEF g, Flat
    <3> QED BY <3>9
  <2>4. Flat(flatten)
    <3> HIDE DEF Flat
    <3> QED BY <2>3
  <2>5. /\ flatten[1] = lists[1]
        /\ \A i \in 1..n : i # 1 => flatten[i] = flatten[i - 1] \o lists[i]
    <3>1. 1 \in 1..n
      BY <1>1, <1>3
    <3> HIDE DEF flatten
    <3> QED BY <2>4, <3>1
  <2> HIDE DEF flatten
  <2> DEFINE so_far(i) == UNION {Items(lists[j]) : j \in 1..i}
             T == {i \in Nat : i + 1 <= n => /\ flatten[i + 1] \in V
                                             /\ Items(flatten[i + 1]) = so_far(i + 1)}
  <2>6. 0 \in T
    <3>1. 1 \in 1..n /\ lists[1] \in V
      BY <1>1, <1>3
    <3>2. so_far(1) = Items(lists[1])
      <4>1. 1..1 = {1}
        OBVIOUS
      <4> QED BY <4>1
    <3>3. flatten[1] \in V /\ Items(flatten[1]) = so_far(1) /\ 0 + 1 = 1
      BY <2>5, <3>1, <3>2
    <3> HIDE DEF so_far
    <3> QED BY <3>3
  <2>7. ASSUME NEW i \in T PROVE i + 1 \in T
    <3>0. i \in Nat
      OBVIOUS
    <3> SUFFICES ASSUME (i + 1) + 1 <= n
                 PROVE  /\ flatten[(i + 1) + 1] \in V
                        /\ Items(flatten[(i + 1) + 1]) = so_far((i + 1) + 1)
      OBVIOUS
    <3> DEFINE m == i + 1
    <3>1. flatten[m] \in V /\ Items(flatten[m]) = so_far(m)
      <4>1. i + 1 <= n
        BY <1>1, <3>0
      <4> HIDE DEF so_far
      <4> QED BY <4>1
    <3>2. m \in Nat /\ m + 1 \in 1..n /\ m + 1 # 1 /\ (m + 1) - 1 = m
      BY <1>1, <3>0
    <3>7. 1..m + 1 = 1..m \cup {m + 1}
      BY <3>2
    <3> HIDE DEF m
    <3>3. flatten[m + 1] = flatten[m] \o lists[m + 1]
      BY <2>5, <3>2
    <3>4. /\ flatten[m + 1] \in V
          /\ Items(flatten[m + 1]) = Items(flatten[m]) \cup Items(lists[m + 1])
      <4>1. flatten[m] \in Seq(X) /\ lists[m + 1] \in Seq(X)
        BY <1>1, <3>1, <3>2 DEF V
      <4> QED BY <3>3, <4>1, JoinedItems DEF V
    <3>5. so_far(m + 1) = so_far(m) \cup Items(lists[m + 1])
      BY <3>7
    <3> HIDE DEF so_far
    <3>6. flatten[m + 1] \in V /\ Items(flatten[m + 1]) = so_far(m + 1)
      BY <3>1, <3>4, <3>5
    <3> QED BY <3>6 DEF m
  <2>8. T = Nat
    <3>1. T \in SUBSET Nat
      OBVIOUS
    <3> HIDE DEF T
    <3> QED BY <2>6, <2>7, <3>1, SetInduction
  <2>9. n - 1 \in Nat /\ (n - 1) + 1 = n
    BY <1>1, <1>3
  <2>10. n - 1 \in T
    <3> HIDE DEF T
    <3> QED BY <2>8, <2>9
  <2>11. flatten[n] \in V /\ Items(flatten[n]) = so_far(n)
    <3>1. (n - 1) + 1 <= n
      BY <1>1, <2>9
    <3>2. flatten[(n - 1) + 1] \in V /\ Items(flatten[(n - 1) + 1]) = so_far((n - 1) + 1)
      <4> HIDE DEF so_far
      <4> QED BY <2>10, <3>1
    <3> HIDE DEF so_far
    <3> QED BY <2>9, <3>2
  <2> QED BY <1>1, <2>1, <2>11 DEF V
<1> QED BY <1>2, <1>3

\* A sublist holds what its places held.
LEMMA SublistTakes ==
    ASSUME NEW X, NEW s \in Seq(X), NEW P \in SUBSET (DOMAIN s)
    PROVE  Sublist(s, P) \in Seq(X) /\ Items(Sublist(s, P)) = {s[p] : p \in P}
<1> DEFINE w == Sublist(s, P)
           n == Cardinality(P)
           o == InOrder(P)
<1>1. /\ n \in Nat /\ w \in Seq(X) /\ Len(w) = n
      /\ o \in [1..n -> P]
      /\ \A k \in 1..n : w[k] = s[o[k]]
      /\ \A p \in P : \E k \in 1..n : o[k] = p
  BY SublistItems, ZenonT(60)
<1> HIDE DEF w, n, o
<1>2. DOMAIN w = 1..n
  BY <1>1
<1>3. ASSUME NEW k \in 1..n PROVE w[k] \in {s[p] : p \in P}
  BY <1>1
<1>4. ASSUME NEW p \in P PROVE s[p] \in Items(w)
  <2>1. PICK k \in 1..n : o[k] = p
    BY <1>1
  <2>2. w[k] = s[p]
    BY <1>1, <2>1
  <2> QED BY <1>2, <2>2 DEF Items
<1>5. Items(w) \subseteq {s[p] : p \in P}
  BY <1>2, <1>3 DEF Items
<1>6. {s[p] : p \in P} \subseteq Items(w)
  BY <1>4
<1> QED BY <1>1, <1>5, <1>6 DEF w

\* Flattening and dropping repetitions loses nothing (the merge of texts in a summary).
LEMMA UniqueItems ==
    ASSUME NEW X, NEW lists \in Seq(Seq(X))
    PROVE  /\ FlattenUnique(lists) \in Seq(X)
           /\ Items(FlattenUnique(lists)) = UNION {Items(lists[j]) : j \in DOMAIN lists}
<1> DEFINE all == FlattenSeq(lists)
           P == {k \in DOMAIN all : \A j \in 1..k - 1 : all[j] # all[k]}
<1>1. all \in Seq(X) /\ Items(all) = UNION {Items(lists[j]) : j \in DOMAIN lists}
  BY FlattenedItems
<1>2. FlattenUnique(lists) = Sublist(all, P)
  BY DEF FlattenUnique
<1> HIDE DEF all
<1>3. P \in SUBSET (DOMAIN all)
  OBVIOUS
<1>4. Sublist(all, P) \in Seq(X) /\ Items(Sublist(all, P)) = {all[p] : p \in P}
  <2> HIDE DEF P
  <2> QED BY <1>1, <1>3, SublistTakes
<1>5. ASSUME NEW k \in DOMAIN all PROVE \E p \in P : all[p] = all[k]
  <2> DEFINE S == {i \in DOMAIN all : all[i] = all[k]}
  <2>1. S \in SUBSET Nat /\ S # {} /\ DOMAIN all = 1..Len(all)
    BY <1>1
  <2>2. PICK m \in S : \A i \in S : m <= i
    <3> HIDE DEF S
    <3> QED BY <2>1, Least
  <2>3. \A j \in 1..m - 1 : j \in DOMAIN all /\ j \notin S
    BY <2>1, <2>2
  <2>4. m \in P
    BY <2>3
  <2> QED BY <2>4
<1>6. Items(all) = {all[p] : p \in P}
  <2>1. \A x \in Items(all) : x \in {all[p] : p \in P}
    <3> HIDE DEF P
    <3> QED BY <1>5 DEF Items
  <2>2. \A p \in P : all[p] \in Items(all)
    BY DEF Items
  <2> HIDE DEF P
  <2> QED BY <2>1, <2>2
<1> QED BY <1>1, <1>2, <1>4, <1>6

\* The turns of a target, and the last of them.
LEMMA LastOwnTurn ==
    ASSUME NEW X, NEW list \in Seq(X), NEW t \in Roots(list)
    PROVE  /\ TurnsOf(list, t) \in Seq(X)
           /\ Items(TurnsOf(list, t)) = {list[p] : p \in {k \in DOMAIN list : list[k].root = t}}
           /\ \E p \in DOMAIN list : /\ list[p].root = t
                                     /\ Last(TurnsOf(list, t)) = list[p]
                                     /\ \A q \in DOMAIN list : list[q].root = t => q <= p
<1> DEFINE P == {k \in DOMAIN list : list[k].root = t}
           own == Sublist(list, P)
           n == Cardinality(P)
           o == InOrder(P)
<1>1. TurnsOf(list, t) = own
  BY DEF TurnsOf
<1>2. P \in SUBSET (DOMAIN list) /\ P # {} /\ \A p \in P : p \in Nat
  BY DEF Roots
<1>7. \A q \in DOMAIN list : list[q].root = t => q \in P
  OBVIOUS
<1>8. \A p \in P : list[p].root = t
  OBVIOUS
<1>9. own \in Seq(X) /\ Items(own) = {list[p] : p \in P}
  <2> HIDE DEF P
  <2> QED BY <1>2, SublistTakes
<1> HIDE DEF P
<1>3. /\ n \in Nat /\ own \in Seq(X) /\ Len(own) = n
      /\ o \in [1..n -> P]
      /\ \A k \in 1..n : own[k] = list[o[k]]
      /\ \A p \in P : \E k \in 1..n : o[k] = p
      /\ \A j, k \in 1..n : o[j] < o[k] <=> j < k
  BY <1>2, SublistItems
<1> HIDE DEF own, n, o
<1>4. n \in 1..n /\ Last(own) = own[n]
  BY <1>2, <1>3 DEF Last
<1>5. o[n] \in P /\ own[n] = list[o[n]]
  BY <1>3, <1>4
<1>6. ASSUME NEW q \in P PROVE q <= o[n]
  <2>1. PICK j \in 1..n : o[j] = q
    BY <1>3
  <2>2. CASE j = n
    BY <1>2, <2>1, <2>2
  <2>3. CASE j < n
    BY <1>2, <1>3, <1>4, <1>5, <2>1, <2>3
  <2> QED BY <1>3, <2>2, <2>3
<1>10. Items(own) = {list[p] : p \in {k \in DOMAIN list : list[k].root = t}}
  BY <1>9 DEF P
<1> QED BY <1>1, <1>2, <1>4, <1>5, <1>6, <1>7, <1>8, <1>9, <1>10

(***************************************************************************)
(* What the report says of a target: the outcome its last turn left, and   *)
(* all the evidence of its turns.                                          *)
(***************************************************************************)
SaysOf(summary, list, t) ==
    /\ summary.target = t
    /\ summary.score \in -1..100
    /\ \A k \in DOMAIN list : list[k].root = t =>
          /\ ToSet(list[k].evaluation.evidence) \subseteq ToSet(summary.evidence)
          /\ (\A j \in DOMAIN list : j > k => list[j].root # t)
               => summary.score = list[k].evaluation.score

\* A summary has the last turn's score and all the turns' texts.
LEMMA SummaryOf ==
    ASSUME NEW targets, NEW list \in Seq(Turn(targets)), NEW t \in Roots(list)
    PROVE  SaysOf(Summary(list, t), list, t)
<1> DEFINE own == TurnsOf(list, t)
           last == Last(own)
           summary == Summary(list, t)
           evidences == [k \in DOMAIN own |-> own[k].evaluation.evidence]
<1>1. /\ summary.target = t
      /\ summary.score = last.evaluation.score
      /\ summary.evidence = FlattenUnique(evidences)
  BY DEF Summary
<1>2. /\ own \in Seq(Turn(targets))
      /\ Items(own) = {list[p] : p \in {k \in DOMAIN list : list[k].root = t}}
      /\ \E p \in DOMAIN list : /\ list[p].root = t
                                /\ last = list[p]
                                /\ \A q \in DOMAIN list : list[q].root = t => q <= p
  <2> DEFINE X == Turn(targets)
  <2>1. list \in Seq(X)
    OBVIOUS
  <2> HIDE DEF X
  <2>2. /\ own \in Seq(X)
        /\ Items(own) = {list[p] : p \in {k \in DOMAIN list : list[k].root = t}}
        /\ \E p \in DOMAIN list : /\ list[p].root = t
                                  /\ last = list[p]
                                  /\ \A q \in DOMAIN list : list[q].root = t => q <= p
    BY <2>1, LastOwnTurn
  <2> QED BY <2>2 DEF X
<1> HIDE DEF own, last, summary
<1>3. \A turn \in Turn(targets) : turn.evaluation.score \in -1..100
                                  /\ turn.evaluation.evidence \in Seq(Texts)
  <2>1. \A turn \in Turn(targets) : turn.evaluation \in Recorded
    BY DEF Turn
  <2>2. \A e \in Recorded : e.score \in -1..100 /\ e.evidence \in Seq(Texts)
    BY DEF Recorded
  <2> QED BY <2>1, <2>2
<1>4. \A k \in DOMAIN list : list[k] \in Turn(targets) /\ k \in Int
  OBVIOUS
<1>5. evidences \in Seq(Seq(Texts)) /\ DOMAIN evidences = DOMAIN own
  <2>1. DOMAIN own = 1..Len(own) /\ Len(own) \in Nat /\ \A k \in 1..Len(own) : own[k] \in Turn(targets)
    BY <1>2
  <2> DEFINE V == Seq(Texts)
  <2>2. \A k \in 1..Len(own) : own[k].evaluation.evidence \in V
    BY <1>3, <2>1
  <2> HIDE DEF V
  <2>3. evidences \in [1..Len(own) -> V]
    BY <2>1, <2>2
  <2> HIDE DEF evidences
  <2>4. evidences \in Seq(V) /\ DOMAIN evidences = 1..Len(own)
    BY <2>1, <2>3, ListOf
  <2> QED BY <2>1, <2>4 DEF V
<1>6. \A k \in DOMAIN own : evidences[k] = own[k].evaluation.evidence
  OBVIOUS
<1> HIDE DEF evidences
<1>7. Items(summary.evidence) = UNION {Items(evidences[k]) : k \in DOMAIN evidences}
  BY <1>1, <1>5, UniqueItems
<1>8. ASSUME NEW k \in DOMAIN list, list[k].root = t
      PROVE  Items(list[k].evaluation.evidence) \subseteq Items(summary.evidence)
  <2>1. list[k] \in Items(own)
    BY <1>2, <1>8
  <2>2. PICK i \in DOMAIN own : own[i] = list[k]
    BY <2>1 DEF Items
  <2>3. evidences[i] = list[k].evaluation.evidence /\ i \in DOMAIN evidences
    BY <1>5, <1>6, <2>2
  <2> QED BY <1>7, <2>3
<1>9. ASSUME NEW k \in DOMAIN list, list[k].root = t,
             \A j \in DOMAIN list : j > k => list[j].root # t
      PROVE  last = list[k]
  <2>1. PICK p \in DOMAIN list : /\ list[p].root = t /\ last = list[p]
                                 /\ \A q \in DOMAIN list : list[q].root = t => q <= p
    BY <1>2
  <2>2. k <= p /\ ~(p > k)
    BY <1>9, <2>1
  <2>3. p = k
    BY <1>4, <2>2
  <2> QED BY <2>1, <2>3
<1>10. summary.score \in -1..100
  BY <1>1, <1>2, <1>3, <1>4
<1>11. \A x : Items(x) = ToSet(x)
  BY DEF Items, ToSet
<1> QED BY <1>1, <1>8, <1>9, <1>10, <1>11 DEF SaysOf, summary
Summaries(list) == {Summary(list, t) : t \in Roots(list)}

\* Every target with a turn has its summary in the report, and there is no other.
LEMMA SummariesAre ==
    ASSUME NEW targets, NEW list \in Seq(Turn(targets))
    PROVE  /\ QuestionEvaluations(targets, list) \in Seq(Summaries(list))
           /\ \A t \in Roots(list) : \E k \in DOMAIN QuestionEvaluations(targets, list) :
                 QuestionEvaluations(targets, list)[k] = Summary(list, t)
<1> DEFINE firsts == [k \in DOMAIN list |-> <<list[k].root>>]
           roots == FlattenUnique(firsts)
           P == {k \in DOMAIN roots : roots[k] \in DOMAIN targets}
           known == Sublist(roots, P)
           S == [k \in DOMAIN known |-> Summary(list, known[k])]
           D == DOMAIN targets
<1>1. QuestionEvaluations(targets, list) = S
  BY DEF QuestionEvaluations
<1>2. DOMAIN list = 1..Len(list) /\ Len(list) \in Nat /\ \A k \in 1..Len(list) : list[k] \in Turn(targets)
  OBVIOUS
<1>3. \A k \in 1..Len(list) : list[k].root \in D
  <2>1. \A turn \in Turn(targets) : turn.root \in D
    BY DEF Turn
  <2> QED BY <1>2, <2>1
<1>4. firsts \in Seq(Seq(D)) /\ DOMAIN firsts = 1..Len(list)
  <2> DEFINE V == Seq(D)
  <2> HIDE DEF D
  <2>1. \A k \in 1..Len(list) : <<list[k].root>> \in V
    BY <1>3, SingletonList
  <2> HIDE DEF V
  <2>2. firsts \in [1..Len(list) -> V]
    BY <1>2, <2>1
  <2> HIDE DEF firsts
  <2>3. firsts \in Seq(V) /\ DOMAIN firsts = 1..Len(list)
    BY <1>2, <2>2, ListOf
  <2> QED BY <2>3 DEF V
<1>5. \A k \in 1..Len(list) : firsts[k] = <<list[k].root>>
  BY <1>2
<1>6. \A k \in 1..Len(list) : Items(firsts[k]) = {list[k].root}
  <2>1. \A x : Items(<<x>>) = {x}
    BY DEF Items
  <2> HIDE DEF firsts
  <2> QED BY <1>5, <2>1
<1> HIDE DEF firsts, D
<1>7. roots \in Seq(D) /\ Items(roots) = UNION {Items(firsts[k]) : k \in DOMAIN firsts}
  BY <1>4, UniqueItems
<1>8. Items(roots) = Roots(list)
  BY <1>2, <1>4, <1>6, <1>7 DEF Roots
<1> HIDE DEF roots
<1>9. \A k \in DOMAIN roots : roots[k] \in D
  BY <1>7
<1>10. P = DOMAIN roots
  BY <1>9 DEF D
<1> HIDE DEF P
<1>11. known \in Seq(D) /\ Items(known) = {roots[p] : p \in DOMAIN roots}
  BY <1>7, <1>10, SublistTakes
<1> HIDE DEF known
<1>12. Items(known) = Roots(list)
  BY <1>8, <1>11 DEF Items
<1>13. DOMAIN known = 1..Len(known) /\ Len(known) \in Nat
  BY <1>11
<1>14. \A k \in 1..Len(known) : known[k] \in Roots(list)
  BY <1>12, <1>13 DEF Items
<1>15. S \in Seq(Summaries(list)) /\ DOMAIN S = 1..Len(known)
  <2>1. \A k \in 1..Len(known) : Summary(list, known[k]) \in Summaries(list)
    BY <1>14 DEF Summaries
  <2>2. S \in [1..Len(known) -> Summaries(list)]
    BY <1>13, <2>1
  <2> HIDE DEF S
  <2> QED BY <1>13, <2>2, ListOf
<1>16. ASSUME NEW t \in Roots(list) PROVE \E k \in DOMAIN S : S[k] = Summary(list, t)
  <2>1. PICK k \in DOMAIN known : known[k] = t
    BY <1>12 DEF Items
  <2>2. S[k] = Summary(list, t)
    BY <2>1
  <2> HIDE DEF S
  <2> QED BY <1>13, <1>15, <2>1, <2>2
<1> HIDE DEF S
<1> QED BY <1>1, <1>15, <1>16

(***************************************************************************)
(* Python's sorted rearranges.                                             *)
(***************************************************************************)
LEMMA StableSortRearranges ==
    ASSUME NEW X, NEW s \in Seq(X), NEW keys \in [DOMAIN s -> Int]
    PROVE  StableSort(s, keys) \in Seq(X) /\ Items(StableSort(s, keys)) = Items(s)
<1> DEFINE n == Len(s)
           R == {p \in (DOMAIN keys) \X (DOMAIN keys) :
                   keys[p[1]] < keys[p[2]] \/ (keys[p[1]] = keys[p[2]] /\ p[1] < p[2])}
           o == OrderedBy(1..n, R)
           w == [k \in DOMAIN o |-> s[o[k]]]
<1>1. n \in Nat /\ DOMAIN s = 1..n /\ DOMAIN keys = 1..n /\ \A k \in 1..n : keys[k] \in Int /\ k \in Int
  OBVIOUS
<1>2. StableSort(s, keys) = w
  BY <1>1 DEF StableSort
<1>3. \A j, k \in 1..n : <<j, k>> \in R <=>
         keys[j] < keys[k] \/ (keys[j] = keys[k] /\ j < k)
  BY <1>1
<1> HIDE DEF R
<1>4. /\ \A x \in 1..n : <<x, x>> \notin R
      /\ \A x, y, z \in 1..n : <<x, y>> \in R /\ <<y, z>> \in R => <<x, z>> \in R
      /\ \A x, y \in 1..n : x # y => <<x, y>> \in R \/ <<y, x>> \in R
  <2> HIDE DEF n
  <2> QED BY <1>1, <1>3
<1>5. IsFiniteSet(1..n) /\ Cardinality(1..n) = n
  <2>1. n \in Int
    BY <1>1
  <2>2. IsFiniteSet(1..n) /\ Cardinality(1..n) = IF 1 > n THEN 0 ELSE n - 1 + 1
    BY <2>1, FS_Interval
  <2> QED BY <1>1, <2>2
<1> HIDE DEF n
<1>6. o \in [1..n -> 1..n] /\ \A x \in 1..n : \E r \in 1..n : o[r] = x
  <2>1. /\ o \in [1..Cardinality(1..n) -> 1..n]
        /\ \A x \in 1..n : \E r \in 1..Cardinality(1..n) : o[r] = x
    BY <1>4, <1>5, OrderedByEnumerates
  <2> HIDE DEF o
  <2> QED BY <1>5, <2>1
<1> HIDE DEF o
<1>7. \A k \in 1..n : s[k] \in X
  BY DEF n
<1>8. w \in [1..n -> X] /\ \A k \in 1..n : w[k] = s[o[k]]
  BY <1>6, <1>7
<1> HIDE DEF w
<1>9. w \in Seq(X) /\ DOMAIN w = 1..n
  BY <1>1, <1>8, ListOf
<1>10. Items(w) = Items(s)
  <2>1. \A k \in 1..n : w[k] \in Items(s)
    BY <1>1, <1>6, <1>8 DEF Items
  <2>2. ASSUME NEW k \in 1..n PROVE s[k] \in Items(w)
    <3>1. PICK r \in 1..n : o[r] = k
      BY <1>6
    <3>2. w[r] = s[k]
      BY <1>8, <3>1
    <3> QED BY <1>9, <3>2 DEF Items
  <2>3. Items(w) \subseteq Items(s)
    BY <1>9, <2>1 DEF Items
  <2>4. Items(s) \subseteq Items(w)
    BY <1>1, <2>2 DEF Items
  <2> QED BY <2>3, <2>4
<1> QED BY <1>2, <1>9, <1>10

\* The first n of a list.
LEMMA UptoItems ==
    ASSUME NEW X, NEW s \in Seq(X), NEW n \in Nat
    PROVE  /\ Upto(s, n) \in Seq(X)
           /\ Len(Upto(s, n)) = IF n <= Len(s) THEN n ELSE Len(s)
           /\ \A k \in 1..Len(Upto(s, n)) : Upto(s, n)[k] = s[k]
<1>1. Upto(s, n) = First(s, n)
  BY DEF Upto, First
<1>2. /\ First(s, n) \in Seq(X)
      /\ Len(First(s, n)) = Min({n, Len(s)})
      /\ \A k \in 1..Min({n, Len(s)}) : First(s, n)[k] = s[k]
  BY FirstItems
<1>3. Min({n, Len(s)}) = IF n <= Len(s) THEN n ELSE Len(s)
  BY Least2
<1> DEFINE w == First(s, n)
           m == Min({n, Len(s)})
<1> HIDE DEF w, m
<1>4. w \in Seq(X) /\ Len(w) = m /\ \A k \in 1..Len(w) : w[k] = s[k]
  BY <1>2 DEF w, m
<1> QED BY <1>1, <1>3, <1>4 DEF w, m

\* Every strength a score can have is ranked.
LEMMA StrengthRanks ==
    ASSUME NEW score \in -1..100
    PROVE  ExploreRank[Strength(score)] \in Int
<1>1. Strength(score) \in {"not_assessed", "insufficient", "limited", "moderate", "strong"}
  BY DEF Strength
<1>2. \A x \in {"not_assessed", "insufficient", "limited", "moderate", "strong"} : ExploreRank[x] \in Int
  BY DEF ExploreRank
<1> QED BY <1>1, <1>2

\* A target whose evidence is missing or insufficient is among the areas to explore,
\* unless as many as are listed came before it.
LEMMA WeakAreExplored ==
    ASSUME NEW X, \A x \in X : x.score \in -1..100, NEW s \in Seq(X), NEW k \in DOMAIN s,
           Strength(s[k].score) \in {"not_assessed", "insufficient"}
    PROVE  \/ \E j \in DOMAIN BuildAreasToExplore(s) : BuildAreasToExplore(s)[j][1] = s[k].target
           \/ Len(BuildAreasToExplore(s)) = ListLimit
<1> DEFINE keys == [i \in DOMAIN s |-> ExploreRank[Strength(s[i].score)]]
           ranked == StableSort(s, keys)
           P == {i \in DOMAIN ranked : \/ ranked[i].weaknesses # <<>>
                                       \/ Strength(ranked[i].score) \in {"insufficient", "not_assessed"}}
           open == Sublist(ranked, P)
           note(x) == IF x.weaknesses # <<>> THEN x.weaknesses[1] ELSE x.type
           notes == [i \in DOMAIN open |-> <<open[i].target, note(open[i])>>]
           areas == BuildAreasToExplore(s)
<1>1. areas = Upto(notes, ListLimit)
  BY DEF BuildAreasToExplore
<1>2. keys \in [DOMAIN s -> Int]
  <2>1. \A i \in DOMAIN s : s[i].score \in -1..100
    OBVIOUS
  <2> QED BY <2>1, StrengthRanks
<1> HIDE DEF keys, areas
<1>3. ranked \in Seq(X) /\ Items(ranked) = Items(s)
  BY <1>2, StableSortRearranges
<1> HIDE DEF ranked
<1>4. PICK i \in DOMAIN ranked : ranked[i] = s[k]
  <2>1. s[k] \in Items(ranked)
    BY <1>3 DEF Items
  <2> QED BY <2>1 DEF Items
<1>5. i \in P
  BY <1>4
<1>6. P \in SUBSET (DOMAIN ranked)
  OBVIOUS
<1> HIDE DEF P
<1>7. open \in Seq(X) /\ Items(open) = {ranked[p] : p \in P}
  BY <1>3, <1>6, SublistTakes
<1> HIDE DEF open
<1>8. PICK j \in DOMAIN open : open[j] = s[k]
  <2>1. s[k] \in Items(open)
    BY <1>4, <1>5, <1>7
  <2> QED BY <2>1 DEF Items
<1>9. DOMAIN open = 1..Len(open) /\ Len(open) \in Nat
  BY <1>7
<1> DEFINE Y == {notes[l] : l \in DOMAIN open}
<1>10. notes \in [1..Len(open) -> Y] /\ notes[j][1] = s[k].target
  BY <1>8, <1>9
<1> HIDE DEF notes, Y
<1>11. notes \in Seq(Y) /\ Len(notes) = Len(open)
  BY <1>9, <1>10, ListOf
<1>12. /\ areas \in Seq(Y)
       /\ Len(areas) = IF ListLimit <= Len(notes) THEN ListLimit ELSE Len(notes)
       /\ \A l \in 1..Len(areas) : areas[l] = notes[l]
  BY <1>1, <1>11, UptoItems, ListLimitAssumption
<1>13. CASE ListLimit <= Len(notes)
  BY <1>12, <1>13 DEF areas
<1>14. CASE ~(ListLimit <= Len(notes))
  <2>1. j \in 1..Len(areas) /\ DOMAIN areas = 1..Len(areas)
    BY <1>8, <1>9, <1>11, <1>12, <1>14
  <2>2. areas[j][1] = s[k].target
    BY <1>10, <1>12, <2>1
  <2> QED BY <2>1, <2>2 DEF areas
<1> QED BY <1>13, <1>14

-----------------------------------------------------------------------------
(***************************************************************************)
(* The overall score: sums between the bounds of their terms, and a mean   *)
(* of means between the bounds of the scores.                              *)
(***************************************************************************)

\* A sum of naturals is a natural, and lies between as many times their bounds.
LEMMA TotalBetween ==
    ASSUME NEW s \in Seq(Nat), NEW lo \in Nat, NEW hi \in Nat
    PROVE  /\ Total(s) \in Nat
           /\ (\A k \in DOMAIN s : lo <= s[k] /\ s[k] <= hi)
                => lo * Len(s) <= Total(s) /\ Total(s) <= hi * Len(s)
<1> DEFINE n == Len(s)
           Sums(f) == f = [k \in 0..n |-> IF k = 0 THEN 0 ELSE f[k - 1] + s[k]]
           sum == CHOOSE f : Sums(f)
           Bounded == \A k \in DOMAIN s : lo <= s[k] /\ s[k] <= hi
<1>1. n \in Nat /\ DOMAIN s = 1..n /\ \A k \in 1..n : s[k] \in Nat
  OBVIOUS
<1>2. Total(s) = sum[n]
  BY DEF Total
<1> HIDE DEF n
<1>3. \E f : Sums(f)
  <2> DEFINE step == [p \in Nat \X (1..n) |-> p[1] + s[p[2]]]
  <2>1. step \in [Pairs(Nat, n) -> Nat]
    BY <1>1 DEF Pairs
  <2>2. \A v \in Nat, k \in 1..n : step[<<v, k>>] = v + s[k]
    OBVIOUS
  <2> HIDE DEF step
  <2>3. PICK f : Follows(f, Nat, 0, n, step)
    <3> DEFINE V == Nat
               none == 0
    <3>1. none \in V /\ step \in [Pairs(V, n) -> V]
      BY <2>1
    <3> HIDE DEF V, none
    <3>2. \E f : Follows(f, V, none, n, step)
      BY <1>1, <3>1, Recursion
    <3> QED BY <3>2 DEF V, none
  <2>4. \A k \in 1..n : f[k - 1] \in Nat /\ f[k] = f[k - 1] + s[k]
    <3>1. \A k \in 1..n : k - 1 \in 0..n
      BY <1>1
    <3> QED BY <2>2, <2>3, <3>1 DEF Follows
  <2>5. f = [k \in 0..n |-> f[k]] /\ f[0] = 0
    BY <2>3 DEF Follows
  <2>6. \A k \in 0..n : f[k] = IF k = 0 THEN 0 ELSE f[k - 1] + s[k]
    <3>1. \A k \in 0..n : k # 0 => k \in 1..n
      BY <1>1
    <3> QED BY <2>4, <2>5, <3>1
  <2>7. Sums(f)
    BY <2>5, <2>6
  <2> HIDE DEF Sums
  <2> QED BY <2>7
<1>4. Sums(sum)
  <2> HIDE DEF Sums
  <2> QED BY <1>3
<1>5. sum[0] = 0 /\ \A k \in 0..n : k # 0 => sum[k] = sum[k - 1] + s[k]
  <2> HIDE DEF sum
  <2> QED BY <1>1, <1>4
<1> HIDE DEF sum, Sums
<1> DEFINE T == {k \in Nat : k <= n => /\ sum[k] \in Nat
                                       /\ Bounded => lo * k <= sum[k] /\ sum[k] <= hi * k}
<1>6. 0 \in T
  BY <1>1, <1>5
<1>7. ASSUME NEW k \in T PROVE k + 1 \in T
  <2>0. k \in Nat
    OBVIOUS
  <2> SUFFICES ASSUME k + 1 <= n
               PROVE  /\ sum[k + 1] \in Nat
                      /\ Bounded => lo * (k + 1) <= sum[k + 1] /\ sum[k + 1] <= hi * (k + 1)
    OBVIOUS
  <2>1. sum[k] \in Nat /\ (Bounded => lo * k <= sum[k] /\ sum[k] <= hi * k)
    BY <1>1, <2>0
  <2>2. k + 1 \in 1..n /\ k + 1 \in 0..n /\ k + 1 # 0 /\ (k + 1) - 1 = k
    BY <1>1, <2>0
  <2>3. sum[k + 1] = sum[k] + s[k + 1] /\ s[k + 1] \in Nat
    BY <1>1, <1>5, <2>2
  <2>4. Bounded => lo <= s[k + 1] /\ s[k + 1] <= hi
    BY <1>1, <2>2
  <2>5. lo * (k + 1) = lo * k + lo /\ hi * (k + 1) = hi * k + hi
    BY <2>0
  <2>6. lo * k \in Int /\ hi * k \in Int
    BY <2>0
  <2>7. sum[k + 1] \in Nat
    BY <2>1, <2>3
  <2>8. ASSUME Bounded PROVE lo * (k + 1) <= sum[k + 1] /\ sum[k + 1] <= hi * (k + 1)
    <3>1. lo * k <= sum[k] /\ sum[k] <= hi * k /\ lo <= s[k + 1] /\ s[k + 1] <= hi
      BY <2>1, <2>4, <2>8
    <3> DEFINE a == lo * k
               b == hi * k
    <3> HIDE DEF a, b
    <3>2. /\ a \in Int /\ b \in Int /\ a <= sum[k] /\ sum[k] <= b /\ sum[k] \in Nat
          /\ lo <= s[k + 1] /\ s[k + 1] <= hi
      BY <2>1, <2>6, <3>1 DEF a, b
    <3>3. a + lo <= sum[k + 1] /\ sum[k + 1] <= b + hi
      BY <2>3, <3>2, SMTT(60)
    <3>4. lo * (k + 1) = a + lo /\ hi * (k + 1) = b + hi
      BY <2>5 DEF a, b
    <3> DEFINE a1 == lo * (k + 1)
               b1 == hi * (k + 1)
    <3> HIDE DEF a1, b1
    <3>5. a1 = a + lo /\ b1 = b + hi
      BY <3>4 DEF a1, b1
    <3>6. a1 <= sum[k + 1] /\ sum[k + 1] <= b1
      BY <3>3, <3>5
    <3> QED BY <3>6 DEF a1, b1
  <2> HIDE DEF Bounded
  <2> QED BY <2>7, <2>8
<1>8. T = Nat
  <2>1. T \in SUBSET Nat
    OBVIOUS
  <2> HIDE DEF T
  <2> QED BY <1>6, <1>7, <2>1, SetInduction
<1>9. n \in T
  <2> HIDE DEF T
  <2> QED BY <1>1, <1>8
<1>10. sum[n] \in Nat /\ (Bounded => lo * n <= sum[n] /\ sum[n] <= hi * n)
  BY <1>1, <1>9
<1> QED BY <1>2, <1>10 DEF n

\* A sum of bounded scores is as many times between their bounds.
LEMMA SumBetween ==
    ASSUME NEW X, NEW s \in Seq(X), NEW lo \in Nat, NEW hi \in Nat,
           \A x \in X : x.score \in Int /\ lo <= x.score /\ x.score <= hi
    PROVE  SumOfScores(s) \in Int /\ lo * Len(s) <= SumOfScores(s) /\ SumOfScores(s) <= hi * Len(s)
<1> DEFINE n == Len(s)
           scores == [k \in DOMAIN s |-> s[k].score]
<1>1. n \in Nat /\ DOMAIN s = 1..n /\ \A k \in 1..n : /\ s[k].score \in Nat
                                                       /\ lo <= s[k].score /\ s[k].score <= hi
  OBVIOUS
<1>2. SumOfScores(s) = Total(scores)
  BY DEF SumOfScores
<1> HIDE DEF n
<1>3. scores \in Seq(Nat) /\ Len(scores) = n /\ \A k \in DOMAIN scores : lo <= scores[k] /\ scores[k] <= hi
  BY <1>1
<1> HIDE DEF scores
<1>4. Total(scores) \in Nat /\ lo * n <= Total(scores) /\ Total(scores) <= hi * n
  BY <1>3, TotalBetween
<1> QED BY <1>2, <1>4 DEF n

\* The percentage of a weighted mean, rounded half up, lies between those of its bounds.
LEMMA Rounded ==
    ASSUME NEW lo \in Nat, NEW hi \in Nat, NEW sum \in Nat, NEW weights \in Nat, weights > 0,
           lo * weights <= sum, sum <= hi * weights
    PROVE  (200 * sum + weights) \div (2 * weights) \in 100 * lo..100 * hi
<1> DEFINE a == 200 * sum + weights
           b == 2 * weights
           q == a \div b
<1>1. a \in Nat /\ b \in Nat /\ b > 0
  OBVIOUS
<1> DEFINE lw == lo * weights
           hw == hi * weights
<1>2. lw \in Nat /\ hw \in Nat /\ lw <= sum /\ sum <= hw
  OBVIOUS
<1>3. (100 * lo) * b = 200 * lw /\ (100 * hi) * b = 200 * hw
  OBVIOUS
<1>4. (100 * lo) * b <= a /\ a < (100 * hi) * b + b
  <2> HIDE DEF lw, hw
  <2> QED BY <1>2, <1>3
<1> HIDE DEF a, b, lw, hw
<1>5. q \in Int /\ q * b <= a /\ a < q * b + b
  BY <1>1
<1> HIDE DEF q
<1>6. 100 * lo <= q
  <2> SUFFICES ASSUME q + 1 <= 100 * lo PROVE FALSE
    BY <1>5
  <2>1. (q + 1) * b <= (100 * lo) * b
    BY <1>1, <1>5
  <2>2. (q + 1) * b = q * b + b
    BY <1>1, <1>5
  <2> QED BY <1>1, <1>4, <1>5, <2>1, <2>2
<1>7. q <= 100 * hi
  <2> SUFFICES ASSUME 100 * hi + 1 <= q PROVE FALSE
    BY <1>5
  <2>1. (100 * hi + 1) * b <= q * b
    BY <1>1, <1>5
  <2>2. (100 * hi + 1) * b = (100 * hi) * b + b
    BY <1>1
  <2> QED BY <1>1, <1>4, <1>5, <2>1, <2>2
<1>8. 100 * lo \in Int /\ 100 * hi \in Int
  OBVIOUS
<1> QED BY <1>5, <1>6, <1>7, <1>8 DEF q, a, b

\* One category's part of the weighted sum, over a common denominator,
LEMMA WeightedPart ==
    ASSUME NEW lo \in Nat, NEW hi \in Nat, NEW w \in Nat, NEW len \in Nat, NEW n \in Nat,
           NEW others \in Nat, NEW sum \in Int,
           w = 0 \/ n = len, lo * len <= sum, sum <= hi * len
    PROVE  /\ w * sum * others \in Nat
           /\ lo * (w * (n * others)) <= w * sum * others
           /\ w * sum * others <= hi * (w * (n * others))
<1>0. lo * len \in Nat /\ hi * len \in Nat /\ sum \in Nat
  OBVIOUS
<1>1. CASE w = 0
  <2>1. w * sum * others = 0 /\ lo * (w * (n * others)) = 0 /\ hi * (w * (n * others)) = 0
    BY <1>1
  <2> QED BY <2>1
<1>2. CASE n = len
  <2> DEFINE m == w * others
  <2>1. m \in Nat
    OBVIOUS
  <2>2. w * sum * others = m * sum
    BY <1>0
  <2>3. lo * (w * (n * others)) = m * (lo * len) /\ hi * (w * (n * others)) = m * (hi * len)
    BY <1>2
  <2> DEFINE a == lo * len
             b == hi * len
  <2>4. a \in Nat /\ b \in Nat /\ a <= sum /\ sum <= b
    BY <1>0
  <2> HIDE DEF m, a, b
  <2>5. m * a <= m * sum /\ m * sum <= m * b /\ m * sum \in Nat
    BY <1>0, <2>1, <2>4
  <2> QED BY <2>2, <2>3, <2>5 DEF a, b
<1> QED BY <1>1, <1>2

\* and the weights of the three, over the same.
LEMMA ThreeParts ==
    ASSUME NEW w1 \in Nat, NEW w2 \in Nat, NEW w3 \in Nat,
           NEW n1 \in Nat, NEW n2 \in Nat, NEW n3 \in Nat
    PROVE  (w1 + w2 + w3) * (n1 * n2 * n3)
             = w1 * (n1 * (n2 * n3)) + w2 * (n2 * (n1 * n3)) + w3 * (n3 * (n1 * n2))
<1> DEFINE n == n1 * n2 * n3
<1>1. n \in Nat
  OBVIOUS
<1>2. n1 * (n2 * n3) = n /\ n2 * (n1 * n3) = n /\ n3 * (n1 * n2) = n
  OBVIOUS
<1> HIDE DEF n
<1>3. (w1 + w2 + w3) * n = w1 * n + w2 * n + w3 * n
  BY <1>1
<1> QED BY <1>2, <1>3 DEF n

\* The scores of a category: there are some exactly if a target of it was scored, and their
\* sum lies between as many times their bounds.
LEMMA ScoresInCategory ==
    ASSUME NEW X, NEW s \in Seq(X), NEW targets, NEW c, NEW lo \in Nat, NEW hi \in Nat,
           \A x \in X : x.score \in Int,
           \A k \in DOMAIN s : Scored(s[k]) => lo <= s[k].score /\ s[k].score <= hi
    PROVE  LET scored == ScoresIn(targets, s, c)
           IN  /\ Len(scored) \in Nat
               /\ scored = <<>> <=> Len(scored) = 0
               /\ Len(scored) > 0 <=> \E k \in DOMAIN s : Scored(s[k]) /\ targets[s[k].target].category = c
               /\ SumOfScores(scored) \in Int
               /\ lo * Len(scored) <= SumOfScores(scored)
               /\ SumOfScores(scored) <= hi * Len(scored)
<1> DEFINE P == {k \in DOMAIN s : Scored(s[k]) /\ targets[s[k].target].category = c}
           w == Sublist(s, P)
           Y == Items(w)
<1>1. ScoresIn(targets, s, c) = w
  BY DEF ScoresIn
<1>2. P \in SUBSET (DOMAIN s)
  OBVIOUS
<1>3. w \in Seq(X) /\ Items(w) = {s[p] : p \in P}
  <2> HIDE DEF P
  <2> QED BY <1>2, SublistTakes
<1>4. \A x \in {s[p] : p \in P} : x.score \in Int /\ lo <= x.score /\ x.score <= hi
  <2>1. \A p \in P : s[p].score \in Int /\ lo <= s[p].score /\ s[p].score <= hi
    <3>1. \A p \in P : s[p] \in X /\ Scored(s[p])
      OBVIOUS
    <3> QED BY <3>1
  <2> HIDE DEF P
  <2> QED BY <2>1
<1> HIDE DEF P, w
<1>5. w \in Seq(Y) /\ Len(w) \in Nat
  <2>1. DOMAIN w = 1..Len(w) /\ Len(w) \in Nat
    BY <1>3
  <2>2. \A k \in 1..Len(w) : w[k] \in Y
    BY <2>1 DEF Items
  <2>3. w = [k \in 1..Len(w) |-> w[k]]
    BY <1>3, <2>1
  <2>4. w \in [1..Len(w) -> Y]
    BY <2>2, <2>3
  <2> QED BY <2>1, <2>4
<1>6. \A x \in Y : x.score \in Int /\ lo <= x.score /\ x.score <= hi
  BY <1>3, <1>4
<1> HIDE DEF Y
<1>7. SumOfScores(w) \in Int /\ lo * Len(w) <= SumOfScores(w) /\ SumOfScores(w) <= hi * Len(w)
  BY <1>5, <1>6, SumBetween
<1>8. Len(w) > 0 <=> \E k \in DOMAIN s : Scored(s[k]) /\ targets[s[k].target].category = c
  <2>1. Len(w) > 0 <=> Items(w) # {}
    <3>1. DOMAIN w = 1..Len(w) /\ Len(w) \in Nat
      BY <1>3
    <3>2. Len(w) > 0 => 1 \in DOMAIN w
      BY <3>1
    <3>3. \A k \in DOMAIN w : Len(w) > 0
      BY <3>1
    <3> QED BY <3>2, <3>3 DEF Items
  <2>2. P # {} <=> \E k \in DOMAIN s : Scored(s[k]) /\ targets[s[k].target].category = c
    BY DEF P
  <2> QED BY <1>3, <2>1, <2>2
<1>9. w = <<>> <=> Len(w) = 0
  BY <1>3
<1> QED BY <1>1, <1>5, <1>7, <1>8, <1>9

(***************************************************************************)
(* compute_overall_score lies between any bounds of the scores it is made  *)
(* of, and is 0 only where there is none.                                  *)
(***************************************************************************)
LEMMA OverallBetween ==
    ASSUME NEW targets \in Seq(Target),
           NEW X, \A x \in X : x.score \in Int /\ x.target \in DOMAIN targets,
           NEW s \in Seq(X), NEW lo \in Nat, NEW hi \in Nat,
           \A k \in DOMAIN s : Scored(s[k]) => lo <= s[k].score /\ s[k].score <= hi
    PROVE  IF \A k \in DOMAIN s : ~Scored(s[k])
           THEN OverallScore(targets, s) = 0
           ELSE OverallScore(targets, s) \in 100 * lo..100 * hi
<1> DEFINE scored(c) == ScoresIn(targets, s, c)
           weight(c) == IF scored(c) = <<>> THEN 0 ELSE CategoryWeight[c]
           count(c) == Max({1, Len(scored(c))})
           total(c) == SumOfScores(scored(c))
           w1 == weight("competency")
           w2 == weight("technology")
           w3 == weight("task")
           n1 == count("competency")
           n2 == count("technology")
           n3 == count("task")
           p1 == w1 * total("competency") * (n2 * n3)
           p2 == w2 * total("technology") * (n1 * n3)
           p3 == w3 * total("task") * (n1 * n2)
           sum == p1 + p2 + p3
           weights == (w1 + w2 + w3) * (n1 * n2 * n3)
<1>1. OverallScore(targets, s) = IF weights = 0 THEN 0 ELSE (200 * sum + weights) \div (2 * weights)
  BY DEF OverallScore
<1>2. \A c \in Categories :
        /\ weight(c) \in Nat /\ count(c) \in Nat /\ count(c) > 0
        /\ weight(c) = 0 \/ count(c) = Len(scored(c))
        /\ weight(c) > 0 <=> \E k \in DOMAIN s : Scored(s[k]) /\ targets[s[k].target].category = c
        /\ Len(scored(c)) \in Nat /\ total(c) \in Int
        /\ lo * Len(scored(c)) <= total(c) /\ total(c) <= hi * Len(scored(c))
  <2> SUFFICES ASSUME NEW c \in Categories
      PROVE  /\ weight(c) \in Nat /\ count(c) \in Nat /\ count(c) > 0
             /\ weight(c) = 0 \/ count(c) = Len(scored(c))
             /\ weight(c) > 0 <=> \E k \in DOMAIN s : Scored(s[k]) /\ targets[s[k].target].category = c
             /\ Len(scored(c)) \in Nat /\ total(c) \in Int
             /\ lo * Len(scored(c)) <= total(c) /\ total(c) <= hi * Len(scored(c))
    OBVIOUS
  <2>1. /\ Len(scored(c)) \in Nat
        /\ scored(c) = <<>> <=> Len(scored(c)) = 0
        /\ Len(scored(c)) > 0 <=> \E k \in DOMAIN s : Scored(s[k]) /\ targets[s[k].target].category = c
        /\ total(c) \in Int
        /\ lo * Len(scored(c)) <= total(c)
        /\ total(c) <= hi * Len(scored(c))
    BY ScoresInCategory
  <2>2. CategoryWeight[c] \in Nat /\ CategoryWeight[c] > 0
    BY DEF CategoryWeight, Categories
  <2>3. count(c) = IF Len(scored(c)) = 0 THEN 1 ELSE Len(scored(c))
    <3> DEFINE m == Len(scored(c))
    <3>1. m \in Nat
      BY <2>1
    <3> HIDE DEF m
    <3>2. \E x \in {1, m} : \A y \in {1, m} : x >= y
      BY <3>1
    <3>3. Max({1, m}) \in {1, m} /\ \A y \in {1, m} : Max({1, m}) >= y
      BY <3>2 DEF Max
    <3>4. Max({1, m}) = IF m = 0 THEN 1 ELSE m
      BY <3>1, <3>3
    <3> QED BY <3>4 DEF m
  <2>4. weight(c) = IF Len(scored(c)) = 0 THEN 0 ELSE CategoryWeight[c]
    BY <2>1
  <2> HIDE DEF scored, weight, count, total
  <2> QED BY <2>1, <2>2, <2>3, <2>4
<1> HIDE DEF scored, weight, count, total
<1>3. "competency" \in Categories /\ "technology" \in Categories /\ "task" \in Categories
  BY DEF Categories
<1>4. /\ w1 \in Nat /\ w2 \in Nat /\ w3 \in Nat
      /\ n1 \in Nat /\ n2 \in Nat /\ n3 \in Nat /\ n1 > 0 /\ n2 > 0 /\ n3 > 0
  BY <1>2, <1>3
<1>5. /\ p1 \in Nat
      /\ lo * (w1 * (n1 * (n2 * n3))) <= p1 /\ p1 <= hi * (w1 * (n1 * (n2 * n3)))
  <2>1. n2 * n3 \in Nat
    BY <1>4
  <2> DEFINE others == n2 * n3
  <2> HIDE DEF others, w1, n1
  <2>2. /\ w1 * total("competency") * others \in Nat
        /\ lo * (w1 * (n1 * others)) <= w1 * total("competency") * others
        /\ w1 * total("competency") * others <= hi * (w1 * (n1 * others))
    BY <1>2, <1>3, <1>4, <2>1, WeightedPart DEF others, w1, n1
  <2> QED BY <2>2 DEF others
<1>6. /\ p2 \in Nat
      /\ lo * (w2 * (n2 * (n1 * n3))) <= p2 /\ p2 <= hi * (w2 * (n2 * (n1 * n3)))
  <2>1. n1 * n3 \in Nat
    BY <1>4
  <2> DEFINE others == n1 * n3
  <2> HIDE DEF others, w2, n2
  <2>2. /\ w2 * total("technology") * others \in Nat
        /\ lo * (w2 * (n2 * others)) <= w2 * total("technology") * others
        /\ w2 * total("technology") * others <= hi * (w2 * (n2 * others))
    BY <1>2, <1>3, <1>4, <2>1, WeightedPart DEF others, w2, n2
  <2> QED BY <2>2 DEF others
<1>7. /\ p3 \in Nat
      /\ lo * (w3 * (n3 * (n1 * n2))) <= p3 /\ p3 <= hi * (w3 * (n3 * (n1 * n2)))
  <2>1. n1 * n2 \in Nat
    BY <1>4
  <2> DEFINE others == n1 * n2
  <2> HIDE DEF others, w3, n3
  <2>2. /\ w3 * total("task") * others \in Nat
        /\ lo * (w3 * (n3 * others)) <= w3 * total("task") * others
        /\ w3 * total("task") * others <= hi * (w3 * (n3 * others))
    BY <1>2, <1>3, <1>4, <2>1, WeightedPart DEF others, w3, n3
  <2> QED BY <2>2 DEF others
<1>8. weights = w1 * (n1 * (n2 * n3)) + w2 * (n2 * (n1 * n3)) + w3 * (n3 * (n1 * n2))
  <2> HIDE DEF w1, w2, w3, n1, n2, n3
  <2> QED BY <1>4, ThreeParts
<1> DEFINE a == w1 * (n1 * (n2 * n3))
           b == w2 * (n2 * (n1 * n3))
           c == w3 * (n3 * (n1 * n2))
<1>9. a \in Nat /\ b \in Nat /\ c \in Nat
  <2> HIDE DEF w1, w2, w3, n1, n2, n3
  <2> QED BY <1>4
<1>12. weights = 0 <=> w1 = 0 /\ w2 = 0 /\ w3 = 0
  <2> DEFINE n == n1 * n2 * n3
             w == w1 + w2 + w3
  <2> HIDE DEF w1, w2, w3, n1, n2, n3
  <2>1. n \in Nat /\ n > 0
    <3>1. n1 * n2 \in Nat /\ n1 * n2 > 0
      BY <1>4
    <3> QED BY <1>4, <3>1
  <2>2. w \in Nat /\ (w = 0 <=> w1 = 0 /\ w2 = 0 /\ w3 = 0)
    BY <1>4
  <2>3. weights = w * n
    OBVIOUS
  <2> HIDE DEF w, n, weights
  <2>4. w * n = 0 <=> w = 0
    BY <2>1, <2>2
  <2> QED BY <2>2, <2>3, <2>4
<1>10. weights \in Nat /\ sum \in Nat /\ lo * weights <= sum /\ sum <= hi * weights
  <2>1. weights = a + b + c
    BY <1>8
  <2>2. /\ p1 \in Nat /\ lo * a <= p1 /\ p1 <= hi * a
        /\ p2 \in Nat /\ lo * b <= p2 /\ p2 <= hi * b
        /\ p3 \in Nat /\ lo * c <= p3 /\ p3 <= hi * c
    BY <1>5, <1>6, <1>7
  <2>3. sum = p1 + p2 + p3
    OBVIOUS
  <2> HIDE DEF a, b, c, p1, p2, p3, sum, weights
  <2>4. lo * (a + b + c) = lo * a + lo * b + lo * c /\ hi * (a + b + c) = hi * a + hi * b + hi * c
    BY <1>9
  <2>5. /\ lo * a \in Nat /\ lo * b \in Nat /\ lo * c \in Nat
        /\ hi * a \in Nat /\ hi * b \in Nat /\ hi * c \in Nat
    BY <1>9
  <2> QED BY <1>9, <2>1, <2>2, <2>3, <2>4, <2>5
<1>11. weights = 0 <=> \A k \in DOMAIN s : ~Scored(s[k])
  <2>1. \A k \in DOMAIN s : targets[s[k].target].category \in Categories
    <3>1. \A k \in DOMAIN s : s[k].target \in DOMAIN targets
      OBVIOUS
    <3>2. \A t \in DOMAIN targets : targets[t].category \in Categories
      <4>1. \A x \in Target : x.category \in Categories
        BY DEF Target
      <4> QED BY <4>1
    <3> QED BY <3>1, <3>2
  <2>2. /\ w1 > 0 <=> \E k \in DOMAIN s : Scored(s[k]) /\ targets[s[k].target].category = "competency"
        /\ w2 > 0 <=> \E k \in DOMAIN s : Scored(s[k]) /\ targets[s[k].target].category = "technology"
        /\ w3 > 0 <=> \E k \in DOMAIN s : Scored(s[k]) /\ targets[s[k].target].category = "task"
    BY <1>2, <1>3
  <2>3. /\ w1 = 0 <=> ~(w1 > 0)
        /\ w2 = 0 <=> ~(w2 > 0)
        /\ w3 = 0 <=> ~(w3 > 0)
    BY <1>4
  <2> HIDE DEF w1, w2, w3, weights
  <2> QED BY <1>12, <2>1, <2>2, <2>3 DEF Categories
<1> HIDE DEF weights, sum
<1>13. CASE weights = 0
  BY <1>1, <1>11, <1>13
<1>14. CASE weights # 0
  <2>1. (200 * sum + weights) \div (2 * weights) \in 100 * lo..100 * hi
    BY <1>10, <1>14, Rounded
  <2> QED BY <1>1, <1>11, <1>14, <2>1
<1> QED BY <1>13, <1>14
-----------------------------------------------------------------------------
(***************************************************************************)
(* The three parts of ReportAccountsForInterview.                          *)
(***************************************************************************)
LEMMA SummariesSay ==
    ASSUME LoopInv
    PROVE  LET S == QuestionEvaluations(Targets, turns)
           IN  /\ S \in Seq(Summaries(turns))
               /\ \A x \in Summaries(turns) :
                     x.target \in Roots(turns) /\ x.score \in -1..100 /\ SaysOf(x, turns, x.target)
               /\ \A t \in Roots(turns) : \E k \in DOMAIN S : S[k].target = t
               /\ Roots(turns) \subseteq DOMAIN Targets
<1> DEFINE S == QuestionEvaluations(Targets, turns)
<1>1. turns \in Seq(Turn(Targets))
  BY DEF LoopInv
<1>2. S \in Seq(Summaries(turns)) /\ \A t \in Roots(turns) : \E k \in DOMAIN S : S[k] = Summary(turns, t)
  BY <1>1, SummariesAre
<1> HIDE DEF S
<1>3. \A t \in Roots(turns) : SaysOf(Summary(turns, t), turns, t)
  BY <1>1, SummaryOf
<1>4. \A t \in Roots(turns) : Summary(turns, t).target = t /\ Summary(turns, t).score \in -1..100
  BY <1>3 DEF SaysOf
<1>5. \A x \in Summaries(turns) :
         x.target \in Roots(turns) /\ x.score \in -1..100 /\ SaysOf(x, turns, x.target)
  BY <1>3, <1>4 DEF Summaries
<1>6. \A t \in Roots(turns) : \E k \in DOMAIN S : S[k].target = t
  BY <1>2, <1>4
<1>7. \A k \in DOMAIN turns : turns[k].root \in DOMAIN Targets
  <2>1. \A turn \in Turn(Targets) : turn.root \in DOMAIN Targets
    BY DEF Turn
  <2>2. \A k \in DOMAIN turns : turns[k] \in Turn(Targets)
    BY <1>1
  <2> QED BY <2>1, <2>2
<1>8. Roots(turns) \subseteq DOMAIN Targets
  BY <1>7 DEF Roots
<1> QED BY <1>2, <1>5, <1>6, <1>8 DEF S

\* A required target of the plan is either summarised or listed as unassessed.
LEMMA RequiredAreAccountedFor ==
    ASSUME LoopInv, stage = "reported",
           report.competencies = QuestionEvaluations(Targets, turns),
           report.unassessed = UnassessedRequired(Targets, QuestionEvaluations(Targets, turns))
    PROVE  EveryRequiredAccountedFor
<1> DEFINE S == QuestionEvaluations(Targets, turns)
           U == {t \in DOMAIN Targets : /\ Targets[t].required
                                        /\ \A k \in DOMAIN S : S[k].target # t}
           reported == {S[k].target : k \in DOMAIN S}
           reached == {asked[k][1] : k \in DOMAIN asked} \cup assessed
<1>1. /\ S \in Seq(Summaries(turns))
      /\ \A x \in Summaries(turns) : x.target \in Roots(turns)
      /\ \A t \in Roots(turns) : \E k \in DOMAIN S : S[k].target = t
  BY SummariesSay
<1>2. reached = Roots(turns)
  <2>1. current = 0 /\ AskedAbout \cup assessed = Roots(turns) \cup ({current} \ {0})
    BY DEF LoopInv
  <2> QED BY <2>1 DEF AskedAbout
<1>3. report.unassessed = InOrder(U)
  BY DEF UnassessedRequired
<1>4. Len(Targets) \in Nat /\ DOMAIN Targets = 1..Len(Targets)
  BY DEF LoopInv
<1>5. ToSet(report.unassessed) = U
  <2>1. U \in SUBSET (1..Len(Targets))
    BY <1>4
  <2> HIDE DEF U
  <2> QED BY <1>3, <1>4, <2>1, InOrderItems
<1>9. report.competencies = S
  OBVIOUS
<1> HIDE DEF S, reached
<1>6. reported = Roots(turns)
  <2>1. \A k \in DOMAIN S : S[k].target \in Roots(turns)
    BY <1>1
  <2> QED BY <1>1, <2>1
<1>7. \A t \in DOMAIN Targets : Targets[t].required => (t \in U <=> t \notin reported)
  OBVIOUS
<1>8. \A t \in DOMAIN Targets : Targets[t].required => (t \in ToSet(report.unassessed) <=> t \notin reached)
  BY <1>2, <1>5, <1>6, <1>7
<1>10. {report.competencies[k].target : k \in DOMAIN report.competencies} = reached
  BY <1>2, <1>6, <1>9
<1> QED BY <1>8, <1>10 DEF EveryRequiredAccountedFor, reached

\* What the turns established is in the summaries, and what they left weak is to be explored.
LEMMA NothingIsLost ==
    ASSUME LoopInv, report.competencies = QuestionEvaluations(Targets, turns),
           report.areas = BuildAreasToExplore(QuestionEvaluations(Targets, turns))
    PROVE  NothingEstablishedIsLost
<1> DEFINE S == QuestionEvaluations(Targets, turns)
<1>1. /\ S \in Seq(Summaries(turns))
      /\ \A x \in Summaries(turns) : x.score \in -1..100 /\ SaysOf(x, turns, x.target)
      /\ \A t \in Roots(turns) : \E k \in DOMAIN S : S[k].target = t
  BY SummariesSay
<1>2. report.competencies = S /\ report.areas = BuildAreasToExplore(S)
  OBVIOUS
<1> HIDE DEF S
<1>3. \A i \in DOMAIN S : SaysOf(S[i], turns, S[i].target)
  BY <1>1
<1>4. ASSUME NEW k \in DOMAIN turns
      PROVE  \E i \in DOMAIN S :
                /\ S[i].target = turns[k].root
                /\ ToSet(turns[k].evaluation.evidence) \subseteq ToSet(S[i].evidence)
                /\ (\A j \in DOMAIN turns : j > k => turns[j].root # turns[k].root)
                     => S[i].score = turns[k].evaluation.score
  <2>1. PICK i \in DOMAIN S : S[i].target = turns[k].root
    BY <1>1 DEF Roots
  <2>2. /\ ToSet(turns[k].evaluation.evidence) \subseteq ToSet(S[i].evidence)
        /\ (\A j \in DOMAIN turns : j > k => turns[j].root # turns[k].root)
             => S[i].score = turns[k].evaluation.score
    BY <1>3, <2>1 DEF SaysOf
  <2> QED BY <2>1, <2>2
<1>5. ASSUME NEW i \in DOMAIN S, Strength(S[i].score) \in {"not_assessed", "insufficient"}
      PROVE  \/ \E k \in DOMAIN BuildAreasToExplore(S) : BuildAreasToExplore(S)[k][1] = S[i].target
             \/ Len(BuildAreasToExplore(S)) = ListLimit
  BY <1>1, <1>5, WeakAreExplored
<1> QED BY <1>2, <1>4, <1>5 DEF NothingEstablishedIsLost

\* There is an overall score exactly if something was scored, it lies between the lowest and
\* the highest score, and the recommendation follows from it.
LEMMA ScoreIsOfWhatWasAssessed ==
    ASSUME LoopInv, report.competencies = QuestionEvaluations(Targets, turns),
           report.overall_score = OverallScore(Targets, QuestionEvaluations(Targets, turns)),
           report.recommendation = DeriveRecommendation(report.overall_score)
    PROVE  ScoreOfWhatWasAssessed
<1> DEFINE S == QuestionEvaluations(Targets, turns)
           scores == {S[k].score : k \in {i \in DOMAIN S : Scored(S[i])}}
           X == Summaries(turns)
<1>1. /\ S \in Seq(X)
      /\ \A x \in X : x.score \in -1..100 /\ x.target \in DOMAIN Targets
      /\ Targets \in Seq(Target)
  BY SummariesSay DEF LoopInv
<1>2. report.competencies = S /\ report.overall_score = OverallScore(Targets, S)
  OBVIOUS
<1> HIDE DEF S, X
<1>3. \A k \in DOMAIN S : S[k].score \in -1..100
  BY <1>1
<1>4. \A x \in X : x.score \in Int /\ x.target \in DOMAIN Targets
  <2>1. \A v \in -1..100 : v \in Int
    OBVIOUS
  <2>2. \A x \in X : x.score \in -1..100 /\ x.target \in DOMAIN Targets
    BY <1>1
  <2> QED BY <2>1, <2>2, Zenon
<1>5. scores \in SUBSET (0..100)
  BY <1>3 DEF Scored
<1>6. \A k \in DOMAIN S : Scored(S[k]) => S[k].score \in scores
  OBVIOUS
<1>7. scores = {} <=> \A k \in DOMAIN S : ~Scored(S[k])
  OBVIOUS
<1> HIDE DEF scores
<1>8. CASE scores = {}
  <2>1. \A k \in DOMAIN S : Scored(S[k]) => 0 <= S[k].score /\ S[k].score <= 0
    BY <1>7, <1>8
  <2>2. IF \A k \in DOMAIN S : ~Scored(S[k])
        THEN OverallScore(Targets, S) = 0
        ELSE OverallScore(Targets, S) \in 100 * 0..100 * 0
    <3> DEFINE zero == 0
    <3>1. zero \in Nat /\ \A k \in DOMAIN S : Scored(S[k]) => zero <= S[k].score /\ S[k].score <= zero
      BY <2>1
    <3> HIDE DEF zero
    <3>2. IF \A k \in DOMAIN S : ~Scored(S[k])
          THEN OverallScore(Targets, S) = 0
          ELSE OverallScore(Targets, S) \in 100 * zero..100 * zero
      BY <1>1, <1>4, <3>1, OverallBetween, ZenonT(60)
    <3> QED BY <3>2 DEF zero
  <2>3. report.overall_score = 0
    BY <1>2, <1>7, <1>8, <2>2
  <2> QED BY <1>2, <1>8, <2>3 DEF ScoreOfWhatWasAssessed, scores
<1>9. CASE scores # {}
  <2>1. PICK lo \in scores : \A x \in scores : lo <= x
    <3>1. scores \in SUBSET Nat
      BY <1>5
    <3> QED BY <1>9, <3>1, Least
  <2>2. PICK hi \in scores : \A x \in scores : x <= hi
    <3>1. 100 \in Nat
      OBVIOUS
    <3> QED BY <1>5, <1>9, <3>1, Greatest
  <2>3. \A x \in scores : x \in Nat
    BY <1>5
  <2>4. Min(scores) \in scores /\ \A x \in scores : Min(scores) <= x
    BY <2>1 DEF Min
  <2>5. Max(scores) \in scores /\ \A x \in scores : Max(scores) >= x
    <3>1. \A x \in scores : hi >= x
      BY <2>2, <2>3
    <3> QED BY <3>1, <2>2 DEF Max
  <2> DEFINE low == Min(scores)
             high == Max(scores)
  <2>6. low \in Nat /\ high \in Nat
    BY <2>3, <2>4, <2>5
  <2>7. \A k \in DOMAIN S : Scored(S[k]) => low <= S[k].score /\ S[k].score <= high
    <3>1. \A x \in scores : low <= x /\ x <= high
      <4> HIDE DEF low, high
      <4>1. \A x \in scores : low <= x /\ high >= x
        BY <2>4, <2>5 DEF low, high
      <4> QED BY <2>3, <2>6, <4>1
    <3> HIDE DEF low, high
    <3> QED BY <1>6, <3>1
  <2> HIDE DEF low, high
  <2>8. OverallScore(Targets, S) \in 100 * low..100 * high
    <3>1. IF \A k \in DOMAIN S : ~Scored(S[k])
          THEN OverallScore(Targets, S) = 0
          ELSE OverallScore(Targets, S) \in 100 * low..100 * high
      BY <1>1, <1>4, <2>6, <2>7, OverallBetween, ZenonT(60)
    <3> QED BY <1>7, <1>9, <3>1
  <2> QED BY <1>2, <1>9, <2>8, ZenonT(60) DEF ScoreOfWhatWasAssessed, scores, low, high
<1> QED BY <1>8, <1>9

(***************************************************************************)
(* However an interview went and whatever the narrative call gave          *)
(* (ReportGenerationService.generate), the report accounts for every       *)
(* required target, keeps what every answer showed and the outcome of the  *)
(* last one, names what showed too little, and its score is one of what    *)
(* was assessed.                                                           *)
(***************************************************************************)
THEOREM ReportAlwaysAccounts == Spec => []ReportAccountsForInterview
<1>1. LoopInv /\ ReportInv => ReportAccountsForInterview
  <2> SUFFICES ASSUME LoopInv, ReportInv, stage = "reported"
               PROVE  EveryRequiredAccountedFor /\ NothingEstablishedIsLost /\ ScoreOfWhatWasAssessed
    BY DEF ReportAccountsForInterview
  <2>1. PICK narrative \in Narratives : report = Reported(narrative)
    BY DEF ReportInv
  <2> DEFINE S == QuestionEvaluations(Targets, turns)
  <2>2. /\ report.competencies = S
        /\ report.unassessed = UnassessedRequired(Targets, S)
        /\ report.areas = BuildAreasToExplore(S)
        /\ report.overall_score = OverallScore(Targets, S)
        /\ report.recommendation = DeriveRecommendation(report.overall_score)
    BY <2>1 DEF Reported
  <2>3. EveryRequiredAccountedFor
    BY <2>2, RequiredAreAccountedFor
  <2>4. NothingEstablishedIsLost
    BY <2>2, NothingIsLost
  <2>5. ScoreOfWhatWasAssessed
    BY <2>2, ScoreIsOfWhatWasAssessed
  <2> QED BY <2>3, <2>4, <2>5
<1> QED BY <1>1, ReportInvHolds, PTL
-----------------------------------------------------------------------------
(***************************************************************************)
(* The offline model.                                                      *)
(***************************************************************************)
\* The least of a set of numbers.
LEMMA MinOfPlaces ==
    ASSUME NEW S \in SUBSET Nat, S # {}
    PROVE  Min(S) \in S /\ \A k \in S : Min(S) <= k
<1>1. \E m \in S : \A k \in S : m <= k
  BY Least
<1> QED BY <1>1 DEF Min

\* An excerpt is made of whole words.
LEMMA ExcerptsAreWhole ==
    ASSUME NEW lengths \in Seq(Nat) \ {<<>>}, NEW limit \in Nat
    PROVE  ExcerptIsWhole(lengths, limit)
<1> DEFINE n == Len(lengths)
           end(k) == EndOf(lengths, k)
           fits == {1} \cup {k \in DOMAIN lengths : end(k) < limit}
           kept == Excerpt(lengths, limit)
<1>1. n \in Nat /\ n >= 1 /\ DOMAIN lengths = 1..n
  OBVIOUS
<1>2. \A k \in 1..n : end(k) \in Int
  <2> SUFFICES ASSUME NEW k \in 1..n PROVE EndOf(lengths, k) \in Int
    OBVIOUS
  <2>1. k \in Nat /\ SubSeq(lengths, 1, k) \in Seq(Nat)
    BY <1>1
  <2> DEFINE zero == 0
  <2>2. zero \in Nat
    OBVIOUS
  <2> HIDE DEF zero
  <2>3. Total(SubSeq(lengths, 1, k)) \in Nat
    BY <2>1, <2>2, TotalBetween
  <2> QED BY <2>1, <2>3 DEF EndOf
<1>3. kept = IF end(n) <= limit THEN n ELSE Max(fits)
  BY DEF Excerpt
<1> HIDE DEF kept, end, n
<1>4. CASE end(n) <= limit
  <2>1. kept = n /\ n \in DOMAIN lengths
    BY <1>1, <1>3, <1>4
  <2> QED BY <1>4, <2>1 DEF ExcerptIsWhole, kept, end, n
<1>5. CASE ~(end(n) <= limit)
  <2>1. fits \in SUBSET (0..n) /\ fits # {} /\ 1 \in 1..n
    BY <1>1
  <2>2. PICK m \in fits : \A x \in fits : x <= m
    <3> HIDE DEF fits
    <3> QED BY <1>1, <2>1, Greatest
  <2>3. Max(fits) \in fits /\ \A x \in fits : Max(fits) >= x
    <3>1. \A x \in fits : m >= x
      <4> HIDE DEF fits
      <4>1. \A x \in fits : x \in Int
        BY <1>1, <2>1
      <4> QED BY <2>2, <4>1
    <3> HIDE DEF fits
    <3> QED BY <2>2, <3>1 DEF Max
  <2>4. kept \in fits /\ \A x \in fits : kept >= x
    <3> HIDE DEF fits
    <3> QED BY <1>3, <1>5, <2>3
  <2>5. kept \in 1..n /\ (end(kept) <= limit \/ kept = 1)
    BY <1>1, <1>2, <2>1, <2>4
  <2>6. kept # n => end(kept + 1) >= limit
    <3> SUFFICES ASSUME kept # n PROVE end(kept + 1) >= limit
      OBVIOUS
    <3>1. kept + 1 \in 1..n /\ ~(kept >= kept + 1)
      BY <1>1, <2>5
    <3>2. kept + 1 \notin fits
      BY <2>4, <3>1
    <3> QED BY <1>1, <1>2, <3>1, <3>2
  <2> QED BY <1>1, <2>5, <2>6 DEF ExcerptIsWhole, kept, end, n
<1> QED BY <1>4, <1>5

\* How many words and verbs an answer has.
LEMMA CountsAreNaturals ==
    ASSUME NEW answer \in Seq(AnswerSentence)
    PROVE  Words(answer) \in Nat /\ Verbs(answer) \in Nat
<1> DEFINE words == [k \in DOMAIN answer |-> answer[k].words]
           verbs == [k \in DOMAIN answer |-> answer[k].verbs]
           zero == 0
<1>1. zero \in Nat
  OBVIOUS
<1> HIDE DEF zero
<1>2. Len(answer) \in Nat /\ DOMAIN answer = 1..Len(answer)
  OBVIOUS
<1>3. \A k \in 1..Len(answer) : answer[k].words \in Nat /\ answer[k].verbs \in Nat
  <2>1. \A s \in AnswerSentence : s.words \in Nat /\ s.verbs \in Nat
    BY DEF AnswerSentence
  <2>2. \A k \in 1..Len(answer) : answer[k] \in AnswerSentence
    BY <1>2
  <2> QED BY <2>1, <2>2
<1>4. words \in Seq(Nat) /\ verbs \in Seq(Nat)
  BY <1>2, <1>3
<1> HIDE DEF words, verbs
<1>5. Total(words) \in Nat /\ Total(verbs) \in Nat
  BY <1>1, <1>4, TotalBetween
<1> QED BY <1>5 DEF Words, Verbs, words, verbs

\* What the window of a mention is: the sentence that first names the target.
LEMMA MentionWindowIs ==
    ASSUME NEW answer \in Seq(AnswerSentence), NEW name, MentionWindow(answer, name) # <<>>
    PROVE  \E k \in DOMAIN answer : name \in answer[k].names /\ MentionWindow(answer, name) = <<answer[k]>>
<1> DEFINE naming == {k \in DOMAIN answer : name \in answer[k].names}
<1>1. naming # {} /\ MentionWindow(answer, name) = <<answer[Min(naming)]>>
  BY DEF MentionWindow
<1>2. naming \in SUBSET Nat
  OBVIOUS
<1>3. Min(naming) \in naming
  <2> HIDE DEF naming
  <2> QED BY <1>1, <1>2, MinOfPlaces
<1> QED BY <1>1, <1>3

\* The parts of an outcome.
LEMMA OutcomeParts ==
    ASSUME NEW answer, NEW others, NEW score, NEW type, NEW evidence, NEW strengths,
           NEW weaknesses, NEW question,
           EvaluatePrimary(answer) =
             Outcome(score, type, evidence, strengths, weaknesses, question)
    PROVE  LET e == EvaluateAnswer(answer, others)
           IN  /\ e.score = score /\ e.type = type /\ e.weaknesses = weaknesses
               /\ e.question = (question # NoQuestion)
               /\ e.decision = IF question # NoQuestion THEN "follow_up" ELSE "advance"
               /\ e.cross_target_evidence =
                    IF Words(answer) = 0 THEN {} ELSE FindCrossTargetEvidence(answer, others)
<1> DEFINE items == IF Words(answer) = 0 THEN {} ELSE FindCrossTargetEvidence(answer, others)
           e == EvaluateAnswer(answer, others)
<1>1. e = [EvaluatePrimary(answer) EXCEPT !.cross_target_evidence = items]
  BY DEF EvaluateAnswer
<1> HIDE DEF items, e
<1>2. /\ e.score = score /\ e.type = type /\ e.weaknesses = weaknesses
      /\ e.question = (question # NoQuestion)
      /\ e.decision = IF question # NoQuestion THEN "follow_up" ELSE "advance"
      /\ e.cross_target_evidence = items
  BY <1>1 DEF Outcome
<1> QED BY <1>2 DEF e, items

\* An evaluation's score, type and decision agree, whichever outcome it is.
LEMMA EvaluationAgrees ==
    ASSUME NEW answer \in Seq(AnswerSentence), NEW others
    PROVE  LET e == EvaluateAnswer(answer, others)
               strength == Strength(e.score)
           IN  /\ (e.decision = "follow_up") <=> (e.question /\ (strength = "strong" => e.weaknesses # <<>>))
               /\ strength = "strong" <=> e.type = "demonstrated"
               /\ strength = "moderate" <=> e.type = "partial"
               /\ Has(answer, "lack") /\ Words(answer) > 0 =>
                     /\ e.type \in {"explicit_lack", "contradictory"}
                     /\ e.type = "explicit_lack" => e.decision = "advance"
               /\ \/ e.cross_target_evidence = {}
                  \/ e.cross_target_evidence = FindCrossTargetEvidence(answer, others)
<1> DEFINE e == EvaluateAnswer(answer, others)
           items == IF Words(answer) = 0 THEN {} ELSE FindCrossTargetEvidence(answer, others)
           words == Words(answer)
           verbs == Verbs(answer)
           type == ClassifyEvidence(answer)
           lack == Has(answer, "lack")
           Agrees == LET strength == Strength(e.score)
                     IN  /\ (e.decision = "follow_up") <=>
                               (e.question /\ (strength = "strong" => e.weaknesses # <<>>))
                         /\ strength = "strong" <=> e.type = "demonstrated"
                         /\ strength = "moderate" <=> e.type = "partial"
                         /\ lack /\ words > 0 =>
                               /\ e.type \in {"explicit_lack", "contradictory"}
                               /\ e.type = "explicit_lack" => e.decision = "advance"
                         /\ e.cross_target_evidence = items
<1>1. words \in Nat /\ verbs \in Nat
  BY CountsAreNaturals
<1>2. /\ type \in {"contradictory", "explicit_lack", "insufficient", "claimed_unverified", "none"}
      /\ lack => type \in {"contradictory", "explicit_lack"}
  BY DEF ClassifyEvidence
<1> HIDE DEF e, items, words, verbs, type, lack
<1> SUFFICES Agrees
  BY DEF e, items, words, lack
<1> DEFINE silent == Outcome(0, "insufficient", <<>>, <<>>, <<"no_answer">>, "share_an_answer")
           denied == Outcome(5, type, <<>>, <<>>, <<"no_experience">>, NoQuestion)
           confused == Outcome(5, type, <<>>, <<>>, <<"not_addressed">>, NoQuestion)
           inconsistent == Outcome(20, type, Quoted, <<>>, <<"inconsistent">>, "clarify")
           unverified == Outcome(15, type, Quoted, <<>>, <<"unverified">>, "a_specific_detail")
           brief == Outcome(30, "insufficient", Quoted, <<>>, <<"too_brief">>, "a_specific_example")
           concrete == Outcome(80, "demonstrated", Quoted, <<"concrete">>, <<>>, NoQuestion)
           described == Outcome(60, "partial", Quoted, <<"described">>, <<>>, ContentAwareFollowUp(answer))
<1>4. EvaluatePrimary(answer) =
         CASE words = 0 -> silent
           [] words > 0 /\ type = "explicit_lack" -> denied
           [] words > 0 /\ type = "insufficient" -> confused
           [] words > 0 /\ type = "contradictory" -> inconsistent
           [] words > 0 /\ type = "claimed_unverified" -> unverified
           [] type = "none" /\ words \in 1..MinSubstantiveWords - 1 -> brief
           [] type = "none" /\ words >= MinThoroughWords /\ verbs >= MinThoroughVerbs -> concrete
           [] OTHER -> described
  BY DEF EvaluatePrimary, words, verbs, type
<1>5. /\ Strength(0) = "insufficient" /\ Strength(5) = "insufficient"
      /\ Strength(15) = "insufficient" /\ Strength(20) = "insufficient"
      /\ Strength(30) = "insufficient" /\ Strength(60) = "moderate" /\ Strength(80) = "strong"
  BY DEF Strength
<1>6. CASE words = 0
  <2>1. EvaluatePrimary(answer) = silent
    <3> HIDE DEF silent, denied, confused, inconsistent,
                 unverified, brief, concrete, described
    <3> QED BY <1>1, <1>2, <1>4, <1>6 DEF MinSubstantiveWords, MinThoroughWords
  <2>2. /\ e.score = 0 /\ e.type = "insufficient" /\ e.weaknesses = <<"no_answer">>
        /\ e.question = ("share_an_answer" # NoQuestion)
        /\ e.decision = IF "share_an_answer" # NoQuestion THEN "follow_up" ELSE "advance"
        /\ e.cross_target_evidence = items
    BY <2>1, OutcomeParts DEF e, items, words
  <2>3. ~(words > 0)
    BY <1>6
  <2>4. e.question /\ e.decision = "follow_up"
    BY <2>2 DEF NoQuestion
  <2>5. Strength(e.score) = "insufficient"
    BY <1>5, <2>2
  <2> QED BY <2>2, <2>3, <2>4, <2>5
<1>7. CASE words > 0 /\ type = "explicit_lack"
  <2>1. EvaluatePrimary(answer) = denied
    <3> HIDE DEF silent, denied, confused, inconsistent,
                 unverified, brief, concrete, described
    <3> QED BY <1>1, <1>2, <1>4, <1>7
  <2>2. /\ e.score = 5 /\ e.type = type /\ e.weaknesses = <<"no_experience">>
        /\ e.question = (NoQuestion # NoQuestion)
        /\ e.decision = IF NoQuestion # NoQuestion THEN "follow_up" ELSE "advance"
        /\ e.cross_target_evidence = items
    BY <2>1, OutcomeParts DEF e, items, words
  <2> QED BY <1>1, <1>2, <1>5, <1>7, <2>2, ZenonT(60) DEF NoQuestion
<1>8. CASE words > 0 /\ type = "insufficient"
  <2>1. EvaluatePrimary(answer) = confused
    <3> HIDE DEF silent, denied, confused, inconsistent,
                 unverified, brief, concrete, described
    <3> QED BY <1>1, <1>2, <1>4, <1>8
  <2>2. /\ e.score = 5 /\ e.type = type /\ e.weaknesses = <<"not_addressed">>
        /\ e.question = (NoQuestion # NoQuestion)
        /\ e.decision = IF NoQuestion # NoQuestion THEN "follow_up" ELSE "advance"
        /\ e.cross_target_evidence = items
    BY <2>1, OutcomeParts DEF e, items, words
  <2> QED BY <1>1, <1>2, <1>5, <1>8, <2>2 DEF NoQuestion
<1>9. CASE words > 0 /\ type = "contradictory"
  <2>1. EvaluatePrimary(answer) = inconsistent
    <3> HIDE DEF silent, denied, confused, inconsistent,
                 unverified, brief, concrete, described
    <3> QED BY <1>1, <1>2, <1>4, <1>9
  <2>2. /\ e.score = 20 /\ e.type = type /\ e.weaknesses = <<"inconsistent">>
        /\ e.question = ("clarify" # NoQuestion)
        /\ e.decision = IF "clarify" # NoQuestion THEN "follow_up" ELSE "advance"
        /\ e.cross_target_evidence = items
    BY <2>1, OutcomeParts DEF e, items, words
  <2> QED BY <1>1, <1>2, <1>5, <1>9, <2>2, ZenonT(60) DEF NoQuestion
<1>10. CASE words > 0 /\ type = "claimed_unverified"
  <2>1. EvaluatePrimary(answer) = unverified
    <3> HIDE DEF silent, denied, confused, inconsistent,
                 unverified, brief, concrete, described
    <3> QED BY <1>1, <1>2, <1>4, <1>10
  <2>2. /\ e.score = 15 /\ e.type = type /\ e.weaknesses = <<"unverified">>
        /\ e.question = ("a_specific_detail" # NoQuestion)
        /\ e.decision = IF "a_specific_detail" # NoQuestion THEN "follow_up" ELSE "advance"
        /\ e.cross_target_evidence = items
    BY <2>1, OutcomeParts DEF e, items, words
  <2> QED BY <1>1, <1>2, <1>5, <1>10, <2>2 DEF NoQuestion
<1>11. CASE type = "none" /\ words \in 1..MinSubstantiveWords - 1
  <2>1. EvaluatePrimary(answer) = brief
    <3> HIDE DEF silent, denied, confused, inconsistent,
                 unverified, brief, concrete, described
    <3> QED BY <1>1, <1>2, <1>4, <1>11 DEF MinSubstantiveWords, MinThoroughWords
  <2>2. /\ e.score = 30 /\ e.type = "insufficient" /\ e.weaknesses = <<"too_brief">>
        /\ e.question = ("a_specific_example" # NoQuestion)
        /\ e.decision = IF "a_specific_example" # NoQuestion THEN "follow_up" ELSE "advance"
        /\ e.cross_target_evidence = items
    BY <2>1, OutcomeParts DEF e, items, words
  <2> QED BY <1>1, <1>2, <1>5, <1>11, <2>2 DEF NoQuestion
<1>12. CASE /\ type = "none" /\ words > 0 /\ words \notin 1..MinSubstantiveWords - 1
            /\ words >= MinThoroughWords /\ verbs >= MinThoroughVerbs
  <2>1. EvaluatePrimary(answer) = concrete
    <3> HIDE DEF silent, denied, confused, inconsistent,
                 unverified, brief, concrete, described
    <3> QED BY <1>1, <1>2, <1>4, <1>12 DEF MinSubstantiveWords, MinThoroughWords
  <2>2. /\ e.score = 80 /\ e.type = "demonstrated" /\ e.weaknesses = <<>>
        /\ e.question = (NoQuestion # NoQuestion)
        /\ e.decision = IF NoQuestion # NoQuestion THEN "follow_up" ELSE "advance"
        /\ e.cross_target_evidence = items
    BY <2>1, OutcomeParts DEF e, items, words
  <2> QED BY <1>1, <1>2, <1>5, <1>12, <2>2 DEF NoQuestion
<1>13. CASE /\ type = "none" /\ words > 0 /\ words \notin 1..MinSubstantiveWords - 1
            /\ ~(words >= MinThoroughWords /\ verbs >= MinThoroughVerbs)
  <2>1. EvaluatePrimary(answer) = described
    <3> HIDE DEF silent, denied, confused, inconsistent,
                 unverified, brief, concrete, described
    <3> QED BY <1>1, <1>2, <1>4, <1>13 DEF MinSubstantiveWords, MinThoroughWords
  <2>2. /\ e.score = 60 /\ e.type = "partial" /\ e.weaknesses = <<>>
        /\ e.question = (ContentAwareFollowUp(answer) # NoQuestion)
        /\ e.decision = IF ContentAwareFollowUp(answer) # NoQuestion THEN "follow_up" ELSE "advance"
        /\ e.cross_target_evidence = items
    BY <2>1, OutcomeParts DEF e, items, words
  <2>3. ContentAwareFollowUp(answer) # NoQuestion
    BY DEF ContentAwareFollowUp, NoQuestion
  <2> HIDE DEF silent, denied, confused, inconsistent, unverified, brief, concrete, described
  <2> QED BY <1>1, <1>2, <1>5, <1>13, <2>2, <2>3
<1> QED BY <1>1, <1>2, <1>6, <1>7, <1>8, <1>9, <1>10, <1>11, <1>12, <1>13

\* An evaluation is what the interview's own policy would make of the answer.
LEMMA EvaluationsFitPolicy ==
    ASSUME NEW answer \in Seq(AnswerSentence), NEW others
    PROVE  EvaluationFitsPolicy(answer, others)
<1> DEFINE e == EvaluateAnswer(answer, others)
           found == FindCrossTargetEvidence(answer, others)
           denies(name) == \E k \in DOMAIN answer :
                              name \in answer[k].names /\ "lack" \in answer[k].cues
           mention(name) == [target |-> name, mentioned |-> TRUE,
                             evidence_type |-> ClassifyMention(MentionWindow(answer, name))]
<1>1. ASSUME NEW item \in found
      PROVE  \E name \in others : MentionWindow(answer, name) # <<>> /\ item = mention(name)
  BY DEF FindCrossTargetEvidence
<1>2. \A name : mention(name).target = name
                /\ mention(name).evidence_type = ClassifyMention(MentionWindow(answer, name))
  OBVIOUS
<1> HIDE DEF mention, found
<1>3. ASSUME NEW item \in found
      PROVE  /\ \E k \in DOMAIN answer : item.target \in answer[k].names
             /\ item.evidence_type = "explicit_lack" => denies(item.target)
             /\ \A other \in found : other.target = item.target => other = item
  <2>1. PICK name \in others : MentionWindow(answer, name) # <<>> /\ item = mention(name)
    BY <1>1
  <2>2. PICK k \in DOMAIN answer :
           name \in answer[k].names /\ MentionWindow(answer, name) = <<answer[k]>>
    BY <2>1, MentionWindowIs
  <2>3. item.target = name /\ item.evidence_type = ClassifyMention(<<answer[k]>>)
    BY <1>2, <2>1, <2>2
  <2>4. item.evidence_type = "explicit_lack" => "lack" \in answer[k].cues
    <3>1. ClassifyMention(<<answer[k]>>) = "explicit_lack" => Has(<<answer[k]>>, "lack")
      BY DEF ClassifyMention
    <3>2. Has(<<answer[k]>>, "lack") => "lack" \in answer[k].cues
      BY DEF Has
    <3> QED BY <2>3, <3>1, <3>2
  <2>5. ASSUME NEW other \in found, other.target = item.target PROVE other = item
    <3>1. PICK another \in others : other = mention(another)
      BY <1>1
    <3>2. another = name
      BY <1>2, <2>3, <2>5, <3>1
    <3> QED BY <2>1, <3>1, <3>2
  <2> QED BY <2>2, <2>3, <2>4, <2>5
<1>4. \A item \in e.cross_target_evidence :
         /\ \E k \in DOMAIN answer : item.target \in answer[k].names
         /\ item.evidence_type = "explicit_lack" => denies(item.target)
         /\ \A other \in e.cross_target_evidence : other.target = item.target => other = item
  <2>1. e.cross_target_evidence = {} \/ e.cross_target_evidence = found
    BY EvaluationAgrees DEF found
  <2> HIDE DEF e, denies
  <2> QED BY <1>3, <2>1
<1> HIDE DEF found
<1>5. /\ (e.decision = "follow_up") <=> (e.question /\ (Strength(e.score) = "strong" => e.weaknesses # <<>>))
      /\ Strength(e.score) = "strong" <=> e.type = "demonstrated"
      /\ Strength(e.score) = "moderate" <=> e.type = "partial"
      /\ Has(answer, "lack") /\ Words(answer) > 0 =>
            /\ e.type \in {"explicit_lack", "contradictory"}
            /\ e.type = "explicit_lack" => e.decision = "advance"
  BY EvaluationAgrees
<1> QED BY <1>4, <1>5 DEF EvaluationFitsPolicy

\* The first of some lines of a text, and the end when there is none.
LEMMA FirstOfLines ==
    ASSUME NEW n \in Nat, NEW S \in SUBSET (1..n)
    PROVE  /\ Min(S \cup {n + 1}) \in 1..n + 1
           /\ Min(S \cup {n + 1}) \in S \/ Min(S \cup {n + 1}) = n + 1
           /\ \A k \in S : Min(S \cup {n + 1}) <= k
           /\ S # {} => Min(S \cup {n + 1}) \in S
<1> DEFINE T == S \cup {n + 1}
           m == Min(T)
<1>1. T \in SUBSET Nat /\ T # {}
  OBVIOUS
<1>2. m \in T /\ \A k \in T : m <= k
  <2> HIDE DEF T
  <2> QED BY <1>1, MinOfPlaces
<1> HIDE DEF m
<1>3. S # {} => m \in S
  <2> SUFFICES ASSUME NEW k \in S PROVE m \in S
    OBVIOUS
  <2>1. m <= k /\ k <= n
    BY <1>2
  <2> QED BY <1>2, <2>1
<1>4. /\ m \in 1..n + 1 /\ (m \in S \/ m = n + 1)
      /\ \A k \in S : m <= k
  BY <1>2
<1> QED BY <1>3, <1>4 DEF m

\* A skill of the analysis is in the text, and required exactly if the text first names it
\* ahead of what is preferred.
LEMMA SkillsAreTheTexts ==
    ASSUME NEW lines \in Seq(JobLine), NEW k \in DOMAIN ExtractSkills(lines)
    PROVE  LET skill == ExtractSkills(lines)[k]
               mentions == {m \in DOMAIN lines : skill.name \in lines[m].mentions}
           IN  /\ mentions # {}
               /\ skill.required <=> \E m \in mentions : \A p \in 1..m : lines[p].kind \notin PreferredLines
<1> DEFINE P == {v \in DOMAIN SkillVocabulary :
                   \E j \in DOMAIN lines : SkillVocabulary[v] \in lines[j].mentions}
           found == Sublist(SkillVocabulary, P)
           name == found[k]
           n == Len(lines)
           N == {m \in DOMAIN lines : name \in lines[m].mentions}
           Q == {m \in DOMAIN lines : lines[m].kind \in PreferredLines}
           skill == ExtractSkills(lines)[k]
           Reached == \E m \in N : \A p \in 1..m : lines[p].kind \notin PreferredLines
<1>1. k \in DOMAIN found /\ skill.name = name /\ skill.required = Required(lines, name)
  BY DEF ExtractSkills, Found
<1> HIDE DEF skill
<1>2. found \in Seq(Names) /\ Items(found) = {SkillVocabulary[v] : v \in P}
  <2>1. SkillVocabulary \in Seq(Names) /\ P \in SUBSET (DOMAIN SkillVocabulary)
    BY FakeClientAssumption
  <2> HIDE DEF P
  <2> QED BY <2>1, SublistTakes
<1>3. N # {}
  <2>1. name \in Items(found)
    <3> HIDE DEF found
    <3> QED BY <1>1 DEF Items
  <2>2. PICK v \in P : name = SkillVocabulary[v]
    <3> HIDE DEF found, P
    <3> QED BY <1>2, <2>1
  <2> HIDE DEF found
  <2> QED BY <2>2
<1> HIDE DEF found, name
<1>4. n \in Nat /\ DOMAIN lines = 1..n /\ N \in SUBSET (1..n) /\ Q \in SUBSET (1..n)
  OBVIOUS
<1>5. Required(lines, name) <=> Min(N \cup {n + 1}) < Min(Q \cup {n + 1})
  BY DEF Required, FirstLine, LinesWith
<1>6. \A p \in 1..n : lines[p].kind \in PreferredLines <=> p \in Q
  BY <1>4
<1>7. Reached <=> \E m \in N : \A p \in 1..m : p \notin Q
  <2> SUFFICES ASSUME NEW m \in N
               PROVE  (\A p \in 1..m : lines[p].kind \notin PreferredLines)
                        <=> (\A p \in 1..m : p \notin Q)
    OBVIOUS
  <2>1. \A p \in 1..m : p \in 1..n
    BY <1>4
  <2> HIDE DEF N, Q
  <2> QED BY <1>6, <2>1
<1> HIDE DEF N, Q, n, Reached
<1> DEFINE a == Min(N \cup {n + 1})
           b == Min(Q \cup {n + 1})
<1>8. a \in N /\ a \in 1..n /\ \A m \in N : a <= m
  BY <1>3, <1>4, FirstOfLines
<1>9. b \in 1..n + 1 /\ (b \in Q \/ b = n + 1) /\ \A p \in Q : b <= p
  BY <1>4, FirstOfLines
<1> HIDE DEF a, b
<1>10. a < b <=> \E m \in N : \A p \in 1..m : p \notin Q
  <2>1. ASSUME a < b PROVE \A p \in 1..a : p \notin Q
    BY <1>4, <1>8, <1>9, <2>1
  <2>2. ASSUME NEW m \in N, \A p \in 1..m : p \notin Q PROVE a < b
    <3>1. m \in 1..n /\ a <= m
      BY <1>4, <1>8
    <3>2. b > m
      BY <1>4, <1>9, <2>2, <3>1
    <3> QED BY <1>8, <1>9, <3>1, <3>2
  <2> QED BY <1>8, <2>1, <2>2
<1>11. Required(lines, name) <=> Reached
  BY <1>5, <1>7, <1>10 DEF a, b
<1>12. skill.required <=> Reached
  BY <1>1, <1>11, Zenon
<1> QED BY <1>1, <1>3, <1>12 DEF skill, N, Reached

\* A responsibility of the analysis is a line of the list under the duties heading.
LEMMA ResponsibilitiesAreTheTexts ==
    ASSUME NEW lines \in Seq(JobLine), NEW i \in DOMAIN ExtractResponsibilities(lines)
    PROVE  LET heading == FirstLine(lines, LAMBDA l : l.kind = "duties")
           IN  \E j \in heading + 1..Len(lines) :
                  /\ lines[j].text = ExtractResponsibilities(lines)[i].name
                  /\ \A m \in heading + 1..j : lines[m].kind \notin NextSections \cup {"plain"}
<1> DEFINE n == Len(lines)
           H == {m \in DOMAIN lines : lines[m].kind = "duties"}
           heading == Min(H \cup {n + 1})
           B == {k \in heading + 1..n : lines[k].kind # "blank"}
           c == Cardinality(B)
           o == InOrder(B)
           below == Sublist(lines, B)
           bullets(k) == {j \in 1..k : below[j].kind = "bullet"}
           continues(k) == \/ below[k].kind = "bullet"
                           \/ below[k].kind = "indented" /\ bullets(k) # {}
           listed == {k \in DOMAIN below : \A j \in 1..k : continues(j)}
           L == {k \in listed : below[k].kind = "bullet"}
           items == InOrder(L)
           first == FirstLine(lines, LAMBDA l : l.kind = "duties")
           result == ExtractResponsibilities(lines)
<1>1. first = heading
  BY DEF FirstLine, LinesWith
<1> DEFINE wrapped(q) == {k \in listed : below[k].kind = "indented" /\ Max(bullets(k)) = items[q]}
<1>2. result = [q \in DOMAIN items |->
                  [name |-> below[items[q]].text, spelling |-> 1 + Cardinality(wrapped(q))]]
  BY DEF ExtractResponsibilities, FirstLine, LinesWith
<1>2a. i \in DOMAIN items /\ result[i].name = below[items[i]].text
  <2>1. i \in DOMAIN result
    OBVIOUS
  <2> HIDE DEF result, items, below, wrapped
  <2> QED BY <1>2, <2>1
<1> HIDE DEF result, first
<1>3. n \in Nat /\ DOMAIN lines = 1..n /\ H \in SUBSET (1..n)
  OBVIOUS
<1>4. heading \in 1..n + 1
  <2> HIDE DEF H, n
  <2> QED BY <1>3, FirstOfLines
<1> HIDE DEF heading
<1>5. B \in SUBSET (DOMAIN lines)
  BY <1>3, <1>4
<1>6. /\ c \in Nat /\ below \in Seq(JobLine) /\ Len(below) = c
      /\ o \in [1..c -> B]
      /\ \A k \in 1..c : below[k] = lines[o[k]]
      /\ \A m \in B : \E k \in 1..c : o[k] = m
      /\ \A j, k \in 1..c : o[j] < o[k] <=> j < k
  <2> DEFINE X == JobLine
  <2>1. lines \in Seq(X)
    OBVIOUS
  <2> HIDE DEF X, B
  <2>2. /\ c \in Nat /\ below \in Seq(X) /\ Len(below) = c
        /\ o \in [1..c -> B]
        /\ \A k \in 1..c : below[k] = lines[o[k]]
        /\ \A m \in B : \E k \in 1..c : o[k] = m
        /\ \A j, k \in 1..c : o[j] < o[k] <=> j < k
    BY <1>5, <2>1, SublistItems, ZenonT(60)
  <2> QED BY <2>2 DEF X
<1> HIDE DEF below, o, c
<1>7. DOMAIN below = 1..c
  BY <1>6
<1>8. L \in SUBSET (1..c)
  BY <1>7
<1>9. items[i] \in L
  <2> HIDE DEF L
  <2>1. items \in Seq(L)
    BY <1>6, <1>8, InOrderItems
  <2> HIDE DEF items
  <2> QED BY <1>2a, <2>1
<1> HIDE DEF items
<1> DEFINE k == items[i]
           j == o[k]
<1>10. /\ k \in 1..c /\ below[k].kind = "bullet"
       /\ \A q \in 1..k : below[q].kind \in {"bullet", "indented"}
  BY <1>7, <1>9
<1> HIDE DEF k
<1>11. j \in B /\ below[k] = lines[j]
  BY <1>6, <1>10
<1>12. j \in heading + 1..n
  BY <1>11
<1>13. ASSUME NEW m \in heading + 1..j PROVE lines[m].kind \notin NextSections \cup {"plain"}
  <2>1. m \in heading + 1..n /\ m \in Int /\ j \in Int /\ m <= j
    BY <1>3, <1>4, <1>12
  <2>2. CASE lines[m].kind = "blank"
    BY <2>2 DEF NextSections
  <2>3. CASE lines[m].kind # "blank"
    <3>1. m \in B
      BY <2>1, <2>3
    <3> HIDE DEF B
    <3>2. PICK q \in 1..c : o[q] = m
      BY <1>6, <3>1
    <3>3. q <= k
      <4>1. ~(o[k] < o[q])
        BY <2>1, <3>2
      <4>2. o[k] < o[q] <=> k < q
        BY <1>6, <1>10
      <4> QED BY <1>6, <1>10, <4>1, <4>2
    <3>4. q \in 1..k
      BY <1>6, <1>10, <3>3
    <3>5. lines[m].kind \in {"bullet", "indented"}
      BY <1>6, <1>10, <3>2, <3>4
    <3> QED BY <3>5 DEF NextSections
  <2> QED BY <2>2, <2>3
<1>14. lines[j].text = result[i].name
  BY <1>2a, <1>11 DEF k
<1> HIDE DEF j
<1> QED BY <1>1, <1>12, <1>13, <1>14 DEF first, result, n

\* What the analysis of a description says is what the description says.
LEMMA AnalysesAreTheText ==
    ASSUME NEW lines \in Seq(JobLine)
    PROVE  AnalysisIsTheText(lines)
<1> DEFINE job == AnalyzeJob(lines)
<1>1. job.skills = ExtractSkills(lines) /\ job.responsibilities = ExtractResponsibilities(lines)
  BY DEF AnalyzeJob
<1> HIDE DEF job
<1>2. ASSUME NEW k \in DOMAIN job.skills
      PROVE  LET mentions == LinesWith(lines, LAMBDA l : job.skills[k].name \in l.mentions)
             IN  /\ mentions # {}
                 /\ job.skills[k].required <=>
                      \E m \in mentions : \A p \in 1..m : lines[p].kind \notin PreferredLines
  BY <1>1, SkillsAreTheTexts, Zenon DEF LinesWith
<1>3. ASSUME NEW k \in DOMAIN job.responsibilities
      PROVE  LET heading == FirstLine(lines, LAMBDA l : l.kind = "duties")
             IN  \E j \in heading + 1..Len(lines) :
                    /\ lines[j].text = job.responsibilities[k].name
                    /\ \A m \in heading + 1..j : lines[m].kind \notin NextSections \cup {"plain"}
  BY <1>1, ResponsibilitiesAreTheTexts, Zenon
<1> QED BY <1>2, <1>3, Zenon DEF AnalysisIsTheText, job

\* What a summary says was strong is a list of texts.
LEMMA StrengthsAreTexts ==
    ASSUME NEW targets, NEW list \in Seq(Turn(targets)), NEW t \in Roots(list)
    PROVE  Summary(list, t).strengths \in Seq(Texts)
<1> DEFINE own == TurnsOf(list, t)
           strengths == [k \in DOMAIN own |-> own[k].evaluation.strengths]
           V == Seq(Texts)
           X == Turn(targets)
<1>1. Summary(list, t).strengths = FlattenUnique(strengths)
  BY DEF Summary
<1>2. \A turn \in X : turn.evaluation.strengths \in V
  <2>1. \A turn \in X : turn.evaluation \in Recorded
    BY DEF Turn
  <2>2. \A e \in Recorded : e.strengths \in V
    BY DEF Recorded
  <2> QED BY <2>1, <2>2
<1>3. list \in Seq(X)
  OBVIOUS
<1> HIDE DEF X, V
<1>4. own \in Seq(X)
  BY <1>3, LastOwnTurn
<1> HIDE DEF own
<1>5. Len(own) \in Nat /\ DOMAIN own = 1..Len(own) /\ \A k \in 1..Len(own) : own[k] \in X
  BY <1>4
<1>6. strengths \in [1..Len(own) -> V]
  BY <1>2, <1>5
<1> HIDE DEF strengths
<1>7. strengths \in Seq(V)
  BY <1>5, <1>6, ListOf
<1>8. FlattenUnique(strengths) \in Seq(Texts)
  BY <1>7, UniqueItems DEF V
<1> QED BY <1>1, <1>8

\* Every strength the report lists is one its narrative was given.
LEMMA ListedStrengthsAreGiven ==
    ASSUME NEW X, \A x \in X : x.score \in -1..100 /\ x.strengths \in Seq(Texts),
           NEW s \in Seq(X), NEW k \in DOMAIN BuildStrengths(s)
    PROVE  BuildStrengths(s)[k][2] \in ToSet(FlattenUnique([i \in DOMAIN s |-> s[i].strengths]))
<1> DEFINE keys == [i \in DOMAIN s |-> -Max({0, s[i].score})]
           ranked == StableSort(s, keys)
           P == {i \in DOMAIN ranked : ranked[i].strengths # <<>>}
           named == Sublist(ranked, P)
           pairs == [i \in DOMAIN named |-> <<named[i].target, named[i].strengths[1]>>]
           lists == [i \in DOMAIN s |-> s[i].strengths]
           V == Seq(Texts)
           all == FlattenUnique(lists)
           Y == Items(pairs)
           listed == BuildStrengths(s)
<1>1. listed = Upto(pairs, ListLimit)
  BY DEF BuildStrengths
<1> HIDE DEF listed
<1>2. Len(s) \in Nat /\ DOMAIN s = 1..Len(s) /\ \A i \in 1..Len(s) : s[i] \in X
  OBVIOUS
<1>3. keys \in [DOMAIN s -> Int]
  <2>1. ASSUME NEW i \in DOMAIN s PROVE -Max({0, s[i].score}) \in Int
    <3> DEFINE x == s[i].score
    <3>1. x \in Int
      <4>1. s[i] \in X /\ s[i].score \in -1..100
        BY <1>2
      <4>2. \A v \in -1..100 : v \in Int
        OBVIOUS
      <4> QED BY <4>1, <4>2, Zenon
    <3> HIDE DEF x
    <3>2. \E m \in {0, x} : \A y \in {0, x} : m >= y
      BY <3>1
    <3>3. Max({0, x}) \in {0, x}
      BY <3>2 DEF Max
    <3> QED BY <3>1, <3>3 DEF x
  <2> QED BY <2>1
<1>4. ranked \in Seq(X) /\ Items(ranked) = Items(s)
  <2> HIDE DEF keys
  <2> QED BY <1>3, StableSortRearranges
<1> HIDE DEF ranked
<1>5. named \in Seq(X) /\ Items(named) = {ranked[p] : p \in P}
  <2>1. P \in SUBSET (DOMAIN ranked)
    OBVIOUS
  <2> HIDE DEF P
  <2> QED BY <1>4, <2>1, SublistTakes
<1> HIDE DEF named
<1>6. Len(named) \in Nat /\ DOMAIN named = 1..Len(named)
  BY <1>5
<1>7. pairs \in Seq(Y) /\ DOMAIN pairs = 1..Len(named)
  <2>1. DOMAIN pairs = 1..Len(named)
    BY <1>6
  <2>2. pairs = [i \in 1..Len(named) |-> pairs[i]]
    BY <1>6
  <2>3. pairs \in [1..Len(named) -> Y]
    <3>1. \A i \in 1..Len(named) : pairs[i] \in Y
      <4> HIDE DEF pairs
      <4> QED BY <2>1 DEF Items
    <3> HIDE DEF pairs, Y
    <3> QED BY <2>2, <3>1
  <2> HIDE DEF pairs, Y
  <2> QED BY <1>6, <2>1, <2>3, ListOf
<1>8. \A i \in 1..Len(named) : pairs[i][2] = named[i].strengths[1]
  BY <1>6
<1> HIDE DEF pairs, Y
<1>9. k \in 1..Len(named) /\ listed[k] = pairs[k]
  <2>1. ListLimit \in Nat
    BY ListLimitAssumption
  <2>2. /\ Upto(pairs, ListLimit) \in Seq(Y)
        /\ Len(Upto(pairs, ListLimit)) = IF ListLimit <= Len(pairs) THEN ListLimit ELSE Len(pairs)
        /\ \A i \in 1..Len(Upto(pairs, ListLimit)) : Upto(pairs, ListLimit)[i] = pairs[i]
    BY <1>7, <2>1, UptoItems
  <2>3. Len(pairs) = Len(named)
    BY <1>6, <1>7
  <2>4. k \in DOMAIN listed
    BY DEF listed
  <2> HIDE DEF listed
  <2> QED BY <1>1, <1>6, <2>1, <2>2, <2>3, <2>4
<1>10. PICK i \in DOMAIN s : named[k] = s[i] /\ s[i].strengths # <<>>
  <2>1. named[k] \in Items(named)
    BY <1>6, <1>9 DEF Items
  <2>2. PICK p \in P : named[k] = ranked[p]
    <3> HIDE DEF P
    <3> QED BY <1>5, <2>1
  <2>3. ranked[p] \in Items(s) /\ ranked[p].strengths # <<>>
    BY <1>4 DEF Items
  <2> QED BY <2>2, <2>3 DEF Items
<1>11. s[i].strengths \in Seq(Texts) /\ s[i].strengths[1] \in Items(s[i].strengths)
  <2>1. s[i].strengths \in Seq(Texts)
    BY <1>2
  <2>2. 1 \in DOMAIN s[i].strengths
    BY <1>10, <2>1
  <2> QED BY <2>1, <2>2 DEF Items
<1>12. lists \in Seq(V) /\ DOMAIN lists = DOMAIN s /\ lists[i] = s[i].strengths
  <2>1. \A j \in 1..Len(s) : s[j].strengths \in V
    BY <1>2
  <2> HIDE DEF V
  <2>2. lists \in [1..Len(s) -> V] /\ DOMAIN lists = DOMAIN s /\ lists[i] = s[i].strengths
    BY <1>2, <2>1
  <2> HIDE DEF lists
  <2> QED BY <1>2, <2>2, ListOf
<1> HIDE DEF lists
<1>13. Items(all) = UNION {Items(lists[j]) : j \in DOMAIN lists}
  BY <1>12, UniqueItems DEF V
<1>14. s[i].strengths[1] \in Items(all)
  BY <1>11, <1>12, <1>13
<1>15. Items(all) = ToSet(all)
  BY DEF Items, ToSet
<1> QED BY <1>8, <1>9, <1>10, <1>14, <1>15 DEF listed, all, lists

\* The band of a score told to two decimals is the score's own, but where it rounds to a bound.
LEMMA BandsDiffer ==
    ASSUME NEW score \in Nat, Strength((score + 50) \div 100) # Strength(score \div 100)
    PROVE  (score + 50) \div 100 \in {35, 60, 80}
<1> DEFINE q == score \div 100
           p == (score + 50) \div 100
<1>1. q \in Nat /\ (p = q \/ p = q + 1)
  OBVIOUS
<1> HIDE DEF q, p
<1>2. Strength(p) # Strength(q)
  BY DEF p, q
<1>3. p = q + 1 /\ q \in Nat
  BY <1>1, <1>2
<1>4. CASE q \in 0..33 \/ q \in 35..58 \/ q \in 60..78 \/ q >= 80
  BY <1>2, <1>3, <1>4 DEF Strength
<1>5. CASE q \in {34, 59, 79}
  BY <1>3, <1>5 DEF p
<1> QED BY <1>3, <1>4, <1>5

\* What the narrative says was not assessed: the pieces of the names of what was not.
LEMMA UnassessedAreNamed ==
    ASSUME NEW targets \in Seq(Target), NEW unassessed \in Seq(DOMAIN targets)
    PROVE  LET lists == [k \in DOMAIN unassessed |-> Pieces[targets[unassessed[k]].name]]
               named == Upto(FlattenSeq(lists), MaxNamed)
           IN  \/ ToSet(named) = UNION {ToSet(Pieces[targets[t].name]) : t \in ToSet(unassessed)}
               \/ Len(named) = MaxNamed
<1> DEFINE lists == [k \in DOMAIN unassessed |-> Pieces[targets[unassessed[k]].name]]
           flat == FlattenSeq(lists)
           named == Upto(flat, MaxNamed)
           V == Seq(STRING)
           n == Len(unassessed)
<1>1. n \in Nat /\ DOMAIN unassessed = 1..n /\ \A k \in 1..n : unassessed[k] \in DOMAIN targets
  OBVIOUS
<1>2. \A t \in DOMAIN targets : targets[t].name \in Names
  <2>1. \A x \in Target : x.name \in Names
    BY DEF Target
  <2>2. \A t \in DOMAIN targets : targets[t] \in Target
    OBVIOUS
  <2> QED BY <2>1, <2>2
<1>3. \A name \in Names : Pieces[name] \in V
  BY FakeClientAssumption
<1> HIDE DEF V, n
<1>4. lists \in [1..n -> V] /\ \A k \in 1..n : lists[k] = Pieces[targets[unassessed[k]].name]
  BY <1>1, <1>2, <1>3
<1> HIDE DEF lists
<1>5. lists \in Seq(V) /\ DOMAIN lists = 1..n
  BY <1>1, <1>4, ListOf
<1>6. flat \in Seq(STRING) /\ Items(flat) = UNION {Items(lists[j]) : j \in DOMAIN lists}
  BY <1>5, FlattenedItems DEF V
<1> HIDE DEF flat
<1>7. \A x : Items(x) = ToSet(x)
  BY DEF Items, ToSet
<1>8. UNION {Items(lists[j]) : j \in DOMAIN lists}
        = UNION {ToSet(Pieces[targets[t].name]) : t \in ToSet(unassessed)}
  <2> DEFINE words(t) == ToSet(Pieces[targets[t].name])
  <2>1. \A j \in 1..n : Items(lists[j]) = words(unassessed[j])
    BY <1>4, <1>7
  <2> HIDE DEF words
  <2>2. ToSet(unassessed) = {unassessed[j] : j \in 1..n}
    BY <1>1 DEF ToSet
  <2>3. UNION {Items(lists[j]) : j \in 1..n} = UNION {words(t) : t \in ToSet(unassessed)}
    BY <2>1, <2>2
  <2> QED BY <1>5, <2>3 DEF words
<1>9. /\ named \in Seq(STRING)
      /\ Len(named) = IF MaxNamed <= Len(flat) THEN MaxNamed ELSE Len(flat)
      /\ \A k \in 1..Len(named) : named[k] = flat[k]
  <2> DEFINE X == STRING
             m == MaxNamed
  <2>1. flat \in Seq(X) /\ m \in Nat
    BY <1>6 DEF MaxNamed
  <2> HIDE DEF X, m
  <2>2. /\ Upto(flat, m) \in Seq(X)
        /\ Len(Upto(flat, m)) = IF m <= Len(flat) THEN m ELSE Len(flat)
        /\ \A k \in 1..Len(Upto(flat, m)) : Upto(flat, m)[k] = flat[k]
    BY <2>1, UptoItems
  <2> QED BY <2>2 DEF X, m
<1> HIDE DEF named
<1>10. ASSUME Len(named) # MaxNamed PROVE Items(named) = Items(flat)
  <2>1. Len(named) = Len(flat)
    BY <1>9, <1>10
  <2>2. DOMAIN named = 1..Len(flat) /\ DOMAIN flat = 1..Len(flat)
    BY <1>6, <1>9, <2>1
  <2>3. \A k \in 1..Len(flat) : named[k] = flat[k]
    BY <1>9, <2>1
  <2> QED BY <2>2, <2>3 DEF Items
<1>11. ToSet(named) = UNION {ToSet(Pieces[targets[t].name]) : t \in ToSet(unassessed)}
         \/ Len(named) = MaxNamed
  BY <1>6, <1>7, <1>8, <1>10
<1> QED BY <1>11 DEF named, flat, lists

\* The overall score is a natural number, whatever was assessed.
LEMMA OverallIsNatural ==
    ASSUME LoopInv
    PROVE  OverallScore(Targets, QuestionEvaluations(Targets, turns)) \in Nat
<1> DEFINE S == QuestionEvaluations(Targets, turns)
           X == Summaries(turns)
           zero == 0
           hundred == 100
           overall == OverallScore(Targets, S)
<1>1. /\ S \in Seq(X)
      /\ \A x \in X : x.score \in -1..100 /\ x.target \in DOMAIN Targets
      /\ Targets \in Seq(Target)
  BY SummariesSay DEF LoopInv
<1> HIDE DEF S, X
<1>2. \A x \in X : x.score \in Int /\ x.target \in DOMAIN Targets
  <2>1. \A v \in -1..100 : v \in Int
    OBVIOUS
  <2> QED BY <1>1, <2>1, Zenon
<1>3. \A k \in DOMAIN S : S[k].score \in -1..100
  BY <1>1
<1>4. \A k \in DOMAIN S : Scored(S[k]) => zero <= S[k].score /\ S[k].score <= hundred
  BY <1>3 DEF Scored
<1>5. zero \in Nat /\ hundred \in Nat
  OBVIOUS
<1> HIDE DEF zero, hundred, overall
<1>6. IF \A k \in DOMAIN S : ~Scored(S[k])
      THEN overall = 0 ELSE overall \in 100 * zero..100 * hundred
  BY <1>1, <1>2, <1>4, <1>5, OverallBetween, ZenonT(60) DEF overall
<1>7. overall = 0 \/ overall \in 100 * zero..100 * hundred
  BY <1>6
<1>8. 0 \in Nat /\ \A v \in 100 * zero..100 * hundred : v \in Nat
  BY DEF zero, hundred
<1>9. overall \in Nat
  BY <1>7, <1>8, Zenon
<1> QED BY <1>9 DEF overall, S

\* The narrative of a report says what its figures say.
LEMMA NarrativeIsTheReports ==
    ASSUME LoopInv, report.competencies = QuestionEvaluations(Targets, turns),
           report.overall_score = OverallScore(Targets, QuestionEvaluations(Targets, turns)),
           report.unassessed = UnassessedRequired(Targets, QuestionEvaluations(Targets, turns)),
           report.strengths = BuildStrengths(QuestionEvaluations(Targets, turns))
    PROVE  LET template == DeterministicSummary(report.overall_score, report.competencies,
                                                report.unassessed)
               narrative == ReportNarrative(Targets, report.overall_score, report.competencies,
                                            report.unassessed)
               pieces == UNION {ToSet(Pieces[Targets[t].name]) : t \in ToSet(report.unassessed)}
           IN  /\ narrative.insufficient = template.insufficient
               /\ narrative.recommendation = template.recommendation
               /\ ToSet(narrative.unassessed) = pieces \/ Len(narrative.unassessed) = MaxNamed
               /\ \A k \in DOMAIN report.strengths :
                     report.strengths[k][2] \in ToSet(narrative.strengths)
               /\ narrative.band # template.band =>
                     (report.overall_score + 50) \div 100 \in {35, 60, 80}
<1> DEFINE S == QuestionEvaluations(Targets, turns)
           X == Summaries(turns)
           score == OverallScore(Targets, S)
           U == UnassessedRequired(Targets, S)
           template == DeterministicSummary(score, S, U)
           narrative == ReportNarrative(Targets, score, S, U)
           lists == [k \in DOMAIN U |-> Pieces[Targets[U[k]].name]]
           strengths == [k \in DOMAIN S |-> S[k].strengths]
<1>1. /\ S \in Seq(X)
      /\ \A x \in X : x.score \in -1..100
      /\ Targets \in Seq(Target) /\ turns \in Seq(Turn(Targets))
  BY SummariesSay DEF LoopInv
<1>2. \A x \in X : x.score \in -1..100 /\ x.strengths \in Seq(Texts)
  BY <1>1, StrengthsAreTexts DEF Summaries
<1>3. score \in Nat
  BY OverallIsNatural
<1>4. U \in Seq(DOMAIN Targets)
  <2> DEFINE Q == {t \in DOMAIN Targets : /\ Targets[t].required
                                          /\ \A k \in DOMAIN S : S[k].target # t}
             n == Len(Targets)
  <2>1. U = InOrder(Q)
    BY DEF UnassessedRequired
  <2>2. n \in Nat /\ DOMAIN Targets = 1..n /\ Q \in SUBSET (1..n)
    BY <1>1
  <2> HIDE DEF Q, U, n
  <2>3. U \in Seq(Q)
    BY <2>1, <2>2, InOrderItems
  <2> QED BY <2>2, <2>3, WiderList
<1>5. /\ report.overall_score = score /\ report.competencies = S
      /\ report.unassessed = U /\ report.strengths = BuildStrengths(S)
  OBVIOUS
<1> HIDE DEF S, X, score, U
<1>6. /\ narrative.insufficient = template.insufficient
      /\ narrative.recommendation = template.recommendation
      /\ narrative.unassessed = Upto(FlattenSeq(lists), MaxNamed)
      /\ narrative.strengths = FlattenUnique(strengths)
      /\ narrative.band = Strength((score + 50) \div 100)
      /\ template.band = Strength(score \div 100)
  BY DEF ReportNarrative, DeterministicSummary
<1> HIDE DEF narrative, template
<1>7. \/ ToSet(narrative.unassessed) = UNION {ToSet(Pieces[Targets[t].name]) : t \in ToSet(U)}
      \/ Len(narrative.unassessed) = MaxNamed
  BY <1>1, <1>4, <1>6, UnassessedAreNamed
<1>8. \A k \in DOMAIN BuildStrengths(S) : BuildStrengths(S)[k][2] \in ToSet(narrative.strengths)
  BY <1>1, <1>2, <1>6, ListedStrengthsAreGiven
<1>9. narrative.band # template.band => (score + 50) \div 100 \in {35, 60, 80}
  BY <1>3, <1>6, BandsDiffer
<1> QED BY <1>5, <1>6, <1>7, <1>8, <1>9, Zenon DEF narrative, template

(***************************************************************************)
(* Whatever text the offline model is given (llm/fake_client.py), of any   *)
(* length and over any vocabulary: its excerpts, analyses and evaluations  *)
(* are what the interview takes for granted of a model, and so is the      *)
(* narrative of whatever interview is reported.                            *)
(***************************************************************************)
THEOREM OfflineModelAlwaysKeepsThePolicy == Spec => []OfflineModelKeepsThePolicy
<1>1. /\ \A lengths \in WordLengths : ExcerptIsWhole(lengths, ExcerptLimit)
      /\ \A lines \in Descriptions : AnalysisIsTheText(lines)
      /\ \A answer \in Answers : EvaluationFitsPolicy(answer, Names)
  <2>1. /\ \A lengths \in WordLengths : lengths \in Seq(Nat) \ {<<>>}
        /\ \A lines \in Descriptions : lines \in Seq(JobLine)
        /\ \A answer \in Answers : answer \in Seq(AnswerSentence)
        /\ ExcerptLimit \in Nat
    BY OfflineModelAssumption
  <2> QED BY <2>1, ExcerptsAreWhole, AnalysesAreTheText, EvaluationsFitPolicy, Zenon
<1>2. LoopInv /\ ReportInv => OfflineModelKeepsThePolicy
  <2> SUFFICES ASSUME LoopInv, ReportInv PROVE OfflineModelKeepsThePolicy
    OBVIOUS
  <2>1. ASSUME stage = "reported"
        PROVE  LET template == DeterministicSummary(report.overall_score, report.competencies,
                                                    report.unassessed)
                   narrative == ReportNarrative(Targets, report.overall_score,
                                                report.competencies, report.unassessed)
                   pieces == UNION {ToSet(Pieces[Targets[t].name]) : t \in ToSet(report.unassessed)}
               IN  /\ narrative.insufficient = template.insufficient
                   /\ narrative.recommendation = template.recommendation
                   /\ ToSet(narrative.unassessed) = pieces \/ Len(narrative.unassessed) = MaxNamed
                   /\ \A k \in DOMAIN report.strengths :
                         report.strengths[k][2] \in ToSet(narrative.strengths)
                   /\ narrative.band # template.band =>
                         (report.overall_score + 50) \div 100 \in {35, 60, 80}
    <3>1. PICK narrative \in Narratives : report = Reported(narrative)
      BY <2>1 DEF ReportInv
    <3> DEFINE S == QuestionEvaluations(Targets, turns)
    <3>2. /\ report.competencies = S
          /\ report.overall_score = OverallScore(Targets, S)
          /\ report.unassessed = UnassessedRequired(Targets, S)
          /\ report.strengths = BuildStrengths(S)
      BY <3>1 DEF Reported
    <3> QED BY <3>2, NarrativeIsTheReports, Zenon
  <2> QED BY <1>1, <2>1, Zenon DEF OfflineModelKeepsThePolicy
<1> QED BY <1>2, ReportInvHolds, PTL

-----------------------------------------------------------------------------
(***************************************************************************)
(* The study's inventory.  An assertion is told by the place it is read    *)
(* from; a claim is the places of one text.                                *)
(***************************************************************************)
Lists == {"strengths", "weaknesses", "summary"}
Places == (Nat \X Lists) \X Nat

TextAt(of, place) ==
    IF place[1][1] = Full THEN of[place[1][2]][place[2]]
    ELSE of.questions[place[1][1]][place[1][2]][place[2]]

Placed(of) ==
    {a \in [location : Places, text : STRING, source : Nat] :
        a.text = TextAt(of, a.location) /\ a.source = a.location[1][1]}

\* A text read from a list is an assertion at its place.
LEMMA EntryIsPlaced ==
    ASSUME NEW of, NEW number \in Nat, NEW name \in Lists, NEW j \in Nat, NEW text \in STRING,
           TextAt(of, <<<<number, name>>, j>>) = text
    PROVE  [location |-> <<<<number, name>>, j>>, text |-> text, source |-> number] \in Placed(of)
<1> DEFINE here == [location |-> <<<<number, name>>, j>>, text |-> text, source |-> number]
<1>1. <<<<number, name>>, j>> \in Places
  BY DEF Places
<1>2. here \in [location : Places, text : STRING, source : Nat]
  BY <1>1
<1>3. here.text = TextAt(of, here.location) /\ here.source = here.location[1][1]
  OBVIOUS
<1> QED BY <1>2, <1>3 DEF Placed

\* What has an item for each of a list's is a list of these items.
LEMMA ListAlike ==
    ASSUME NEW T, NEW list \in Seq(T), NEW X, NEW s, s = [j \in DOMAIN list |-> s[j]],
           \A j \in DOMAIN list : s[j] \in X
    PROVE  s \in Seq(X)
<1>1. Len(list) \in Nat /\ DOMAIN list = 1..Len(list)
  OBVIOUS
<1>2. s \in [1..Len(list) -> X]
  BY <1>1
<1> QED BY <1>1, <1>2

\* Each assertion of a report is at its place.
LEMMA AssertionsArePlaced ==
    ASSUME NEW of \in ReviewedReport
    PROVE  Assertions(of) \in Seq(Placed(of))
<1> DEFINE at(place, texts, source) ==
               [j \in DOMAIN texts |-> [location |-> <<place, j>>, text |-> texts[j], source |-> source]]
           n == Len(of.questions)
           both(k) == [i \in 1..2 |-> at(<<k, Kinds[i]>>, of.questions[k][Kinds[i]], k)]
           ofQuestion(k) == IF of.questions[k].sampled THEN FlattenSeq(both(k)) ELSE <<>>
           questions == [k \in DOMAIN of.questions |-> ofQuestion(k)]
           summary == at(<<Full, "summary">>, of.summary, Full)
           own == [i \in 1..2 |-> at(<<Full, Kinds[i]>>, of[Kinds[i]], Full)]
           X == Placed(of)
<1>1. Assertions(of) = FlattenSeq(questions) \o summary \o FlattenSeq(own)
  BY DEF Assertions
<1>2. /\ n \in Nat /\ DOMAIN of.questions = 1..n
      /\ \A k \in 1..n : of.questions[k] \in ReviewedQuestion
      /\ of.summary \in Seq(STRING)
      /\ of.strengths \in Seq(STRING) /\ of.weaknesses \in Seq(STRING)
  BY DEF ReviewedReport
<1>3. Kinds[1] = "strengths" /\ Kinds[2] = "weaknesses" /\ Full = 0
  BY DEF Kinds, Full
<1>4. ASSUME NEW k \in 1..n PROVE ofQuestion(k) \in Seq(X)
  <2>1. /\ of.questions[k].strengths \in Seq(STRING)
        /\ of.questions[k].weaknesses \in Seq(STRING)
        /\ k \in Nat /\ k # Full
    BY <1>2, <1>3 DEF ReviewedQuestion
  <2>2. ASSUME NEW i \in 1..2 PROVE both(k)[i] \in Seq(X)
    <3> DEFINE name == Kinds[i]
               list == of.questions[k][name]
               here == both(k)[i]
    <3>1. list \in Seq(STRING) /\ name \in Lists
      <4>1. i = 1 \/ i = 2
        OBVIOUS
      <4> QED BY <1>3, <2>1, <4>1 DEF Lists
    <3>2. \A j \in DOMAIN list : TextAt(of, <<<<k, name>>, j>>) = list[j]
      BY <2>1 DEF TextAt
    <3>3. /\ here = [j \in DOMAIN list |-> here[j]]
          /\ \A j \in DOMAIN list : here[j] = [location |-> <<<<k, name>>, j>>, text |-> list[j],
                                               source |-> k]
      OBVIOUS
    <3> HIDE DEF list, name, here
    <3>4. \A j \in DOMAIN list : j \in Nat /\ list[j] \in STRING
      BY <3>1
    <3>5. \A j \in DOMAIN list : here[j] \in Placed(of)
      BY <2>1, <3>1, <3>2, <3>3, <3>4, EntryIsPlaced
    <3>6. here \in Seq(X)
      BY <3>1, <3>3, <3>5, ListAlike
    <3> QED BY <3>6 DEF here
  <2> HIDE DEF X
  <2>3. both(k) \in Seq(Seq(X))
    <3>1. both(k) = [i \in 1..2 |-> both(k)[i]]
      OBVIOUS
    <3> HIDE DEF both
    <3> QED BY <2>2, <3>1
  <2> HIDE DEF both
  <2>4. FlattenSeq(both(k)) \in Seq(X)
    BY <2>3, FlattenedItems
  <2> QED BY <2>4
<1>5. summary \in Seq(X)
  <2> DEFINE list == of.summary
             name == "summary"
  <2>1. \A j \in DOMAIN list : TextAt(of, <<<<Full, name>>, j>>) = list[j]
    BY DEF TextAt
  <2>2. /\ summary = [j \in DOMAIN list |-> summary[j]]
        /\ \A j \in DOMAIN list : summary[j] = [location |-> <<<<Full, name>>, j>>,
                                                text |-> list[j], source |-> Full]
    OBVIOUS
  <2>3. list \in Seq(STRING) /\ name \in Lists /\ Full \in Nat
    BY <1>2, <1>3 DEF Lists
  <2> HIDE DEF list, name, summary
  <2>4. \A j \in DOMAIN list : j \in Nat /\ list[j] \in STRING
    BY <2>3
  <2>5. \A j \in DOMAIN list : summary[j] \in Placed(of)
    BY <2>1, <2>2, <2>3, <2>4, EntryIsPlaced
  <2> QED BY <2>2, <2>3, <2>5, ListAlike
<1>6. ASSUME NEW i \in 1..2 PROVE own[i] \in Seq(X)
  <2> DEFINE name == Kinds[i]
             list == of[name]
             here == own[i]
  <2>1. list \in Seq(STRING) /\ name \in Lists /\ Full \in Nat
    <3>1. i = 1 \/ i = 2
      OBVIOUS
    <3> QED BY <1>2, <1>3, <3>1 DEF Lists
  <2>2. \A j \in DOMAIN list : TextAt(of, <<<<Full, name>>, j>>) = list[j]
    BY DEF TextAt
  <2>3. /\ here = [j \in DOMAIN list |-> here[j]]
        /\ \A j \in DOMAIN list : here[j] = [location |-> <<<<Full, name>>, j>>, text |-> list[j],
                                             source |-> Full]
    OBVIOUS
  <2> HIDE DEF list, name, here
  <2>4. \A j \in DOMAIN list : j \in Nat /\ list[j] \in STRING
    BY <2>1
  <2>5. \A j \in DOMAIN list : here[j] \in Placed(of)
    BY <2>1, <2>2, <2>3, <2>4, EntryIsPlaced
  <2>6. here \in Seq(X)
    BY <2>1, <2>3, <2>5, ListAlike
  <2> QED BY <2>6 DEF here
<1> HIDE DEF X, ofQuestion, summary
<1>7. FlattenSeq(questions) \in Seq(X)
  <2>1. questions \in Seq(Seq(X))
    BY <1>2, <1>4
  <2> HIDE DEF questions
  <2> QED BY <2>1, FlattenedItems
<1>8. FlattenSeq(own) \in Seq(X)
  <2>1. own = [i \in 1..2 |-> own[i]]
    OBVIOUS
  <2> HIDE DEF own
  <2>2. own \in Seq(Seq(X))
    BY <1>6, <2>1
  <2> QED BY <2>2, FlattenedItems
<1> HIDE DEF questions, own
<1>9. FlattenSeq(questions) \o summary \in Seq(X)
  BY <1>5, <1>7, JoinedItems
<1> QED BY <1>1, <1>8, <1>9, JoinedItems DEF X

Claimed == [text : STRING, context : Nat, locations : Seq(Places)]

OneEachText(claims) == \A c, d \in DOMAIN claims : claims[c].text = claims[d].text => c = d

\* A list with one more item at its end.
LEMMA AppendedItems ==
    ASSUME NEW X, NEW s \in Seq(X), NEW x \in X
    PROVE  /\ Append(s, x) \in Seq(X) /\ Append(s, x) # <<>>
           /\ DOMAIN Append(s, x) = DOMAIN s \cup {Len(s) + 1}
           /\ \A c \in DOMAIN s : c # Len(s) + 1 /\ Append(s, x)[c] = s[c]
           /\ Append(s, x)[Len(s) + 1] = x
           /\ Items(Append(s, x)) = Items(s) \cup {x}
<1> DEFINE r == Append(s, x)
<1>1. /\ r \in Seq(X) /\ r # <<>> /\ Len(r) = Len(s) + 1 /\ Len(s) \in Nat
      /\ DOMAIN s = 1..Len(s) /\ DOMAIN r = 1..Len(s) + 1
      /\ \A c \in DOMAIN s : r[c] = s[c]
      /\ r[Len(s) + 1] = x
  OBVIOUS
<1> HIDE DEF r
<1>2. DOMAIN r = DOMAIN s \cup {Len(s) + 1} /\ \A c \in DOMAIN s : c # Len(s) + 1
  BY <1>1
<1>3. Items(r) = Items(s) \cup {x}
  BY <1>1, <1>2 DEF Items
<1> QED BY <1>1, <1>2, <1>3 DEF r

\* The claims become r: of the assertion a is claim m, and all else stays.
Gains(claims, a, r, m) ==
    /\ DOMAIN r = DOMAIN claims \cup {m}
    /\ \A c \in DOMAIN claims \ {m} : r[c] = claims[c] /\ claims[c].text # a.text
    /\ r[m].text = a.text
    /\ r[m].context \in {a.source, Full}
    /\ m \in DOMAIN claims =>
         /\ claims[m].text = a.text
         /\ r[m].context \in {claims[m].context, Full}
         /\ Items(r[m].locations) = Items(claims[m].locations) \cup {a.location}
    /\ m \notin DOMAIN claims => Items(r[m].locations) = {a.location}
    /\ r[m].locations # <<>>
    /\ r[m].locations[1] \in Items(r[m].locations)

\* What one assertion does to the claims before it: one of them is of its text, and of its
\* answer or of the whole interview.
LEMMA ClaimAdded ==
    ASSUME NEW of, NEW claims \in Seq(Claimed), OneEachText(claims),
           NEW a \in Placed(of), a.text # NoText
    PROVE  LET r == AddClaim(claims, a)
           IN  r \in Seq(Claimed) /\ \E m \in DOMAIN r : Gains(claims, a, r, m)
<1> DEFINE known == {c \in DOMAIN claims : claims[c].text = a.text}
           r == AddClaim(claims, a)
           made == [text |-> a.text, context |-> a.source, locations |-> <<a.location>>]
<1>1. a.text \in STRING /\ a.source \in Nat /\ a.location \in Places
  BY DEF Placed
<1>0. \A s : s \in Seq(Places) /\ s # <<>> => s[1] \in Items(s)
  BY DEF Items
<1>2. CASE known = {}
  <2> DEFINE m == Len(claims) + 1
             only == <<a.location>>
  <2>1. r = Append(claims, made)
    BY <1>2 DEF AddClaim
  <2>2. only \in Seq(Places) /\ only # <<>> /\ Items(only) = {a.location}
    <3>1. only \in Seq(Places) /\ only # <<>> /\ DOMAIN only = {1} /\ only[1] = a.location
      BY <1>1
    <3> HIDE DEF only
    <3> QED BY <3>1 DEF Items
  <2>3. made \in Claimed /\ made.text = a.text /\ made.context = a.source /\ made.locations = only
    <3> HIDE DEF only
    <3>1. made = [text |-> a.text, context |-> a.source, locations |-> only]
      BY DEF only
    <3> HIDE DEF made
    <3> QED BY <1>1, <2>2, <3>1 DEF Claimed
  <2> HIDE DEF made, r, only
  <2>4. /\ r \in Seq(Claimed)
        /\ DOMAIN r = DOMAIN claims \cup {m}
        /\ \A c \in DOMAIN claims : c # m /\ r[c] = claims[c]
        /\ r[m] = made
    BY <2>1, <2>3, AppendedItems
  <2>5. \A c \in DOMAIN claims : claims[c].text # a.text
    BY <1>2
  <2> HIDE DEF m
  <2>6. Gains(claims, a, r, m)
    BY <1>0, <2>2, <2>3, <2>4, <2>5 DEF Gains
  <2> QED BY <2>4, <2>6 DEF r
<1>3. CASE known # {}
  <2> DEFINE m == Min(known)
             context == IF claims[m].context # a.source THEN Full ELSE claims[m].context
             locations == Append(claims[m].locations, a.location)
  <2>1. known \in SUBSET Nat
    OBVIOUS
  <2>2. m \in DOMAIN claims /\ claims[m].text = a.text
    <3>1. m \in known
      <4> HIDE DEF known
      <4> QED BY <1>3, <2>1, MinOfPlaces
    <3> QED BY <3>1
  <2>3. r = [claims EXCEPT ![m].locations = Append(@, a.location),
                           ![m].context = IF @ # a.source THEN Full ELSE @]
    BY <1>3 DEF AddClaim
  <2> HIDE DEF known, m
  <2>4. claims[m] \in Claimed
    BY <2>2
  <2>5. /\ claims[m] = [text |-> claims[m].text, context |-> claims[m].context,
                        locations |-> claims[m].locations]
        /\ claims[m].context \in Nat /\ claims[m].locations \in Seq(Places)
    BY <2>4 DEF Claimed
  <2>6. /\ DOMAIN r = DOMAIN claims
        /\ \A c \in DOMAIN claims \ {m} : r[c] = claims[c]
        /\ r[m] = [text |-> a.text, context |-> context, locations |-> locations]
    BY <2>2, <2>3, <2>5
  <2>7. /\ locations \in Seq(Places) /\ locations # <<>>
        /\ Items(locations) = Items(claims[m].locations) \cup {a.location}
    BY <1>1, <2>5, AppendedItems
  <2>8. context \in Nat /\ context \in {a.source, Full} /\ context \in {claims[m].context, Full}
    BY <2>5 DEF Full
  <2> HIDE DEF locations, context
  <2>9. r[m] \in Claimed
    BY <1>1, <2>6, <2>7, <2>8 DEF Claimed
  <2>10. r \in Seq(Claimed)
    <3>1. \A c \in DOMAIN claims : r[c] \in Claimed
      BY <2>6, <2>9
    <3>2. r = [c \in DOMAIN claims |-> r[c]]
      BY <2>3
    <3> HIDE DEF r
    <3> QED BY <3>1, <3>2, ListAlike
  <2>11. \A c \in DOMAIN claims \ {m} : claims[c].text # a.text
    BY <2>2 DEF OneEachText
  <2> HIDE DEF r
  <2>12. r[m].text = a.text /\ r[m].context = context /\ r[m].locations = locations
    BY <2>6
  <2>13. Gains(claims, a, r, m)
    BY <1>0, <2>2, <2>6, <2>7, <2>8, <2>11, <2>12 DEF Gains
  <2>14. m \in DOMAIN r
    BY <2>2, <2>6
  <2> QED BY <2>10, <2>13, <2>14 DEF r
<1> QED BY <1>2, <1>3

\* Texts still have one claim each after it.
LEMMA StillOneEach ==
    ASSUME NEW claims, OneEachText(claims), NEW a, NEW r, NEW m, Gains(claims, a, r, m)
    PROVE  OneEachText(r)
<1> SUFFICES ASSUME NEW c \in DOMAIN r, NEW d \in DOMAIN r, r[c].text = r[d].text PROVE c = d
  BY DEF OneEachText
<1>1. \A e \in DOMAIN r : e # m => r[e].text # a.text /\ r[e] = claims[e] /\ e \in DOMAIN claims
  BY DEF Gains
<1>2. r[m].text = a.text
  BY DEF Gains
<1> QED BY <1>1, <1>2 DEF OneEachText

\* Claims of one text each stay so.
ClaimLists == {claims \in Seq(Claimed) : OneEachText(claims)}

\* An assertion leaves them one claim each.
LEMMA ClaimsStayLists ==
    ASSUME NEW of, NEW claims \in ClaimLists, NEW a \in Placed(of)
    PROVE  AddClaim(claims, a) \in ClaimLists
<1> DEFINE r == AddClaim(claims, a)
<1>1. claims \in Seq(Claimed) /\ OneEachText(claims)
  BY DEF ClaimLists
<1>2. CASE a.text = NoText
  BY <1>2 DEF AddClaim
<1>3. CASE a.text # NoText
  <2>1. r \in Seq(Claimed) /\ \E m \in DOMAIN r : Gains(claims, a, r, m)
    BY <1>1, <1>3, ClaimAdded
  <2> HIDE DEF r
  <2>2. OneEachText(r)
    BY <1>1, <2>1, StillOneEach
  <2>3. r \in ClaimLists
    BY <2>1, <2>2 DEF ClaimLists
  <2> QED BY <2>3 DEF r
<1> QED BY <1>2, <1>3

Holds(claim, a) ==
    /\ claim.text = a.text
    /\ claim.context \in {a.source, Full}
    /\ a.location \in Items(claim.locations)

\* The claims hold the first k assertions, and nothing else.
Gathered(list, k, claims) ==
    /\ claims \in Seq(Claimed)
    /\ OneEachText(claims)
    /\ \A c \in DOMAIN claims :
          /\ claims[c].text # NoText
          /\ claims[c].locations[1] \in Items(claims[c].locations)
          /\ \A l \in Items(claims[c].locations) :
                \E i \in 1..k : list[i].location = l /\ list[i].text = claims[c].text
    /\ \A i \in 1..k : list[i].text # NoText => \E c \in DOMAIN claims : Holds(claims[c], list[i])

\* The claims of the first k assertions and the next one are those of one more.
LEMMA OneMoreGathered ==
    ASSUME NEW of, NEW list \in Seq(Placed(of)), NEW k \in Nat, k + 1 \in DOMAIN list,
           NEW claims, Gathered(list, k, claims)
    PROVE  Gathered(list, k + 1, AddClaim(claims, list[k + 1]))
<1> DEFINE a == list[k + 1]
           r == AddClaim(claims, a)
<1>1. a \in Placed(of)
  OBVIOUS
<1>2. \A i \in 1..k + 1 : i \in 1..k \/ i = k + 1
  OBVIOUS
<1>3. 1..k \subseteq 1..k + 1 /\ k + 1 \in 1..k + 1
  OBVIOUS
<1>6. \A c \in DOMAIN claims :
        /\ claims[c].text # NoText
        /\ claims[c].locations[1] \in Items(claims[c].locations)
        /\ \A l \in Items(claims[c].locations) :
              \E i \in 1..k : list[i].location = l /\ list[i].text = claims[c].text
  BY DEF Gathered
<1>7. \A c \in DOMAIN claims : \A l \in Items(claims[c].locations) :
        \E i \in 1..k + 1 : list[i].location = l /\ list[i].text = claims[c].text
  <2> DEFINE before == 1..k
             now_too == 1..k + 1
  <2>1. before \subseteq now_too
    BY <1>3
  <2>2. \A c \in DOMAIN claims : \A l \in Items(claims[c].locations) :
          \E i \in before : list[i].location = l /\ list[i].text = claims[c].text
    BY <1>6
  <2> HIDE DEF before, now_too
  <2>3. \A c \in DOMAIN claims : \A l \in Items(claims[c].locations) :
          \E i \in now_too : list[i].location = l /\ list[i].text = claims[c].text
    BY <2>1, <2>2
  <2> QED BY <2>3 DEF now_too
<1>4. CASE a.text = NoText
  <2>1. r = claims
    BY <1>4 DEF AddClaim
  <2>2. list[k + 1].text = NoText
    BY <1>4
  <2> HIDE DEF a, r
  <2>3. \A i \in 1..k + 1 : list[i].text # NoText =>
           \E c \in DOMAIN claims : Holds(claims[c], list[i])
    BY <1>2, <2>2 DEF Gathered
  <2>5. Gathered(list, k + 1, claims)
    BY <1>6, <1>7, <2>3 DEF Gathered
  <2> QED BY <2>1, <2>5 DEF r, a
<1>5. CASE a.text # NoText
  <2> HIDE DEF a, r
  <2>0. claims \in Seq(Claimed) /\ OneEachText(claims)
    BY DEF Gathered
  <2>1. r \in Seq(Claimed)
    BY <1>1, <1>5, <2>0, ClaimAdded DEF r
  <2>2. PICK m \in DOMAIN r : Gains(claims, a, r, m)
    BY <1>1, <1>5, <2>0, ClaimAdded DEF r
  <2>3. OneEachText(r)
    BY <2>0, <2>2, StillOneEach
  <2>4. ASSUME NEW c \in DOMAIN r
        PROVE  /\ r[c].text # NoText
               /\ r[c].locations[1] \in Items(r[c].locations)
               /\ \A l \in Items(r[c].locations) :
                     \E i \in 1..k + 1 : list[i].location = l /\ list[i].text = r[c].text
    <3>1. CASE c # m
      <4>1. c \in DOMAIN claims /\ r[c] = claims[c]
        BY <2>2, <3>1 DEF Gains
      <4> QED BY <1>6, <1>7, <4>1
    <3>2. CASE c = m
      <4>1. ASSUME NEW l \in Items(r[m].locations)
            PROVE  \E i \in 1..k + 1 : list[i].location = l /\ list[i].text = a.text
        <5>1. CASE l = a.location
          BY <1>3, <5>1 DEF a
        <5>2. CASE l # a.location
          <6>1. m \in DOMAIN claims /\ claims[m].text = a.text /\ l \in Items(claims[m].locations)
            BY <2>2, <5>2 DEF Gains
          <6>2. PICK i \in 1..k + 1 : list[i].location = l /\ list[i].text = claims[m].text
            BY <1>7, <6>1, Zenon
          <6> QED BY <6>1, <6>2
        <5> QED BY <5>1, <5>2
      <4> QED BY <1>5, <2>2, <3>2, <4>1 DEF Gains
    <3> QED BY <3>1, <3>2
  <2>5. ASSUME NEW i \in 1..k + 1, list[i].text # NoText
        PROVE  \E c \in DOMAIN r : Holds(r[c], list[i])
    <3>1. CASE i = k + 1
      <4>1. a.location \in Items(r[m].locations)
        BY <2>2 DEF Gains
      <4> QED BY <2>2, <3>1, <4>1 DEF Holds, a, Gains
    <3>2. CASE i \in 1..k
      <4>1. PICK c \in DOMAIN claims : Holds(claims[c], list[i])
        BY <2>5, <3>2 DEF Gathered
      <4>2. CASE c # m
        <5>1. c \in DOMAIN r /\ r[c] = claims[c]
          BY <2>2, <4>2 DEF Gains
        <5> QED BY <4>1, <5>1
      <4>3. CASE c = m
        BY <2>2, <4>1, <4>3 DEF Holds, Gains
      <4> QED BY <4>2, <4>3
    <3> QED BY <1>2, <3>1, <3>2
  <2>6. Gathered(list, k + 1, r)
    BY <2>1, <2>3, <2>4, <2>5 DEF Gathered
  <2> QED BY <2>6 DEF r, a
<1> QED BY <1>4, <1>5

\* A report's claims hold all its assertions.
LEMMA ClaimsHoldAssertions ==
    ASSUME NEW of \in ReviewedReport
    PROVE  Gathered(Assertions(of), Len(Assertions(of)), Claims(of))
<1> DEFINE list == Assertions(of)
           n == Len(list)
           V == ClaimLists
           none == <<>>
           Folds(f) == f = [k \in 0..n |-> IF k = 0 THEN <<>> ELSE AddClaim(f[k - 1], list[k])]
           claims == CHOOSE f : Folds(f)
<1>0. list \in Seq(Placed(of))
  BY AssertionsArePlaced
<1>2. Claims(of) = claims[n]
  BY DEF Claims
<1> HIDE DEF list
<1>1. n \in Nat /\ DOMAIN list = 1..n /\ \A k \in 1..n : list[k] \in Placed(of)
  BY <1>0
<1> HIDE DEF n
<1>3. none \in V /\ Gathered(list, 0, none)
  <2>1. none \in Seq(Claimed) /\ DOMAIN none = {} /\ 1..0 = {}
    OBVIOUS
  <2> HIDE DEF none
  <2> QED BY <2>1 DEF ClaimLists, OneEachText, Gathered
<1>4. \E f : Folds(f)
  <2> DEFINE step == [p \in V \X (1..n) |-> AddClaim(p[1], list[p[2]])]
  <2> HIDE DEF V
  <2>1. step \in [Pairs(V, n) -> V]
    BY <1>1, ClaimsStayLists DEF Pairs, V
  <2>2. \A v \in V, k \in 1..n : step[<<v, k>>] = AddClaim(v, list[k])
    OBVIOUS
  <2> HIDE DEF step
  <2>3. PICK f : Follows(f, V, none, n, step)
    <3> HIDE DEF none
    <3> QED BY <1>1, <1>3, <2>1, Recursion
  <2>4. \A k \in 1..n : f[k - 1] \in V /\ f[k] = AddClaim(f[k - 1], list[k])
    <3>1. \A k \in 1..n : k - 1 \in 0..n
      BY <1>1
    <3> QED BY <2>2, <2>3, <3>1 DEF Follows
  <2>5. f = [k \in 0..n |-> f[k]] /\ f[0] = <<>>
    BY <2>3 DEF Follows
  <2>6. \A k \in 0..n : f[k] = IF k = 0 THEN <<>> ELSE AddClaim(f[k - 1], list[k])
    <3>1. \A k \in 0..n : k # 0 => k \in 1..n
      BY <1>1
    <3> QED BY <2>4, <2>5, <3>1
  <2>7. Folds(f)
    BY <2>5, <2>6
  <2> HIDE DEF Folds
  <2> QED BY <2>7
<1>5. Folds(claims)
  <2> HIDE DEF Folds
  <2> QED BY <1>4
<1>6. claims[0] = none /\ \A k \in 0..n : k # 0 => claims[k] = AddClaim(claims[k - 1], list[k])
  <2> HIDE DEF claims
  <2> QED BY <1>1, <1>5
<1> HIDE DEF claims, Folds, none
<1> DEFINE T == {k \in Nat : k <= n => Gathered(list, k, claims[k])}
<1>7. 0 \in T
  BY <1>3, <1>6
<1>8. ASSUME NEW k \in T PROVE k + 1 \in T
  <2>0. k \in Nat
    OBVIOUS
  <2> SUFFICES ASSUME k + 1 <= n PROVE Gathered(list, k + 1, claims[k + 1])
    OBVIOUS
  <2>1. Gathered(list, k, claims[k])
    BY <1>1, <2>0
  <2>2. k + 1 \in 1..n /\ k + 1 \in 0..n /\ k + 1 # 0 /\ (k + 1) - 1 = k
    BY <1>1, <2>0
  <2>3. claims[k + 1] = AddClaim(claims[k], list[k + 1])
    BY <1>6, <2>2
  <2> QED BY <1>0, <1>1, <2>0, <2>1, <2>2, <2>3, OneMoreGathered
<1>9. T = Nat
  <2>1. T \in SUBSET Nat
    OBVIOUS
  <2> HIDE DEF T
  <2> QED BY <1>7, <1>8, <2>1, SetInduction
<1>10. n \in T
  <2> HIDE DEF T
  <2> QED BY <1>1, <1>9
<1>11. Gathered(list, n, claims[n])
  BY <1>1, <1>10
<1> QED BY <1>2, <1>11 DEF n, list

\* Any report of the study: a text's claim is its only one, and of its answer.
LEMMA AssertionsAreReviewedOnce ==
    ASSUME NEW of \in ReviewedReport
    PROVE  AssertionsReviewedOnce(of)
<1> DEFINE list == Assertions(of)
           n == Len(list)
           claims == Claims(of)
<1>1. list \in Seq(Placed(of)) /\ Gathered(list, n, claims)
  BY AssertionsArePlaced, ClaimsHoldAssertions
<1> HIDE DEF list, claims
<1>2. n \in Nat /\ DOMAIN list = 1..n /\ \A i \in 1..n : list[i] \in Placed(of)
  BY <1>1
<1>3. \A i \in 1..n : /\ list[i].text = TextAt(of, list[i].location)
                      /\ list[i].source = list[i].location[1][1]
  BY <1>2 DEF Placed
<1> HIDE DEF n
<1>4. /\ claims \in Seq(Claimed) /\ OneEachText(claims)
      /\ \A c \in DOMAIN claims :
            /\ claims[c].text # NoText
            /\ claims[c].locations[1] \in Items(claims[c].locations)
            /\ \A l \in Items(claims[c].locations) :
                  \E i \in 1..n : list[i].location = l /\ list[i].text = claims[c].text
      /\ \A i \in 1..n : list[i].text # NoText => \E c \in DOMAIN claims : Holds(claims[c], list[i])
  BY <1>1 DEF Gathered
<1>5. ASSUME NEW c \in DOMAIN claims
      PROVE  /\ \A l : Contains(claims[c].locations, l) <=> l \in Items(claims[c].locations)
             /\ \A l \in Items(claims[c].locations) : claims[c].text = TextAt(of, l)
  <2>1. claims[c] \in Claimed
    BY <1>4
  <2>2. claims[c].locations \in Seq(Places)
    BY <2>1 DEF Claimed
  <2> DEFINE s == claims[c].locations
  <2>3. DOMAIN s = 1..Len(s)
    BY <2>2
  <2> HIDE DEF s
  <2>4. \A l : Contains(s, l) <=> l \in Items(s)
    BY <2>3 DEF Contains, Items
  <2>5. ASSUME NEW l \in Items(s) PROVE claims[c].text = TextAt(of, l)
    <3>1. PICK i \in 1..n : list[i].location = l /\ list[i].text = claims[c].text
      BY <1>4, <2>5, Zenon DEF s
    <3> QED BY <1>3, <3>1
  <2> QED BY <2>4, <2>5 DEF s
<1>6. ASSUME NEW i \in 1..n, list[i].text # NoText
      PROVE  \E c \in DOMAIN claims :
                /\ claims[c].text = list[i].text /\ claims[c].context \in {list[i].source, Full}
                /\ Contains(claims[c].locations, list[i].location)
                /\ \A d \in DOMAIN claims : Contains(claims[d].locations, list[i].location) => d = c
  <2>1. PICK c \in DOMAIN claims : Holds(claims[c], list[i])
    BY <1>4, <1>6
  <2>2. \A d \in DOMAIN claims :
           Contains(claims[d].locations, list[i].location) => claims[d].text = list[i].text
    BY <1>3, <1>5
  <2>3. claims[c].text = list[i].text /\ claims[c].context \in {list[i].source, Full}
    BY <2>1 DEF Holds
  <2>4. Contains(claims[c].locations, list[i].location)
    BY <1>5, <2>1 DEF Holds
  <2>5. \A d \in DOMAIN claims : Contains(claims[d].locations, list[i].location) => d = c
    BY <1>4, <2>2, <2>3 DEF OneEachText
  <2> QED BY <2>3, <2>4, <2>5
<1>7. ASSUME NEW c \in DOMAIN claims, claims[c].context # Full
      PROVE  BlindLocation(claims[c]) = claims[c].context
  <2>1. PICK i \in 1..n : /\ list[i].location = claims[c].locations[1]
                          /\ list[i].text = claims[c].text
    BY <1>4
  <2>2. list[i].text # NoText
    BY <1>4, <2>1
  <2>3. PICK d \in DOMAIN claims : Holds(claims[d], list[i])
    BY <1>4, <2>2
  <2>4. d = c
    BY <1>4, <2>1, <2>3 DEF Holds, OneEachText
  <2>5. claims[c].context = list[i].source
    BY <1>7, <2>3, <2>4 DEF Holds
  <2> QED BY <1>3, <2>1, <2>5 DEF BlindLocation
<1>8. \A a \in Range(list) : \E i \in 1..n : a = list[i]
  BY <1>2 DEF Range
<1> QED BY <1>6, <1>7, <1>8 DEF AssertionsReviewedOnce, list, claims

\* Whatever a reviewer says of a string.
LEMMA CountedBySource == ASSUME NEW own, NEW tiers PROVE SupportedBySource(own, tiers)
<1> SUFFICES ASSUME NEW judgment \in Judgments(DOMAIN tiers)
    PROVE  /\ Counted(own, tiers, judgment).column = "automatically_attributed" =>
               \A a \in DOMAIN tiers : IF a = own THEN tiers[a] = "exact" ELSE tiers[a] = "none"
           /\ Counted(own, tiers, judgment).cross =>
               judgment.verdict = "supported" /\ judgment.sources \ {own} # {}
  BY DEF SupportedBySource
<1>1. /\ judgment.verdict \in {"supported", "unsupported", "cannot_tell"}
      /\ judgment.verdict = "supported" => judgment.sources # {}
  BY DEF Judgments
<1>2. Status(own, tiers) = "unique_target_exact" =>
        {a \in DOMAIN tiers : tiers[a] # "none"} = {own} /\ tiers[own] = "exact"
  BY DEF Status
<1>3. CASE ~NeedsReview(own, tiers)
  <2>1. {a \in DOMAIN tiers : tiers[a] # "none"} = {own} /\ tiers[own] = "exact"
    BY <1>2, <1>3 DEF NeedsReview
  <2>2. ~Counted(own, tiers, judgment).cross
    BY <1>3 DEF Counted
  <2> QED BY <2>1, <2>2
<1>4. CASE NeedsReview(own, tiers)
  <2>1. Counted(own, tiers, judgment).column = judgment.verdict
        \/ Counted(own, tiers, judgment).column = "human_supported"
    BY <1>4 DEF Counted
  <2>2. Counted(own, tiers, judgment).column # "automatically_attributed"
    BY <1>1, <2>1
  <2>3. Counted(own, tiers, judgment).cross =>
          judgment.verdict = "supported" /\ own \notin judgment.sources
    BY <1>4 DEF Counted
  <2> QED BY <1>1, <2>2, <2>3
<1> QED BY <1>3, <1>4

\* The study's instance of the report's operators is the report's operators.
LEMMA ReportsAlike ==
    ASSUME NEW targets, NEW summaries
    PROVE  Reports!OverallScore(targets, summaries) = OverallScore(targets, summaries)
<1>1. ASSUME NEW c PROVE Reports!ScoresIn(targets, summaries, c) = ScoresIn(targets, summaries, c)
  BY DEF Reports!ScoresIn, Reports!Sublist, Reports!InOrder, Reports!OrderedBy, Reports!Scored,
         ScoresIn, Sublist, InOrder, OrderedBy, Scored, Cardinality, Reports!Cardinality
<1>2. ASSUME NEW s PROVE Reports!SumOfScores(s) = SumOfScores(s)
  BY DEF Reports!SumOfScores, Reports!Total, SumOfScores, Total
<1>3. Reports!CategoryWeight = CategoryWeight
  BY DEF Reports!CategoryWeight, CategoryWeight
<1>4. ASSUME NEW S PROVE Reports!Max(S) = Max(S)
  BY DEF Reports!Max, Max
<1> DEFINE scored(c) == ScoresIn(targets, summaries, c)
           theirs(c) == Reports!ScoresIn(targets, summaries, c)
           weight(c) == IF scored(c) = <<>> THEN 0 ELSE CategoryWeight[c]
           their_weight(c) == IF theirs(c) = <<>> THEN 0 ELSE Reports!CategoryWeight[c]
           count(c) == Max({1, Len(scored(c))})
           their_count(c) == Reports!Max({1, Len(theirs(c))})
           total(c) == SumOfScores(scored(c))
           their_total(c) == Reports!SumOfScores(theirs(c))
           score(w1, w2, w3, n1, n2, n3, t1, t2, t3) ==
               LET weights == (w1 + w2 + w3) * (n1 * n2 * n3)
                   sum == w1 * t1 * (n2 * n3) + w2 * t2 * (n1 * n3) + w3 * t3 * (n1 * n2)
               IN  IF weights = 0 THEN 0 ELSE (200 * sum + weights) \div (2 * weights)
<1>5. OverallScore(targets, summaries) =
        score(weight("competency"), weight("technology"), weight("task"),
              count("competency"), count("technology"), count("task"),
              total("competency"), total("technology"), total("task"))
  BY DEF OverallScore
<1>6. Reports!OverallScore(targets, summaries) =
        score(their_weight("competency"), their_weight("technology"), their_weight("task"),
              their_count("competency"), their_count("technology"), their_count("task"),
              their_total("competency"), their_total("technology"), their_total("task"))
  BY DEF Reports!OverallScore
<1> HIDE DEF score
<1>7. ASSUME NEW c
      PROVE  their_weight(c) = weight(c) /\ their_count(c) = count(c) /\ their_total(c) = total(c)
  <2>1. theirs(c) = scored(c)
    BY <1>1
  <2> HIDE DEF theirs, scored
  <2> QED BY <1>2, <1>3, <1>4, <2>1
<1> HIDE DEF weight, count, total, their_weight, their_count, their_total
<1> QED BY <1>5, <1>6, <1>7

\* The weighted parts over the other denominators are the parts over one.
LEMMA PartsOverOne ==
    ASSUME NEW p1 \in Nat, NEW p2 \in Nat, NEW p3 \in Nat,
           NEW n1 \in Nat, NEW n2 \in Nat, NEW n3 \in Nat
    PROVE  (p1 * n2 + p2 * n1) * n3 + p3 * (n1 * n2)
             = p1 * (n2 * n3) + p2 * (n1 * n3) + p3 * (n1 * n2)
<1> DEFINE a == p1 * n2
           b == p2 * n1
<1>1. a \in Nat /\ b \in Nat
  OBVIOUS
<1>2. a * n3 = p1 * (n2 * n3) /\ b * n3 = p2 * (n1 * n3)
  OBVIOUS
<1> HIDE DEF a, b
<1>3. (a + b) * n3 = a * n3 + b * n3
  BY <1>1
<1> QED BY <1>2, <1>3 DEF a, b

\* The application's scores of a category are the study's.
LEMMA SameScores ==
    ASSUME NEW questions \in Seq(ScoredQuestion), NEW c
    PROVE  LET summaries == [k \in DOMAIN questions |-> [target |-> k, score |-> questions[k].score]]
               theirs == ScoresIn(questions, summaries, c)
               ours == Sublist(questions, {k \in DOMAIN questions :
                                             questions[k].score >= 0 /\ questions[k].category = c})
           IN  /\ Len(ours) \in Nat /\ Len(theirs) = Len(ours)
               /\ ours = <<>> <=> Len(ours) = 0
               /\ theirs = <<>> <=> Len(ours) = 0
               /\ Total([k \in DOMAIN ours |-> ours[k].score]) \in Nat
               /\ SumOfScores(theirs) = Total([k \in DOMAIN ours |-> ours[k].score])
<1> DEFINE summaries == [k \in DOMAIN questions |-> [target |-> k, score |-> questions[k].score]]
           X == [target : Nat, score : Int]
           P == {k \in DOMAIN questions : questions[k].score >= 0 /\ questions[k].category = c}
           n == Cardinality(P)
           o == InOrder(P)
           theirs == Sublist(summaries, P)
           ours == Sublist(questions, P)
           scores == [k \in DOMAIN ours |-> ours[k].score]
           their_scores == [k \in DOMAIN theirs |-> theirs[k].score]
<1>1. /\ Len(questions) \in Nat /\ DOMAIN questions = 1..Len(questions)
      /\ \A k \in DOMAIN questions : questions[k].score \in Int
  <2>1. \A q \in ScoredQuestion : q.score \in Int
    <3> DEFINE names == DOMAIN Weights
               range == -1..100
    <3>1. ScoredQuestion = [category : names, score : range] /\ range \subseteq Int
      BY DEF ScoredQuestion
    <3> HIDE DEF names, range
    <3> QED BY <3>1
  <2>2. \A k \in DOMAIN questions : questions[k] \in ScoredQuestion
    OBVIOUS
  <2> QED BY <2>1, <2>2
<1>2. summaries \in Seq(X) /\ DOMAIN summaries = DOMAIN questions
  BY <1>1
<1>3. \A k \in DOMAIN questions : summaries[k].target = k /\ summaries[k].score = questions[k].score
  OBVIOUS
<1> HIDE DEF summaries
<1>4. ScoresIn(questions, summaries, c) = theirs
  <2>1. P = {k \in DOMAIN summaries : /\ Scored(summaries[k])
                                      /\ questions[summaries[k].target].category = c}
    BY <1>2, <1>3 DEF Scored
  <2>2. ScoresIn(questions, summaries, c) =
          Sublist(summaries, {k \in DOMAIN summaries :
                                /\ Scored(summaries[k])
                                /\ questions[summaries[k].target].category = c})
    BY DEF ScoresIn
  <2> HIDE DEF P
  <2> QED BY <2>1, <2>2
<1>5. \A p \in P : p \in DOMAIN questions /\ questions[p].score \in Nat
  BY <1>1
<1>6. P \in SUBSET (DOMAIN questions) /\ P \in SUBSET (DOMAIN summaries)
  BY <1>2
<1> HIDE DEF P, X
<1>7. /\ n \in Nat /\ o \in [1..n -> P]
      /\ ours \in Seq(ScoredQuestion) /\ Len(ours) = n
      /\ \A k \in 1..n : ours[k] = questions[o[k]]
  BY <1>6, SublistItems, ZenonT(60)
<1>8. /\ theirs \in Seq(X) /\ Len(theirs) = n
      /\ \A k \in 1..n : theirs[k] = summaries[o[k]]
  BY <1>2, <1>6, SublistItems, ZenonT(60)
<1> HIDE DEF n, o, ours, theirs
<1>9. DOMAIN ours = 1..n /\ DOMAIN theirs = 1..n
  BY <1>7, <1>8
<1>10. \A k \in 1..n : ours[k].score \in Nat /\ theirs[k].score = ours[k].score
  <2>1. \A k \in 1..n : o[k] \in DOMAIN questions /\ questions[o[k]].score \in Nat
    BY <1>5, <1>7
  <2> QED BY <1>3, <1>7, <1>8, <2>1
<1>11. their_scores = scores
  BY <1>9, <1>10
<1>12. scores \in Seq(Nat)
  BY <1>7, <1>9, <1>10
<1>13. SumOfScores(theirs) = Total(their_scores)
  BY DEF SumOfScores
<1> HIDE DEF scores, their_scores
<1>14. Total(scores) \in Nat
  <2> DEFINE none == 0
  <2>1. none \in Nat
    OBVIOUS
  <2> HIDE DEF none
  <2> QED BY <1>12, <2>1, TotalBetween
<1>15. (ours = <<>> <=> n = 0) /\ (theirs = <<>> <=> n = 0)
  BY <1>7, <1>8
<1> QED BY <1>4, <1>7, <1>8, <1>11, <1>13, <1>14, <1>15 DEF summaries, ours, scores, P

\* The two give the same advice.
LEMMA AdviceAlike ==
    ASSUME NEW x \in Nat
    PROVE  Reports!DeriveRecommendation(x) =
             IF x >= 8500 THEN "strong_hire" ELSE IF x >= 6500 THEN "hire"
             ELSE IF x >= 4500 THEN "consider" ELSE "no_hire"
<1>1. CASE x >= 8500
  <2>1. x \notin 6500..8499
    BY <1>1
  <2>2. x \notin 4500..6499
    BY <1>1
  <2> QED BY <1>1, <2>1, <2>2 DEF Reports!DeriveRecommendation
<1>2. CASE x \in 6500..8499
  <2>1. ~(x >= 8500) /\ x >= 6500 /\ x \notin 4500..6499
    BY <1>2
  <2> QED BY <1>2, <2>1 DEF Reports!DeriveRecommendation
<1>3. CASE x \in 4500..6499
  <2>1. ~(x >= 8500) /\ ~(x >= 6500) /\ x >= 4500 /\ x \notin 6500..8499
    BY <1>3
  <2> QED BY <1>3, <2>1 DEF Reports!DeriveRecommendation
<1>4. CASE x \in 0..4499
  <2>1. ~(x >= 8500) /\ ~(x >= 6500) /\ ~(x >= 4500)
    BY <1>4
  <2>2. x \notin 6500..8499
    BY <1>4
  <2>3. x \notin 4500..6499
    BY <1>4
  <2> QED BY <2>1, <2>2, <2>3 DEF Reports!DeriveRecommendation
<1> QED BY <1>1, <1>2, <1>3, <1>4

(***************************************************************************)
(* The study's arithmetic, on any scores.                                  *)
(***************************************************************************)
LEMMA ScoresAgree ==
    ASSUME NEW questions \in Seq(ScoredQuestion)
    PROVE  AgreesWithReport(questions)
<1> DEFINE summaries == [k \in DOMAIN questions |-> [target |-> k, score |-> questions[k].score]]
           theirs(c) == ScoresIn(questions, summaries, c)
           of(c) == Sublist(questions, {k \in DOMAIN questions :
                                          questions[k].score >= 0 /\ questions[k].category = c})
           sum(c) == Total([k \in DOMAIN of(c) |-> of(c)[k].score])
           by == {c \in DOMAIN Weights : of(c) # <<>>}
           weighted(c) == IF c \notin by THEN <<0, 1>> ELSE <<Weights[c] * sum(c), Len(of(c))>>
           weight(c) == IF c \in by THEN Weights[c] ELSE 0
           their_weight(c) == IF theirs(c) = <<>> THEN 0 ELSE CategoryWeight[c]
           count(c) == Max({1, Len(theirs(c))})
           all_weights == weight("competency") + weight("technology") + weight("task")
           total == Plus(Plus(weighted("competency"), weighted("technology")), weighted("task"))
           all == all_weights * total[2]
           score == IF by = {} THEN 0 ELSE (200 * total[1] + all) \div (2 * all)
           n1 == count("competency")
           n2 == count("technology")
           n3 == count("task")
           p1 == weight("competency") * SumOfScores(theirs("competency"))
           p2 == weight("technology") * SumOfScores(theirs("technology"))
           p3 == weight("task") * SumOfScores(theirs("task"))
           their_sum == p1 * (n2 * n3) + p2 * (n1 * n3) + p3 * (n1 * n2)
           weights == all_weights * (n1 * n2 * n3)
           advice(x) == IF x >= 8500 THEN "strong_hire" ELSE IF x >= 6500 THEN "hire"
                        ELSE IF x >= 4500 THEN "consider" ELSE "no_hire"
<1>1. CalculatedScore(questions) = score
  BY Zenon DEF CalculatedScore
<1>15. Calculated(questions) = <<CalculatedScore(questions), advice(CalculatedScore(questions))>>
  BY DEF Calculated
<1>2. /\ DOMAIN Weights = {"competency", "technology", "task"}
      /\ \A c \in DOMAIN Weights : Weights[c] \in Nat /\ Weights[c] > 0
      /\ CategoryWeight = Weights
  BY DEF Weights, CategoryWeight
<1>3. ASSUME NEW c \in DOMAIN Weights
      PROVE  /\ Len(of(c)) \in Nat /\ Len(theirs(c)) = Len(of(c))
             /\ of(c) = <<>> <=> Len(of(c)) = 0
             /\ theirs(c) = <<>> <=> Len(of(c)) = 0
             /\ sum(c) \in Nat /\ SumOfScores(theirs(c)) = sum(c)
  BY SameScores
<1> HIDE DEF theirs, of, sum
<1>4. ASSUME NEW c \in DOMAIN Weights
      PROVE  /\ c \in by <=> Len(of(c)) # 0
             /\ weight(c) \in Nat /\ their_weight(c) = weight(c)
             /\ weight(c) = 0 <=> c \notin by
             /\ count(c) \in Nat /\ count(c) > 0
             /\ weighted(c) = <<weight(c) * SumOfScores(theirs(c)), count(c)>>
             /\ weight(c) * SumOfScores(theirs(c)) \in Nat
  <2> DEFINE m == Len(of(c))
  <2>1. m \in Nat /\ (of(c) = <<>> <=> m = 0) /\ (theirs(c) = <<>> <=> m = 0) /\ sum(c) \in Nat
    BY <1>3
  <2>2. c \in by <=> m # 0
    BY <2>1
  <2> HIDE DEF m, by
  <2>3. weight(c) \in Nat /\ (weight(c) = 0 <=> c \notin by)
    BY <1>2, <2>1
  <2>4. their_weight(c) = weight(c)
    BY <1>2, <2>1, <2>2
  <2>5. count(c) = IF m = 0 THEN 1 ELSE m
    <3>1. count(c) = Max({1, m})
      BY <1>3 DEF m
    <3>2. \E x \in {1, m} : \A y \in {1, m} : x >= y
      BY <2>1
    <3>3. Max({1, m}) \in {1, m} /\ \A y \in {1, m} : Max({1, m}) >= y
      BY <3>2 DEF Max
    <3> HIDE DEF count
    <3> QED BY <2>1, <3>1, <3>3
  <2>6. SumOfScores(theirs(c)) = sum(c)
    BY <1>3
  <2>7. weighted(c) = <<weight(c) * sum(c), IF m = 0 THEN 1 ELSE m>>
    <3>1. CASE c \in by
      BY <2>1, <2>2, <3>1 DEF m
    <3>2. CASE c \notin by
      <4>1. weight(c) * sum(c) = 0 /\ weighted(c) = <<0, 1>> /\ m = 0
        BY <2>1, <2>2, <3>2
      <4> QED BY <4>1
    <3> QED BY <3>1, <3>2
  <2> HIDE DEF weight, weighted, count, their_weight
  <2>8. weight(c) * sum(c) \in Nat
    BY <2>1, <2>3
  <2> QED BY <2>1, <2>2, <2>3, <2>4, <2>5, <2>6, <2>7, <2>8 DEF m
<1>5. OverallScore(questions, summaries) =
        IF weights = 0 THEN 0 ELSE (200 * their_sum + weights) \div (2 * weights)
  <2> DEFINE w1 == their_weight("competency")
             w2 == their_weight("technology")
             w3 == their_weight("task")
             t1 == SumOfScores(theirs("competency"))
             t2 == SumOfScores(theirs("technology"))
             t3 == SumOfScores(theirs("task"))
             s == w1 * t1 * (n2 * n3) + w2 * t2 * (n1 * n3) + w3 * t3 * (n1 * n2)
             w == (w1 + w2 + w3) * (n1 * n2 * n3)
  <2>1. OverallScore(questions, summaries) = IF w = 0 THEN 0 ELSE (200 * s + w) \div (2 * w)
    BY DEF OverallScore, theirs
  <2>2. w1 = weight("competency") /\ w2 = weight("technology") /\ w3 = weight("task")
    BY <1>2, <1>4
  <2> HIDE DEF w1, w2, w3, t1, t2, t3, n1, n2, n3, weight
  <2>3. s = their_sum /\ w = weights
    BY <2>2 DEF t1, t2, t3
  <2> HIDE DEF s, w, their_sum, weights
  <2> QED BY <2>1, <2>3
<1>6. /\ n1 \in Nat /\ n1 > 0 /\ n2 \in Nat /\ n2 > 0 /\ n3 \in Nat /\ n3 > 0
      /\ p1 \in Nat /\ p2 \in Nat /\ p3 \in Nat
      /\ weighted("competency") = <<p1, n1>>
      /\ weighted("technology") = <<p2, n2>>
      /\ weighted("task") = <<p3, n3>>
      /\ all_weights \in Nat
  BY <1>2, <1>4
<1>7. all_weights = 0 <=> by = {}
  <2>1. by = {} <=> \A c \in DOMAIN Weights : c \notin by
    OBVIOUS
  <2> HIDE DEF by, weight
  <2>2. /\ weight("competency") \in Nat /\ weight("technology") \in Nat /\ weight("task") \in Nat
        /\ weight("competency") = 0 <=> "competency" \notin by
        /\ weight("technology") = 0 <=> "technology" \notin by
        /\ weight("task") = 0 <=> "task" \notin by
    BY <1>2, <1>4
  <2> QED BY <1>2, <2>1, <2>2
<1> HIDE DEF weighted, n1, n2, n3, p1, p2, p3, all_weights, by
<1>8. total = <<their_sum, n1 * n2 * n3>>
  <2>1. Plus(weighted("competency"), weighted("technology")) = <<p1 * n2 + p2 * n1, n1 * n2>>
    BY <1>6 DEF Plus
  <2>2. total = <<(p1 * n2 + p2 * n1) * n3 + p3 * (n1 * n2), n1 * n2 * n3>>
    BY <1>6, <2>1 DEF Plus
  <2> QED BY <1>6, <2>2, PartsOverOne
<1>9. total[1] = their_sum /\ all = weights
  <2> HIDE DEF total, their_sum
  <2> QED BY <1>8
<1>10. weights \in Nat /\ their_sum \in Nat /\ (weights = 0 <=> by = {})
  <2> DEFINE n == n1 * n2 * n3
  <2>1. n \in Nat /\ n > 0
    <3>1. n1 * n2 \in Nat /\ n1 * n2 > 0
      BY <1>6
    <3> QED BY <1>6, <3>1
  <2>2. their_sum \in Nat
    <3> DEFINE a == n2 * n3
               b == n1 * n3
               c == n1 * n2
    <3>1. a \in Nat /\ b \in Nat /\ c \in Nat
      BY <1>6
    <3> HIDE DEF a, b, c
    <3>2. p1 * a \in Nat /\ p2 * b \in Nat /\ p3 * c \in Nat
      BY <1>6, <3>1
    <3> QED BY <3>2 DEF a, b, c
  <2>3. weights = all_weights * n
    OBVIOUS
  <2> HIDE DEF n, weights, their_sum
  <2> QED BY <1>6, <1>7, <2>1, <2>2, <2>3
<1> HIDE DEF total, all, weights, their_sum
<1>11. score = OverallScore(questions, summaries)
  BY <1>5, <1>9, <1>10
<1>12. score \in Nat
  <2>1. CASE by = {}
    BY <2>1
  <2>2. CASE by # {}
    <3> DEFINE a == 200 * their_sum + weights
               b == 2 * weights
    <3>1. a \in Nat /\ b \in Nat /\ b > 0
      BY <1>10, <2>2
    <3>2. score = a \div b
      BY <1>9, <2>2
    <3> HIDE DEF a, b, score
    <3> QED BY <3>1, <3>2
  <2> QED BY <2>1, <2>2
<1> HIDE DEF score
<1>13. Reports!DeriveRecommendation(score) = advice(score)
  BY <1>12, AdviceAlike
<1>14. Reports!OverallScore(questions, summaries) = score
  BY <1>11, ReportsAlike
<1> QED BY <1>1, <1>13, <1>14, <1>15 DEF AgreesWithReport

\* The study reviews the given inputs.
GivenInput == flow = "inventory" => input \in Inputs

\* No command and no save touches what the study is of.
LEMMA InputStays == ASSUME StudyNext PROVE UNCHANGED <<flow, input>>
<1> USE DEF Ends, Goes, Locked
<1>1. ASSUME NEW s \in Sheets, Save(s) PROVE UNCHANGED <<flow, input>>
  BY <1>1 DEF Save
<1>2. CASE SourceChanges
  BY <1>2 DEF SourceChanges
<1>3. ASSUME NEW o \in Operators,
             \/ Stops(o)
             \/ PrepareDirectory(o) \/ PrepareSheet(o) \/ PrepareLock(o)
             \/ FreezeClaims(o) \/ LockClaims(o) \/ ReleaseScores(o)
             \/ FreezeInitial(o) \/ LockInitial(o) \/ ReleaseAssistance(o)
             \/ FreezeFinal(o) \/ LockFinal(o)
      PROVE  UNCHANGED <<flow, input>>
  BY <1>3 DEF Stops, PrepareDirectory, PrepareSheet, PrepareLock, FreezeClaims, LockClaims,
              ReleaseScores, FreezeInitial, LockInitial, ReleaseAssistance, FreezeFinal, LockFinal
<1>4. ASSUME NEW o \in Operators,
             \/ Aggregate(o) \/ AggregateRead(o) \/ AggregateWrite(o)
             \/ Release(o) \/ ReleaseSheet(o) \/ ReleaseLock(o)
             \/ FreezeReview(o) \/ ValidateReview(o) \/ LockReview(o)
             \/ Results(o) \/ ResultsRead(o) \/ ResultsWrite(o)
      PROVE  UNCHANGED <<flow, input>>
  BY <1>4 DEF Aggregate, AggregateRead, AggregateWrite, Release, ReleaseSheet, ReleaseLock,
              FreezeReview, ValidateReview, LockReview, Results, ResultsRead, ResultsWrite
<1>5. ASSUME NEW o \in Operators,
             \/ FreezeEvidence(o) \/ FreezeDirectory(o) \/ CopyEvidence(o) \/ LockEvidence(o)
             \/ AggregateEvidence(o) \/ EvidenceDirectory(o) \/ EvidenceWrite(o)
      PROVE  UNCHANGED <<flow, input>>
  BY <1>5 DEF FreezeEvidence, FreezeDirectory, CopyEvidence, LockEvidence, AggregateEvidence,
              EvidenceDirectory, EvidenceWrite
<1> QED BY <1>1, <1>2, <1>3, <1>4, <1>5 DEF StudyNext

(***************************************************************************)
(* What the reviewers are given is what the reports say: every assertion   *)
(* in one claim, judged against its answer or the whole interview; the     *)
(* score and the advice the application's; support only by its source.     *)
(***************************************************************************)
THEOREM InventoryAlwaysTheReports == StudySpec => []InventoryIsTheReports
<1>1. StudyInit => GivenInput
  BY DEF StudyInit, GivenInput
<1>2. GivenInput /\ [StudyNext]_studyVars => GivenInput'
  <2> SUFFICES ASSUME GivenInput, [StudyNext]_studyVars PROVE GivenInput'
    OBVIOUS
  <2>1. UNCHANGED <<flow, input>>
    BY InputStays DEF studyVars
  <2> QED BY <2>1 DEF GivenInput
<1>3. GivenInput => InventoryIsTheReports
  <2> SUFFICES ASSUME GivenInput, flow = "inventory"
               PROVE  /\ input.kind = "report" => AssertionsReviewedOnce(input.report)
                      /\ input.kind = "scores" => AgreesWithReport(input.questions)
                      /\ input.kind = "evidence" => SupportedBySource(input.own, input.tiers)
    BY DEF InventoryIsTheReports
  <2>1. /\ input.kind = "report" => input.report \in ReviewedReport
        /\ input.kind = "scores" => input.questions \in Seq(ScoredQuestion)
    BY InventoryAssumption DEF GivenInput
  <2>2. input.kind = "report" => AssertionsReviewedOnce(input.report)
    BY <2>1, AssertionsAreReviewedOnce
  <2>3. input.kind = "scores" => AgreesWithReport(input.questions)
    BY <2>1, ScoresAgree
  <2>4. SupportedBySource(input.own, input.tiers)
    BY CountedBySource
  <2> QED BY <2>2, <2>3, <2>4
<1> QED BY <1>1, <1>2, <1>3, PTL DEF StudySpec
=============================================================================
