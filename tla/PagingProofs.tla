------------------------------ MODULE PagingProofs -----------------------------
(***************************************************************************)
(* Proofs about Paging.  All sorted lists of the rows that match have the  *)
(* same keys place by place, and where keys differ there is one list; a    *)
(* page is a slice of one of them.  The inductive invariant says where the *)
(* next page begins in today's list and what the pages so far have shown.  *)
(***************************************************************************)
EXTENDS Paging, FiniteSetTheorems, SequenceTheorems, TLAPS

-----------------------------------------------------------------------------
(* About numbers and pages *)

LEMMA MinOfTwo ==
    ASSUME NEW a \in Int, NEW b \in Int
    PROVE  /\ Min({a, b}) \in {a, b}
           /\ Min({a, b}) <= a /\ Min({a, b}) <= b
<1>1. \E x \in {a, b} : \A y \in {a, b} : x =< y
  OBVIOUS
<1> QED
  BY <1>1 DEF Min

LEMMA PagesCover ==
    ASSUME NEW count \in Nat, NEW limit \in Nat \ {0}, NEW p \in Nat
    PROVE  /\ TotalPages(count, limit) \in Nat
           /\ TotalPages(count, limit) <= count
           /\ p < TotalPages(count, limit) <=> p * limit < count
<1> DEFINE t == TotalPages(count, limit)
<1>1. t \in Int /\ limit * t <= count + limit - 1 /\ count + limit - 1 < limit * t + limit
  BY DEF TotalPages
<1> HIDE DEF t
<1>2. t >= 0
  BY <1>1
<1>3. t <= count
  BY <1>1, <1>2
<1>4. ASSUME p < t PROVE p * limit < count
  BY <1>1, <1>2, <1>4
<1>5. ASSUME p >= t PROVE p * limit >= count
  BY <1>1, <1>2, <1>5
<1> QED
  BY <1>1, <1>2, <1>3, <1>4, <1>5 DEF t

(* A page of the sequence s: l of its members, after the first k. *)
LEMMA SliceOfSequence ==
    ASSUME NEW S, NEW s \in Seq(S), NEW k \in Nat, NEW l \in Nat
    PROVE  LET last == Min({k + l, Len(s)})
               shown == SubSeq(s, k + 1, last)
           IN /\ shown \in Seq(S)
              /\ \A i \in 1..Len(s) : k < i /\ i <= k + l => s[i] \in ToSet(shown)
              /\ k <= Len(s) => /\ Len(shown) = last - k
                                /\ \A i \in 1..(last - k) : shown[i] = s[k + i]
<1>0. PICK n \in Nat : n = Len(s)
  BY LenProperties
<1>1. PICK last, shown :
        n = Len(s) /\ last = Min({k + l, n}) /\ shown = SubSeq(s, k + 1, last)
  BY <1>0
<1>2. last \in {k + l, n} /\ last <= k + l /\ last <= n
  <2>1. k + l \in Int /\ n \in Int
    OBVIOUS
  <2> QED
    BY <1>1, <2>1, MinOfTwo
<1>3. last \in Nat /\ last \in Int
  BY <1>2
<1>4. PICK m \in Int : m = k + 1
  OBVIOUS
<1>5. \A i \in m..last : s[i] \in S
  BY <1>1, <1>2, <1>3, <1>4, ElementOfSeq
<1>6. shown = SubSeq(s, m, last)
  BY <1>1, <1>4
<1>7. SubSeq(s, m, last) \in Seq(S)
  BY <1>3, <1>5, SubSeqProperties
<1>8. Len(SubSeq(s, m, last)) = IF m <= last THEN last - m + 1 ELSE 0
  BY <1>3, <1>5, SubSeqProperties
<1>9. \A i \in 1..(last - m + 1) : SubSeq(s, m, last)[i] = s[m + i - 1]
  BY <1>3, <1>5, SubSeqProperties
<1>10. ASSUME NEW i \in 1..n, k < i, i <= k + l PROVE s[i] \in ToSet(shown)
  <2>1. i <= last
    BY <1>2, <1>10
  <2>2. i - k \in 1..(last - m + 1) /\ m + (i - k) - 1 = i /\ m <= last
    BY <1>3, <1>4, <1>10, <2>1
  <2>3. shown[i - k] = s[i]
    BY <1>6, <1>9, <2>2
  <2>4. i - k \in 1..Len(shown)
    BY <1>6, <1>8, <2>2
  <2>5. DOMAIN shown = 1..Len(shown)
    BY <1>6, <1>7, LenProperties
  <2> QED
    BY <2>3, <2>4, <2>5 DEF ToSet
<1>11. ASSUME k <= n
       PROVE  Len(shown) = last - k /\ \A i \in 1..(last - k) : shown[i] = s[k + i]
  <2>1. last >= k
    BY <1>2, <1>3, <1>11
  <2>2. Len(shown) = last - k
    BY <1>3, <1>4, <1>6, <1>8, <2>1
  <2>3. ASSUME NEW i \in 1..(last - k) PROVE shown[i] = s[k + i]
    <3>1. i \in 1..(last - m + 1) /\ m + i - 1 = k + i
      BY <1>3, <1>4
    <3> QED
      BY <1>6, <1>9, <3>1
  <2> QED
    BY <2>2, <2>3
<1> QED
  BY <1>1, <1>6, <1>7, <1>10, <1>11

LEMMA ProductIsNatural == ASSUME NEW a \in Nat, NEW b \in Nat PROVE a * b \in Nat
OBVIOUS

-----------------------------------------------------------------------------
(* About sorted lists *)

LEMMA MatchingIsFinite ==
    ASSUME NEW q
    PROVE  /\ Matching(q) \subseteq Rows /\ Matching(q) \subseteq Present
           /\ IsFiniteSet(Matching(q))
           /\ Cardinality(Matching(q)) \in Nat
           /\ Cardinality(Matching(q)) <= Cardinality(Rows)
BY PagingAssumption, FS_Subset, FS_CardinalityType DEF Matching, Present

(* A sorted list holds every row that matches, once. *)
LEMMA SortedIsComplete ==
    ASSUME NEW q, NEW s \in Sorted(q)
    PROVE  /\ s \in Seq(Matching(q)) /\ Len(s) = Cardinality(Matching(q))
           /\ s \in [1..Len(s) -> Matching(q)] /\ DOMAIN s = 1..Len(s)
           /\ \A i, j \in 1..Len(s) : i # j => s[i] # s[j]
           /\ \A i, j \in 1..Len(s) : i < j => ~Precedes(q, s[j], s[i])
           /\ \A m \in Matching(q) : \E i \in 1..Len(s) : s[i] = m
<1> DEFINE M == Matching(q)
           n == Cardinality(M)
<1>1. IsFiniteSet(M) /\ n \in Nat
  BY MatchingIsFinite
<1>2. s \in [1..n -> M] /\ \A i, j \in 1..n : i # j => s[i] # s[j]
  BY DEF Sorted, SetToSeqs
<1>3. \A i, j \in DOMAIN s : i < j => ~Precedes(q, s[j], s[i])
  BY DEF Sorted
<1> HIDE DEF M, n
<1>4. s \in Seq(M) /\ Len(s) = n /\ DOMAIN s = 1..n
  BY <1>1, <1>2, SeqDef
<1>5. s \in Injection(1..n, M)
  BY <1>2 DEF Injection, IsInjective
<1>6. Cardinality(1..n) = n
  BY <1>1, FS_Interval
<1>7. s \in Surjection(1..n, M)
  BY <1>1, <1>5, <1>6, FS_Injection DEF n
<1> QED
  BY <1>2, <1>3, <1>4, <1>7 DEF Surjection, M, n

(* Rows are ordered by the rank of their keys. *)
LEMMA PrecedesIsAnOrder ==
    ASSUME WalkTypeOK, query \in Queries, query.resource = resource,
           query.sort_key \in SortColumns,
           NEW r \in Matching(query), NEW s \in Matching(query), NEW t \in Matching(query)
    PROVE  /\ Precedes(query, r, s) => ~Precedes(query, s, r)
           /\ ~Precedes(query, s, r) /\ Precedes(query, s, t) => Precedes(query, r, t)
<1>1. ASSUME NEW m \in Matching(query) PROVE Rank(query.sort_key, table[m]) \in Nat
  <2>1. table[m] \in IF resource = "users" THEN Users ELSE Sessions
    BY DEF WalkTypeOK, Matching, Present
  <2>2. table[m].created_at \in Nat
    BY <2>1, PagingAssumption DEF Users, Sessions
  <2> QED
    BY <2>2 DEF SortColumns, Rank
<1>2. /\ Rank(query.sort_key, table[r]) \in Nat /\ Rank(query.sort_key, table[s]) \in Nat
      /\ Rank(query.sort_key, table[t]) \in Nat
  BY <1>1
<1> QED
  BY <1>2 DEF Precedes

(* Any two sorted lists have the same keys, place by place: the rows up to *)
(* a place of one cannot all come before that place's row of the other.    *)
LEMMA KeysAtAPlace ==
    ASSUME WalkTypeOK, query \in Queries, query.resource = resource,
           query.sort_key \in SortColumns,
           NEW s \in Sorted(query), NEW t \in Sorted(query),
           NEW i \in 1..Cardinality(Matching(query))
    PROVE  s[i] \in Matching(query) /\ t[i] \in Matching(query) /\ SameKey(s[i], t[i])
<1> DEFINE M == Matching(query)
           n == Cardinality(M)
<1>1. n \in Nat /\ i \in Nat
  BY MatchingIsFinite
<1>2. ASSUME NEW u \in Sorted(query)
      PROVE  /\ Len(u) = n
             /\ \A j \in 1..n : u[j] \in M
             /\ \A j, k \in 1..n : j # k => u[j] # u[k]
             /\ \A j, k \in 1..n : j < k => ~Precedes(query, u[k], u[j])
             /\ \A m \in M : \E j \in 1..n : u[j] = m
  <2>1. Len(u) = n
    BY SortedIsComplete
  <2>2. u \in [1..Len(u) -> M]
    BY SortedIsComplete
  <2>3. \A j, k \in 1..Len(u) : j # k => u[j] # u[k]
    BY SortedIsComplete
  <2>4. \A j, k \in 1..Len(u) : j < k => ~Precedes(query, u[k], u[j])
    BY SortedIsComplete
  <2>5. \A m \in M : \E j \in 1..Len(u) : u[j] = m
    BY SortedIsComplete
  <2> HIDE DEF M, n
  <2> QED
    BY <2>1, <2>2, <2>3, <2>4, <2>5
<1> HIDE DEF M, n
<1>3. ASSUME NEW x \in M, NEW y \in M
      PROVE  /\ ~Precedes(query, x, x)
             /\ \A z \in M : ~Precedes(query, x, y) /\ Precedes(query, x, z)
                               => Precedes(query, y, z)
  BY PrecedesIsAnOrder DEF M
<1>4. ASSUME NEW u \in Sorted(query), NEW v \in Sorted(query), Precedes(query, u[i], v[i])
      PROVE  FALSE
  <2>0. i \in 1..n
    BY DEF n, M
  <2>1. ASSUME NEW a \in 1..i PROVE \E j \in 1..(i - 1) : v[j] = u[a]
    <3>1. a \in 1..n /\ (a = i \/ a < i)
      BY <1>1, <2>0
    <3>2. u[a] \in M /\ u[i] \in M /\ v[i] \in M
      BY <1>2, <2>0, <3>1
    <3>3. ~Precedes(query, u[i], u[a])
      BY <1>2, <1>3, <2>0, <3>1, <3>2
    <3>4. Precedes(query, u[a], v[i])
      BY <1>3, <1>4, <3>2, <3>3
    <3>5. PICK j \in 1..n : v[j] = u[a]
      BY <1>2, <3>2
    <3>6. j # i /\ ~(i < j)
      BY <1>2, <1>3, <2>0, <3>2, <3>4, <3>5
    <3> QED
      BY <1>1, <2>0, <3>5, <3>6
  <2> DEFINE f == [a \in 1..i |-> CHOOSE j \in 1..(i - 1) : v[j] = u[a]]
  <2>2. f \in [1..i -> 1..(i - 1)] /\ \A a \in 1..i : v[f[a]] = u[a]
    BY <2>1
  <2>3. /\ IsFiniteSet(1..i) /\ Cardinality(1..i) = i
        /\ IsFiniteSet(1..(i - 1)) /\ Cardinality(1..(i - 1)) = i - 1
    <3>1. PICK k \in Int : k = i - 1
      BY <1>1
    <3>2. /\ IsFiniteSet(1..i) /\ Cardinality(1..i) = IF 1 > i THEN 0 ELSE i - 1 + 1
          /\ IsFiniteSet(1..k) /\ Cardinality(1..k) = IF 1 > k THEN 0 ELSE k - 1 + 1
      BY <1>1, FS_Interval
    <3> QED
      BY <1>1, <2>0, <3>1, <3>2
  <2> HIDE DEF f
  <2>4. PICK a, b \in 1..i : a # b /\ f[a] = f[b]
    <3>1. PICK S, T : S = 1..i /\ T = 1..(i - 1)
      OBVIOUS
    <3>2. IsFiniteSet(S) /\ IsFiniteSet(T) /\ Cardinality(T) < Cardinality(S)
      BY <1>1, <2>3, <3>1
    <3>3. f \in [S -> T]
      BY <2>2, <3>1
    <3>4. \E a, b \in S : a # b /\ f[a] = f[b]
      BY <3>2, <3>3, FS_PigeonHole
    <3> QED
      BY <3>1, <3>4
  <2>5. u[a] = u[b]
    <3>1. v[f[a]] = u[a] /\ v[f[b]] = u[b]
      BY <2>2
    <3> QED
      BY <2>4, <3>1
  <2>6. a \in 1..n /\ b \in 1..n
    <3>1. \A c \in 1..i : c \in 1..n
      BY <1>1, <2>0
    <3> QED
      BY <3>1
  <2> QED
    BY <1>2, <2>4, <2>5, <2>6
<1> QED
  BY <1>2, <1>4 DEF SameKey, n, M

(* Under keys that differ there is one sorted list. *)
LEMMA SortedIsUnique ==
    ASSUME WalkTypeOK, query \in Queries, query.resource = resource,
           query.sort_key \in SortColumns,
           DistinctKeys, NEW s \in Sorted(query), NEW t \in Sorted(query)
    PROVE  s = t
<1>1. /\ s \in Seq(Matching(query)) /\ Len(s) = Cardinality(Matching(query))
      /\ t \in Seq(Matching(query)) /\ Len(t) = Cardinality(Matching(query))
  BY SortedIsComplete
<1>2. ASSUME NEW i \in 1..Len(s) PROVE s[i] = t[i]
  BY <1>1, KeysAtAPlace DEF DistinctKeys, SameKey
<1> QED
  BY <1>1, <1>2, SeqEqual

(* The rows that come before one. *)
Before(b) == {m \in Matching(query) : Precedes(query, m, b)}

LEMMA PlaceInTheList ==
    ASSUME WalkTypeOK, query \in Queries, query.resource = resource, query.sort_key \in SortColumns,
           DistinctKeys, NEW s \in Sorted(query), NEW j \in 1..Len(s)
    PROVE  Cardinality(Before(s[j])) = j - 1
<1> DEFINE M == Matching(query)
           First == [i \in 1..(j - 1) |-> s[i]]
<1>1. Len(s) \in Nat /\ j \in Nat /\ s \in [1..Len(s) -> M]
  BY MatchingIsFinite, SortedIsComplete
<1>2. ASSUME NEW i \in 1..Len(s), i < j PROVE Precedes(query, s[i], s[j])
  <2>1. s[i] \in M /\ s[j] \in M
    BY <1>1
  <2>2. i # j
    BY <1>1, <1>2
  <2>3. s[i] # s[j]
    BY <2>2, SortedIsComplete
  <2>4. ~Precedes(query, s[j], s[i])
    BY <1>2, SortedIsComplete
  <2> QED
    BY <2>1, <2>3, <2>4 DEF DistinctKeys
<1>3. ASSUME NEW i \in 1..Len(s), Precedes(query, s[i], s[j]) PROVE i < j
  <2>1. ~Precedes(query, s[j], s[i])
    BY <1>1, <1>3, PrecedesIsAnOrder
  <2>2. i # j
    BY <1>3, <2>1
  <2>3. ~(j < i)
    BY <1>3, <2>1, SortedIsComplete
  <2> QED
    BY <1>1, <2>2, <2>3
<1>4. ASSUME NEW i \in 1..(j - 1) PROVE i \in 1..Len(s) /\ i < j
  BY <1>1, <1>4
<1>5. First \in [1..(j - 1) -> Before(s[j])]
  BY <1>1, <1>2, <1>4 DEF Before
<1>6. First \in Injection(1..(j - 1), Before(s[j]))
  <2>1. \A a, b \in 1..(j - 1) : First[a] = First[b] => a = b
    BY <1>4, SortedIsComplete
  <2> QED
    BY <1>5, <2>1 DEF Injection, IsInjective
<1>7. First \in Surjection(1..(j - 1), Before(s[j]))
  <2>1. ASSUME NEW m \in Before(s[j]) PROVE \E i \in 1..(j - 1) : First[i] = m
    <3>1. PICK i \in 1..Len(s) : s[i] = m
      BY SortedIsComplete DEF Before
    <3>2. i < j
      BY <1>3, <3>1 DEF Before
    <3> QED
      BY <1>1, <3>1, <3>2
  <2> QED
    BY <1>5, <2>1 DEF Surjection
<1>8. IsFiniteSet(1..(j - 1)) /\ Cardinality(1..(j - 1)) = j - 1
  <2>1. PICK k \in Nat : k = j - 1
    BY <1>1
  <2>2. IsFiniteSet(1..k) /\ Cardinality(1..k) = IF 1 > k THEN 0 ELSE k - 1 + 1
    BY FS_Interval
  <2> QED
    BY <2>1, <2>2
<1> QED
  BY <1>6, <1>7, <1>8, FS_Surjection

(* Rows that have at least e others before them fit into what the list has *)
(* after its first e.                                                      *)
LEMMA RowsBehind ==
    ASSUME WalkTypeOK, query \in Queries, query.resource = resource,
           query.sort_key \in SortColumns,
           DistinctKeys, NEW s \in Sorted(query), NEW e \in Nat,
           NEW U \in SUBSET Matching(query), \A b \in U : Cardinality(Before(b)) >= e
    PROVE  /\ IsFiniteSet(U) /\ Cardinality(U) \in Nat
           /\ Cardinality(U) <= IF e < Cardinality(Matching(query))
                                THEN Cardinality(Matching(query)) - e ELSE 0
<1>1. PICK n \in Nat : n = Cardinality(Matching(query)) /\ n = Len(s)
  BY MatchingIsFinite, SortedIsComplete
<1>2. ASSUME NEW b \in U
      PROVE  \E j \in (e + 1)..n : s[j] = b
  <2>1. PICK j \in 1..n : s[j] = b
    BY <1>1, SortedIsComplete
  <2>2. Cardinality(Before(b)) = j - 1
    BY <1>1, <2>1, PlaceInTheList
  <2> QED
    BY <2>1, <2>2
<1> DEFINE g == [b \in U |-> CHOOSE j \in (e + 1)..n : s[j] = b]
<1>3. g \in [U -> (e + 1)..n] /\ \A b \in U : s[g[b]] = b
  BY <1>2
<1> HIDE DEF g
<1>4. g \in Injection(U, (e + 1)..n)
  <2>1. \A a, b \in U : g[a] = g[b] => a = b
    BY <1>3
  <2> QED
    BY <1>3, <2>1 DEF Injection, IsInjective
<1>5. /\ IsFiniteSet((e + 1)..n)
      /\ Cardinality((e + 1)..n) = IF e + 1 > n THEN 0 ELSE n - (e + 1) + 1
  <2>1. e + 1 \in Int /\ n \in Int
    OBVIOUS
  <2> QED
    BY <2>1, FS_Interval
<1>6. IsFiniteSet(U) /\ Cardinality(U) <= Cardinality((e + 1)..n)
  BY <1>4, <1>5, FS_Injection
<1>7. Cardinality(U) \in Nat
  BY <1>6, FS_CardinalityType
<1> QED
  BY <1>1, <1>5, <1>6, <1>7

-----------------------------------------------------------------------------
(* The inductive invariant *)

(* A walk has a query about the table that there is, pages from 1, and is  *)
(* not under way when it was refused.                                      *)
QueryKnown ==
    /\ pc # "idle" => query \in Queries /\ query.resource = resource
    /\ pc \in {"count", "list"} => page > 0 /\ ~RefusedRole(query)

LateIsInserted == late > 0 => inserted

(* What matched from the beginning still does. *)
BegunStands == pc # "idle" /\ ~changed => begun \subseteq Matching(query)

(* The count falls short of the list by what was added since.              *)
Counted ==
    pc = "list" /\ ~changed =>
        /\ Cardinality(Matching(query)) <= total + late
        /\ late = 0 => total = Cardinality(Matching(query))

Walking == pc \in {"count", "list"} /\ query.sort_key \in SortColumns

(* A row that was there and has not been shown has as many rows before it  *)
(* as the pages so far took: additions only push it further down.          *)
NotYetPassed ==
    Walking /\ DistinctKeys /\ ~changed =>
        \A b \in begun \ Got : Cardinality(Before(b)) >= Offset(query)

(* In a quiet walk the pages so far have the keys of the list down to the  *)
(* next one.                                                               *)
PagesSoFar ==
    Walking /\ ~changed /\ ~inserted =>
        /\ Offset(query) <= Cardinality(Matching(query))
        /\ Len(items) = Offset(query)
        /\ \A s \in Sorted(query) : \A i \in 1..Offset(query) :
              items[i] \in Matching(query) /\ SameKey(items[i], s[i])

IInv == /\ WalkTypeOK
        /\ QueryKnown
        /\ LateIsInserted
        /\ BegunStands
        /\ Counted
        /\ NotYetPassed
        /\ PagesSoFar
        /\ QuietWalkIsTheList
        /\ AdditionsHideNothing
        /\ AdminsSeeUsers

-----------------------------------------------------------------------------
LEMMA RowsAreCounted == Cardinality(Rows) \in Nat
BY PagingAssumption, FS_CardinalityType

(* What a walk has before its first page. *)
LEMMA NothingYet == 0 \in 0..Cardinality(Rows) /\ <<>> \in Seq(Rows)
BY RowsAreCounted, EmptySeq

LEMMA InitIInv == Init => IInv
<1> SUFFICES ASSUME Init PROVE IInv
  OBVIOUS
<1>1. WalkTypeOK
  <2>1. page \in Nat /\ total \in 0..Cardinality(Rows) /\ items \in Seq(Rows)
    BY NothingYet DEF Init
  <2>2. table \in [Rows -> (IF resource = "users" THEN Users ELSE Sessions) \cup {None}]
    BY DEF Init
  <2>3. page <= 1
    BY DEF Init
  <2> QED
    BY <2>1, <2>2, <2>3 DEF Init, WalkTypeOK
<1>2. QueryKnown /\ LateIsInserted /\ BegunStands /\ Counted
  BY DEF Init, QueryKnown, LateIsInserted, BegunStands, Counted
<1>3. NotYetPassed /\ PagesSoFar
  BY DEF Init, Walking, NotYetPassed, PagesSoFar
<1>4. QuietWalkIsTheList /\ AdditionsHideNothing /\ AdminsSeeUsers
  BY DEF Init, QuietWalkIsTheList, AdditionsHideNothing, Walked, AdminsSeeUsers
<1> QED
  BY <1>1, <1>2, <1>3, <1>4 DEF IInv

(* What a query says about a table that has not changed stays.             *)
LEMMA SameTable ==
    ASSUME UNCHANGED <<resource, table, query>>
    PROVE  /\ Matching(query)' = Matching(query)
           /\ Sorted(query)' = Sorted(query)
           /\ SortColumns' = SortColumns
           /\ RefusedRole(query)' = RefusedRole(query)
           /\ DistinctKeys' = DistinctKeys
           /\ \A b : Before(b)' = Before(b)
           /\ \A r, s : SameKey(r, s)' = SameKey(r, s)
BY DEF SameKey, Matching, Present, Matches, UserConditions, SessionConditions, RoleFilter, Given,
       Sorted, SortColumns, RefusedRole, DistinctKeys, Before, Precedes, Rank

LEMMA QueryLimits ==
    ASSUME NEW q \in Queries
    PROVE  q.limit \in Nat \ {0} /\ q # None
BY PagingAssumption DEF UserQueries, SessionQueries

LEMMA AskStep == IInv /\ Ask => IInv'
<1> SUFFICES ASSUME IInv, Ask PROVE IInv'
  OBVIOUS
<1> USE DEF IInv, Ask
<1>1. PICK q \in Queries :
        /\ q.resource = resource /\ query' = q
        /\ IF RefusedRole(q) THEN pc' = "done" /\ begun' = {}
                             ELSE pc' = "count" /\ begun' = Matching(q)
  OBVIOUS
<1>2. q.limit \in Nat \ {0} /\ q # None
  BY QueryLimits
<1>3. Matching(query)' = Matching(q) /\ RefusedRole(query)' = RefusedRole(q)
  BY <1>1 DEF Matching, Present, Matches, UserConditions, SessionConditions, RoleFilter,
              Given, RefusedRole
<1>4. WalkTypeOK'
  <2>1. page' \in Nat /\ total' \in 0..Cardinality(Rows) /\ items' \in Seq(Rows)
    BY NothingYet
  <2>2. query' \in Queries /\ begun' \subseteq Rows /\ pc' \in {"count", "done"}
    BY <1>1, MatchingIsFinite
  <2>3. page' <= 1
    OBVIOUS
  <2> QED
    BY <2>1, <2>2, <2>3 DEF WalkTypeOK
<1> QueryKnown' /\ LateIsInserted'
  BY <1>1, <1>3 DEF QueryKnown, LateIsInserted
<1>5. BegunStands' /\ Counted' /\ AdminsSeeUsers'
  BY <1>1, <1>3 DEF BegunStands, Counted, AdminsSeeUsers
<1>6. Offset(query)' = 0
  BY <1>1, <1>2 DEF Offset
<1>7. NotYetPassed'
  <2>1. ASSUME NEW b PROVE Cardinality(Before(b)') >= 0
    <3>1. Before(b)' \subseteq Rows
      BY <1>3, MatchingIsFinite DEF Before
    <3> QED
      BY <3>1, PagingAssumption, FS_Subset, FS_CardinalityType
  <2> QED
    BY <1>6, <2>1 DEF NotYetPassed
<1>8. PagesSoFar'
  <2>1. Cardinality(Matching(query)') >= 0
    BY <1>3, MatchingIsFinite
  <2> QED
    BY <1>6, <2>1 DEF PagesSoFar
<1>9. QuietWalkIsTheList' /\ AdditionsHideNothing'
  BY <1>1, <1>3 DEF QuietWalkIsTheList, AdditionsHideNothing, Walked
<1> QED
  BY <1>4, <1>5, <1>7, <1>8, <1>9

LEMMA CountStep == IInv /\ Count => IInv'
<1> SUFFICES ASSUME IInv, Count PROVE IInv'
  OBVIOUS
<1> USE DEF IInv, Count
<1>1. WalkTypeOK'
  <2>1. total' \in 0..Cardinality(Rows)
    BY MatchingIsFinite, RowsAreCounted
  <2> QED
    BY <2>1 DEF WalkTypeOK
<1> QueryKnown' /\ LateIsInserted' /\ Counted'
  BY SameTable, MatchingIsFinite DEF QueryKnown, LateIsInserted, Counted
<1>2. BegunStands' /\ AdminsSeeUsers'
  BY SameTable DEF BegunStands, AdminsSeeUsers
<1>3. Offset(query)' = Offset(query) /\ Got' = Got /\ (Walking' => Walking)
  BY SameTable DEF Offset, Got, ToSet, Walking
<1>4. NotYetPassed' /\ PagesSoFar'
  BY <1>3, SameTable DEF NotYetPassed, PagesSoFar
<1>5. QuietWalkIsTheList' /\ AdditionsHideNothing'
  BY DEF QuietWalkIsTheList, AdditionsHideNothing, Walked
<1> QED
  BY <1>1, <1>2, <1>4, <1>5

LEMMA CloseStep == IInv /\ Close => IInv'
<1> SUFFICES ASSUME IInv, Close PROVE IInv'
  OBVIOUS
<1> USE DEF IInv, Close
<1>1. WalkTypeOK'
  <2>1. page' \in Nat /\ total' \in 0..Cardinality(Rows) /\ items' \in Seq(Rows)
    BY NothingYet
  <2>2. page' <= 1
    OBVIOUS
  <2> QED
    BY <2>1, <2>2 DEF WalkTypeOK
<1>2. QueryKnown' /\ LateIsInserted' /\ BegunStands' /\ Counted'
  BY DEF QueryKnown, LateIsInserted, BegunStands, Counted
<1>3. NotYetPassed' /\ PagesSoFar'
  BY DEF Walking, NotYetPassed, PagesSoFar
<1>4. QuietWalkIsTheList' /\ AdditionsHideNothing' /\ AdminsSeeUsers'
  BY DEF QuietWalkIsTheList, AdditionsHideNothing, Walked, AdminsSeeUsers
<1> QED
  BY <1>1, <1>2, <1>3, <1>4

LEMMA ChangeStep == IInv /\ Change => IInv'
<1> SUFFICES ASSUME IInv, Change PROVE IInv'
  OBVIOUS
<1> USE DEF IInv, Change, walk
<1>1. WalkTypeOK'
  <2>1. PICK r \in Present : \E row \in Changed(table[r]) : table' = [table EXCEPT ![r] = row]
    OBVIOUS
  <2>2. PICK row \in Changed(table[r]) : table' = [table EXCEPT ![r] = row]
    BY <2>1
  <2>3. CASE resource = "users"
    <3>1. table[r] \in Users
      BY <2>3 DEF WalkTypeOK, Present
    <3>2. row \in Users
      BY <2>2, <2>3, <3>1 DEF Changed, Users, Roles
    <3> QED
      BY <2>2, <2>3, <3>2 DEF WalkTypeOK
  <2>4. CASE resource = "sessions"
    <3>1. table[r] \in Sessions
      BY <2>4 DEF WalkTypeOK, Present
    <3>2. row \in Sessions
      BY <2>2, <2>4, <3>1 DEF Changed, Sessions
    <3> QED
      BY <2>2, <2>4, <3>2 DEF WalkTypeOK
  <2> QED
    BY <2>3, <2>4 DEF WalkTypeOK
<1>2. QueryKnown' /\ LateIsInserted' /\ AdminsSeeUsers'
  BY DEF QueryKnown, LateIsInserted, AdminsSeeUsers, RefusedRole
<1>3. pc' # "idle" => changed'
  OBVIOUS
<1>4. BegunStands' /\ Counted' /\ NotYetPassed' /\ PagesSoFar'
  BY <1>3 DEF BegunStands, Counted, NotYetPassed, PagesSoFar, Walking
<1>5. QuietWalkIsTheList' /\ AdditionsHideNothing'
  BY <1>3 DEF QuietWalkIsTheList, AdditionsHideNothing, Walked
<1> QED
  BY <1>1, <1>2, <1>4, <1>5

(* An insertion leaves what matched, and what came before it, in place.    *)
LEMMA InsertStep == IInv /\ Insert => IInv'
<1> SUFFICES ASSUME IInv, Insert PROVE IInv'
  OBVIOUS
<1> USE DEF IInv, Insert, walk
<1>1. WalkTypeOK'
  BY DEF WalkTypeOK, New, Present
<1>2. QueryKnown' /\ AdminsSeeUsers'
  BY DEF QueryKnown, AdminsSeeUsers, RefusedRole
<1>11. LateIsInserted'
  <2>1. CASE pc = "idle"
    <3>1. late' = 0
      BY <2>1
    <3> QED
      BY <3>1 DEF LateIsInserted
  <2>2. CASE pc # "idle"
    BY <2>2 DEF LateIsInserted
  <2> QED
    BY <2>1, <2>2
<1>3. pc' # "idle" => inserted' /\ late' = late + 1 /\ late \in Nat
  BY DEF WalkTypeOK
<1>4. ASSUME NEW m \in Matching(query) PROVE table'[m] = table[m] /\ m \in Matching(query)'
  BY DEF Matching, Present, Matches, UserConditions, SessionConditions, RoleFilter, Given
<1>5. ASSUME NEW m \in Matching(query), NEW n \in Matching(query)
      PROVE  Precedes(query, m, n)' <=> Precedes(query, m, n)
  BY <1>4 DEF Precedes, Rank
<1>6. BegunStands' /\ PagesSoFar'
  BY <1>3, <1>4 DEF BegunStands, PagesSoFar, Walking
<1>9. Counted'
  <2> SUFFICES ASSUME pc = "list", ~changed
               PROVE  /\ Cardinality(Matching(query)') <= total + late'
                      /\ late' # 0
    BY DEF Counted
  <2>1. PICK r \in Rows : \A m \in Rows \ {r} : table'[m] = table[m]
    BY DEF WalkTypeOK
  <2>2. Matching(query)' \subseteq Matching(query) \cup {r}
    BY <2>1 DEF Matching, Present, Matches, UserConditions, SessionConditions, RoleFilter, Given
  <2>3. /\ IsFiniteSet(Matching(query) \cup {r})
        /\ Cardinality(Matching(query) \cup {r}) <= Cardinality(Matching(query)) + 1
    <3>1. PICK S : S = Matching(query) /\ IsFiniteSet(S) /\ Cardinality(S) \in Nat
      BY MatchingIsFinite
    <3>2. /\ IsFiniteSet(S \cup {r})
          /\ Cardinality(S \cup {r}) = IF r \in S THEN Cardinality(S) ELSE Cardinality(S) + 1
      BY <3>1, FS_AddElement
    <3>3. Cardinality(S \cup {r}) <= Cardinality(S) + 1
      BY <3>1, <3>2
    <3> QED
      BY <3>1, <3>2, <3>3
  <2>4. /\ Cardinality(Matching(query)') <= Cardinality(Matching(query) \cup {r})
        /\ IsFiniteSet(Matching(query)')
    BY <2>2, <2>3, FS_Subset
  <2>5. /\ Cardinality(Matching(query)') \in Nat /\ Cardinality(Matching(query)) \in Nat
        /\ Cardinality(Matching(query) \cup {r}) \in Nat /\ total \in Nat
    BY <2>3, <2>4, MatchingIsFinite, FS_CardinalityType, RowsAreCounted DEF WalkTypeOK
  <2> QED
    BY <1>3, <2>3, <2>4, <2>5 DEF Counted
<1>7. NotYetPassed'
  <2> SUFFICES ASSUME Walking', DistinctKeys', ~changed', NEW b \in begun \ Got
               PROVE  Cardinality(Before(b)') >= Offset(query)
    BY DEF NotYetPassed, Got, ToSet, Offset
  <2>1. Walking /\ DistinctKeys
    BY <1>4, <1>5 DEF Walking, SortColumns, DistinctKeys
  <2>2. Cardinality(Before(b)) >= Offset(query) /\ b \in Matching(query)
    BY <2>1 DEF NotYetPassed, BegunStands, Walking
  <2>3. Before(b) \subseteq Before(b)'
    BY <1>4, <1>5, <2>2 DEF Before
  <2>4. IsFiniteSet(Before(b)')
    BY PagingAssumption, FS_Subset DEF Before, Matching, Present
  <2>5. Cardinality(Before(b)) <= Cardinality(Before(b)')
    BY <2>3, <2>4, FS_Subset
  <2>6. Cardinality(Before(b)) \in Nat /\ Cardinality(Before(b)') \in Nat
    BY <2>3, <2>4, FS_Subset, FS_CardinalityType
  <2>7. Offset(query) \in Int
    BY <2>1, QueryLimits DEF Offset, WalkTypeOK, QueryKnown, Walking
  <2> QED
    BY <2>2, <2>5, <2>6, <2>7
<1>8. QuietWalkIsTheList'
  BY <1>3 DEF QuietWalkIsTheList, Walked
<1>10. AdditionsHideNothing'
  <2> SUFFICES ASSUME Walked', ~changed, DistinctKeys'
               PROVE  Cardinality(begun \ Got) <= late'
    BY DEF AdditionsHideNothing, Got, ToSet
  <2>1. Walked /\ DistinctKeys
    BY <1>4, <1>5 DEF Walked, RefusedRole, DistinctKeys
  <2>2. Cardinality(begun \ Got) <= late
    BY <2>1 DEF AdditionsHideNothing
  <2>3. Cardinality(begun \ Got) \in Nat
    BY PagingAssumption, FS_Subset, FS_CardinalityType DEF WalkTypeOK
  <2> QED
    BY <1>3, <2>1, <2>2, <2>3 DEF Walked
<1> QED
  BY <1>1, <1>2, <1>6, <1>7, <1>8, <1>9, <1>10, <1>11

(* The rows that a page shows, of the list s. *)
LEMMA SliceOfTheList ==
    ASSUME IInv, pc \in {"count", "list"}, NEW s \in Sorted(query)
    PROVE  LET shown == Slice(query, s)
               end == Offset(query) + query.limit
           IN /\ shown \in Seq(Matching(query))
              /\ \A i \in 1..Len(s) : Offset(query) < i /\ i <= end => s[i] \in ToSet(shown)
              /\ Offset(query) <= Len(s) =>
                    /\ Len(shown) = Min({end, Len(s)}) - Offset(query)
                    /\ \A i \in 1..Len(shown) : shown[i] = s[Offset(query) + i]
<1>1. s \in Seq(Matching(query)) /\ Len(s) \in Nat
  BY SortedIsComplete, MatchingIsFinite
<1>2. page - 1 \in Nat /\ query.limit \in Nat
  BY QueryLimits DEF IInv, WalkTypeOK, QueryKnown
<1>3. Offset(query) \in Nat
  BY <1>2, ProductIsNatural DEF Offset
<1> QED
  <2>1. PICK k \in Nat, l \in Nat : k = Offset(query) /\ l = query.limit
    BY <1>2, <1>3
  <2>2. PICK shown : shown = SubSeq(s, k + 1, Min({k + l, Len(s)}))
    OBVIOUS
  <2>3. shown = Slice(query, s)
    BY <2>1, <2>2 DEF Slice
  <2>4. /\ shown \in Seq(Matching(query))
        /\ \A i \in 1..Len(s) : k < i /\ i <= k + l => s[i] \in ToSet(shown)
        /\ k <= Len(s) => /\ Len(shown) = Min({k + l, Len(s)}) - k
                          /\ \A i \in 1..Len(shown) : shown[i] = s[k + i]
    <3>1. PICK last : last = Min({k + l, Len(s)})
      OBVIOUS
    <3>2. /\ shown \in Seq(Matching(query))
          /\ \A i \in 1..Len(s) : k < i /\ i <= k + l => s[i] \in ToSet(shown)
      BY <1>1, <2>2, SliceOfSequence
    <3>3. k <= Len(s) => /\ Len(shown) = last - k
                         /\ \A i \in 1..(last - k) : shown[i] = s[k + i]
      <4>1. k <= Len(s) =>
              LET end == Min({k + l, Len(s)}) IN
              /\ Len(SubSeq(s, k + 1, end)) = end - k
              /\ \A i \in 1..(end - k) : SubSeq(s, k + 1, end)[i] = s[k + i]
        BY <1>1, SliceOfSequence, ZenonT(30)
      <4> QED
        BY <2>2, <3>1, <4>1
    <3>4. k <= Len(s) => \A i \in 1..Len(shown) : shown[i] = s[k + i]
      BY <3>3
    <3> QED
      BY <3>1, <3>2, <3>3, <3>4
  <2> QED
    BY <2>1, <2>3, <2>4

(* What follows the pages so far: the next page begins where this one ends.*)
LEMMA NextPage ==
    ASSUME IInv, pc = "list"
    PROVE  LET end == Offset(query) + query.limit
           IN /\ end \in Nat /\ Offset(query) \in Nat
              /\ page * query.limit = end
              /\ HasNext(query) <=> end < total
              /\ HasNext(query) => page + 1 <= Cardinality(Rows)
<1>1. PICK p \in Nat, l \in Nat \ {0}, t \in Nat :
        p = page /\ l = query.limit /\ t = total /\ p > 0 /\ t <= Cardinality(Rows)
  <2>1. page \in Nat /\ page > 0 /\ query.limit \in Nat \ {0}
    BY QueryLimits DEF IInv, WalkTypeOK, QueryKnown
  <2>2. total \in Nat /\ total <= Cardinality(Rows)
    BY RowsAreCounted DEF IInv, WalkTypeOK
  <2> QED
    BY <2>1, <2>2
<1>2. (p - 1) * l \in Nat /\ p * l = (p - 1) * l + l
  BY <1>1, ProductIsNatural
<1>3. /\ TotalPages(t, l) \in Nat /\ TotalPages(t, l) <= t
      /\ p < TotalPages(t, l) <=> p * l < t
  BY <1>1, PagesCover
<1>4. p < TotalPages(t, l) => p + 1 <= Cardinality(Rows)
  BY <1>1, <1>3, RowsAreCounted
<1> QED
  BY <1>1, <1>2, <1>3, <1>4 DEF Offset, HasNext

LEMMA ListStep == IInv /\ List => IInv'
<1> SUFFICES ASSUME IInv, List PROVE IInv'
  OBVIOUS
<1> USE DEF List, ghosts
<1>1. UNCHANGED <<resource, table, query>> /\ query \in Queries /\ query.resource = resource
  BY DEF IInv, QueryKnown
<1>2. CASE query.sort_key \notin SortColumns
  <2>1. WalkTypeOK' /\ QueryKnown' /\ LateIsInserted' /\ AdminsSeeUsers'
    BY <1>2 DEF IInv, WalkTypeOK, QueryKnown, LateIsInserted, AdminsSeeUsers
  <2>2. BegunStands' /\ Counted' /\ NotYetPassed' /\ PagesSoFar'
    BY <1>2, SameTable
       DEF IInv, BegunStands, Counted, NotYetPassed, PagesSoFar, Walking
  <2>3. QuietWalkIsTheList' /\ AdditionsHideNothing'
    BY <1>2 DEF QuietWalkIsTheList, AdditionsHideNothing, Walked
  <2> QED
    BY <2>1, <2>2, <2>3 DEF IInv
<1>3. CASE query.sort_key \in SortColumns
  <2>1. PICK s \in Sorted(query) :
          /\ items' = items \o Slice(query, s)
          /\ roles' = roles \cup IF resource = "users"
                                 THEN {table[r].role : r \in ToSet(Slice(query, s))} ELSE {}
    BY <1>3
  <2>2. PICK shown : shown = Slice(query, s)
    OBVIOUS
  <2>3. shown \in Seq(Matching(query)) /\ shown \in Seq(Rows) /\ items \in Seq(Rows)
    BY <2>2, SliceOfTheList, MatchingIsFinite, SeqMonotonic DEF IInv, WalkTypeOK
  <2>4. /\ items' \in Seq(Rows) /\ Got' = Got \cup ToSet(shown)
        /\ Len(items') = Len(items) + Len(shown)
        /\ \A i \in 1..Len(items') :
              items'[i] = IF i <= Len(items) THEN items[i] ELSE shown[i - Len(items)]
    <3>1. items' = items \o shown
      BY <2>1, <2>2
    <3>2. /\ items \o shown \in Seq(Rows)
          /\ Len(items \o shown) = Len(items) + Len(shown)
          /\ \A i \in 1..(Len(items) + Len(shown)) :
                (items \o shown)[i] = IF i <= Len(items) THEN items[i]
                                                        ELSE shown[i - Len(items)]
      BY <2>3, ConcatProperties
    <3>3. /\ Len(items) \in Nat /\ Len(shown) \in Nat
          /\ DOMAIN items = 1..Len(items) /\ DOMAIN shown = 1..Len(shown)
          /\ DOMAIN items' = 1..(Len(items) + Len(shown))
      BY <2>3, <3>1, <3>2, LenProperties
    <3>4. ASSUME NEW x \in Got' PROVE x \in Got \cup ToSet(shown)
      <4>1. PICK i \in 1..(Len(items) + Len(shown)) : x = items'[i]
        BY <3>3 DEF Got, ToSet
      <4>2. CASE i <= Len(items)
        <5>1. x = items[i]
          BY <3>1, <3>2, <4>1, <4>2
        <5>2. i \in DOMAIN items
          BY <3>3, <4>2
        <5> QED
          BY <5>1, <5>2 DEF Got, ToSet
      <4>3. CASE ~(i <= Len(items))
        <5>1. x = shown[i - Len(items)]
          BY <3>1, <3>2, <4>1, <4>3
        <5>2. i - Len(items) \in DOMAIN shown
          BY <3>3, <4>3
        <5> QED
          BY <5>1, <5>2 DEF ToSet
      <4> QED
        BY <4>2, <4>3
    <3>5. ASSUME NEW x \in Got PROVE x \in Got'
      <4>1. PICK i \in 1..Len(items) : x = items[i]
        BY <3>3 DEF Got, ToSet
      <4>2. i \in 1..(Len(items) + Len(shown)) /\ i <= Len(items)
        BY <3>3
      <4>3. x = items'[i]
        BY <3>1, <3>2, <4>1, <4>2
      <4> QED
        BY <3>3, <4>2, <4>3 DEF Got, ToSet
    <3>6. ASSUME NEW j \in 1..Len(shown) PROVE shown[j] \in Got'
      <4>1. Len(items) + j \in 1..(Len(items) + Len(shown)) /\ ~(Len(items) + j <= Len(items))
            /\ (Len(items) + j) - Len(items) = j
        BY <3>3
      <4>2. items'[Len(items) + j] = shown[j]
        BY <3>1, <3>2, <4>1
      <4> QED
        BY <3>3, <4>1, <4>2 DEF Got, ToSet
    <3> QED
      BY <3>1, <3>2, <3>3, <3>4, <3>5, <3>6 DEF ToSet
  <2>5. ToSet(shown) \subseteq Matching(query)
    BY <2>3, LenProperties DEF ToSet
  <2>6. roles' \subseteq Roles /\ AdminsSeeUsers'
    <3>1. CASE resource = "users"
      <4>1. ASSUME NEW r \in Matching(query)
            PROVE  /\ table[r].role \in Roles
                   /\ query.actor = "admin" => table[r].role = "user"
        <5>1. table[r] \in Users /\ Matches(query, table[r])
          BY <3>1 DEF IInv, WalkTypeOK, Matching, Present
        <5>2. "user" # None
          BY PagingAssumption DEF Roles
        <5> QED
          BY <1>1, <3>1, <5>1, <5>2 DEF Users, Matches, UserConditions, RoleFilter, Given
      <4> QED
        BY <1>1, <2>1, <2>2, <2>5, <3>1, <4>1 DEF IInv, WalkTypeOK, AdminsSeeUsers
    <3>2. CASE resource # "users"
      BY <2>1, <3>2 DEF IInv, WalkTypeOK, AdminsSeeUsers
    <3> QED
      BY <3>1, <3>2
  <2>7. WalkTypeOK' /\ QueryKnown' /\ LateIsInserted'
    <3>1. page' \in Nat /\ (page' <= 1 \/ page' <= Cardinality(Rows)) /\ page' > 0
      BY <1>3, NextPage DEF IInv, WalkTypeOK, QueryKnown
    <3>2. WalkTypeOK'
      BY <1>3, <2>4, <2>6, <3>1 DEF IInv, WalkTypeOK
    <3>3. QueryKnown' /\ LateIsInserted'
      BY <1>1, <1>3, <3>1, SameTable DEF IInv, QueryKnown, LateIsInserted
    <3> QED
      BY <3>2, <3>3
  <2>8. BegunStands' /\ Counted'
    BY <1>3, SameTable DEF IInv, BegunStands, Counted
  <2>9. PICK k \in Nat, l \in Nat, n \in Nat :
          /\ k = Offset(query) /\ l = query.limit /\ n = Cardinality(Matching(query))
          /\ page * query.limit = k + l
          /\ HasNext(query) <=> k + l < total
    BY MatchingIsFinite, NextPage, QueryLimits, <1>1
  <2>10. Len(s) = n /\ s \in Sorted(query)
    BY <2>9, SortedIsComplete
  <2>11. HasNext(query) => Offset(query)' = k + l
    BY <1>1, <1>3, <2>9 DEF Offset, IInv, WalkTypeOK
  <2>12. ASSUME ~changed, DistinctKeys, NEW b \in begun \ Got'
         PROVE  k + l <= Cardinality(Before(b)) /\ k + l < n
    <3>1. b \in Matching(query) /\ b \notin Got /\ b \notin ToSet(shown)
      BY <2>4, <2>12 DEF IInv, BegunStands
    <3>2. PICK j \in 1..n : s[j] = b
      BY <2>10, <3>1, SortedIsComplete
    <3>3. Cardinality(Before(b)) = j - 1
      BY <1>1, <1>3, <2>10, <2>12, <3>2, PlaceInTheList DEF IInv
    <3>4. Cardinality(Before(b)) >= k
      BY <1>3, <2>9, <2>12, <3>1 DEF IInv, NotYetPassed, Walking
    <3>5. ~(k < j /\ j <= k + l)
      BY <2>2, <2>9, <2>10, <3>1, <3>2, SliceOfTheList
    <3> QED
      BY <3>2, <3>3, <3>4, <3>5
  <2>13. NotYetPassed'
    BY <1>1, <1>3, <2>11, <2>12, SameTable DEF NotYetPassed, Walking
  <2>14. AdditionsHideNothing'
    <3> SUFFICES ASSUME pc' = "done", ~changed, DistinctKeys
                 PROVE  Cardinality(begun \ Got') <= late
      BY SameTable DEF AdditionsHideNothing, Walked
    <3>1. ~HasNext(query) /\ n <= total + late /\ total \in Nat /\ late \in Nat
      BY <1>3, <2>9, RowsAreCounted DEF IInv, Counted, WalkTypeOK
    <3>2. begun \ Got' \subseteq Matching(query) /\ k + l \in Nat
      BY DEF IInv, BegunStands
    <3>3. \A b \in begun \ Got' : Cardinality(Before(b)) >= k + l
      BY <2>12, <3>2, MatchingIsFinite, FS_Subset, FS_CardinalityType DEF Before
    <3>4. /\ Cardinality(begun \ Got') \in Nat
          /\ Cardinality(begun \ Got') <= IF k + l < n THEN n - (k + l) ELSE 0
      BY <1>1, <1>3, <2>9, <2>10, <3>2, <3>3, RowsBehind DEF IInv
    <3> QED
      BY <2>9, <3>1, <3>4
  <2>15. Min({k + l, n}) = IF k + l < n THEN k + l ELSE n
    <3>1. k + l \in Int /\ n \in Int
      OBVIOUS
    <3>2. /\ Min({k + l, n}) \in {k + l, n}
          /\ Min({k + l, n}) <= k + l /\ Min({k + l, n}) <= n
      BY <3>1, MinOfTwo
    <3> QED
      BY <3>1, <3>2
  <2>16. ASSUME ~changed, ~inserted
         PROVE  /\ total = n
                /\ Len(items') = IF k + l < n THEN k + l ELSE n
                /\ \A t \in Sorted(query) : \A i \in 1..Len(items') :
                      items'[i] \in Matching(query) /\ SameKey(items'[i], t[i])
    <3>1. total = n
      BY <1>3, <2>9, <2>16 DEF IInv, Counted, LateIsInserted, WalkTypeOK
    <3>2. /\ k <= n /\ Len(items) = k
          /\ \A t \in Sorted(query) : \A i \in 1..k :
                items[i] \in Matching(query) /\ SameKey(items[i], t[i])
      BY <1>3, <2>9, <2>16 DEF IInv, PagesSoFar, Walking
    <3>3. /\ Len(shown) = Min({k + l, n}) - k
          /\ \A i \in 1..Len(shown) : shown[i] = s[k + i]
      BY <2>2, <2>9, <2>10, <3>2, SliceOfTheList
    <3>4. Len(items') = IF k + l < n THEN k + l ELSE n
      <4>1. Len(items') = Len(items) + Len(shown)
        BY <2>4
      <4>2. PICK m : m = Min({k + l, n}) /\ m = IF k + l < n THEN k + l ELSE n
        BY <2>15
      <4>3. m \in Nat /\ Len(shown) = m - k
        BY <3>3, <4>2
      <4>4. k + (m - k) = m
        BY <4>3
      <4> QED
        BY <3>2, <4>1, <4>2, <4>3, <4>4
    <3>5. ASSUME NEW t \in Sorted(query), NEW i \in 1..Len(items'), ~(i <= k)
          PROVE  items'[i] \in Matching(query) /\ SameKey(items'[i], t[i])
      <4>1. i - k \in 1..Len(shown) /\ k + (i - k) = i /\ i \in 1..n
        BY <2>15, <3>2, <3>3, <3>4, <3>5
      <4>2. items'[i] = s[i]
        BY <2>4, <3>2, <3>3, <3>5, <4>1
      <4> QED
        BY <1>1, <1>3, <2>9, <2>10, <4>1, <4>2, KeysAtAPlace DEF IInv
    <3>6. ASSUME NEW t \in Sorted(query), NEW i \in 1..Len(items'), i <= k
          PROVE  items'[i] \in Matching(query) /\ SameKey(items'[i], t[i])
      BY <2>4, <3>2, <3>6
    <3> QED
      BY <3>1, <3>4, <3>5, <3>6
  <2>17. PagesSoFar'
    <3> SUFFICES ASSUME Walking', ~changed, ~inserted
                 PROVE  /\ Offset(query)' <= n /\ Len(items') = Offset(query)'
                        /\ \A t \in Sorted(query) : \A i \in 1..Offset(query)' :
                              items'[i] \in Matching(query) /\ SameKey(items'[i], t[i])
      BY <1>1, <2>9, SameTable DEF PagesSoFar
    <3>1. HasNext(query)
      BY <1>1, <1>3 DEF Walking
    <3>2. k + l < n /\ Offset(query)' = k + l
      BY <2>9, <2>11, <2>16, <3>1
    <3> QED
      BY <2>16, <3>2
  <2>18. QuietWalkIsTheList'
    <3> SUFFICES ASSUME pc' = "done", ~changed, ~inserted, NEW t \in Sorted(query)
                 PROVE  /\ Len(items') = Len(t)
                        /\ \A i \in DOMAIN t :
                              items'[i] \in Matching(query) /\ SameKey(items'[i], t[i])
                        /\ DistinctKeys => items' = t
      BY SameTable DEF QuietWalkIsTheList, Walked
    <3>1. ~(k + l < n)
      BY <1>3, <2>9, <2>16
    <3>2. t \in Seq(Matching(query)) /\ Len(t) = n /\ DOMAIN t = 1..n
      BY <2>9, SortedIsComplete
    <3>3. /\ Len(items') = n
          /\ \A i \in 1..n : items'[i] \in Matching(query) /\ SameKey(items'[i], t[i])
      BY <2>16, <3>1
    <3>4. ASSUME DistinctKeys PROVE items' = t
      <4>1. t \in Seq(Rows)
        BY <3>2, MatchingIsFinite, SeqMonotonic
      <4>2. ASSUME NEW i \in 1..n PROVE items'[i] = t[i]
        BY <3>2, <3>3, <3>4, ElementOfSeq DEF DistinctKeys, SameKey
      <4> QED
        BY <2>4, <3>2, <3>3, <4>1, <4>2, SeqEqual
    <3> QED
      BY <3>2, <3>3, <3>4
  <2> QED
    BY <2>6, <2>7, <2>8, <2>13, <2>14, <2>17, <2>18 DEF IInv
<1> QED
  BY <1>2, <1>3

LEMMA StepIInv == IInv /\ [Next]_vars => IInv'
<1> SUFFICES ASSUME IInv, [Next]_vars PROVE IInv'
  OBVIOUS
<1>1. CASE UNCHANGED vars
  <2>1. WalkTypeOK' /\ QueryKnown' /\ LateIsInserted' /\ AdminsSeeUsers'
    BY <1>1 DEF vars, walk, ghosts, IInv, WalkTypeOK, QueryKnown, LateIsInserted,
                AdminsSeeUsers, RefusedRole
  <2>2. BegunStands' /\ Counted' /\ NotYetPassed' /\ PagesSoFar'
    BY <1>1, SameTable
       DEF vars, walk, ghosts, IInv, BegunStands, Counted, NotYetPassed, PagesSoFar,
           Walking, Offset, Got, ToSet
  <2>3. QuietWalkIsTheList' /\ AdditionsHideNothing'
    BY <1>1, SameTable
       DEF vars, walk, ghosts, IInv, QuietWalkIsTheList, AdditionsHideNothing, Walked,
           Got, ToSet
  <2> QED
    BY <2>1, <2>2, <2>3 DEF IInv
<1>2. CASE Next
  BY <1>2, AskStep, CountStep, ListStep, CloseStep, InsertStep, ChangeStep DEF Next, Walk
<1> QED
  BY <1>1, <1>2

LEMMA Invariance == Spec => []IInv
BY InitIInv, StepIInv, PTL DEF Spec

-----------------------------------------------------------------------------
(* Every variable keeps its type; no walk asks for more pages than there   *)
(* are rows.                                                               *)
THEOREM TypeCorrect == Spec => []WalkTypeOK
<1>1. IInv => WalkTypeOK
  BY DEF IInv
<1> QED
  BY <1>1, Invariance, PTL

(* Without writes the pages put end to end have the keys of the list, and  *)
(* are the list where keys differ, for any table, page size, direction and *)
(* sort key.                                                               *)
THEOREM QuietWalksShowTheList == Spec => []QuietWalkIsTheList
<1>1. IInv => QuietWalkIsTheList
  BY DEF IInv
<1> QED
  BY <1>1, Invariance, PTL

(* Rows that others add hide none that was there from the beginning, but   *)
(* as many as came after the count of the last page.                       *)
THEOREM AddedRowsHideNothing == Spec => []AdditionsHideNothing
<1>1. IInv => AdditionsHideNothing
  BY DEF IInv
<1> QED
  BY <1>1, Invariance, PTL

(* An admin is shown no account that was not a user's when it was read,    *)
(* whatever is asked for and whoever changes roles meanwhile.              *)
THEOREM AdminsAreShownUsers == Spec => []AdminsSeeUsers
<1>1. IInv => AdminsSeeUsers
  BY DEF IInv
<1> QED
  BY <1>1, Invariance, PTL
=============================================================================
