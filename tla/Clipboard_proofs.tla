--------------------------- MODULE Clipboard_proofs ---------------------------
(***************************************************************************)
(* Proofs about the clipboard: the history of one host and its page        *)
(* (ActivityStore) first, then the sharing among hosts (ClipSharing), for  *)
(* any hosts, events, stamps, contents, limits and ages.  The list stays in*)
(* order, what the page shows is made up for by the updates that are still *)
(* on their way, and the list implements ActivityHistory; what a failure   *)
(* loses is replayed, and users who wait for each other share one clipboard. *)
(***************************************************************************)
EXTENDS ActivityStore, ClipSharing, FiniteSetTheorems, SequenceTheorems, TLAPS

Item == [id : Nat, guid : Events, stamp : Nat, learned : Nat, bytes : Nat]

UpdateTypes == [type : {"added", "removed", "moved", "refresh"}, id : Nat]

(* In the order of the stamps, each id and each event once.                 *)
Ordered(list) ==
    \A i, j \in DOMAIN list : i < j =>
        /\ list[i].stamp <= list[j].stamp /\ list[i].id # list[j].id
        /\ list[i].guid # list[j].guid \/ list[i].guid = NoGuid

(* new is what some of list's elements are, in the order of list.           *)
Thinned(list, new) ==
    \E f \in [DOMAIN new -> DOMAIN list] :
        /\ \A m, n \in DOMAIN new : m < n => f[m] < f[n]
        /\ \A n \in DOMAIN new : new[n] = list[f[n]]

(* Every item has an id that was given, and was learned before now.         *)
StoreInv ==
    /\ items \in Seq(Item) /\ Ordered(items)
    /\ nextItemID \in 1..(MaxItemID + 1) /\ limits \in Limits /\ now \in 0..MaxNow
    /\ \A i \in ToSet(items) : i.id \in 1..(nextItemID - 1) /\ i.learned <= now
    /\ limits.maxItems # 0 => Len(items) <= limits.maxItems

PageTypes ==
    /\ watching \in BOOLEAN /\ rows \in Seq(1..MaxItemID)
    /\ posting \in [Threads -> Seq(UpdateTypes)] /\ dispatched \in Seq(UpdateTypes)

(* The updates that have not reached the page yet.                          *)
ToTell(p, u) == \E t \in Threads : u \in ToSet(p[t])
Pending(u) == u \in ToSet(dispatched) \/ ToTell(posting, u)

RowsOnce == \A m, n \in DOMAIN rows : m # n => rows[m] # rows[n]

(* An item that a thread tells to remove is gone, and its id is not given again. *)
GoneIsGone ==
    \A u : Pending(u) /\ u.type = "removed" => u.id \notin Ids(items) /\ u.id \in 1..(nextItemID - 1)

(* What the rows and the list differ in is still to be told: whatever the page
   shows too much will be removed, whatever it lacks will be added.          *)
DifferenceIsPending ==
    watching =>
        /\ \A id \in ToSet(rows) : id \in Ids(items) \/ Pending(Update("removed", id))
        /\ \A id \in Ids(items) : id \in ToSet(rows) \/ Pending(Update("added", id))

PageInv == PageTypes /\ RowsOnce /\ GoneIsGone /\ DifferenceIsPending

(* What the limits allow a list to be.                                      *)
Fit(l, list) ==
    /\ l.maxItems # 0 => Len(list) <= l.maxItems
    /\ l.maxBytes # 0 => Len(list) <= 1 \/ TotalBytes(list) <= l.maxBytes

Fresh(list, l, cutoff) ==
    IF l.aged THEN Keep(list, {i \in DOMAIN list : list[i].learned >= cutoff}) ELSE list

-----------------------------------------------------------------------------
(***************************************************************************)
(* Sequences.                                                              *)
(***************************************************************************)
(* Of any numbers, one is the smallest.                                     *)
LEMMA SmallestOf ==
    ASSUME NEW S \in SUBSET Nat, S # {}
    PROVE  \E g \in S : \A k \in S : g <= k
<1>1. PICK g \in S : \A k \in S : ~(<<k, g>> \in OpToRel(<, Nat))
  BY NatLessThanWellFounded, WFMin, Zenon
<1>2. ASSUME NEW k \in S PROVE g <= k
  <2>1. k \in Nat /\ g \in Nat /\ ~(k < g)
    BY <1>1 DEF OpToRel
  <2> QED BY <2>1
<1> QED BY <1>2

(* Removing the element at a place.                                         *)
LEMMA RemoveAtIs ==
    ASSUME NEW T, NEW s \in Seq(T), NEW i \in DOMAIN s
    PROVE  /\ RemoveAt(s, i) \in Seq(T) /\ Len(RemoveAt(s, i)) = Len(s) - 1
           /\ DOMAIN RemoveAt(s, i) = 1..(Len(s) - 1)
           /\ \A k \in 1..(Len(s) - 1) : RemoveAt(s, i)[k] = IF k < i THEN s[k] ELSE s[k + 1]
<1> DEFINE a == SubSeq(s, 1, i - 1)
           b == SubSeq(s, i + 1, Len(s))
<1>1. Len(s) \in Nat /\ DOMAIN s = 1..Len(s) /\ i \in 1..Len(s)
  BY LenProperties
<1>2. a \in Seq(T) /\ Len(a) = i - 1 /\ \A k \in 1..(i - 1) : a[k] = s[k]
  BY <1>1, SubSeqProperties
<1>3. b \in Seq(T) /\ Len(b) = Len(s) - i /\ \A k \in 1..(Len(s) - i) : b[k] = s[i + k]
  BY <1>1, SubSeqProperties
<1> HIDE DEF a, b
<1>4. /\ a \o b \in Seq(T) /\ Len(a \o b) = Len(s) - 1
      /\ \A k \in 1..(Len(s) - 1) : (a \o b)[k] = IF k <= i - 1 THEN a[k] ELSE b[k - (i - 1)]
  <2>1. /\ a \o b \in Seq(T) /\ Len(a \o b) = Len(a) + Len(b)
        /\ \A k \in 1..(Len(a) + Len(b)) : (a \o b)[k] = IF k <= Len(a) THEN a[k] ELSE b[k - Len(a)]
    BY <1>2, <1>3, ConcatProperties
  <2>2. Len(a) + Len(b) = Len(s) - 1
    BY <1>1, <1>2, <1>3
  <2> QED BY <1>2, <2>1, <2>2, Zenon
<1>5. ASSUME NEW k \in 1..(Len(s) - 1) PROVE (a \o b)[k] = IF k < i THEN s[k] ELSE s[k + 1]
  <2>1. CASE k < i
    BY <1>1, <1>2, <1>4, <2>1
  <2>2. CASE ~(k < i)
    <3>1. k - (i - 1) \in 1..(Len(s) - i) /\ i + (k - (i - 1)) = k + 1 /\ ~(k <= i - 1)
      BY <1>1, <2>2
    <3> QED BY <1>3, <1>4, <2>2, <3>1
  <2> QED BY <2>1, <2>2
<1>6. RemoveAt(s, i) = a \o b
  BY DEF RemoveAt, a, b
<1>7. DOMAIN (a \o b) = 1..(Len(s) - 1)
  BY <1>4, LenProperties
<1> QED BY <1>4, <1>5, <1>6, <1>7

(* Inserting an element at a place.                                         *)
LEMMA InsertAtIs ==
    ASSUME NEW T, NEW s \in Seq(T), NEW e \in T, NEW i \in 1..(Len(s) + 1)
    PROVE  /\ InsertAt(s, i, e) \in Seq(T) /\ Len(InsertAt(s, i, e)) = Len(s) + 1
           /\ DOMAIN InsertAt(s, i, e) = 1..(Len(s) + 1)
           /\ \A k \in 1..(Len(s) + 1) :
                InsertAt(s, i, e)[k] = IF k < i THEN s[k] ELSE IF k = i THEN e ELSE s[k - 1]
<1> DEFINE a == SubSeq(s, 1, i - 1)
           b == SubSeq(s, i, Len(s))
           c == a \o <<e>>
<1>1. Len(s) \in Nat /\ DOMAIN s = 1..Len(s)
  BY LenProperties
<1>2. a \in Seq(T) /\ Len(a) = i - 1 /\ \A k \in 1..(i - 1) : a[k] = s[k]
  BY <1>1, SubSeqProperties
<1>3. b \in Seq(T) /\ Len(b) = Len(s) - i + 1 /\ \A k \in 1..(Len(s) - i + 1) : b[k] = s[i + k - 1]
  BY <1>1, SubSeqProperties
<1>4. <<e>> \in Seq(T) /\ Len(<<e>>) = 1 /\ <<e>>[1] = e
  OBVIOUS
<1> HIDE DEF a, b
<1>5. /\ c \in Seq(T) /\ Len(c) = i
      /\ \A k \in 1..i : c[k] = IF k <= i - 1 THEN a[k] ELSE <<e>>[k - (i - 1)]
  BY <1>1, <1>2, <1>4, ConcatProperties
<1>6. \A k \in 1..i : c[k] = IF k < i THEN s[k] ELSE e
  <2> TAKE k \in 1..i
  <2>1. CASE k < i
    BY <1>2, <1>5, <2>1
  <2>2. CASE k = i
    <3>1. k - (i - 1) = 1 /\ ~(k <= i - 1)
      BY <1>1, <2>2
    <3> QED BY <1>4, <1>5, <2>2, <3>1
  <2>3. k < i \/ k = i
    BY <1>1
  <2>4. ~(i < i)
    BY <1>1
  <2> QED BY <2>1, <2>2, <2>3, <2>4, Zenon
<1> HIDE DEF c
<1>7. /\ c \o b \in Seq(T) /\ Len(c \o b) = Len(s) + 1
      /\ \A k \in 1..(Len(s) + 1) : (c \o b)[k] = IF k <= i THEN c[k] ELSE b[k - i]
  <2>1. /\ c \o b \in Seq(T) /\ Len(c \o b) = Len(c) + Len(b)
        /\ \A k \in 1..(Len(c) + Len(b)) : (c \o b)[k] = IF k <= Len(c) THEN c[k] ELSE b[k - Len(c)]
    BY <1>3, <1>5, ConcatProperties
  <2>2. Len(c) + Len(b) = Len(s) + 1
    BY <1>1, <1>3, <1>5
  <2>3. Len(c) = i
    BY <1>5
  <2> QED BY <2>1, <2>2, <2>3
<1>8. ASSUME NEW k \in 1..(Len(s) + 1)
      PROVE  (c \o b)[k] = IF k < i THEN s[k] ELSE IF k = i THEN e ELSE s[k - 1]
  <2>1. CASE k <= i
    BY <1>1, <1>6, <1>7, <2>1
  <2>2. CASE ~(k <= i)
    <3>1. k - i \in 1..(Len(s) - i + 1) /\ i + (k - i) - 1 = k - 1 /\ ~(k < i) /\ k # i
      BY <1>1, <2>2
    <3> QED BY <1>3, <1>7, <2>2, <3>1
  <2> QED BY <2>1, <2>2
<1>9. InsertAt(s, i, e) = c \o b
  BY DEF InsertAt, a, b, c
<1>10. DOMAIN (c \o b) = 1..(Len(s) + 1)
  BY <1>7, LenProperties
<1> QED BY <1>7, <1>8, <1>9, <1>10

LEMMA ToSetIs ==
    ASSUME NEW s, NEW x
    PROVE  x \in ToSet(s) <=> \E i \in DOMAIN s : s[i] = x
BY DEF ToSet

LEMMA IdsAre ==
    ASSUME NEW s, NEW x
    PROVE  x \in Ids(s) <=> \E i \in DOMAIN s : s[i].id = x
BY DEF Ids

(* The places of a set of places can be put in ascending order.             *)
LEMMA OrderExists ==
    ASSUME NEW L \in Nat, NEW S \in SUBSET (1..L)
    PROVE  \E f \in [1..Cardinality(S) -> S] : \A m, n \in DOMAIN f : m < n => f[m] < f[n]
<1> DEFINE Sorted(T) == \E f \in [1..Cardinality(T) -> T] : \A m, n \in DOMAIN f : m < n => f[m] < f[n]
           Unsorted == {n \in Nat : \E T \in SUBSET (1..n) : ~Sorted(T)}
<1> SUFFICES ASSUME Unsorted # {} PROVE FALSE
  <2>1. CASE Sorted(S)
    BY <2>1
  <2>2. CASE ~Sorted(S)
    <3> HIDE DEF Sorted
    <3>1. L \in Unsorted
      BY <2>2
    <3> QED BY <3>1
  <2> QED BY <2>1, <2>2
<1>1. PICK n \in Unsorted : \A k \in Unsorted : n <= k
  <2>1. Unsorted \in SUBSET Nat
    OBVIOUS
  <2> HIDE DEF Unsorted
  <2> QED BY <2>1, SmallestOf
<1>2. PICK T \in SUBSET (1..n) : ~Sorted(T)
  BY <1>1
<1>3. n \in Nat
  BY <1>1
<1>4. CASE n = 0
  <2>1. T = {}
    BY <1>4
  <2>2. Cardinality(T) = 0 /\ 1..0 = {}
    BY <2>1, FS_EmptySet
  <2>3. [k \in {} |-> k] \in [1..Cardinality(T) -> T]
    BY <2>2
  <2>4. DOMAIN [k \in {} |-> k] = {}
    OBVIOUS
  <2> QED BY <1>2, <2>3, <2>4
<1>5. CASE n # 0
  <2> DEFINE U == T \ {n}
             c == Cardinality(U)
  <2>1. U \in SUBSET (1..(n - 1)) /\ n - 1 \in Nat /\ n - 1 < n
    BY <1>3, <1>5
  <2>2. n - 1 \notin Unsorted
    <3>1. ~(n <= n - 1)
      BY <1>3
    <3> HIDE DEF Unsorted
    <3> QED BY <1>1, <3>1
  <2>3. Sorted(U)
    <3> HIDE DEF Sorted, U
    <3> QED BY <2>1, <2>2
  <2>4. n \in T
    <3> SUFFICES ASSUME n \notin T PROVE FALSE
      OBVIOUS
    <3>1. U = T
      OBVIOUS
    <3> HIDE DEF Sorted, U
    <3> QED BY <1>2, <2>3, <3>1
  <2>5. PICK f \in [1..c -> U] : \A i, j \in DOMAIN f : i < j => f[i] < f[j]
    BY <2>3
  <2>6. IsFiniteSet(1..n)
    BY <1>3, FS_Interval
  <2>7. IsFiniteSet(T) /\ IsFiniteSet(U)
    BY <2>6, FS_Subset
  <2>8. c \in Nat /\ Cardinality(T) = c + 1
    BY <2>4, <2>7, FS_RemoveElement, FS_CardinalityType
  <2> DEFINE g == [k \in 1..(c + 1) |-> IF k = c + 1 THEN n ELSE f[k]]
  <2> HIDE DEF c
  <2>9. \A k \in 1..c : f[k] \in T /\ f[k] \in 1..(n - 1)
    BY <2>1, <2>5
  <2>10. g \in [1..(c + 1) -> T]
    BY <2>4, <2>8, <2>9
  <2>11. ASSUME NEW i \in DOMAIN g, NEW j \in DOMAIN g, i < j PROVE g[i] < g[j]
    <3>1. i \in 1..c /\ j \in 1..(c + 1) /\ i # c + 1
      BY <2>8, <2>11
    <3>2. CASE j = c + 1
      BY <1>3, <2>9, <3>1, <3>2
    <3>3. CASE j # c + 1
      <4>1. j \in 1..c
        BY <2>8, <3>1, <3>3
      <4>2. f[i] < f[j]
        BY <2>5, <2>11, <3>1, <4>1
      <4> QED BY <3>1, <3>3, <4>1, <4>2
    <3> QED BY <3>2, <3>3
  <2> HIDE DEF g
  <2> QED BY <1>2, <2>8, <2>10, <2>11
<1> QED BY <1>4, <1>5

LEMMA InOrderIs ==
    ASSUME NEW L \in Nat, NEW S \in SUBSET (1..L)
    PROVE  /\ Cardinality(S) \in Nat /\ Cardinality(S) <= L
           /\ InOrder(S) \in [1..Cardinality(S) -> S]
           /\ \A m, n \in 1..Cardinality(S) : m < n => InOrder(S)[m] < InOrder(S)[n]
           /\ \A i \in S : \E n \in 1..Cardinality(S) : InOrder(S)[n] = i
<1> DEFINE c == Cardinality(S)
           Increasing(f) == \A m, n \in DOMAIN f : m < n => f[m] < f[n]
<1>1. IsFiniteSet(1..L) /\ Cardinality(1..L) = L
  BY FS_Interval
<1>2. IsFiniteSet(S) /\ c \in Nat /\ c <= L
  BY <1>1, FS_Subset, FS_CardinalityType
<1>3. \E f \in [1..c -> S] : Increasing(f)
  BY OrderExists
<1>4. InOrder(S) = CHOOSE f \in [1..c -> S] : Increasing(f)
  BY DEF InOrder
<1>5. InOrder(S) \in [1..c -> S] /\ Increasing(InOrder(S))
  <2> HIDE DEF Increasing, c
  <2> QED BY <1>3, <1>4
<1> HIDE DEF c
<1>6. \A m, n \in 1..c : m < n => InOrder(S)[m] < InOrder(S)[n]
  BY <1>5
<1>7. \A m \in 1..c : InOrder(S)[m] \in Nat
  <2>1. \A i \in S : i \in Nat
    OBVIOUS
  <2> QED BY <1>5, <2>1
<1>8. InOrder(S) \in Injection(1..c, S)
  <2>1. ASSUME NEW m \in 1..c, NEW n \in 1..c, InOrder(S)[m] = InOrder(S)[n] PROVE m = n
    <3>1. ~(m < n) /\ ~(n < m)
      BY <1>6, <1>7, <2>1
    <3> QED BY <1>2, <3>1
  <2>2. IsInjective(InOrder(S))
    BY <1>5, <2>1 DEF IsInjective
  <2> QED BY <1>5, <2>2 DEF Injection
<1>9. Cardinality(1..c) = c /\ IsFiniteSet(1..c)
  BY <1>2, FS_Interval
<1>10. InOrder(S) \in Surjection(1..c, S)
  <2>1. Cardinality(1..c) = Cardinality(S)
    BY <1>9 DEF c
  <2> QED BY <1>2, <1>8, <2>1, FS_Injection
<1>11. \A i \in S : \E n \in 1..c : InOrder(S)[n] = i
  BY <1>10 DEF Surjection
<1> QED BY <1>2, <1>5, <1>6, <1>11 DEF c

LEMMA KeepIs ==
    ASSUME NEW T, NEW s \in Seq(T), NEW S \in SUBSET DOMAIN s
    PROVE  /\ Keep(s, S) \in Seq(T) /\ Len(Keep(s, S)) <= Len(s) /\ Thinned(s, Keep(s, S))
           /\ \A x : x \in ToSet(Keep(s, S)) <=> \E i \in S : s[i] = x
<1> DEFINE c == Cardinality(S)
           g == InOrder(S)
<1>1. Len(s) \in Nat /\ DOMAIN s = 1..Len(s) /\ \A i \in DOMAIN s : s[i] \in T
  BY LenProperties, ElementOfSeq
<1>2. /\ c \in Nat /\ c <= Len(s) /\ g \in [1..c -> S]
      /\ \A m, n \in 1..c : m < n => g[m] < g[n]
      /\ \A i \in S : \E n \in 1..c : g[n] = i
  BY <1>1, InOrderIs
<1>3. Keep(s, S) = [n \in 1..c |-> s[g[n]]]
  BY DEF Keep
<1> HIDE DEF c, g
<1>4. Keep(s, S) \in Seq(T) /\ Len(Keep(s, S)) = c /\ DOMAIN Keep(s, S) = 1..c
  <2>1. \A n \in 1..c : s[g[n]] \in T
    BY <1>1, <1>2
  <2>2. Keep(s, S) \in [1..c -> T]
    BY <1>3, <2>1
  <2>3. Keep(s, S) \in Seq(T)
    BY <1>2, <2>2, IsASeq
  <2>4. DOMAIN Keep(s, S) = 1..c
    BY <2>2
  <2> QED BY <1>2, <2>3, <2>4, LenProperties
<1>5. Thinned(s, Keep(s, S))
  <2>1. g \in [DOMAIN Keep(s, S) -> DOMAIN s]
    BY <1>2, <1>4
  <2>2. \A n \in DOMAIN Keep(s, S) : Keep(s, S)[n] = s[g[n]]
    BY <1>3, <1>4
  <2> QED BY <1>2, <1>4, <2>1, <2>2 DEF Thinned
<1>6. ASSUME NEW x PROVE x \in ToSet(Keep(s, S)) <=> \E i \in S : s[i] = x
  <2>1. x \in ToSet(Keep(s, S)) <=> \E n \in 1..c : s[g[n]] = x
    <3>1. x \in ToSet(Keep(s, S)) <=> \E n \in 1..c : Keep(s, S)[n] = x
      BY <1>4, ToSetIs
    <3>2. \A n \in 1..c : Keep(s, S)[n] = s[g[n]]
      BY <1>3
    <3> QED BY <3>1, <3>2
  <2> QED BY <1>2, <2>1
<1> QED BY <1>2, <1>4, <1>5, <1>6

(* What follows a place.                                                    *)
LEMMA SuffixIs ==
    ASSUME NEW T, NEW s \in Seq(T), NEW from \in 1..(Len(s) + 1)
    PROVE  LET rest == SubSeq(s, from, Len(s))
           IN  /\ rest \in Seq(T) /\ Len(rest) = Len(s) - from + 1
               /\ \A k \in 1..Len(rest) : rest[k] = s[from + k - 1]
               /\ \A x : x \in ToSet(rest) <=> \E i \in from..Len(s) : s[i] = x
               /\ Thinned(s, rest)
<1> DEFINE rest == SubSeq(s, from, Len(s))
<1>1. Len(s) \in Nat /\ DOMAIN s = 1..Len(s) /\ \A i \in DOMAIN s : s[i] \in T
  BY LenProperties, ElementOfSeq
<1>2. /\ rest \in Seq(T) /\ Len(rest) = Len(s) - from + 1
      /\ \A k \in 1..(Len(s) - from + 1) : rest[k] = s[from + k - 1]
  BY <1>1, SubSeqProperties
<1> HIDE DEF rest
<1>3. DOMAIN rest = 1..(Len(s) - from + 1)
  BY <1>2, LenProperties
<1>4. ASSUME NEW x PROVE x \in ToSet(rest) <=> \E i \in from..Len(s) : s[i] = x
  <2>1. x \in ToSet(rest) <=> \E k \in 1..(Len(s) - from + 1) : s[from + k - 1] = x
    <3>1. x \in ToSet(rest) <=> \E k \in 1..(Len(s) - from + 1) : rest[k] = x
      BY <1>3, ToSetIs
    <3> QED BY <1>2, <3>1
  <2>2. \A k \in 1..(Len(s) - from + 1) : from + k - 1 \in from..Len(s)
    BY <1>1
  <2>3. \A i \in from..Len(s) : i - from + 1 \in 1..(Len(s) - from + 1) /\ from + (i - from + 1) - 1 = i
    BY <1>1
  <2> QED BY <2>1, <2>2, <2>3
<1>5. Thinned(s, rest)
  <2> DEFINE f == [k \in DOMAIN rest |-> from + k - 1]
  <2>1. f \in [DOMAIN rest -> DOMAIN s]
    BY <1>1, <1>3
  <2>2. \A m, n \in DOMAIN rest : m < n => f[m] < f[n]
    BY <1>1, <1>3
  <2>3. \A n \in DOMAIN rest : rest[n] = s[f[n]]
    BY <1>2, <1>3
  <2> HIDE DEF f
  <2> QED BY <2>1, <2>2, <2>3 DEF Thinned
<1>6. /\ rest \in Seq(T) /\ Len(rest) = Len(s) - from + 1
      /\ \A k \in 1..Len(rest) : rest[k] = s[from + k - 1]
  BY <1>2
<1> QED BY <1>4, <1>5, <1>6 DEF rest

LEMMA ThinnedItself ==
    ASSUME NEW T, NEW s \in Seq(T)
    PROVE  Thinned(s, s)
<1> DEFINE f == [k \in DOMAIN s |-> k]
<1>1. f \in [DOMAIN s -> DOMAIN s] /\ \A n \in DOMAIN s : s[n] = s[f[n]]
  OBVIOUS
<1>2. \A m, n \in DOMAIN s : m < n => f[m] < f[n]
  OBVIOUS
<1> HIDE DEF f
<1> QED BY <1>1, <1>2 DEF Thinned

LEMMA ThinnedTwice ==
    ASSUME NEW r, NEW s, NEW t, Thinned(r, s), Thinned(s, t)
    PROVE  Thinned(r, t)
<1>1. PICK f \in [DOMAIN s -> DOMAIN r] :
        /\ \A m, n \in DOMAIN s : m < n => f[m] < f[n]
        /\ \A n \in DOMAIN s : s[n] = r[f[n]]
  BY DEF Thinned
<1>2. PICK g \in [DOMAIN t -> DOMAIN s] :
        /\ \A m, n \in DOMAIN t : m < n => g[m] < g[n]
        /\ \A n \in DOMAIN t : t[n] = s[g[n]]
  BY DEF Thinned
<1> DEFINE h == [n \in DOMAIN t |-> f[g[n]]]
<1>3. h \in [DOMAIN t -> DOMAIN r]
  BY <1>1, <1>2
<1>4. \A m, n \in DOMAIN t : m < n => h[m] < h[n]
  BY <1>1, <1>2
<1>5. \A n \in DOMAIN t : t[n] = r[h[n]]
  BY <1>1, <1>2
<1> HIDE DEF h
<1> QED BY <1>3, <1>4, <1>5 DEF Thinned

LEMMA RemovedIsThinned ==
    ASSUME NEW T, NEW s \in Seq(T), NEW i \in DOMAIN s
    PROVE  /\ Thinned(s, RemoveAt(s, i))
           /\ \A x : x \in ToSet(RemoveAt(s, i)) <=> \E j \in DOMAIN s : j # i /\ s[j] = x
<1> DEFINE r == RemoveAt(s, i)
           L == Len(s) - 1
           f == [k \in 1..L |-> IF k < i THEN k ELSE k + 1]
<1>1. Len(s) \in Nat /\ DOMAIN s = 1..Len(s) /\ i \in 1..Len(s)
  BY LenProperties
<1>2. /\ DOMAIN r = 1..L
      /\ \A k \in 1..L : r[k] = IF k < i THEN s[k] ELSE s[k + 1]
  BY RemoveAtIs
<1> HIDE DEF r
<1>3. f \in [1..L -> DOMAIN s] /\ \A m, n \in 1..L : m < n => f[m] < f[n]
  BY <1>1
<1>4. \A k \in 1..L : r[k] = s[f[k]]
  <2> TAKE k \in 1..L
  <2>1. f[k] = IF k < i THEN k ELSE k + 1
    OBVIOUS
  <2> QED BY <1>2, <2>1, Zenon
<1>5. \A k \in 1..L : f[k] # i
  BY <1>1
<1>6. ASSUME NEW j \in DOMAIN s, j # i PROVE \E k \in 1..L : f[k] = j
  <2>1. CASE j < i
    <3>1. j \in 1..L /\ f[j] = j
      BY <1>1, <2>1
    <3> QED BY <3>1
  <2>2. CASE ~(j < i)
    <3>1. j - 1 \in 1..L /\ ~(j - 1 < i) /\ (j - 1) + 1 = j
      BY <1>1, <1>6, <2>2
    <3>2. f[j - 1] = j
      BY <3>1
    <3> QED BY <3>1, <3>2
  <2> QED BY <2>1, <2>2
<1> HIDE DEF f, L
<1>7. Thinned(s, r)
  BY <1>2, <1>3, <1>4 DEF Thinned
<1>8. \A x : x \in ToSet(r) <=> \E j \in DOMAIN s : j # i /\ s[j] = x
  <2> TAKE x
  <2>1. x \in ToSet(r) <=> \E k \in 1..L : r[k] = x
    BY <1>2, ToSetIs
  <2>2. x \in ToSet(r) <=> \E k \in 1..L : s[f[k]] = x
    BY <1>4, <2>1
  <2> QED BY <1>3, <1>5, <1>6, <2>2
<1> QED BY <1>7, <1>8 DEF r

LEMMA ThinnedOrdered ==
    ASSUME NEW list \in Seq(Item), NEW new \in Seq(Item), Ordered(list), Thinned(list, new)
    PROVE  Ordered(new) /\ ToSet(new) \subseteq ToSet(list) /\ Ids(new) \subseteq Ids(list)
<1>1. PICK f \in [DOMAIN new -> DOMAIN list] :
        /\ \A m, n \in DOMAIN new : m < n => f[m] < f[n]
        /\ \A n \in DOMAIN new : new[n] = list[f[n]]
  BY DEF Thinned
<1>2. Ordered(new)
  BY <1>1 DEF Ordered
<1>3. ToSet(new) \subseteq ToSet(list)
  BY <1>1 DEF ToSet
<1>4. Ids(new) \subseteq Ids(list)
  BY <1>1 DEF Ids
<1> QED BY <1>2, <1>3, <1>4

-----------------------------------------------------------------------------
(***************************************************************************)
(* The list.                                                               *)
(***************************************************************************)
(* lower_bound finds its place: what is before is older, what is not, is not. *)
LEMMA InsertByStampIs ==
    ASSUME NEW list \in Seq(Item), NEW item \in Item, Ordered(list)
    PROVE  \E p \in 1..(Len(list) + 1) :
             /\ InsertByStamp(list, item) = InsertAt(list, p, item)
             /\ \A k \in DOMAIN list : k < p <=> list[k].stamp < item.stamp
<1> DEFINE earlier == {i \in DOMAIN list : list[i].stamp < item.stamp}
           others == {k \in 1..(Len(list) + 1) : k \notin earlier}
<1>1. /\ Len(list) \in Nat /\ DOMAIN list = 1..Len(list)
      /\ \A i \in DOMAIN list : list[i] \in Item
  BY LenProperties, ElementOfSeq
<1>2. \A i \in DOMAIN list : list[i].stamp \in Nat
  BY <1>1 DEF Item
<1>3. item.stamp \in Nat
  BY DEF Item
<1>4. \A i, j \in DOMAIN list : i < j => list[i].stamp <= list[j].stamp
  BY DEF Ordered
<1>5. \A i, j \in DOMAIN list : i < j /\ j \in earlier => i \in earlier
  <2> SUFFICES ASSUME NEW i \in DOMAIN list, NEW j \in DOMAIN list, i < j, j \in earlier
               PROVE  list[i].stamp < item.stamp
    OBVIOUS
  <2>1. list[i].stamp <= list[j].stamp /\ list[j].stamp < item.stamp
    BY <1>4
  <2> QED BY <1>2, <1>3, <2>1
<1>6. PICK p \in others : \A k \in others : p <= k
  <2>1. others \in SUBSET Nat /\ Len(list) + 1 \in others
    BY <1>1
  <2> HIDE DEF others
  <2> QED BY <2>1, SmallestOf
<1>7. p \in 1..(Len(list) + 1) /\ p \notin earlier
  BY <1>6
<1>8. \A k \in DOMAIN list : k < p <=> k \in earlier
  <2> TAKE k \in DOMAIN list
  <2>1. ASSUME k < p PROVE k \in earlier
    <3> SUFFICES ASSUME k \notin earlier PROVE FALSE
      OBVIOUS
    <3>1. k \in others
      BY <1>1
    <3>2. ~(p <= k)
      BY <1>1, <1>7, <2>1
    <3> HIDE DEF others
    <3> QED BY <1>6, <3>1, <3>2
  <2>2. ASSUME k \in earlier PROVE k < p
    <3> HIDE DEF earlier, others
    <3>1. CASE p = Len(list) + 1
      BY <1>1, <3>1
    <3>2. CASE p # Len(list) + 1
      <4>1. p \in DOMAIN list
        BY <1>1, <1>7, <3>2
      <4>2. ~(p < k) /\ p # k
        BY <1>5, <1>7, <2>2, <4>1
      <4> QED BY <1>1, <1>7, <4>2
    <3> QED BY <3>1, <3>2
  <2> QED BY <2>1, <2>2
<1>9. earlier = 1..(p - 1)
  <2>1. \A k \in earlier : k \in DOMAIN list
    OBVIOUS
  <2> HIDE DEF earlier, others
  <2>2. \A k : k \in earlier <=> k \in DOMAIN list /\ k < p
    BY <1>8, <2>1
  <2>3. \A k : k \in 1..(p - 1) <=> k \in DOMAIN list /\ k < p
    BY <1>1, <1>7
  <2> QED BY <2>2, <2>3
<1>10. Cardinality(earlier) + 1 = p
  <2>1. Cardinality(1..(p - 1)) = p - 1
    BY <1>7, FS_Interval
  <2> HIDE DEF earlier, others
  <2>2. Cardinality(earlier) = p - 1
    BY <1>9, <2>1
  <2> QED BY <1>7, <2>2
<1>11. InsertByStamp(list, item) = InsertAt(list, p, item)
  BY <1>10 DEF InsertByStamp
<1>12. \A k \in DOMAIN list : k < p <=> list[k].stamp < item.stamp
  BY <1>8
<1> HIDE DEF earlier, others
<1> QED BY <1>7, <1>11, <1>12

LEMMA InsertOrdered ==
    ASSUME NEW list \in Seq(Item), NEW item \in Item, Ordered(list),
           item.id \notin Ids(list), item.guid \notin Guids(list)
    PROVE  LET new == InsertByStamp(list, item)
           IN  /\ new \in Seq(Item) /\ Ordered(new) /\ Len(new) = Len(list) + 1
               /\ \A x : x \in ToSet(new) <=> x \in ToSet(list) \/ x = item
<1> DEFINE new == InsertByStamp(list, item)
<1>1. /\ Len(list) \in Nat /\ DOMAIN list = 1..Len(list)
      /\ \A i \in DOMAIN list : list[i] \in Item /\ list[i].stamp \in Nat
      /\ item.stamp \in Nat
  <2>1. Len(list) \in Nat /\ DOMAIN list = 1..Len(list)
    BY LenProperties
  <2>2. \A i \in DOMAIN list : list[i] \in Item
    BY ElementOfSeq, <2>1
  <2>3. \A j \in Item : j.stamp \in Nat
    BY DEF Item
  <2> QED BY <2>1, <2>2, <2>3
<1>2. PICK p \in 1..(Len(list) + 1) :
        /\ new = InsertAt(list, p, item)
        /\ \A k \in DOMAIN list : k < p <=> list[k].stamp < item.stamp
  BY InsertByStampIs
<1> HIDE DEF new
<1>3. /\ new \in Seq(Item) /\ Len(new) = Len(list) + 1 /\ DOMAIN new = 1..(Len(list) + 1)
      /\ \A k \in 1..(Len(list) + 1) :
           new[k] = IF k < p THEN list[k] ELSE IF k = p THEN item ELSE list[k - 1]
  <2>1. LET r == InsertAt(list, p, item)
        IN  /\ r \in Seq(Item) /\ Len(r) = Len(list) + 1 /\ DOMAIN r = 1..(Len(list) + 1)
            /\ \A k \in 1..(Len(list) + 1) :
                 r[k] = IF k < p THEN list[k] ELSE IF k = p THEN item ELSE list[k - 1]
    BY InsertAtIs
  <2> QED BY <1>2, <2>1, Zenon
<1>4. /\ \A k \in DOMAIN list : k < p => k \in DOMAIN new /\ new[k] = list[k]
      /\ \A k \in DOMAIN list : ~(k < p) => k + 1 \in DOMAIN new /\ new[k + 1] = list[k]
      /\ new[p] = item /\ p \in DOMAIN new
  <2>1. ASSUME NEW k \in DOMAIN list, k < p PROVE k \in DOMAIN new /\ new[k] = list[k]
    BY <1>1, <1>3, <2>1
  <2>2. ASSUME NEW k \in DOMAIN list, ~(k < p) PROVE k + 1 \in DOMAIN new /\ new[k + 1] = list[k]
    <3>1. k + 1 \in 1..(Len(list) + 1) /\ ~(k + 1 < p) /\ k + 1 # p /\ (k + 1) - 1 = k
      BY <1>1, <2>2
    <3> QED BY <1>3, <3>1
  <2>3. new[p] = item /\ p \in DOMAIN new
    <3>1. ~(p < p)
      BY <1>1
    <3> QED BY <1>3, <3>1
  <2> QED BY <2>1, <2>2, <2>3
<1>5. \A k \in DOMAIN new : \/ k \in DOMAIN list /\ k < p
                            \/ k = p
                            \/ k - 1 \in DOMAIN list /\ ~(k - 1 < p) /\ new[k] = list[k - 1]
  <2> TAKE k \in DOMAIN new
  <2> SUFFICES ASSUME ~(k \in DOMAIN list /\ k < p), k # p
               PROVE  k - 1 \in DOMAIN list /\ ~(k - 1 < p) /\ new[k] = list[k - 1]
    OBVIOUS
  <2>1. k \in 1..(Len(list) + 1)
    BY <1>3
  <2>2. k - 1 \in DOMAIN list /\ ~(k - 1 < p) /\ ~(k < p)
    BY <1>1, <2>1
  <2> QED BY <1>3, <2>1, <2>2
<1>6. \A k \in DOMAIN list : /\ list[k].id # item.id
                             /\ list[k].guid # item.guid \/ item.guid = NoGuid
  BY DEF Ids, Guids
<1>7. Ordered(new)
  <2> SUFFICES ASSUME NEW i \in DOMAIN new, NEW j \in DOMAIN new, i < j
               PROVE  /\ new[i].stamp <= new[j].stamp /\ new[i].id # new[j].id
                      /\ new[i].guid # new[j].guid \/ new[i].guid = NoGuid
    BY DEF Ordered
  <2>1. i \in Int /\ j \in Int /\ p \in Int
    BY <1>3
  <2>2. \A m, n \in DOMAIN list : m < n =>
          /\ list[m].stamp <= list[n].stamp /\ list[m].id # list[n].id
          /\ list[m].guid # list[n].guid \/ list[m].guid = NoGuid
    BY DEF Ordered
  <2>3. CASE i \in DOMAIN list /\ i < p
    <3>1. new[i] = list[i]
      BY <1>4, <2>3
    <3>2. CASE j \in DOMAIN list /\ j < p
      <4>1. new[j] = list[j]
        BY <1>4, <3>2
      <4> QED BY <2>2, <2>3, <3>1, <3>2, <4>1, Zenon
    <3>3. CASE j = p
      <4>1. list[i].stamp < item.stamp
        BY <1>2, <2>3
      <4>2. list[i].stamp <= item.stamp
        BY <1>1, <2>3, <4>1
      <4> QED BY <1>4, <1>6, <2>3, <3>1, <3>3, <4>2
    <3>4. CASE j - 1 \in DOMAIN list /\ ~(j - 1 < p) /\ new[j] = list[j - 1]
      <4>1. i < j - 1
        BY <2>1, <2>3, <3>4
      <4> QED BY <2>2, <2>3, <3>1, <3>4, <4>1, Zenon
    <3> QED BY <1>5, <3>2, <3>3, <3>4
  <2>4. CASE i = p
    <3>1. j - 1 \in DOMAIN list /\ ~(j - 1 < p) /\ new[j] = list[j - 1]
      BY <1>5, <2>1, <2>4
    <3>2. ~(list[j - 1].stamp < item.stamp)
      BY <1>2, <3>1
    <3>3. item.stamp <= list[j - 1].stamp
      BY <1>1, <3>1, <3>2
    <3> QED BY <1>4, <1>6, <2>4, <3>1, <3>3
  <2>5. CASE i - 1 \in DOMAIN list /\ ~(i - 1 < p) /\ new[i] = list[i - 1]
    <3>1. ~(j < p) /\ j # p
      BY <2>1, <2>5
    <3>2. j - 1 \in DOMAIN list /\ new[j] = list[j - 1]
      BY <1>5, <3>1
    <3>3. i - 1 < j - 1
      BY <2>1
    <3> QED BY <2>2, <2>5, <3>2, <3>3, Zenon
  <2> QED BY <1>5, <2>3, <2>4, <2>5
<1>8. \A x : x \in ToSet(new) <=> x \in ToSet(list) \/ x = item
  <2> TAKE x
  <2>1. ASSUME x \in ToSet(new) PROVE x \in ToSet(list) \/ x = item
    <3>1. PICK k \in DOMAIN new : new[k] = x
      BY <2>1, ToSetIs
    <3> QED BY <1>4, <1>5, <3>1, ToSetIs
  <2>2. ASSUME x \in ToSet(list) PROVE x \in ToSet(new)
    <3>1. PICK k \in DOMAIN list : list[k] = x
      BY <2>2, ToSetIs
    <3> QED BY <1>4, <3>1, ToSetIs
  <2>3. item \in ToSet(new)
    BY <1>4, ToSetIs
  <2> QED BY <2>1, <2>2, <2>3
<1> QED BY <1>3, <1>7, <1>8 DEF new

LEMMA PlaceOfIs ==
    ASSUME NEW list, NEW guid \in Guids(list)
    PROVE  PlaceOf(list, guid) \in DOMAIN list /\ list[PlaceOf(list, guid)].guid = guid /\ guid # NoGuid
<1>1. \E i \in DOMAIN list : list[i].guid = guid
  BY DEF Guids
<1>2. PlaceOf(list, guid) = CHOOSE i \in DOMAIN list : list[i].guid = guid
  BY DEF PlaceOf
<1> QED BY <1>1, <1>2 DEF Guids

(* An event that is not known is added; one that is known stays, or moves when
   it is told with a newer stamp, under the id it has.                       *)
LEMMA AddItemIs ==
    ASSUME NEW list \in Seq(Item), NEW item \in Item, Ordered(list), item.id \notin Ids(list)
    PROVE  LET new   == AddItem(list, item)
               at    == PlaceOf(list, item.guid)
               moved == [item EXCEPT !.id = list[at].id]
           IN  /\ new \in Seq(Item) /\ Ordered(new)
               /\ IF item.guid \notin Guids(list)
                  THEN \A x : x \in ToSet(new) <=> x \in ToSet(list) \/ x = item
                  ELSE /\ at \in DOMAIN list /\ list[at].guid = item.guid /\ item.guid # NoGuid
                       /\ moved \in Item /\ moved.id = list[at].id
                       /\ IF item.stamp <= list[at].stamp THEN new = list
                          ELSE \A x : x \in ToSet(new) <=>
                                 (\E j \in DOMAIN list : j # at /\ list[j] = x) \/ x = moved
<1> DEFINE new   == AddItem(list, item)
           at    == PlaceOf(list, item.guid)
           moved == [item EXCEPT !.id = list[at].id]
           rest  == RemoveAt(list, at)
<1>1. CASE item.guid \notin Guids(list)
  <2>1. new = InsertByStamp(list, item)
    BY <1>1 DEF AddItem
  <2> QED BY <1>1, <2>1, InsertOrdered
<1>2. CASE item.guid \in Guids(list)
  <2>1. at \in DOMAIN list /\ list[at].guid = item.guid /\ item.guid # NoGuid
    BY <1>2, PlaceOfIs
  <2>2. list[at] \in Item
    BY <2>1, ElementOfSeq, LenProperties
  <2>3. moved \in Item /\ moved.id = list[at].id /\ moved.guid = item.guid /\ moved.stamp = item.stamp
    BY <2>2 DEF Item
  <2>4. CASE item.stamp <= list[at].stamp
    <3>1. new = list
      BY <1>2, <2>4 DEF AddItem
    <3> QED BY <1>2, <2>1, <2>3, <2>4, <3>1
  <2>5. CASE ~(item.stamp <= list[at].stamp)
    <3>1. new = InsertByStamp(rest, moved)
      BY <1>2, <2>5 DEF AddItem
    <3>2. rest \in Seq(Item) /\ Thinned(list, rest)
      BY <2>1, RemoveAtIs, RemovedIsThinned
    <3>3. \A x : x \in ToSet(rest) <=> \E j \in DOMAIN list : j # at /\ list[j] = x
      BY <2>1, RemovedIsThinned
    <3>4. Ordered(rest)
      BY <3>2, ThinnedOrdered
    <3>5. \A j \in DOMAIN list : j # at =>
            /\ list[j].id # list[at].id
            /\ list[j].guid # item.guid
      <4> TAKE j \in DOMAIN list
      <4> HAVE j # at
      <4>1. j < at \/ at < j
        BY <2>1, LenProperties
      <4> QED BY <2>1, <4>1 DEF Ordered
    <3>6. ASSUME NEW k \in DOMAIN rest PROVE rest[k].id # moved.id /\ rest[k].guid # moved.guid
      <4>1. rest[k] \in ToSet(rest)
        BY ToSetIs
      <4>2. PICK j \in DOMAIN list : j # at /\ list[j] = rest[k]
        BY <3>3, <4>1
      <4> QED BY <2>3, <3>5, <4>2
    <3>7. moved.id \notin Ids(rest) /\ moved.guid \notin Guids(rest)
      <4> HIDE DEF rest, moved
      <4> QED BY <3>6 DEF Ids, Guids
    <3> HIDE DEF rest, moved, at, new
    <3>8. /\ new \in Seq(Item) /\ Ordered(new)
          /\ \A x : x \in ToSet(new) <=> x \in ToSet(rest) \/ x = moved
      BY <2>3, <3>1, <3>2, <3>4, <3>7, InsertOrdered
    <3>9. \A x : x \in ToSet(new) <=> (\E j \in DOMAIN list : j # at /\ list[j] = x) \/ x = moved
      BY <3>3, <3>8
    <3> QED BY <1>2, <2>1, <2>3, <2>5, <3>8, <3>9 DEF rest, moved, at, new
  <2> QED BY <2>4, <2>5
<1> QED BY <1>1, <1>2

LEMMA FreshIs ==
    ASSUME NEW list \in Seq(Item), NEW l, NEW cutoff
    PROVE  /\ Fresh(list, l, cutoff) \in Seq(Item) /\ Thinned(list, Fresh(list, l, cutoff))
           /\ \A x : x \in ToSet(Fresh(list, l, cutoff)) <=>
                       x \in ToSet(list) /\ (l.aged => x.learned >= cutoff)
<1> DEFINE S == {i \in DOMAIN list : list[i].learned >= cutoff}
<1>1. CASE l.aged
  <2>1. Fresh(list, l, cutoff) = Keep(list, S)
    BY <1>1 DEF Fresh
  <2>2. \A x : (\E i \in S : list[i] = x) <=> x \in ToSet(list) /\ x.learned >= cutoff
    BY ToSetIs
  <2>3. /\ Keep(list, S) \in Seq(Item) /\ Thinned(list, Keep(list, S))
        /\ \A x : x \in ToSet(Keep(list, S)) <=> \E i \in S : list[i] = x
    BY KeepIs
  <2> HIDE DEF S
  <2> QED BY <1>1, <2>1, <2>2, <2>3
<1>2. CASE ~l.aged
  BY <1>2, ThinnedItself DEF Fresh
<1> QED BY <1>1, <1>2

(* ApplyLimits leaves the shortest end of the list that is cut off far enough. *)
LEMMA ApplyLimitsIs ==
    ASSUME NEW list \in Seq(Item), NEW l, l.maxItems \in Nat, l.maxBytes \in Nat, NEW cutoff
    PROVE  LET fresh == Fresh(list, l, cutoff)
           IN  \E first \in 1..(Len(fresh) + 1) :
                 /\ ApplyLimits(list, l, cutoff) = SubSeq(fresh, first, Len(fresh))
                 /\ Fit(l, SubSeq(fresh, first, Len(fresh)))
                 /\ first > 1 => ~Fit(l, SubSeq(fresh, first - 1, Len(fresh)))
<1> DEFINE fresh == Fresh(list, l, cutoff)
           Fits(from) ==
             LET rest == SubSeq(fresh, from, Len(fresh))
             IN  /\ l.maxItems # 0 => Len(rest) <= l.maxItems
                 /\ l.maxBytes # 0 => Len(rest) <= 1 \/ TotalBytes(rest) <= l.maxBytes
           first == CHOOSE from \in 1..(Len(fresh) + 1) :
                      Fits(from) /\ \A n \in 1..(from - 1) : ~Fits(n)
           fitting == {from \in 1..(Len(fresh) + 1) : Fits(from)}
<1>1. ApplyLimits(list, l, cutoff) = SubSeq(fresh, first, Len(fresh))
  BY DEF ApplyLimits, Fresh
<1>2. fresh \in Seq(Item) /\ Len(fresh) \in Nat
  BY FreshIs, LenProperties
<1>3. \A from : Fits(from) <=> Fit(l, SubSeq(fresh, from, Len(fresh)))
  BY DEF Fit
<1> HIDE DEF fresh
<1>4. Len(fresh) + 1 \in fitting
  <2>1. SubSeq(fresh, Len(fresh) + 1, Len(fresh)) = <<>>
    BY <1>2, SubSeqEmpty
  <2>2. Fits(Len(fresh) + 1)
    BY <2>1
  <2> QED BY <1>2, <2>2
<1> HIDE DEF Fits
<1>5. PICK g \in fitting : \A k \in fitting : g <= k
  <2>1. fitting \in SUBSET Nat
    OBVIOUS
  <2> HIDE DEF fitting
  <2> QED BY <1>4, <2>1, SmallestOf
<1>6. g \in 1..(Len(fresh) + 1) /\ Fits(g)
  BY <1>5
<1>7. \A n \in 1..(g - 1) : ~Fits(n)
  <2> SUFFICES ASSUME NEW n \in 1..(g - 1), Fits(n) PROVE FALSE
    OBVIOUS
  <2>1. n \in 1..(Len(fresh) + 1) /\ ~(g <= n)
    BY <1>2, <1>6
  <2> QED BY <1>5, <2>1
<1>8. first \in 1..(Len(fresh) + 1) /\ Fits(first) /\ \A n \in 1..(first - 1) : ~Fits(n)
  BY <1>6, <1>7
<1> HIDE DEF first
<1>9. first > 1 => ~Fits(first - 1)
  BY <1>2, <1>8
<1> QED BY <1>1, <1>3, <1>8, <1>9 DEF fresh

(* ... so the list stays in order and is not too long.                      *)
LEMMA LimitsKeep ==
    ASSUME NEW list \in Seq(Item), Ordered(list), NEW l \in Limits, NEW cutoff
    PROVE  LET new == ApplyLimits(list, l, cutoff)
           IN  /\ new \in Seq(Item) /\ Ordered(new)
               /\ ToSet(new) \subseteq ToSet(list) /\ Ids(new) \subseteq Ids(list)
               /\ l.maxItems # 0 => Len(new) <= l.maxItems
<1> DEFINE fresh == Fresh(list, l, cutoff)
           new == ApplyLimits(list, l, cutoff)
<1>1. l.maxItems \in Nat /\ l.maxBytes \in Nat
  BY ActivityAssumption
<1>2. fresh \in Seq(Item) /\ Thinned(list, fresh)
  BY FreshIs
<1>3. PICK first \in 1..(Len(fresh) + 1) :
        new = SubSeq(fresh, first, Len(fresh)) /\ Fit(l, SubSeq(fresh, first, Len(fresh)))
  BY <1>1, ApplyLimitsIs
<1> HIDE DEF fresh
<1>4. new \in Seq(Item) /\ Thinned(fresh, new)
  BY <1>2, <1>3, SuffixIs
<1> HIDE DEF new
<1>5. Thinned(list, new)
  BY <1>2, <1>4, ThinnedTwice
<1>6. Ordered(new) /\ ToSet(new) \subseteq ToSet(list) /\ Ids(new) \subseteq Ids(list)
  BY <1>4, <1>5, ThinnedOrdered
<1>7. l.maxItems # 0 => Len(new) <= l.maxItems
  BY <1>3 DEF Fit
<1> QED BY <1>4, <1>6, <1>7 DEF new

-----------------------------------------------------------------------------
(***************************************************************************)
(* The store.                                                              *)
(***************************************************************************)
LEMMA IdsOfSet ==
    ASSUME NEW list, NEW id
    PROVE  id \in Ids(list) <=> \E i \in ToSet(list) : i.id = id
BY DEF Ids, ToSet

LEMMA StoreInit == Init => StoreInv
<1> SUFFICES ASSUME Init PROVE StoreInv
  OBVIOUS
<1>1. items = <<>> /\ nextItemID = 1 /\ limits \in Limits /\ now = 0
  BY DEF Init
<1>2. items \in Seq(Item) /\ Len(items) = 0 /\ DOMAIN items = {}
  BY <1>1
<1>3. ToSet(items) = {}
  BY <1>2 DEF ToSet
<1>4. MaxItemID \in Nat /\ MaxNow \in Nat /\ limits.maxItems \in Nat
  BY <1>1, ActivityAssumption
<1>5. Ordered(items)
  BY <1>2 DEF Ordered
<1> QED BY <1>1, <1>2, <1>3, <1>4, <1>5 DEF StoreInv

(* The limits applied to a list that may be the store's.                    *)
LEMMA LimitsKeepStore ==
    ASSUME NEW list \in Seq(Item), Ordered(list), NEW l \in Limits, limits' = l, NEW cutoff,
           items' = ApplyLimits(list, l, cutoff),
           nextItemID' \in 1..(MaxItemID + 1), now' \in 0..MaxNow,
           \A i \in ToSet(list) : i.id \in 1..(nextItemID' - 1) /\ i.learned <= now'
    PROVE  StoreInv' /\ ToSet(items') \subseteq ToSet(list) /\ Ids(items') \subseteq Ids(list)
<1>1. /\ items' \in Seq(Item) /\ Ordered(items')
      /\ ToSet(items') \subseteq ToSet(list) /\ Ids(items') \subseteq Ids(list)
      /\ l.maxItems # 0 => Len(items') <= l.maxItems
  BY LimitsKeep
<1> QED BY <1>1 DEF StoreInv

(* The list with the item that Add makes, before the limits.                *)
LEMMA AddedList ==
    ASSUME StoreInv, NEW guid \in Events, NEW stamp \in Stamps, nextItemID <= MaxItemID
    PROVE  LET known == guid \in Guids(items)
               item  == [id |-> nextItemID, guid |-> guid, stamp |-> stamp, learned |-> now,
                         bytes |-> Bytes[guid]]
               list  == AddItem(items, item)
               next  == IF known THEN nextItemID ELSE nextItemID + 1
           IN  /\ item \in Item /\ item.id \notin Ids(items)
               /\ list \in Seq(Item) /\ Ordered(list)
               /\ next \in 1..(MaxItemID + 1)
               /\ \A i \in ToSet(list) : i.id \in 1..(next - 1) /\ i.learned <= now
               /\ Ids(list) = IF known THEN Ids(items) ELSE Ids(items) \cup {nextItemID}
<1> DEFINE known == guid \in Guids(items)
           item  == [id |-> nextItemID, guid |-> guid, stamp |-> stamp, learned |-> now,
                     bytes |-> Bytes[guid]]
           list  == AddItem(items, item)
           next  == IF known THEN nextItemID ELSE nextItemID + 1
           at    == PlaceOf(items, item.guid)
           moved == [item EXCEPT !.id = items[at].id]
<1>1. /\ items \in Seq(Item) /\ Ordered(items) /\ nextItemID \in 1..(MaxItemID + 1)
      /\ now \in 0..MaxNow /\ MaxItemID \in Nat /\ MaxNow \in Nat
      /\ \A i \in ToSet(items) : i.id \in 1..(nextItemID - 1) /\ i.learned <= now
  BY ActivityAssumption DEF StoreInv
<1>2. item \in Item
  <2>1. Bytes[guid] \in Nat /\ stamp \in Nat
    BY ActivityAssumption
  <2> QED BY <1>1, <2>1 DEF Item
<1>3. item.id = nextItemID /\ item.guid = guid /\ item.learned = now
  OBVIOUS
<1>4. nextItemID \notin Ids(items)
  BY <1>1, IdsOfSet
<1> HIDE DEF item
<1>5. /\ list \in Seq(Item) /\ Ordered(list)
      /\ IF item.guid \notin Guids(items)
         THEN \A x : x \in ToSet(list) <=> x \in ToSet(items) \/ x = item
         ELSE /\ at \in DOMAIN items /\ moved.id = items[at].id
              /\ IF item.stamp <= items[at].stamp THEN list = items
                 ELSE \A x : x \in ToSet(list) <=>
                        (\E j \in DOMAIN items : j # at /\ items[j] = x) \/ x = moved
  BY <1>1, <1>2, <1>3, <1>4, AddItemIs
<1>6. known <=> item.guid \in Guids(items)
  BY <1>3
<1>7. moved.learned = now
  <2>1. item = [f \in {"id", "guid", "stamp", "learned", "bytes"} |-> item[f]]
    BY <1>2 DEF Item
  <2> QED BY <1>3, <2>1
<1> HIDE DEF list, moved, at, known
<1>8. next \in 1..(MaxItemID + 1)
  BY <1>1
<1>9. CASE ~known
  <2>1. \A i \in ToSet(list) : i.id \in 1..(next - 1) /\ i.learned <= now
    BY <1>1, <1>3, <1>5, <1>9, <1>6
  <2>2. Ids(list) = Ids(items) \cup {nextItemID}
    BY <1>3, <1>5, <1>9, <1>6, IdsOfSet
  <2> QED BY <1>2, <1>3, <1>4, <1>5, <1>8, <1>9, <2>1, <2>2 DEF list, item, known
<1>10. CASE known
  <2>1. items[at] \in ToSet(items)
    BY <1>5, <1>10, <1>6, ToSetIs
  <2>2. \A x : x \in ToSet(list) => x \in ToSet(items) \/ x = moved
    BY <1>5, <1>10, <1>6, ToSetIs
  <2>3. \A i \in ToSet(list) : i.id \in 1..(next - 1) /\ i.learned <= now
    BY <1>1, <1>5, <1>7, <1>10, <1>6, <2>1, <2>2
  <2>4. Ids(list) = Ids(items)
    <3>1. ASSUME NEW id \in Ids(list) PROVE id \in Ids(items)
      BY <1>5, <1>10, <1>6, <2>1, <2>2, IdsOfSet
    <3>2. ASSUME NEW id \in Ids(items) PROVE id \in Ids(list)
      <4>1. CASE list = items
        BY <4>1
      <4>2. CASE \A x : x \in ToSet(list) <=>
                        (\E j \in DOMAIN items : j # at /\ items[j] = x) \/ x = moved
        <5>1. PICK j \in DOMAIN items : items[j].id = id
          BY IdsAre
        <5>2. CASE j = at
          BY <1>5, <1>10, <1>6, <4>2, <5>1, <5>2, IdsOfSet
        <5>3. CASE j # at
          BY <4>2, <5>1, <5>3, IdsOfSet
        <5> QED BY <5>2, <5>3
      <4> QED BY <1>5, <1>10, <1>6, <4>1, <4>2
    <3> QED BY <3>1, <3>2
  <2> QED BY <1>2, <1>3, <1>4, <1>5, <1>8, <1>10, <2>3, <2>4 DEF list, item, known
<1> QED BY <1>9, <1>10

(* What Add does when the list changes.                                     *)
LEMMA AddStep ==
    ASSUME StoreInv, NEW t \in Threads, NEW guid \in Events, NEW stamp \in Stamps, Add(t, guid, stamp)
    PROVE  /\ CanStart(t) /\ UNCHANGED <<limits, now, pageVars>>
           /\ \/ UNCHANGED <<items, nextItemID, posting>>
              \/ \E list \in Seq(Item), type \in {"moved", "added"}, id \in 1..MaxItemID :
                   /\ Ordered(list) /\ items' = Limited(list)
                   /\ nextItemID' \in {nextItemID, nextItemID + 1} /\ nextItemID' \in 1..(MaxItemID + 1)
                   /\ \A i \in ToSet(list) : i.id \in 1..(nextItemID' - 1) /\ i.learned <= now
                   /\ Ids(items) \subseteq Ids(list)
                   /\ \A new \in Ids(list) : new \in Ids(items) \/ (new = nextItemID /\ type = "added" /\ id = new)
                   /\ Tell(t, <<Update(type, id)>>, list)
<1> DEFINE known == guid \in Guids(items)
           item  == [id |-> nextItemID, guid |-> guid, stamp |-> stamp, learned |-> now,
                     bytes |-> Bytes[guid]]
           list  == AddItem(items, item)
           next  == IF known THEN nextItemID ELSE nextItemID + 1
           at    == PlaceOf(items, guid)
<1>1. /\ CanStart(t) /\ UNCHANGED <<limits, now, pageVars>> /\ nextItemID <= MaxItemID
      /\ \/ list = items /\ UNCHANGED <<items, nextItemID, posting>>
         \/ /\ items' = Limited(list) /\ nextItemID' = next
            /\ IF known THEN Tell(t, <<Update("moved", items[at].id)>>, list)
               ELSE Tell(t, <<Update("added", nextItemID)>>, list)
  BY DEF Add
<1>2. /\ list \in Seq(Item) /\ Ordered(list) /\ next \in 1..(MaxItemID + 1)
      /\ \A i \in ToSet(list) : i.id \in 1..(next - 1) /\ i.learned <= now
      /\ Ids(list) = IF known THEN Ids(items) ELSE Ids(items) \cup {nextItemID}
  BY <1>1, AddedList
<1>3. /\ nextItemID \in 1..(MaxItemID + 1) /\ nextItemID \in 1..MaxItemID /\ MaxItemID \in Nat
      /\ \A i \in ToSet(items) : i.id \in 1..(nextItemID - 1)
  BY <1>1, ActivityAssumption DEF StoreInv
<1> HIDE DEF list
<1>4. CASE known /\ ~UNCHANGED <<items, nextItemID, posting>>
  <2>1. at \in DOMAIN items
    BY <1>4, PlaceOfIs
  <2>2. items[at].id \in 1..MaxItemID
    BY <1>3, <2>1, ToSetIs
  <2>3. /\ items' = Limited(list) /\ nextItemID' = nextItemID
        /\ Tell(t, <<Update("moved", items[at].id)>>, list)
    BY <1>1, <1>4
  <2> HIDE DEF at
  <2> QED BY <1>1, <1>2, <1>3, <1>4, <2>2, <2>3
<1>5. CASE ~known /\ ~UNCHANGED <<items, nextItemID, posting>>
  <2>1. /\ items' = Limited(list) /\ nextItemID' = nextItemID + 1
        /\ Tell(t, <<Update("added", nextItemID)>>, list)
    BY <1>1, <1>5
  <2>2. \A new \in Ids(list) : new \in Ids(items) \/ new = nextItemID
    BY <1>2, <1>5
  <2>3. Ids(items) \subseteq Ids(list)
    BY <1>2, <1>5
  <2>4. /\ nextItemID' \in 1..(MaxItemID + 1)
        /\ \A i \in ToSet(list) : i.id \in 1..(nextItemID' - 1) /\ i.learned <= now
    BY <1>2, <1>5, <2>1
  <2> HIDE DEF known
  <2> QED BY <1>1, <1>2, <1>3, <2>1, <2>2, <2>3, <2>4
<1> QED BY <1>1, <1>4, <1>5

(* Taking one item out.                                                     *)
LEMMA RemoveStep ==
    ASSUME StoreInv, NEW i \in DOMAIN items, items' = RemoveAt(items, i),
           UNCHANGED <<nextItemID, limits, now>>
    PROVE  StoreInv' /\ ToSet(items') \subseteq ToSet(items) /\ Ids(items') \subseteq Ids(items)
<1>1. items \in Seq(Item) /\ Ordered(items) /\ limits \in Limits
  BY DEF StoreInv
<1>2. items' \in Seq(Item) /\ Len(items') = Len(items) - 1 /\ Thinned(items, items')
  BY <1>1, RemoveAtIs, RemovedIsThinned
<1>3. Ordered(items') /\ ToSet(items') \subseteq ToSet(items) /\ Ids(items') \subseteq Ids(items)
  BY <1>1, <1>2, ThinnedOrdered
<1>4. limits.maxItems # 0 => Len(items') <= limits.maxItems
  <2>1. Len(items) \in Nat /\ limits.maxItems \in Nat
    BY <1>1, LenProperties, ActivityAssumption
  <2>2. limits.maxItems # 0 => Len(items) <= limits.maxItems
    BY DEF StoreInv
  <2> QED BY <1>2, <2>1, <2>2
<1> QED BY <1>2, <1>3, <1>4 DEF StoreInv

(* Every other step that changes the list, or none.                         *)
LEMMA LimitsStep ==
    ASSUME StoreInv, NEW l \in Limits, limits' = l, UNCHANGED <<nextItemID, now>>,
           items' = ApplyLimits(items, l, Cutoff)
    PROVE  StoreInv' /\ ToSet(items') \subseteq ToSet(items) /\ Ids(items') \subseteq Ids(items)
<1>1. /\ items \in Seq(Item) /\ Ordered(items) /\ nextItemID' \in 1..(MaxItemID + 1)
      /\ now' \in 0..MaxNow /\ \A i \in ToSet(items) : i.id \in 1..(nextItemID' - 1) /\ i.learned <= now'
  BY DEF StoreInv
<1> QED BY <1>1, LimitsKeepStore

LEMMA RemoveGuidStep ==
    ASSUME NEW guid, guid \in Guids(items), items' = RemoveByEventGuid(items, guid)
    PROVE  \E i \in DOMAIN items : items' = RemoveAt(items, i)
<1>1. items' = RemoveAt(items, PlaceOf(items, guid))
  BY DEF RemoveByEventGuid
<1> QED BY <1>1, PlaceOfIs

LEMMA StoreStep == StoreInv /\ [Next]_vars => StoreInv'
<1> SUFFICES ASSUME StoreInv, [Next]_vars PROVE StoreInv'
  OBVIOUS
<1>0. limits \in Limits /\ now \in 0..MaxNow /\ MaxNow \in Nat
  BY ActivityAssumption DEF StoreInv
<1>1. ASSUME NEW t \in Threads, NEW guid \in Events, NEW stamp \in Stamps, Add(t, guid, stamp)
      PROVE  StoreInv'
  <2>1. UNCHANGED <<limits, now>>
    BY <1>1, AddStep
  <2>2. CASE UNCHANGED <<items, nextItemID>>
    BY <2>1, <2>2 DEF StoreInv
  <2>3. CASE \E list \in Seq(Item) :
               /\ Ordered(list) /\ items' = Limited(list) /\ nextItemID' \in 1..(MaxItemID + 1)
               /\ \A i \in ToSet(list) : i.id \in 1..(nextItemID' - 1) /\ i.learned <= now
    BY <1>0, <2>1, <2>3, LimitsKeepStore DEF Limited
  <2> QED BY <1>1, <2>2, <2>3, AddStep
<1>2. ASSUME NEW t \in Threads, NEW guid \in Events, RemoveGuid(t, guid)
      PROVE  StoreInv'
  <2>1. UNCHANGED <<nextItemID, limits, now>> /\ \E i \in DOMAIN items : items' = RemoveAt(items, i)
    BY <1>2, RemoveGuidStep DEF RemoveGuid
  <2> QED BY <2>1, RemoveStep
<1>3. ASSUME NEW id \in 1..MaxItemID, RemoveItem(id)
      PROVE  StoreInv'
  <2>1. UNCHANGED <<nextItemID, limits, now>> /\ \E i \in DOMAIN items : items' = RemoveAt(items, i)
    BY <1>3 DEF RemoveItem
  <2> QED BY <2>1, RemoveStep
<1>4. ASSUME NEW new \in Limits, SetLimits(new)
      PROVE  StoreInv'
  BY <1>4, LimitsStep DEF SetLimits
<1>5. CASE Snapshot
  BY <1>0, <1>5, LimitsStep DEF Snapshot, Limited
<1>6. CASE OnShown
  BY <1>0, <1>6, LimitsStep DEF OnShown, Limited
<1>7. CASE OnHidden
  BY <1>7 DEF OnHidden, storeVars, StoreInv
<1>8. CASE Dispatch
  <2>1. \/ UNCHANGED storeVars
        \/ UNCHANGED <<nextItemID, limits>> /\ items' = Limited(items)
    BY <1>8 DEF Dispatch
  <2>2. now' = now
    BY <1>8 DEF Dispatch
  <2>3. CASE UNCHANGED storeVars
    BY <2>2, <2>3 DEF storeVars, StoreInv
  <2>4. CASE UNCHANGED <<nextItemID, limits>> /\ items' = Limited(items)
    BY <1>0, <2>2, <2>4, LimitsStep DEF Limited
  <2> QED BY <2>1, <2>3, <2>4
<1>9. CASE Tick
  <2>1. /\ UNCHANGED <<items, nextItemID, limits>> /\ now' = now + 1 /\ now' \in 0..MaxNow
    BY <1>0, <1>9 DEF Tick, storeVars
  <2>2. items \in Seq(Item) /\ \A i \in ToSet(items) : i.id \in 1..(nextItemID - 1) /\ i.learned <= now
    BY DEF StoreInv
  <2>3. \A i \in ToSet(items) : i.learned \in Nat
    <3>1. \A i \in ToSet(items) : i \in Item
      BY <2>2, ElementOfSeq, LenProperties, ToSetIs
    <3> QED BY <3>1 DEF Item
  <2>4. \A i \in ToSet(items') : i.id \in 1..(nextItemID' - 1) /\ i.learned <= now'
    BY <1>0, <2>1, <2>2, <2>3
  <2> QED BY <2>1, <2>4 DEF StoreInv
<1>10. ASSUME NEW t \in Threads, Notify(t)
       PROVE  StoreInv'
  BY <1>10 DEF Notify, storeVars, StoreInv
<1>11. CASE UNCHANGED vars
  BY <1>11 DEF vars, storeVars, StoreInv
<1> QED BY <1>1, <1>2, <1>3, <1>4, <1>5, <1>6, <1>7, <1>8, <1>9, <1>10, <1>11 DEF Next

-----------------------------------------------------------------------------
(***************************************************************************)
(* The page.                                                               *)
(***************************************************************************)
LEMMA UpdateIs ==
    ASSUME NEW type \in {"added", "removed", "moved", "refresh"}, NEW id \in Nat
    PROVE  Update(type, id) \in UpdateTypes /\ Update(type, id).type = type /\ Update(type, id).id = id
BY DEF Update, UpdateTypes

LEMMA QueueIs ==
    ASSUME NEW T, NEW s \in Seq(T), NEW x \in T
    PROVE  /\ \A u : u \in ToSet(Append(s, x)) <=> u \in ToSet(s) \/ u = x
           /\ s # <<>> => /\ Head(s) \in T /\ Tail(s) \in Seq(T)
                          /\ \A u : u \in ToSet(s) <=> u = Head(s) \/ u \in ToSet(Tail(s))
<1>1. Len(s) \in Nat /\ DOMAIN s = 1..Len(s)
  BY LenProperties
<1>2. /\ Append(s, x) \in Seq(T) /\ Len(Append(s, x)) = Len(s) + 1
      /\ \A k \in 1..Len(s) : Append(s, x)[k] = s[k]
      /\ Append(s, x)[Len(s) + 1] = x
  BY AppendProperties
<1>3. DOMAIN Append(s, x) = 1..(Len(s) + 1)
  BY <1>2, LenProperties
<1>4. ASSUME NEW u PROVE u \in ToSet(Append(s, x)) <=> u \in ToSet(s) \/ u = x
  <2>1. u \in ToSet(Append(s, x)) <=> \E k \in 1..(Len(s) + 1) : Append(s, x)[k] = u
    BY <1>3, ToSetIs
  <2>2. u \in ToSet(s) <=> \E k \in 1..Len(s) : s[k] = u
    BY <1>1, ToSetIs
  <2>3. \A k \in 1..(Len(s) + 1) : k \in 1..Len(s) \/ k = Len(s) + 1
    BY <1>1
  <2>4. /\ \A k \in 1..Len(s) : k \in 1..(Len(s) + 1)
        /\ Len(s) + 1 \in 1..(Len(s) + 1)
    BY <1>1
  <2> QED BY <1>2, <2>1, <2>2, <2>3, <2>4
<1>5. ASSUME s # <<>>
      PROVE  /\ Head(s) \in T /\ Tail(s) \in Seq(T)
             /\ \A u : u \in ToSet(s) <=> u = Head(s) \/ u \in ToSet(Tail(s))
  <2>1. /\ Head(s) \in T /\ Tail(s) \in Seq(T) /\ Len(Tail(s)) = Len(s) - 1 /\ Head(s) = s[1]
        /\ \A k \in 1..Len(Tail(s)) : Tail(s)[k] = s[k + 1]
    BY <1>5, HeadTailProperties
  <2>2. Len(s) > 0
    BY <1>1, <1>5, EmptySeq
  <2>3. DOMAIN Tail(s) = 1..(Len(s) - 1)
    BY <2>1, LenProperties
  <2>4. ASSUME NEW u PROVE u \in ToSet(s) <=> u = Head(s) \/ u \in ToSet(Tail(s))
    <3>1. u \in ToSet(Tail(s)) <=> \E k \in 1..(Len(s) - 1) : Tail(s)[k] = u
      BY <2>3, ToSetIs
    <3>2. u \in ToSet(s) <=> \E k \in 1..Len(s) : s[k] = u
      BY <1>1, ToSetIs
    <3>3. \A k \in 1..Len(s) : k = 1 \/ (k - 1 \in 1..(Len(s) - 1) /\ (k - 1) + 1 = k)
      BY <1>1, <2>2
    <3>4. 1 \in 1..Len(s) /\ \A k \in 1..(Len(s) - 1) : k + 1 \in 1..Len(s)
      BY <1>1, <2>2
    <3> QED BY <2>1, <3>1, <3>2, <3>3, <3>4
  <2> QED BY <2>1, <2>4
<1> QED BY <1>4, <1>5

LEMMA ConcatIs ==
    ASSUME NEW T, NEW r \in Seq(T), NEW s \in Seq(T)
    PROVE  r \o s \in Seq(T) /\ \A u : u \in ToSet(r \o s) <=> u \in ToSet(r) \/ u \in ToSet(s)
<1>1. /\ Len(r) \in Nat /\ DOMAIN r = 1..Len(r) /\ Len(s) \in Nat /\ DOMAIN s = 1..Len(s)
  BY LenProperties
<1>2. /\ r \o s \in Seq(T) /\ Len(r \o s) = Len(r) + Len(s)
      /\ \A i \in 1..(Len(r) + Len(s)) : (r \o s)[i] = IF i <= Len(r) THEN r[i] ELSE s[i - Len(r)]
  BY ConcatProperties
<1>3. DOMAIN (r \o s) = 1..(Len(r) + Len(s))
  BY <1>2, LenProperties
<1>4. ASSUME NEW u PROVE u \in ToSet(r \o s) <=> u \in ToSet(r) \/ u \in ToSet(s)
  <2>1. u \in ToSet(r \o s) <=> \E i \in 1..(Len(r) + Len(s)) : (r \o s)[i] = u
    BY <1>3, ToSetIs
  <2>2. /\ u \in ToSet(r) <=> \E i \in 1..Len(r) : r[i] = u
        /\ u \in ToSet(s) <=> \E i \in 1..Len(s) : s[i] = u
    BY <1>1, ToSetIs
  <2>3. \A i \in 1..Len(r) : i \in 1..(Len(r) + Len(s)) /\ i <= Len(r)
    BY <1>1
  <2>4. \A i \in 1..Len(s) : i + Len(r) \in 1..(Len(r) + Len(s)) /\ ~(i + Len(r) <= Len(r))
                             /\ (i + Len(r)) - Len(r) = i
    BY <1>1
  <2>5. \A i \in 1..(Len(r) + Len(s)) : i \in 1..Len(r) \/ (~(i <= Len(r)) /\ i - Len(r) \in 1..Len(s))
    BY <1>1
  <2>6. \A i \in 1..Len(r) : (r \o s)[i] = r[i]
    BY <1>2, <2>3
  <2>7. \A i \in 1..Len(s) : (r \o s)[i + Len(r)] = s[i]
    BY <1>2, <2>4
  <2>8. \A i \in 1..(Len(r) + Len(s)) : ~(i <= Len(r)) => (r \o s)[i] = s[i - Len(r)]
    BY <1>2
  <2> QED BY <2>1, <2>2, <2>3, <2>4, <2>5, <2>6, <2>7, <2>8
<1> QED BY <1>2, <1>4

(* What a thread has to tell of a list it left items' of: its own update, and
   the removal of every item that is gone.                                   *)
LEMMA TellIs ==
    ASSUME PageTypes, NEW t \in Threads, Free(t), NEW list \in Seq(Item),
           NEW own \in Seq(UpdateTypes), \A u \in ToSet(own) : u.type # "removed",
           Tell(t, own, list)
    PROVE  /\ posting' \in [Threads -> Seq(UpdateTypes)]
           /\ \A u : ToTell(posting, u) => ToTell(posting', u)
           /\ watching => /\ \A u \in ToSet(own) : ToTell(posting', u)
                          /\ \A id \in Ids(list) \ Ids(items') : ToTell(posting', Update("removed", id))
           /\ \A u : ToTell(posting', u) /\ u.type = "removed" =>
                ToTell(posting, u) \/ u.id \in Ids(list) \ Ids(items')
<1> DEFINE gone == {i \in DOMAIN list : list[i].id \notin Ids(items')}
           removed == Keep(list, gone)
           tail == [n \in DOMAIN removed |-> Update("removed", removed[n].id)]
           new == IF watching THEN own \o tail ELSE <<>>
<1>1. posting' = [posting EXCEPT ![t] = new]
  BY DEF Tell
<1>2. posting \in [Threads -> Seq(UpdateTypes)] /\ watching \in BOOLEAN
  BY DEF PageTypes
<1>3. /\ removed \in Seq(Item)
      /\ \A x : x \in ToSet(removed) <=> \E i \in gone : list[i] = x
  BY KeepIs
<1>4. \A i \in DOMAIN list : list[i] \in Item /\ list[i].id \in Nat
  <2>1. \A i \in DOMAIN list : list[i] \in Item
    BY ElementOfSeq, LenProperties
  <2> QED BY <2>1 DEF Item
<1>5. /\ Len(removed) \in Nat /\ DOMAIN removed = 1..Len(removed)
      /\ \A n \in DOMAIN removed : removed[n].id \in Nat
  <2>1. Len(removed) \in Nat /\ DOMAIN removed = 1..Len(removed)
    BY <1>3, LenProperties
  <2>2. \A n \in DOMAIN removed : removed[n] \in Item
    BY <1>3, <2>1, ElementOfSeq
  <2> HIDE DEF removed
  <2> QED BY <2>1, <2>2 DEF Item
<1>6. \A x : x \in ToSet(removed) => x.id \in Ids(list) \ Ids(items')
  BY <1>3, IdsAre
<1>7. \A id \in Ids(list) \ Ids(items') : \E x \in ToSet(removed) : x.id = id
  <2> TAKE id \in Ids(list) \ Ids(items')
  <2>1. PICK i \in DOMAIN list : list[i].id = id
    BY IdsAre
  <2>2. i \in gone
    BY <2>1
  <2> HIDE DEF removed, gone
  <2> QED BY <1>3, <2>1, <2>2
<1> HIDE DEF gone, removed
<1>8. /\ tail \in Seq(UpdateTypes)
      /\ \A u \in ToSet(tail) : u.type = "removed" => u.id \in Ids(list) \ Ids(items')
      /\ \A id \in Ids(list) \ Ids(items') : Update("removed", id) \in ToSet(tail)
  <2>1. \A n \in DOMAIN removed : tail[n] \in UpdateTypes /\ tail[n].id = removed[n].id
    BY <1>5, UpdateIs
  <2>2. tail \in [1..Len(removed) -> UpdateTypes] /\ DOMAIN tail = DOMAIN removed
    BY <1>5, <2>1
  <2>3. tail \in Seq(UpdateTypes)
    BY <1>5, <2>2, IsASeq
  <2>4. ASSUME NEW u \in ToSet(tail) PROVE u.id \in Ids(list) \ Ids(items')
    <3>1. PICK n \in DOMAIN tail : tail[n] = u
      BY ToSetIs
    <3>2. removed[n] \in ToSet(removed)
      BY <2>2, <3>1, ToSetIs
    <3> HIDE DEF tail
    <3> QED BY <1>6, <2>1, <2>2, <3>1, <3>2
  <2>5. ASSUME NEW id \in Ids(list) \ Ids(items') PROVE Update("removed", id) \in ToSet(tail)
    <3>1. PICK x \in ToSet(removed) : x.id = id
      BY <1>7
    <3>2. PICK n \in DOMAIN removed : removed[n] = x
      BY ToSetIs
    <3>3. tail[n] = Update("removed", id) /\ n \in DOMAIN tail
      BY <2>2, <3>1, <3>2
    <3> HIDE DEF tail
    <3> QED BY <3>3, ToSetIs
  <2> QED BY <2>3, <2>4, <2>5
<1> HIDE DEF tail
<1>9. /\ own \o tail \in Seq(UpdateTypes)
      /\ \A u : u \in ToSet(own \o tail) <=> u \in ToSet(own) \/ u \in ToSet(tail)
  BY <1>8, ConcatIs
<1>10. posting' \in [Threads -> Seq(UpdateTypes)]
  BY <1>1, <1>2, <1>9
<1>11. posting[t] = <<>> /\ \A u : u \notin ToSet(posting[t])
  <2>1. posting[t] = <<>>
    BY DEF Free
  <2> QED BY <2>1 DEF ToSet
<1>12. posting'[t] = new /\ \A s \in Threads \ {t} : posting'[s] = posting[s]
  BY <1>1, <1>2
<1>13. \A u : ToTell(posting', u) <=> ToTell(posting, u) \/ u \in ToSet(new)
  <2> HIDE DEF new
  <2> QED BY <1>11, <1>12 DEF ToTell
<1>14. ~watching => \A u : u \notin ToSet(new)
  BY DEF ToSet
<1>15. watching => \A u : u \in ToSet(new) <=> u \in ToSet(own) \/ u \in ToSet(tail)
  BY <1>9
<1> HIDE DEF new
<1> QED BY <1>2, <1>8, <1>10, <1>13, <1>14, <1>15

(* A step of the store that leaves the page alone: the list was items, or items
   and the next one, which it tells to add, before something went.           *)
LEMMA StoreKeepsPage ==
    ASSUME StoreInv, PageInv, StoreInv', UNCHANGED pageVars,
           NEW t \in Threads, Free(t), NEW list \in Seq(Item),
           NEW own \in Seq(UpdateTypes), \A u \in ToSet(own) : u.type # "removed",
           Tell(t, own, list),
           nextItemID' \in {nextItemID, nextItemID + 1},
           Ids(items) \subseteq Ids(list), Ids(items') \subseteq Ids(list),
           \A i \in Ids(list) : i \in 1..(nextItemID' - 1),
           \A i \in Ids(list) :
             i \in Ids(items) \/ (i = nextItemID /\ Update("added", i) \in ToSet(own))
    PROVE  PageInv'
<1>1. /\ PageTypes /\ RowsOnce /\ GoneIsGone /\ DifferenceIsPending
      /\ watching' = watching /\ dispatched' = dispatched /\ rows' = rows
      /\ nextItemID \in 1..(MaxItemID + 1) /\ MaxItemID \in Nat
  BY ActivityAssumption DEF PageInv, pageVars, StoreInv
<1>2. /\ posting' \in [Threads -> Seq(UpdateTypes)]
      /\ \A u : ToTell(posting, u) => ToTell(posting', u)
      /\ watching => /\ \A u \in ToSet(own) : ToTell(posting', u)
                     /\ \A id \in Ids(list) \ Ids(items') : ToTell(posting', Update("removed", id))
      /\ \A u : ToTell(posting', u) /\ u.type = "removed" =>
           ToTell(posting, u) \/ u.id \in Ids(list) \ Ids(items')
  BY <1>1, TellIs
<1>3. \A u : Pending(u) => Pending(u)'
  BY <1>1, <1>2 DEF Pending
<1>4. PageTypes'
  BY <1>1, <1>2 DEF PageTypes
<1>5. RowsOnce'
  BY <1>1 DEF RowsOnce
<1>6. GoneIsGone'
  <2> SUFFICES ASSUME NEW u, Pending(u)', u.type = "removed"
               PROVE  u.id \notin Ids(items') /\ u.id \in 1..(nextItemID' - 1)
    BY DEF GoneIsGone
  <2>1. Pending(u) \/ u.id \in Ids(list) \ Ids(items')
    BY <1>1, <1>2 DEF Pending
  <2>2. CASE Pending(u)
    <3>1. u.id \notin Ids(items) /\ u.id \in 1..(nextItemID - 1)
      BY <1>1, <2>2 DEF GoneIsGone
    <3>2. u.id \in 1..(nextItemID' - 1) /\ u.id # nextItemID
      BY <1>1, <3>1
    <3> QED BY <3>1, <3>2
  <2>3. CASE u.id \in Ids(list) \ Ids(items')
    BY <2>3
  <2> QED BY <2>1, <2>2, <2>3
<1>7. DifferenceIsPending'
  <2> SUFFICES ASSUME watching
               PROVE  /\ \A id \in ToSet(rows) : id \in Ids(items') \/ Pending(Update("removed", id))'
                      /\ \A id \in Ids(items') : id \in ToSet(rows) \/ Pending(Update("added", id))'
    BY <1>1 DEF DifferenceIsPending
  <2>1. ASSUME NEW id \in ToSet(rows), id \notin Ids(items') PROVE Pending(Update("removed", id))'
    <3>1. CASE id \in Ids(items)
      <4>1. ToTell(posting', Update("removed", id))
        BY <1>2, <2>1, <3>1
      <4> QED BY <4>1 DEF Pending
    <3>2. CASE id \notin Ids(items)
      <4>1. Pending(Update("removed", id))
        BY <1>1, <3>2 DEF DifferenceIsPending
      <4> QED BY <1>3, <4>1
    <3> QED BY <3>1, <3>2
  <2>2. ASSUME NEW id \in Ids(items'), id \notin ToSet(rows) PROVE Pending(Update("added", id))'
    <3>1. CASE id \in Ids(items)
      <4>1. Pending(Update("added", id))
        BY <1>1, <2>2, <3>1 DEF DifferenceIsPending
      <4> QED BY <1>3, <4>1
    <3>2. CASE id \notin Ids(items)
      <4>1. Update("added", id) \in ToSet(own)
        BY <3>2
      <4>2. ToTell(posting', Update("added", id))
        BY <1>2, <4>1
      <4> QED BY <4>2 DEF Pending
    <3> QED BY <3>1, <3>2
  <2> QED BY <2>1, <2>2
<1> QED BY <1>4, <1>5, <1>6, <1>7 DEF PageInv

(* ... so too when nothing is added.                                        *)
LEMMA LosingKeepsPage ==
    ASSUME StoreInv, PageInv, StoreInv', UNCHANGED pageVars,
           NEW t \in Threads, Free(t), Tell(t, <<>>, items),
           nextItemID' = nextItemID, Ids(items') \subseteq Ids(items)
    PROVE  PageInv'
<1>1. <<>> \in Seq(UpdateTypes) /\ \A u \in ToSet(<<>>) : u.type # "removed"
  BY DEF ToSet
<1>2. items \in Seq(Item) /\ \A i \in ToSet(items) : i.id \in 1..(nextItemID - 1)
  BY DEF StoreInv
<1>3. \A i \in Ids(items) : i \in 1..(nextItemID' - 1)
  BY <1>2, IdsOfSet
<1> QED BY <1>1, <1>2, <1>3, StoreKeepsPage

(***************************************************************************)
(* The rows.                                                               *)
(***************************************************************************)
Once(s) == \A m, n \in DOMAIN s : m # n => s[m] # s[n]

LEMMA WithoutIs ==
    ASSUME rows \in Seq(1..MaxItemID), Once(rows), NEW id
    PROVE  /\ Without(id) \in Seq(1..MaxItemID) /\ Once(Without(id))
           /\ \A r : r \in ToSet(Without(id)) <=> r \in ToSet(rows) /\ r # id
<1>1. CASE id \notin ToSet(rows)
  BY <1>1 DEF Without
<1>2. CASE id \in ToSet(rows)
  <2> DEFINE at == CHOOSE n \in DOMAIN rows : rows[n] = id
  <2>1. at \in DOMAIN rows /\ rows[at] = id
    BY <1>2, ToSetIs
  <2>2. Without(id) = RemoveAt(rows, at)
    BY <1>2 DEF Without
  <2> HIDE DEF at
  <2>3. RemoveAt(rows, at) \in Seq(1..MaxItemID)
    BY <2>1, RemoveAtIs
  <2>4. \A x : x \in ToSet(RemoveAt(rows, at)) <=> \E j \in DOMAIN rows : j # at /\ rows[j] = x
    BY <2>1, RemovedIsThinned
  <2>5. \A r : r \in ToSet(Without(id)) <=> r \in ToSet(rows) /\ r # id
    BY <2>1, <2>2, <2>4, ToSetIs DEF Once
  <2>6. Once(RemoveAt(rows, at))
    <3>1. PICK f \in [DOMAIN RemoveAt(rows, at) -> DOMAIN rows] :
            /\ \A m, n \in DOMAIN RemoveAt(rows, at) : m < n => f[m] < f[n]
            /\ \A n \in DOMAIN RemoveAt(rows, at) : RemoveAt(rows, at)[n] = rows[f[n]]
      BY <2>1, RemovedIsThinned DEF Thinned
    <3>2. \A n \in DOMAIN RemoveAt(rows, at) : n \in Int /\ f[n] \in Int
      BY <2>1, <3>1, RemoveAtIs, LenProperties
    <3>3. \A m, n \in DOMAIN RemoveAt(rows, at) : m # n => f[m] # f[n]
      BY <3>1, <3>2
    <3> QED BY <3>1, <3>3 DEF Once
  <2> QED BY <2>2, <2>3, <2>5, <2>6
<1> QED BY <1>1, <1>2

LEMMA InsertRow ==
    ASSUME NEW T, NEW s \in Seq(T), Once(s), NEW id \in T, id \notin ToSet(s), NEW p \in 1..(Len(s) + 1)
    PROVE  /\ InsertAt(s, p, id) \in Seq(T) /\ Once(InsertAt(s, p, id))
           /\ \A r : r \in ToSet(InsertAt(s, p, id)) <=> r \in ToSet(s) \/ r = id
<1> DEFINE new == InsertAt(s, p, id)
           L == Len(s) + 1
<1>1. /\ Len(s) \in Nat /\ DOMAIN s = 1..Len(s) /\ p \in 1..L
  BY LenProperties
<1>2. /\ new \in Seq(T) /\ DOMAIN new = 1..L
      /\ \A k \in 1..L : new[k] = IF k < p THEN s[k] ELSE IF k = p THEN id ELSE s[k - 1]
  BY InsertAtIs
<1> HIDE DEF new
<1>3. \A k \in 1..L : k < p => k \in DOMAIN s /\ new[k] = s[k]
  BY <1>1, <1>2
<1>4. new[p] = id
  <2>1. ~(p < p)
    BY <1>1
  <2> QED BY <1>1, <1>2, <2>1
<1>5. \A k \in 1..L : k > p => k - 1 \in DOMAIN s /\ new[k] = s[k - 1]
  <2> TAKE k \in 1..L
  <2> HAVE k > p
  <2>1. ~(k < p) /\ k # p /\ k - 1 \in DOMAIN s
    BY <1>1
  <2> QED BY <1>2, <2>1
<1>6. \A k \in 1..L : k < p \/ k = p \/ k > p
  BY <1>1
<1>7. \A k \in DOMAIN s : s[k] # id
  BY ToSetIs
<1>8. Once(new)
  <2> SUFFICES ASSUME NEW m \in 1..L, NEW n \in 1..L, m < n PROVE new[m] # new[n]
    BY <1>1, <1>2 DEF Once
  <2>1. \A i, j \in DOMAIN s : i # j => s[i] # s[j]
    BY DEF Once
  <2>2. CASE m < p /\ n < p
    BY <1>1, <1>3, <2>1, <2>2
  <2>3. CASE m < p /\ n = p
    BY <1>3, <1>4, <1>7, <2>3
  <2>4. CASE m < p /\ n > p
    <3>1. m # n - 1
      BY <1>1, <2>4
    <3> QED BY <1>3, <1>5, <2>1, <2>4, <3>1
  <2>5. CASE m = p
    <3>1. n > p
      BY <1>1, <2>5
    <3> QED BY <1>4, <1>5, <1>7, <2>5, <3>1
  <2>6. CASE m > p
    <3>1. n > p /\ m - 1 # n - 1
      BY <1>1, <2>6
    <3> QED BY <1>5, <2>1, <2>6, <3>1
  <2>7. (m < p /\ n < p) \/ (m < p /\ n = p) \/ (m < p /\ n > p) \/ m = p \/ m > p
    BY <1>1
  <2> QED BY <2>2, <2>3, <2>4, <2>5, <2>6, <2>7
<1>9. ASSUME NEW r PROVE r \in ToSet(new) <=> r \in ToSet(s) \/ r = id
  <2>1. r \in ToSet(new) <=> \E k \in 1..L : new[k] = r
    BY <1>2, ToSetIs
  <2>2. r \in ToSet(s) <=> \E k \in DOMAIN s : s[k] = r
    BY ToSetIs
  <2>3. ASSUME NEW k \in DOMAIN s PROVE \E j \in 1..L : new[j] = s[k]
    <3>1. CASE k < p
      <4>1. k \in 1..L
        BY <1>1
      <4> QED BY <1>3, <3>1, <4>1
    <3>2. CASE ~(k < p)
      <4>1. k + 1 \in 1..L /\ k + 1 > p /\ (k + 1) - 1 = k
        BY <1>1, <3>2
      <4> QED BY <1>5, <4>1
    <3> QED BY <3>1, <3>2
  <2> QED BY <1>1, <1>3, <1>4, <1>5, <1>6, <2>1, <2>2, <2>3
<1> QED BY <1>2, <1>8, <1>9 DEF new

LEMMA RefreshIs ==
    ASSUME NEW list \in Seq(Item), Ordered(list), \A i \in Ids(list) : i \in 1..MaxItemID,
           RefreshActivityItems(list)
    PROVE  /\ rows' \in Seq(1..MaxItemID) /\ Once(rows')
           /\ \A r : r \in ToSet(rows') <=> r \in Ids(list)
<1> DEFINE ids == [i \in DOMAIN list |-> list[i].id]
           L == Len(list)
<1>1. L \in Nat /\ DOMAIN list = 1..L
  BY LenProperties
<1>2. \A i \in DOMAIN list : list[i].id \in 1..MaxItemID
  BY IdsAre
<1>3. ids \in [1..L -> 1..MaxItemID] /\ DOMAIN ids = 1..L
  BY <1>1, <1>2
<1>4. ids \in Seq(1..MaxItemID) /\ Len(ids) = L
  <2>1. ids \in Seq(1..MaxItemID)
    BY <1>1, <1>3, IsASeq
  <2> HIDE DEF ids
  <2> QED BY <1>1, <1>3, <2>1, LenProperties
<1>5. \A i \in 1..L : ids[i] = list[i].id
  BY <1>1
<1>6. rows' = Reverse(ids)
  BY DEF RefreshActivityItems
<1> HIDE DEF ids
<1>7. rows' = [i \in 1..L |-> ids[(L - i) + 1]]
  BY <1>4, <1>6 DEF Reverse
<1> HIDE DEF L
<1>8. \A i \in 1..L : (L - i) + 1 \in 1..L
  BY <1>1
<1>9. /\ rows' \in [1..L -> 1..MaxItemID] /\ DOMAIN rows' = 1..L
      /\ \A i \in 1..L : rows'[i] = list[(L - i) + 1].id
  BY <1>3, <1>5, <1>7, <1>8
<1>10. rows' \in Seq(1..MaxItemID)
  <2> DEFINE r == [i \in 1..L |-> ids[(L - i) + 1]]
  <2>1. \A i \in 1..L : ids[(L - i) + 1] \in 1..MaxItemID
    BY <1>3, <1>8
  <2> HIDE DEF ids
  <2>2. r \in Seq(1..MaxItemID)
    BY <1>1, <2>1, IsASeq
  <2> QED BY <1>7, <2>2, Zenon DEF r
<1>11. Once(rows')
  <2> SUFFICES ASSUME NEW m \in 1..L, NEW n \in 1..L, m < n PROVE rows'[m] # rows'[n]
    BY <1>1, <1>9 DEF Once
  <2>1. (L - n) + 1 < (L - m) + 1
    BY <1>1
  <2>2. list[(L - n) + 1].id # list[(L - m) + 1].id
    BY <1>1, <1>8, <2>1 DEF Ordered
  <2> QED BY <1>9, <2>2
<1>12. ASSUME NEW r PROVE r \in ToSet(rows') <=> r \in Ids(list)
  <2>1. r \in ToSet(rows') <=> \E i \in 1..L : list[(L - i) + 1].id = r
    <3>1. r \in ToSet(rows') <=> \E i \in 1..L : rows'[i] = r
      BY <1>9, ToSetIs
    <3> QED BY <1>9, <3>1
  <2>2. r \in Ids(list) <=> \E i \in 1..L : list[i].id = r
    BY <1>1, IdsAre
  <2>3. \A i \in 1..L : (L - ((L - i) + 1)) + 1 = i
    BY <1>1
  <2> QED BY <1>8, <2>1, <2>2, <2>3
<1> QED BY <1>10, <1>11, <1>12

(* The page's step leaves the store and what the threads have to tell alone, and
   takes an update from the queue: it may change the row of the update only.  *)
LEMMA TakenKeepsPage ==
    ASSUME StoreInv, PageInv, UNCHANGED <<items, nextItemID, posting, watching>>,
           dispatched # <<>>, dispatched' = Tail(dispatched),
           NEW id, id = Head(dispatched).id,
           rows' \in Seq(1..MaxItemID), Once(rows'),
           \A r : r # id => (r \in ToSet(rows') <=> r \in ToSet(rows)),
           Head(dispatched).type = "removed" => id \notin ToSet(rows'),
           Head(dispatched).type # "removed" =>
             \/ id \in ToSet(rows') <=> id \in Ids(items)
             \/ id \in ToSet(rows) /\ id \in ToSet(rows')
    PROVE  PageInv'
<1> DEFINE head == Head(dispatched)
<1>1. /\ PageTypes /\ GoneIsGone /\ DifferenceIsPending
      /\ posting' = posting /\ watching' = watching /\ items' = items /\ nextItemID' = nextItemID
  BY DEF PageInv
<1>2. /\ head \in UpdateTypes /\ dispatched' \in Seq(UpdateTypes)
      /\ \A u : u \in ToSet(dispatched) <=> u = head \/ u \in ToSet(dispatched')
  BY <1>1, QueueIs, HeadTailProperties DEF PageTypes
<1> HIDE DEF head
<1>3. \A u : Pending(u) <=> u = head \/ Pending(u)'
  BY <1>1, <1>2 DEF Pending
<1>4. PageTypes'
  BY <1>1, <1>2 DEF PageTypes
<1>5. RowsOnce'
  BY DEF RowsOnce, Once
<1>6. GoneIsGone'
  BY <1>1, <1>3 DEF GoneIsGone
<1>7. head.type = "removed" => id \notin Ids(items)
  BY <1>1, <1>3 DEF GoneIsGone, head
<1>8. DifferenceIsPending'
  <2> SUFFICES ASSUME watching
               PROVE  /\ \A r \in ToSet(rows') : r \in Ids(items) \/ Pending(Update("removed", r))'
                      /\ \A r \in Ids(items) : r \in ToSet(rows') \/ Pending(Update("added", r))'
    BY <1>1 DEF DifferenceIsPending
  <2>1. ASSUME NEW r, head = Update("removed", r) \/ head = Update("added", r) PROVE r = id
    BY <2>1 DEF head, Update
  <2>2. ASSUME NEW r \in ToSet(rows'), r \notin Ids(items) PROVE Pending(Update("removed", r))'
    <3>1. CASE r = id
      <4>1. head.type # "removed" /\ r \in ToSet(rows)
        BY <2>2, <3>1 DEF head
      <4>2. Pending(Update("removed", r))
        BY <1>1, <2>2, <4>1 DEF DifferenceIsPending
      <4>3. head # Update("removed", r)
        BY <4>1 DEF Update
      <4> QED BY <1>3, <4>2, <4>3
    <3>2. CASE r # id
      <4>1. Pending(Update("removed", r))
        BY <1>1, <2>2, <3>2 DEF DifferenceIsPending
      <4> QED BY <1>3, <2>1, <3>2, <4>1
    <3> QED BY <3>1, <3>2
  <2>3. ASSUME NEW r \in Ids(items), r \notin ToSet(rows') PROVE Pending(Update("added", r))'
    <3>1. CASE r = id
      BY <1>7, <2>3, <3>1 DEF head
    <3>2. CASE r # id
      <4>1. Pending(Update("added", r))
        BY <1>1, <2>3, <3>2 DEF DifferenceIsPending
      <4> QED BY <1>3, <2>1, <3>2, <4>1
    <3> QED BY <3>1, <3>2
  <2> QED BY <2>2, <2>3
<1> QED BY <1>4, <1>5, <1>6, <1>8 DEF PageInv

LEMMA OnTopIs ==
    ASSUME NEW T, NEW s \in Seq(T), Once(s), NEW id \in T, id \notin ToSet(s)
    PROVE  /\ <<id>> \o s \in Seq(T) /\ Once(<<id>> \o s)
           /\ \A r : r \in ToSet(<<id>> \o s) <=> r \in ToSet(s) \/ r = id
<1> DEFINE new == <<id>> \o s
           L == Len(s) + 1
<1>1. Len(s) \in Nat /\ DOMAIN s = 1..Len(s)
  BY LenProperties
<1>2. <<id>> \in Seq(T) /\ Len(<<id>>) = 1 /\ <<id>>[1] = id /\ \A r : r \in ToSet(<<id>>) <=> r = id
  BY DEF ToSet
<1>3. /\ new \in Seq(T) /\ Len(new) = 1 + Len(s)
      /\ \A i \in 1..(1 + Len(s)) : new[i] = IF i <= 1 THEN <<id>>[i] ELSE s[i - 1]
  BY <1>2, ConcatProperties
<1>4. \A r : r \in ToSet(new) <=> r \in ToSet(<<id>>) \/ r \in ToSet(s)
  BY <1>2, ConcatIs
<1> HIDE DEF new
<1>5. DOMAIN new = 1..L
  <2>1. 1 + Len(s) = L
    BY <1>1
  <2> QED BY <1>3, <2>1, LenProperties
<1>6. new[1] = id /\ \A i \in 1..L : i > 1 => i - 1 \in DOMAIN s /\ new[i] = s[i - 1]
  BY <1>1, <1>2, <1>3
<1>7. \A k \in DOMAIN s : s[k] # id
  BY ToSetIs
<1>8. Once(new)
  <2> SUFFICES ASSUME NEW m \in 1..L, NEW n \in 1..L, m < n PROVE new[m] # new[n]
    BY <1>1, <1>5 DEF Once
  <2>1. CASE m = 1
    BY <1>1, <1>6, <1>7, <2>1
  <2>2. CASE m # 1
    <3>1. m > 1 /\ n > 1 /\ m - 1 # n - 1
      BY <1>1, <2>2
    <3> QED BY <1>6, <3>1 DEF Once
  <2> QED BY <2>1, <2>2
<1> QED BY <1>2, <1>3, <1>4, <1>8 DEF new

(* The updates of single rows.                                              *)
LEMMA RowTaken ==
    ASSUME StoreInv, PageInv, UNCHANGED <<items, nextItemID, posting, watching>>,
           dispatched # <<>>, dispatched' = Tail(dispatched),
           NEW id, id = Head(dispatched).id,
           \/ Head(dispatched).type = "added" /\ AddActivityItem(id)
           \/ Head(dispatched).type = "removed" /\ RemoveActivityItem(id)
           \/ Head(dispatched).type = "moved" /\ MoveActivityItem(id)
    PROVE  PageInv'
<1>1. rows \in Seq(1..MaxItemID) /\ Once(rows) /\ \A i \in Ids(items) : i \in 1..MaxItemID
  <2>1. \A i \in ToSet(items) : i.id \in 1..MaxItemID
    BY ActivityAssumption DEF StoreInv
  <2>2. \A i \in Ids(items) : i \in 1..MaxItemID
    BY <2>1, IdsOfSet
  <2> QED BY <2>2 DEF PageInv, PageTypes, RowsOnce, Once
<1>2. /\ Without(id) \in Seq(1..MaxItemID) /\ Once(Without(id))
      /\ \A r : r \in ToSet(Without(id)) <=> r \in ToSet(rows) /\ r # id
  BY <1>1, WithoutIs
<1>3. CASE Head(dispatched).type = "added" /\ AddActivityItem(id)
  <2>1. CASE id \in ToSet(rows) \/ id \notin Ids(items)
    <3>1. rows' = rows
      BY <1>3, <2>1 DEF AddActivityItem
    <3> QED BY <1>1, <1>3, <2>1, <3>1, TakenKeepsPage
  <2>2. CASE ~(id \in ToSet(rows) \/ id \notin Ids(items))
    <3>1. rows' = <<id>> \o rows
      BY <1>3, <2>2 DEF AddActivityItem
    <3>2. /\ rows' \in Seq(1..MaxItemID) /\ Once(rows')
          /\ \A r : r \in ToSet(rows') <=> r \in ToSet(rows) \/ r = id
      <4> DEFINE new == <<id>> \o rows
      <4>1. /\ new \in Seq(1..MaxItemID) /\ Once(new)
            /\ \A r : r \in ToSet(new) <=> r \in ToSet(rows) \/ r = id
        <5>1. id \in 1..MaxItemID /\ id \notin ToSet(rows)
          BY <1>1, <2>2
        <5> DEFINE R == 1..MaxItemID
        <5> HIDE DEF R
        <5>2. rows \in Seq(R) /\ id \in R
          BY <1>1, <5>1 DEF R
        <5>3. <<id>> \o rows \in Seq(R) /\ Once(<<id>> \o rows)
          BY <1>1, <5>1, <5>2, OnTopIs
        <5>4. \A r : r \in ToSet(<<id>> \o rows) <=> r \in ToSet(rows) \/ r = id
          BY <1>1, <5>1, <5>2, OnTopIs
        <5> QED BY <5>3, <5>4, Zenon DEF R
      <4> HIDE DEF new
      <4> QED BY <3>1, <4>1, Zenon DEF new
    <3> QED BY <1>3, <2>2, <3>2, TakenKeepsPage
  <2> QED BY <2>1, <2>2
<1>4. CASE RemoveActivityItem(id) /\ (Head(dispatched).type = "removed" \/ id \notin Ids(items))
  <2>1. rows' = Without(id)
    BY <1>4 DEF RemoveActivityItem
  <2>2. /\ rows' \in Seq(1..MaxItemID) /\ Once(rows')
        /\ \A r : r \in ToSet(rows') <=> r \in ToSet(rows) /\ r # id
    <3> DEFINE new == Without(id)
    <3>1. /\ new \in Seq(1..MaxItemID) /\ Once(new)
          /\ \A r : r \in ToSet(new) <=> r \in ToSet(rows) /\ r # id
      BY <1>2
    <3> HIDE DEF new
    <3> QED BY <2>1, <3>1, Zenon DEF new
  <2> QED BY <1>4, <2>2, TakenKeepsPage
<1>5. CASE Head(dispatched).type = "moved" /\ MoveActivityItem(id) /\ id \in Ids(items)
  <2> DEFINE stampOf(r) == (CHOOSE i \in ToSet(items) : i.id = r).stamp
             others == Without(id)
             older  == {n \in DOMAIN others :
                          others[n] \in Ids(items) /\ stampOf(others[n]) <= stampOf(id)}
             place  == IF older = {} THEN Len(others) + 1
                       ELSE CHOOSE n \in older : \A m \in older : n <= m
  <2>1. rows' = InsertAt(others, place, id)
    BY <1>5 DEF MoveActivityItem
  <2> HIDE DEF stampOf, others
  <2>2. Len(others) \in Nat /\ DOMAIN others = 1..Len(others)
    BY <1>2, LenProperties DEF others
  <2>3. place \in 1..(Len(others) + 1)
    <3>1. CASE older = {}
      BY <2>2, <3>1
    <3>2. CASE older # {}
      <4>1. older \in SUBSET Nat
        BY <2>2
      <4>2. \E n \in older : \A m \in older : n <= m
        <5> HIDE DEF older
        <5> QED BY <3>2, <4>1, SmallestOf
      <4>3. place \in older
        <5> HIDE DEF older
        <5> QED BY <3>2, <4>2
      <4> QED BY <2>2, <4>3
    <3> QED BY <3>1, <3>2
  <2> HIDE DEF place
  <2>4. /\ rows' \in Seq(1..MaxItemID) /\ Once(rows')
        /\ \A r : r \in ToSet(rows') <=> r \in ToSet(others) \/ r = id
    <3> DEFINE new == InsertAt(others, place, id)
    <3>1. /\ others \in Seq(1..MaxItemID) /\ Once(others) /\ id \in 1..MaxItemID /\ id \notin ToSet(others)
      BY <1>1, <1>2, <1>5 DEF others
    <3>2. /\ new \in Seq(1..MaxItemID) /\ Once(new)
          /\ \A r : r \in ToSet(new) <=> r \in ToSet(others) \/ r = id
      BY <2>3, <3>1, InsertRow
    <3> HIDE DEF new
    <3> QED BY <2>1, <3>2, Zenon DEF new
  <2>5. \A r : r # id => (r \in ToSet(rows') <=> r \in ToSet(rows))
    BY <1>2, <2>4 DEF others
  <2> QED BY <1>5, <2>4, <2>5, TakenKeepsPage
<1>6. MoveActivityItem(id) /\ id \notin Ids(items) => RemoveActivityItem(id)
  BY DEF MoveActivityItem
<1> QED BY <1>3, <1>4, <1>5, <1>6

(* The page takes the whole list, and whatever is gone from it is told.     *)
LEMMA RefreshMakesPage ==
    ASSUME PageTypes', StoreInv', RefreshActivityItems(items'),
           \A u : Pending(u)' /\ u.type = "removed" => u.id \notin Ids(items') /\ u.id \in 1..(nextItemID' - 1)
    PROVE  PageInv'
<1>1. items' \in Seq(Item) /\ Ordered(items')
  BY DEF StoreInv
<1>2. \A i \in Ids(items') : i \in 1..MaxItemID
  <2>1. \A i \in ToSet(items') : i.id \in 1..MaxItemID
    BY ActivityAssumption DEF StoreInv
  <2> QED BY <2>1, IdsOfSet
<1>3. Once(rows') /\ \A r : r \in ToSet(rows') <=> r \in Ids(items')
  BY <1>1, <1>2, RefreshIs
<1>4. RowsOnce' /\ DifferenceIsPending' /\ GoneIsGone'
  BY <1>3 DEF RowsOnce, Once, DifferenceIsPending, GoneIsGone
<1> QED BY <1>4 DEF PageInv

LEMMA PageInit == Init => PageInv
<1> SUFFICES ASSUME Init PROVE PageInv
  OBVIOUS
<1>1. /\ watching = FALSE /\ posting = [t \in Threads |-> <<>>] /\ dispatched = <<>> /\ rows = <<>>
  BY DEF Init
<1>2. PageTypes /\ RowsOnce
  <2>1. rows \in Seq(1..MaxItemID) /\ DOMAIN rows = {} /\ dispatched \in Seq(UpdateTypes)
    BY <1>1
  <2>2. posting \in [Threads -> Seq(UpdateTypes)]
    BY <1>1
  <2> QED BY <1>1, <2>1, <2>2 DEF PageTypes, RowsOnce
<1>3. ~watching /\ \A u : ~Pending(u)
  BY <1>1 DEF Pending, ToTell, ToSet
<1> QED BY <1>2, <1>3 DEF PageInv, GoneIsGone, DifferenceIsPending

LEMMA PageStep == StoreInv /\ PageInv /\ [Next]_vars => PageInv'
<1> SUFFICES ASSUME StoreInv, PageInv, [Next]_vars PROVE PageInv'
  OBVIOUS
<1>0. /\ StoreInv' /\ "ui" \in Threads /\ items \in Seq(Item)
      /\ PageTypes /\ RowsOnce /\ GoneIsGone /\ DifferenceIsPending
      /\ nextItemID \in 1..(MaxItemID + 1) /\ limits \in Limits
  BY StoreStep, ActivityAssumption DEF StoreInv, PageInv
<1>1. ASSUME NEW t \in Threads, NEW guid \in Events, NEW stamp \in Stamps, Add(t, guid, stamp)
      PROVE  PageInv'
  <2>1. CanStart(t) /\ UNCHANGED <<limits, now, pageVars>>
    BY <1>1, AddStep
  <2>2. CASE UNCHANGED <<items, nextItemID, posting>>
    <3>1. UNCHANGED <<items, nextItemID, posting, watching, dispatched, rows>>
      BY <2>1, <2>2 DEF pageVars
    <3> QED BY <1>0, <3>1 DEF PageInv, PageTypes, RowsOnce, GoneIsGone, DifferenceIsPending, Pending, ToTell
  <2>3. ASSUME NEW list \in Seq(Item), NEW type \in {"moved", "added"}, NEW id \in 1..MaxItemID,
               Ordered(list), items' = Limited(list),
               nextItemID' \in {nextItemID, nextItemID + 1}, nextItemID' \in 1..(MaxItemID + 1),
               \A i \in ToSet(list) : i.id \in 1..(nextItemID' - 1) /\ i.learned <= now,
               Ids(items) \subseteq Ids(list),
               \A new \in Ids(list) : new \in Ids(items) \/ (new = nextItemID /\ type = "added" /\ id = new),
               Tell(t, <<Update(type, id)>>, list)
        PROVE  PageInv'
    <3> DEFINE update == Update(type, id)
               own == <<update>>
    <3>1. update \in UpdateTypes /\ update.type # "removed"
      BY UpdateIs
    <3>2. update = Update(type, id)
      OBVIOUS
    <3> HIDE DEF update
    <3>3. own \in Seq(UpdateTypes) /\ \A u : u \in ToSet(own) <=> u = update
      BY <3>1 DEF ToSet
    <3>4. \A i \in Ids(list) : i \in 1..(nextItemID' - 1)
      BY <2>3, IdsOfSet
    <3>5. Ids(items') \subseteq Ids(list)
      <4>1. Limited(list) = ApplyLimits(list, limits, Cutoff)
        BY DEF Limited
      <4>2. Ids(ApplyLimits(list, limits, Cutoff)) \subseteq Ids(list)
        BY <1>0, <2>3, LimitsKeep
      <4> QED BY <2>3, <4>1, <4>2
    <3>6. Tell(t, own, list) /\ Free(t) /\ UNCHANGED pageVars
      BY <2>1, <2>3, <3>2 DEF CanStart
    <3>7. \A i \in Ids(list) :
            i \in Ids(items) \/ (i = nextItemID /\ Update("added", i) \in ToSet(own))
      BY <2>3, <3>2, <3>3
    <3>8. \A u \in ToSet(own) : u.type # "removed"
      BY <3>1, <3>3
    <3> HIDE DEF own
    <3> QED BY <1>0, <2>3, <3>3, <3>4, <3>5, <3>6, <3>7, <3>8, StoreKeepsPage
  <2> QED BY <1>1, <2>2, <2>3, AddStep
<1>2. ASSUME NEW t \in Threads, NEW guid \in Events, RemoveGuid(t, guid)
      PROVE  PageInv'
  <2>1. /\ UNCHANGED <<nextItemID, limits, now, pageVars>> /\ Free(t) /\ Tell(t, <<>>, items)
        /\ \E i \in DOMAIN items : items' = RemoveAt(items, i)
    BY <1>2, RemoveGuidStep DEF RemoveGuid, CanStart
  <2>2. Ids(items') \subseteq Ids(items)
    BY <2>1, RemoveStep
  <2> QED BY <1>0, <2>1, <2>2, LosingKeepsPage
<1>3. ASSUME NEW id \in 1..MaxItemID, RemoveItem(id)
      PROVE  PageInv'
  <2>1. /\ UNCHANGED <<nextItemID, limits, now, pageVars>> /\ Free("ui") /\ Tell("ui", <<>>, items)
        /\ \E i \in DOMAIN items : items' = RemoveAt(items, i)
    BY <1>3 DEF RemoveItem, CanStart
  <2>2. Ids(items') \subseteq Ids(items)
    BY <2>1, RemoveStep
  <2> QED BY <1>0, <2>1, <2>2, LosingKeepsPage
<1>4. ASSUME NEW new \in Limits, SetLimits(new)
      PROVE  PageInv'
  <2>1. /\ UNCHANGED <<nextItemID, now, pageVars>> /\ Free("ui") /\ Tell("ui", <<>>, items)
        /\ limits' = new /\ items' = ApplyLimits(items, new, Cutoff)
    BY <1>4 DEF SetLimits, CanStart
  <2>2. Ids(items') \subseteq Ids(items)
    BY <2>1, LimitsStep
  <2> QED BY <1>0, <2>1, <2>2, LosingKeepsPage
<1>5. CASE Snapshot
  <2>1. /\ UNCHANGED <<nextItemID, limits, now, pageVars>> /\ Free("ui") /\ Tell("ui", <<>>, items)
        /\ items' = ApplyLimits(items, limits, Cutoff)
    BY <1>5 DEF Snapshot, CanStart, Limited
  <2>2. Ids(items') \subseteq Ids(items)
    BY <1>0, <2>1, LimitsStep
  <2> QED BY <1>0, <2>1, <2>2, LosingKeepsPage
<1>6. CASE OnShown
  <2> DEFINE refresh == Update("refresh", 0)
  <2>1. /\ watching' = TRUE /\ items' = ApplyLimits(items, limits, Cutoff)
        /\ RefreshActivityItems(items') /\ dispatched' = Append(dispatched, refresh)
        /\ UNCHANGED <<nextItemID, limits, now, posting>>
    BY <1>6 DEF OnShown, Limited
  <2>2. Ids(items') \subseteq Ids(items)
    BY <1>0, <2>1, LimitsStep
  <2>3. refresh \in UpdateTypes /\ refresh.type # "removed"
    BY UpdateIs
  <2> HIDE DEF refresh
  <2>4. /\ dispatched' \in Seq(UpdateTypes)
        /\ \A u : u \in ToSet(dispatched') <=> u \in ToSet(dispatched) \/ u = refresh
    BY <1>0, <2>1, <2>3, QueueIs, AppendProperties DEF PageTypes
  <2>5. \A u : Pending(u)' <=> Pending(u) \/ u = refresh
    BY <2>1, <2>4 DEF Pending
  <2>6. \A u : Pending(u)' /\ u.type = "removed" => u.id \notin Ids(items') /\ u.id \in 1..(nextItemID' - 1)
    BY <1>0, <2>1, <2>2, <2>3, <2>5 DEF GoneIsGone
  <2>7. rows' \in Seq(1..MaxItemID)
    <3>1. items' \in Seq(Item) /\ Ordered(items')
      BY <1>0 DEF StoreInv
    <3>2. \A i \in ToSet(items) : i.id \in 1..MaxItemID
      BY ActivityAssumption DEF StoreInv
    <3>3. \A i \in Ids(items') : i \in 1..MaxItemID
      BY <2>2, <3>2, IdsOfSet
    <3> QED BY <2>1, <3>1, <3>3, RefreshIs
  <2>8. PageTypes'
    BY <1>0, <2>1, <2>4, <2>7 DEF PageTypes
  <2> QED BY <1>0, <2>1, <2>6, <2>8, RefreshMakesPage
<1>7. CASE OnHidden
  <2>1. watching' = FALSE /\ UNCHANGED <<items, nextItemID, limits, now, posting, dispatched, rows>>
    BY <1>7 DEF OnHidden, storeVars
  <2> QED BY <1>0, <2>1 DEF PageInv, PageTypes, RowsOnce, GoneIsGone, DifferenceIsPending, Pending, ToTell
<1>8. CASE Dispatch
  <2> DEFINE task == Head(dispatched)
  <2>1. /\ Free("ui") /\ dispatched # <<>> /\ dispatched' = Tail(dispatched) /\ UNCHANGED <<now, watching>>
        /\ \/ task.type = "added"   /\ AddActivityItem(task.id) /\ UNCHANGED <<storeVars, posting>>
           \/ task.type = "removed" /\ RemoveActivityItem(task.id) /\ UNCHANGED <<storeVars, posting>>
           \/ task.type = "moved"   /\ MoveActivityItem(task.id) /\ UNCHANGED <<storeVars, posting>>
           \/ /\ task.type = "refresh" /\ UNCHANGED <<nextItemID, limits>>
              /\ items' = Limited(items) /\ Tell("ui", <<>>, items)
              /\ RefreshActivityItems(items')
    BY <1>8 DEF Dispatch
  <2>2. CASE UNCHANGED <<storeVars, posting>> /\ task.type # "refresh"
    <3>1. UNCHANGED <<items, nextItemID, posting, watching>>
      BY <2>1, <2>2 DEF storeVars
    <3> QED BY <2>1, <2>2, <3>1, RowTaken
  <2>3. CASE /\ task.type = "refresh" /\ UNCHANGED <<nextItemID, limits>>
             /\ items' = Limited(items) /\ Tell("ui", <<>>, items)
             /\ RefreshActivityItems(items')
    <3>1. items' = ApplyLimits(items, limits, Cutoff)
      BY <2>3 DEF Limited
    <3>2. Ids(items') \subseteq Ids(items)
      BY <1>0, <2>1, <2>3, <3>1, LimitsStep
    <3>3. <<>> \in Seq(UpdateTypes) /\ \A u \in ToSet(<<>>) : u.type # "removed"
      BY DEF ToSet
    <3>4. /\ posting' \in [Threads -> Seq(UpdateTypes)]
          /\ \A u : ToTell(posting', u) /\ u.type = "removed" =>
               ToTell(posting, u) \/ u.id \in Ids(items) \ Ids(items')
      BY <1>0, <2>1, <2>3, <3>3, TellIs
    <3>5. /\ dispatched' \in Seq(UpdateTypes)
          /\ \A u \in ToSet(dispatched') : u \in ToSet(dispatched)
      BY <1>0, <2>1, QueueIs, HeadTailProperties DEF PageTypes
    <3>6. \A i \in ToSet(items) : i.id \in 1..(nextItemID - 1) /\ i.id \in 1..MaxItemID
      BY ActivityAssumption DEF StoreInv
    <3>7. \A i \in Ids(items) : i \in 1..(nextItemID - 1) /\ i \in 1..MaxItemID
      BY <3>6, IdsOfSet
    <3>8. \A u : Pending(u)' /\ u.type = "removed" => u.id \notin Ids(items') /\ u.id \in 1..(nextItemID' - 1)
      <4> SUFFICES ASSUME NEW u, Pending(u)', u.type = "removed"
                   PROVE  u.id \notin Ids(items') /\ u.id \in 1..(nextItemID - 1)
        BY <2>3
      <4>1. Pending(u) \/ u.id \in Ids(items) \ Ids(items')
        BY <3>4, <3>5 DEF Pending
      <4>2. Pending(u) => u.id \notin Ids(items) /\ u.id \in 1..(nextItemID - 1)
        BY <1>0 DEF GoneIsGone
      <4> QED BY <3>2, <3>7, <4>1, <4>2
    <3>9. rows' \in Seq(1..MaxItemID)
      <4>1. items' \in Seq(Item) /\ Ordered(items')
        BY <1>0 DEF StoreInv
      <4>2. \A i \in Ids(items') : i \in 1..MaxItemID
        BY <3>2, <3>7
      <4> QED BY <2>3, <4>1, <4>2, RefreshIs
    <3>10. PageTypes'
      BY <1>0, <2>1, <3>4, <3>5, <3>9 DEF PageTypes
    <3> QED BY <1>0, <2>3, <3>8, <3>10, RefreshMakesPage
  <2> HIDE DEF task
  <2> QED BY <2>1, <2>2, <2>3
<1>9. CASE Tick
  <2>1. UNCHANGED <<items, nextItemID, posting, watching, dispatched, rows>>
    BY <1>9 DEF Tick, storeVars, pageVars
  <2> QED BY <1>0, <2>1 DEF PageInv, PageTypes, RowsOnce, GoneIsGone, DifferenceIsPending, Pending, ToTell
<1>10. ASSUME NEW t \in Threads, Notify(t)
       PROVE  PageInv'
  <2> DEFINE next == Head(posting[t])
  <2>1. /\ posting[t] # <<>> /\ dispatched' = Append(dispatched, next)
        /\ posting' = [posting EXCEPT ![t] = Tail(posting[t])]
        /\ UNCHANGED <<items, nextItemID, watching, rows>>
    BY <1>10 DEF Notify, storeVars
  <2>2. posting \in [Threads -> Seq(UpdateTypes)] /\ dispatched \in Seq(UpdateTypes) /\ posting[t] \in Seq(UpdateTypes)
    BY <1>0 DEF PageTypes
  <2>3. /\ next \in UpdateTypes /\ Tail(posting[t]) \in Seq(UpdateTypes)
        /\ \A u : u \in ToSet(posting[t]) <=> u = next \/ u \in ToSet(Tail(posting[t]))
    BY <2>1, <2>2, QueueIs, HeadTailProperties
  <2> HIDE DEF next
  <2>4. /\ dispatched' \in Seq(UpdateTypes)
        /\ \A u : u \in ToSet(dispatched') <=> u \in ToSet(dispatched) \/ u = next
    BY <2>1, <2>2, <2>3, QueueIs, AppendProperties
  <2>5. posting'[t] = Tail(posting[t]) /\ \A s \in Threads \ {t} : posting'[s] = posting[s]
    BY <2>1, <2>2
  <2>6. \A u : Pending(u)' <=> Pending(u)
    BY <2>3, <2>4, <2>5 DEF Pending, ToTell
  <2>7. PageTypes'
    BY <1>0, <2>1, <2>2, <2>3, <2>4 DEF PageTypes
  <2> QED BY <1>0, <2>1, <2>6, <2>7 DEF PageInv, RowsOnce, GoneIsGone, DifferenceIsPending
<1>11. CASE UNCHANGED vars
  <2>1. UNCHANGED <<items, nextItemID, posting, watching, dispatched, rows>>
    BY <1>11 DEF vars, storeVars, pageVars
  <2> QED BY <1>0, <2>1 DEF PageInv, PageTypes, RowsOnce, GoneIsGone, DifferenceIsPending, Pending, ToTell
<1> QED BY <1>1, <1>2, <1>3, <1>4, <1>5, <1>6, <1>7, <1>8, <1>9, <1>10, <1>11 DEF Next

(* The list, the clock and the ids stay what they are meant to be, and what the
   page shows wrongly is on its way to be put right (AddItem, ApplyLimitsLocked
   and NotifyWatchers of ClipboardActivityStore.cpp, ClippPage.cpp).         *)
THEOREM ActivityInvariant == Spec => [](StoreInv /\ PageInv)
<1>1. Init => StoreInv /\ PageInv
  BY StoreInit, PageInit
<1>2. StoreInv /\ PageInv /\ [Next]_vars => (StoreInv /\ PageInv)'
  BY StoreStep, PageStep
<1> QED BY <1>1, <1>2, PTL DEF Spec

(* The list is in the order of the stamps, every event once, under an id that
   was given, and is never longer than the limits allow (InsertByStamp,
   AddItem and ApplyLimitsLocked of ClipboardActivityStore.cpp).             *)
THEOREM ActivityTypes == Spec => []TypeOK
<1>1. StoreInv /\ PageInv => TypeOK
  <2> SUFFICES ASSUME StoreInv, PageInv PROVE TypeOK
    OBVIOUS
  <2>1. \A i \in DOMAIN items : items[i].id < nextItemID /\ items[i].learned <= now
    <3>1. nextItemID \in Nat
      BY DEF StoreInv
    <3>2. \A i \in DOMAIN items : items[i].id \in 1..(nextItemID - 1) /\ items[i].learned <= now
      BY ToSetIs DEF StoreInv
    <3> QED BY <3>1, <3>2
  <2>2. ToSet(rows) \subseteq 1..MaxItemID
    <3>1. rows \in Seq(1..MaxItemID)
      BY DEF PageInv, PageTypes
    <3>2. \A n \in DOMAIN rows : rows[n] \in 1..MaxItemID
      BY <3>1, ElementOfSeq, LenProperties
    <3> QED BY <3>2 DEF ToSet
  <2> QED BY <2>1, <2>2 DEF StoreInv, PageInv, PageTypes, TypeOK, Ordered
<1> QED BY <1>1, ActivityInvariant, PTL

(* No more rows than there are different ones.                              *)
LEMMA OnceLength ==
    ASSUME NEW T, NEW s \in Seq(T), Once(s)
    PROVE  Cardinality(ToSet(s)) = Len(s)
<1>1. Len(s) \in Nat /\ DOMAIN s = 1..Len(s)
  BY LenProperties
<1>2. s \in Bijection(1..Len(s), ToSet(s))
  <2>1. s \in [1..Len(s) -> ToSet(s)]
    <3>1. \A i \in DOMAIN s : s[i] \in ToSet(s)
      BY ToSetIs
    <3>2. s = [i \in 1..Len(s) |-> s[i]]
      BY <1>1, SeqDef
    <3> QED BY <1>1, <3>1, <3>2
  <2>2. IsInjective(s)
    BY DEF IsInjective, Once
  <2>3. \A x \in ToSet(s) : \E i \in 1..Len(s) : s[i] = x
    BY <1>1, ToSetIs
  <2> QED BY <2>1, <2>2, <2>3 DEF Bijection, Injection, Surjection
<1>3. IsFiniteSet(1..Len(s)) /\ Cardinality(1..Len(s)) = Len(s)
  BY <1>1, FS_Interval
<1>4. ExistsBijection(1..Len(s), ToSet(s))
  BY <1>2 DEF ExistsBijection
<1> QED BY <1>3, <1>4, FS_Bijection

(* Once every update has been told and handled, a page on the screen shows the
   store's items, each once, whatever order the threads told them in
   (NotifyWatchers outside the mutex; AddActivityItem, RemoveActivityItem and
   MoveActivityItem of ClippPage.cpp).                                       *)
THEOREM PageIsRight == Spec => []PageShowsStore
<1>1. StoreInv /\ PageInv => PageShowsStore
  <2> SUFFICES ASSUME StoreInv, PageInv, watching, dispatched = <<>>, \A t \in Threads : Free(t)
               PROVE  ToSet(rows) = Ids(items) /\ Len(rows) = Len(items)
    BY DEF PageShowsStore
  <2>1. \A u : ~Pending(u)
    BY DEF Pending, ToTell, Free, ToSet
  <2>2. ToSet(rows) = Ids(items)
    BY <2>1 DEF PageInv, DifferenceIsPending
  <2> DEFINE ids == [i \in 1..Len(items) |-> items[i].id]
  <2>3. items \in Seq(Item) /\ Len(items) \in Nat /\ DOMAIN items = 1..Len(items) /\ Ordered(items)
    BY LenProperties DEF StoreInv
  <2>4. ids \in Seq(Nat) /\ Len(ids) = Len(items) /\ DOMAIN ids = 1..Len(items)
    <3>1. \A i \in DOMAIN items : items[i].id \in Nat
      <4>1. \A i \in DOMAIN items : items[i] \in Item
        BY <2>3, ElementOfSeq
      <4> QED BY <4>1 DEF Item
    <3>2. ids \in [1..Len(items) -> Nat]
      BY <2>3, <3>1
    <3>3. ids \in Seq(Nat)
      BY <2>3, <3>2, IsASeq
    <3>4. DOMAIN ids = 1..Len(items)
      OBVIOUS
    <3> HIDE DEF ids
    <3> QED BY <2>3, <3>3, <3>4, LenProperties
  <2>5. Once(ids)
    <3>1. \A m, n \in 1..Len(items) : m # n => items[m].id # items[n].id
      <4> SUFFICES ASSUME NEW m \in 1..Len(items), NEW n \in 1..Len(items), m # n
                   PROVE  items[m].id # items[n].id
        OBVIOUS
      <4>1. m < n \/ n < m
        BY <2>3
      <4> QED BY <2>3, <4>1 DEF Ordered
    <3> QED BY <2>4, <3>1 DEF Once
  <2>6. ToSet(ids) = Ids(items)
    BY <2>3 DEF ToSet, Ids
  <2> HIDE DEF ids
  <2>7. Cardinality(ToSet(ids)) = Len(items)
    BY <2>4, <2>5, OnceLength
  <2>8. Cardinality(ToSet(rows)) = Len(rows)
    BY OnceLength DEF PageInv, PageTypes, RowsOnce, Once
  <2> QED BY <2>2, <2>6, <2>7, <2>8
<1> QED BY <1>1, ActivityInvariant, PTL

-----------------------------------------------------------------------------
(***************************************************************************)
(* What the list promises.                                                 *)
(***************************************************************************)
(* The items of ActivityHistory that the list stands for.                   *)
HeldItem(i) == [id |-> i.id, fact |-> Fact(i)]
HeldOf(list) == {HeldItem(i) : i \in ToSet(list)}

LEMMA HeldItemIs ==
    ASSUME NEW i \in Item
    PROVE  /\ HeldItem(i).id = i.id /\ HeldItem(i).fact = Fact(i)
           /\ Fact(i).guid = i.guid /\ Fact(i).stamp = i.stamp
           /\ Fact(i).learned = i.learned /\ Fact(i).bytes = i.bytes
           /\ \A j \in Item : HeldItem(i) = HeldItem(j) => i = j
<1>1. \A k \in Item : /\ HeldItem(k).id = k.id /\ HeldItem(k).fact = Fact(k)
                      /\ Fact(k).guid = k.guid /\ Fact(k).stamp = k.stamp
                      /\ Fact(k).learned = k.learned /\ Fact(k).bytes = k.bytes
  BY DEF HeldItem, Fact
<1>2. ASSUME NEW j \in Item, HeldItem(i) = HeldItem(j) PROVE i = j
  <2>1. /\ i.id = j.id /\ i.guid = j.guid /\ i.stamp = j.stamp
        /\ i.learned = j.learned /\ i.bytes = j.bytes
    BY <1>1, <1>2
  <2> QED BY <2>1 DEF Item
<1> QED BY <1>1, <1>2

LEMMA HeldOfIs ==
    ASSUME NEW list, NEW x
    PROVE  x \in HeldOf(list) <=> \E k \in DOMAIN list : x = HeldItem(list[k])
BY DEF HeldOf, ToSet

(* The union of finitely many intervals, each of a place of its own.        *)
LEMMA BytesFinite ==
    ASSUME NEW L \in Nat, NEW b \in [1..L -> Nat]
    PROVE  IsFiniteSet(UNION {{i} \X (1..b[i]) : i \in 1..L})
<1> DEFINE f == [i \in 1..L |-> {i} \X (1..b[i])]
           all == {{i} \X (1..b[i]) : i \in 1..L}
<1>1. IsFiniteSet(1..L)
  BY FS_Interval
<1>2. f \in Surjection(1..L, all)
  BY DEF Surjection
<1>3. IsFiniteSet(all)
  <2> HIDE DEF f, all
  <2> QED BY <1>1, <1>2, FS_Surjection
<1>4. ASSUME NEW T \in all PROVE IsFiniteSet(T)
  <2>1. PICK i \in 1..L : T = {i} \X (1..b[i])
    OBVIOUS
  <2>2. IsFiniteSet({i}) /\ IsFiniteSet(1..b[i])
    <3>1. b[i] \in Nat
      OBVIOUS
    <3>2. IsFiniteSet(1..b[i])
      <4> HIDE DEF all, f
      <4> QED BY <3>1, FS_Interval
    <3> QED BY <3>2, FS_Singleton, Zenon
  <2> QED BY <2>1, <2>2, FS_Product
<1> HIDE DEF all
<1>5. IsFiniteSet(UNION all)
  BY <1>3, <1>4, FS_UNION
<1> QED BY <1>5 DEF all

(* The set is as big as the list, and takes as many bytes.                  *)
LEMMA HeldSizes ==
    ASSUME NEW list \in Seq(Item), Ordered(list)
    PROVE  /\ Cardinality(HeldOf(list)) = Len(list)
           /\ Cardinality(History!BytesOf(HeldOf(list))) = TotalBytes(list)
<1> DEFINE L == Len(list)
           held == HeldOf(list)
           g == [k \in 1..L |-> HeldItem(list[k])]
           b == [k \in 1..L |-> list[k].bytes]
<1>1. L \in Nat /\ DOMAIN list = 1..L
  BY LenProperties
<1>2. \A k \in 1..L : list[k] \in Item
  BY <1>1, ElementOfSeq
<1>3. \A k \in 1..L : /\ HeldItem(list[k]).id = list[k].id
                      /\ HeldItem(list[k]).fact.bytes = list[k].bytes /\ list[k].bytes \in Nat
  <2>1. \A i \in Item : i.bytes \in Nat
    BY DEF Item
  <2> QED BY <1>2, <2>1, HeldItemIs
<1>4. \A m, n \in 1..L : m # n => HeldItem(list[m]) # HeldItem(list[n])
  <2> SUFFICES ASSUME NEW m \in 1..L, NEW n \in 1..L, m # n PROVE list[m].id # list[n].id
    BY <1>3
  <2>1. m < n \/ n < m
    BY <1>1
  <2> QED BY <1>1, <2>1 DEF Ordered
<1>5. \A x : x \in held <=> \E k \in 1..L : x = HeldItem(list[k])
  BY <1>1, HeldOfIs
<1> HIDE DEF L, held
<1>6. g \in Bijection(1..L, held)
  <2>1. g \in [1..L -> held]
    BY <1>5
  <2>2. IsInjective(g)
    BY <1>4 DEF IsInjective
  <2>3. \A x \in held : \E k \in 1..L : g[k] = x
    BY <1>5
  <2> QED BY <2>1, <2>2, <2>3 DEF Bijection, Injection, Surjection
<1>7. Cardinality(held) = L
  <2>1. ExistsBijection(1..L, held)
    BY <1>6 DEF ExistsBijection
  <2>2. IsFiniteSet(1..L) /\ Cardinality(1..L) = L
    BY <1>1, FS_Interval
  <2> QED BY <2>1, <2>2, FS_Bijection
<1> DEFINE A == UNION {{k} \X (1..b[k]) : k \in 1..L}
           B == History!BytesOf(held)
           h == [p \in A |-> <<g[p[1]], p[2]>>]
<1>8. IsFiniteSet(A)
  <2>1. b \in [1..L -> Nat]
    BY <1>3
  <2> HIDE DEF b
  <2> QED BY <1>1, <2>1, BytesFinite
<1>9. \A p : p \in A <=> \E k \in 1..L, n \in Nat : n \in 1..list[k].bytes /\ p = <<k, n>>
  BY <1>3
<1>10. \A q : q \in B <=> \E k \in 1..L, n \in Nat : n \in 1..list[k].bytes /\ q = <<HeldItem(list[k]), n>>
  <2> TAKE q
  <2>1. q \in B <=> \E x \in held : q \in {x} \X (1..x.fact.bytes)
    BY DEF History!BytesOf
  <2>2. q \in B <=> \E k \in 1..L : q \in {HeldItem(list[k])} \X (1..list[k].bytes)
    BY <1>3, <1>5, <2>1
  <2>3. ASSUME NEW k \in 1..L
        PROVE  q \in {HeldItem(list[k])} \X (1..list[k].bytes) <=>
                 \E n \in Nat : n \in 1..list[k].bytes /\ q = <<HeldItem(list[k]), n>>
    BY <1>3
  <2> QED BY <2>2, <2>3
<1> HIDE DEF A, B
<1>11. \A k \in 1..L, n \in Nat : n \in 1..list[k].bytes => h[<<k, n>>] = <<HeldItem(list[k]), n>>
  BY <1>9
<1>12. h \in Bijection(A, B)
  <2>1. \A p \in A : h[p] \in B
    BY <1>9, <1>10, <1>11
  <2>2. h \in [A -> B]
    BY <2>1
  <2>3. ASSUME NEW p \in A, NEW q \in A, h[p] = h[q] PROVE p = q
    <3>1. PICK k \in 1..L, n \in Nat : n \in 1..list[k].bytes /\ p = <<k, n>>
      BY <1>9
    <3>2. PICK m \in 1..L, o \in Nat : o \in 1..list[m].bytes /\ q = <<m, o>>
      BY <1>9
    <3>3. h[p] = <<HeldItem(list[k]), n>> /\ h[q] = <<HeldItem(list[m]), o>>
      BY <1>11, <3>1, <3>2
    <3>4. HeldItem(list[k]) = HeldItem(list[m]) /\ n = o
      <4> DEFINE a == HeldItem(list[k])
                 c == HeldItem(list[m])
      <4>1. <<a, n>> = <<c, o>>
        <5> HIDE DEF h
        <5> QED BY <2>3, <3>3
      <4> HIDE DEF h, a, c
      <4>2. a = c /\ n = o
        BY <4>1
      <4> QED BY <4>2 DEF a, c
    <3> QED BY <1>4, <3>1, <3>2, <3>4
  <2>4. \A q \in B : \E p \in A : h[p] = q
    <3> SUFFICES ASSUME NEW q \in B PROVE \E p \in A : h[p] = q
      OBVIOUS
    <3>1. PICK k \in 1..L, n \in Nat : n \in 1..list[k].bytes /\ q = <<HeldItem(list[k]), n>>
      BY <1>10
    <3>2. <<k, n>> \in A
      BY <1>9, <3>1
    <3> HIDE DEF h
    <3> QED BY <1>11, <3>1, <3>2
  <2> HIDE DEF h
  <2> QED BY <2>2, <2>3, <2>4 DEF Bijection, Injection, Surjection, IsInjective
<1>13. Cardinality(B) = Cardinality(A)
  <2>1. ExistsBijection(A, B)
    <3> HIDE DEF h
    <3> QED BY <1>12 DEF ExistsBijection
  <2> QED BY <1>8, <2>1, FS_Bijection
<1>14. TotalBytes(list) = Cardinality(A)
  <2>1. {{k} \X (1..b[k]) : k \in 1..L} = {{k} \X (1..list[k].bytes) : k \in DOMAIN list}
    BY <1>1
  <2> HIDE DEF b
  <2> QED BY <2>1 DEF TotalBytes, A
<1> QED BY <1>7, <1>13, <1>14 DEF B, L, held

(* A set is as big for the history as it is here.                           *)
LEMMA SameCardinality == \A S : History!Cardinality(S) = Cardinality(S)
  BY DEF History!Cardinality, History!IsFiniteSet, Cardinality, IsFiniteSet

LEMMA WithinIs ==
    ASSUME NEW list \in Seq(Item), Ordered(list)
    PROVE  History!WithinLimits(HeldOf(list)) <=> Fit(limits', list)
<1> DEFINE S == HeldOf(list)
           n == Len(list)
           total == TotalBytes(list)
<1>1. Cardinality(S) = n /\ Cardinality(History!BytesOf(S)) = total
  BY HeldSizes
<1>2. History!WithinLimits(S) <=>
        /\ limits'.maxItems # 0 => n <= limits'.maxItems
        /\ limits'.maxBytes # 0 => n <= 1 \/ total <= limits'.maxBytes
  <2> HIDE DEF S, n, total
  <2> QED BY <1>1, SameCardinality DEF History!WithinLimits
<1> QED BY <1>2 DEF Fit

(* What the limits leave of a list is what a history may leave of its items:
   the end of what is fresh enough, cut no shorter than the limits ask for.  *)
LEMMA TrimmedIs ==
    ASSUME NEW list \in Seq(Item), Ordered(list), limits' \in Limits, NEW cutoff \in Nat,
           NEW new, new = ApplyLimits(list, limits', cutoff)
    PROVE  History!Trimmed(HeldOf(list), HeldOf(new))
<1> DEFINE fresh == Fresh(list, limits', cutoff)
           L == Len(fresh)
           S == HeldOf(list)
           rest == HeldOf(fresh)
           kept == HeldOf(new)
           tooOld == S \ rest
           gone == rest \ kept
<1>1. limits'.maxItems \in Nat /\ limits'.maxBytes \in Nat
  BY ActivityAssumption
<1>2. /\ fresh \in Seq(Item) /\ Thinned(list, fresh)
      /\ \A x : x \in ToSet(fresh) <=> x \in ToSet(list) /\ (limits'.aged => x.learned >= cutoff)
  BY FreshIs
<1>3. PICK first \in 1..(L + 1) :
        /\ new = SubSeq(fresh, first, L)
        /\ Fit(limits', SubSeq(fresh, first, L))
        /\ first > 1 => ~Fit(limits', SubSeq(fresh, first - 1, L))
  BY <1>1, ApplyLimitsIs
<1> HIDE DEF fresh
<1>4. L \in Nat /\ DOMAIN fresh = 1..L /\ (\A k \in 1..L : fresh[k] \in Item) /\ Ordered(fresh)
  <2>1. L \in Nat /\ DOMAIN fresh = 1..L
    BY <1>2, LenProperties
  <2>2. \A k \in 1..L : fresh[k] \in Item
    BY <1>2, ElementOfSeq
  <2> QED BY <1>2, <2>1, <2>2, ThinnedOrdered
<1>5. ASSUME NEW from \in 1..(L + 1)
      PROVE  /\ SubSeq(fresh, from, L) \in Seq(Item) /\ Ordered(SubSeq(fresh, from, L))
             /\ \A x : x \in HeldOf(SubSeq(fresh, from, L)) <=> \E k \in from..L : x = HeldItem(fresh[k])
  <2> DEFINE suffix == SubSeq(fresh, from, L)
  <2>1. suffix \in Seq(Item) /\ Thinned(fresh, suffix)
    BY <1>2, SuffixIs
  <2>2. \A x : x \in ToSet(suffix) <=> \E k \in from..L : fresh[k] = x
    BY <1>2, SuffixIs
  <2> HIDE DEF suffix
  <2>3. Ordered(suffix)
    BY <1>2, <1>4, <2>1, ThinnedOrdered
  <2>4. \A x : x \in HeldOf(suffix) <=> \E k \in from..L : x = HeldItem(fresh[k])
    BY <2>2 DEF HeldOf
  <2> QED BY <2>1, <2>3, <2>4 DEF suffix
<1>6. \A x : x \in rest <=> \E k \in 1..L : x = HeldItem(fresh[k])
  BY <1>4, HeldOfIs
<1>7. \A x : x \in kept <=> \E k \in first..L : x = HeldItem(fresh[k])
  BY <1>3, <1>5
<1>8. \A x \in Item : /\ HeldItem(x).fact.stamp = x.stamp /\ HeldItem(x).fact.learned = x.learned
                      /\ HeldItem(x).id = x.id /\ x.stamp \in Nat /\ x.learned \in Nat
  BY HeldItemIs DEF Item
<1>9. rest \subseteq S /\ S \ tooOld = rest
  BY <1>2 DEF HeldOf
<1>10. ASSUME NEW i \in tooOld
       PROVE  limits'.aged /\ \A j \in rest : i.fact.learned < j.fact.learned
  <2>1. PICK x \in ToSet(list) : i = HeldItem(x)
    BY DEF HeldOf
  <2>2. x \in Item
    BY <2>1, ToSetIs, ElementOfSeq, LenProperties
  <2>3. x \notin ToSet(fresh)
    BY <2>1 DEF HeldOf
  <2>4. limits'.aged /\ ~(x.learned >= cutoff)
    BY <1>2, <2>3
  <2>5. ASSUME NEW j \in rest PROVE i.fact.learned < j.fact.learned
    <3>1. PICK k \in 1..L : j = HeldItem(fresh[k])
      BY <1>6
    <3>2. fresh[k] \in ToSet(fresh) /\ fresh[k] \in Item
      BY <1>4, ToSetIs
    <3>3. fresh[k].learned >= cutoff
      BY <1>2, <2>4, <3>2
    <3>4. i.fact.learned = x.learned /\ j.fact.learned = fresh[k].learned
      BY <1>8, <2>1, <2>2, <3>1, <3>2
    <3>5. x.learned \in Nat /\ fresh[k].learned \in Nat
      BY <1>8, <2>2, <3>2
    <3> QED BY <2>4, <3>3, <3>4, <3>5
  <2> QED BY <2>4, <2>5
<1> HIDE DEF S, rest, kept, L
<1>11. ASSUME NEW m \in 1..L, NEW n \in 1..L, m <= n
       PROVE  HeldItem(fresh[m]).fact.stamp <= HeldItem(fresh[n]).fact.stamp
  <2>1. m = n \/ m < n
    BY <1>11
  <2>2. fresh[m].stamp <= fresh[n].stamp
    <3>1. CASE m = n
      BY <1>4, <1>8, <3>1
    <3>2. CASE m < n
      BY <1>4, <3>2 DEF Ordered
    <3> QED BY <2>1, <3>1, <3>2
  <2> QED BY <1>4, <1>8, <2>2
<1>12. \A x \in gone : \E k \in 1..(first - 1) : k \in 1..L /\ x = HeldItem(fresh[k])
  <2> TAKE x \in gone
  <2>1. PICK k \in 1..L : x = HeldItem(fresh[k])
    BY <1>6
  <2>2. k \notin first..L
    BY <1>7, <2>1
  <2>3. k \in 1..(first - 1)
    BY <1>3, <1>4, <2>2
  <2> QED BY <2>1, <2>3
<1>13. History!Newest(rest, kept)
  <2>1. \A k \in first..L : k \in 1..L
    BY <1>3, <1>4
  <2>2. kept \subseteq rest
    BY <1>6, <1>7, <2>1
  <2>3. ASSUME NEW i \in kept, NEW j \in rest \ kept PROVE j.fact.stamp <= i.fact.stamp
    <3>1. PICK n \in first..L : i = HeldItem(fresh[n])
      BY <1>7
    <3>2. PICK m \in 1..(first - 1) : m \in 1..L /\ j = HeldItem(fresh[m])
      BY <1>12
    <3>3. m <= n
      BY <1>3, <1>4
    <3> QED BY <1>11, <2>1, <3>1, <3>2, <3>3
  <2> QED BY <2>2, <2>3 DEF History!Newest
<1>14. History!WithinLimits(kept)
  BY <1>3, <1>5, WithinIs DEF kept
<1>15. History!NoRoomFor(gone, kept)
  <2>1. CASE first = 1
    <3>1. gone = {}
      BY <1>12, <2>1
    <3> QED BY <3>1 DEF History!NoRoomFor
  <2>2. CASE first # 1
    <3> DEFINE p == first - 1
               last == HeldItem(fresh[p])
               longer == SubSeq(fresh, p, L)
    <3>1. p \in 1..L /\ p \in 1..(L + 1) /\ first > 1
      BY <1>3, <1>4, <2>2
    <3>2. last \in gone
      <4>1. last \in rest
        BY <1>6, <3>1
      <4>2. ASSUME NEW k \in first..L PROVE last # HeldItem(fresh[k])
        <5>1. k \in 1..L /\ p < k
          BY <1>3, <1>4
        <5>2. fresh[p].id # fresh[k].id
          BY <1>4, <3>1, <5>1 DEF Ordered
        <5> QED BY <1>4, <1>8, <3>1, <5>1, <5>2
      <4>3. last \notin kept
        BY <1>7, <4>2
      <4> QED BY <4>1, <4>3
    <3>3. \A i \in gone : i.fact.stamp <= last.fact.stamp
      <4> TAKE i \in gone
      <4>1. PICK k \in 1..p : k \in 1..L /\ i = HeldItem(fresh[k])
        BY <1>12
      <4>2. k <= p
        BY <3>1
      <4> QED BY <1>11, <3>1, <4>1, <4>2
    <3>4. kept \cup {last} = HeldOf(longer)
      <4>1. \A x : x \in HeldOf(longer) <=> \E k \in p..L : x = HeldItem(fresh[k])
        BY <1>5, <3>1
      <4>2. \A k : k \in p..L <=> k = p \/ k \in first..L
        BY <1>3, <1>4, <3>1
      <4> HIDE DEF longer, p
      <4>3. \A x : x \in HeldOf(longer) <=> x = HeldItem(fresh[p]) \/ x \in kept
        BY <1>7, <4>1, <4>2
      <4> QED BY <4>3
    <3>5. longer \in Seq(Item) /\ Ordered(longer) /\ ~Fit(limits', longer)
      BY <1>3, <1>5, <3>1
    <3>6. ~History!WithinLimits(HeldOf(longer))
      <4> HIDE DEF longer
      <4> QED BY <3>5, WithinIs
    <3>7. ~History!WithinLimits(kept \cup {last})
      <4> HIDE DEF longer, last
      <4> QED BY <3>4, <3>6, Zenon
    <3> HIDE DEF last, gone
    <3> QED BY <3>2, <3>3, <3>7 DEF History!NoRoomFor
  <2> QED BY <2>1, <2>2
<1>16. tooOld \in SUBSET S
  OBVIOUS
<1>17. tooOld # {} => limits'.aged /\ \A i \in tooOld, j \in rest : i.fact.learned < j.fact.learned
  BY <1>10
<1>18. History!Trimmed(S, kept)
  <2>1. History!Newest(S \ tooOld, kept) /\ History!NoRoomFor((S \ tooOld) \ kept, kept)
    <3>1. S \ tooOld = rest /\ (S \ tooOld) \ kept = gone
      BY <1>9
    <3> HIDE DEF tooOld, gone
    <3> QED BY <1>13, <1>15, <3>1, Zenon
  <2>2. tooOld # {} => limits'.aged /\ \A i \in tooOld, j \in S \ tooOld : i.fact.learned < j.fact.learned
    BY <1>9, <1>17
  <2> HIDE DEF tooOld, gone
  <2> QED BY <1>14, <1>16, <2>1, <2>2 DEF History!Trimmed
<1> QED BY <1>18 DEF S, kept

(* What is held is told by the list, before a step and after it.            *)
LEMMA HeldIs ==
    /\ {[id |-> i.id, fact |-> Fact(i)] : i \in ToSet(items)} = HeldOf(items)
    /\ {[id |-> i.id, fact |-> Fact(i)] : i \in ToSet(items')} = HeldOf(items')
BY DEF HeldOf, HeldItem

LEMMA CutoffIs == StoreInv => Cutoff \in Nat /\ now \in Nat
BY ActivityAssumption DEF StoreInv, Cutoff

LEMMA CleanStep ==
    ASSUME StoreInv, limits' \in Limits, UNCHANGED nextItemID,
           items' = ApplyLimits(items, limits', Cutoff)
    PROVE  History!Clean
<1>1. items \in Seq(Item) /\ Ordered(items) /\ Cutoff \in Nat
  BY CutoffIs DEF StoreInv
<1>2. History!Trimmed(HeldOf(items), HeldOf(items'))
  BY <1>1, TrimmedIs
<1>3. History!Trimmed({[id |-> i.id, fact |-> Fact(i)] : i \in ToSet(items)},
                      {[id |-> i.id, fact |-> Fact(i)] : i \in ToSet(items')})
  BY <1>2, HeldIs, Zenon
<1> QED BY <1>3 DEF History!Clean

LEMMA ForgetStep ==
    ASSUME StoreInv, NEW k \in DOMAIN items, items' = RemoveAt(items, k), UNCHANGED <<nextItemID, limits>>
    PROVE  History!Forget
<1> DEFINE last == HeldItem(items[k])
<1>1. items \in Seq(Item) /\ Ordered(items) /\ \A i \in DOMAIN items : items[i] \in Item
  BY ElementOfSeq, LenProperties DEF StoreInv
<1>2. \A i, j \in DOMAIN items : i # j => HeldItem(items[i]) # HeldItem(items[j])
  <2> SUFFICES ASSUME NEW i \in DOMAIN items, NEW j \in DOMAIN items, i # j
               PROVE  HeldItem(items[i]) # HeldItem(items[j])
    OBVIOUS
  <2>1. i < j \/ j < i
    BY <1>1, LenProperties
  <2>2. items[i].id # items[j].id
    BY <1>1, <2>1 DEF Ordered
  <2> QED BY <1>1, <2>2, HeldItemIs
<1>3. \A x : x \in ToSet(items') <=> \E j \in DOMAIN items : j # k /\ items[j] = x
  <2>1. \A x : x \in ToSet(RemoveAt(items, k)) <=> \E j \in DOMAIN items : j # k /\ items[j] = x
    BY <1>1, RemovedIsThinned
  <2> QED BY <2>1, Zenon
<1>4. \A x : x \in HeldOf(items') <=> \E j \in DOMAIN items : j # k /\ x = HeldItem(items[j])
  BY <1>3 DEF HeldOf
<1>5. HeldOf(items') = HeldOf(items) \ {last} /\ last \in HeldOf(items)
  BY <1>2, <1>4, HeldOfIs
<1> HIDE DEF last
<1>6. /\ last \in {[id |-> i.id, fact |-> Fact(i)] : i \in ToSet(items)}
      /\ {[id |-> i.id, fact |-> Fact(i)] : i \in ToSet(items')}
           = {[id |-> i.id, fact |-> Fact(i)] : i \in ToSet(items)} \ {last}
  BY <1>5, HeldIs, Zenon
<1> QED BY <1>6 DEF History!Forget

(* What a history knows of an event, and what it holds once it is told of it. *)
Known(held, fact) == {i \in held : i.fact.guid = fact.guid /\ fact.guid # NoGuid}
Told(held, id, fact) ==
    IF Known(held, fact) = {} THEN held \cup {[id |-> id, fact |-> fact]}
    ELSE {IF i \in Known(held, fact) /\ fact.stamp > i.fact.stamp
          THEN [i EXCEPT !.fact = fact] ELSE i : i \in held}

(* The items of the history after an event was told are those of the list
   that AddItem makes.                                                       *)
LEMMA ToldIs ==
    ASSUME NEW list \in Seq(Item), NEW item \in Item, Ordered(list), item.id \notin Ids(list),
           NEW fact, fact = Fact(item), NEW held, held = HeldOf(list), NEW id, id = item.id
    PROVE  /\ Known(held, fact) = {} <=> item.guid \notin Guids(list)
           /\ Told(held, id, fact) = HeldOf(AddItem(list, item))
<1> DEFINE known == {i \in held : i.fact.guid = fact.guid /\ fact.guid # NoGuid}
           told  == IF known = {} THEN held \cup {[id |-> id, fact |-> fact]}
                    ELSE {IF i \in known /\ fact.stamp > i.fact.stamp
                          THEN [i EXCEPT !.fact = fact] ELSE i : i \in held}
           new   == AddItem(list, item)
           at    == PlaceOf(list, item.guid)
           moved == [item EXCEPT !.id = list[at].id]
           was   == HeldItem(list[at])
<1>0. Known(held, fact) = known /\ Told(held, id, fact) = told
  BY DEF Known, Told
<1>1. /\ Len(list) \in Nat /\ DOMAIN list = 1..Len(list)
      /\ \A i \in DOMAIN list : list[i] \in Item
  BY LenProperties, ElementOfSeq
<1>2. /\ new \in Seq(Item)
      /\ IF item.guid \notin Guids(list)
         THEN \A x : x \in ToSet(new) <=> x \in ToSet(list) \/ x = item
         ELSE /\ at \in DOMAIN list /\ list[at].guid = item.guid /\ item.guid # NoGuid
              /\ moved \in Item /\ moved.id = list[at].id
              /\ IF item.stamp <= list[at].stamp THEN new = list
                 ELSE \A x : x \in ToSet(new) <=>
                        (\E j \in DOMAIN list : j # at /\ list[j] = x) \/ x = moved
  BY AddItemIs
<1>3. /\ fact.guid = item.guid /\ fact.stamp = item.stamp
      /\ \A i \in Item : /\ HeldItem(i).fact.guid = i.guid /\ HeldItem(i).fact.stamp = i.stamp
                         /\ HeldItem(i) = [id |-> i.id, fact |-> Fact(i)]
                         /\ i.stamp \in Nat
  BY HeldItemIs DEF HeldItem, Item
<1>4. \A x : x \in held <=> \E k \in DOMAIN list : x = HeldItem(list[k])
  BY HeldOfIs
<1> HIDE DEF new
<1>5. \A x : x \in known <=> \E k \in DOMAIN list : /\ x = HeldItem(list[k])
                                                    /\ list[k].guid = item.guid /\ item.guid # NoGuid
  BY <1>1, <1>3, <1>4
<1>6. known = {} <=> item.guid \notin Guids(list)
  BY <1>5 DEF Guids
<1> HIDE DEF known
<1>7. CASE item.guid \notin Guids(list)
  <2>1. told = held \cup {HeldItem(item)}
    BY <1>3, <1>6, <1>7 DEF HeldItem
  <2>2. \A x : x \in ToSet(new) <=> x \in ToSet(list) \/ x = item
    BY <1>2, <1>7
  <2>3. HeldOf(new) = held \cup {HeldItem(item)}
    BY <2>2 DEF HeldOf
  <2> QED BY <1>0, <1>6, <2>1, <2>3 DEF new
<1>8. CASE item.guid \in Guids(list)
  <2>1. /\ at \in DOMAIN list /\ list[at].guid = item.guid /\ item.guid # NoGuid
        /\ moved \in Item /\ moved.id = list[at].id
    BY <1>2, <1>8
  <2>2. \A k \in DOMAIN list : k # at => list[k].guid # item.guid
    <3> TAKE k \in DOMAIN list
    <3> HAVE k # at
    <3>1. k < at \/ at < k
      BY <1>1, <2>1
    <3> QED BY <2>1, <3>1 DEF Ordered
  <2>3. \A x : x \in known <=> x = was
    BY <1>5, <2>1, <2>2
  <2>4. told = {IF i \in known /\ fact.stamp > i.fact.stamp THEN [i EXCEPT !.fact = fact] ELSE i : i \in held}
    BY <1>6, <1>8
  <2>5. list[at] \in Item /\ was.fact.stamp = list[at].stamp /\ was.id = list[at].id
    BY <1>1, <1>3, <2>1 DEF HeldItem
  <2>6. CASE item.stamp <= list[at].stamp
    <3>1. new = list
      BY <1>2, <1>8, <2>6
    <3>2. ~(fact.stamp > was.fact.stamp)
      BY <1>3, <2>5, <2>6
    <3> HIDE DEF was, told
    <3>3. \A i \in held : (IF i \in known /\ fact.stamp > i.fact.stamp
                           THEN [i EXCEPT !.fact = fact] ELSE i) = i
      BY <2>3, <3>2
    <3>4. told = held
      BY <2>4, <3>3
    <3> QED BY <1>0, <1>6, <3>1, <3>4 DEF new
  <2>7. CASE ~(item.stamp <= list[at].stamp)
    <3>1. \A x : x \in ToSet(new) <=> (\E j \in DOMAIN list : j # at /\ list[j] = x) \/ x = moved
      BY <1>2, <1>8, <2>7
    <3>2. fact.stamp > was.fact.stamp
      BY <1>3, <2>5, <2>7
    <3>3. [was EXCEPT !.fact = fact] = HeldItem(moved)
      <4>1. /\ moved.guid = item.guid /\ moved.stamp = item.stamp
            /\ moved.learned = item.learned /\ moved.bytes = item.bytes
        BY DEF Item
      <4>2. Fact(moved) = fact
        BY <4>1 DEF Fact
      <4>3. was = [id |-> list[at].id, fact |-> Fact(list[at])]
        BY DEF HeldItem
      <4>4. HeldItem(moved) = [id |-> list[at].id, fact |-> fact]
        BY <2>1, <4>2 DEF HeldItem
      <4> HIDE DEF was, moved
      <4> QED BY <4>3, <4>4
    <3>4. \A x : x \in HeldOf(new) <=>
                   (\E j \in DOMAIN list : j # at /\ x = HeldItem(list[j])) \/ x = HeldItem(moved)
      <4> HIDE DEF moved, at
      <4> QED BY <3>1 DEF HeldOf
    <3>5. \A j \in DOMAIN list : j # at => HeldItem(list[j]) # was
      BY <1>3, <1>1, <2>1, <2>2
    <3> HIDE DEF was, told, moved, at
    <3>6. \A i : (IF i \in known /\ fact.stamp > i.fact.stamp THEN [i EXCEPT !.fact = fact] ELSE i)
                   = IF i = was THEN HeldItem(moved) ELSE i
      <4> TAKE i
      <4>1. CASE i = was
        <5>1. i \in known /\ fact.stamp > i.fact.stamp /\ [i EXCEPT !.fact = fact] = HeldItem(moved)
          BY <2>3, <3>2, <3>3, <4>1
        <5> QED BY <4>1, <5>1
      <4>2. CASE i # was
        BY <2>3, <4>2
      <4> QED BY <4>1, <4>2
    <3>7. \A x : x \in told <=> \E i \in held : x = IF i = was THEN HeldItem(moved) ELSE i
      <4> TAKE x
      <4> DEFINE e(i) == IF i \in known /\ fact.stamp > i.fact.stamp THEN [i EXCEPT !.fact = fact] ELSE i
      <4>1. told = {e(i) : i \in held}
        BY <2>4, Zenon
      <4>2. \A i : e(i) = IF i = was THEN HeldItem(moved) ELSE i
        BY <3>6
      <4> HIDE DEF e
      <4>3. x \in told <=> \E i \in held : x = e(i)
        BY <4>1
      <4> QED BY <4>2, <4>3
    <3>8. \A x : x \in told <=> x \in HeldOf(new)
      <4> TAKE x
      <4>1. was = HeldItem(list[at])
        BY DEF was
      <4>2. ASSUME x \in told PROVE x \in HeldOf(new)
        <5>1. PICK i \in held : x = IF i = was THEN HeldItem(moved) ELSE i
          BY <3>7, <4>2
        <5>2. PICK j \in DOMAIN list : i = HeldItem(list[j])
          BY <1>4
        <5> QED BY <3>4, <4>1, <5>1, <5>2
      <4>3. ASSUME x \in HeldOf(new) PROVE x \in told
        <5>1. CASE x = HeldItem(moved)
          BY <1>4, <2>1, <3>7, <4>1, <5>1
        <5>2. CASE x # HeldItem(moved)
          <6>1. PICK j \in DOMAIN list : j # at /\ x = HeldItem(list[j])
            BY <3>4, <4>3, <5>2
          <6> QED BY <1>4, <3>5, <3>7, <6>1
        <5> QED BY <5>1, <5>2
      <4> QED BY <4>2, <4>3
    <3>9. told = HeldOf(new)
      BY <3>8
    <3> QED BY <1>0, <1>6, <3>9 DEF new
  <2> QED BY <2>6, <2>7
<1> QED BY <1>7, <1>8

LEMMA LearnStep ==
    ASSUME StoreInv, NEW t \in Threads, NEW guid \in Events, NEW stamp \in Stamps, Add(t, guid, stamp)
    PROVE  [History!Next]_(History!vars)
<1> DEFINE item  == [id |-> nextItemID, guid |-> guid, stamp |-> stamp, learned |-> now,
                     bytes |-> Bytes[guid]]
           list  == AddItem(items, item)
           fact  == Fact(item)
           next  == IF guid \in Guids(items) THEN nextItemID ELSE nextItemID + 1
           H(l)  == {[id |-> i.id, fact |-> Fact(i)] : i \in ToSet(l)}
<1>1. CASE list = items
  <2>1. UNCHANGED <<items, nextItemID, limits>>
    BY <1>1 DEF Add
  <2> QED BY <2>1 DEF History!vars
<1>2. CASE list # items
  <2>1. items' = Limited(list) /\ nextItemID' = next /\ UNCHANGED <<limits, now>> /\ nextItemID <= MaxItemID
    BY <1>2 DEF Add
  <2>2. /\ items \in Seq(Item) /\ Ordered(items) /\ limits \in Limits /\ now \in 0..MaxNow
        /\ Cutoff \in Nat /\ nextItemID \in Nat
    BY CutoffIs DEF StoreInv
  <2>3. /\ item \in Item /\ item.id \notin Ids(items) /\ list \in Seq(Item) /\ Ordered(list)
        /\ item.id = nextItemID /\ item.guid = guid
    BY <2>1, AddedList
  <2>4. fact \in [guid : Events, stamp : Stamps, learned : 0..MaxNow, bytes : {Bytes[g] : g \in Events}]
    BY <2>2 DEF Fact
  <2>5. PICK f \in [guid : Events, stamp : Stamps, learned : 0..MaxNow, bytes : {Bytes[g] : g \in Events}] :
           f = fact
    BY <2>4
  <2> HIDE DEF item, list, fact
  <2>6. History!Trimmed(HeldOf(list), HeldOf(items'))
    <3>1. limits' \in Limits /\ items' = ApplyLimits(list, limits', Cutoff)
      BY <2>1, <2>2 DEF Limited
    <3> QED BY <2>2, <2>3, <3>1, TrimmedIs
  <2> DEFINE known == Known(H(items), f)
             told  == Told(H(items), (nextItemID - 1) + 1, f)
  <2>7. (known = {} <=> guid \notin Guids(items)) /\ told = HeldOf(list)
    <3>1. H(items) = HeldOf(items)
      BY HeldIs
    <3>2. (nextItemID - 1) + 1 = item.id
      BY <2>2, <2>3
    <3>3. f = Fact(item)
      BY <2>5 DEF fact
    <3>4. AddItem(items, item) = list
      BY DEF list
    <3> HIDE DEF H
    <3> QED BY <2>2, <2>3, <3>1, <3>2, <3>3, <3>4, ToldIs
  <2>8. nextItemID' - 1 = IF known = {} THEN (nextItemID - 1) + 1 ELSE nextItemID - 1
    <3> HIDE DEF known
    <3> QED BY <2>1, <2>2, <2>7
  <2>9. History!Trimmed(told, H(items'))
    <3>1. H(items') = HeldOf(items')
      BY HeldIs
    <3> HIDE DEF H, told
    <3> QED BY <2>6, <2>7, <3>1, Zenon
  <2>10. History!Learn(f)
    BY <2>1, <2>8, <2>9 DEF History!Learn, Known, Told
  <2>11. History!Next
    BY <2>10 DEF History!Next
  <2> QED BY <2>11
<1> QED BY <1>1, <1>2

LEMMA HistoryInit == Init => History!Init
<1> SUFFICES ASSUME Init PROVE History!Init
  OBVIOUS
<1>1. items = <<>> /\ nextItemID = 1 /\ limits \in Limits
  BY DEF Init
<1>2. ToSet(items) = {}
  BY <1>1 DEF ToSet
<1> QED BY <1>1, <1>2 DEF History!Init

LEMMA HistoryStep == StoreInv /\ [Next]_vars => [History!Next]_(History!vars)
<1> SUFFICES ASSUME StoreInv, [Next]_vars PROVE [History!Next]_(History!vars)
  OBVIOUS
<1>0. limits \in Limits
  BY DEF StoreInv
<1>1. ASSUME History!Forget \/ History!Clean PROVE History!Next
  BY <1>1 DEF History!Next
<1>2. ASSUME UNCHANGED <<items, nextItemID, limits>> PROVE UNCHANGED History!vars
  BY <1>2 DEF History!vars
<1>3. ASSUME NEW t \in Threads, NEW guid \in Events, NEW stamp \in Stamps, Add(t, guid, stamp)
      PROVE  [History!Next]_(History!vars)
  BY <1>3, LearnStep
<1>4. ASSUME NEW t \in Threads, NEW guid \in Events, RemoveGuid(t, guid)
      PROVE  History!Forget
  <2>1. UNCHANGED <<nextItemID, limits>> /\ \E i \in DOMAIN items : items' = RemoveAt(items, i)
    BY <1>4, RemoveGuidStep DEF RemoveGuid
  <2> QED BY <2>1, ForgetStep
<1>5. ASSUME NEW id \in 1..MaxItemID, RemoveItem(id)
      PROVE  History!Forget
  <2>1. UNCHANGED <<nextItemID, limits>> /\ \E i \in DOMAIN items : items' = RemoveAt(items, i)
    BY <1>5 DEF RemoveItem
  <2> QED BY <2>1, ForgetStep
<1>6. ASSUME NEW new \in Limits, SetLimits(new)
      PROVE  History!Clean
  <2>1. limits' \in Limits /\ UNCHANGED nextItemID /\ items' = ApplyLimits(items, limits', Cutoff)
    BY <1>6 DEF SetLimits
  <2> QED BY <2>1, CleanStep
<1>7. ASSUME Snapshot \/ OnShown
      PROVE  History!Clean
  <2>1. limits' \in Limits /\ UNCHANGED nextItemID /\ items' = ApplyLimits(items, limits', Cutoff)
    BY <1>0, <1>7 DEF Snapshot, OnShown, Limited
  <2> QED BY <2>1, CleanStep
<1>8. ASSUME OnHidden
      PROVE  UNCHANGED History!vars
  BY <1>2, <1>8 DEF OnHidden, storeVars
<1>9. ASSUME Dispatch
      PROVE  UNCHANGED History!vars \/ History!Clean
  <2>1. UNCHANGED storeVars \/ (UNCHANGED <<nextItemID, limits>> /\ items' = Limited(items))
    BY <1>9 DEF Dispatch
  <2>2. CASE UNCHANGED storeVars
    BY <1>2, <2>2 DEF storeVars
  <2>3. CASE UNCHANGED <<nextItemID, limits>> /\ items' = Limited(items)
    BY <1>0, <2>3, CleanStep DEF Limited
  <2> QED BY <2>1, <2>2, <2>3
<1>10. ASSUME Tick \/ UNCHANGED vars
       PROVE  UNCHANGED History!vars
  BY <1>2, <1>10 DEF Tick, storeVars, vars
<1>11. ASSUME NEW t \in Threads, Notify(t)
       PROVE  UNCHANGED History!vars
  BY <1>2, <1>11 DEF Notify, storeVars
<1>12. CASE \E t \in Threads, guid \in Events, stamp \in Stamps : Add(t, guid, stamp)
  BY <1>3, <1>12
<1>13. CASE \/ \E t \in Threads, guid \in Events : RemoveGuid(t, guid)
            \/ \E id \in 1..MaxItemID : RemoveItem(id)
            \/ \E new \in Limits : SetLimits(new)
            \/ Snapshot \/ OnShown
  BY <1>1, <1>4, <1>5, <1>6, <1>7, <1>13
<1>14. CASE OnHidden \/ Dispatch \/ Tick \/ (\E t \in Threads : Notify(t)) \/ UNCHANGED vars
  BY <1>1, <1>8, <1>9, <1>10, <1>11, <1>14
<1> QED BY <1>12, <1>13, <1>14 DEF Next

(* Whatever is added, told again, deleted, too old or too much, the list does
   what a history promises: an item leaves it because it was deleted, is too
   old, or newer ones fill the limits, and one told again only gets newer
   (AddItem, RemoveByEventGuid, RemoveItem, SetLimits, Snapshot and
   ApplyLimitsLocked of ClipboardActivityStore.cpp).                         *)
THEOREM ListIsHistory == Spec => ImplementsHistory
<1>1. Init => History!Init
  BY HistoryInit
<1>2. StoreInv /\ [Next]_vars => [History!Next]_(History!vars)
  BY HistoryStep
<1>3. Spec => []StoreInv
  BY ActivityInvariant, PTL
<1> QED BY <1>1, <1>2, <1>3, PTL DEF Spec, ImplementsHistory, History!Spec

-----------------------------------------------------------------------------
(***************************************************************************)
(* Sharing.  What the events of ClipSharing do to a list without limits.   *)
(***************************************************************************)
Entry(G) == [id : G, guid : G, stamp : Nat, learned : {0}, bytes : {1}]

GuidsOnce(list) == \A i, j \in DOMAIN list : i # j => list[i].guid # list[j].guid

LEMMA NoLimits ==
    ASSUME Unlimited, NEW T, NEW s \in Seq(T)
    PROVE  ApplyLimits(s, ListLimits, 0) = s
<1> DEFINE Fits(from) ==
             LET rest == SubSeq(s, from, Len(s))
             IN  /\ ListLimits.maxItems # 0 => Len(rest) <= ListLimits.maxItems
                 /\ ListLimits.maxBytes # 0 => Len(rest) <= 1 \/ TotalBytes(rest) <= ListLimits.maxBytes
           first == CHOOSE from \in 1..(Len(s) + 1) :
                      Fits(from) /\ \A n \in 1..(from - 1) : ~Fits(n)
<1>1. ApplyLimits(s, ListLimits, 0) = SubSeq(s, first, Len(s))
  BY DEF ApplyLimits, Unlimited
<1>2. \A from : Fits(from)
  BY DEF Unlimited
<1> HIDE DEF Fits
<1>3. Len(s) \in Nat
  BY LenProperties
<1>4. \A from \in 1..(Len(s) + 1) :
        (Fits(from) /\ \A n \in 1..(from - 1) : ~Fits(n)) <=> from = 1
  BY <1>2, <1>3
<1>5. first = 1
  BY <1>3, <1>4
<1> QED BY <1>1, <1>5, SubSeqFull

LEMMA StampedEvents == NoGuid \notin Nat \ {0}
BY ClipAssumption

LEMMA GuidsAre ==
    ASSUME NEW list, NEW g
    PROVE  g \in Guids(list) <=> g # NoGuid /\ \E i \in DOMAIN list : list[i].guid = g
BY DEF Guids

LEMMA EntryInserted ==
    ASSUME NEW G \in SUBSET (Nat \ {0}), NEW list \in Seq(Entry(G)), GuidsOnce(list),
           NEW item \in Entry(G), item.guid \notin Guids(list)
    PROVE  LET new == InsertByStamp(list, item)
           IN  /\ new \in Seq(Entry(G)) /\ GuidsOnce(new)
               /\ Guids(new) = Guids(list) \cup {item.guid}
<1> DEFINE earlier == {i \in DOMAIN list : list[i].stamp < item.stamp}
           p == Cardinality(earlier) + 1
           new == InsertAt(list, p, item)
<1>1. Len(list) \in Nat /\ DOMAIN list = 1..Len(list) /\ \A i \in DOMAIN list : list[i] \in Entry(G)
  BY LenProperties, ElementOfSeq
<1>2. p \in 1..(Len(list) + 1)
  <2>1. IsFiniteSet(1..Len(list)) /\ Cardinality(1..Len(list)) = Len(list)
    <3>1. 1 \in Int /\ Len(list) \in Int
      BY <1>1
    <3>2. /\ IsFiniteSet(1..Len(list))
          /\ Cardinality(1..Len(list)) = IF 1 > Len(list) THEN 0 ELSE Len(list) - 1 + 1
      BY <3>1, FS_Interval
    <3> QED BY <1>1, <3>2
  <2>2. earlier \subseteq 1..Len(list)
    BY <1>1
  <2>3. Cardinality(earlier) <= Len(list) /\ IsFiniteSet(earlier)
    BY <2>1, <2>2, FS_Subset
  <2>4. Cardinality(earlier) \in Nat
    BY <2>3, FS_CardinalityType
  <2> QED BY <1>1, <2>3, <2>4
<1>3. InsertByStamp(list, item) = new
  BY DEF InsertByStamp
<1> HIDE DEF p
<1>4. /\ new \in Seq(Entry(G)) /\ DOMAIN new = 1..(Len(list) + 1)
      /\ \A k \in 1..(Len(list) + 1) :
            new[k] = IF k < p THEN list[k] ELSE IF k = p THEN item ELSE list[k - 1]
  BY <1>2, InsertAtIs
<1> HIDE DEF new
<1>5. item.guid # NoGuid /\ \A i \in DOMAIN list : list[i].guid # item.guid
  <2>1. item.guid \in Nat \ {0}
    BY DEF Entry
  <2>2. item.guid # NoGuid
    BY <2>1, StampedEvents
  <2> QED BY <2>2, GuidsAre, Zenon
<1>6. GuidsOnce(new)
  <2> SUFFICES ASSUME NEW i \in DOMAIN new, NEW j \in DOMAIN new, i < j
               PROVE  new[i].guid # new[j].guid
    BY <1>1, <1>4 DEF GuidsOnce
  <2>1. i \in 1..(Len(list) + 1) /\ j \in 1..(Len(list) + 1)
    BY <1>4
  <2>2. CASE i # p /\ j # p
    <3>1. PICK m \in DOMAIN list : m = (IF i < p THEN i ELSE i - 1) /\ new[i] = list[m]
      BY <1>1, <1>2, <1>4, <2>1, <2>2
    <3>2. PICK n \in DOMAIN list : n = (IF j < p THEN j ELSE j - 1) /\ new[j] = list[n]
      BY <1>1, <1>2, <1>4, <2>1, <2>2
    <3>3. m # n
      BY <1>2, <2>1, <2>2, <3>1, <3>2
    <3> QED BY <3>1, <3>2, <3>3 DEF GuidsOnce
  <2>3. CASE i = p
    <3>1. new[j] = list[j - 1] /\ j - 1 \in DOMAIN list /\ new[i] = item
      BY <1>1, <1>2, <1>4, <2>1, <2>3
    <3> QED BY <1>5, <3>1
  <2>4. CASE j = p
    <3>1. new[i] = list[i] /\ i \in DOMAIN list /\ new[j] = item
      BY <1>1, <1>2, <1>4, <2>1, <2>4
    <3> QED BY <1>5, <3>1
  <2> QED BY <2>2, <2>3, <2>4
<1>7. ASSUME NEW g PROVE g \in Guids(new) <=> g \in Guids(list) \/ g = item.guid
  <2>1. ASSUME NEW i \in DOMAIN list PROVE \E k \in DOMAIN new : new[k] = list[i]
    <3>1. CASE i < p
      <4>1. i \in 1..(Len(list) + 1)
        BY <1>1
      <4> QED BY <1>1, <1>4, <3>1, <4>1
    <3>2. CASE ~(i < p)
      <4>1. i + 1 \in 1..(Len(list) + 1) /\ ~(i + 1 < p) /\ i + 1 # p /\ (i + 1) - 1 = i
        BY <1>1, <1>2, <3>2
      <4> QED BY <1>4, <4>1
    <3> QED BY <3>1, <3>2
  <2>2. ASSUME NEW k \in DOMAIN new PROVE new[k] = item \/ \E i \in DOMAIN list : new[k] = list[i]
    <3>1. k \in 1..(Len(list) + 1)
      BY <1>4
    <3>2. k < p => k \in DOMAIN list
      BY <1>1, <1>2, <3>1
    <3>3. ~(k < p) /\ k # p => k - 1 \in DOMAIN list
      BY <1>1, <1>2, <3>1
    <3> QED BY <1>4, <3>1, <3>2, <3>3
  <2>3. p \in DOMAIN new /\ new[p] = item
    BY <1>2, <1>4
  <2>4. ASSUME g \in Guids(new) PROVE g \in Guids(list) \/ g = item.guid
    <3>1. PICK k \in DOMAIN new : new[k].guid = g
      BY <2>4, GuidsAre
    <3> QED BY <2>2, <2>4, <3>1, GuidsAre
  <2>5. ASSUME g \in Guids(list) PROVE g \in Guids(new)
    <3>1. PICK k \in DOMAIN list : list[k].guid = g
      BY <2>5, GuidsAre
    <3> QED BY <2>1, <2>5, <3>1, GuidsAre
  <2>6. item.guid \in Guids(new)
    BY <1>5, <2>3, GuidsAre
  <2> QED BY <2>4, <2>5, <2>6
<1> QED BY <1>3, <1>4, <1>6, <1>7 DEF new

LEMMA EntryRemoved ==
    ASSUME NEW G \in SUBSET (Nat \ {0}), NEW list \in Seq(Entry(G)), GuidsOnce(list),
           NEW at \in DOMAIN list
    PROVE  LET new == RemoveAt(list, at)
           IN  /\ new \in Seq(Entry(G)) /\ GuidsOnce(new)
               /\ Guids(new) = Guids(list) \ {list[at].guid}
<1> DEFINE new == RemoveAt(list, at)
<1>1. Len(list) \in Nat /\ DOMAIN list = 1..Len(list) /\ \A i \in DOMAIN list : list[i] \in Entry(G)
  BY LenProperties, ElementOfSeq
<1>2. /\ new \in Seq(Entry(G)) /\ DOMAIN new = 1..(Len(list) - 1)
      /\ \A k \in 1..(Len(list) - 1) : new[k] = IF k < at THEN list[k] ELSE list[k + 1]
  BY RemoveAtIs
<1> HIDE DEF new
<1>3. ASSUME NEW k \in DOMAIN new
      PROVE  \E i \in DOMAIN list : i # at /\ new[k] = list[i] /\ i = IF k < at THEN k ELSE k + 1
  BY <1>1, <1>2
<1>4. GuidsOnce(new)
  <2> SUFFICES ASSUME NEW i \in DOMAIN new, NEW j \in DOMAIN new, i < j
               PROVE  new[i].guid # new[j].guid
    BY <1>1, <1>2 DEF GuidsOnce
  <2> QED BY <1>1, <1>2, <1>3 DEF GuidsOnce
<1>5. ASSUME NEW i \in DOMAIN list, i # at PROVE \E k \in DOMAIN new : new[k] = list[i]
  <2>1. CASE i < at
    BY <1>1, <1>2, <2>1
  <2>2. CASE i > at
    <3>1. i - 1 \in 1..(Len(list) - 1) /\ ~(i - 1 < at) /\ (i - 1) + 1 = i
      BY <1>1, <2>2
    <3> QED BY <1>2, <3>1
  <2> QED BY <1>1, <1>5, <2>1, <2>2
<1>6. ASSUME NEW g PROVE g \in Guids(new) <=> g \in Guids(list) /\ g # list[at].guid
  BY <1>3, <1>5, GuidsAre DEF GuidsOnce
<1> QED BY <1>2, <1>4, <1>6 DEF new

(* An event that is added is in the list, once, and all others stay.        *)
LEMMA AddedIs ==
    ASSUME NEW G \in SUBSET (Nat \ {0}), NEW list \in Seq(Entry(G)), GuidsOnce(list),
           NEW g \in G, NEW stamp \in Nat, Unlimited
    PROVE  LET new == Added(list, g, stamp)
           IN  /\ new \in Seq(Entry(G)) /\ GuidsOnce(new)
               /\ Guids(new) = Guids(list) \cup {g}
<1> DEFINE item == ItemOf(g, stamp)
           new  == AddItem(list, item)
           at   == PlaceOf(list, g)
           rest == RemoveAt(list, at)
           moved == [item EXCEPT !.id = list[at].id]
<1>1. item \in Entry(G) /\ item.guid = g /\ item.stamp = stamp
  BY DEF ItemOf, Entry
<1>2. CASE g \notin Guids(list)
  <2>1. new = InsertByStamp(list, item)
    BY <1>1, <1>2 DEF AddItem
  <2> HIDE DEF new, item
  <2>2. /\ new \in Seq(Entry(G)) /\ GuidsOnce(new)
        /\ Guids(new) = Guids(list) \cup {g}
    BY <1>1, <1>2, <2>1, EntryInserted
  <2>3. Added(list, g, stamp) = new
    BY <2>2, NoLimits DEF Added, new, item
  <2> QED BY <2>2, <2>3
<1>3. CASE g \in Guids(list)
  <2>1. at \in DOMAIN list /\ list[at].guid = g
    BY <1>3, PlaceOfIs
  <2>2. list[at] \in Entry(G)
    BY <2>1, LenProperties, ElementOfSeq
  <2>3. moved \in Entry(G) /\ moved.guid = g
    BY <1>1, <2>2 DEF Entry, ItemOf
  <2>4. rest \in Seq(Entry(G)) /\ GuidsOnce(rest) /\ Guids(rest) = Guids(list) \ {g}
    BY <2>1, EntryRemoved
  <2>5. new = IF stamp <= list[at].stamp THEN list ELSE InsertByStamp(rest, moved)
    BY <1>1, <1>3 DEF AddItem
  <2> HIDE DEF rest, moved, at
  <2>6. moved.guid \notin Guids(rest)
    BY <2>3, <2>4
  <2>7. /\ InsertByStamp(rest, moved) \in Seq(Entry(G)) /\ GuidsOnce(InsertByStamp(rest, moved))
        /\ Guids(InsertByStamp(rest, moved)) = Guids(rest) \cup {g}
    BY <2>3, <2>4, <2>6, EntryInserted, Zenon
  <2> HIDE DEF new
  <2>8. /\ new \in Seq(Entry(G)) /\ GuidsOnce(new)
        /\ Guids(new) = Guids(list) \cup {g}
    <3>1. CASE stamp <= list[at].stamp
      BY <1>3, <2>5, <3>1
    <3>2. CASE ~(stamp <= list[at].stamp)
      BY <1>3, <2>4, <2>5, <2>7, <3>2
    <3> QED BY <3>1, <3>2
  <2>9. Added(list, g, stamp) = new
    BY <2>8, NoLimits DEF Added, new
  <2> QED BY <2>8, <2>9
<1> QED BY <1>2, <1>3

-----------------------------------------------------------------------------
(***************************************************************************)
(* What the variables of ClipSharing hold, whatever users and failures do:  *)
(* every guid that is under way is of an event there was.                  *)
(***************************************************************************)
EventId == Nat \ {0}
Sharable == (Content \ Secret) \cup {Blank}
Frame == [tag : {"CLIP"}, guid : EventId, stamp : Nat, replay : BOOLEAN]
            \cup [tag : {"CDEL"}, guid : EventId]

SharingTypes ==
    /\ clock \in Nat /\ event \in Seq(Sharable)
    /\ os \in [Host -> [what : Content \cup {Unreadable}, ours : BOOLEAN]]
    /\ changed \subseteq Host
    /\ guard \in [Host -> Content \cup {None}]
    /\ read \in [Host -> [what : Content, ours : BOOLEAN] \cup {None}]
    /\ writing \in [Host -> [guid : EventId, put : BOOLEAN] \cup {None}]
    /\ acting \in [Host -> [guid : EventId, stamp : Nat] \cup {None}]
    /\ store \in [Host -> Seq(Entry(EventId))] /\ \A h \in Host : GuidsOnce(store[h])
    /\ undo \in [Host -> Entry(EventId) \cup {None}]
    /\ queue \in [Dials -> Seq(Frame)] /\ wire \in [Ends -> Seq(Frame)]
    /\ line \in [Dials -> Serving \cup {None}] /\ serving \subseteq Ends
    /\ asked \subseteq Dials /\ unasked \subseteq Dials /\ adrift \subseteq EventId
    /\ relay \in [guid : EventId, stamp : Nat, tried : SUBSET Host] \cup {None}
    /\ actions \in Nat

(* What an outgoing peer has sent and the other host not read, on any of the
   connections they had; and that with what it has still to send.            *)
Sent(d)   == UNION {ToSet(wire[<<d, n>>]) : n \in Serving}
Frames(d) == ToSet(queue[d]) \cup Sent(d)

(* What is on its way is of an event there was, and what goes onto a clipboard
   has contents.                                                             *)
Live(g) == g \in DOMAIN event /\ event[g] # Blank

EventsKnown ==
    /\ \A h \in Host :
         /\ Guids(store[h]) \subseteq DOMAIN event
         /\ writing[h] # None => Live(writing[h].guid)
         /\ acting[h] # None => Live(acting[h].guid)
         /\ undo[h] # None => undo[h].guid \in DOMAIN event
    /\ \A d \in Dials : \A f \in Frames(d) : f.guid \in DOMAIN event
    /\ relay # None => Live(relay.guid)
    /\ adrift \subseteq DOMAIN event

SharingBase == SharingTypes /\ EventsKnown

-----------------------------------------------------------------------------
LEMMA EventIs ==
    ASSUME event \in Seq(Sharable)
    PROVE  /\ Len(event) \in Nat /\ DOMAIN event = 1..Len(event) /\ DOMAIN event \subseteq EventId
           /\ \A g \in DOMAIN event : event[g] \in Sharable
           /\ \A g : Live(g) => event[g] \in Content \ Secret
<1>1. Len(event) \in Nat /\ DOMAIN event = 1..Len(event)
  BY LenProperties
<1>2. \A g \in DOMAIN event : event[g] \in Sharable
  BY <1>1, ElementOfSeq
<1>3. DOMAIN event \subseteq EventId
  BY <1>1 DEF EventId
<1> QED BY <1>1, <1>2, <1>3 DEF Live, Sharable

LEMMA EventAdded ==
    ASSUME event \in Seq(Sharable), NEW c \in Sharable, event' = Append(event, c)
    PROVE  /\ event' \in Seq(Sharable) /\ Len(event') = Len(event) + 1 /\ Len(event') \in EventId
           /\ DOMAIN event' = DOMAIN event \cup {Len(event')} /\ Len(event') \notin DOMAIN event
           /\ event'[Len(event')] = c
           /\ \A g \in DOMAIN event : event'[g] = event[g]
           /\ \A g : Live(g) => Live(g)'
<1>1. Len(event) \in Nat /\ DOMAIN event = 1..Len(event)
  BY LenProperties
<1>2. /\ event' \in Seq(Sharable) /\ Len(event') = Len(event) + 1
      /\ \A i \in 1..Len(event) : event'[i] = event[i]
      /\ event'[Len(event) + 1] = c
  BY AppendProperties
<1>3. DOMAIN event' = 1..Len(event')
  BY <1>2, LenProperties
<1> QED BY <1>1, <1>2, <1>3 DEF Live, EventId

LEMMA ClipIs ==
    ASSUME NEW g \in EventId, NEW stamp \in Nat, NEW replay \in BOOLEAN
    PROVE  /\ Clip(g, stamp, replay) \in Frame /\ Cdel(g) \in Frame
           /\ Clip(g, stamp, replay).guid = g /\ Clip(g, stamp, replay).tag = "CLIP"
           /\ Clip(g, stamp, replay).replay = replay /\ Clip(g, stamp, replay).stamp = stamp
           /\ Cdel(g).guid = g /\ Cdel(g).tag = "CDEL"
BY DEF Clip, Cdel, Frame

LEMMA ReplayIs ==
    ASSUME NEW g \in EventId, NEW stamp \in Nat
    PROVE  /\ Clip(g, stamp, TRUE) \in Frame /\ Clip(g, stamp, TRUE).guid = g
           /\ Clip(g, stamp, TRUE).tag = "CLIP" /\ Clip(g, stamp, TRUE).replay
BY DEF Clip, Frame

LEMMA FrameIs ==
    ASSUME NEW f \in Frame
    PROVE  /\ f.guid \in EventId /\ f.tag \in {"CLIP", "CDEL"}
           /\ f.tag = "CLIP" => f.stamp \in Nat /\ f.replay \in BOOLEAN /\ f = Clip(f.guid, f.stamp, f.replay)
BY DEF Frame, Clip

LEMMA BroadcastIs ==
    ASSUME SharingTypes, NEW h \in Host, NEW f \in Frame, Broadcast(h, f)
    PROVE  /\ queue' \in [Dials -> Seq(Frame)]
           /\ \A d \in Dials : \A x : x \in ToSet(queue'[d]) <=> x \in ToSet(queue[d]) \/ (d \in From(h) /\ x = f)
<1>1. ASSUME NEW d \in Dials
      PROVE  /\ Append(queue[d], f) \in Seq(Frame)
             /\ \A x : x \in ToSet(Append(queue[d], f)) <=> x \in ToSet(queue[d]) \/ x = f
  BY AppendProperties, QueueIs DEF SharingTypes
<1>2. queue' = [d \in Dials |-> IF d \in From(h) THEN Append(queue[d], f) ELSE queue[d]]
  BY DEF Broadcast
<1> QED BY <1>1, <1>2 DEF SharingTypes

LEMMA EndsAre ==
    /\ \A d \in Dials : \A n \in Serving : <<d, n>> \in Ends
    /\ \A e \in Ends : e[1] \in Dials /\ e[2] \in Serving /\ e = <<e[1], e[2]>>
    /\ \A d \in Dials : line[d] = None => End(d) \notin Ends
    /\ \A d \in Dials : d[1] \in Host /\ d[2] \in Host
BY ClipAssumption DEF Ends, End

(* A frame goes to the end the outgoing peer is connected to, if that is there. *)
LEMMA SendIs ==
    ASSUME SharingTypes, NEW d \in Dials, NEW s \in Seq(Frame), Send(d, s)
    PROVE  /\ wire' \in [Ends -> Seq(Frame)]
           /\ \A e \in Ends : e # End(d) => wire'[e] = wire[e]
           /\ \A c \in Dials : c # d => Sent(c)' = Sent(c)
           /\ \A x \in Sent(d) : x \in Sent(d)'
           /\ \A x \in Sent(d)' : x \in Sent(d) \/ x \in ToSet(s)
           /\ End(d) \in serving => \A x \in ToSet(s) : x \in Sent(d)'
<1>1. wire' = [e \in Ends |-> IF e = End(d) /\ e \in serving THEN wire[e] \o s ELSE wire[e]]
  BY DEF Send
<1>2. ASSUME NEW e \in Ends
      PROVE  /\ wire[e] \o s \in Seq(Frame)
             /\ \A x : x \in ToSet(wire[e] \o s) <=> x \in ToSet(wire[e]) \/ x \in ToSet(s)
  <2>1. PICK t \in Seq(Frame) : t = wire[e]
    BY DEF SharingTypes
  <2> QED BY <2>1, ConcatIs
<1>3. wire' \in [Ends -> Seq(Frame)]
  BY <1>1, <1>2 DEF SharingTypes
<1>4. \A e \in Ends : e # End(d) => wire'[e] = wire[e]
  BY <1>1
<1>5. ASSUME NEW c \in Dials, c # d PROVE Sent(c)' = Sent(c)
  <2>1. \A n \in Serving : <<c, n>> \in Ends /\ <<c, n>> # End(d)
    BY <1>5, EndsAre DEF End
  <2>2. \A n \in Serving : wire'[<<c, n>>] = wire[<<c, n>>]
    BY <1>4, <2>1
  <2> QED BY <2>2 DEF Sent
<1>6. \A e \in Ends : \A x \in ToSet(wire[e]) : x \in ToSet(wire'[e])
  BY <1>1, <1>2
<1>7. \A e \in Ends : \A x \in ToSet(wire'[e]) : x \in ToSet(wire[e]) \/ x \in ToSet(s)
  BY <1>1, <1>2
<1>8. ASSUME NEW x \in Sent(d) PROVE x \in Sent(d)'
  <2>1. PICK n \in Serving : x \in ToSet(wire[<<d, n>>])
    BY <1>8 DEF Sent
  <2>2. x \in ToSet(wire'[<<d, n>>])
    BY <1>6, <2>1, EndsAre
  <2> QED BY <2>2 DEF Sent
<1>9. \A x \in Sent(d)' : x \in Sent(d) \/ x \in ToSet(s)
  BY <1>7, EndsAre DEF Sent
<1>10. ASSUME End(d) \in serving, NEW x \in ToSet(s) PROVE x \in Sent(d)'
  <2>1. End(d) \in Ends /\ line[d] \in Serving
    BY <1>10 DEF SharingTypes, Ends, End
  <2>2. x \in ToSet(wire'[End(d)])
    BY <1>1, <1>2, <1>10, <2>1
  <2> QED BY <2>1, <2>2 DEF Sent, End
<1> QED BY <1>3, <1>4, <1>5, <1>8, <1>9, <1>10

(* A frame that is sent moves from the queue to the connection; where the other
   end has gone, to nowhere.                                                 *)
LEMMA DrainIs ==
    ASSUME SharingTypes, NEW d \in Dials, DrainOutboundMessages(d)
    PROVE  /\ line[d] # None /\ queue' \in [Dials -> Seq(Frame)] /\ wire' \in [Ends -> Seq(Frame)]
           /\ \A e \in Ends : e # End(d) => wire'[e] = wire[e]
           /\ \A c \in Dials : \A x \in Frames(c)' : x \in Frames(c)
           /\ \A c \in Dials : c # d \/ End(d) \in serving => \A x \in Frames(c) : x \in Frames(c)'
<1>1. queue[d] \in Seq(Frame) /\ queue[d] # <<>>
  BY DEF SharingTypes, DrainOutboundMessages
<1>2. PICK f \in Frame : f = Head(queue[d])
  BY <1>1, HeadTailProperties
<1>3. /\ Tail(queue[d]) \in Seq(Frame)
      /\ \A x : x \in ToSet(queue[d]) <=> x = f \/ x \in ToSet(Tail(queue[d]))
  BY <1>1, <1>2, QueueIs, HeadTailProperties
<1>4. <<f>> \in Seq(Frame) /\ \A x : x \in ToSet(<<f>>) <=> x = f
  <2>1. <<f>> \in Seq(Frame) /\ Len(<<f>>) = 1 /\ <<f>>[1] = f
    OBVIOUS
  <2>2. DOMAIN <<f>> = {1}
    BY <2>1, LenProperties
  <2> QED BY <2>1, <2>2 DEF ToSet
<1> DEFINE s == <<f>>
<1>5. Send(d, s) /\ queue' = [queue EXCEPT ![d] = Tail(queue[d])] /\ line[d] # None
  BY <1>2 DEF DrainOutboundMessages
<1>6. s \in Seq(Frame) /\ \A x : x \in ToSet(s) <=> x = f
  BY <1>4
<1> HIDE DEF s
<1>7. /\ wire' \in [Ends -> Seq(Frame)]
      /\ \A e \in Ends : e # End(d) => wire'[e] = wire[e]
      /\ \A c \in Dials : c # d => Sent(c)' = Sent(c)
      /\ \A x \in Sent(d) : x \in Sent(d)'
      /\ \A x \in Sent(d)' : x \in Sent(d) \/ x = f
      /\ End(d) \in serving => f \in Sent(d)'
  BY <1>5, <1>6, SendIs
<1>8. /\ queue' \in [Dials -> Seq(Frame)] /\ queue'[d] = Tail(queue[d])
      /\ \A c \in Dials : c # d => queue'[c] = queue[c]
  BY <1>3, <1>5 DEF SharingTypes
<1>9. ASSUME NEW c \in Dials, c # d PROVE Frames(c)' = Frames(c)
  BY <1>7, <1>8, <1>9 DEF Frames
<1>10. /\ \A x \in Frames(d)' : x \in Frames(d)
       /\ End(d) \in serving => \A x \in Frames(d) : x \in Frames(d)'
  BY <1>3, <1>7, <1>8 DEF Frames
<1> QED BY <1>5, <1>7, <1>8, <1>9, <1>10

(* A frame that is received leaves the connection.                          *)
LEMMA ReceivedFrame ==
    ASSUME SharingTypes, NEW e \in Ends, NEW d \in Dials, d = e[1],
           wire[e] # <<>>, wire' = [wire EXCEPT ![e] = Tail(@)]
    PROVE  /\ Head(wire[e]) \in Frame /\ Head(wire[e]) \in Sent(d) /\ wire' \in [Ends -> Seq(Frame)]
           /\ \A b \in Ends : b # e => wire'[b] = wire[b]
           /\ \A c \in Dials : \A x : x \in Sent(c) <=> x \in Sent(c)' \/ (c = d /\ x = Head(wire[e]))
<1>1. wire[e] \in Seq(Frame)
  BY DEF SharingTypes
<1>2. PICK f \in Frame : f = Head(wire[e])
  BY <1>1, HeadTailProperties
<1>3. /\ Tail(wire[e]) \in Seq(Frame)
      /\ \A x : x \in ToSet(wire[e]) <=> x = f \/ x \in ToSet(Tail(wire[e]))
  BY <1>1, <1>2, QueueIs, HeadTailProperties
<1>4. /\ wire' \in [Ends -> Seq(Frame)] /\ wire'[e] = Tail(wire[e])
      /\ \A b \in Ends : b # e => wire'[b] = wire[b]
  BY <1>3 DEF SharingTypes
<1>5. e[2] \in Serving /\ e = <<d, e[2]>>
  BY EndsAre
<1>6. ASSUME NEW c \in Dials, NEW x
      PROVE  x \in Sent(c) <=> x \in Sent(c)' \/ (c = d /\ x = f)
  <2>1. \A n \in Serving : x \in ToSet(wire[<<c, n>>]) <=>
          x \in ToSet(wire'[<<c, n>>]) \/ (<<c, n>> = e /\ x = f)
    BY <1>3, <1>4, EndsAre
  <2>2. x \in Sent(c) <=> \E n \in Serving : x \in ToSet(wire[<<c, n>>])
    BY DEF Sent
  <2>3. x \in Sent(c)' <=> \E n \in Serving : x \in ToSet(wire'[<<c, n>>])
    BY DEF Sent
  <2>4. (\E n \in Serving : <<c, n>> = e) <=> c = d
    BY <1>5
  <2> QED BY <2>1, <2>2, <2>3, <2>4
<1> QED BY <1>2, <1>4, <1>6

(* An answer to SYNC is as replays of a part of the history.                *)
LEMMA AnswerIs ==
    ASSUME SharingTypes, NEW d \in Dials, AnswerSync(d)
    PROVE  /\ wire' \in [Ends -> Seq(Frame)]
           /\ \A e \in Ends : e # End(d) => wire'[e] = wire[e]
           /\ \A c \in Dials : c # d => Sent(c)' = Sent(c)
           /\ \A x \in Sent(d) : x \in Sent(d)'
           /\ \A x \in Sent(d)' : x \in Sent(d) \/ (/\ x.guid \in Guids(store[d[1]])
                                                    /\ x.tag = "CLIP" /\ x.replay)
           /\ End(d) \in serving /\ Len(store[d[1]]) <= SyncItems =>
                \A g \in Guids(store[d[1]]) : \E x \in Sent(d)' : x.tag = "CLIP" /\ x.guid = g
<1> DEFINE list == store[d[1]]
           answer == ItemsSince(list, NoGuid, SyncItems)
           frames == [n \in DOMAIN answer |-> Clip(answer[n].guid, answer[n].stamp, TRUE)]
<1>1. list \in Seq(Entry(EventId)) /\ SyncItems \in Nat /\ d[1] \in Host
  BY ClipAssumption DEF SharingTypes
<1>2. /\ Len(list) \in Nat /\ DOMAIN list = 1..Len(list)
      /\ \A i \in DOMAIN list : list[i] \in Entry(EventId)
  BY <1>1, LenProperties, ElementOfSeq
<1>3. Send(d, frames)
  BY DEF AnswerSync, Replays
<1>4. PICK from \in Nat, upto \in Nat :
        /\ answer = SubSeq(list, from, upto) /\ from \in 1..(Len(list) + 1) /\ upto <= Len(list)
        /\ Len(list) <= SyncItems => from = 1 /\ upto = Len(list)
  <2> DEFINE tail == IF Len(list) > SyncItems THEN Len(list) - SyncItems + 1 ELSE 1
             upto == IF tail + SyncItems - 1 < Len(list) THEN tail + SyncItems - 1 ELSE Len(list)
  <2>1. NoGuid \notin Guids(list)
    BY DEF Guids
  <2>2. answer = SubSeq(list, tail, upto)
    BY <2>1 DEF ItemsSince
  <2>3. tail \in 1..(Len(list) + 1) /\ upto \in Nat /\ upto <= Len(list)
    BY <1>1, <1>2
  <2>4. Len(list) <= SyncItems => tail = 1 /\ upto = Len(list)
    BY <1>1, <1>2
  <2> HIDE DEF tail, upto, answer
  <2> QED BY <2>2, <2>3, <2>4
<1> HIDE DEF answer
<1>5. /\ answer \in Seq(Entry(EventId)) /\ Len(answer) \in Nat /\ DOMAIN answer = 1..Len(answer)
      /\ \A n \in DOMAIN answer : n + from - 1 \in DOMAIN list /\ answer[n] = list[n + from - 1]
      /\ Len(list) <= SyncItems => answer = list
  <2>1. \A i \in from..upto : list[i] \in Entry(EventId) /\ i \in DOMAIN list
    BY <1>2, <1>4
  <2>2. /\ answer \in Seq(Entry(EventId)) /\ Len(answer) = IF from <= upto THEN upto - from + 1 ELSE 0
        /\ \A n \in 1..(upto - from + 1) : answer[n] = list[from + n - 1]
    BY <1>4, <2>1, SubSeqProperties
  <2>3. Len(answer) \in Nat /\ DOMAIN answer = 1..Len(answer)
    BY <2>2, LenProperties
  <2>4. ASSUME NEW n \in DOMAIN answer
        PROVE  n + from - 1 \in DOMAIN list /\ answer[n] = list[n + from - 1]
    <3>1. n \in 1..(upto - from + 1)
      BY <1>4, <2>2, <2>3
    <3>2. n + from - 1 \in from..upto /\ from + n - 1 = n + from - 1
      BY <1>4, <3>1
    <3> QED BY <2>1, <2>2, <3>1, <3>2
  <2>5. Len(list) <= SyncItems => answer = list
    BY <1>1, <1>4, SubSeqFull
  <2> QED BY <2>2, <2>3, <2>4, <2>5
<1>6. ASSUME NEW n \in DOMAIN answer
      PROVE  frames[n] \in Frame /\ frames[n].guid \in Guids(list) /\ frames[n].tag = "CLIP"
             /\ frames[n].replay /\ frames[n].guid = answer[n].guid
  <2>1. answer[n] \in Entry(EventId)
    BY <1>5, ElementOfSeq
  <2>2. answer[n].guid \in EventId /\ answer[n].stamp \in Nat
    BY <2>1 DEF Entry
  <2>3. answer[n].guid # NoGuid
    BY <2>2, StampedEvents DEF EventId
  <2>4. answer[n].guid \in Guids(list)
    BY <1>5, <2>3, GuidsAre
  <2>5. frames[n] = Clip(answer[n].guid, answer[n].stamp, TRUE)
    OBVIOUS
  <2> HIDE DEF frames
  <2> DEFINE clip == Clip(answer[n].guid, answer[n].stamp, TRUE)
  <2>7. clip \in Frame /\ clip.guid = answer[n].guid /\ clip.tag = "CLIP" /\ clip.replay
    BY <2>2, ReplayIs
  <2> HIDE DEF clip
  <2>8. frames[n] = clip
    BY <2>5 DEF clip
  <2> QED BY <2>4, <2>7, <2>8
<1>7. frames \in Seq(Frame) /\ DOMAIN frames = DOMAIN answer
  <2>1. frames = [n \in DOMAIN answer |-> frames[n]]
    OBVIOUS
  <2> HIDE DEF frames
  <2>2. frames \in [1..Len(answer) -> Frame]
    BY <1>5, <1>6, <2>1
  <2> QED BY <1>5, <2>2, SeqDef
<1> HIDE DEF frames
<1>8. /\ wire' \in [Ends -> Seq(Frame)]
      /\ \A e \in Ends : e # End(d) => wire'[e] = wire[e]
      /\ \A c \in Dials : c # d => Sent(c)' = Sent(c)
      /\ \A x \in Sent(d) : x \in Sent(d)'
      /\ \A x \in Sent(d)' : x \in Sent(d) \/ x \in ToSet(frames)
      /\ End(d) \in serving => \A x \in ToSet(frames) : x \in Sent(d)'
  BY <1>3, <1>7, SendIs
<1>9. \A x : x \in ToSet(frames) <=> \E n \in DOMAIN answer : frames[n] = x
  BY <1>7, ToSetIs
<1>10. ASSUME End(d) \in serving, Len(list) <= SyncItems, NEW g \in Guids(list)
       PROVE  \E x \in Sent(d)' : x.tag = "CLIP" /\ x.guid = g
  <2>1. PICK n \in DOMAIN answer : answer[n].guid = g
    BY <1>5, <1>10, GuidsAre
  <2> QED BY <1>6, <1>8, <1>9, <1>10, <2>1
<1>11. \A x \in Sent(d)' : x \in Sent(d) \/ (x.guid \in Guids(list) /\ x.tag = "CLIP" /\ x.replay)
  BY <1>6, <1>8, <1>9
<1> QED BY <1>8, <1>10, <1>11

(* An event is added to one list.                                           *)
LEMMA AddedTo ==
    ASSUME Unlimited, SharingTypes, NEW h \in Host, NEW g \in EventId, NEW stamp \in Nat,
           store' = [store EXCEPT ![h] = Added(@, g, stamp)]
    PROVE  /\ store' \in [Host -> Seq(Entry(EventId))] /\ \A p \in Host : GuidsOnce(store'[p])
           /\ \A p \in Host : p # h => store'[p] = store[p]
           /\ Guids(store'[h]) = Guids(store[h]) \cup {g}
<1> DEFINE new == Added(store[h], g, stamp)
<1>1. store[h] \in Seq(Entry(EventId)) /\ GuidsOnce(store[h])
  BY DEF SharingTypes
<1>2. EventId \in SUBSET (Nat \ {0})
  BY DEF EventId
<1>3. new \in Seq(Entry(EventId)) /\ GuidsOnce(new) /\ Guids(new) = Guids(store[h]) \cup {g}
  <2>1. PICK list : list = store[h]
    OBVIOUS
  <2>2. list \in Seq(Entry(EventId)) /\ GuidsOnce(list)
    BY <1>1, <2>1
  <2> DEFINE added == Added(list, g, stamp)
  <2>3. added \in Seq(Entry(EventId)) /\ GuidsOnce(added) /\ Guids(added) = Guids(list) \cup {g}
    <3>1. added \in Seq(Entry(EventId))
      BY <1>2, <2>2, AddedIs
    <3>2. GuidsOnce(added)
      BY <1>2, <2>2, AddedIs
    <3>3. Guids(added) = Guids(list) \cup {g}
      BY <1>2, <2>2, AddedIs
    <3> QED BY <3>1, <3>2, <3>3
  <2> QED BY <2>1, <2>3
<1>4. store' = [store EXCEPT ![h] = new]
  OBVIOUS
<1> HIDE DEF new
<1>5. store' \in [Host -> Seq(Entry(EventId))] /\ store'[h] = new /\ \A p \in Host : p # h => store'[p] = store[p]
  BY <1>3, <1>4 DEF SharingTypes
<1> QED BY <1>3, <1>5 DEF SharingTypes

(* ... and taken out of one.                                                *)
LEMMA RemovedFrom ==
    ASSUME SharingTypes, NEW h \in Host, NEW at \in DOMAIN store[h],
           store' = [store EXCEPT ![h] = RemoveAt(@, at)]
    PROVE  /\ store' \in [Host -> Seq(Entry(EventId))] /\ \A p \in Host : GuidsOnce(store'[p])
           /\ \A p \in Host : p # h => store'[p] = store[p]
           /\ Guids(store'[h]) = Guids(store[h]) \ {store[h][at].guid}
<1> DEFINE new == RemoveAt(store[h], at)
<1>1. store[h] \in Seq(Entry(EventId)) /\ GuidsOnce(store[h])
  BY DEF SharingTypes
<1>2. EventId \in SUBSET (Nat \ {0})
  BY DEF EventId
<1>3. new \in Seq(Entry(EventId)) /\ GuidsOnce(new) /\ Guids(new) = Guids(store[h]) \ {store[h][at].guid}
  BY <1>1, <1>2, EntryRemoved
<1>4. store' = [store EXCEPT ![h] = new]
  OBVIOUS
<1> HIDE DEF new
<1>5. store' \in [Host -> Seq(Entry(EventId))] /\ store'[h] = new /\ \A p \in Host : p # h => store'[p] = store[p]
  BY <1>3, <1>4 DEF SharingTypes
<1> QED BY <1>3, <1>5 DEF SharingTypes

LEMMA DeletedFrom ==
    ASSUME SharingTypes, NEW h \in Host, NEW g,
           store' = [store EXCEPT ![h] = RemoveByEventGuid(@, g)]
    PROVE  /\ store' \in [Host -> Seq(Entry(EventId))] /\ \A p \in Host : GuidsOnce(store'[p])
           /\ \A p \in Host : p # h => store'[p] = store[p]
           /\ Guids(store'[h]) = Guids(store[h]) \ {g}
<1>1. CASE g \in Guids(store[h])
  <2> DEFINE at == PlaceOf(store[h], g)
  <2>1. at \in DOMAIN store[h] /\ store[h][at].guid = g
    BY <1>1, PlaceOfIs
  <2>2. store' = [store EXCEPT ![h] = RemoveAt(@, at)]
    BY <1>1 DEF RemoveByEventGuid
  <2> HIDE DEF at
  <2> QED BY <2>1, <2>2, RemovedFrom
<1>2. CASE g \notin Guids(store[h])
  <2>1. store' = store
    BY <1>2 DEF RemoveByEventGuid, SharingTypes
  <2> QED BY <1>2, <2>1 DEF SharingTypes
<1> QED BY <1>1, <1>2

(* An entry of a list is of an event there was.                             *)
LEMMA EntryKnown ==
    ASSUME SharingBase, NEW h \in Host, NEW i \in DOMAIN store[h]
    PROVE  /\ store[h][i] \in Entry(EventId) /\ store[h][i].guid \in EventId
           /\ store[h][i].stamp \in Nat /\ store[h][i].guid \in Guids(store[h])
           /\ store[h][i].guid \in DOMAIN event
<1>1. store[h] \in Seq(Entry(EventId))
  BY DEF SharingBase, SharingTypes
<1>2. store[h][i] \in Entry(EventId)
  BY <1>1, LenProperties, ElementOfSeq
<1>3. store[h][i].guid \in EventId /\ store[h][i].stamp \in Nat
  BY <1>2 DEF Entry
<1>4. store[h][i].guid # NoGuid
  BY <1>3, StampedEvents DEF EventId
<1>5. store[h][i].guid \in Guids(store[h])
  BY <1>4, GuidsAre
<1> QED BY <1>2, <1>3, <1>5 DEF SharingBase, EventsKnown

(* What OnClipboardReceived does: nothing, for contents the guard holds, or the
   event is added and, if it is live, is to go onto the clipboard.           *)
Takes(h, g, replay) ==
    /\ store' \in [Host -> Seq(Entry(EventId))] /\ \A p \in Host : GuidsOnce(store'[p])
    /\ writing' \in [Host -> [guid : EventId, put : BOOLEAN] \cup {None}]
    /\ \A p \in Host : p # h => store'[p] = store[p] /\ writing'[p] = writing[p]
    /\ \/ ~replay /\ Live(g) /\ guard[h] = event[g] /\ store' = store /\ writing' = writing
       \/ /\ replay \/ ~Live(g) \/ guard[h] # event[g]
          /\ Guids(store'[h]) = Guids(store[h]) \cup {g}
          /\ IF ~replay /\ Live(g) THEN writing'[h] = [guid |-> g, put |-> FALSE]
             ELSE writing' = writing

LEMMA ReceivedIs ==
    ASSUME Unlimited, SharingBase, NEW h \in Host, writing[h] = None,
           NEW g \in DOMAIN event, NEW stamp \in Nat, NEW replay \in BOOLEAN,
           OnClipboardReceived(h, Clip(g, stamp, replay))
    PROVE  Takes(h, g, replay)
<1> DEFINE clip == Clip(g, stamp, replay)
           live == ~clip.replay /\ event[clip.guid] # Blank
<1>1. g \in EventId /\ SharingTypes
  BY EventIs DEF SharingBase, SharingTypes
<1>2. clip.guid = g /\ clip.stamp = stamp /\ clip.replay = replay
  BY <1>1, ClipIs
<1>3. live <=> ~replay /\ Live(g)
  BY <1>2 DEF Live
<1>4. \/ live /\ guard[h] = event[clip.guid] /\ UNCHANGED <<store, writing>>
      \/ /\ ~(live /\ guard[h] = event[clip.guid])
         /\ store' = [store EXCEPT ![h] = Added(@, clip.guid, clip.stamp)]
         /\ writing' = IF live THEN [writing EXCEPT ![h] = [guid |-> clip.guid, put |-> FALSE]]
                       ELSE writing
  BY DEF OnClipboardReceived
<1> HIDE DEF clip, live
<1>5. CASE live /\ guard[h] = event[clip.guid] /\ UNCHANGED <<store, writing>>
  BY <1>1, <1>2, <1>3, <1>5 DEF Takes, SharingTypes
<1>6. CASE /\ ~(live /\ guard[h] = event[clip.guid])
           /\ store' = [store EXCEPT ![h] = Added(@, clip.guid, clip.stamp)]
           /\ writing' = IF live THEN [writing EXCEPT ![h] = [guid |-> clip.guid, put |-> FALSE]]
                         ELSE writing
  <2>1. /\ store' \in [Host -> Seq(Entry(EventId))] /\ \A p \in Host : GuidsOnce(store'[p])
        /\ \A p \in Host : p # h => store'[p] = store[p]
        /\ Guids(store'[h]) = Guids(store[h]) \cup {g}
    BY <1>1, <1>2, <1>6, AddedTo
  <2>2. /\ writing' \in [Host -> [guid : EventId, put : BOOLEAN] \cup {None}]
        /\ \A p \in Host : p # h => writing'[p] = writing[p]
        /\ IF ~replay /\ Live(g) THEN writing'[h] = [guid |-> g, put |-> FALSE] ELSE writing' = writing
    BY <1>1, <1>2, <1>3, <1>6 DEF SharingTypes
  <2>3. replay \/ ~Live(g) \/ guard[h] # event[g]
    BY <1>2, <1>3, <1>6
  <2> QED BY <2>1, <2>2, <2>3 DEF Takes
<1> QED BY <1>4, <1>5, <1>6

Undertaken == <<event, store, writing, acting, undo, queue, wire, relay, adrift>>

LEMMA FramesSame ==
    /\ UNCHANGED wire => \A d : Sent(d)' = Sent(d)
    /\ UNCHANGED <<queue, wire>> => \A d : Frames(d)' = Frames(d)
BY DEF Frames, Sent

LEMMA SameKnown ==
    ASSUME EventsKnown, UNCHANGED Undertaken
    PROVE  EventsKnown'
BY FramesSame DEF EventsKnown, Undertaken, Live

LEMMA BaseInit == SharingInit => SharingBase
<1> SUFFICES ASSUME SharingInit PROVE SharingBase
  OBVIOUS
<1>1. \A T : <<>> \in Seq(T) /\ DOMAIN <<>> = {} /\ ToSet(<<>>) = {} /\ Guids(<<>>) = {}
  <2>1. \A T : <<>> \in Seq(T) /\ Len(<<>>) = 0
    BY EmptySeq
  <2>2. DOMAIN <<>> = {}
    BY <2>1, LenProperties
  <2> QED BY <2>1, <2>2 DEF ToSet, Guids
<1>2. SharingTypes
  <2>1. line \in [Dials -> Serving \cup {None}] /\ serving \subseteq Ends
    BY DEF SharingInit, Ends
  <2> QED BY <1>1, <2>1 DEF SharingInit, SharingTypes, GuidsOnce
<1>3. \A d \in Dials : Frames(d) = {}
  <2>1. \A d \in Dials : ToSet(queue[d]) = {}
    BY <1>1 DEF SharingInit
  <2>2. \A d \in Dials : \A n \in Serving : ToSet(wire[<<d, n>>]) = {}
    BY <1>1, EndsAre DEF SharingInit
  <2>3. \A d \in Dials : Sent(d) = {}
    BY <2>2 DEF Sent
  <2> QED BY <2>1, <2>3 DEF Frames
<1>4. EventsKnown
  BY <1>1, <1>3 DEF SharingInit, EventsKnown
<1> QED BY <1>2, <1>4 DEF SharingBase

LEMMA BaseCopy ==
    ASSUME SharingBase, NEW h \in Host, NEW c \in Content \cup {Unreadable}, Copy(h, c)
    PROVE  SharingBase'
<1>1. SharingTypes'
  BY DEF SharingBase, SharingTypes, Copy, Put, meshVars, linkVars, lossVars
<1>2. EventsKnown'
  BY SameKnown DEF SharingBase, Undertaken, Copy, meshVars, linkVars, lossVars
<1> QED BY <1>1, <1>2 DEF SharingBase

LEMMA BaseRead ==
    ASSUME SharingBase, NEW h \in Host, ReadClipboardData(h)
    PROVE  SharingBase'
<1>1. SharingTypes'
  BY DEF SharingBase, SharingTypes, ReadClipboardData, meshVars, linkVars, lossVars, userVars
<1>2. EventsKnown'
  BY SameKnown DEF SharingBase, Undertaken, ReadClipboardData, meshVars, linkVars, lossVars, userVars
<1> QED BY <1>1, <1>2 DEF SharingBase

(* What the clipboard thread does when it publishes what it read: event g, with
   contents b, is added to the history and broadcast as f.                   *)
Publishes(h, g, f, b) ==
    /\ g = Len(event) + 1 /\ b = (IF read[h].what \in Secret THEN Blank ELSE read[h].what)
    /\ f.tag = "CLIP" /\ f.guid = g /\ f.replay = FALSE
    /\ clock' \in Nat /\ read[h] \in [what : Content, ours : BOOLEAN]
    /\ guard' = [guard EXCEPT ![h] = read[h].what]
    /\ event' = Append(event, b)
    /\ store' \in [Host -> Seq(Entry(EventId))] /\ \A p \in Host : GuidsOnce(store'[p])
    /\ \A p \in Host : p # h => store'[p] = store[p]
    /\ Guids(store'[h]) = Guids(store[h]) \cup {g}
    /\ queue' \in [Dials -> Seq(Frame)]
    /\ \A d \in Dials : \A x : x \in ToSet(queue'[d]) <=> x \in ToSet(queue[d]) \/ (d \in From(h) /\ x = f)

LEMMA PublishIs ==
    ASSUME Unlimited, SharingBase, NEW h \in Host, OnClipboardNotification(h), guard[h] # read[h].what
    PROVE  \E g \in EventId, f \in Frame, b \in Sharable : Publishes(h, g, f, b)
<1> DEFINE c == read[h].what
           b == IF c \in Secret THEN Blank ELSE c
           g == Len(event) + 1
<1>1. SharingTypes
  BY DEF SharingBase
<1>2. read[h] \in [what : Content, ours : BOOLEAN]
  BY <1>1 DEF OnClipboardNotification, linkVars, lossVars, SharingTypes
<1>3. /\ clock' = clock + 1 /\ guard' = [guard EXCEPT ![h] = c]
      /\ event' = Append(event, b)
      /\ store' = [store EXCEPT ![h] = Added(@, g, clock')]
      /\ Broadcast(h, Clip(g, clock', FALSE))
  BY DEF OnClipboardNotification, linkVars, lossVars, Time
<1>4. b \in Sharable /\ event \in Seq(Sharable)
  BY <1>1, <1>2 DEF Sharable, SharingTypes
<1> HIDE DEF c, b
<1>5. Len(event') = g /\ g \in EventId
  BY <1>3, <1>4, EventAdded
<1>6. clock' \in Nat
  BY <1>1, <1>3 DEF SharingTypes
<1> HIDE DEF g
<1>7. Clip(g, clock', FALSE) \in Frame /\ Clip(g, clock', FALSE).guid = g
      /\ Clip(g, clock', FALSE).tag = "CLIP" /\ Clip(g, clock', FALSE).replay = FALSE
  BY <1>5, <1>6 DEF Clip, Frame
<1>8. /\ store' \in [Host -> Seq(Entry(EventId))] /\ \A p \in Host : GuidsOnce(store'[p])
      /\ \A p \in Host : p # h => store'[p] = store[p]
      /\ Guids(store'[h]) = Guids(store[h]) \cup {g}
  <2>1. PICK t \in Nat : t = clock'
    BY <1>6
  <2> QED BY <1>1, <1>3, <1>5, <2>1, AddedTo
<1>9. /\ queue' \in [Dials -> Seq(Frame)]
      /\ \A d \in Dials : \A x : x \in ToSet(queue'[d]) <=>
            x \in ToSet(queue[d]) \/ (d \in From(h) /\ x = Clip(g, clock', FALSE))
  <2>1. PICK f \in Frame : f = Clip(g, clock', FALSE)
    BY <1>7
  <2> QED BY <1>1, <1>3, <2>1, BroadcastIs
<1> QED
  <2>1. PICK f \in Frame : f = Clip(g, clock', FALSE)
    BY <1>7
  <2>2. c = read[h].what /\ b = (IF read[h].what \in Secret THEN Blank ELSE read[h].what) /\ g = Len(event) + 1
    BY DEF c, b, g
  <2> QED BY <1>2, <1>3, <1>4, <1>5, <1>6, <1>7, <1>8, <1>9, <2>1, <2>2 DEF Publishes

LEMMA BaseNotification ==
    ASSUME Unlimited, SharingBase, NEW h \in Host, OnClipboardNotification(h)
    PROVE  SharingBase'
<1>1. CASE guard[h] = read[h].what
  <2>1. SharingTypes'
    BY <1>1 DEF SharingBase, SharingTypes, OnClipboardNotification, linkVars, lossVars, userVars
  <2>2. EventsKnown'
    BY <1>1, SameKnown DEF SharingBase, Undertaken, OnClipboardNotification, linkVars, lossVars, userVars
  <2> QED BY <2>1, <2>2 DEF SharingBase
<1>2. CASE guard[h] # read[h].what
  <2>1. /\ read' = [read EXCEPT ![h] = None]
        /\ UNCHANGED <<os, changed, writing, acting, undo, relay, actions, wire, line, serving, asked,
                       unasked, adrift>>
    BY DEF OnClipboardNotification, linkVars, lossVars, userVars
  <2>2. PICK g \in EventId, f \in Frame, b \in Sharable : Publishes(h, g, f, b)
    BY <1>2, PublishIs
  <2>3. Len(event') = g
    BY <2>2, EventAdded DEF Publishes, SharingBase, SharingTypes
  <2>4. /\ event' \in Seq(Sharable) /\ DOMAIN event' = DOMAIN event \cup {g}
        /\ \A x : Live(x) => Live(x)'
    BY <2>2, <2>3, EventAdded DEF Publishes, SharingBase, SharingTypes
  <2>5. SharingTypes'
    BY <2>1, <2>2, <2>4 DEF Publishes, SharingBase, SharingTypes
  <2>6. EventsKnown'
    <3>1. \A d \in Dials : \A x \in Frames(d)' : x.guid \in DOMAIN event'
      BY <2>1, <2>2, <2>4, FramesSame DEF Publishes, SharingBase, EventsKnown, Frames
    <3>2. \A p \in Host : Guids(store'[p]) \subseteq DOMAIN event'
      BY <2>2, <2>4 DEF Publishes, SharingBase, EventsKnown
    <3> QED BY <2>1, <2>4, <3>1, <3>2 DEF SharingBase, EventsKnown
  <2> QED BY <2>5, <2>6 DEF SharingBase
<1> QED BY <1>1, <1>2

LEMMA WriteIs ==
    ASSUME NEW r \in [guid : EventId, put : BOOLEAN]
    PROVE  [r EXCEPT !.put = TRUE] \in [guid : EventId, put : BOOLEAN] /\ [r EXCEPT !.put = TRUE].guid = r.guid
           /\ [r EXCEPT !.put = TRUE].put = TRUE
OBVIOUS

LEMMA BaseSet ==
    ASSUME SharingBase, NEW h \in Host, SetClipboardData(h)
    PROVE  SharingBase'
<1>1. writing[h] \in [guid : EventId, put : BOOLEAN] /\ event[writing[h].guid] \in Content \ Secret
  BY EventIs DEF SharingBase, SharingTypes, EventsKnown, SetClipboardData
<1>2. PICK c \in Content : c = event[writing[h].guid]
  BY <1>1
<1>3. /\ os' \in [Host -> [what : Content \cup {Unreadable}, ours : BOOLEAN]] /\ changed' \subseteq Host
      /\ guard' \in [Host -> Content \cup {None}]
      /\ \E w \in [guid : EventId, put : BOOLEAN] \cup {None} :
            writing' = [writing EXCEPT ![h] = w] /\ (w # None => w.guid = writing[h].guid)
  <2>1. SharingTypes /\ UNCHANGED <<event>>
    BY DEF SharingBase, SetClipboardData
  <2>2. CASE guard[h] = c /\ writing' = [writing EXCEPT ![h] = None] /\ UNCHANGED <<os, changed, guard>>
    BY <2>1, <2>2 DEF SharingTypes
  <2>3. CASE /\ Put(h, c, TRUE)
             /\ IF h \in Marks
                THEN /\ guard' = [guard EXCEPT ![h] = c]
                     /\ writing' = [writing EXCEPT ![h] = None]
                ELSE /\ writing' = [writing EXCEPT ![h].put = TRUE] /\ UNCHANGED guard
    <3>1. \E w \in [guid : EventId, put : BOOLEAN] \cup {None} :
            writing' = [writing EXCEPT ![h] = w] /\ (w # None => w.guid = writing[h].guid)
      <4>1. PICK w \in [guid : EventId, put : BOOLEAN] :
              w = [writing[h] EXCEPT !.put = TRUE] /\ w.guid = writing[h].guid
        BY <1>1, WriteIs
      <4>2. writing' = [writing EXCEPT ![h] = None] \/ writing' = [writing EXCEPT ![h] = w]
        BY <2>3, <4>1
      <4> QED BY <4>1, <4>2
    <3>2. os' \in [Host -> [what : Content \cup {Unreadable}, ours : BOOLEAN]] /\ changed' \subseteq Host
      <4>1. [what |-> c, ours |-> TRUE] \in [what : Content \cup {Unreadable}, ours : BOOLEAN]
        OBVIOUS
      <4>2. os' = [os EXCEPT ![h] = [what |-> c, ours |-> TRUE]] /\ changed' = changed \cup {h}
        BY <2>3 DEF Put
      <4> QED BY <2>1, <4>1, <4>2 DEF SharingTypes
    <3>3. guard' \in [Host -> Content \cup {None}]
      BY <2>1, <2>3 DEF SharingTypes
    <3> QED BY <2>3, <3>1, <3>2, <3>3
  <2>4. CASE Put(h, Unreadable, FALSE) /\ writing' = [writing EXCEPT ![h] = None] /\ UNCHANGED guard
    BY <2>1, <2>4 DEF SharingTypes, Put
  <2> QED BY <1>2, <2>2, <2>3, <2>4 DEF SetClipboardData
<1>4. /\ writing' \in [Host -> [guid : EventId, put : BOOLEAN] \cup {None}]
      /\ \A p \in Host : p # h => writing'[p] = writing[p]
      /\ writing'[h] # None => writing'[h].guid = writing[h].guid
  <2>1. writing \in [Host -> [guid : EventId, put : BOOLEAN] \cup {None}]
    BY DEF SharingBase, SharingTypes
  <2> QED BY <1>3, <2>1
<1>5. UNCHANGED <<clock, event, read, store, acting, undo, relay, actions, queue, wire, line, serving, asked,
                  unasked, adrift>>
  BY DEF SetClipboardData, meshVars, linkVars, lossVars, userVars
<1>6. SharingTypes'
  BY <1>3, <1>4, <1>5 DEF SharingBase, SharingTypes
<1>7. EventsKnown'
  BY <1>1, <1>4, <1>5 DEF SharingBase, EventsKnown, Frames, Sent, Live, SetClipboardData
<1> QED BY <1>6, <1>7 DEF SharingBase

LEMMA BaseRemember ==
    ASSUME SharingBase, NEW h \in Host, RememberCurrent(h)
    PROVE  SharingBase'
<1>1. writing[h] \in [guid : EventId, put : BOOLEAN] /\ event[writing[h].guid] \in Content \ Secret
  BY EventIs DEF SharingBase, SharingTypes, EventsKnown, RememberCurrent
<1>2. SharingTypes'
  BY <1>1 DEF SharingBase, SharingTypes, RememberCurrent, meshVars, linkVars, lossVars, userVars
<1>3. EventsKnown'
  BY <1>1, FramesSame DEF SharingBase, SharingTypes, EventsKnown, Live, RememberCurrent, meshVars, linkVars,
     lossVars, userVars
<1> QED BY <1>2, <1>3 DEF SharingBase

(* What a connection hands over: a clip, or the delete of an event.         *)
LEMMA ReceiveIs ==
    ASSUME Unlimited, SharingBase, NEW e \in Ends, NEW d \in Dials, d = e[1], Receive(e)
    PROVE  /\ e \in serving /\ wire[e] # <<>> /\ d[1] \in Host /\ d[2] \in Host /\ writing[d[2]] = None
           /\ UNCHANGED <<clock, event, os, changed, guard, read, acting, undo, relay, copies, actions, queue,
                          line, serving, asked, unasked, adrift, faults, calm, shared>>
           /\ wire' \in [Ends -> Seq(Frame)]
           /\ \A b \in Ends : b # e => wire'[b] = wire[b]
           /\ \E f \in Frame :
                /\ f \in Frames(d) /\ f.guid \in DOMAIN event
                /\ \A c \in Dials : \A x : x \in Frames(c) <=> x \in Frames(c)' \/ (c = d /\ x = f)
                /\ \/ f.tag = "CLIP" /\ f.replay \in BOOLEAN /\ Takes(d[2], f.guid, f.replay)
                   \/ /\ f.tag = "CDEL" /\ UNCHANGED writing
                      /\ store' = [store EXCEPT ![d[2]] = RemoveByEventGuid(@, f.guid)]
<1> DEFINE h == d[2]
           f == Head(wire[e])
<1>1. /\ e \in serving /\ wire[e] # <<>> /\ writing[h] = None
      /\ \/ f.tag = "CLIP" /\ OnClipboardReceived(h, f)
         \/ /\ f.tag = "CDEL" /\ UNCHANGED writing
            /\ store' = [store EXCEPT ![h] = RemoveByEventGuid(@, f.guid)]
      /\ wire' = [wire EXCEPT ![e] = Tail(@)]
      /\ UNCHANGED <<clock, event, os, changed, guard, read, acting, undo, relay, copies, actions, queue,
                     line, serving, asked, unasked, adrift, faults, calm, shared>>
  BY DEF Receive, userVars, calmVars, lossVars
<1>2. d[1] \in Host /\ h \in Host
  BY ClipAssumption
<1>3. /\ f \in Frame /\ f \in Sent(d) /\ wire' \in [Ends -> Seq(Frame)]
      /\ \A b \in Ends : b # e => wire'[b] = wire[b]
      /\ \A c \in Dials : \A x : x \in Sent(c) <=> x \in Sent(c)' \/ (c = d /\ x = f)
  BY <1>1, ReceivedFrame DEF SharingBase
<1> HIDE DEF f
<1>4. f \in Frames(d) /\ f.guid \in DOMAIN event
  BY <1>3 DEF Frames, SharingBase, EventsKnown
<1>5. \A c \in Dials : \A x : x \in Frames(c) <=> x \in Frames(c)' \/ (c = d /\ x = f)
  BY <1>1, <1>3, <1>4 DEF Frames
<1>6. CASE f.tag = "CLIP" /\ OnClipboardReceived(h, f)
  <2>1. f.stamp \in Nat /\ f.replay \in BOOLEAN /\ f = Clip(f.guid, f.stamp, f.replay)
    BY <1>3, <1>6, FrameIs
  <2>2. PICK g \in DOMAIN event, stamp \in Nat, replay \in BOOLEAN :
          g = f.guid /\ stamp = f.stamp /\ replay = f.replay
    BY <1>4, <2>1
  <2>3. OnClipboardReceived(h, Clip(g, stamp, replay))
    BY <1>6, <2>1, <2>2
  <2>4. Takes(h, g, replay)
    BY <1>1, <1>2, <2>3, ReceivedIs
  <2>5. Takes(h, f.guid, f.replay)
    BY <2>2, <2>4
  <2> QED BY <1>1, <1>2, <1>3, <1>4, <1>5, <1>6, <2>1, <2>5
<1>7. CASE /\ f.tag = "CDEL" /\ UNCHANGED writing
           /\ store' = [store EXCEPT ![h] = RemoveByEventGuid(@, f.guid)]
  BY <1>1, <1>2, <1>3, <1>4, <1>5, <1>7
<1> QED BY <1>1, <1>6, <1>7

LEMMA TakenKnown ==
    ASSUME NEW h \in Host, NEW g \in DOMAIN event, NEW replay \in BOOLEAN, Takes(h, g, replay),
           EventsKnown, UNCHANGED event
    PROVE  \A p \in Host : /\ Guids(store'[p]) \subseteq DOMAIN event'
                           /\ writing'[p] # None => writing'[p].guid \in DOMAIN event' /\ event'[writing'[p].guid] # Blank
BY DEF Takes, EventsKnown, Live

LEMMA BaseReceive ==
    ASSUME Unlimited, SharingBase, NEW e \in Ends, Receive(e)
    PROVE  SharingBase'
<1> DEFINE d == e[1]
<1>0. d \in Dials
  BY EndsAre
<1> HIDE DEF d
<1>1. /\ d[2] \in Host
      /\ UNCHANGED <<clock, event, os, changed, guard, read, acting, undo, relay, actions, queue, line,
                     serving, asked, unasked, adrift>>
      /\ wire' \in [Ends -> Seq(Frame)]
  BY <1>0, ReceiveIs DEF d
<1>2. PICK f \in Frame :
        /\ f.guid \in DOMAIN event
        /\ \A c \in Dials : \A x : x \in Frames(c) <=> x \in Frames(c)' \/ (c = d /\ x = f)
        /\ \/ f.tag = "CLIP" /\ f.replay \in BOOLEAN /\ Takes(d[2], f.guid, f.replay)
           \/ /\ f.tag = "CDEL" /\ UNCHANGED writing
              /\ store' = [store EXCEPT ![d[2]] = RemoveByEventGuid(@, f.guid)]
  BY <1>0, ReceiveIs DEF d
<1>3. /\ store' \in [Host -> Seq(Entry(EventId))] /\ \A p \in Host : GuidsOnce(store'[p])
      /\ writing' \in [Host -> [guid : EventId, put : BOOLEAN] \cup {None}]
      /\ \A p \in Host : /\ Guids(store'[p]) \subseteq DOMAIN event'
                         /\ writing'[p] # None => writing'[p].guid \in DOMAIN event' /\ event'[writing'[p].guid] # Blank
  <2>1. CASE f.tag = "CLIP" /\ f.replay \in BOOLEAN /\ Takes(d[2], f.guid, f.replay)
    <3>1. PICK g \in DOMAIN event, replay \in BOOLEAN : g = f.guid /\ replay = f.replay
      BY <1>2, <2>1
    <3>2. Takes(d[2], g, replay)
      BY <2>1, <3>1
    <3> QED BY <1>1, <3>2, TakenKnown DEF SharingBase, Takes
  <2>2. CASE /\ f.tag = "CDEL" /\ UNCHANGED writing
             /\ store' = [store EXCEPT ![d[2]] = RemoveByEventGuid(@, f.guid)]
    <3>1. /\ store' \in [Host -> Seq(Entry(EventId))] /\ \A p \in Host : GuidsOnce(store'[p])
          /\ \A p \in Host : p # d[2] => store'[p] = store[p]
          /\ Guids(store'[d[2]]) = Guids(store[d[2]]) \ {f.guid}
      BY <1>1, <2>2, DeletedFrom DEF SharingBase
    <3> QED BY <1>1, <2>2, <3>1 DEF SharingBase, SharingTypes, EventsKnown, Live
  <2> QED BY <1>2, <2>1, <2>2
<1>4. SharingTypes'
  BY <1>1, <1>3 DEF SharingBase, SharingTypes
<1>5. EventsKnown'
  <2>1. \A c \in Dials : \A x \in Frames(c)' : x.guid \in DOMAIN event'
    BY <1>1, <1>2 DEF SharingBase, EventsKnown
  <2> QED BY <1>1, <1>3, <2>1 DEF SharingBase, EventsKnown, Live
<1> QED BY <1>4, <1>5 DEF SharingBase

Relay == [guid : EventId, stamp : Nat, tried : SUBSET Host]

LEMMA BaseRelayPayloads ==
    ASSUME SharingBase, NEW c \in Content \ Secret, RelayPayloads(c)
    PROVE  SharingBase'
<1>1. /\ clock' = clock + 1 /\ event' = Append(event, c) /\ relay = None
      /\ relay' = [guid |-> Len(event'), stamp |-> clock', tried |-> {}]
      /\ UNCHANGED <<os, changed, guard, read, writing, store, acting, undo, actions, queue, wire, line,
                     serving, asked, unasked, adrift>>
  BY DEF RelayPayloads, Time, clipVars, meshVars, linkVars, lossVars
<1>2. SharingTypes /\ c \in Sharable /\ c # Blank
  BY ClipAssumption DEF SharingBase, Sharable
<1>3. /\ event' \in Seq(Sharable) /\ DOMAIN event \subseteq DOMAIN event' /\ Len(event') \in EventId
      /\ Len(event') \in DOMAIN event' /\ event'[Len(event')] = c
      /\ \A x : Live(x) => x \in DOMAIN event' /\ event'[x] # Blank
  BY <1>1, <1>2, EventAdded DEF SharingTypes, Live
<1>4. clock' \in Nat
  BY <1>1, <1>2 DEF SharingTypes
<1>5. relay' \in Relay /\ relay'.guid = Len(event')
  <2>1. PICK g \in EventId, t \in Nat : g = Len(event') /\ t = clock'
    BY <1>3, <1>4
  <2>2. relay' = [guid |-> g, stamp |-> t, tried |-> {}]
    BY <1>1, <2>1
  <2> QED BY <2>1, <2>2 DEF Relay
<1>6. SharingTypes'
  BY <1>1, <1>2, <1>3, <1>4, <1>5 DEF SharingTypes, Relay
<1>7. EventsKnown'
  BY <1>1, <1>2, <1>3, <1>5 DEF SharingBase, EventsKnown, Frames, Sent, Live
<1> QED BY <1>6, <1>7 DEF SharingBase

(* What a host does with a clip it is handed by a one-shot client.          *)
LEMMA RelayIs ==
    ASSUME Unlimited, SharingBase, NEW h \in Host, RelayVia(h)
    PROVE  /\ writing[h] = None /\ relay \in Relay /\ relay' \in Relay \cup {None} /\ Live(relay.guid)
           /\ relay' # None => relay'.guid = relay.guid
           /\ Takes(h, relay.guid, FALSE)
           /\ UNCHANGED <<clock, event, os, changed, guard, read, acting, undo, wire, line, serving, asked,
                          unasked, adrift, copies, actions, calm, shared>>
           /\ queue' \in [Dials -> Seq(Frame)]
           /\ \E f \in Frame :
                /\ f.tag = "CLIP" /\ f.guid = relay.guid /\ f.replay = FALSE
                /\ \A d \in Dials : \A x :
                     x \in ToSet(queue'[d]) <=> x \in ToSet(queue[d]) \/ (d \in From(h) /\ x = f)
<1> DEFINE f == Clip(relay.guid, relay.stamp, FALSE)
<1>1. /\ relay # None /\ writing[h] = None /\ OnClipboardReceived(h, f) /\ Broadcast(h, f)
      /\ UNCHANGED <<clock, event, os, changed, guard, read, acting, undo, wire, line, serving, asked,
                     unasked, adrift, copies, actions, calm, shared>>
      /\ \/ relay' = None
         \/ relay' = [relay EXCEPT !.tried = @ \cup {h}]
  BY DEF RelayVia, linkVars, lossVars
<1>2. SharingTypes /\ relay \in Relay /\ Live(relay.guid)
  BY <1>1 DEF SharingBase, SharingTypes, EventsKnown, Relay
<1>3. PICK g \in DOMAIN event, stamp \in Nat : g = relay.guid /\ stamp = relay.stamp
  BY <1>2 DEF Relay, Live
<1>4. g \in EventId
  BY <1>2, <1>3 DEF Relay
<1>5. FALSE \in BOOLEAN /\ f = Clip(g, stamp, FALSE)
  BY <1>3
<1>6. f \in Frame /\ f.tag = "CLIP" /\ f.guid = relay.guid /\ f.replay = FALSE
  BY <1>3, <1>4, <1>5 DEF Clip, Frame
<1> HIDE DEF f
<1>7. Takes(h, g, FALSE)
  <2>1. OnClipboardReceived(h, Clip(g, stamp, FALSE))
    BY <1>1, <1>5
  <2> QED BY <1>1, <1>5, <2>1, ReceivedIs
<1>8. /\ queue' \in [Dials -> Seq(Frame)]
      /\ \A d \in Dials : \A x :
           x \in ToSet(queue'[d]) <=> x \in ToSet(queue[d]) \/ (d \in From(h) /\ x = f)
  <2>1. PICK x \in Frame : x = f
    BY <1>6
  <2> QED BY <1>1, <1>2, <2>1, BroadcastIs
<1>9. relay' \in Relay \cup {None} /\ (relay' # None => relay'.guid = relay.guid)
  <2>1. [relay EXCEPT !.tried = @ \cup {h}] \in Relay /\ [relay EXCEPT !.tried = @ \cup {h}].guid = relay.guid
    BY <1>2 DEF Relay
  <2> QED BY <1>1, <2>1
<1>10. Takes(h, relay.guid, FALSE)
  BY <1>3, <1>7
<1> QED BY <1>1, <1>2, <1>6, <1>8, <1>9, <1>10

LEMMA BaseRelayVia ==
    ASSUME Unlimited, SharingBase, NEW h \in Host, RelayVia(h)
    PROVE  SharingBase'
<1>1. /\ relay \in Relay /\ relay' \in Relay \cup {None} /\ Live(relay.guid)
      /\ relay' # None => relay'.guid = relay.guid
      /\ Takes(h, relay.guid, FALSE)
      /\ UNCHANGED <<clock, event, os, changed, guard, read, acting, undo, wire, line, serving, asked,
                     unasked, adrift, copies, actions, calm, shared>>
      /\ queue' \in [Dials -> Seq(Frame)]
  BY RelayIs
<1>2. PICK f \in Frame :
        /\ f.guid = relay.guid
        /\ \A d \in Dials : \A x :
             x \in ToSet(queue'[d]) <=> x \in ToSet(queue[d]) \/ (d \in From(h) /\ x = f)
  BY RelayIs
<1>3. \A p \in Host : /\ Guids(store'[p]) \subseteq DOMAIN event'
                      /\ writing'[p] # None => writing'[p].guid \in DOMAIN event' /\ event'[writing'[p].guid] # Blank
  <2>1. PICK g \in DOMAIN event : g = relay.guid
    BY <1>1 DEF Live
  <2>2. Takes(h, g, FALSE) /\ FALSE \in BOOLEAN
    BY <1>1, <2>1
  <2> QED BY <1>1, <2>2, TakenKnown DEF SharingBase
<1>4. SharingTypes'
  BY <1>1 DEF SharingBase, SharingTypes, Relay, Takes
<1>5. EventsKnown'
  <2>1. \A c \in Dials : \A x \in Frames(c)' : x.guid \in DOMAIN event'
    BY <1>1, <1>2 DEF SharingBase, EventsKnown, Frames, Sent, Live
  <2> QED BY <1>1, <1>3, <2>1 DEF SharingBase, EventsKnown, Live
<1> QED BY <1>4, <1>5 DEF SharingBase

(* What is known stays known when a connection comes, carries, answers, breaks,
   or a host starts again.                                                   *)

(* A dial that comes back has a serving thread of its own; its host asks it for
   its history, or has an incoming peer already.                             *)
LEMMA ConnectIs ==
    ASSUME NEW d \in Dials, Connect(d)
    PROVE  /\ line[d] = None
           /\ \E n \in Serving : /\ <<d, n>> \notin serving
                                 /\ line' = [line EXCEPT ![d] = n] /\ serving' = serving \cup {<<d, n>>}
           /\ \/ Incoming(d[2]) = {} /\ asked' = asked \cup {d} /\ unasked' = unasked \ {d}
              \/ unasked' = unasked \cup {d} /\ asked' = asked
           /\ UNCHANGED <<clock, event, os, changed, guard, read, writing, store, acting, undo, relay,
                          actions, queue, wire, adrift, shared>>
BY DEF Connect, clipVars, userVars, calmVars

LEMMA BaseConnect ==
    ASSUME SharingBase, NEW d \in Dials, Connect(d)
    PROVE  SharingBase'
<1>1. PICK n \in Serving : line' = [line EXCEPT ![d] = n] /\ serving' = serving \cup {<<d, n>>}
  BY ConnectIs
<1>2. line' \in [Dials -> Serving \cup {None}] /\ serving' \subseteq Ends
  BY <1>1, EndsAre DEF SharingBase, SharingTypes
<1>3. asked' \subseteq Dials /\ unasked' \subseteq Dials
  BY ConnectIs DEF SharingBase, SharingTypes
<1>4. SharingTypes'
  BY <1>2, <1>3, ConnectIs DEF SharingBase, SharingTypes
<1>5. EventsKnown'
  BY ConnectIs, SameKnown DEF SharingBase, Undertaken
<1> QED BY <1>4, <1>5 DEF SharingBase

LEMMA BaseDrain ==
    ASSUME SharingBase, NEW d \in Dials, DrainOutboundMessages(d)
    PROVE  SharingBase'
<1>1. /\ queue' \in [Dials -> Seq(Frame)] /\ wire' \in [Ends -> Seq(Frame)]
      /\ \A c \in Dials : \A x \in Frames(c)' : x \in Frames(c)
  BY DrainIs DEF SharingBase
<1>2. UNCHANGED <<clock, event, os, changed, guard, read, writing, store, acting, undo, relay, actions, line,
                  serving, asked, unasked, adrift>>
  BY DEF DrainOutboundMessages, clipVars, userVars, lossVars
<1>3. SharingTypes'
  BY <1>1, <1>2 DEF SharingBase, SharingTypes
<1>4. EventsKnown'
  BY <1>1, <1>2 DEF SharingBase, EventsKnown, Live
<1> QED BY <1>3, <1>4 DEF SharingBase

LEMMA BaseAnswer ==
    ASSUME SharingBase, NEW d \in Dials, AnswerSync(d)
    PROVE  SharingBase'
<1>1. /\ wire' \in [Ends -> Seq(Frame)]
      /\ \A c \in Dials : c # d => Sent(c)' = Sent(c)
      /\ \A x \in Sent(d)' : x \in Sent(d) \/ x.guid \in Guids(store[d[1]])
  BY AnswerIs DEF SharingBase
<1>2. /\ asked' = asked \ {d}
      /\ UNCHANGED <<clock, event, os, changed, guard, read, writing, store, acting, undo, relay, actions,
                     queue, line, serving, unasked, adrift>>
  BY DEF AnswerSync, clipVars, userVars, lossVars
<1>3. SharingTypes'
  BY <1>1, <1>2 DEF SharingBase, SharingTypes
<1>4. EventsKnown'
  <2>1. \A c \in Dials : \A x \in Frames(c)' : x.guid \in DOMAIN event'
    <3>1. d[1] \in Host
      BY EndsAre
    <3> QED BY <1>1, <1>2, <3>1 DEF SharingBase, EventsKnown, Frames
  <2> QED BY <1>2, <2>1 DEF SharingBase, EventsKnown, Live
<1> QED BY <1>3, <1>4 DEF SharingBase

LEMMA EmptyIs ==
    /\ \A T : <<>> \in Seq(T)
    /\ ToSet(<<>>) = {} /\ Guids(<<>>) = {} /\ GuidsOnce(<<>>)
<1>1. \A T : <<>> \in Seq(T) /\ Len(<<>>) = 0
  BY EmptySeq
<1>2. DOMAIN <<>> = {}
  BY <1>1, LenProperties
<1> QED BY <1>1, <1>2 DEF ToSet, Guids, GuidsOnce

LEMMA NoFrames ==
    ASSUME \A d \in Dials : queue[d] = <<>>, \A e \in Ends : wire[e] = <<>>
    PROVE  \A d \in Dials : Frames(d) = {}
<1>1. \A d \in Dials : \A n \in Serving : ToSet(wire[<<d, n>>]) = {}
  BY EmptyIs, EndsAre
<1>2. \A d \in Dials : Sent(d) = {}
  BY <1>1 DEF Sent
<1> QED BY <1>2, EmptyIs DEF Frames

(* The dialling end goes; what was sent is still there.                     *)
LEMMA BreakIs ==
    ASSUME SharingTypes, NEW d \in Dials, Break(d)
    PROVE  /\ line[d] # None /\ line' = [line EXCEPT ![d] = None] /\ asked' = asked \ {d}
           /\ queue' \in [Dials -> Seq(Frame)]
           /\ \A c \in Dials : Sent(c)' = Sent(c)
           /\ \A c \in Dials : \A x \in Frames(c)' : x \in Frames(c)
           /\ \A c \in Dials : c # d => Frames(c)' = Frames(c)
           /\ UNCHANGED <<clock, event, os, changed, guard, read, writing, store, acting, undo, relay,
                          actions, serving, wire, unasked, adrift, shared>>
<1>1. queue' = queue \/ queue' = [queue EXCEPT ![d] = <<>>]
  BY DEF Break
<1>2. /\ line[d] # None /\ line' = [line EXCEPT ![d] = None] /\ asked' = asked \ {d}
      /\ UNCHANGED <<clock, event, os, changed, guard, read, writing, store, acting, undo, relay, actions,
                     serving, wire, unasked, adrift, shared>>
  BY DEF Break, clipVars, userVars, lossVars
<1>3. /\ queue' \in [Dials -> Seq(Frame)]
      /\ queue'[d] \in {queue[d], <<>>} /\ \A c \in Dials : c # d => queue'[c] = queue[c]
  <2>1. <<>> \in Seq(Frame) /\ queue \in [Dials -> Seq(Frame)]
    BY EmptyIs DEF SharingTypes
  <2>2. CASE queue' = [queue EXCEPT ![d] = <<>>]
    BY <2>1, <2>2
  <2>3. CASE queue' = queue
    BY <2>1, <2>3
  <2> QED BY <1>1, <2>2, <2>3
<1>4. \A c \in Dials : Sent(c)' = Sent(c)
  BY <1>2, FramesSame
<1>5. \A c \in Dials : \A x \in Frames(c)' : x \in Frames(c)
  BY <1>3, <1>4, EmptyIs DEF Frames
<1>6. \A c \in Dials : c # d => Frames(c)' = Frames(c)
  BY <1>3, <1>4 DEF Frames
<1> QED BY <1>2, <1>3, <1>4, <1>5, <1>6

LEMMA BaseBreak ==
    ASSUME SharingBase, NEW d \in Dials, Break(d)
    PROVE  SharingBase'
<1>1. /\ queue' \in [Dials -> Seq(Frame)]
      /\ \A c \in Dials : \A x \in Frames(c)' : x \in Frames(c)
  BY BreakIs DEF SharingBase
<1>2. /\ line' = [line EXCEPT ![d] = None] /\ asked' = asked \ {d}
      /\ UNCHANGED <<clock, event, os, changed, guard, read, writing, store, acting, undo, relay, actions,
                     serving, wire, unasked, adrift>>
  BY BreakIs DEF SharingBase
<1>3. SharingTypes'
  BY <1>1, <1>2 DEF SharingBase, SharingTypes
<1>4. EventsKnown'
  BY <1>1, <1>2 DEF SharingBase, EventsKnown, Live
<1> QED BY <1>3, <1>4 DEF SharingBase

(* The serving end goes, with what it has not read.                         *)
LEMMA LeftIs ==
    ASSUME SharingTypes, NEW e \in Ends, NEW d \in Dials, d = e[1], OnIncomingPeerLeft(e)
    PROVE  /\ e \in serving /\ serving' = serving \ {e}
           /\ wire' \in [Ends -> Seq(Frame)] /\ wire'[e] = <<>> /\ \A b \in Ends : b # e => wire'[b] = wire[b]
           /\ \A c \in Dials : \A x \in Frames(c)' : x \in Frames(c)
           /\ \A c \in Dials : c # d => Frames(c)' = Frames(c)
           /\ UNCHANGED <<clock, event, os, changed, guard, read, writing, store, acting, undo, relay,
                          actions, queue, line, asked, unasked, adrift, shared>>
<1>1. /\ e \in serving /\ serving' = serving \ {e} /\ wire' = [wire EXCEPT ![e] = <<>>]
      /\ UNCHANGED <<clock, event, os, changed, guard, read, writing, store, acting, undo, relay, actions,
                     queue, line, asked, unasked, adrift, shared>>
  BY DEF OnIncomingPeerLeft, clipVars, userVars, lossVars
<1>2. /\ wire' \in [Ends -> Seq(Frame)] /\ wire'[e] = <<>> /\ \A b \in Ends : b # e => wire'[b] = wire[b]
  BY <1>1, EmptyIs DEF SharingTypes
<1>3. ASSUME NEW c \in Dials, c # d PROVE Sent(c)' = Sent(c)
  <2>1. \A n \in Serving : <<c, n>> \in Ends /\ <<c, n>> # e
    BY <1>3, EndsAre
  <2>2. \A n \in Serving : wire'[<<c, n>>] = wire[<<c, n>>]
    BY <1>2, <2>1
  <2> QED BY <2>2 DEF Sent
<1>4. ASSUME NEW x \in Sent(d)' PROVE x \in Sent(d)
  <2>1. PICK n \in Serving : x \in ToSet(wire'[<<d, n>>])
    BY <1>4 DEF Sent
  <2>2. <<d, n>> # e
    BY <1>2, <2>1, EmptyIs
  <2>3. x \in ToSet(wire[<<d, n>>])
    BY <1>2, <2>1, <2>2, EndsAre
  <2> QED BY <2>3 DEF Sent
<1>5. \A c \in Dials : c # d => Frames(c)' = Frames(c)
  BY <1>1, <1>3 DEF Frames
<1>6. \A c \in Dials : \A x \in Frames(c)' : x \in Frames(c)
  BY <1>1, <1>3, <1>4 DEF Frames
<1> QED BY <1>1, <1>2, <1>5, <1>6

LEMMA BaseLeft ==
    ASSUME SharingBase, NEW e \in Ends, OnIncomingPeerLeft(e)
    PROVE  SharingBase'
<1>1. PICK d \in Dials : d = e[1]
  BY EndsAre
<1>2. /\ serving' = serving \ {e} /\ wire' \in [Ends -> Seq(Frame)]
      /\ \A c \in Dials : \A x \in Frames(c)' : x \in Frames(c)
      /\ UNCHANGED <<clock, event, os, changed, guard, read, writing, store, acting, undo, relay, actions,
                     queue, line, asked, unasked, adrift>>
  BY <1>1, LeftIs DEF SharingBase
<1>3. SharingTypes'
  BY <1>2 DEF SharingBase, SharingTypes
<1>4. EventsKnown'
  BY <1>2 DEF SharingBase, EventsKnown, Live
<1> QED BY <1>3, <1>4 DEF SharingBase

(* A host starts again: its queues are empty, and its ends of the connections are
   gone.  What it had sent before is adrift.                                 *)
LEMMA RestartIs ==
    ASSUME SharingTypes, NEW h \in Host, Restart(h)
    PROVE  /\ queue' \in [Dials -> Seq(Frame)] /\ wire' \in [Ends -> Seq(Frame)]
           /\ \A c \in Dials : \A x \in Frames(c)' : x \in Frames(c)
           /\ \A c \in From(h) : \A x \in Frames(c)' : x.guid \in adrift'
           /\ \A c \in Dials : c[1] # h /\ c[2] # h => \A x \in Frames(c) : x \in Frames(c)'
           /\ adrift \subseteq adrift'
           /\ \A g \in adrift' : g \in adrift \/ \E c \in Dials : \E x \in Frames(c) : x.guid = g
           /\ store' \in [Host -> Seq(Entry(EventId))] /\ \A p \in Host : GuidsOnce(store'[p])
           /\ Guids(store'[h]) = {} /\ \A p \in Host : p # h => store'[p] = store[p]
<1>1. /\ wire' = [e \in Ends |-> IF e \in Incoming(h) THEN <<>> ELSE wire[e]]
      /\ queue' = [d \in Dials |-> IF d \in From(h) THEN <<>> ELSE queue[d]]
      /\ store' = [store EXCEPT ![h] = <<>>]
      /\ adrift' = adrift \cup {f.guid : f \in UNION {ToSet(wire[e]) : e \in From(h) \X Serving}}
  BY DEF Restart
<1>2. queue' \in [Dials -> Seq(Frame)] /\ wire' \in [Ends -> Seq(Frame)]
  BY <1>1, EmptyIs DEF SharingTypes
<1>3. store' \in [Host -> Seq(Entry(EventId))] /\ store'[h] = <<>> /\ \A p \in Host : p # h => store'[p] = store[p]
  BY <1>1, EmptyIs DEF SharingTypes
<1>4. ASSUME NEW c \in Dials, NEW x \in Sent(c)'
      PROVE  x \in Sent(c) /\ (c \in From(h) => x.guid \in adrift')
  <2>1. PICK n \in Serving : x \in ToSet(wire'[<<c, n>>])
    BY <1>4 DEF Sent
  <2>2. <<c, n>> \in Ends /\ x \in ToSet(wire[<<c, n>>])
    BY <1>1, <2>1, EmptyIs, EndsAre
  <2>3. c \in From(h) => x.guid \in adrift'
    <3>1. c \in From(h) => <<c, n>> \in From(h) \X Serving
      OBVIOUS
    <3>2. c \in From(h) => x \in UNION {ToSet(wire[e]) : e \in From(h) \X Serving}
      BY <2>2, <3>1
    <3> QED BY <1>1, <3>2
  <2> QED BY <2>2, <2>3 DEF Sent
<1>5. ASSUME NEW c \in Dials, c[2] # h, NEW x \in Sent(c) PROVE x \in Sent(c)'
  <2>1. PICK n \in Serving : x \in ToSet(wire[<<c, n>>])
    BY <1>5 DEF Sent
  <2>2. <<c, n>> \in Ends /\ <<c, n>> \notin Incoming(h)
    BY <1>5, EndsAre DEF Incoming, To
  <2>3. x \in ToSet(wire'[<<c, n>>])
    BY <1>1, <2>1, <2>2
  <2> QED BY <2>3 DEF Sent
<1>6. \A c \in Dials : queue'[c] = IF c \in From(h) THEN <<>> ELSE queue[c]
  BY <1>1
<1>7. \A c \in Dials : \A x \in Frames(c)' : x \in Frames(c)
  BY <1>4, <1>6, EmptyIs DEF Frames
<1>8. ASSUME NEW c \in From(h), NEW x \in Frames(c)' PROVE x.guid \in adrift'
  <2>1. c \in Dials /\ ToSet(queue'[c]) = {}
    BY <1>6, EmptyIs DEF From
  <2> QED BY <1>4, <1>8, <2>1 DEF Frames
<1>9. ASSUME NEW c \in Dials, c[1] # h, c[2] # h, NEW x \in Frames(c) PROVE x \in Frames(c)'
  BY <1>5, <1>6, <1>9 DEF Frames, From
<1>10. ASSUME NEW g \in adrift', g \notin adrift PROVE \E c \in Dials : \E x \in Frames(c) : x.guid = g
  <2>1. PICK x \in UNION {ToSet(wire[e]) : e \in From(h) \X Serving} : x.guid = g
    BY <1>1, <1>10
  <2>2. PICK e \in From(h) \X Serving : x \in ToSet(wire[e])
    BY <2>1
  <2>3. PICK c \in From(h), n \in Serving : e = <<c, n>>
    BY <2>2
  <2>4. c \in Dials /\ x \in Sent(c)
    BY <2>2, <2>3 DEF From, Sent
  <2> QED BY <2>1, <2>4 DEF Frames
<1> QED BY <1>1, <1>2, <1>3, <1>7, <1>8, <1>9, <1>10, EmptyIs DEF SharingTypes

LEMMA BaseRestart ==
    ASSUME SharingBase, NEW h \in Host, Restart(h)
    PROVE  SharingBase'
<1>1. /\ queue' \in [Dials -> Seq(Frame)] /\ wire' \in [Ends -> Seq(Frame)]
      /\ \A c \in Dials : \A x \in Frames(c)' : x \in Frames(c)
      /\ \A g \in adrift' : g \in adrift \/ \E c \in Dials : \E x \in Frames(c) : x.guid = g
      /\ store' \in [Host -> Seq(Entry(EventId))] /\ \A p \in Host : GuidsOnce(store'[p])
      /\ Guids(store'[h]) = {} /\ \A p \in Host : p # h => store'[p] = store[p]
  BY RestartIs DEF SharingBase
<1>2. /\ changed' = changed \ {h}
      /\ guard' = [guard EXCEPT ![h] = None] /\ read' = [read EXCEPT ![h] = None]
      /\ writing' = [writing EXCEPT ![h] = None] /\ acting' = [acting EXCEPT ![h] = None]
      /\ undo' = [undo EXCEPT ![h] = None]
      /\ line' = [d \in Dials |-> IF d \in From(h) THEN None ELSE line[d]]
      /\ serving' = serving \ Incoming(h) /\ asked' = asked \ From(h)
      /\ UNCHANGED <<clock, event, os, relay, actions, unasked>>
  BY DEF Restart
<1>3. adrift' \subseteq DOMAIN event
  BY <1>1 DEF SharingBase, EventsKnown
<1>4. adrift' \subseteq EventId
  BY <1>3, EventIs DEF SharingBase, SharingTypes
<1>5. SharingTypes'
  BY <1>1, <1>2, <1>4 DEF SharingBase, SharingTypes
<1>6. EventsKnown'
  BY <1>1, <1>2, <1>3 DEF SharingBase, SharingTypes, EventsKnown, Live
<1> QED BY <1>5, <1>6 DEF SharingBase

-----------------------------------------------------------------------------
(***************************************************************************)
(* While no user changes a history, nothing that was shared stays missing. *)
(***************************************************************************)
(* Two hosts whose one incoming peer is the other.                          *)
Pair(p, h) == To(h) = {<<p, h>>} /\ To(p) = {<<h, p>>}

(* What a host lists, or what was adrift when a sender started again.       *)
Drifting == {event[g] : g \in adrift}
Found(h) == Contents(h) \cup Drifting

(* Nobody acts on a history; what its guard holds and may be shared, and what it
   puts on its clipboard, the history of a host lists; and so it does what the
   host tells the others of, unless that is adrift.                          *)
Listed ==
    /\ \A h \in Host :
         /\ acting[h] = None
         /\ guard[h] \in Content \ Secret => guard[h] \in Contents(h)
         /\ writing[h] # None => writing[h].guid \in Guids(store[h])
    /\ \A d \in Dials : \A f \in Frames(d) : f.tag = "CLIP" /\ event[f.guid] \in Found(d[1])

(* A dial that was asked for its history when it came in has no earlier connection
   that is still counted.                                                    *)
Alone ==
    \A d \in Dials : line[d] # None /\ d \notin unasked =>
        \A e \in serving : e[1] = d => e = End(d)

(* An event of one host is on its way to the other, or the answer that will
   bring it is still due, or the host did not ask.                           *)
Open(d) == End(d) \in serving /\ d \notin asked /\ d \notin unasked
Due(d, g) == ~Open(d) \/ \E f \in Frames(d) : f.guid = g

Delivered ==
    \A p, h \in Host : Pair(p, h) =>
        \A g \in Guids(store[p]) : event[g] \in Found(h) \/ Due(<<p, h>>, g)

-----------------------------------------------------------------------------
(* No new connection is both unasked for and without an earlier one.        *)
LEMMA AloneSame ==
    ASSUME Alone, UNCHANGED <<line, serving, unasked>>
    PROVE  Alone'
BY DEF Alone, End

LEMMA AloneConnect ==
    ASSUME SharingTypes, Alone, NEW d \in Dials, Connect(d)
    PROVE  Alone'
<1>1. PICK n \in Serving : line' = [line EXCEPT ![d] = n] /\ serving' = serving \cup {<<d, n>>}
  BY ConnectIs
<1>2. \/ Incoming(d[2]) = {} /\ unasked' = unasked \ {d}
      \/ unasked' = unasked \cup {d}
  BY ConnectIs
<1>3. line'[d] = n /\ \A c \in Dials : c # d => line'[c] = line[c]
  BY <1>1 DEF SharingTypes
<1> SUFFICES ASSUME NEW c \in Dials, line'[c] # None, c \notin unasked', NEW e \in serving', e[1] = c
             PROVE  e = <<c, line'[c]>>
  BY DEF Alone, End
<1>4. CASE c = d
  <2>1. Incoming(d[2]) = {}
    BY <1>2, <1>4
  <2>2. e \notin serving
    BY <1>4, <2>1 DEF Incoming, To
  <2> QED BY <1>1, <1>3, <1>4, <2>2
<1>5. CASE c # d
  BY <1>1, <1>2, <1>3, <1>5 DEF Alone, End
<1> QED BY <1>4, <1>5

LEMMA AloneBreak ==
    ASSUME SharingTypes, Alone, NEW d \in Dials, Break(d)
    PROVE  Alone'
<1>1. line' = [line EXCEPT ![d] = None] /\ serving' = serving /\ unasked' = unasked
  BY BreakIs
<1>2. line'[d] = None /\ \A c \in Dials : c # d => line'[c] = line[c]
  BY <1>1 DEF SharingTypes
<1> QED BY <1>1, <1>2 DEF Alone, End

LEMMA AloneLeft ==
    ASSUME SharingTypes, Alone, NEW e \in Ends, OnIncomingPeerLeft(e)
    PROVE  Alone'
<1>1. serving' = serving \ {e} /\ line' = line /\ unasked' = unasked
  BY EndsAre, LeftIs
<1> QED BY <1>1 DEF Alone, End

LEMMA AloneRestart ==
    ASSUME SharingTypes, Alone, NEW h \in Host, Restart(h)
    PROVE  Alone'
<1>1. /\ line' = [d \in Dials |-> IF d \in From(h) THEN None ELSE line[d]]
      /\ serving' = serving \ Incoming(h) /\ unasked' = unasked
  BY DEF Restart
<1>2. \A d \in Dials : line'[d] = None \/ line'[d] = line[d]
  BY <1>1
<1> QED BY <1>1, <1>2 DEF Alone, End

-----------------------------------------------------------------------------
Grows ==
    /\ \A g \in DOMAIN event : g \in DOMAIN event' /\ event'[g] = event[g]
    /\ \A p \in Host : Guids(store[p]) \subseteq Guids(store'[p])
    /\ \A g \in adrift : g \in adrift'

LEMMA ContentsGrow ==
    ASSUME SharingBase, Grows, NEW p \in Host
    PROVE  /\ Contents(p) \subseteq Contents(p)'
           /\ \A g \in Guids(store'[p]) : event'[g] \in Contents(p)'
           /\ \A c \in Contents(p)' : c \in Found(p)'
           /\ \A c \in Found(p) : c \in Found(p)'
<1>1. \A g \in adrift : g \in adrift' /\ event'[g] = event[g]
  BY DEF SharingBase, EventsKnown, Grows
<1>2. \A c \in Drifting : c \in Drifting'
  BY <1>1 DEF Drifting
<1>3. Contents(p) \subseteq Contents(p)'
  BY DEF SharingBase, EventsKnown, Grows, Contents
<1> QED BY <1>2, <1>3 DEF Contents, Found

LEMMA ListedStep ==
    ASSUME SharingBase, Listed, Grows,
           \A p \in Host :
             /\ acting'[p] = None
             /\ guard'[p] = guard[p] \/ guard'[p] \notin Content \ Secret \/ guard'[p] \in Contents(p)'
             /\ writing'[p] # None => writing'[p].guid \in Guids(store'[p]),
           \A d \in Dials : \A f \in Frames(d)' :
             f \in Frames(d) \/ (f.tag = "CLIP" /\ event'[f.guid] \in Contents(d[1])')
    PROVE  Listed'
<1>1. ASSUME NEW p \in Host, guard'[p] \in Content \ Secret
      PROVE  guard'[p] \in Contents(p)'
  BY <1>1, ContentsGrow DEF Listed
<1>2. ASSUME NEW d \in Dials, NEW f \in Frames(d)'
      PROVE  f.tag = "CLIP" /\ event'[f.guid] \in Found(d[1])'
  <2>1. CASE f \in Frames(d)
    <3>1. d[1] \in Host
      BY ClipAssumption
    <3>2. f.guid \in DOMAIN event /\ f.tag = "CLIP" /\ event[f.guid] \in Found(d[1])
      BY <2>1 DEF SharingBase, EventsKnown, Listed
    <3> QED BY <3>1, <3>2, ContentsGrow DEF Grows
  <2> QED BY <1>2, <2>1, ContentsGrow, EndsAre
<1> QED BY <1>1, <1>2 DEF Listed

LEMMA DeliveredStep ==
    ASSUME SharingBase, Listed, Delivered, Grows,
           \A d \in Dials : To(d[2]) = {d} /\ Open(d)' =>
             \/ \A g \in Guids(store'[d[1]]) : \E f \in Frames(d)' : f.guid = g
             \/ /\ Open(d)
                /\ \A f \in Frames(d) : f \in Frames(d)' \/ event'[f.guid] \in Contents(d[2])',
           \A p \in Host : \A g \in Guids(store'[p]) :
             \/ g \in Guids(store[p])
             \/ \A d \in From(p) : \E f \in Frames(d)' : f.guid = g
             \/ \E d \in To(p) : event'[g] \in Found(d[1])'
    PROVE  Delivered'
<1> SUFFICES ASSUME NEW p \in Host, NEW h \in Host, Pair(p, h), NEW g \in Guids(store'[p]),
                    event'[g] \notin Found(h)', Open(<<p, h>>)'
             PROVE  \E f \in Frames(<<p, h>>)' : f.guid = g
  BY DEF Delivered, Due, Pair, To
<1> DEFINE d == <<p, h>>
<1>1. d \in Dials /\ d[1] = p /\ d[2] = h /\ To(d[2]) = {d} /\ d \in From(p)
  BY DEF Pair, To, From
<1>2. CASE g \in Guids(store[p])
  <2>1. event[g] = event'[g] /\ event[g] \notin Found(h)
    BY <1>2, ContentsGrow DEF SharingBase, EventsKnown, Grows
  <2>2. CASE \A e \in Guids(store'[p]) : \E f \in Frames(d)' : f.guid = e
    BY <2>2
  <2>3. CASE /\ Open(d)
             /\ \A f \in Frames(d) : f \in Frames(d)' \/ event'[f.guid] \in Contents(h)'
    <3>1. PICK f \in Frames(d) : f.guid = g
      BY <1>2, <2>1, <2>3 DEF Delivered, Due
    <3> QED BY <1>2, <2>1, <2>3, <3>1, ContentsGrow
  <2> QED BY <1>1, <2>2, <2>3
<1>3. CASE g \notin Guids(store[p])
  <2>1. \A c \in To(p) : c[1] = h
    BY DEF Pair
  <2> QED BY <1>1, <1>3, <2>1
<1> QED BY <1>2, <1>3

(* Steps that change neither a history nor what is under way.               *)
LEMMA OpenSame ==
    ASSUME UNCHANGED <<line, serving, asked, unasked>>
    PROVE  \A d : Open(d)' = Open(d)
BY DEF Open, End

LEMMA SameDelivered ==
    ASSUME SharingBase, Listed,
           UNCHANGED <<event, guard, writing, acting, store, queue, wire, adrift>>
    PROVE  Listed' /\ (Delivered /\ UNCHANGED <<line, serving, asked, unasked>> => Delivered')
<1>1. (\A d : Frames(d)' = Frames(d)) /\ \A h : Found(h)' = Found(h) /\ Contents(h)' = Contents(h)
  BY FramesSame DEF Found, Drifting, Contents
<1>2. Listed'
  BY <1>1 DEF Listed
<1>3. ASSUME Delivered, UNCHANGED <<line, serving, asked, unasked>> PROVE Delivered'
  BY <1>1, <1>3, OpenSame DEF Delivered, Due, Pair, To
<1> QED BY <1>2, <1>3

LEMMA ListsCopy ==
    ASSUME SharingBase, Listed, NEW h \in Host, NEW c \in Content \cup {Unreadable}, Copy(h, c)
    PROVE  Listed' /\ (Delivered => Delivered')
<1>1. UNCHANGED <<event, guard, writing, acting, store, queue, wire, line, serving, asked, unasked, adrift>>
  BY DEF Copy, meshVars, linkVars, lossVars
<1> QED BY <1>1, SameDelivered

LEMMA ListsRead ==
    ASSUME SharingBase, Listed, NEW h \in Host, ReadClipboardData(h)
    PROVE  Listed' /\ (Delivered => Delivered')
<1>1. UNCHANGED <<event, guard, writing, acting, store, queue, wire, line, serving, asked, unasked, adrift>>
  BY DEF ReadClipboardData, meshVars, linkVars, lossVars, userVars
<1> QED BY <1>1, SameDelivered

LEMMA ListsNotification ==
    ASSUME Unlimited, SharingBase, Listed, NEW h \in Host, OnClipboardNotification(h)
    PROVE  Listed' /\ (Delivered => Delivered')
<1>1. CASE guard[h] = read[h].what
  <2>1. UNCHANGED <<event, guard, writing, acting, store, queue, wire, line, serving, asked, unasked, adrift>>
    BY <1>1 DEF OnClipboardNotification, linkVars, lossVars, userVars
  <2> QED BY <2>1, SameDelivered
<1>2. CASE guard[h] # read[h].what
  <2>1. UNCHANGED <<writing, acting, wire, line, serving, asked, unasked, adrift>>
    BY DEF OnClipboardNotification, linkVars, lossVars, userVars
  <2>2. PICK g \in EventId, f \in Frame, b \in Sharable : Publishes(h, g, f, b)
    BY <1>2, PublishIs
  <2>3. /\ Len(event') = g /\ event'[Len(event')] = b
        /\ \A x \in DOMAIN event : event'[x] = event[x] /\ x \in DOMAIN event'
    BY <2>2, EventAdded DEF Publishes, SharingBase, SharingTypes
  <2>4. Grows
    BY <2>1, <2>2, <2>3 DEF Publishes, Grows
  <2>5. g \in Guids(store'[h]) /\ b \in Contents(h)'
    BY <2>2, <2>3 DEF Publishes, Contents
  <2>6. guard'[h] \in Content \ Secret => guard'[h] = b
    BY <2>2 DEF Publishes, SharingBase, SharingTypes
  <2>7. \A p \in Host : p # h => guard'[p] = guard[p]
    BY <2>2 DEF Publishes, SharingBase, SharingTypes
  <2>8. \A d \in Dials : \A x : x \in Frames(d)' <=> x \in Frames(d) \/ (d \in From(h) /\ x = f)
    BY <2>1, <2>2, FramesSame DEF Publishes, Frames
  <2>9. Listed'
    <3>1. \A p \in Host :
             /\ acting'[p] = None
             /\ guard'[p] = guard[p] \/ guard'[p] \notin Content \ Secret \/ guard'[p] \in Contents(p)'
             /\ writing'[p] # None => writing'[p].guid \in Guids(store'[p])
      BY <2>1, <2>4, <2>5, <2>6, <2>7 DEF Listed, Grows
    <3>2. \A d \in Dials : \A x \in Frames(d)' :
             x \in Frames(d) \/ (x.tag = "CLIP" /\ event'[x.guid] \in Contents(d[1])')
      BY <2>2, <2>3, <2>5, <2>8 DEF Publishes, From
    <3> QED BY <2>4, <3>1, <3>2, ListedStep
  <2>10. ASSUME Delivered PROVE Delivered'
    <3>1. \A d \in Dials : To(d[2]) = {d} /\ Open(d)' =>
             /\ Open(d) /\ \A x \in Frames(d) : x \in Frames(d)'
      BY <2>1, <2>8, OpenSame
    <3>2. \A p \in Host : \A e \in Guids(store'[p]) :
             e \in Guids(store[p]) \/ \A d \in From(p) : \E x \in Frames(d)' : x.guid = e
      BY <2>2, <2>8 DEF Publishes, From
    <3> QED BY <2>4, <2>10, <3>1, <3>2, DeliveredStep
  <2> QED BY <2>9, <2>10
<1> QED BY <1>1, <1>2

LEMMA ListsSet ==
    ASSUME SharingBase, Listed, NEW h \in Host, SetClipboardData(h)
    PROVE  Listed' /\ (Delivered => Delivered')
<1>1. UNCHANGED <<event, acting, store, queue, wire, line, serving, asked, unasked, adrift>>
  BY DEF SetClipboardData, meshVars, linkVars, lossVars, userVars
<1>2. Grows
  BY <1>1 DEF Grows
<1>3. writing[h] \in [guid : EventId, put : BOOLEAN] /\ writing[h].guid \in Guids(store[h])
  BY DEF SharingBase, SharingTypes, Listed, SetClipboardData
<1>4. guard' = guard \/ guard' = [guard EXCEPT ![h] = event[writing[h].guid]]
  BY DEF SetClipboardData
<1>5. event[writing[h].guid] \in Contents(h)
  BY <1>3 DEF Contents
<1>6. \A p \in Host : guard'[p] = guard[p] \/ guard'[p] \in Contents(p)'
  BY <1>1, <1>4, <1>5 DEF SharingBase, SharingTypes, Contents
<1>7. \A p \in Host : writing'[p] # None => writing'[p].guid \in Guids(store'[p])
  <2>1. [writing[h] EXCEPT !.put = TRUE].guid = writing[h].guid
    BY <1>3, WriteIs
  <2>2. PICK w : w = [writing[h] EXCEPT !.put = TRUE] /\ w.guid = writing[h].guid
    BY <2>1
  <2>3. writing' = [writing EXCEPT ![h] = None] \/ writing' = [writing EXCEPT ![h] = w]
    BY <2>2 DEF SetClipboardData
  <2> QED BY <1>1, <1>3, <2>2, <2>3 DEF SharingBase, SharingTypes, Listed
<1>8. Listed'
  BY <1>1, <1>2, <1>6, <1>7, FramesSame, ListedStep DEF Listed
<1>9. ASSUME Delivered PROVE Delivered'
  <2>1. \A d \in Dials : To(d[2]) = {d} /\ Open(d)' => Open(d) /\ \A x \in Frames(d) : x \in Frames(d)'
    BY <1>1, FramesSame, OpenSame
  <2>2. \A p \in Host : Guids(store'[p]) = Guids(store[p])
    BY <1>1
  <2> QED BY <1>2, <1>9, <2>1, <2>2, DeliveredStep
<1> QED BY <1>8, <1>9

LEMMA ListsRemember ==
    ASSUME SharingBase, Listed, NEW h \in Host, RememberCurrent(h)
    PROVE  Listed' /\ (Delivered => Delivered')
<1>1. UNCHANGED <<event, acting, store, queue, wire, line, serving, asked, unasked, adrift>>
  BY DEF RememberCurrent, meshVars, linkVars, lossVars, userVars
<1>2. Grows
  BY <1>1 DEF Grows
<1>3. writing[h] \in [guid : EventId, put : BOOLEAN] /\ writing[h].guid \in Guids(store[h])
  BY DEF SharingBase, SharingTypes, Listed, RememberCurrent
<1>4. /\ guard' = [guard EXCEPT ![h] = event[writing[h].guid]]
      /\ writing' = [writing EXCEPT ![h] = None]
  BY DEF RememberCurrent
<1>5. event[writing[h].guid] \in Contents(h)
  BY <1>3 DEF Contents
<1>6. \A p \in Host : guard'[p] = guard[p] \/ guard'[p] \in Contents(p)'
  BY <1>1, <1>4, <1>5 DEF SharingBase, SharingTypes, Contents
<1>7. \A p \in Host : writing'[p] # None => writing'[p].guid \in Guids(store'[p])
  BY <1>1, <1>4 DEF SharingBase, SharingTypes, Listed
<1>8. Listed'
  BY <1>1, <1>2, <1>6, <1>7, FramesSame, ListedStep DEF Listed
<1>9. ASSUME Delivered PROVE Delivered'
  <2>1. \A d \in Dials : To(d[2]) = {d} /\ Open(d)' => Open(d) /\ \A x \in Frames(d) : x \in Frames(d)'
    BY <1>1, FramesSame, OpenSame
  <2>2. \A p \in Host : Guids(store'[p]) = Guids(store[p])
    BY <1>1
  <2> QED BY <1>2, <1>9, <2>1, <2>2, DeliveredStep
<1> QED BY <1>8, <1>9

LEMMA ListsPayloads ==
    ASSUME SharingBase, Listed, NEW c \in Content \ Secret, RelayPayloads(c)
    PROVE  Listed' /\ (Delivered => Delivered')
<1>1. event' = Append(event, c) /\ UNCHANGED <<guard, writing, acting, store, queue, wire, line, serving,
                                               asked, unasked, adrift>>
  BY DEF RelayPayloads, clipVars, meshVars, linkVars, lossVars
<1>2. \A x \in DOMAIN event : event'[x] = event[x] /\ x \in DOMAIN event'
  BY <1>1, EventAdded DEF SharingBase, SharingTypes, Sharable
<1>3. Grows
  BY <1>1, <1>2 DEF Grows
<1>4. Listed'
  BY <1>1, <1>3, FramesSame, ListedStep DEF Listed
<1>5. ASSUME Delivered PROVE Delivered'
  <2>1. \A d \in Dials : To(d[2]) = {d} /\ Open(d)' => Open(d) /\ \A x \in Frames(d) : x \in Frames(d)'
    BY <1>1, FramesSame, OpenSame
  <2> QED BY <1>1, <1>3, <1>5, <2>1, DeliveredStep
<1> QED BY <1>4, <1>5

LEMMA TakesListed ==
    ASSUME SharingBase, Listed, UNCHANGED <<event, adrift>>,
           NEW h \in Host, NEW g \in DOMAIN event, NEW replay \in BOOLEAN, Takes(h, g, replay)
    PROVE  /\ Grows /\ event'[g] \in Contents(h)'
           /\ \A p \in Host : writing'[p] # None => writing'[p].guid \in Guids(store'[p])
           /\ \A p \in Host : \A e \in Guids(store'[p]) : e \in Guids(store[p]) \/ (p = h /\ e = g)
<1>1. event \in Seq(Sharable)
  BY DEF SharingBase, SharingTypes
<1>2. CASE ~replay /\ Live(g) /\ guard[h] = event[g] /\ store' = store /\ writing' = writing
  <2>1. event[g] \in Contents(h)
    BY <1>1, <1>2, EventIs DEF Listed
  <2> QED BY <1>2, <2>1 DEF Grows, Contents, Listed
<1>3. CASE /\ replay \/ ~Live(g) \/ guard[h] # event[g]
           /\ Guids(store'[h]) = Guids(store[h]) \cup {g}
           /\ IF ~replay /\ Live(g) THEN writing'[h] = [guid |-> g, put |-> FALSE]
              ELSE writing' = writing
  <2>1. \A p \in Host : p # h => store'[p] = store[p] /\ writing'[p] = writing[p]
    BY DEF Takes
  <2>2. Grows
    BY <1>3, <2>1 DEF Grows
  <2> QED BY <1>3, <2>1, <2>2 DEF Contents, Listed
<1> QED BY <1>2, <1>3 DEF Takes

LEMMA ListsRelayVia ==
    ASSUME Unlimited, SharingBase, Listed, NEW h \in Host, RelayVia(h)
    PROVE  Listed' /\ (Delivered => Delivered')
<1>1. /\ Live(relay.guid) /\ Takes(h, relay.guid, FALSE)
      /\ UNCHANGED <<event, guard, acting, wire, line, serving, asked, unasked, adrift>>
  BY RelayIs
<1>2. PICK f \in Frame :
        /\ f.tag = "CLIP" /\ f.guid = relay.guid
        /\ \A d \in Dials : \A x :
             x \in ToSet(queue'[d]) <=> x \in ToSet(queue[d]) \/ (d \in From(h) /\ x = f)
  BY RelayIs
<1>3. PICK g \in DOMAIN event : g = relay.guid
  BY <1>1 DEF Live
<1>4. /\ Grows /\ event'[g] \in Contents(h)'
      /\ \A p \in Host : writing'[p] # None => writing'[p].guid \in Guids(store'[p])
      /\ \A p \in Host : \A e \in Guids(store'[p]) : e \in Guids(store[p]) \/ (p = h /\ e = g)
  <2>1. FALSE \in BOOLEAN /\ Takes(h, g, FALSE)
    BY <1>1, <1>3
  <2> QED BY <1>1, <2>1, TakesListed
<1>5. \A d \in Dials : \A x : x \in Frames(d)' <=> x \in Frames(d) \/ (d \in From(h) /\ x = f)
  BY <1>1, <1>2, FramesSame DEF Frames
<1>6. Listed'
  <2>1. \A p \in Host :
           /\ acting'[p] = None
           /\ guard'[p] = guard[p] \/ guard'[p] \notin Content \ Secret \/ guard'[p] \in Contents(p)'
           /\ writing'[p] # None => writing'[p].guid \in Guids(store'[p])
    BY <1>1, <1>4 DEF Listed
  <2>2. \A d \in Dials : \A x \in Frames(d)' :
           x \in Frames(d) \/ (x.tag = "CLIP" /\ event'[x.guid] \in Contents(d[1])')
    BY <1>2, <1>3, <1>4, <1>5 DEF From
  <2> QED BY <1>4, <2>1, <2>2, ListedStep
<1>7. ASSUME Delivered PROVE Delivered'
  <2>1. \A d \in Dials : To(d[2]) = {d} /\ Open(d)' =>
           /\ Open(d) /\ \A x \in Frames(d) : x \in Frames(d)'
    BY <1>1, <1>5, OpenSame
  <2>2. \A p \in Host : \A e \in Guids(store'[p]) :
           e \in Guids(store[p]) \/ \A d \in From(p) : \E x \in Frames(d)' : x.guid = e
    BY <1>2, <1>3, <1>4, <1>5 DEF From
  <2> QED BY <1>4, <1>7, <2>1, <2>2, DeliveredStep
<1> QED BY <1>6, <1>7

LEMMA ListsReceive ==
    ASSUME Unlimited, SharingBase, Listed, NEW e \in Ends, Receive(e)
    PROVE  Listed' /\ (Delivered => Delivered')
<1>0. PICK d \in Dials : d = e[1]
  BY EndsAre
<1>1. /\ d[1] \in Host /\ d[2] \in Host
      /\ UNCHANGED <<event, guard, acting, line, serving, asked, unasked, adrift>>
  BY <1>0, ReceiveIs
<1>2. PICK f \in Frame :
        /\ f \in Frames(d) /\ f.guid \in DOMAIN event
        /\ \A c \in Dials : \A x : x \in Frames(c) <=> x \in Frames(c)' \/ (c = d /\ x = f)
        /\ \/ f.tag = "CLIP" /\ f.replay \in BOOLEAN /\ Takes(d[2], f.guid, f.replay)
           \/ f.tag = "CDEL"
  BY <1>0, ReceiveIs
<1>3. f.tag = "CLIP" /\ event[f.guid] \in Found(d[1])
  BY <1>2 DEF Listed
<1>4. PICK g \in DOMAIN event, replay \in BOOLEAN : g = f.guid /\ replay = f.replay
  BY <1>2, <1>3
<1>5. /\ Grows /\ event'[g] \in Contents(d[2])'
      /\ \A p \in Host : writing'[p] # None => writing'[p].guid \in Guids(store'[p])
      /\ \A p \in Host : \A x \in Guids(store'[p]) : x \in Guids(store[p]) \/ (p = d[2] /\ x = g)
  <2>1. PICK h \in Host : h = d[2]
    BY <1>1
  <2>2. Takes(h, g, replay)
    BY <1>2, <1>3, <1>4, <2>1
  <2>3. Grows /\ event'[g] \in Contents(h)'
    BY <1>1, <2>2, TakesListed
  <2>4. \A p \in Host : writing'[p] # None => writing'[p].guid \in Guids(store'[p])
    BY <1>1, <2>2, TakesListed
  <2>5. \A p \in Host : \A x \in Guids(store'[p]) : x \in Guids(store[p]) \/ (p = h /\ x = g)
    BY <1>1, <2>2, TakesListed
  <2> QED BY <2>1, <2>3, <2>4, <2>5
<1>6. Listed'
  <2>1. \A p \in Host :
           /\ acting'[p] = None
           /\ guard'[p] = guard[p] \/ guard'[p] \notin Content \ Secret \/ guard'[p] \in Contents(p)'
           /\ writing'[p] # None => writing'[p].guid \in Guids(store'[p])
    BY <1>1, <1>5 DEF Listed
  <2> QED BY <1>2, <1>5, <2>1, ListedStep
<1>7. ASSUME Delivered PROVE Delivered'
  <2>1. \A c \in Dials : To(c[2]) = {c} /\ Open(c)' =>
           /\ Open(c)
           /\ \A x \in Frames(c) : x \in Frames(c)' \/ event'[x.guid] \in Contents(c[2])'
    <3>1. \A c \in Dials : \A x \in Frames(c) : x \in Frames(c)' \/ (c = d /\ x.guid = g)
      BY <1>2, <1>4
    <3> QED BY <1>1, <1>5, <3>1, OpenSame
  <2>2. event'[g] \in Found(d[1])' /\ d \in To(d[2])
    BY <1>1, <1>3, <1>4, <1>5, ContentsGrow DEF To
  <2>3. \A p \in Host : \A x \in Guids(store'[p]) :
           x \in Guids(store[p]) \/ \E c \in To(p) : event'[x] \in Found(c[1])'
    BY <1>5, <2>2
  <2> QED BY <1>5, <1>7, <2>1, <2>3, DeliveredStep
<1> QED BY <1>6, <1>7

LEMMA ListsConnect ==
    ASSUME SharingBase, Listed, NEW d \in Dials, Connect(d)
    PROVE  Listed' /\ (Delivered => Delivered')
<1>1. UNCHANGED <<event, guard, writing, acting, store, queue, wire, adrift>>
  BY ConnectIs
<1>2. Listed'
  BY <1>1, SameDelivered
<1>3. ASSUME Delivered PROVE Delivered'
  <2>1. PICK n \in Serving : line' = [line EXCEPT ![d] = n] /\ serving' = serving \cup {<<d, n>>}
    BY ConnectIs
  <2>2. d \in asked' \/ d \in unasked'
    BY ConnectIs
  <2>3. ASSUME NEW c \in Dials, c # d
        PROVE  line'[c] = line[c] /\ (c \in asked' <=> c \in asked) /\ (c \in unasked' <=> c \in unasked)
    <3>1. line'[c] = line[c]
      BY <2>1, <2>3 DEF SharingBase, SharingTypes
    <3>2. \/ asked' = asked \cup {d} /\ unasked' = unasked \ {d}
          \/ unasked' = unasked \cup {d} /\ asked' = asked
      BY ConnectIs
    <3> QED BY <2>3, <3>1, <3>2
  <2>4. \A c \in Dials : Open(c)' => Open(c)
    <3> SUFFICES ASSUME NEW c \in Dials, Open(c)' PROVE Open(c)
      OBVIOUS
    <3>1. c # d
      BY <2>2 DEF Open
    <3>2. End(c)' = End(c) /\ End(c) # <<d, n>>
      BY <2>3, <3>1 DEF End
    <3> QED BY <2>1, <2>3, <3>1, <3>2 DEF Open
  <2>5. Grows
    BY <1>1 DEF Grows
  <2> QED BY <1>1, <1>3, <2>4, <2>5, FramesSame, DeliveredStep
<1> QED BY <1>2, <1>3

LEMMA ListsDrain ==
    ASSUME SharingBase, Listed, NEW d \in Dials, DrainOutboundMessages(d)
    PROVE  Listed' /\ (Delivered => Delivered')
<1>1. /\ \A c \in Dials : \A x \in Frames(c)' : x \in Frames(c)
      /\ \A c \in Dials : c # d \/ End(d) \in serving => \A x \in Frames(c) : x \in Frames(c)'
  BY DrainIs DEF SharingBase
<1>2. UNCHANGED <<event, guard, writing, acting, store, line, serving, asked, unasked, adrift>>
  BY DEF DrainOutboundMessages, clipVars, userVars, lossVars
<1>3. Grows
  BY <1>2 DEF Grows
<1>4. Listed'
  BY <1>1, <1>2, <1>3, ListedStep DEF Listed
<1>5. ASSUME Delivered PROVE Delivered'
  <2>1. \A c \in Dials : Open(c)' => Open(c) /\ \A x \in Frames(c) : x \in Frames(c)'
    BY <1>1, <1>2, OpenSame DEF Open
  <2> QED BY <1>2, <1>3, <1>5, <2>1, DeliveredStep
<1> QED BY <1>4, <1>5

LEMMA ListsBreak ==
    ASSUME SharingBase, Listed, NEW d \in Dials, Break(d)
    PROVE  Listed' /\ (Delivered => Delivered')
<1>1. /\ \A c \in Dials : \A x \in Frames(c)' : x \in Frames(c)
      /\ \A c \in Dials : c # d => Frames(c)' = Frames(c)
  BY BreakIs DEF SharingBase
<1>2. /\ UNCHANGED <<event, guard, writing, acting, store, serving, unasked, adrift>>
      /\ line' = [line EXCEPT ![d] = None] /\ asked' = asked \ {d}
  BY BreakIs DEF SharingBase
<1>3. Grows
  BY <1>2 DEF Grows
<1>4. Listed'
  BY <1>1, <1>2, <1>3, ListedStep DEF Listed
<1>5. ASSUME Delivered PROVE Delivered'
  <2>1. line'[d] = None /\ \A c \in Dials : c # d => line'[c] = line[c] /\ (c \in asked' <=> c \in asked)
    BY <1>2 DEF SharingBase, SharingTypes
  <2>2. \A c \in Dials : Open(c)' => Open(c) /\ \A f \in Frames(c) : f \in Frames(c)'
    <3> SUFFICES ASSUME NEW c \in Dials, Open(c)' PROVE Open(c) /\ \A f \in Frames(c) : f \in Frames(c)'
      OBVIOUS
    <3>1. <<d, None>> \notin serving
      BY ClipAssumption DEF SharingBase, SharingTypes, Ends
    <3>2. c # d
      BY <1>2, <2>1, <3>1 DEF Open, End
    <3> QED BY <1>1, <1>2, <2>1, <3>2 DEF Open, End
  <2> QED BY <1>2, <1>3, <1>5, <2>2, DeliveredStep
<1> QED BY <1>4, <1>5

(* The serving end of a connection goes: the dial will be back, or is back already
   and was not asked.                                                        *)
LEMMA ListsLeft ==
    ASSUME SharingBase, Listed, Alone, NEW e \in Ends, OnIncomingPeerLeft(e)
    PROVE  Listed' /\ (Delivered => Delivered')
<1>1. PICK d \in Dials : d = e[1]
  BY EndsAre
<1>2. /\ e \in serving /\ serving' = serving \ {e}
      /\ \A c \in Dials : \A x \in Frames(c)' : x \in Frames(c)
      /\ \A c \in Dials : c # d => Frames(c)' = Frames(c)
      /\ UNCHANGED <<event, guard, writing, acting, store, line, asked, unasked, adrift>>
  BY <1>1, LeftIs DEF SharingBase
<1>3. Grows
  BY <1>2 DEF Grows
<1>4. Listed'
  BY <1>2, <1>3, ListedStep DEF Listed
<1>5. ASSUME Delivered PROVE Delivered'
  <2>1. \A c \in Dials : Open(c)' => Open(c)
    BY <1>2 DEF Open, End
  <2>2. ~Open(d)'
    <3> SUFFICES ASSUME Open(d), End(d) # e PROVE FALSE
      BY <1>2 DEF Open, End
    <3>1. line[d] # None
      BY EndsAre DEF Open, SharingBase, SharingTypes
    <3> QED BY <1>1, <1>2, <3>1 DEF Open, Alone
  <2>3. \A c \in Dials : Open(c)' => Open(c) /\ \A f \in Frames(c) : f \in Frames(c)'
    BY <1>2, <2>1, <2>2
  <2> QED BY <1>2, <1>3, <1>5, <2>3, DeliveredStep
<1> QED BY <1>4, <1>5

(* The host that starts again lists nothing, and the ends of its connections are
   gone; the others list and await what they did.                            *)
LEMMA ListsRestart ==
    ASSUME SharingBase, Listed, NEW h \in Host, Restart(h)
    PROVE  Listed' /\ (Delivered => Delivered')
<1>1. /\ \A c \in Dials : \A x \in Frames(c)' : x \in Frames(c)
      /\ \A c \in From(h) : \A x \in Frames(c)' : x.guid \in adrift'
      /\ \A c \in Dials : c[1] # h /\ c[2] # h => \A x \in Frames(c) : x \in Frames(c)'
      /\ adrift \subseteq adrift'
      /\ Guids(store'[h]) = {} /\ \A p \in Host : p # h => store'[p] = store[p]
  BY RestartIs DEF SharingBase
<1>2. /\ guard' = [guard EXCEPT ![h] = None]
      /\ writing' = [writing EXCEPT ![h] = None] /\ acting' = [acting EXCEPT ![h] = None]
      /\ line' = [d \in Dials |-> IF d \in From(h) THEN None ELSE line[d]]
      /\ serving' = serving \ Incoming(h) /\ asked' = asked \ From(h)
      /\ event' = event /\ unasked' = unasked
  BY DEF Restart
<1>3. Drifting \subseteq Drifting' /\ \A g \in adrift' : event'[g] \in Drifting'
  BY <1>1, <1>2 DEF Drifting
<1>4. \A p \in Host : p # h => Contents(p)' = Contents(p)
  BY <1>1, <1>2 DEF Contents
<1>5. \A p \in Host : p # h => \A c \in Found(p) : c \in Found(p)'
  BY <1>3, <1>4 DEF Found
<1>6. \A p \in Host :
         /\ acting'[p] = None
         /\ guard'[p] = (IF p = h THEN None ELSE guard[p])
         /\ writing'[p] = (IF p = h THEN None ELSE writing[p])
  BY <1>2 DEF SharingBase, SharingTypes, Listed
<1>7. Listed'
  <2>1. \A p \in Host :
           /\ guard'[p] \in Content \ Secret => guard'[p] \in Contents(p)'
           /\ writing'[p] # None => writing'[p].guid \in Guids(store'[p])
    BY <1>1, <1>4, <1>6, ClipAssumption DEF Listed
  <2>2. ASSUME NEW d \in Dials, NEW f \in Frames(d)'
        PROVE  f.tag = "CLIP" /\ event'[f.guid] \in Found(d[1])'
    <3>1. f \in Frames(d) /\ d[1] \in Host
      BY <1>1, <2>2, EndsAre
    <3>2. f.tag = "CLIP" /\ event[f.guid] \in Found(d[1])
      BY <3>1 DEF Listed
    <3>3. d[1] = h => event'[f.guid] \in Drifting'
      BY <1>1, <1>3, <2>2 DEF From
    <3> QED BY <1>2, <1>5, <3>1, <3>2, <3>3 DEF Found
  <2> QED BY <1>6, <2>1, <2>2 DEF Listed
<1>8. ASSUME Delivered PROVE Delivered'
  <2> SUFFICES ASSUME NEW p \in Host, NEW q \in Host, Pair(p, q), NEW g \in Guids(store'[p]),
                      event'[g] \notin Found(q)', Open(<<p, q>>)'
               PROVE  \E f \in Frames(<<p, q>>)' : f.guid = g
    BY DEF Delivered, Due, Pair, To
  <2> DEFINE d == <<p, q>>
  <2>1. d \in Dials /\ d[1] = p /\ d[2] = q /\ p # h
    BY <1>1 DEF Pair, To
  <2>2. d \notin From(h) /\ line'[d] = line[d]
    BY <1>2, <2>1 DEF From
  <2>3. End(d)' = End(d) /\ End(d) \in serving /\ End(d) \notin Incoming(h)
    BY <1>2, <2>2 DEF Open, End
  <2>4. q # h
    BY <2>1, <2>3 DEF Incoming, To, End
  <2>5. Open(d)
    BY <1>2, <2>2, <2>3 DEF Open
  <2>6. g \in Guids(store[p]) /\ event[g] \notin Found(q)
    BY <1>1, <1>2, <1>5, <2>1, <2>4
  <2>7. PICK f \in Frames(d) : f.guid = g
    BY <1>8, <2>5, <2>6 DEF Delivered, Due
  <2> QED BY <1>1, <2>1, <2>4, <2>7
<1> QED BY <1>7, <1>8

(* A list in which every event stands once is no longer than there are events. *)
LEMMA ListFits ==
    ASSUME SharingBase, NEW h \in Host
    PROVE  Len(store[h]) <= Len(event)
<1> DEFINE list == store[h]
           at == [i \in 1..Len(list) |-> list[i].guid]
<1>1. list \in Seq(Entry(EventId)) /\ GuidsOnce(list) /\ event \in Seq(Sharable)
  BY DEF SharingBase, SharingTypes
<1>2. Len(list) \in Nat /\ DOMAIN list = 1..Len(list) /\ Len(event) \in Nat /\ DOMAIN event = 1..Len(event)
  BY <1>1, LenProperties
<1>3. \A i \in 1..Len(list) : at[i] \in 1..Len(event)
  BY <1>2, EntryKnown
<1>4. \A i, j \in 1..Len(list) : i # j => at[i] # at[j]
  BY <1>1, <1>2 DEF GuidsOnce
<1>5. at \in [1..Len(list) -> 1..Len(event)]
  BY <1>3
<1> HIDE DEF at, list
<1>6. PICK m \in Nat, n \in Nat : m = Len(list) /\ n = Len(event)
  BY <1>2
<1>7. /\ IsFiniteSet(1..m) /\ Cardinality(1..m) = m
      /\ IsFiniteSet(1..n) /\ Cardinality(1..n) = n
  <2>1. 1 \in Int /\ m \in Int /\ n \in Int
    OBVIOUS
  <2>2. /\ IsFiniteSet(1..m) /\ Cardinality(1..m) = IF 1 > m THEN 0 ELSE m - 1 + 1
    BY <2>1, FS_Interval
  <2>3. /\ IsFiniteSet(1..n) /\ Cardinality(1..n) = IF 1 > n THEN 0 ELSE n - 1 + 1
    BY <2>1, FS_Interval
  <2> QED BY <2>2, <2>3
<1>8. ~(n < m)
  <2> SUFFICES ASSUME n < m PROVE FALSE
    OBVIOUS
  <2>1. Cardinality(1..n) < Cardinality(1..m)
    BY <1>7
  <2>2. at \in [1..m -> 1..n]
    BY <1>5, <1>6
  <2>3. \E x, y \in 1..m : x # y /\ at[x] = at[y]
    BY <1>7, <2>1, <2>2, FS_PigeonHole
  <2> QED BY <1>4, <1>6, <2>3
<1> QED BY <1>6, <1>8 DEF list

LEMMA ListsAnswer ==
    ASSUME SharingBase, Listed, NEW d \in Dials, AnswerSync(d)
    PROVE  Listed' /\ (Len(event) <= SyncItems /\ Delivered => Delivered')
<1>1. /\ \A c \in Dials : c # d => Sent(c)' = Sent(c)
      /\ \A x \in Sent(d) : x \in Sent(d)'
      /\ \A x \in Sent(d)' : x \in Sent(d) \/ (x.guid \in Guids(store[d[1]]) /\ x.tag = "CLIP")
      /\ End(d) \in serving /\ Len(store[d[1]]) <= SyncItems =>
           \A g \in Guids(store[d[1]]) : \E x \in Sent(d)' : x.tag = "CLIP" /\ x.guid = g
  BY AnswerIs DEF SharingBase
<1>2. asked' = asked \ {d} /\ UNCHANGED <<event, guard, writing, acting, store, queue, line, serving, unasked,
                                          adrift>>
  BY DEF AnswerSync, clipVars, userVars, lossVars
<1>3. Grows /\ d[1] \in Host
  BY <1>2, ClipAssumption DEF Grows
<1>4. \A c \in Dials : \A f \in Frames(c) : f \in Frames(c)'
  BY <1>1, <1>2 DEF Frames
<1>5. Listed'
  <2>1. \A c \in Dials : \A f \in Frames(c)' :
          f \in Frames(c) \/ (f.tag = "CLIP" /\ event'[f.guid] \in Contents(c[1])')
    BY <1>1, <1>2 DEF Frames, Contents
  <2> QED BY <1>2, <1>3, <2>1, ListedStep DEF Listed
<1>6. ASSUME Len(event) <= SyncItems, Delivered PROVE Delivered'
  <2>1. Len(store[d[1]]) <= SyncItems
    <3>1. Len(store[d[1]]) \in Nat /\ Len(event) \in Nat /\ SyncItems \in Nat
      BY <1>3, LenProperties, ClipAssumption DEF SharingBase, SharingTypes
    <3> QED BY <1>3, <1>6, <3>1, ListFits
  <2>2. End(d) \in serving => \A g \in Guids(store'[d[1]]) : \E f \in Frames(d)' : f.guid = g
    BY <1>1, <1>2, <2>1 DEF Frames
  <2>3. \A c \in Dials : To(c[2]) = {c} /\ Open(c)' =>
          \/ \A g \in Guids(store'[c[1]]) : \E f \in Frames(c)' : f.guid = g
          \/ Open(c) /\ \A f \in Frames(c) : f \in Frames(c)'
    <3>1. \A c \in Dials : c # d => (Open(c)' => Open(c))
      BY <1>2 DEF Open, End
    <3>2. Open(d)' => End(d) \in serving
      BY <1>2 DEF Open, End
    <3> QED BY <1>4, <2>2, <3>1, <3>2
  <2> QED BY <1>2, <1>3, <1>6, <2>3, DeliveredStep
<1> QED BY <1>5, <1>6

-----------------------------------------------------------------------------
(* While no user changes a history: what is known and what is due, as long as
   one answer can hold all the events there were.                           *)
ReplayInv ==
    /\ actions \in Nat
    /\ Unlimited /\ actions = 0 =>
         SharingBase /\ Listed /\ Alone /\ (Len(event) <= SyncItems => Delivered)

LEMMA ReplayInit == SharingInit => ReplayInv
<1> SUFFICES ASSUME SharingInit PROVE ReplayInv
  OBVIOUS
<1>1. SharingBase /\ actions = 0
  BY BaseInit DEF SharingInit
<1>2. /\ guard = [h \in Host |-> None] /\ writing = [h \in Host |-> None] /\ acting = [h \in Host |-> None]
      /\ store = [h \in Host |-> <<>>]
  BY DEF SharingInit
<1>3. Listed
  <2>1. \A d \in Dials : Frames(d) = {}
    BY NoFrames DEF SharingInit
  <2> QED BY <1>2, <2>1, ClipAssumption DEF Listed
<1>5. Alone
  BY EndsAre DEF SharingInit, Alone, End
<1>4. Delivered
  BY <1>2, EmptyIs DEF Delivered
<1> QED BY <1>1, <1>3, <1>4, <1>5 DEF ReplayInv

LEMMA EventsGrow ==
    ASSUME Unlimited, SharingBase, SharingNext
    PROVE  Len(event') <= SyncItems => Len(event) <= SyncItems
<1>1. event \in Seq(Sharable) /\ Len(event) \in Nat /\ SyncItems \in Nat
  BY LenProperties, ClipAssumption DEF SharingBase, SharingTypes
<1>2. CASE \E h \in Host : OnClipboardNotification(h) /\ guard[h] # read[h].what
  <2>1. PICK h \in Host : OnClipboardNotification(h) /\ guard[h] # read[h].what
    BY <1>2
  <2>2. PICK g \in EventId, f \in Frame, b \in Sharable : Publishes(h, g, f, b)
    BY <2>1, PublishIs
  <2>3. Len(event') = Len(event) + 1
    BY <1>1, <2>2, EventAdded DEF Publishes
  <2> QED BY <1>1, <2>3
<1>3. CASE \E c \in Content \ Secret : RelayPayloads(c)
  <2>1. PICK c \in Content \ Secret : event' = Append(event, c)
    BY <1>3 DEF RelayPayloads
  <2>2. Len(event') = Len(event) + 1
    BY <1>1, <2>1, EventAdded DEF Sharable
  <2> QED BY <1>1, <2>2
<1>4. CASE event' = event
  BY <1>4
<1> QED BY <1>2, <1>3, <1>4 DEF SharingNext, Copy, ReadClipboardData, OnClipboardNotification, linkVars,
   lossVars, SetClipboardData, RememberCurrent, ReshareActivityItem, DeleteActivityItemEverywhere,
   ApplyAndBroadcastPayload, TryUndoDelete, RelayVia, Restart, Connect, DrainOutboundMessages, AnswerSync,
   Receive, Break, OnIncomingPeerLeft, clipVars

(* Every step is a user's change to a history, the second half of one, or keeps
   what is listed and due.                                                   *)
LEMMA ReplayStep == ReplayInv /\ [SharingNext]_sharingVars => ReplayInv'
<1> SUFFICES ASSUME ReplayInv, [SharingNext]_sharingVars PROVE ReplayInv'
  OBVIOUS
<1> DEFINE Keeps == /\ SharingBase' /\ Listed' /\ Alone'
                    /\ Len(event) <= SyncItems /\ Delivered => Delivered'
<1>1. actions \in Nat
  BY DEF ReplayInv
<1>2. CASE UNCHANGED sharingVars
  <2>1. UNCHANGED <<clock, event, os, changed, guard, read, writing, acting, store, undo, queue, wire, line,
                    serving, asked, unasked, adrift, relay, actions>>
    BY <1>2 DEF sharingVars, clipVars, userVars, meshVars, linkVars, lossVars
  <2>2. SharingBase => SharingBase'
    <3>1. SharingTypes => SharingTypes'
      BY <2>1 DEF SharingTypes
    <3>2. EventsKnown => EventsKnown'
      BY <2>1, SameKnown DEF Undertaken
    <3> QED BY <3>1, <3>2 DEF SharingBase
  <2>3. SharingBase /\ Listed => Listed' /\ (Delivered => Delivered')
    BY <2>1, SameDelivered
  <2> QED BY <2>1, <2>2, <2>3, AloneSame DEF ReplayInv, Unlimited
<1>3. CASE SharingNext
  <2>1. actions' = actions \/ actions' = actions + 1
    BY <1>3 DEF SharingNext, Copy, ReadClipboardData, OnClipboardNotification, linkVars, lossVars,
       SetClipboardData, RememberCurrent, ReshareActivityItem, DeleteActivityItemEverywhere,
       ApplyAndBroadcastPayload, TryUndoDelete, UserActs, RelayVia, Restart, RelayPayloads, Connect,
       DrainOutboundMessages, AnswerSync, Receive, Break, OnIncomingPeerLeft, userVars
  <2>2. ASSUME Unlimited, actions' = 0 PROVE Keeps /\ SharingBase
    <3>1. actions = 0 /\ actions' # actions + 1 /\ SharingBase /\ Listed /\ Alone /\ SharingTypes
      BY <1>1, <2>1, <2>2 DEF ReplayInv, SharingBase
    <3>0. UNCHANGED <<line, serving, unasked>> => Alone'
      BY <3>1, AloneSame
    <3>2. ASSUME NEW h \in Host, NEW c \in Content \cup {Unreadable}, Copy(h, c) PROVE Keeps
      BY <3>0, <3>1, <3>2, BaseCopy, ListsCopy DEF Copy, meshVars, linkVars, lossVars
    <3>3. ASSUME NEW h \in Host, ReadClipboardData(h) PROVE Keeps
      BY <3>0, <3>1, <3>3, BaseRead, ListsRead DEF ReadClipboardData, meshVars, linkVars, lossVars
    <3>4. ASSUME NEW h \in Host, OnClipboardNotification(h) PROVE Keeps
      BY <2>2, <3>0, <3>1, <3>4, BaseNotification, ListsNotification DEF OnClipboardNotification, linkVars,
         lossVars
    <3>5. ASSUME NEW h \in Host, SetClipboardData(h) PROVE Keeps
      BY <3>0, <3>1, <3>5, BaseSet, ListsSet DEF SetClipboardData, meshVars, linkVars, lossVars
    <3>6. ASSUME NEW h \in Host, RememberCurrent(h) PROVE Keeps
      BY <3>0, <3>1, <3>6, BaseRemember, ListsRemember DEF RememberCurrent, meshVars, linkVars, lossVars
    <3>7. ASSUME NEW h \in Host, RelayVia(h) PROVE Keeps
      BY <2>2, <3>0, <3>1, <3>7, BaseRelayVia, ListsRelayVia DEF RelayVia, linkVars, lossVars
    <3>8. ASSUME NEW h \in Host, Restart(h) PROVE Keeps
      BY <3>1, <3>8, BaseRestart, ListsRestart, AloneRestart
    <3>9. ASSUME NEW c \in Content \ Secret, RelayPayloads(c) PROVE Keeps
      BY <3>0, <3>1, <3>9, BaseRelayPayloads, ListsPayloads DEF RelayPayloads, meshVars, linkVars, lossVars
    <3>10. ASSUME NEW d \in Dials, Connect(d) PROVE Keeps
      BY <3>1, <3>10, BaseConnect, ListsConnect, AloneConnect
    <3>11. ASSUME NEW d \in Dials, DrainOutboundMessages(d) PROVE Keeps
      BY <3>0, <3>1, <3>11, BaseDrain, ListsDrain DEF DrainOutboundMessages, lossVars
    <3>12. ASSUME NEW d \in Dials, AnswerSync(d) PROVE Keeps
      BY <3>0, <3>1, <3>12, BaseAnswer, ListsAnswer DEF AnswerSync, lossVars
    <3>13. ASSUME NEW e \in Ends, Receive(e) PROVE Keeps
      BY <2>2, <3>0, <3>1, <3>13, BaseReceive, ListsReceive DEF Receive, lossVars
    <3>14. ASSUME NEW d \in Dials, Break(d) PROVE Keeps
      BY <3>1, <3>14, BaseBreak, ListsBreak, AloneBreak
    <3>16. ASSUME NEW e \in Ends, OnIncomingPeerLeft(e) PROVE Keeps
      BY <3>1, <3>16, BaseLeft, ListsLeft, AloneLeft
    <3>15. \A h \in Host : /\ ~ApplyAndBroadcastPayload(h) /\ ~TryUndoDelete(h)
                          /\ \A i \in DOMAIN store[h] :
                               ~ReshareActivityItem(h, i) /\ ~DeleteActivityItemEverywhere(h, i)
      BY <3>1 DEF Listed, ApplyAndBroadcastPayload, linkVars, lossVars, TryUndoDelete, ReshareActivityItem,
         DeleteActivityItemEverywhere, UserActs
    <3> HIDE DEF Keeps
    <3> QED BY <1>3, <3>1, <3>2, <3>3, <3>4, <3>5, <3>6, <3>7, <3>8, <3>9, <3>10, <3>11, <3>12,
               <3>13, <3>14, <3>15, <3>16 DEF SharingNext
  <2>3. actions' \in Nat
    BY <1>1, <2>1
  <2>4. ASSUME Unlimited, actions' = 0, Len(event') <= SyncItems
        PROVE  Delivered'
    <3>1. actions = 0
      BY <1>1, <2>1, <2>4
    <3> QED BY <1>3, <2>2, <2>4, <3>1, EventsGrow DEF ReplayInv
  <2> QED BY <2>2, <2>3, <2>4 DEF ReplayInv, Unlimited
<1> QED BY <1>2, <1>3

(* With nothing on its way and nothing asked, what was due has come, but for what
   was adrift and what was not asked for.                                    *)
LEMMA ReplayedWhenQuiet == ReplayInv => LossesAreReplayed
<1> SUFFICES ASSUME ReplayInv, actions = 0, Quiet, Unlimited, Len(event) <= SyncItems,
                    NEW h \in Host, NEW p \in Host, To(h) = {<<p, h>>}, To(p) = {<<h, p>>},
                    <<p, h>> \notin unasked
             PROVE  Contents(p) \subseteq Found(h)
  BY DEF LossesAreReplayed, Found, Drifting
<1>1. Delivered /\ Pair(p, h)
  BY DEF ReplayInv, Pair
<1> DEFINE d == <<p, h>>
<1>2. d \in Dials
  BY DEF To
<1>3. Frames(d) = {}
  BY <1>2, NoFrames DEF Quiet
<1>4. Open(d)
  BY <1>2 DEF Quiet, Open
<1>5. \A g \in Guids(store[p]) : event[g] \in Found(h)
  BY <1>1, <1>3, <1>4 DEF Delivered, Due
<1> QED BY <1>5 DEF Contents

(* Of two hosts whose one incoming peer is the other each lists, when all is at
   rest, the contents the other does: what a broken connection, a dropped peer or
   a restart lost, the answer to the SYNC of whoever comes back brings again,
   unless the host still counted the earlier connection and did not ask, or the
   sender started again while what it had sent was unread.                   *)
THEOREM LossesReplayed == SharingSpec => []LossesAreReplayed
<1>1. SharingInit => ReplayInv
  BY ReplayInit
<1>2. ReplayInv /\ [SharingNext]_sharingVars => ReplayInv'
  BY ReplayStep
<1>3. ReplayInv => LossesAreReplayed
  BY ReplayedWhenQuiet
<1> QED BY <1>1, <1>2, <1>3, PTL DEF SharingSpec

-----------------------------------------------------------------------------
(***************************************************************************)
(* Users who wait for each other.  The steps of the user interface first.  *)
(***************************************************************************)
Action == [guid : EventId, stamp : Nat]

(* One history gains an event; one host's peers are told something.         *)
Adds(h, g) ==
    /\ store' \in [Host -> Seq(Entry(EventId))] /\ \A p \in Host : GuidsOnce(store'[p])
    /\ \A p \in Host : p # h => store'[p] = store[p]
    /\ Guids(store'[h]) = Guids(store[h]) \cup {g}

Tells(h, f) ==
    /\ f \in Frame /\ queue' \in [Dials -> Seq(Frame)]
    /\ \A d \in Dials : \A x : x \in ToSet(queue'[d]) <=> x \in ToSet(queue[d]) \/ (d \in From(h) /\ x = f)

LEMMA AddsOne ==
    ASSUME Unlimited, SharingTypes, NEW h \in Host, NEW g \in EventId, NEW stamp \in Nat,
           store' = [store EXCEPT ![h] = Added(@, g, stamp)]
    PROVE  Adds(h, g)
BY AddedTo DEF Adds

LEMMA TellsClip ==
    ASSUME SharingTypes, NEW h \in Host, NEW g \in EventId, NEW stamp \in Nat, NEW replay \in BOOLEAN,
           Broadcast(h, Clip(g, stamp, replay))
    PROVE  \E f \in Frame : /\ Tells(h, f) /\ f.tag = "CLIP" /\ f.guid = g /\ f.replay = replay
<1>1. PICK f \in Frame : f = Clip(g, stamp, replay) /\ f.tag = "CLIP" /\ f.guid = g /\ f.replay = replay
  BY DEF Clip, Frame
<1>2. Broadcast(h, f)
  BY <1>1
<1>3. Tells(h, f)
  BY <1>2, BroadcastIs DEF Tells
<1> QED BY <1>1, <1>3

(* Sharing again: the event is listed, and has contents to share.           *)
LEMMA ReshareIs ==
    ASSUME SharingBase, NEW h \in Host, NEW i \in DOMAIN store[h], ReshareActivityItem(h, i)
    PROVE  \E g \in EventId, a \in Action :
             /\ a.guid = g /\ Live(g) /\ g \in Guids(store[h]) /\ event[g] \in Content \ Secret
             /\ clock' \in Nat /\ actions' = actions + 1 /\ acting' = [acting EXCEPT ![h] = a]
             /\ os' = [os EXCEPT ![h] = [what |-> event[g], ours |-> TRUE]] /\ changed' = changed \cup {h}
             /\ guard' = IF h \in Marks THEN [guard EXCEPT ![h] = event[g]] ELSE guard
             /\ calm' = (calm /\ Quiet) /\ shared' = event[g]
             /\ UNCHANGED <<event, read, writing, store, undo, relay, queue, wire, line, serving, asked,
                            unasked, adrift>>
<1> DEFINE item == store[h][i]
<1>1. /\ SharingTypes /\ item.guid \in EventId /\ item.stamp \in Nat
      /\ item.guid \in Guids(store[h]) /\ item.guid \in DOMAIN event
  BY EntryKnown DEF SharingBase
<1> DEFINE stamp == IF clock' > item.stamp THEN clock' ELSE item.stamp + 1
<1>2. /\ event[item.guid] # Blank /\ clock' = clock + 1 /\ actions' = actions + 1
      /\ acting' = [acting EXCEPT ![h] = [guid |-> item.guid, stamp |-> stamp]]
      /\ os' = [os EXCEPT ![h] = [what |-> event[item.guid], ours |-> TRUE]] /\ changed' = changed \cup {h}
      /\ guard' = IF h \in Marks THEN [guard EXCEPT ![h] = event[item.guid]] ELSE guard
      /\ calm' = (calm /\ Quiet) /\ shared' = event[item.guid]
      /\ UNCHANGED <<event, read, writing, store, undo, relay, queue, wire, line, serving, asked, unasked,
                     adrift>>
  BY DEF ReshareActivityItem, UserActs, Time, Put, meshVars, linkVars, lossVars
<1>3. clock' \in Nat
  BY <1>1, <1>2 DEF SharingTypes
<1>4. stamp \in Nat
  <2>1. PICK t \in Nat, s \in Nat : t = clock' /\ s = item.stamp
    BY <1>1, <1>3
  <2>2. stamp = IF t > s THEN t ELSE s + 1
    BY <2>1
  <2> QED BY <2>2
<1> HIDE DEF item, stamp
<1>5. PICK g \in EventId : g = item.guid
  BY <1>1
<1>6. Live(g)
  BY <1>1, <1>2, <1>5 DEF Live
<1>7. event[g] \in Content \ Secret
  BY <1>1, <1>6, EventIs DEF SharingTypes
<1>8. PICK a \in Action : a = [guid |-> g, stamp |-> stamp] /\ a.guid = g
  <2>1. PICK t \in Nat : t = stamp
    BY <1>4
  <2>2. [guid |-> g, stamp |-> t] \in Action
    BY DEF Action
  <2> QED BY <2>1, <2>2
<1> QED BY <1>1, <1>2, <1>3, <1>5, <1>6, <1>7, <1>8

LEMMA BaseReshare ==
    ASSUME SharingBase, NEW h \in Host, NEW i \in DOMAIN store[h], ReshareActivityItem(h, i)
    PROVE  SharingBase'
<1>1. PICK g \in EventId, a \in Action :
             /\ a.guid = g /\ Live(g) /\ event[g] \in Content \ Secret
             /\ clock' \in Nat /\ actions' = actions + 1 /\ acting' = [acting EXCEPT ![h] = a]
             /\ os' = [os EXCEPT ![h] = [what |-> event[g], ours |-> TRUE]] /\ changed' = changed \cup {h}
             /\ guard' = IF h \in Marks THEN [guard EXCEPT ![h] = event[g]] ELSE guard
             /\ UNCHANGED <<event, read, writing, store, undo, relay, queue, wire, line, serving, asked,
                            unasked, adrift>>
  BY ReshareIs
<1>2. SharingTypes
  BY DEF SharingBase
<1>3. PICK c \in [what : Content \cup {Unreadable}, ours : BOOLEAN] : c = [what |-> event[g], ours |-> TRUE]
  BY <1>1
<1>4. os' \in [Host -> [what : Content \cup {Unreadable}, ours : BOOLEAN]] /\ changed' \subseteq Host
  BY <1>1, <1>2, <1>3 DEF SharingTypes
<1>5. guard' \in [Host -> Content \cup {None}] /\ acting' \in [Host -> Action \cup {None}]
  BY <1>1, <1>2 DEF SharingTypes, Action
<1>6. SharingTypes'
  BY <1>1, <1>2, <1>4, <1>5 DEF SharingTypes, Action
<1>7. \A p \in Host : acting'[p] # None => Live(acting'[p].guid)
  BY <1>1, <1>2 DEF SharingBase, SharingTypes, EventsKnown
<1>8. EventsKnown'
  BY <1>1, <1>7 DEF SharingBase, EventsKnown, Frames, Sent, Live
<1> QED BY <1>6, <1>8 DEF SharingBase

(* The second half of sharing again: an addition and a broadcast.           *)
LEMMA ApplyIs ==
    ASSUME Unlimited, SharingBase, NEW h \in Host, ApplyAndBroadcastPayload(h)
    PROVE  /\ acting[h] \in Action /\ Live(acting[h].guid)
           /\ Adds(h, acting[h].guid)
           /\ \E f \in Frame : Tells(h, f) /\ f.tag = "CLIP" /\ f.guid = acting[h].guid /\ f.replay = FALSE
           /\ IF h \in Marks THEN UNCHANGED <<guard, changed>>
              ELSE /\ guard' = [guard EXCEPT ![h] = event[acting[h].guid]]
                   /\ changed' = changed \ {h}
           /\ acting' = [acting EXCEPT ![h] = None] /\ undo' = [undo EXCEPT ![h] = None]
           /\ UNCHANGED <<clock, event, os, read, writing, relay, wire, line, serving, asked, unasked, adrift,
                          copies, actions, faults, calm, shared>>
<1>1. /\ acting[h] # None
      /\ store' = [store EXCEPT ![h] = Added(@, acting[h].guid, acting[h].stamp)]
      /\ Broadcast(h, Clip(acting[h].guid, acting[h].stamp, FALSE))
      /\ IF h \in Marks THEN UNCHANGED <<guard, changed>>
         ELSE /\ guard' = [guard EXCEPT ![h] = event[acting[h].guid]]
              /\ changed' = changed \ {h}
      /\ acting' = [acting EXCEPT ![h] = None] /\ undo' = [undo EXCEPT ![h] = None]
      /\ UNCHANGED <<clock, event, os, read, writing, relay, wire, line, serving, asked, unasked, adrift,
                     copies, actions, faults, calm, shared>>
  BY DEF ApplyAndBroadcastPayload, linkVars, lossVars, calmVars
<1>2. SharingTypes /\ acting[h] \in Action /\ Live(acting[h].guid)
  BY <1>1 DEF SharingBase, SharingTypes, EventsKnown, Action
<1>3. PICK g \in EventId, stamp \in Nat, replay \in BOOLEAN :
        g = acting[h].guid /\ stamp = acting[h].stamp /\ replay = FALSE
  BY <1>2 DEF Action
<1>4. Adds(h, g)
  BY <1>1, <1>2, <1>3, AddsOne
<1>5. \E f \in Frame : Tells(h, f) /\ f.tag = "CLIP" /\ f.guid = g /\ f.replay = replay
  <2>1. Broadcast(h, Clip(g, stamp, replay))
    BY <1>1, <1>3
  <2> QED BY <1>2, <2>1, TellsClip
<1> QED BY <1>1, <1>2, <1>3, <1>4, <1>5

(* Frames that a host is told and that were there before are of known events. *)
LEMMA ToldKnown ==
    ASSUME SharingBase, NEW h \in Host, NEW f, Tells(h, f), f.guid \in DOMAIN event, UNCHANGED <<event, wire>>
    PROVE  /\ \A d \in Dials : \A x \in Frames(d)' : x.guid \in DOMAIN event'
           /\ \A d \in Dials : \A x : x \in Frames(d)' <=> x \in Frames(d) \/ (d \in From(h) /\ x = f)
BY FramesSame DEF Tells, SharingBase, EventsKnown, Frames

LEMMA BaseApply ==
    ASSUME Unlimited, SharingBase, NEW h \in Host, ApplyAndBroadcastPayload(h)
    PROVE  SharingBase'
<1>1. /\ acting[h] \in Action /\ Live(acting[h].guid)
      /\ Adds(h, acting[h].guid)
      /\ IF h \in Marks THEN UNCHANGED <<guard, changed>>
         ELSE /\ guard' = [guard EXCEPT ![h] = event[acting[h].guid]]
              /\ changed' = changed \ {h}
      /\ acting' = [acting EXCEPT ![h] = None] /\ undo' = [undo EXCEPT ![h] = None]
      /\ UNCHANGED <<clock, event, os, read, writing, relay, wire, line, serving, asked, unasked, adrift,
                     actions>>
  BY ApplyIs
<1>2. PICK f \in Frame : Tells(h, f) /\ f.guid = acting[h].guid
  BY ApplyIs
<1>3. SharingTypes /\ event[acting[h].guid] \in Content
  BY <1>1, EventIs DEF SharingBase, SharingTypes
<1>4. guard' \in [Host -> Content \cup {None}] /\ changed' \subseteq Host
  BY <1>1, <1>3 DEF SharingTypes
<1>5. acting' \in [Host -> Action \cup {None}] /\ undo' \in [Host -> Entry(EventId) \cup {None}]
  BY <1>1, <1>3 DEF SharingTypes, Action
<1>6. SharingTypes'
  BY <1>1, <1>2, <1>3, <1>4, <1>5 DEF SharingTypes, Adds, Tells, Action
<1>7. EventsKnown'
  <2>1. \A c \in Dials : \A x \in Frames(c)' : x.guid \in DOMAIN event'
    BY <1>1, <1>2, ToldKnown DEF Live
  <2>2. \A p \in Host : Guids(store'[p]) \subseteq DOMAIN event'
    BY <1>1 DEF Adds, SharingBase, EventsKnown, Live
  <2>3. \A p \in Host : (acting'[p] # None => Live(acting[p].guid)) /\ (undo'[p] # None => undo[p].guid \in DOMAIN event)
                        /\ (acting'[p] # None => acting'[p] = acting[p]) /\ (undo'[p] # None => undo'[p] = undo[p])
    BY <1>1, <1>3 DEF SharingBase, EventsKnown, SharingTypes
  <2> QED BY <1>1, <2>1, <2>2, <2>3 DEF SharingBase, EventsKnown, Live
<1> QED BY <1>6, <1>7 DEF SharingBase

(* A delete takes the event out of the own list and tells the peers.        *)
LEMMA DeleteIs ==
    ASSUME SharingBase, NEW h \in Host, NEW i \in DOMAIN store[h], DeleteActivityItemEverywhere(h, i)
    PROVE  \E g \in EventId, f \in Frame, item \in Entry(EventId) :
             /\ item.guid = g /\ g \in Guids(store[h]) /\ g \in DOMAIN event
             /\ undo' = [undo EXCEPT ![h] = item]
             /\ store' \in [Host -> Seq(Entry(EventId))] /\ \A p \in Host : GuidsOnce(store'[p])
             /\ \A p \in Host : p # h => store'[p] = store[p]
             /\ Guids(store'[h]) = Guids(store[h]) \ {g}
             /\ Tells(h, f) /\ f.tag = "CDEL" /\ f.guid = g
             /\ actions' = actions + 1 /\ calm' = (calm /\ Quiet)
             /\ UNCHANGED <<clock, event, os, changed, guard, read, writing, acting, relay, copies, wire,
                            line, serving, asked, unasked, adrift, faults, shared>>
<1> DEFINE item == store[h][i]
<1>1. /\ undo' = [undo EXCEPT ![h] = item]
      /\ store' = [store EXCEPT ![h] = RemoveAt(@, i)]
      /\ Broadcast(h, Cdel(item.guid)) /\ actions' = actions + 1 /\ calm' = (calm /\ Quiet)
      /\ UNCHANGED <<clock, event, os, changed, guard, read, writing, acting, relay, copies, wire, line,
                     serving, asked, unasked, adrift, faults, shared>>
  BY DEF DeleteActivityItemEverywhere, linkVars, lossVars, UserActs, clipVars
<1>2. /\ SharingTypes /\ item \in Entry(EventId) /\ item.guid \in EventId
      /\ item.guid \in Guids(store[h]) /\ item.guid \in DOMAIN event
  BY EntryKnown DEF SharingBase
<1>3. /\ store' \in [Host -> Seq(Entry(EventId))] /\ \A p \in Host : GuidsOnce(store'[p])
      /\ \A p \in Host : p # h => store'[p] = store[p]
      /\ Guids(store'[h]) = Guids(store[h]) \ {item.guid}
  BY <1>1, <1>2, RemovedFrom
<1> HIDE DEF item
<1>4. PICK g \in EventId : g = item.guid
  BY <1>2
<1>5. PICK f \in Frame : f = Cdel(g) /\ f.tag = "CDEL" /\ f.guid = g
  <2>1. [tag |-> "CDEL", guid |-> g] \in [tag : {"CDEL"}, guid : EventId]
    OBVIOUS
  <2>2. Cdel(g) \in Frame
    BY <2>1 DEF Cdel, Frame
  <2> QED BY <2>2 DEF Cdel
<1>6. Tells(h, f)
  <2>1. Broadcast(h, f)
    BY <1>1, <1>4, <1>5
  <2> QED BY <1>2, <2>1, BroadcastIs DEF Tells
<1> QED BY <1>1, <1>2, <1>3, <1>4, <1>5, <1>6

LEMMA BaseDelete ==
    ASSUME SharingBase, NEW h \in Host, NEW i \in DOMAIN store[h], DeleteActivityItemEverywhere(h, i)
    PROVE  SharingBase'
<1>1. PICK g \in EventId, f \in Frame, item \in Entry(EventId) :
             /\ item.guid = g /\ g \in DOMAIN event
             /\ undo' = [undo EXCEPT ![h] = item]
             /\ store' \in [Host -> Seq(Entry(EventId))] /\ \A p \in Host : GuidsOnce(store'[p])
             /\ \A p \in Host : p # h => store'[p] = store[p]
             /\ Guids(store'[h]) = Guids(store[h]) \ {g}
             /\ Tells(h, f) /\ f.guid = g
             /\ actions' = actions + 1
             /\ UNCHANGED <<clock, event, os, changed, guard, read, writing, acting, relay, wire, line,
                            serving, asked, unasked, adrift>>
  BY DeleteIs
<1>2. SharingTypes
  BY DEF SharingBase
<1>3. undo' \in [Host -> Entry(EventId) \cup {None}]
  BY <1>1, <1>2 DEF SharingTypes
<1>4. SharingTypes'
  BY <1>1, <1>2, <1>3 DEF SharingTypes, Tells
<1>5. EventsKnown'
  <2>1. \A c \in Dials : \A x \in Frames(c)' : x.guid \in DOMAIN event'
    BY <1>1, ToldKnown
  <2>2. \A p \in Host : Guids(store'[p]) \subseteq DOMAIN event'
    BY <1>1 DEF SharingBase, EventsKnown
  <2>3. \A p \in Host : undo'[p] # None => undo'[p].guid \in DOMAIN event
    BY <1>1, <1>2 DEF SharingBase, EventsKnown, SharingTypes
  <2> QED BY <1>1, <2>1, <2>2, <2>3 DEF SharingBase, EventsKnown, Live
<1> QED BY <1>4, <1>5 DEF SharingBase

(* Taking it back adds it again and tells the peers, as a replay.           *)
LEMMA UndoIs ==
    ASSUME Unlimited, SharingBase, NEW h \in Host, TryUndoDelete(h)
    PROVE  \E g \in EventId, f \in Frame :
             /\ g \in DOMAIN event /\ undo' = [undo EXCEPT ![h] = None]
             /\ Adds(h, g) /\ Tells(h, f) /\ f.tag = "CLIP" /\ f.guid = g /\ f.replay = TRUE
             /\ actions' = actions + 1 /\ calm' = (calm /\ Quiet)
             /\ UNCHANGED <<clock, event, os, changed, guard, read, writing, acting, relay, copies, wire,
                            line, serving, asked, unasked, adrift, faults, shared>>
<1>1. /\ undo[h] # None /\ undo' = [undo EXCEPT ![h] = None]
      /\ store' = [store EXCEPT ![h] = Added(@, undo[h].guid, undo[h].stamp)]
      /\ Broadcast(h, Clip(undo[h].guid, undo[h].stamp, TRUE))
      /\ actions' = actions + 1 /\ calm' = (calm /\ Quiet)
      /\ UNCHANGED <<clock, event, os, changed, guard, read, writing, acting, relay, copies, wire, line,
                     serving, asked, unasked, adrift, faults, shared>>
  BY DEF TryUndoDelete, linkVars, lossVars, UserActs, clipVars
<1>2. SharingTypes /\ undo[h] \in Entry(EventId) /\ undo[h].guid \in DOMAIN event
  BY <1>1 DEF SharingBase, SharingTypes, EventsKnown
<1>3. PICK g \in EventId, stamp \in Nat, replay \in BOOLEAN :
        g = undo[h].guid /\ stamp = undo[h].stamp /\ replay = TRUE
  BY <1>2 DEF Entry
<1>4. Adds(h, g)
  BY <1>1, <1>2, <1>3, AddsOne
<1>5. \E f \in Frame : Tells(h, f) /\ f.tag = "CLIP" /\ f.guid = g /\ f.replay = replay
  <2>1. Broadcast(h, Clip(g, stamp, replay))
    BY <1>1, <1>3
  <2> QED BY <1>2, <2>1, TellsClip
<1> QED BY <1>1, <1>2, <1>3, <1>4, <1>5

LEMMA BaseUndo ==
    ASSUME Unlimited, SharingBase, NEW h \in Host, TryUndoDelete(h)
    PROVE  SharingBase'
<1>1. PICK g \in EventId, f \in Frame :
             /\ g \in DOMAIN event /\ undo' = [undo EXCEPT ![h] = None]
             /\ Adds(h, g) /\ Tells(h, f) /\ f.guid = g
             /\ actions' = actions + 1
             /\ UNCHANGED <<clock, event, os, changed, guard, read, writing, acting, relay, wire, line,
                            serving, asked, unasked, adrift>>
  BY UndoIs
<1>2. SharingTypes
  BY DEF SharingBase
<1>3. undo' \in [Host -> Entry(EventId) \cup {None}]
  BY <1>1, <1>2 DEF SharingTypes
<1>4. SharingTypes'
  BY <1>1, <1>2, <1>3 DEF SharingTypes, Adds, Tells
<1>5. EventsKnown'
  <2>1. \A c \in Dials : \A x \in Frames(c)' : x.guid \in DOMAIN event'
    BY <1>1, ToldKnown
  <2>2. \A p \in Host : Guids(store'[p]) \subseteq DOMAIN event'
    BY <1>1 DEF Adds, SharingBase, EventsKnown
  <2>3. \A p \in Host : undo'[p] # None => undo'[p].guid \in DOMAIN event
    BY <1>1, <1>2 DEF SharingBase, EventsKnown, SharingTypes
  <2> QED BY <1>1, <2>1, <2>2, <2>3 DEF SharingBase, EventsKnown, Live
<1> QED BY <1>4, <1>5 DEF SharingBase

(* Every host dials every other one.                                        *)
Mesh == Dials = {d \in Host \X Host : d[1] # d[2]}

Writable == Content \ Secret

(* The only event of its contents, a frame that goes onto a clipboard, and a
   clipboard that gives what the guard holds.                                *)
Sole(g) == \A e \in DOMAIN event \ {g} : event[e] # event[g]
Living(f) == f.tag = "CLIP" /\ ~f.replay /\ event[f.guid] # Blank
Settled(p) == os[p].what \in {guard[p], Unreadable} \cup Secret

Reaching(p, tag, g) == \E d \in To(p) : \E f \in Frames(d) : f.tag = tag /\ f.guid = g

(* An event alone with its contents is listed everywhere, or about to be, or
   about to be deleted where it still is.                                    *)
GuardsKnown == \A h \in Host : guard[h] \in Writable => \E e \in DOMAIN event : event[e] = guard[h]
SolesSpread ==
    \A h, p \in Host : \A g \in Guids(store[h]) \ Guids(store[p]) :
        Sole(g) => Reaching(p, "CLIP", g) \/ Reaching(h, "CDEL", g)
FramesRight ==
    \A d \in Dials : \A f \in Frames(d) :
        /\ f.tag = "CLIP" => (Sole(f.guid) => f.guid \in Guids(store[d[1]]))
        /\ f.tag = "CDEL" => f.guid \notin Guids(store[d[1]])
ContentsSpread ==
    actions = 0 => \A h, p \in Host : \A c \in Contents(h) \ Contents(p) :
        \E d \in To(p) : \E f \in Frames(d) : event[f.guid] = c

Histories == GuardsKnown /\ SolesSpread /\ FramesRight /\ ContentsSpread

-----------------------------------------------------------------------------
LEMMA MeshIs ==
    ASSUME Mesh
    PROVE  /\ \A h, p \in Host : h # p => <<h, p>> \in To(p) /\ <<h, p>> \in From(h)
           /\ \A d \in Dials : /\ d[1] \in Host /\ d[2] \in Host /\ d[1] # d[2]
                               /\ d \in To(d[2]) /\ d \in From(d[1])
           /\ \A h : To(h) \subseteq Dials /\ From(h) \subseteq Dials
           /\ \A h : \A d \in To(h) : d[2] = h
           /\ \A h : \A d \in From(h) : d[1] = h
BY DEF Mesh, To, From

LEMMA SoleKept ==
    ASSUME \A e \in DOMAIN event : e \in DOMAIN event' /\ event'[e] = event[e],
           NEW g \in DOMAIN event, Sole(g)'
    PROVE  Sole(g)
BY DEF Sole

(* Steps that delete nothing: what leaves a connection has come to the history at
   its end, what is new on one its host lists, and what is new in a history is
   on its way to the others, or came from one that had it.                   *)
LEMMA HistoriesStep ==
    ASSUME Mesh, SharingBase, Histories, Grows, actions' = actions \/ actions' # 0,
           \A p \in Host : guard'[p] = guard[p] \/ guard'[p] \notin Writable
                           \/ \E e \in DOMAIN event' : event'[e] = guard'[p],
           \A d \in Dials : \A f \in Frames(d) : f.tag = "CLIP",
           \A d \in Dials : \A f \in Frames(d) :
             \/ f \in Frames(d)'
             \/ /\ Sole(f.guid) => f.guid \in Guids(store'[d[2]])
                /\ actions = 0 => event[f.guid] \in Contents(d[2])',
           \A d \in Dials : \A f \in Frames(d)' :
             f \in Frames(d) \/ (f.tag = "CLIP" /\ f.guid \in Guids(store'[d[1]]))
             \/ (f.tag = "CLIP" /\ f.guid \in DOMAIN event /\ ~Sole(f.guid)),
           \A h \in Host : \A g \in Guids(store'[h]) :
             \/ g \in Guids(store[h])
             \/ \A p \in Host : p # h => Reaching(p, "CLIP", g)'
             \/ \E q \in Host : /\ g \in DOMAIN event /\ (Sole(g) => g \in Guids(store[q]))
                                /\ actions = 0 => event[g] \in Contents(q)
    PROVE  Histories'
<1> USE DEF Histories
<1>1. \A e \in DOMAIN event : e \in DOMAIN event' /\ event'[e] = event[e]
  BY DEF Grows
<1>2. \A p \in Host : Guids(store[p]) \subseteq Guids(store'[p]) /\ Guids(store[p]) \subseteq DOMAIN event
  BY DEF Grows, SharingBase, EventsKnown
<1>3. GuardsKnown'
  BY <1>1 DEF GuardsKnown
<1>4. ASSUME NEW p \in Host, NEW g \in DOMAIN event, Sole(g), Reaching(p, "CLIP", g)
      PROVE  g \in Guids(store'[p]) \/ Reaching(p, "CLIP", g)'
  <2>1. PICK d \in To(p) : \E f \in Frames(d) : f.tag = "CLIP" /\ f.guid = g
    BY <1>4 DEF Reaching
  <2>2. d \in Dials /\ d[2] = p
    BY <2>1, MeshIs
  <2>3. PICK f \in Frames(d) : f.tag = "CLIP" /\ f.guid = g
    BY <2>1
  <2> QED BY <1>4, <2>1, <2>2, <2>3 DEF Reaching, To
<1>5. \A p \in Host : \A g : ~Reaching(p, "CDEL", g)
  BY MeshIs DEF Reaching
<1>6. ASSUME NEW h \in Host, NEW p \in Host, NEW g \in Guids(store[h]), g \notin Guids(store'[p]), Sole(g)
      PROVE  Reaching(p, "CLIP", g)'
  <2>1. g \notin Guids(store[p]) /\ g \in DOMAIN event
    BY <1>2, <1>6
  <2>2. Reaching(p, "CLIP", g)
    BY <1>5, <1>6, <2>1 DEF SolesSpread
  <2> QED BY <1>4, <1>6, <2>1, <2>2
<1>7. SolesSpread'
  <2> SUFFICES ASSUME NEW h \in Host, NEW p \in Host, NEW g \in Guids(store'[h]), g \notin Guids(store'[p]), Sole(g)'
               PROVE  Reaching(p, "CLIP", g)'
    BY DEF SolesSpread
  <2>1. h # p
    OBVIOUS
  <2>2. CASE g \in Guids(store[h])
    <3>1. Sole(g)
      BY <1>1, <1>2, <2>2, SoleKept
    <3> QED BY <1>6, <2>2, <3>1
  <2>3. CASE \E q \in Host : g \in DOMAIN event /\ (Sole(g) => g \in Guids(store[q]))
    <3>1. Sole(g)
      BY <1>1, <2>3, SoleKept
    <3> QED BY <1>6, <2>3, <3>1
  <2> QED BY <2>1, <2>2, <2>3
<1>8. FramesRight'
  <2> SUFFICES ASSUME NEW d \in Dials, NEW f \in Frames(d)'
               PROVE  f.tag = "CLIP" /\ (Sole(f.guid)' => f.guid \in Guids(store'[d[1]]))
    BY DEF FramesRight
  <2>1. CASE f \in Frames(d)
    <3>1. f.guid \in DOMAIN event /\ f.tag = "CLIP"
      BY <2>1 DEF SharingBase, EventsKnown
    <3>2. Sole(f.guid)' => Sole(f.guid)
      BY <1>1, <3>1, SoleKept
    <3> QED BY <1>2, <2>1, <3>1, <3>2, MeshIs DEF FramesRight
  <2>2. CASE f.tag = "CLIP" /\ f.guid \in DOMAIN event /\ ~Sole(f.guid)
    BY <1>1, <2>2, SoleKept
  <2> QED BY <2>1, <2>2
<1>9. ASSUME actions' = 0 PROVE ContentsSpread'
  <2> SUFFICES ASSUME NEW h \in Host, NEW p \in Host, NEW g \in Guids(store'[h]), event'[g] \notin Contents(p)'
               PROVE  \E d \in To(p) : \E f \in Frames(d)' : event'[f.guid] = event'[g]
    BY DEF ContentsSpread, Contents, To
  <2>1. actions = 0 /\ Contents(p) \subseteq Contents(p)'
    BY <1>9, ContentsGrow
  <2>2. ASSUME NEW q \in Host, event'[g] \in Contents(q)
        PROVE  \E d \in To(p) : \E f \in Frames(d)' : event'[f.guid] = event'[g]
    <3>1. PICK d \in To(p) : \E f \in Frames(d) : event[f.guid] = event'[g]
      BY <2>1, <2>2 DEF ContentsSpread
    <3>2. d \in Dials /\ d[2] = p
      BY <3>1, MeshIs
    <3>3. PICK f \in Frames(d) : event[f.guid] = event'[g]
      BY <3>1
    <3>4. f.guid \in DOMAIN event /\ event'[f.guid] = event[f.guid]
      BY <1>1, <3>2, <3>3 DEF SharingBase, EventsKnown
    <3>5. f \in Frames(d)'
      BY <2>1, <3>2, <3>3, <3>4
    <3> QED BY <3>3, <3>4, <3>5
  <2>3. CASE g \in Guids(store[h])
    BY <1>1, <1>2, <2>2, <2>3 DEF Contents
  <2>4. CASE \A q \in Host : q # h => Reaching(q, "CLIP", g)'
    <3>1. h # p
      BY DEF Contents
    <3> QED BY <2>4, <3>1 DEF Reaching, To
  <2>5. CASE \E q \in Host : g \in DOMAIN event /\ (actions = 0 => event[g] \in Contents(q))
    BY <1>1, <2>1, <2>2, <2>5
  <2> QED BY <2>1, <2>3, <2>4, <2>5
<1> QED BY <1>3, <1>7, <1>8, <1>9 DEF ContentsSpread

Connected == (\A d \in Dials : End(d) \in serving) /\ asked = {} /\ relay = None

(* Host h has something its own user copied and its thread has not yet published;
   nothing else is under way.                                                *)
Copying(h) ==
    /\ Connected /\ \A d \in Dials : Frames(d) = {}
    /\ \A p \in Host : /\ writing[p] = None /\ acting[p] = None
                       /\ p # h => p \notin changed /\ read[p] = None /\ Settled(p)
    /\ ~os[h].ours
    /\ \/ h \in changed /\ read[h] = None
       \/ h \notin changed /\ read[h] # None /\ read[h] = os[h]
    /\ os[h].what \notin Writable => \A p \in Host : guard[p] \in Writable => guard[p] = shared
    /\ os[h].what \in Writable =>
         /\ os[h].what = shared
         /\ \A p, q \in Host : guard[p] \in Writable /\ guard[q] \in Writable => guard[p] = guard[q]

(* A delete is on its way; the clipboards rest.                             *)
AtRest(p) ==
    /\ read[p] = None /\ writing[p] = None /\ acting[p] = None
    /\ Settled(p) /\ (guard[p] \in Writable => guard[p] = shared)

Deleting ==
    /\ Connected /\ changed = {} /\ \A p \in Host : AtRest(p)
    /\ \A d \in Dials : \A f \in Frames(d) : f.tag = "CDEL"

(* The serving end of a connection has gone, and its dialler has yet to notice. *)
Severed(d) ==
    /\ line[d] # None /\ End(d) \notin serving /\ \A c \in Dials \ {d} : End(c) \in serving
    /\ asked = {} /\ relay = None /\ changed = {} /\ \A p \in Host : AtRest(p)
    /\ \A c \in Dials : Frames(c) = {}

(* What is shared is on its way to host p.                                  *)
Awaits(p) ==
    \/ relay # None \/ writing[p] # None \/ \E h \in Host : acting[h] # None
    \/ \E d \in To(p) : \E f \in Frames(d) : Living(f)

(* Contents are on their way to the clipboards, as event g or as another of the
   same contents (0: none are), and events that go to the histories only.  What a
   clipboard thread has to look at is what the program itself wrote.         *)
Takings(g, p) ==
    /\ p \in changed \/ read[p] # None => g # 0 /\ os[p] = [what |-> shared, ours |-> TRUE]
    /\ read[p] # None => read[p] = os[p]
    /\ writing[p] # None => g # 0 /\ event[writing[p].guid] = shared
    /\ acting[p] # None => acting[p].guid = g /\ (p \in Marks => guard[p] = shared)
    /\ IF acting[p] # None \/ (writing[p] # None /\ writing[p].put)
       THEN os[p].what = shared ELSE Settled(p)

Flying(g) ==
    /\ relay # None => g # 0 /\ event[relay.guid] = shared
    /\ \A d \in Dials : \A f \in Frames(d) :
         f.tag = "CLIP" /\ (Living(f) => g # 0 /\ event[f.guid] = shared)

Shares(g) ==
    g # 0 => /\ Live(g) /\ event[g] = shared
             /\ Sole(g) => \A p \in Host :
                  guard[p] = shared \/ writing[p] # None => g \in Guids(store[p])

Spreading(g) ==
    /\ \A d \in Dials : line[d] # None => End(d) \in serving
    /\ \A p \in Host : Takings(g, p) /\ (guard[p] \in Writable => guard[p] = shared \/ Awaits(p))
    /\ Flying(g) /\ Shares(g)

Phase ==
    \/ Deleting \/ (\E h \in Host : Copying(h)) \/ (\E d \in Dials : Severed(d))
    \/ \E g \in Nat : Spreading(g)

(* Nothing is left to read but from the ends the diallers are connected to. *)
Drained == \A e \in Ends : wire[e] # <<>> => e = End(e[1])

Base == SharingBase /\ Histories /\ (actions = 0 => Listed) /\ Drained /\ adrift = {}

-----------------------------------------------------------------------------
LEMMA QuietIs ==
    ASSUME Quiet, Phase
    PROVE  /\ Connected /\ changed = {} /\ \A p \in Host : AtRest(p)
           /\ \A d \in Dials : queue[d] = <<>> /\ Frames(d) = {}
           /\ \A e \in Ends : wire[e] = <<>>
           /\ \A d \in Dials : End(d) \in serving
<1>1. \A d \in Dials : queue[d] = <<>> /\ Frames(d) = {}
  BY NoFrames DEF Quiet
<1>2. /\ Connected /\ changed = {} /\ \A p \in Host : read[p] = None /\ writing[p] = None /\ acting[p] = None
      /\ (\A e \in Ends : wire[e] = <<>>) /\ \A d \in Dials : End(d) \in serving
  BY DEF Quiet, Connected
<1>3. CASE Deleting
  BY <1>1, <1>2, <1>3 DEF Deleting
<1>4. ASSUME NEW h \in Host, Copying(h) PROVE FALSE
  BY <1>2, <1>4 DEF Copying
<1>5. ASSUME NEW d \in Dials, Severed(d) PROVE FALSE
  BY <1>2, <1>5 DEF Severed
<1>6. ASSUME NEW g \in Nat, Spreading(g), NEW p \in Host PROVE AtRest(p)
  <2>1. Takings(g, p) /\ (guard[p] \in Writable => guard[p] = shared \/ Awaits(p))
    BY <1>6 DEF Spreading
  <2>2. ~Awaits(p)
    BY <1>1, <1>2 DEF Awaits, Connected, To
  <2> QED BY <1>2, <2>1, <2>2 DEF AtRest, Takings
<1> QED BY <1>1, <1>2, <1>3, <1>4, <1>5, <1>6 DEF Phase

(* A record is not the sign that there is none.                             *)
LEMMA NoneIs ==
    /\ \A a \in Action : a # None
    /\ \A w \in [guid : EventId, put : BOOLEAN] : w # None
    /\ \A r \in [what : Content, ours : BOOLEAN] : r # None
    /\ \A r \in Relay : r # None
<1>1. \A a \in Action : a \in [guid : Nat, stamp : Nat]
  BY DEF Action, EventId
<1>2. \A w \in [guid : EventId, put : BOOLEAN] : w \in [guid : Nat, put : BOOLEAN]
  BY DEF EventId
<1>3. \A r \in Relay : r \in [guid : Nat, stamp : Nat, tried : SUBSET Host]
  BY DEF Relay, EventId
<1> QED BY <1>1, <1>2, <1>3, ClipAssumption

LEMMA FramesKept ==
    ASSUME Histories, UNCHANGED <<event, guard, store, actions>>, \A d \in Dials : Frames(d)' = Frames(d)
    PROVE  Histories'
<1>1. \A p : \A tag : \A g : Reaching(p, tag, g)' <=> Reaching(p, tag, g)
  BY DEF Reaching, To
<1>2. SolesSpread'
  BY <1>1 DEF Histories, SolesSpread, Sole
<1>3. FramesRight'
  BY DEF Histories, FramesRight, Sole
<1>4. ContentsSpread'
  BY DEF Histories, ContentsSpread, Contents, To
<1>5. GuardsKnown'
  BY DEF Histories, GuardsKnown
<1> QED BY <1>2, <1>3, <1>4, <1>5 DEF Histories

LEMMA SameHistories ==
    ASSUME Histories, UNCHANGED <<event, guard, store, queue, wire, actions>>
    PROVE  Histories'
<1>1. \A d \in Dials : Frames(d)' = Frames(d)
  BY FramesSame
<1> QED BY <1>1, FramesKept

LEMMA ConnectedSame == Connected /\ UNCHANGED <<line, serving, asked, relay>> => Connected'
BY DEF Connected, End

LEMMA Joined == Connected /\ UNCHANGED <<line,
                                         serving>> => \A d \in Dials : line'[d] # None => End(d)' \in serving'
BY DEF Connected, End

(* From rest, a user copies: that host publishes, and nothing else is under way. *)
LEMMA StartsCopy ==
    ASSUME Base, Quiet, Phase, NEW h \in Host, NEW c \in Content \cup {Unreadable}, Copy(h, c)
    PROVE  Histories' /\ Phase'
<1>1. /\ os' = [os EXCEPT ![h] = [what |-> c, ours |-> FALSE]] /\ changed' = changed \cup {h}
      /\ shared' = (IF c \in Secret \cup {Unreadable} THEN shared ELSE c)
      /\ UNCHANGED <<event, guard, read, writing, store, acting, relay, actions, queue, wire, line, serving,
                     asked, unasked, adrift>>
  BY DEF Copy, Put, meshVars, linkVars, lossVars
<1>2. Histories'
  BY <1>1, SameHistories DEF Base
<1>3. Connected /\ changed = {} /\ (\A p \in Host : AtRest(p)) /\ \A d \in Dials : Frames(d) = {}
  BY QuietIs
<1>4. os'[h].what = c /\ ~os'[h].ours /\ \A p \in Host : p # h => os'[p] = os[p]
  BY <1>1 DEF Base, SharingBase, SharingTypes
<1>5. Copying(h)'
  <2>1. Connected' /\ \A d \in Dials : Frames(d)' = {}
    BY <1>1, <1>3, FramesSame, ConnectedSame
  <2>2. \A p \in Host : /\ writing'[p] = None /\ acting'[p] = None
                        /\ p # h => p \notin changed' /\ read'[p] = None /\ Settled(p)'
    BY <1>1, <1>3, <1>4 DEF AtRest, Settled
  <2>3. h \in changed' /\ read'[h] = None
    BY <1>1, <1>3 DEF AtRest
  <2>4. os'[h].what \notin Writable => \A p \in Host : guard'[p] \in Writable => guard'[p] = shared'
    BY <1>1, <1>3, <1>4 DEF AtRest, Writable
  <2>5. os'[h].what \in Writable =>
          /\ os'[h].what = shared'
          /\ \A p, q \in Host : guard'[p] \in Writable /\ guard'[q] \in Writable => guard'[p] = guard'[q]
    <3>1. c \in Writable => shared' = c
      BY <1>1, ClipAssumption DEF Writable
    <3>2. \A p, q \in Host : guard'[p] \in Writable /\ guard'[q] \in Writable => guard'[p] = guard'[q]
      BY <1>1, <1>3 DEF AtRest
    <3> QED BY <1>4, <3>1, <3>2
  <2> QED BY <1>4, <2>1, <2>2, <2>3, <2>4, <2>5 DEF Copying
<1> QED BY <1>2, <1>5 DEF Phase

(* From rest, a user shares an item again: its event spreads.               *)
LEMMA StartsReshare ==
    ASSUME Mesh, Base, actions \in Nat, Quiet, Phase,
           NEW h \in Host, NEW i \in DOMAIN store[h], ReshareActivityItem(h, i)
    PROVE  Histories' /\ Phase'
<1>1. PICK g \in EventId, a \in Action :
             /\ a.guid = g /\ Live(g) /\ g \in Guids(store[h]) /\ event[g] \in Content \ Secret
             /\ actions' = actions + 1 /\ acting' = [acting EXCEPT ![h] = a]
             /\ os' = [os EXCEPT ![h] = [what |-> event[g], ours |-> TRUE]] /\ changed' = changed \cup {h}
             /\ guard' = (IF h \in Marks THEN [guard EXCEPT ![h] = event[g]] ELSE guard)
             /\ shared' = event[g]
             /\ UNCHANGED <<event, read, writing, store, relay, queue, wire, line, serving, asked, unasked,
                            adrift>>
  BY ReshareIs DEF Base
<1>2. Connected /\ changed = {} /\ (\A p \in Host : AtRest(p)) /\ \A d \in Dials : Frames(d) = {}
  BY QuietIs
<1>3. \A p \in Host : guard'[p] = (IF p = h /\ h \in Marks THEN event[g] ELSE guard[p])
  BY <1>1 DEF Base, SharingBase, SharingTypes
<1>4. \A d \in Dials : Frames(d)' = {}
  BY <1>1, <1>2, FramesSame
<1>5. Histories'
  <2>1. Grows
    BY <1>1 DEF Grows
  <2>2. actions' # 0
    BY <1>1
  <2>3. \A p \in Host : guard'[p] = guard[p] \/ \E e \in DOMAIN event' : event'[e] = guard'[p]
    BY <1>1, <1>3 DEF Live
  <2> QED BY <1>1, <1>2, <1>4, <2>1, <2>2, <2>3, HistoriesStep DEF Base
<1>6. /\ os'[h] = [what |-> event[g], ours |-> TRUE] /\ acting'[h] = a /\ g # 0
      /\ \A p \in Host : p # h => os'[p] = os[p] /\ acting'[p] = None
  BY <1>1, <1>2 DEF Base, SharingBase, SharingTypes, AtRest, EventId
<1>7. a # None
  BY NoneIs
<1>8. Spreading(g)'
  <2>1. \A p \in Host : Takings(g, p)'
    <3>1. Takings(g, h)'
      BY <1>1, <1>2, <1>3, <1>6, <1>7 DEF Takings, AtRest, Settled
    <3>2. ASSUME NEW p \in Host, p # h PROVE Takings(g, p)'
      BY <1>1, <1>2, <1>3, <1>6, <3>2 DEF Takings, AtRest, Settled
    <3> QED BY <3>1, <3>2
  <2>2. \A p \in Host : guard'[p] \in Writable => guard'[p] = shared' \/ Awaits(p)'
    BY <1>1, <1>6, <1>7 DEF Awaits
  <2>3. Flying(g)'
    BY <1>1, <1>2, <1>4 DEF Flying, Connected
  <2>4. Shares(g)'
    <3>1. \A p \in Host : Sole(g) => g \in Guids(store[p])
      BY <1>1, <1>2 DEF Base, Histories, SolesSpread, Reaching, To
    <3> QED BY <1>1, <3>1 DEF Shares, Live, Sole
  <2>5. \A d \in Dials : line'[d] # None => End(d)' \in serving'
    BY <1>1, <1>2, Joined
  <2> QED BY <2>1, <2>2, <2>3, <2>4, <2>5 DEF Spreading
<1> QED BY <1>5, <1>8 DEF Phase, EventId

(* At rest, an event alone with its contents is in every history.           *)
LEMMA SolesEverywhere ==
    ASSUME Base, \A d \in Dials : Frames(d) = {}
    PROVE  /\ \A h, p \in Host : \A g \in Guids(store[h]) : Sole(g) => g \in Guids(store[p])
           /\ actions = 0 => \A h, p \in Host : Contents(h) \subseteq Contents(p)
BY DEF Base, Histories, SolesSpread, ContentsSpread, Reaching, To

LEMMA ToldFrames ==
    ASSUME NEW h \in Host, NEW f \in Frame, Tells(h, f), UNCHANGED wire
    PROVE  \A d \in Dials : \A x : x \in Frames(d)' <=> x \in Frames(d) \/ (d \in From(h) /\ x = f)
BY FramesSame DEF Tells, Frames

(* From rest, a user deletes an item everywhere, or takes that back.        *)
LEMMA StartsDelete ==
    ASSUME Mesh, Base, actions \in Nat, Quiet, Phase,
           NEW h \in Host, NEW i \in DOMAIN store[h], DeleteActivityItemEverywhere(h, i)
    PROVE  Histories' /\ Phase'
<1>1. PICK g \in EventId, f \in Frame :
             /\ g \in Guids(store[h])
             /\ \A p \in Host : p # h => store'[p] = store[p]
             /\ Guids(store'[h]) = Guids(store[h]) \ {g}
             /\ Tells(h, f) /\ f.tag = "CDEL" /\ f.guid = g
             /\ actions' = actions + 1
             /\ UNCHANGED <<event, os, changed, guard, read, writing, acting, relay, wire, line, serving,
                            asked, unasked, adrift, shared>>
  BY DeleteIs DEF Base
<1>2. Connected /\ changed = {} /\ (\A p \in Host : AtRest(p)) /\ \A d \in Dials : Frames(d) = {}
  BY QuietIs
<1>3. \A d \in Dials : \A x : x \in Frames(d)' <=> d \in From(h) /\ x = f
  BY <1>1, <1>2, ToldFrames
<1>4. Histories'
  <2>1. GuardsKnown'
    BY <1>1 DEF Base, Histories, GuardsKnown
  <2>2. SolesSpread'
    <3> SUFFICES ASSUME NEW q \in Host, NEW p \in Host, NEW e \in Guids(store'[q]), e \notin Guids(store'[p]), Sole(e)'
                 PROVE  Reaching(q, "CDEL", e)'
      BY DEF SolesSpread
    <3>1. e \in Guids(store[q]) /\ Sole(e)
      BY <1>1 DEF Sole
    <3>2. e \in Guids(store[p])
      BY <1>2, <3>1, SolesEverywhere
    <3>3. p = h /\ e = g /\ q # h
      BY <1>1, <3>2
    <3>4. <<h, q>> \in To(q) /\ <<h, q>> \in From(h) /\ <<h, q>> \in Dials
      BY <3>3, MeshIs
    <3>5. f \in Frames(<<h, q>>)'
      BY <1>3, <3>4
    <3> QED BY <1>1, <3>3, <3>4, <3>5 DEF Reaching, To
  <2>3. FramesRight'
    BY <1>1, <1>3, MeshIs DEF FramesRight
  <2>4. ContentsSpread'
    BY <1>1 DEF ContentsSpread
  <2> QED BY <2>1, <2>2, <2>3, <2>4 DEF Histories
<1>5. Deleting'
  <2>1. Connected'
    BY <1>1, <1>2, ConnectedSame
  <2> QED BY <1>1, <1>2, <1>3, <2>1 DEF Deleting, AtRest, Settled
<1> QED BY <1>4, <1>5 DEF Phase

LEMMA StartsUndo ==
    ASSUME Unlimited, Mesh, Base, actions \in Nat, Quiet, Phase, NEW h \in Host, TryUndoDelete(h)
    PROVE  Histories' /\ Phase'
<1>1. PICK g \in EventId, f \in Frame :
             /\ g \in DOMAIN event
             /\ Adds(h, g) /\ Tells(h, f) /\ f.tag = "CLIP" /\ f.guid = g /\ f.replay = TRUE
             /\ actions' = actions + 1
             /\ UNCHANGED <<event, os, changed, guard, read, writing, acting, relay, wire, line, serving,
                            asked, unasked, adrift, shared>>
  BY UndoIs DEF Base
<1>2. Connected /\ changed = {} /\ (\A p \in Host : AtRest(p)) /\ \A d \in Dials : Frames(d) = {}
  BY QuietIs
<1>3. \A d \in Dials : \A x : x \in Frames(d)' <=> d \in From(h) /\ x = f
  BY <1>1, <1>2, ToldFrames
<1>4. Histories'
  <2>1. Grows
    BY <1>1 DEF Grows, Adds
  <2>2. actions' # 0
    BY <1>1
  <2>3. \A d \in Dials : \A x \in Frames(d)' : x.tag = "CLIP" /\ x.guid \in Guids(store'[d[1]])
    BY <1>1, <1>3, MeshIs DEF Adds
  <2>4. \A p \in Host : p # h => Reaching(p, "CLIP", g)'
    <3> SUFFICES ASSUME NEW p \in Host, p # h PROVE Reaching(p, "CLIP", g)'
      OBVIOUS
    <3>1. <<h, p>> \in To(p) /\ <<h, p>> \in From(h) /\ <<h, p>> \in Dials
      BY MeshIs
    <3> QED BY <1>1, <1>3, <3>1 DEF Reaching, To
  <2>5. \A q \in Host : \A e \in Guids(store'[q]) : e \in Guids(store[q]) \/ (q = h /\ e = g)
    BY <1>1 DEF Adds
  <2>6. \A q \in Host : \A e \in Guids(store'[q]) :
          e \in Guids(store[q]) \/ \A p \in Host : p # q => Reaching(p, "CLIP", e)'
    BY <2>4, <2>5
  <2> QED BY <1>1, <1>2, <2>1, <2>2, <2>3, <2>6, HistoriesStep DEF Base
<1>5. Spreading(0)'
  <2>1. \A d \in Dials : \A x \in Frames(d)' : x.tag = "CLIP" /\ ~Living(x)'
    BY <1>1, <1>3 DEF Living
  <2>2. \A p \in Host : Takings(0, p)' /\ (guard'[p] \in Writable => guard'[p] = shared')
    BY <1>1, <1>2 DEF AtRest, Takings, Settled
  <2>3. \A d \in Dials : line'[d] # None => End(d)' \in serving'
    BY <1>1, <1>2, Joined
  <2> QED BY <1>1, <1>2, <2>1, <2>2, <2>3 DEF Spreading, Flying, Shares, Connected
<1> QED BY <1>4, <1>5 DEF Phase

(* From rest, one end of a connection goes, and then the other: nothing is lost. *)
LEMMA StartsBreak ==
    ASSUME Mesh, Base, NEW d \in Dials, Break(d), (Quiet /\ Phase) \/ Severed(d)
    PROVE  Histories' /\ Phase'
<1>1. SharingTypes
  BY DEF Base, SharingBase
<1>2. /\ line' = [line EXCEPT ![d] = None]
      /\ \A c \in Dials : Frames(c)' \subseteq Frames(c)
      /\ UNCHANGED <<event, os, changed, guard, read, writing, acting, store, relay, actions, serving, adrift,
                     shared>>
  BY <1>1, BreakIs
<1>3. /\ changed = {} /\ relay = None /\ (\A p \in Host : AtRest(p))
      /\ (\A c \in Dials : Frames(c) = {}) /\ \A c \in Dials \ {d} : End(c) \in serving
  BY QuietIs DEF Connected, Severed
<1>4. \A c \in Dials : Frames(c)' = {}
  BY <1>2, <1>3
<1>5. Histories'
  <2>1. Grows
    BY <1>2 DEF Grows
  <2> QED BY <1>2, <1>3, <1>4, <2>1, HistoriesStep DEF Base
<1>6. Spreading(0)'
  <2>1. \A p \in Host : Takings(0, p)' /\ (guard'[p] \in Writable => guard'[p] = shared')
    BY <1>2, <1>3 DEF AtRest, Takings, Settled
  <2>2. ASSUME NEW c \in Dials, line'[c] # None PROVE End(c)' \in serving'
    <3>1. c # d /\ line'[c] = line[c]
      BY <1>1, <1>2, <2>2 DEF SharingTypes
    <3> QED BY <1>2, <1>3, <3>1 DEF End
  <2> QED BY <1>2, <1>3, <1>4, <2>1, <2>2 DEF Spreading, Flying, Shares
<1> QED BY <1>5, <1>6 DEF Phase

LEMMA StartsLeft ==
    ASSUME Mesh, Base, Quiet, Phase, NEW e \in Ends, OnIncomingPeerLeft(e), e = End(e[1])
    PROVE  Histories' /\ Phase'
<1>1. SharingTypes
  BY DEF Base, SharingBase
<1>2. PICK d \in Dials : d = e[1] /\ e = End(d) /\ e[2] = line[d] /\ line[d] # None
  BY EndsAre, ClipAssumption DEF End
<1>3. /\ serving' = serving \ {e}
      /\ \A c \in Dials : Frames(c)' \subseteq Frames(c)
      /\ UNCHANGED <<event, os, changed, guard, read, writing, acting, store, relay, actions, line, asked,
                     adrift, shared>>
  BY <1>1, <1>2, LeftIs
<1>4. /\ Connected /\ changed = {} /\ (\A p \in Host : AtRest(p))
      /\ (\A c \in Dials : Frames(c) = {}) /\ \A c \in Dials : End(c) \in serving
  BY QuietIs
<1>5. \A c \in Dials : Frames(c)' = {}
  BY <1>3, <1>4
<1>6. Histories'
  <2>1. Grows
    BY <1>3 DEF Grows
  <2> QED BY <1>3, <1>4, <1>5, <2>1, HistoriesStep DEF Base
<1>7. Severed(d)'
  <2>1. \A p \in Host : AtRest(p)'
    BY <1>3, <1>4 DEF AtRest, Settled
  <2>2. line'[d] # None /\ End(d)' \notin serving'
    BY <1>2, <1>3 DEF End
  <2>3. ASSUME NEW c \in Dials \ {d} PROVE End(c)' \in serving'
    BY <1>2, <1>3, <1>4 DEF End
  <2> QED BY <1>3, <1>4, <1>5, <2>1, <2>2, <2>3 DEF Severed, Connected
<1> QED BY <1>6, <1>7 DEF Phase

(* From rest, a one-shot client brings a clip: its event spreads.           *)
LEMMA StartsRelay ==
    ASSUME Mesh, Base, Quiet, Phase, NEW c \in Content \ Secret, RelayPayloads(c)
    PROVE  Histories' /\ Phase'
<1>1. /\ event' = Append(event, c)
      /\ relay' = [guid |-> Len(event'), stamp |-> clock', tried |-> {}]
      /\ shared' = c
      /\ UNCHANGED <<os, changed, guard, read, writing, store, acting, actions, queue, wire, line, serving,
                     asked, unasked, adrift>>
  BY DEF RelayPayloads, Time, clipVars, meshVars, linkVars, lossVars
<1>2. c \in Sharable /\ c # Blank /\ event \in Seq(Sharable)
  BY ClipAssumption DEF Base, SharingBase, SharingTypes, Sharable
<1>3. /\ Len(event') \in EventId /\ Len(event') \in DOMAIN event' /\ event'[Len(event')] = c
      /\ Len(event') \notin DOMAIN event
      /\ \A e \in DOMAIN event : e \in DOMAIN event' /\ event'[e] = event[e]
  BY <1>1, <1>2, EventAdded
<1>4. PICK g \in EventId : g = Len(event') /\ g # 0
  BY <1>3 DEF EventId
<1>5. Connected /\ changed = {} /\ (\A p \in Host : AtRest(p)) /\ \A d \in Dials : Frames(d) = {}
  BY QuietIs
<1>6. \A d \in Dials : Frames(d)' = {}
  BY <1>1, <1>5, FramesSame
<1>7. Histories'
  <2>1. Grows
    BY <1>1, <1>3 DEF Grows
  <2> QED BY <1>1, <1>5, <1>6, <2>1, HistoriesStep DEF Base
<1>8. relay'.guid = g
  BY <1>1, <1>4
<1>9. relay' # None
  <2>1. clock' \in Nat
    BY DEF RelayPayloads, Time, Base, SharingBase, SharingTypes
  <2>2. PICK t \in Nat : t = clock'
    BY <2>1
  <2>3. [guid |-> g, stamp |-> t, tried |-> {}] \in Relay
    BY DEF Relay
  <2> QED BY <1>1, <1>4, <2>2, <2>3, NoneIs
<1>10. Spreading(g)'
  <2>1. \A p \in Host : Takings(g, p)'
    BY <1>1, <1>5 DEF AtRest, Takings, Settled
  <2>2. \A p \in Host : Awaits(p)'
    BY <1>9 DEF Awaits
  <2>3. g \in DOMAIN event' /\ event'[g] = c /\ event'[g] # Blank /\ g \notin DOMAIN event
    BY <1>2, <1>3, <1>4
  <2>4. Flying(g)'
    BY <1>1, <1>4, <1>6, <1>8, <2>3 DEF Flying
  <2>5. Shares(g)'
    <3>1. ASSUME NEW p \in Host, guard'[p] = c PROVE ~Sole(g)'
      <4>1. guard[p] = c /\ c \in Writable
        BY <1>1, <3>1 DEF Writable
      <4>2. PICK e \in DOMAIN event : event[e] = c
        BY <4>1 DEF Base, Histories, GuardsKnown
      <4> QED BY <1>3, <2>3, <4>2 DEF Sole
    <3>2. \A p \in Host : writing'[p] = None
      BY <1>1, <1>5 DEF AtRest
    <3> QED BY <1>1, <2>3, <3>1, <3>2 DEF Shares, Live
  <2>6. \A d \in Dials : line'[d] # None => End(d)' \in serving'
    BY <1>1, <1>5, Joined
  <2> QED BY <2>1, <2>2, <2>4, <2>5, <2>6 DEF Spreading
<1> QED BY <1>7, <1>10 DEF Phase, EventId

(* The clipboard thread of the host whose user copied: what it cannot read, or
   its guard holds, goes nowhere; what it publishes spreads.                 *)
LEMMA CopyingRead ==
    ASSUME Base, NEW h \in Host, Copying(h), NEW p \in Host, ReadClipboardData(p)
    PROVE  Histories' /\ Phase'
<1>1. p = h /\ h \in changed /\ read[h] = None /\ ~os[h].ours
  BY DEF Copying, ReadClipboardData
<1>2. /\ changed' = changed \ {h}
      /\ read' = IF os[h].what = Unreadable THEN read ELSE [read EXCEPT ![h] = os[h]]
      /\ UNCHANGED <<event, os, guard, writing, store, acting, relay, actions, queue, wire, line, serving,
                     asked, unasked, adrift, shared>>
  BY <1>1 DEF ReadClipboardData, userVars, meshVars, linkVars, lossVars, calmVars
<1>3. Histories'
  BY <1>2, SameHistories DEF Base
<1>4. /\ Connected' /\ Connected /\ \A d \in Dials : Frames(d)' = {}
      /\ \A d \in Dials : line'[d] # None => End(d)' \in serving'
  BY <1>2, FramesSame, ConnectedSame, Joined DEF Copying
<1>5. os[h] \in [what : Content \cup {Unreadable}, ours : BOOLEAN]
  BY DEF Base, SharingBase, SharingTypes
<1>6. CASE os[h].what = Unreadable
  <2>1. os[h].what \notin Writable
    BY <1>6, ClipAssumption DEF Writable
  <2>2. \A q \in Host : Takings(0, q)' /\ (guard'[q] \in Writable => guard'[q] = shared')
    BY <1>1, <1>2, <1>6, <2>1 DEF Copying, Takings, Settled
  <2>3. Spreading(0)'
    BY <1>4, <2>2 DEF Spreading, Flying, Shares, Connected
  <2> QED BY <1>3, <2>3 DEF Phase
<1>7. CASE os[h].what # Unreadable
  <2>1. os[h] \in [what : Content, ours : BOOLEAN]
    BY <1>5, <1>7
  <2>2. os[h] # None
    BY <2>1, NoneIs
  <2>3. read'[h] = os[h] /\ \A q \in Host : q # h => read'[q] = read[q]
    BY <1>2, <1>7 DEF Base, SharingBase, SharingTypes
  <2>4. Copying(h)'
    BY <1>1, <1>2, <1>4, <2>2, <2>3 DEF Copying, Settled
  <2> QED BY <1>3, <2>4 DEF Phase
<1> QED BY <1>6, <1>7

LEMMA PublishHistories ==
    ASSUME Mesh, Base, NEW h \in Host, NEW g \in EventId, NEW f \in Frame, NEW b \in Sharable,
           Publishes(h, g, f, b), UNCHANGED <<wire, actions, adrift>>,
           \A d \in Dials : \A x \in Frames(d) : x.tag = "CLIP"
    PROVE  /\ Histories'
           /\ g \in DOMAIN event' /\ g \notin DOMAIN event /\ event'[g] = b
           /\ \A e \in DOMAIN event : e \in DOMAIN event' /\ event'[e] = event[e]
           /\ g \in Guids(store'[h])
           /\ guard'[h] = read[h].what /\ \A p \in Host : p # h => guard'[p] = guard[p]
           /\ \A d \in Dials : \A x : x \in Frames(d)' <=> x \in Frames(d) \/ (d \in From(h) /\ x = f)
<1>1. event \in Seq(Sharable) /\ event' = Append(event, b) /\ guard \in [Host -> Content \cup {None}]
  BY DEF Publishes, Base, SharingBase, SharingTypes
<1>2. /\ Len(event') = g /\ event'[Len(event')] = b /\ g \in DOMAIN event' /\ g \notin DOMAIN event
      /\ \A e \in DOMAIN event : event'[e] = event[e] /\ e \in DOMAIN event'
  BY <1>1, EventAdded DEF Publishes
<1>3. adrift' = adrift
  OBVIOUS
<1>4. Grows /\ g \in Guids(store'[h])
  BY <1>2, <1>3 DEF Publishes, Grows
<1>5. guard'[h] = read[h].what /\ \A p \in Host : p # h => guard'[p] = guard[p]
  BY <1>1 DEF Publishes
<1>6. \A d \in Dials : \A x : x \in Frames(d)' <=> x \in Frames(d) \/ (d \in From(h) /\ x = f)
  BY FramesSame DEF Publishes, Frames
<1>7. Histories'
  <2>1. \A p \in Host : guard'[p] = guard[p] \/ guard'[p] \notin Writable
                        \/ \E e \in DOMAIN event' : event'[e] = guard'[p]
    BY <1>2, <1>5 DEF Publishes, Writable
  <2>2. \A d \in Dials : \A x \in Frames(d)' :
          x \in Frames(d) \/ (x.tag = "CLIP" /\ x.guid \in Guids(store'[d[1]]))
    BY <1>4, <1>6, MeshIs DEF Publishes
  <2>3. \A p \in Host : p # h => Reaching(p, "CLIP", g)'
    <3> SUFFICES ASSUME NEW p \in Host, p # h PROVE Reaching(p, "CLIP", g)'
      OBVIOUS
    <3>1. <<h, p>> \in To(p) /\ <<h, p>> \in From(h) /\ <<h, p>> \in Dials
      BY MeshIs
    <3>2. f \in Frames(<<h, p>>)' /\ f.tag = "CLIP" /\ f.guid = g
      BY <1>6, <3>1 DEF Publishes
    <3> QED BY <3>1, <3>2 DEF Reaching, To
  <2>4. \A q \in Host : \A e \in Guids(store'[q]) : e \in Guids(store[q]) \/ (q = h /\ e = g)
    BY DEF Publishes
  <2>5. \A q \in Host : \A e \in Guids(store'[q]) :
          e \in Guids(store[q]) \/ \A p \in Host : p # q => Reaching(p, "CLIP", e)'
    BY <2>3, <2>4
  <2> QED BY <1>4, <1>6, <2>1, <2>2, <2>5, HistoriesStep DEF Base
<1> QED BY <1>2, <1>4, <1>5, <1>6, <1>7

LEMMA CopyingNotification ==
    ASSUME Unlimited, Mesh, Base, NEW h \in Host, Copying(h), NEW p \in Host, OnClipboardNotification(p)
    PROVE  Histories' /\ Phase'
<1> DEFINE x == read[h].what
<1>1. p = h /\ h \notin changed /\ read[h] # None /\ read[h] = os[h] /\ os[h].what = x
  BY DEF Copying, OnClipboardNotification, linkVars, lossVars
<1>2. /\ read' = [read EXCEPT ![h] = None]
      /\ UNCHANGED <<os, changed, writing, acting, relay, wire, line, serving, asked, unasked, adrift,
                     actions, shared>>
  BY <1>1 DEF calmVars, OnClipboardNotification, linkVars, lossVars, userVars
<1>3. x \in Content /\ read'[h] = None /\ \A q \in Host : q # h => read'[q] = read[q]
  BY <1>1, <1>2 DEF Base, SharingBase, SharingTypes
<1>4. /\ changed = {} /\ Connected' /\ \A d \in Dials : Frames(d) = {}
      /\ \A d \in Dials : line'[d] # None => End(d)' \in serving'
  <2>1. changed \subseteq Host
    BY DEF Base, SharingBase, SharingTypes
  <2> QED BY <1>1, <1>2, <2>1, ConnectedSame, Joined DEF Copying
<1>5. CASE guard[h] = x
  <2>1. UNCHANGED <<event, guard, store, queue>>
    BY <1>1, <1>5 DEF OnClipboardNotification, linkVars, lossVars
  <2>2. Histories'
    BY <1>2, <2>1, SameHistories DEF Base
  <2>3. \A q \in Host : guard[q] \in Writable => guard[q] = shared
    BY <1>1, <1>5 DEF Copying
  <2>4. \A q \in Host : Takings(0, q)'
    BY <1>1, <1>2, <1>3, <1>4, <1>5, <2>1 DEF Copying, Takings, Settled
  <2>5. Spreading(0)'
    <3>1. relay' = None /\ \A d \in Dials : Frames(d)' = {}
      BY <1>2, <1>4, <2>1, FramesSame DEF Connected
    <3> QED BY <1>2, <1>4, <2>1, <2>3, <2>4, <3>1 DEF Spreading, Flying, Shares
  <2> QED BY <2>2, <2>5 DEF Phase
<1>6. CASE guard[h] # x
  <2>1. PICK g \in EventId, f \in Frame, b \in Sharable : Publishes(h, g, f, b)
    BY <1>1, <1>6, PublishIs DEF Base
  <2>2. /\ Histories'
        /\ g \in DOMAIN event' /\ g \notin DOMAIN event /\ event'[g] = b
        /\ \A e \in DOMAIN event : e \in DOMAIN event' /\ event'[e] = event[e]
        /\ g \in Guids(store'[h])
        /\ guard'[h] = read[h].what /\ \A q \in Host : q # h => guard'[q] = guard[q]
        /\ \A d \in Dials : \A y : y \in Frames(d)' <=> y \in Frames(d) \/ (d \in From(h) /\ y = f)
    BY <1>2, <1>4, <2>1, PublishHistories
  <2>3. \A d \in Dials : \A y : y \in Frames(d)' <=> d \in From(h) /\ y = f
    BY <1>4, <2>2
  <2>4. b = (IF x \in Secret THEN Blank ELSE x) /\ f.tag = "CLIP" /\ f.guid = g /\ f.replay = FALSE
    BY <2>1 DEF Publishes
  <2>5. \A e \in Nat : \A q \in Host : Takings(e, q)'
    <3>1. \A q \in Host : Settled(q)'
      BY <1>1, <1>2, <2>2 DEF Copying, Settled
    <3>2. \A q \in Host : q \notin changed' /\ read'[q] = None /\ writing'[q] = None /\ acting'[q] = None
      BY <1>2, <1>3, <1>4 DEF Copying
    <3> QED BY <3>1, <3>2 DEF Takings
  <2>6. CASE x \in Secret
    <3>1. ~Living(f)'
      BY <2>2, <2>4, <2>6 DEF Living
    <3>2. \A q \in Host : guard'[q] \in Writable => guard'[q] = shared'
      BY <1>1, <1>2, <2>2, <2>6 DEF Copying, Writable
    <3>3. Spreading(0)'
      BY <1>4, <2>3, <2>4, <2>5, <3>1, <3>2 DEF Spreading, Flying, Shares, Connected
    <3> QED BY <2>2, <3>3 DEF Phase
  <2>7. CASE x \notin Secret
    <3>1. x \in Writable /\ shared' = x /\ event'[g] = x /\ x # Blank
      BY <1>1, <1>2, <1>3, <2>2, <2>4, <2>7, ClipAssumption DEF Copying, Writable
    <3>2. Living(f)'
      BY <2>4, <3>1 DEF Living
    <3>3. \A q \in Host : q # h => Awaits(q)'
      <4> SUFFICES ASSUME NEW q \in Host, q # h PROVE Awaits(q)'
        OBVIOUS
      <4>1. <<h, q>> \in To(q) /\ <<h, q>> \in From(h) /\ <<h, q>> \in Dials
        BY MeshIs
      <4> QED BY <2>3, <3>2, <4>1 DEF Awaits, To
    <3>4. Flying(g)'
      BY <1>4, <2>3, <2>4, <3>1 DEF Flying, Connected, EventId
    <3>5. Shares(g)'
      <4>1. ASSUME NEW q \in Host, q # h, guard'[q] = x PROVE ~Sole(g)'
        <5>1. guard[q] = x
          BY <2>2, <4>1
        <5>2. PICK e \in DOMAIN event : event[e] = x
          BY <3>1, <4>1, <5>1 DEF Base, Histories, GuardsKnown
        <5> QED BY <2>2, <3>1, <5>2 DEF Sole
      <4>2. \A q \in Host : writing'[q] = None
        BY <1>2 DEF Copying
      <4> QED BY <2>2, <3>1, <4>1, <4>2 DEF Shares, Live
    <3>6. \A q \in Host : guard'[q] \in Writable => guard'[q] = shared' \/ Awaits(q)'
      BY <2>2, <3>1, <3>3
    <3>7. Spreading(g)'
      BY <1>4, <2>5, <3>4, <3>5, <3>6 DEF Spreading, EventId
    <3> QED BY <2>2, <3>7 DEF Phase, EventId
  <2> QED BY <2>6, <2>7
<1> QED BY <1>5, <1>6

(* A delete on its way takes its event out of the lists, one by one; the host
   it comes from does not list it any more.                                  *)
LEMMA DeletingDrain ==
    ASSUME Base, Deleting, NEW d \in Dials, DrainOutboundMessages(d)
    PROVE  Histories' /\ Phase'
<1>1. /\ \A c \in Dials : Frames(c)' = Frames(c)
      /\ UNCHANGED <<event, os, changed, guard, read, writing, store, acting, relay, actions, line, serving,
                     asked, shared>>
  <2>1. SharingTypes /\ End(d) \in serving
    BY DEF Base, SharingBase, Deleting, Connected
  <2>2. \A c \in Dials : Frames(c)' = Frames(c)
    BY <2>1, DrainIs
  <2> QED BY <2>2 DEF DrainOutboundMessages, clipVars, userVars, calmVars
<1>2. Histories'
  BY <1>1, FramesKept DEF Base
<1>3. Deleting'
  <2>1. Connected'
    BY <1>1, ConnectedSame DEF Deleting
  <2> QED BY <1>1, <2>1 DEF Deleting, AtRest, Settled
<1> QED BY <1>2, <1>3 DEF Phase

LEMMA DeletingReceive ==
    ASSUME Unlimited, Mesh, Base, Deleting, NEW e \in Ends, NEW d \in Dials, d = e[1], Receive(e)
    PROVE  Histories' /\ Phase'
<1> DEFINE r == d[2]
<1>1. /\ r \in Host /\ d[1] \in Host /\ d[1] # r
      /\ UNCHANGED <<event, os, changed, guard, read, acting, relay, actions, line, serving, asked, unasked,
                     adrift, shared>>
  BY ReceiveIs, MeshIs DEF Base
<1>2. PICK f \in Frame :
        /\ f \in Frames(d)
        /\ \A c \in Dials : \A x : x \in Frames(c) <=> x \in Frames(c)' \/ (c = d /\ x = f)
        /\ \/ f.tag = "CLIP"
           \/ /\ f.tag = "CDEL" /\ UNCHANGED writing
              /\ store' = [store EXCEPT ![r] = RemoveByEventGuid(@, f.guid)]
  BY ReceiveIs DEF Base
<1>3. f.tag = "CDEL" /\ f.tag # "CLIP"
  BY <1>2 DEF Deleting
<1>4. /\ \A p \in Host : p # r => store'[p] = store[p]
      /\ Guids(store'[r]) = Guids(store[r]) \ {f.guid}
  <2>1. PICK h \in Host : h = r
    BY <1>1
  <2>2. store' = [store EXCEPT ![h] = RemoveByEventGuid(@, f.guid)]
    BY <1>2, <1>3, <2>1
  <2>3. SharingTypes
    BY DEF Base, SharingBase
  <2> QED BY <2>1, <2>2, <2>3, DeletedFrom
<1>5. actions # 0
  BY <1>2, <1>3 DEF Base, Listed
<1>6. Histories'
  <2>1. SolesSpread'
    <3> SUFFICES ASSUME NEW q \in Host, NEW p \in Host, NEW x \in Guids(store'[q]), x \notin Guids(store'[p]), Sole(x)'
                 PROVE  Reaching(q, "CDEL", x)'
      BY DEF SolesSpread
    <3>1. x \in Guids(store[q]) /\ Sole(x) /\ ~(q = r /\ x = f.guid)
      BY <1>1, <1>4 DEF Sole
    <3>2. \A c \in Host : x \notin Guids(store[c]) => Reaching(q, "CDEL", x)
      <4>1. \A c \in Host : ~Reaching(c, "CLIP", x)
        BY MeshIs DEF Reaching, Deleting
      <4> QED BY <3>1, <4>1 DEF Base, Histories, SolesSpread
    <3>3. Reaching(q, "CDEL", x)
      <4>1. CASE x \notin Guids(store[p])
        BY <3>2, <4>1
      <4>2. CASE x \in Guids(store[p])
        <5>1. x = f.guid
          BY <1>4, <4>2
        <5>2. x \notin Guids(store[d[1]])
          BY <1>2, <1>3, <5>1 DEF Base, Histories, FramesRight
        <5> QED BY <1>1, <3>2, <5>2
      <4> QED BY <4>1, <4>2
    <3>4. PICK c \in To(q) : \E y \in Frames(c) : y.tag = "CDEL" /\ y.guid = x
      BY <3>3 DEF Reaching
    <3>5. PICK y \in Frames(c) : y.tag = "CDEL" /\ y.guid = x
      BY <3>4
    <3>6. c \in Dials /\ c[2] = q
      BY <3>4, MeshIs
    <3>7. y \in Frames(c)'
      BY <1>2, <3>1, <3>5, <3>6
    <3> QED BY <3>4, <3>5, <3>7 DEF Reaching, To
  <2>2. FramesRight'
    <3>1. \A p \in Host : Guids(store'[p]) \subseteq Guids(store[p])
      BY <1>4
    <3>2. \A c \in Dials : \A x \in Frames(c)' : x \in Frames(c) /\ x.tag = "CDEL" /\ x.tag # "CLIP" /\ c[1] \in Host
      BY <1>2, MeshIs DEF Deleting
    <3> QED BY <3>1, <3>2 DEF Base, Histories, FramesRight
  <2>3. GuardsKnown'
    BY <1>1 DEF Base, Histories, GuardsKnown
  <2> QED BY <1>1, <1>5, <2>1, <2>2, <2>3 DEF Histories, ContentsSpread
<1>7. Deleting'
  <2>1. Connected'
    BY <1>1, ConnectedSame DEF Deleting
  <2> QED BY <1>1, <1>2, <1>3, <2>1 DEF Deleting, AtRest, Settled
<1> QED BY <1>6, <1>7 DEF Phase

(* While contents spread, the clipboard threads see only what the program itself
   wrote.  What the guard does not know they publish again, as one more event of
   the same contents.                                                        *)
LEMMA SpreadingRead ==
    ASSUME Base, NEW g \in Nat, Spreading(g), NEW h \in Host, ReadClipboardData(h)
    PROVE  Histories' /\ Phase'
<1>1. /\ h \in changed /\ changed' = changed \ {h}
      /\ read' = read \/ read' = [read EXCEPT ![h] = os[h]]
      /\ UNCHANGED <<event, os, guard, writing, store, acting, relay, actions, queue, wire, line, serving,
                     shared>>
  BY DEF ReadClipboardData, userVars, meshVars, linkVars, lossVars, calmVars
<1>2. Histories'
  BY <1>1, SameHistories DEF Base
<1>3. \A p \in Host : Takings(g, p) /\ (guard[p] \in Writable => guard[p] = shared \/ Awaits(p))
  BY DEF Spreading
<1>4. \A p \in Host : read'[p] = read[p] \/ (p = h /\ read'[p] = os[p])
  BY <1>1 DEF Base, SharingBase, SharingTypes
<1>5. \A p \in Host : Takings(g, p)'
  BY <1>1, <1>3, <1>4 DEF Takings, Settled
<1>6. \A p \in Host : Awaits(p)' <=> Awaits(p)
  BY <1>1, FramesSame DEF Awaits, Living, To
<1>7. Flying(g)' /\ Shares(g)'
  BY <1>1, FramesSame DEF Spreading, Flying, Shares, Living, Live, Sole
<1>8. \A d \in Dials : line'[d] # None => End(d)' \in serving'
  BY <1>1 DEF Spreading, End
<1>9. Spreading(g)'
  BY <1>1, <1>3, <1>5, <1>6, <1>7, <1>8 DEF Spreading
<1> QED BY <1>2, <1>9 DEF Phase

LEMMA SpreadingNotification ==
    ASSUME Unlimited, Mesh, Base, NEW g \in Nat, Spreading(g), NEW h \in Host, OnClipboardNotification(h)
    PROVE  Histories' /\ Phase'
<1>1. /\ \A p \in Host : Takings(g, p) /\ (guard[p] \in Writable => guard[p] = shared \/ Awaits(p))
      /\ Flying(g) /\ Shares(g)
  BY DEF Spreading
<1>2. /\ read[h] # None /\ read' = [read EXCEPT ![h] = None]
      /\ UNCHANGED <<os, changed, writing, acting, relay, wire, line, serving, asked, adrift, actions, shared>>
  BY DEF OnClipboardNotification, linkVars, lossVars, userVars, calmVars
<1>3. /\ g # 0 /\ read[h].what = shared /\ os[h].what = shared
      /\ Live(g) /\ g \in DOMAIN event /\ event[g] = shared
  BY <1>1, <1>2 DEF Takings, Shares, Live
<1>4. read'[h] = None /\ \A p \in Host : p # h => read'[p] = read[p]
  BY <1>2 DEF Base, SharingBase, SharingTypes
<1>5. \A d \in Dials : line'[d] # None => End(d)' \in serving'
  BY <1>2 DEF Spreading, End
<1>6. CASE guard[h] = shared
  <2>1. UNCHANGED <<event, guard, store, queue>>
    BY <1>3, <1>6 DEF OnClipboardNotification
  <2>2. Histories'
    BY <1>2, <2>1, SameHistories DEF Base
  <2>3. \A p \in Host : Takings(g, p)'
    BY <1>1, <1>2, <1>4, <2>1 DEF Takings, Settled
  <2>4. \A p \in Host : Awaits(p)' <=> Awaits(p)
    BY <1>2, <2>1, FramesSame DEF Awaits, Living, To
  <2>5. Flying(g)' /\ Shares(g)'
    BY <1>1, <1>2, <2>1, FramesSame DEF Flying, Shares, Living, Live, Sole
  <2>6. Spreading(g)'
    BY <1>1, <1>2, <1>5, <2>1, <2>3, <2>4, <2>5 DEF Spreading
  <2> QED BY <2>2, <2>6 DEF Phase
<1>7. CASE guard[h] # shared
  <2>1. PICK e \in EventId, f \in Frame, b \in Sharable : Publishes(h, e, f, b)
    BY <1>3, <1>7, PublishIs DEF Base
  <2>2. \A d \in Dials : \A x \in Frames(d) : x.tag = "CLIP" /\ (Living(x) => event[x.guid] = shared)
    BY <1>1 DEF Flying
  <2>3. /\ Histories'
        /\ e \in DOMAIN event' /\ e \notin DOMAIN event /\ event'[e] = b
        /\ \A x \in DOMAIN event : x \in DOMAIN event' /\ event'[x] = event[x]
        /\ guard'[h] = read[h].what /\ \A p \in Host : p # h => guard'[p] = guard[p]
        /\ \A d \in Dials : \A x : x \in Frames(d)' <=> x \in Frames(d) \/ (d \in From(h) /\ x = f)
    BY <1>2, <2>1, <2>2, PublishHistories
  <2>4. event[g] \in Content \ Secret
    BY <1>3, EventIs DEF Base, SharingBase, SharingTypes, Live
  <2>5. b = shared /\ shared # Blank /\ f.tag = "CLIP" /\ f.guid = e /\ f.replay = FALSE
    BY <1>3, <2>1, <2>4 DEF Publishes, Live
  <2>6. Living(f)'
    BY <2>3, <2>5 DEF Living
  <2>7. ASSUME NEW p \in Host PROVE Takings(g, p)'
    <3>1. writing[p] # None => writing[p].guid \in DOMAIN event
      BY DEF Base, SharingBase, EventsKnown, Live
    <3>2. CASE p = h
      BY <1>1, <1>2, <1>3, <1>4, <2>3, <3>1, <3>2 DEF Takings, Settled
    <3>3. CASE p # h
      BY <1>1, <1>2, <1>4, <2>3, <3>1, <3>3 DEF Takings, Settled
    <3> QED BY <3>2, <3>3
  <2>8. ASSUME NEW p \in Host, guard'[p] \in Writable PROVE guard'[p] = shared' \/ Awaits(p)'
    <3>1. CASE p = h
      BY <1>2, <1>3, <2>3, <3>1
    <3>2. CASE p # h
      <4>1. <<h, p>> \in To(p) /\ <<h, p>> \in From(h) /\ <<h, p>> \in Dials
        BY <3>2, MeshIs
      <4> QED BY <2>3, <2>6, <4>1 DEF Awaits, To
    <3> QED BY <3>1, <3>2
  <2>9. Flying(g)'
    <3>1. relay' # None => g # 0 /\ event'[relay'.guid] = shared'
      <4>1. relay # None => relay.guid \in DOMAIN event
        BY DEF Base, SharingBase, EventsKnown, Live
      <4> QED BY <1>1, <1>2, <2>3, <4>1 DEF Flying
    <3>2. ASSUME NEW d \in Dials, NEW x \in Frames(d)'
          PROVE  x.tag = "CLIP" /\ (Living(x)' => g # 0 /\ event'[x.guid] = shared')
      <4>1. CASE x \in Frames(d)
        <5>1. x.guid \in DOMAIN event
          BY <4>1 DEF Base, SharingBase, EventsKnown
        <5> QED BY <1>2, <1>3, <2>2, <2>3, <4>1, <5>1 DEF Living
      <4>2. CASE x = f
        BY <1>2, <1>3, <2>3, <2>5, <4>2
      <4> QED BY <2>3, <4>1, <4>2
    <3> QED BY <3>1, <3>2 DEF Flying
  <2>10. Shares(g)'
    <3>1. Live(g)' /\ event'[g] = shared'
      BY <1>2, <1>3, <2>3 DEF Live
    <3>2. ~Sole(g)'
      BY <1>3, <2>3, <2>5 DEF Sole
    <3> QED BY <3>1, <3>2 DEF Shares
  <2>11. Spreading(g)'
    BY <1>5, <2>7, <2>8, <2>9, <2>10 DEF Spreading
  <2> QED BY <2>3, <2>11 DEF Phase
<1> QED BY <1>6, <1>7

(* The clipboard of one host gets what its receiving thread holds, or the guard
   remembers it.                                                             *)
LEMMA TakesIn ==
    ASSUME Mesh, Base, NEW g \in Nat, Spreading(g), NEW h \in Host, writing[h] # None,
           UNCHANGED <<event, read, store, acting, relay, actions, queue, wire, line, serving, adrift, shared>>,
           changed' \subseteq changed \cup {h},
           h \in changed' \/ read[h] # None => os'[h] = [what |-> shared, ours |-> TRUE],
           read[h] # None => read[h] = os'[h],
           \A p \in Host : p # h => os'[p] = os[p] /\ guard'[p] = guard[p] /\ writing'[p] = writing[p],
           guard'[h] \in {guard[h], shared},
           writing'[h] # None => writing'[h].guid = writing[h].guid,
           writing'[h] # None => guard'[h] = guard[h] /\ writing'[h].put,
           writing'[h] = None => guard'[h] = shared,
           \/ os'[h].what = shared
           \/ os'[h] = os[h] /\ guard'[h] = guard[h] /\ writing'[h] = None /\ ~writing[h].put
    PROVE  Histories' /\ Phase'
<1>1. /\ \A p \in Host : Takings(g, p) /\ (guard[p] \in Writable => guard[p] = shared \/ Awaits(p))
      /\ Flying(g) /\ Shares(g)
  BY DEF Spreading
<1>2. event[writing[h].guid] = shared /\ g # 0
  BY <1>1 DEF Takings
<1>3. Live(g) /\ event[g] = shared /\ (Sole(g) => g \in Guids(store[h]))
  BY <1>1, <1>2 DEF Shares
<1>4. Histories'
  <2>1. \A p \in Host : guard'[p] = guard[p] \/ \E e \in DOMAIN event' : event'[e] = guard'[p]
    BY <1>3 DEF Live
  <2>2. Grows /\ \A d \in Dials : Frames(d)' = Frames(d)
    BY FramesSame DEF Grows
  <2>3. \A d \in Dials : \A f \in Frames(d) : f.tag = "CLIP"
    BY <1>1 DEF Flying
  <2> QED BY <2>1, <2>2, <2>3, HistoriesStep DEF Base
<1>5. ASSUME NEW p \in Host PROVE Takings(g, p)'
  <2>1. CASE p = h
    BY <1>1, <1>2, <2>1 DEF Takings, Settled
  <2>2. CASE p # h
    BY <1>1, <2>2 DEF Takings, Settled
  <2> QED BY <2>1, <2>2
<1>6. ASSUME NEW p \in Host, guard'[p] \in Writable PROVE guard'[p] = shared' \/ Awaits(p)'
  <2>1. CASE p = h
    BY <2>1 DEF Awaits
  <2>2. CASE p # h
    BY <1>1, <1>6, <2>2, FramesSame DEF Awaits, Living, To
  <2> QED BY <2>1, <2>2
<1>7. Flying(g)'
  BY <1>1, FramesSame DEF Flying, Living
<1>8. Shares(g)'
  <2>1. \A p \in Host : Sole(g) /\ (guard'[p] = shared \/ writing'[p] # None) => g \in Guids(store[p])
    BY <1>1, <1>2, <1>3 DEF Shares
  <2> QED BY <1>3, <2>1 DEF Shares, Live, Sole
<1>9. \A d \in Dials : line'[d] # None => End(d)' \in serving'
  BY DEF Spreading, End
<1> QED BY <1>4, <1>5, <1>6, <1>7, <1>8, <1>9 DEF Phase, Spreading

LEMMA SpreadingSet ==
    ASSUME Mesh, Base, NEW g \in Nat, Spreading(g), NEW h \in Host, SetClipboardData(h), calm'
    PROVE  Histories' /\ Phase'
<1> DEFINE c == event[writing[h].guid]
<1>1. writing[h] \in [guid : EventId, put : BOOLEAN] /\ writing[h] # None /\ ~writing[h].put
  BY DEF SetClipboardData, Base, SharingBase, SharingTypes
<1>2. /\ g # 0 /\ c = shared
      /\ h \in changed \/ read[h] # None => os[h] = [what |-> shared, ours |-> TRUE]
      /\ read[h] # None => read[h] = os[h]
  BY <1>1 DEF Spreading, Takings
<1>4. \/ /\ guard[h] = c
         /\ writing' = [writing EXCEPT ![h] = None]
         /\ UNCHANGED <<os, changed, guard>>
      \/ /\ guard[h] # c /\ os' = [os EXCEPT ![h] = [what |-> c, ours |-> TRUE]] /\ changed' = changed \cup {h}
         /\ IF h \in Marks
            THEN /\ guard' = [guard EXCEPT ![h] = c]
                 /\ writing' = [writing EXCEPT ![h] = None]
            ELSE /\ writing' = [writing EXCEPT ![h] = [writing[h] EXCEPT !.put = TRUE]] /\ UNCHANGED guard
  BY DEF SetClipboardData, Put
<1>5. UNCHANGED <<event, read, store, acting, relay, actions, queue, wire, line, serving, asked, unasked,
                  adrift, shared>>
  BY DEF SetClipboardData, userVars, meshVars, linkVars, lossVars
<1>6. PICK w \in [guid : EventId, put : BOOLEAN] :
        w = [writing[h] EXCEPT !.put = TRUE] /\ w.guid = writing[h].guid /\ w.put /\ w # None
  BY <1>1, WriteIs, NoneIs
<1>7. SharingTypes
  BY DEF Base, SharingBase
<1> HIDE DEF c
<1>8. CASE /\ guard[h] = c
           /\ writing' = [writing EXCEPT ![h] = None]
           /\ UNCHANGED <<os, changed, guard>>
  <2>1. writing'[h] = None /\ \A p \in Host : p # h => writing'[p] = writing[p]
    BY <1>7, <1>8 DEF SharingTypes
  <2>2. /\ h \in changed' \/ read[h] # None => os'[h] = [what |-> shared, ours |-> TRUE]
        /\ read[h] # None => read[h] = os'[h]
    BY <1>2, <1>8
  <2> QED BY <1>1, <1>2, <1>5, <1>8, <2>1, <2>2, TakesIn
<1>9. CASE /\ os' = [os EXCEPT ![h] = [what |-> c, ours |-> TRUE]] /\ changed' = changed \cup {h}
           /\ IF h \in Marks
              THEN /\ guard' = [guard EXCEPT ![h] = c]
                   /\ writing' = [writing EXCEPT ![h] = None]
              ELSE /\ writing' = [writing EXCEPT ![h] = w] /\ UNCHANGED guard
  <2>1. /\ os'[h] = [what |-> shared, ours |-> TRUE]
        /\ \A p \in Host : p # h => os'[p] = os[p]
    BY <1>2, <1>7, <1>9 DEF SharingTypes
  <2>2. os'[h].what = shared /\ (read[h] # None => read[h] = os'[h])
    BY <1>2, <2>1
  <2>3. CASE h \in Marks
    <3>1. guard'[h] = c /\ writing'[h] = None /\ \A p \in Host : p # h => guard'[p] = guard[p] /\ writing'[p] = writing[p]
      BY <1>7, <1>9, <2>3 DEF SharingTypes
    <3> QED BY <1>1, <1>2, <1>5, <1>9, <2>1, <2>2, <3>1, TakesIn
  <2>4. CASE h \notin Marks
    <3>1. writing'[h] = w /\ UNCHANGED guard /\ \A p \in Host : p # h => writing'[p] = writing[p]
      BY <1>7, <1>9, <2>4 DEF SharingTypes
    <3> QED BY <1>1, <1>2, <1>5, <1>6, <1>9, <2>1, <2>2, <3>1, TakesIn
  <2> QED BY <2>3, <2>4
<1> QED BY <1>4, <1>6, <1>8, <1>9

LEMMA SpreadingRemember ==
    ASSUME Mesh, Base, NEW g \in Nat, Spreading(g), NEW h \in Host, RememberCurrent(h)
    PROVE  Histories' /\ Phase'
<1>1. writing[h] \in [guid : EventId, put : BOOLEAN] /\ writing[h] # None /\ writing[h].put
  BY DEF RememberCurrent, Base, SharingBase, SharingTypes
<1>2. /\ g # 0 /\ event[writing[h].guid] = shared /\ os[h].what = shared
      /\ h \in changed \/ read[h] # None => os[h] = [what |-> shared, ours |-> TRUE]
      /\ read[h] # None => read[h] = os[h]
  BY <1>1 DEF Spreading, Takings
<1>3. /\ guard' = [guard EXCEPT ![h] = shared]
      /\ changed' = changed \ {h}
      /\ writing' = [writing EXCEPT ![h] = None]
      /\ UNCHANGED <<event, os, read, store, acting, relay, actions, queue, wire, line, serving, asked,
                     unasked, adrift, shared>>
  BY <1>2 DEF RememberCurrent, userVars, meshVars, linkVars, lossVars, calmVars
<1>4. SharingTypes
  BY DEF Base, SharingBase
<1>5. guard'[h] = shared /\ writing'[h] = None /\ \A p \in Host : p # h => guard'[p] = guard[p] /\ writing'[p] = writing[p]
  BY <1>3, <1>4 DEF SharingTypes
<1> QED BY <1>1, <1>2, <1>3, <1>5, TakesIn

(* The second half of sharing again, and the connections, while an event spreads. *)
LEMMA SpreadingApply ==
    ASSUME Unlimited, Mesh, Base, NEW g \in Nat, Spreading(g), NEW h \in Host, ApplyAndBroadcastPayload(h)
    PROVE  Histories' /\ Phase'
<1>1. /\ \A p \in Host : Takings(g, p) /\ (guard[p] \in Writable => guard[p] = shared \/ Awaits(p))
      /\ Flying(g) /\ Shares(g)
  BY DEF Spreading
<1>2. /\ acting[h] \in Action /\ acting[h].guid = g /\ acting[h] # None /\ Live(g)
      /\ Adds(h, g)
      /\ IF h \in Marks THEN UNCHANGED <<guard, changed>>
         ELSE /\ guard' = [guard EXCEPT ![h] = event[g]]
              /\ changed' = changed \ {h}
      /\ acting' = [acting EXCEPT ![h] = None]
      /\ UNCHANGED <<event, os, read, writing, relay, wire, line, serving, asked, unasked, adrift, actions,
                     shared>>
  <2>1. acting[h] # None /\ acting[h].guid = g
    BY <1>1 DEF ApplyAndBroadcastPayload, linkVars, lossVars, Takings
  <2>2. /\ acting[h] \in Action /\ Live(acting[h].guid)
        /\ Adds(h, acting[h].guid)
        /\ IF h \in Marks THEN UNCHANGED <<guard, changed>>
           ELSE /\ guard' = [guard EXCEPT ![h] = event[acting[h].guid]]
                /\ changed' = changed \ {h}
        /\ acting' = [acting EXCEPT ![h] = None]
        /\ UNCHANGED <<event, os, read, writing, relay, wire, line, serving, asked, unasked, adrift, actions,
                       shared>>
    BY ApplyIs DEF Base
  <2> QED BY <2>1, <2>2
<1>3. PICK f \in Frame : Tells(h, f) /\ f.tag = "CLIP" /\ f.guid = g /\ f.replay = FALSE
  <2>1. PICK f \in Frame : Tells(h, f) /\ f.tag = "CLIP" /\ f.guid = acting[h].guid /\ f.replay = FALSE
    BY ApplyIs DEF Base
  <2> QED BY <1>2, <2>1
<1>4. g # 0 /\ event[g] = shared /\ shared # Blank
  BY <1>1, <1>2 DEF Shares, Live, Action, EventId
<1>5. /\ guard'[h] = shared /\ \A p \in Host : p # h => guard'[p] = guard[p]
      /\ acting'[h] = None /\ \A p \in Host : p # h => acting'[p] = acting[p]
      /\ changed' \subseteq changed
  BY <1>1, <1>2, <1>4 DEF Takings, Base, SharingBase, SharingTypes
<1>6. \A d \in Dials : \A x : x \in Frames(d)' <=> x \in Frames(d) \/ (d \in From(h) /\ x = f)
  BY <1>2, <1>3, ToldFrames
<1>7. \A p \in Host : p # h => \E d \in To(p) : f \in Frames(d)'
  <2> SUFFICES ASSUME NEW p \in Host, p # h PROVE \E d \in To(p) : f \in Frames(d)'
    OBVIOUS
  <2>1. <<h, p>> \in To(p) /\ <<h, p>> \in From(h) /\ <<h, p>> \in Dials
    BY MeshIs
  <2> QED BY <1>6, <2>1
<1>8. g \in Guids(store'[h]) /\ \A p \in Host : Guids(store[p]) \subseteq Guids(store'[p])
  BY <1>2 DEF Adds
<1>9. Histories'
  <2>1. \A p \in Host : guard'[p] = guard[p] \/ \E e \in DOMAIN event' : event'[e] = guard'[p]
    BY <1>2, <1>4, <1>5 DEF Live
  <2>2. Grows
    BY <1>2, <1>8 DEF Grows
  <2>3. \A d \in Dials : \A x \in Frames(d) : x.tag = "CLIP" /\ x \in Frames(d)'
    BY <1>1, <1>6 DEF Flying
  <2>4. \A d \in Dials : \A x \in Frames(d)' :
          x \in Frames(d) \/ (x.tag = "CLIP" /\ x.guid \in Guids(store'[d[1]]))
    BY <1>3, <1>6, <1>8, MeshIs
  <2>5. \A p \in Host : p # h => Reaching(p, "CLIP", g)'
    BY <1>3, <1>7 DEF Reaching, To
  <2>6. \A q \in Host : \A e \in Guids(store'[q]) :
          e \in Guids(store[q]) \/ \A p \in Host : p # q => Reaching(p, "CLIP", e)'
    BY <1>2, <2>5 DEF Adds
  <2> QED BY <1>2, <2>1, <2>2, <2>3, <2>4, <2>6, HistoriesStep DEF Base
<1>10. ASSUME NEW p \in Host PROVE Takings(g, p)'
  <2>1. CASE p = h
    BY <1>1, <1>2, <1>5, <2>1 DEF Takings, Settled
  <2>2. CASE p # h
    BY <1>1, <1>2, <1>5, <2>2 DEF Takings, Settled
  <2> QED BY <2>1, <2>2
<1>11. ASSUME NEW p \in Host, guard'[p] \in Writable PROVE guard'[p] = shared' \/ Awaits(p)'
  <2>1. CASE p = h
    BY <1>2, <1>5, <2>1
  <2>2. CASE p # h
    <3>1. Living(f)'
      BY <1>2, <1>3, <1>4 DEF Living
    <3> QED BY <1>7, <2>2, <3>1 DEF Awaits, To
  <2> QED BY <2>1, <2>2
<1>12. Flying(g)'
  BY <1>1, <1>2, <1>3, <1>4, <1>6 DEF Flying, Living
<1>13. Shares(g)'
  BY <1>1, <1>2, <1>4, <1>5, <1>8 DEF Shares, Live, Sole
<1>14. \A d \in Dials : line'[d] # None => End(d)' \in serving'
  BY <1>2 DEF Spreading, End
<1> QED BY <1>9, <1>10, <1>11, <1>12, <1>13, <1>14 DEF Phase, Spreading

LEMMA SpreadingConnect ==
    ASSUME Base, NEW g \in Nat, Spreading(g), NEW d \in Dials, Connect(d)
    PROVE  Histories' /\ Phase'
<1>1. UNCHANGED <<event, os, changed, guard, read, writing, store, acting, relay, actions, queue, wire, shared>>
  BY DEF Connect, clipVars, userVars, calmVars
<1>2. Histories'
  BY <1>1, SameHistories DEF Base
<1>3. \A p \in Host : (Takings(g, p)' <=> Takings(g, p)) /\ (Awaits(p)' <=> Awaits(p))
  BY <1>1, FramesSame DEF Takings, Settled, Awaits, Living, To
<1>4. Flying(g)' /\ Shares(g)'
  BY <1>1, FramesSame DEF Spreading, Flying, Shares, Living, Live, Sole
<1>5. ASSUME NEW c \in Dials, line'[c] # None PROVE End(c)' \in serving'
  <2>1. PICK n \in Serving : line' = [line EXCEPT ![d] = n] /\ serving' = serving \cup {<<d, n>>}
    BY ConnectIs
  <2>2. IF c = d THEN line'[c] = n ELSE line'[c] = line[c]
    BY <2>1 DEF Base, SharingBase, SharingTypes
  <2> QED BY <1>5, <2>1, <2>2 DEF Spreading, End
<1>6. Spreading(g)'
  BY <1>1, <1>3, <1>4, <1>5 DEF Spreading
<1> QED BY <1>2, <1>6 DEF Phase

LEMMA SpreadingDrain ==
    ASSUME Base, NEW g \in Nat, Spreading(g), NEW d \in Dials, DrainOutboundMessages(d)
    PROVE  Histories' /\ Phase'
<1>1. /\ \A c \in Dials : Frames(c)' = Frames(c)
      /\ UNCHANGED <<event, os, changed, guard, read, writing, store, acting, relay, actions, line, serving,
                     shared>>
  <2>1. SharingTypes /\ End(d) \in serving
    BY DEF Base, SharingBase, Spreading, DrainOutboundMessages
  <2>2. \A c \in Dials : Frames(c)' = Frames(c)
    BY <2>1, DrainIs
  <2> QED BY <2>2 DEF DrainOutboundMessages, clipVars, userVars, calmVars
<1>2. Histories'
  BY <1>1, FramesKept DEF Base
<1>3. \A p \in Host : (Takings(g, p)' <=> Takings(g, p)) /\ (Awaits(p)' <=> Awaits(p))
  BY <1>1 DEF Takings, Settled, Awaits, Living, To
<1>4. Flying(g)' /\ Shares(g)'
  BY <1>1 DEF Spreading, Flying, Shares, Living, Live, Sole
<1>5. \A c \in Dials : line'[c] # None => End(c)' \in serving'
  BY <1>1 DEF Spreading, End
<1>6. Spreading(g)'
  BY <1>1, <1>3, <1>4, <1>5 DEF Spreading
<1> QED BY <1>2, <1>6 DEF Phase

LEMMA SpreadingAnswer ==
    ASSUME Mesh, Base, NEW g \in Nat, Spreading(g), NEW d \in Dials, AnswerSync(d)
    PROVE  Histories' /\ Phase'
<1>1. UNCHANGED <<event, os, changed, guard, read, writing, store, acting, relay, actions, queue, line,
                  serving, adrift, shared>>
  BY DEF AnswerSync, clipVars, userVars, lossVars, calmVars
<1>2. /\ \A c \in Dials : c # d => Sent(c)' = Sent(c)
      /\ \A x \in Sent(d) : x \in Sent(d)'
      /\ \A x \in Sent(d)' : x \in Sent(d) \/ (/\ x.guid \in Guids(store[d[1]])
                                               /\ x.tag = "CLIP" /\ x.replay)
  <2>1. SharingTypes
    BY DEF Base, SharingBase
  <2> QED BY <2>1, AnswerIs
<1>3. \A c \in Dials : \A x \in Frames(c) : x \in Frames(c)'
  BY <1>1, <1>2 DEF Frames
<1>4. \A c \in Dials : \A x \in Frames(c)' :
        x \in Frames(c) \/ (x.tag = "CLIP" /\ x.guid \in Guids(store[c[1]]) /\ x.replay)
  BY <1>1, <1>2 DEF Frames
<1>5. Histories'
  <2>1. Grows
    BY <1>1 DEF Grows
  <2>2. \A c \in Dials : \A x \in Frames(c) : x.tag = "CLIP"
    BY DEF Spreading, Flying
  <2> QED BY <1>1, <1>3, <1>4, <2>1, <2>2, HistoriesStep DEF Base
<1>6. \A p \in Host : (Takings(g, p)' <=> Takings(g, p)) /\ (Awaits(p) => Awaits(p)')
  BY <1>1, <1>3 DEF Takings, Settled, Awaits, Living, To
<1>7. Flying(g)'
  BY <1>1, <1>4 DEF Spreading, Flying, Living
<1>8. Shares(g)'
  BY <1>1 DEF Spreading, Shares, Live, Sole
<1>9. \A c \in Dials : line'[c] # None => End(c)' \in serving'
  BY <1>1 DEF Spreading, End
<1>10. Spreading(g)'
  BY <1>1, <1>6, <1>7, <1>8, <1>9 DEF Spreading
<1> QED BY <1>5, <1>10 DEF Phase

(* The gateway of a one-shot client, and a host that receives an event: a host that
   drops it holds its contents already, and lists it if it is their only event. *)
LEMMA SpreadingRelay ==
    ASSUME Unlimited, Mesh, Base, NEW g \in Nat, Spreading(g), NEW h \in Host, RelayVia(h)
    PROVE  Histories' /\ Phase'
<1>1. /\ \A p \in Host : Takings(g, p) /\ (guard[p] \in Writable => guard[p] = shared \/ Awaits(p))
      /\ Flying(g) /\ Shares(g)
  BY DEF Spreading
<1>2. /\ writing[h] = None /\ relay \in Relay /\ relay' \in Relay \cup {None} /\ Live(relay.guid)
      /\ relay' # None => relay'.guid = relay.guid
      /\ Takes(h, relay.guid, FALSE)
      /\ UNCHANGED <<event, os, changed, guard, read, acting, wire, line, serving, adrift, actions, shared>>
  BY RelayIs DEF Base
<1>3. PICK f \in Frame :
        /\ f.tag = "CLIP" /\ f.guid = relay.guid /\ f.replay = FALSE
        /\ \A d \in Dials : \A x :
             x \in ToSet(queue'[d]) <=> x \in ToSet(queue[d]) \/ (d \in From(h) /\ x = f)
  BY RelayIs DEF Base
<1>4. relay # None /\ g # 0
  <2>1. relay # None
    BY <1>2, NoneIs
  <2> QED BY <1>1, <2>1 DEF Flying
<1>5. PICK r \in EventId : r = relay.guid
  BY <1>2 DEF Relay
<1>6. /\ Live(r) /\ event[r] = shared /\ shared # Blank /\ r \in DOMAIN event
      /\ g \in DOMAIN event /\ (Sole(r) => r = g)
  BY <1>1, <1>2, <1>4, <1>5 DEF Flying, Shares, Live, Sole
<1>7. \A p \in Host : Sole(g) /\ (guard[p] = shared \/ writing[p] # None) => g \in Guids(store[p])
  BY <1>1, <1>4 DEF Shares
<1>8. /\ \A p \in Host : p # h => store'[p] = store[p] /\ writing'[p] = writing[p]
      /\ \/ guard[h] = shared /\ store' = store /\ writing' = writing
         \/ /\ Guids(store'[h]) = Guids(store[h]) \cup {r}
            /\ writing'[h] = [guid |-> r, put |-> FALSE]
  BY <1>2, <1>5, <1>6 DEF Takes
<1>9. \A p \in Host : Guids(store[p]) \subseteq Guids(store'[p])
  BY <1>8
<1>10. \A d \in Dials : \A x : x \in Frames(d)' <=> x \in Frames(d) \/ (d \in From(h) /\ x = f)
  BY <1>2, <1>3, FramesSame DEF Frames
<1>11. \A p \in Host : p # h => \E d \in To(p) : f \in Frames(d)'
  <2> SUFFICES ASSUME NEW p \in Host, p # h PROVE \E d \in To(p) : f \in Frames(d)'
    OBVIOUS
  <2>1. <<h, p>> \in To(p) /\ <<h, p>> \in From(h) /\ <<h, p>> \in Dials
    BY MeshIs
  <2> QED BY <1>10, <2>1
<1>12. Sole(r) => r \in Guids(store'[h])
  BY <1>6, <1>7, <1>8, <1>9
<1>13. Histories'
  <2>1. Grows
    BY <1>2, <1>9 DEF Grows
  <2>2. \A d \in Dials : \A x \in Frames(d) : x.tag = "CLIP" /\ x \in Frames(d)'
    BY <1>1, <1>10 DEF Flying
  <2>3. \A d \in Dials : \A x \in Frames(d)' :
          x \in Frames(d) \/ (x.tag = "CLIP" /\ x.guid \in Guids(store'[d[1]]))
          \/ (x.tag = "CLIP" /\ x.guid \in DOMAIN event /\ ~Sole(x.guid))
    BY <1>3, <1>5, <1>6, <1>10, <1>12, MeshIs
  <2>4. \A p \in Host : p # h => Reaching(p, "CLIP", r)'
    BY <1>3, <1>5, <1>11 DEF Reaching, To
  <2>5. \A q \in Host : \A e \in Guids(store'[q]) :
          e \in Guids(store[q]) \/ \A p \in Host : p # q => Reaching(p, "CLIP", e)'
    BY <1>8, <2>4
  <2> QED BY <1>2, <2>1, <2>2, <2>3, <2>5, HistoriesStep DEF Base
<1>14. writing'[h] # None => event[writing'[h].guid] = shared /\ ~writing'[h].put
  BY <1>2, <1>6, <1>8
<1>15. ASSUME NEW p \in Host PROVE Takings(g, p)'
  <2>1. CASE p = h
    BY <1>1, <1>2, <1>4, <1>14, <2>1 DEF Takings, Settled
  <2>2. CASE p # h
    BY <1>1, <1>2, <1>8, <2>2 DEF Takings, Settled
  <2> QED BY <2>1, <2>2
<1>16. ASSUME NEW p \in Host, guard'[p] \in Writable PROVE guard'[p] = shared' \/ Awaits(p)'
  <2>1. CASE p = h
    <3>1. CASE guard[h] = shared
      BY <1>2, <2>1, <3>1
    <3>2. CASE writing'[h] = [guid |-> r, put |-> FALSE]
      <4>1. [guid |-> r, put |-> FALSE] \in [guid : EventId, put : BOOLEAN]
        OBVIOUS
      <4>2. writing'[h] # None
        BY <3>2, <4>1, NoneIs
      <4> QED BY <2>1, <4>2 DEF Awaits
    <3> QED BY <1>8, <3>1, <3>2
  <2>2. CASE p # h
    <3>1. Living(f)'
      BY <1>2, <1>3, <1>5, <1>6 DEF Living
    <3> QED BY <1>11, <2>2, <3>1 DEF Awaits, To
  <2> QED BY <2>1, <2>2
<1>17. Flying(g)'
  BY <1>1, <1>2, <1>3, <1>4, <1>5, <1>6, <1>10 DEF Flying, Living
<1>18. Shares(g)'
  <2>1. \A p \in Host : Sole(g) /\ (guard[p] = shared \/ writing'[p] # None) => g \in Guids(store'[p])
    <3>1. Sole(g) => r = g
      BY <1>1, <1>4, <1>6 DEF Shares, Sole
    <3> QED BY <1>7, <1>8, <1>9, <1>12, <3>1
  <2> QED BY <1>1, <1>2, <2>1 DEF Shares, Live, Sole
<1>19. \A d \in Dials : line'[d] # None => End(d)' \in serving'
  BY <1>2 DEF Spreading, End
<1> QED BY <1>13, <1>15, <1>16, <1>17, <1>18, <1>19 DEF Phase, Spreading

LEMMA SpreadingReceive ==
    ASSUME Unlimited, Mesh, Base, NEW g \in Nat, Spreading(g), NEW e \in Ends, NEW d \in Dials, d = e[1],
           Receive(e)
    PROVE  Histories' /\ Phase'
<1>1. /\ \A p \in Host : Takings(g, p) /\ (guard[p] \in Writable => guard[p] = shared \/ Awaits(p))
      /\ Flying(g) /\ Shares(g)
  BY DEF Spreading
<1>2. /\ d[1] \in Host /\ d[2] \in Host /\ writing[d[2]] = None
      /\ UNCHANGED <<event, os, changed, guard, read, acting, relay, actions, line, serving, adrift, shared>>
  BY ReceiveIs DEF Base
<1>3. PICK f \in Frame :
        /\ f \in Frames(d) /\ f.guid \in DOMAIN event
        /\ \A c \in Dials : \A x : x \in Frames(c) <=> x \in Frames(c)' \/ (c = d /\ x = f)
        /\ \/ f.tag = "CLIP" /\ f.replay \in BOOLEAN /\ Takes(d[2], f.guid, f.replay)
           \/ /\ f.tag = "CDEL" /\ UNCHANGED writing
              /\ store' = [store EXCEPT ![d[2]] = RemoveByEventGuid(@, f.guid)]
  BY ReceiveIs DEF Base
<1>4. f.tag = "CLIP" /\ f.tag # "CDEL" /\ (Living(f) => g # 0 /\ event[f.guid] = shared)
  BY <1>1, <1>3 DEF Flying
<1>5. PICK r \in Host, q \in Host, b \in EventId, replay \in BOOLEAN :
        r = d[2] /\ q = d[1] /\ b = f.guid /\ replay = f.replay
  BY <1>2, <1>3, <1>4, FrameIs
<1>6. b \in DOMAIN event /\ Takes(r, b, replay)
  BY <1>3, <1>4, <1>5
<1>7. Living(f) <=> ~replay /\ Live(b)
  BY <1>4, <1>5, <1>6 DEF Living, Live
<1>8. Living(f) => g # 0 /\ event[b] = shared /\ g \in DOMAIN event /\ (Sole(b) => b = g)
  BY <1>1, <1>4, <1>5 DEF Shares, Live, Sole
<1>9. /\ \A p \in Host : p # r => store'[p] = store[p] /\ writing'[p] = writing[p]
      /\ \/ Living(f) /\ guard[r] = shared /\ store' = store /\ writing' = writing
         \/ /\ Guids(store'[r]) = Guids(store[r]) \cup {b}
            /\ IF Living(f) THEN writing'[r] = [guid |-> b, put |-> FALSE] ELSE writing' = writing
  BY <1>6, <1>7, <1>8 DEF Takes
<1>10. \A p \in Host : Guids(store[p]) \subseteq Guids(store'[p])
  BY <1>9
<1>11. Sole(b) => b \in Guids(store'[r])
  BY <1>1, <1>8, <1>9 DEF Shares
<1>12. Histories'
  <2>1. Grows
    BY <1>2, <1>10 DEF Grows
  <2>2. actions = 0 => event[b] \in Contents(r)'
    <3>1. CASE Living(f) /\ guard[r] = shared /\ store' = store
      <4>1. Live(b) /\ event[b] = guard[r]
        BY <1>7, <1>8, <3>1
      <4>2. event[b] \in Content \ Secret
        BY <4>1, EventIs DEF Base, SharingBase, SharingTypes
      <4>3. actions = 0 => event[b] \in Contents(r)
        BY <4>1, <4>2 DEF Base, Listed
      <4> QED BY <1>2, <3>1, <4>3 DEF Contents
    <3>2. CASE Guids(store'[r]) = Guids(store[r]) \cup {b}
      BY <1>2, <3>2 DEF Contents
    <3> QED BY <1>9, <3>1, <3>2
  <2>3. \A c \in Dials : \A x \in Frames(c) : x.tag = "CLIP"
    BY <1>1 DEF Flying
  <2>4. \A c \in Dials : \A x \in Frames(c) :
             \/ x \in Frames(c)'
             \/ /\ Sole(x.guid) => x.guid \in Guids(store'[c[2]])
                /\ actions = 0 => event[x.guid] \in Contents(c[2])'
    BY <1>3, <1>5, <1>11, <2>2
  <2>5. \A c \in Dials : \A x \in Frames(c)' : x \in Frames(c)
    BY <1>3
  <2>6. /\ b \in DOMAIN event /\ (Sole(b) => b \in Guids(store[q]))
        /\ actions = 0 => event[b] \in Contents(q)
    BY <1>3, <1>4, <1>5 DEF Base, Histories, FramesRight, Listed, Found, Drifting
  <2>7. \A h \in Host : \A x \in Guids(store'[h]) : x \in Guids(store[h]) \/ x = b
    BY <1>9
  <2>8. \A h \in Host : \A x \in Guids(store'[h]) :
             \/ x \in Guids(store[h])
             \/ \A p \in Host : p # h => Reaching(p, "CLIP", x)'
             \/ \E c \in Host : /\ x \in DOMAIN event /\ (Sole(x) => x \in Guids(store[c]))
                                /\ actions = 0 => event[x] \in Contents(c)
    BY <2>6, <2>7
  <2> QED BY <1>2, <2>1, <2>3, <2>4, <2>5, <2>8, HistoriesStep DEF Base
<1>13. ASSUME NEW p \in Host PROVE Takings(g, p)'
  <2>1. CASE p = r
    <3>1. writing'[r] # None => g # 0 /\ event[writing'[r].guid] = shared /\ ~writing'[r].put
      BY <1>2, <1>5, <1>8, <1>9
    <3> QED BY <1>1, <1>2, <1>5, <2>1, <3>1 DEF Takings, Settled
  <2>2. CASE p # r
    BY <1>1, <1>2, <1>9, <2>2 DEF Takings, Settled
  <2> QED BY <2>1, <2>2
<1>14. ASSUME NEW p \in Host, guard'[p] \in Writable PROVE guard'[p] = shared' \/ Awaits(p)'
  <2>1. guard[p] = guard'[p] /\ shared' = shared /\ (guard[p] = shared \/ Awaits(p))
    BY <1>1, <1>2, <1>14
  <2>2. CASE p = r /\ Living(f) /\ guard[r] # shared
    <3>1. writing'[r] = [guid |-> b, put |-> FALSE]
      BY <1>9, <2>2
    <3>2. [guid |-> b, put |-> FALSE] \in [guid : EventId, put : BOOLEAN]
      OBVIOUS
    <3>3. writing'[r] # None
      BY <3>1, <3>2, NoneIs
    <3> QED BY <2>2, <3>3 DEF Awaits
  <2>3. CASE ~(p = r /\ Living(f)) /\ guard[p] # shared
    <3>1. writing[p] # None => writing'[p] # None
      BY <1>2, <1>5, <1>9
    <3>2. \A c \in To(p) : \A x \in Frames(c) : Living(x) => x \in Frames(c)' /\ Living(x)'
      <4> SUFFICES ASSUME NEW c \in To(p), NEW x \in Frames(c), Living(x) PROVE x \in Frames(c)' /\ Living(x)'
        OBVIOUS
      <4>1. c \in Dials /\ c[2] = p
        BY MeshIs
      <4>2. ~(c = d /\ x = f)
        BY <1>5, <2>3, <4>1
      <4> QED BY <1>2, <1>3, <4>1, <4>2 DEF Living
    <3> QED BY <1>2, <2>1, <2>3, <3>1, <3>2 DEF Awaits, To
  <2> QED BY <2>1, <2>2, <2>3
<1>15. Flying(g)'
  BY <1>1, <1>2, <1>3 DEF Flying, Living
<1>16. Shares(g)'
  <2>1. g # 0 => Live(g) /\ event[g] = shared
    BY <1>1 DEF Shares
  <2>2. ASSUME g # 0, Sole(g), NEW p \in Host, guard[p] = shared \/ writing'[p] # None
        PROVE  g \in Guids(store'[p])
    <3>1. CASE guard[p] = shared \/ writing[p] # None
      BY <1>1, <1>10, <2>2, <3>1 DEF Shares
    <3>2. CASE writing[p] = None /\ writing'[p] # None
      <4>1. p = r /\ Living(f) /\ Guids(store'[r]) = Guids(store[r]) \cup {b}
        BY <1>9, <3>2
      <4>2. b = g
        BY <1>6, <1>8, <2>1, <2>2, <4>1 DEF Sole
      <4> QED BY <4>1, <4>2
    <3> QED BY <2>2, <3>1, <3>2
  <2> QED BY <1>2, <2>1, <2>2 DEF Shares, Live, Sole
<1>17. \A c \in Dials : line'[c] # None => End(c)' \in serving'
  BY <1>2 DEF Spreading, End
<1> QED BY <1>12, <1>13, <1>14, <1>15, <1>16, <1>17 DEF Phase, Spreading

(* What nothing of a phase depends on may change.                           *)
LEMMA PhaseKept ==
    ASSUME Phase, UNCHANGED <<event, os, changed, guard, read, writing, store, acting, relay, queue, wire,
                              line, asked, shared>>,
           \A d \in Dials : End(d) \in serving' <=> End(d) \in serving
    PROVE  Phase'
<1>1. \A d : End(d)' = End(d)
  BY DEF End
<1>2. \A d \in Dials : Frames(d)' = Frames(d)
  BY FramesSame
<1>3. \A p : (AtRest(p)' <=> AtRest(p)) /\ (Settled(p)' <=> Settled(p))
  BY DEF AtRest, Settled
<1>4. Connected' <=> Connected
  BY <1>1 DEF Connected
<1>5. Deleting => Deleting'
  BY <1>2, <1>3, <1>4 DEF Deleting
<1>6. ASSUME NEW h \in Host, Copying(h) PROVE Copying(h)'
  BY <1>2, <1>3, <1>4, <1>6 DEF Copying
<1>7. ASSUME NEW d \in Dials, Severed(d) PROVE Severed(d)'
  BY <1>1, <1>2, <1>3, <1>7 DEF Severed
<1>8. ASSUME NEW g \in Nat, Spreading(g) PROVE Spreading(g)'
  <2>1. \A p : (Takings(g, p)' <=> Takings(g, p)) /\ (Awaits(p)' <=> Awaits(p))
    BY <1>2, <1>3 DEF Takings, Awaits, Living, To
  <2>2. (Flying(g)' <=> Flying(g)) /\ (Shares(g)' <=> Shares(g))
    BY <1>2 DEF Flying, Shares, Living, Live, Sole
  <2> QED BY <1>1, <1>8, <2>1, <2>2 DEF Spreading
<1> QED BY <1>5, <1>6, <1>7, <1>8 DEF Phase

(* The end of an earlier connection goes: it had nothing left to read.      *)
LEMMA OldLeft ==
    ASSUME Base, Phase, NEW e \in Ends, OnIncomingPeerLeft(e), e # End(e[1])
    PROVE  Histories' /\ Phase'
<1>1. SharingTypes /\ wire[e] = <<>>
  BY DEF Base, SharingBase, Drained
<1>2. PICK d \in Dials : d = e[1]
  BY EndsAre
<1>3. /\ serving' = serving \ {e} /\ wire' = [wire EXCEPT ![e] = <<>>]
      /\ UNCHANGED <<event, os, changed, guard, read, writing, store, acting, relay, actions, queue, line,
                     asked, shared>>
  BY DEF OnIncomingPeerLeft, clipVars, userVars
<1>4. wire' = wire
  BY <1>1, <1>3 DEF SharingTypes
<1>5. \A c \in Dials : End(c) # e
  BY DEF End
<1> QED BY <1>3, <1>4, <1>5, SameHistories, PhaseKept DEF Base

(* What is to be read stays at the ends the diallers are connected to.      *)
LEMMA DrainedSame == Drained /\ UNCHANGED <<wire, line>> => Drained'
BY DEF Drained, End

LEMMA DrainedStep ==
    ASSUME SharingTypes, Drained, NEW d \in Dials,
           \/ Connect(d) \/ DrainOutboundMessages(d) \/ AnswerSync(d)
           \/ Break(d) /\ (Quiet \/ Severed(d))
    PROVE  Drained' /\ adrift' = adrift
<1>1. \A e \in Ends : e[1] \in Dials /\ e = <<e[1], e[2]>> /\ e[2] \in Serving
  BY EndsAre
<1>2. CASE Connect(d)
  <2>1. PICK n \in Serving : line' = [line EXCEPT ![d] = n]
    BY <1>2, ConnectIs
  <2>2. line[d] = None /\ wire' = wire /\ adrift' = adrift
    BY <1>2, ConnectIs
  <2>3. \A c \in Dials : c # d => line'[c] = line[c]
    BY <2>1 DEF SharingTypes
  <2>4. ASSUME NEW e \in Ends, wire'[e] # <<>> PROVE e = End(e[1])'
    <3>1. e = End(e[1])
      BY <2>2, <2>4 DEF Drained
    <3>2. e[1] # d
      BY <1>1, <2>2, <3>1, ClipAssumption DEF End
    <3> QED BY <1>1, <2>3, <3>1, <3>2 DEF End
  <2> QED BY <2>2, <2>4 DEF Drained
<1>3. ASSUME line' = line, adrift' = adrift, \A e \in Ends : e # End(d) => wire'[e] = wire[e]
      PROVE  Drained' /\ adrift' = adrift
  <2>1. ASSUME NEW e \in Ends, wire'[e] # <<>> PROVE e = End(e[1])'
    BY <1>1, <1>3, <2>1 DEF Drained, End
  <2> QED BY <1>3, <2>1 DEF Drained
<1>4. CASE DrainOutboundMessages(d)
  <2>1. line' = line /\ adrift' = adrift
    BY <1>4 DEF DrainOutboundMessages, lossVars
  <2> QED BY <1>3, <1>4, <2>1, DrainIs
<1>5. CASE AnswerSync(d)
  <2>1. line' = line /\ adrift' = adrift
    BY <1>5 DEF AnswerSync, lossVars
  <2> QED BY <1>3, <1>5, <2>1, AnswerIs
<1>6. CASE Break(d) /\ (Quiet \/ Severed(d))
  <2>1. line' = [line EXCEPT ![d] = None] /\ wire' = wire /\ adrift' = adrift
    BY <1>6, BreakIs
  <2>2. \A c \in Dials : c # d => line'[c] = line[c]
    BY <2>1 DEF SharingTypes
  <2>3. \A e \in Ends : e[1] = d => wire[e] = <<>>
    <3>1. CASE Quiet
      BY <3>1 DEF Quiet
    <3>2. ASSUME Severed(d), NEW e \in Ends, e[1] = d, wire[e] # <<>> PROVE FALSE
      <4>1. wire[e] \in Seq(Frame)
        BY DEF SharingTypes
      <4>2. Head(wire[e]) \in ToSet(wire[e])
        BY <3>2, <4>1, QueueIs
      <4>3. Head(wire[e]) \in Frames(d)
        BY <1>1, <3>2, <4>2 DEF Frames, Sent
      <4> QED BY <3>2, <4>3 DEF Severed
    <3> QED BY <1>6, <3>1, <3>2
  <2>4. ASSUME NEW e \in Ends, wire'[e] # <<>> PROVE e = End(e[1])'
    <3>1. e = End(e[1]) /\ e[1] # d
      BY <2>1, <2>3, <2>4 DEF Drained
    <3> QED BY <1>1, <2>2, <3>1 DEF End
  <2> QED BY <2>1, <2>4 DEF Drained
<1> QED BY <1>2, <1>4, <1>5, <1>6

LEMMA DrainedEnds ==
    ASSUME Unlimited, SharingBase, Drained, NEW e \in Ends, Receive(e) \/ OnIncomingPeerLeft(e)
    PROVE  Drained' /\ adrift' = adrift
<1>1. PICK d \in Dials : d = e[1]
  BY EndsAre
<1>2. /\ line' = line /\ adrift' = adrift /\ \A b \in Ends : b # e => wire'[b] = wire[b]
      /\ wire[e] = <<>> => wire'[e] = <<>>
  BY <1>1, ReceiveIs, LeftIs DEF SharingBase
<1>3. ASSUME NEW b \in Ends, wire'[b] # <<>> PROVE b = End(b[1])'
  <2>1. wire[b] # <<>>
    BY <1>2, <1>3
  <2> QED BY <1>2, <2>1 DEF Drained, End
<1> QED BY <1>2, <1>3 DEF Drained

(* Users who wait have waited before.                                       *)
LEMMA CalmBefore == [SharingNext]_sharingVars /\ calm' => calm
<1> SUFFICES ASSUME [SharingNext]_sharingVars, calm' PROVE calm
  OBVIOUS
<1>1. CASE UNCHANGED sharingVars
  BY <1>1 DEF sharingVars, calmVars
<1>2. ASSUME NEW h \in Host, NEW c \in Content \cup {Unreadable}, Copy(h, c) PROVE calm
  BY <1>2 DEF Copy
<1>3. ASSUME NEW h \in Host,
             \/ ReadClipboardData(h) \/ OnClipboardNotification(h) \/ RememberCurrent(h)
             \/ ApplyAndBroadcastPayload(h)
      PROVE  calm
  BY <1>3 DEF ReadClipboardData, OnClipboardNotification, RememberCurrent, ApplyAndBroadcastPayload, calmVars
<1>4. ASSUME NEW h \in Host, RelayVia(h) \/ SetClipboardData(h) \/ Restart(h)
      PROVE  calm
  BY <1>4 DEF RelayVia, SetClipboardData, Restart
<1>5. ASSUME NEW h \in Host, NEW i \in DOMAIN store[h],
             ReshareActivityItem(h, i) \/ DeleteActivityItemEverywhere(h, i)
      PROVE  calm
  BY <1>5 DEF ReshareActivityItem, DeleteActivityItemEverywhere, UserActs
<1>6. ASSUME NEW h \in Host, TryUndoDelete(h) PROVE calm
  BY <1>6 DEF TryUndoDelete, UserActs
<1>7. ASSUME NEW c \in Content \ Secret, RelayPayloads(c) PROVE calm
  BY <1>7 DEF RelayPayloads
<1>8. ASSUME NEW d \in Dials, Connect(d) \/ DrainOutboundMessages(d) \/ AnswerSync(d) \/ Break(d)
      PROVE  calm
  BY <1>8 DEF Connect, DrainOutboundMessages, AnswerSync, Break, Goes, calmVars
<1>9. ASSUME NEW e \in Ends, Receive(e) \/ OnIncomingPeerLeft(e) PROVE calm
  BY <1>9 DEF Receive, OnIncomingPeerLeft, Goes, calmVars
<1> QED BY <1>1, <1>2, <1>3, <1>4, <1>5, <1>6, <1>7, <1>8, <1>9 DEF SharingNext

CalmParts == SharingBase /\ Histories /\ Phase /\ Drained /\ adrift = {}

(* The steps by who takes them: a user, a thread of a host, a connection.   *)
LEMMA UserStarts ==
    ASSUME Unlimited, Mesh, Base, actions \in Nat, Phase, calm', NEW h \in Host,
           \/ \E c \in Content \cup {Unreadable} : Copy(h, c)
           \/ \E i \in DOMAIN store[h] : ReshareActivityItem(h, i) \/ DeleteActivityItemEverywhere(h, i)
           \/ TryUndoDelete(h)
    PROVE  CalmParts'
<1>1. SharingBase /\ Drained /\ adrift = {}
  BY DEF Base
<1>2. ASSUME NEW c \in Content \cup {Unreadable}, Copy(h, c) PROVE CalmParts'
  <2>1. Quiet
    BY <1>2 DEF Copy
  <2>2. SharingBase'
    BY <1>1, <1>2, BaseCopy
  <2>3. Drained' /\ adrift' = {}
    BY <1>1, <1>2, DrainedSame DEF Copy, meshVars, linkVars, lossVars
  <2> QED BY <1>2, <2>1, <2>2, <2>3, StartsCopy DEF CalmParts
<1>3. ASSUME NEW i \in DOMAIN store[h], ReshareActivityItem(h, i) PROVE CalmParts'
  <2>1. Quiet
    BY <1>3 DEF ReshareActivityItem, UserActs
  <2>2. SharingBase'
    BY <1>1, <1>3, BaseReshare
  <2>3. Drained' /\ adrift' = {}
    BY <1>1, <1>3, DrainedSame DEF ReshareActivityItem, meshVars, linkVars, lossVars
  <2> QED BY <1>3, <2>1, <2>2, <2>3, StartsReshare DEF CalmParts
<1>4. ASSUME NEW i \in DOMAIN store[h], DeleteActivityItemEverywhere(h, i)
      PROVE  CalmParts'
  <2>1. Quiet
    BY <1>4 DEF DeleteActivityItemEverywhere, UserActs
  <2>2. SharingBase'
    BY <1>1, <1>4, BaseDelete
  <2>3. Drained' /\ adrift' = {}
    BY <1>1, <1>4, DrainedSame DEF DeleteActivityItemEverywhere, linkVars, lossVars
  <2> QED BY <1>4, <2>1, <2>2, <2>3, StartsDelete DEF CalmParts
<1>5. ASSUME TryUndoDelete(h) PROVE CalmParts'
  <2>1. Quiet
    BY <1>5 DEF TryUndoDelete, UserActs
  <2>2. SharingBase'
    BY <1>1, <1>5, BaseUndo
  <2>3. Drained' /\ adrift' = {}
    BY <1>1, <1>5, DrainedSame DEF TryUndoDelete, linkVars, lossVars
  <2> QED BY <1>5, <2>1, <2>2, <2>3, StartsUndo DEF CalmParts
<1> QED BY <1>2, <1>3, <1>4, <1>5

LEMMA ThreadSteps ==
    ASSUME Unlimited, Mesh, Base, Phase, calm', NEW h \in Host,
           \/ ReadClipboardData(h) \/ OnClipboardNotification(h)
           \/ SetClipboardData(h) \/ RememberCurrent(h)
           \/ ApplyAndBroadcastPayload(h) \/ RelayVia(h)
    PROVE  CalmParts'
<1>1. SharingBase /\ Drained /\ adrift = {}
  BY DEF Base
<1>2. SharingBase'
  BY <1>1, BaseRead, BaseNotification, BaseSet, BaseRemember, BaseApply, BaseRelayVia
<1>3. Drained' /\ adrift' = {}
  <2>1. UNCHANGED <<line, wire, adrift>>
    BY DEF ReadClipboardData, OnClipboardNotification, SetClipboardData, RememberCurrent,
       ApplyAndBroadcastPayload, RelayVia, meshVars, linkVars, lossVars
  <2> QED BY <1>1, <2>1, DrainedSame
<1>4. ASSUME changed = {}, relay = None, \A p \in Host : AtRest(p) PROVE FALSE
  BY <1>4 DEF AtRest, ReadClipboardData, OnClipboardNotification, SetClipboardData, RememberCurrent,
     ApplyAndBroadcastPayload, RelayVia
<1>5. ASSUME Deleting \/ \E d \in Dials : Severed(d) PROVE FALSE
  BY <1>4, <1>5 DEF Deleting, Severed, Connected
<1>6. ASSUME NEW p \in Host, Copying(p) PROVE Histories' /\ Phase'
  <2>1. ReadClipboardData(h) \/ OnClipboardNotification(h)
    BY <1>6 DEF Copying, Connected, SetClipboardData, RememberCurrent, ApplyAndBroadcastPayload, RelayVia
  <2> QED BY <1>6, <2>1, CopyingRead, CopyingNotification
<1>7. ASSUME NEW g \in Nat, Spreading(g) PROVE Histories' /\ Phase'
  BY <1>7, SpreadingRead, SpreadingNotification, SpreadingSet, SpreadingRemember, SpreadingApply, SpreadingRelay
<1> QED BY <1>2, <1>3, <1>5, <1>6, <1>7 DEF Phase, CalmParts

LEMMA DialSteps ==
    ASSUME Unlimited, Mesh, Base, Phase, calm', NEW d \in Dials,
           Connect(d) \/ DrainOutboundMessages(d) \/ AnswerSync(d) \/ Break(d)
    PROVE  CalmParts'
<1>1. SharingBase /\ SharingTypes /\ Drained /\ adrift = {}
  BY DEF Base, SharingBase
<1>2. SharingBase'
  BY <1>1, BaseConnect, BaseDrain, BaseAnswer, BaseBreak
<1>3. CASE Break(d)
  <2>1. Quiet \/ End(d) \notin serving
    BY <1>3 DEF Break, Goes
  <2>2. Quiet \/ Severed(d)
    <3>1. line[d] # None
      BY <1>3 DEF Break
    <3> QED BY <2>1, <3>1 DEF Phase, Deleting, Copying, Connected, Spreading, Severed
  <2>3. Drained' /\ adrift' = {}
    BY <1>1, <1>3, <2>2, DrainedStep
  <2> QED BY <1>2, <1>3, <2>2, <2>3, StartsBreak DEF CalmParts
<1>4. CASE Connect(d) \/ DrainOutboundMessages(d) \/ AnswerSync(d)
  <2>1. Drained' /\ adrift' = {}
    BY <1>1, <1>4, DrainedStep
  <2>2. ASSUME End(d) \in serving \/ line[d] # None, asked = {}
        PROVE  DrainOutboundMessages(d) /\ queue[d] # <<>>
    <3>1. line[d] # None
      BY <1>1, <2>2, EndsAre DEF SharingTypes
    <3> QED BY <1>4, <2>2, <3>1 DEF Connect, AnswerSync, DrainOutboundMessages
  <2>3. ASSUME Frames(d) = {}, queue[d] # <<>> PROVE FALSE
    <3>1. queue[d] \in Seq(Frame)
      BY <1>1 DEF SharingTypes
    <3>2. Head(queue[d]) \in ToSet(queue[d])
      BY <2>3, <3>1, QueueIs
    <3> QED BY <2>3, <3>2 DEF Frames
  <2>4. CASE Deleting
    BY <1>2, <2>1, <2>2, <2>4, DeletingDrain DEF Deleting, Connected, CalmParts, Phase
  <2>5. ASSUME NEW p \in Host, Copying(p) PROVE FALSE
    BY <2>2, <2>3, <2>5 DEF Copying, Connected
  <2>6. ASSUME NEW c \in Dials, Severed(c) PROVE FALSE
    <3>1. End(d) \in serving \/ line[d] # None
      BY <2>6 DEF Severed
    <3> QED BY <2>2, <2>3, <2>6, <3>1 DEF Severed
  <2>7. ASSUME NEW g \in Nat, Spreading(g) PROVE Histories' /\ Phase'
    BY <1>4, <2>7, SpreadingConnect, SpreadingDrain, SpreadingAnswer
  <2> QED BY <1>2, <2>1, <2>4, <2>5, <2>6, <2>7 DEF Phase, CalmParts
<1> QED BY <1>3, <1>4

LEMMA EndSteps ==
    ASSUME Unlimited, Mesh, Base, Phase, calm', NEW e \in Ends, Receive(e) \/ OnIncomingPeerLeft(e)
    PROVE  CalmParts'
<1>1. SharingBase /\ SharingTypes /\ Drained /\ adrift = {}
  BY DEF Base, SharingBase
<1>2. SharingBase' /\ Drained' /\ adrift' = {}
  BY <1>1, BaseReceive, BaseLeft, DrainedEnds
<1>3. CASE OnIncomingPeerLeft(e)
  <2>1. Quiet \/ e # End(e[1])
    BY <1>3 DEF OnIncomingPeerLeft, Goes
  <2>2. Histories' /\ Phase'
    BY <1>3, <2>1, StartsLeft, OldLeft
  <2> QED BY <1>2, <2>2 DEF CalmParts
<1>4. CASE Receive(e)
  <2>1. PICK d \in Dials : d = e[1]
    BY EndsAre
  <2>2. Frames(d) # {}
    BY <1>1, <1>4, <2>1, ReceiveIs
  <2>3. Deleting \/ \E g \in Nat : Spreading(g)
    BY <2>2 DEF Phase, Copying, Severed
  <2>4. Histories' /\ Phase'
    BY <1>4, <2>1, <2>3, DeletingReceive, SpreadingReceive
  <2> QED BY <1>2, <2>4 DEF CalmParts
<1> QED BY <1>3, <1>4

(* What holds while every user waits for the others and nothing fails but a
   connection at rest.                                                       *)
CalmInv == ReplayInv /\ (Unlimited /\ Mesh /\ calm => CalmParts)

LEMMA CalmInit == SharingInit => CalmInv
<1> SUFFICES ASSUME SharingInit PROVE CalmInv
  OBVIOUS
<1>1. ReplayInv /\ SharingBase
  BY ReplayInit, BaseInit
<1>2. \A h \in Host : guard[h] = None /\ Guids(store[h]) = {} /\ os[h].what = Unreadable
  BY EmptyIs DEF SharingInit
<1>3. /\ \A d \in Dials : queue[d] = <<>>
      /\ \A e \in Ends : wire[e] = <<>>
  BY DEF SharingInit
<1>4. (\A d \in Dials : Frames(d) = {}) /\ Drained /\ adrift = {}
  BY <1>3, NoFrames DEF Drained, SharingInit
<1>5. None \notin Writable
  BY ClipAssumption DEF Writable
<1>6. Histories
  BY <1>2, <1>4, <1>5 DEF Histories, GuardsKnown, SolesSpread, FramesRight, ContentsSpread, Contents
<1>7. Connected
  <2>1. PICK n \in Serving : line = [d \in Dials |-> n] /\ serving = Dials \X {n}
    BY DEF SharingInit
  <2>2. \A d \in Dials : End(d) = <<d, n>> /\ <<d, n>> \in serving
    BY <2>1 DEF End
  <2> QED BY <2>2 DEF Connected, SharingInit
<1>8. Deleting
  BY <1>2, <1>4, <1>5, <1>7 DEF SharingInit, Deleting, AtRest, Settled
<1> QED BY <1>1, <1>4, <1>6, <1>8 DEF CalmInv, CalmParts, Phase

LEMMA CalmStep == CalmInv /\ [SharingNext]_sharingVars => CalmInv'
<1> SUFFICES ASSUME CalmInv, [SharingNext]_sharingVars PROVE CalmInv'
  OBVIOUS
<1>1. ReplayInv /\ ReplayInv'
  BY ReplayStep DEF CalmInv
<1>2. ASSUME Unlimited, Mesh, calm' PROVE CalmParts'
  <2>1. calm
    BY <1>2, CalmBefore
  <2>2. Base /\ actions \in Nat /\ Phase
    BY <1>1, <1>2, <2>1 DEF CalmInv, CalmParts, ReplayInv, Base
  <2>3. CASE UNCHANGED sharingVars
    <3>1. /\ UNCHANGED <<clock, event, os, changed, guard, read, writing, store, acting, undo, relay, actions>>
          /\ UNCHANGED <<queue, wire, line, serving, asked, unasked, adrift, calm, shared>>
      BY <2>3 DEF sharingVars, clipVars, userVars, meshVars, linkVars, lossVars, calmVars
    <3>2. Histories' /\ Phase' /\ Drained' /\ adrift' = {}
      BY <2>2, <3>1, SameHistories, PhaseKept, DrainedSame DEF Base
    <3>3. SharingBase'
      <4>1. SharingTypes'
        BY <2>2, <3>1 DEF Base, SharingBase, SharingTypes
      <4>2. EventsKnown'
        BY <2>2, <3>1, SameKnown DEF Base, SharingBase, Undertaken
      <4> QED BY <4>1, <4>2 DEF SharingBase
    <3> QED BY <3>2, <3>3 DEF CalmParts
  <2>4. CASE SharingNext
    <3>1. ASSUME NEW c \in Content \ Secret, RelayPayloads(c) PROVE CalmParts'
      <4>1. Quiet
        BY <1>2, <3>1 DEF RelayPayloads
      <4>2. SharingBase'
        BY <2>2, <3>1, BaseRelayPayloads DEF Base
      <4>3. Drained' /\ adrift' = {}
        BY <2>2, <3>1, DrainedSame DEF Base, RelayPayloads, meshVars, linkVars, lossVars
      <4> QED BY <1>2, <2>2, <3>1, <4>1, <4>2, <4>3, StartsRelay DEF CalmParts
    <3>2. ASSUME NEW h \in Host PROVE ~Restart(h)
      BY <1>2 DEF Restart
    <3> QED BY <1>2, <2>2, <2>4, <3>1, <3>2, UserStarts, ThreadSteps, DialSteps, EndSteps DEF SharingNext
  <2> QED BY <2>3, <2>4
<1> QED BY <1>1, <1>2 DEF CalmInv, Unlimited, Mesh

LEMMA AgreesWhenQuiet ==
    ASSUME Unlimited, Mesh, CalmInv
    PROVE  CalmUseAgrees
<1> SUFFICES ASSUME calm, Quiet, NEW h \in Host, NEW p \in Host
             PROVE  /\ os[h].what \in {shared, Unreadable} \cup Secret
                    /\ \A g \in Guids(store[h]) \ Guids(store[p]) :
                         \E e \in DOMAIN event \ {g} : event[e] = event[g]
                    /\ actions = 0 => Contents(h) = Contents(p)
  BY DEF CalmUseAgrees
<1>1. Base /\ Phase
  BY DEF CalmInv, CalmParts, ReplayInv, Base
<1>2. AtRest(h) /\ \A d \in Dials : Frames(d) = {}
  BY <1>1, QuietIs
<1>3. os[h].what \in {shared, Unreadable} \cup Secret
  <2>1. os[h].what \in Content \cup {Unreadable}
    BY <1>1 DEF Base, SharingBase, SharingTypes
  <2> QED BY <1>2, <2>1 DEF AtRest, Settled, Writable
<1>4. \A g \in Guids(store[h]) \ Guids(store[p]) : \E e \in DOMAIN event \ {g} : event[e] = event[g]
  BY <1>1, <1>2, SolesEverywhere DEF Sole
<1>5. actions = 0 => Contents(h) = Contents(p)
  BY <1>1, <1>2, SolesEverywhere
<1> QED BY <1>3, <1>4, <1>5

(* Users who wait for each other, on hosts that all dial each other and whose
   histories have no limit, share one clipboard: what was shared last is what a
   paste gives everywhere; the histories list the same events but for those that
   share their contents with another, and as long as nobody deletes the same
   contents.  A host that takes its own write for its user's, and a clip whose
   contents a guard holds already, are among the cases; a clipboard write that
   fails and a host that starts again are not.                               *)
THEOREM CalmUse == Unlimited /\ Mesh => (SharingSpec => []CalmUseAgrees)
<1> SUFFICES ASSUME Unlimited /\ Mesh PROVE SharingSpec => []CalmUseAgrees
  OBVIOUS
<1>1. CalmInv => CalmUseAgrees
  BY AgreesWhenQuiet
<1> QED BY CalmInit, CalmStep, <1>1, PTL DEF SharingSpec

=============================================================================
