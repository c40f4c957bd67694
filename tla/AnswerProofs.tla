--------------------------- MODULE AnswerProofs ----------------------------
(***************************************************************************)
(* The reply of TS.RANGE and TS.REVRANGE is exact, for every series, every *)
(* division of it into chunks and every query: AnswerExact of RangeQuery.  *)
(*                                                                         *)
(* The argument.  The samples a query selects are divided, at every point  *)
(* of its execution, into Rest, which the series iterator has not read,    *)
(* Held, which are in the buffer, and Done; in the order of the reply Done *)
(* comes before Held and Held before Rest (InputInv).  Without an          *)
(* aggregation the reply lists Done.  With one, the buckets sent and those *)
(* written into the buffer are the first ones of the full reply, the next  *)
(* one is the current bucket, and the context lists the samples of Done    *)
(* that belong to it (Running).  The lists are characterised by their      *)
(* elements and their order (Lists), which determine them (ListUnique).    *)
(***************************************************************************)
EXTENDS RangeQueryProofs

----------------------------------------------------------------------------
(***************************************************************************)
(* Sets listed in the order of a reply, which r reverses.                  *)
(***************************************************************************)
Before(r, t, u) == IF r THEN u < t ELSE t < u

\* s lists the elements of S, each once, in that order.
Lists(r, s, S) ==
  /\ s \in Seq(Int)
  /\ \A i, j \in 1 .. Len(s) : i < j => Before(r, s[i], s[j])
  /\ \A i \in 1 .. Len(s) : s[i] \in S
  /\ \A x \in S : \E i \in 1 .. Len(s) : s[i] = x

\* All of S comes before all of T.
AllBefore(r, S, T) == \A t \in S, u \in T : Before(r, t, u)

\* A strict order of the integers.
LEMMA BeforeOrder ==
  ASSUME NEW r \in BOOLEAN, NEW t \in Int, NEW u \in Int
  PROVE  /\ ~Before(r, t, t)
         /\ Before(r, t, u) => ~Before(r, u, t)
         /\ t = u \/ Before(r, t, u) \/ Before(r, u, t)
         /\ \A v \in Int : Before(r, t, u) /\ Before(r, u, v) => Before(r, t, v)
BY DEF Before

\* A list has its elements once each, and their places follow the order.
LEMMA ListPlaces ==
  ASSUME NEW r \in BOOLEAN, NEW s, NEW S, Lists(r, s, S),
         NEW i \in 1 .. Len(s), NEW j \in 1 .. Len(s)
  PROVE  /\ Len(s) \in Nat /\ s[i] \in Int /\ s[j] \in Int
         /\ s[i] = s[j] => i = j
         /\ Before(r, s[i], s[j]) => i < j
<1>1. s \in Seq(Int) /\ Len(s) \in Nat
  BY DEF Lists
<1>2. s[i] \in Int /\ s[j] \in Int
  BY <1>1, ElementOfSeq
<1>3. /\ i < j => Before(r, s[i], s[j])
      /\ j < i => Before(r, s[j], s[i])
  BY DEF Lists
<1>4. i \in Int /\ j \in Int
  OBVIOUS
<1>5. s[i] = s[j] => i = j
  BY <1>2, <1>3, <1>4, BeforeOrder
<1>6. Before(r, s[i], s[j]) => i < j
  BY <1>2, <1>3, <1>4, BeforeOrder
<1> QED BY <1>1, <1>2, <1>5, <1>6

\* A list of the earlier elements is the beginning of a list of all of them.
LEMMA ListPrefix ==
  ASSUME NEW r \in BOOLEAN, NEW s, NEW a, NEW S, NEW T, Lists(r, s, S), Lists(r, a, T),
         S \subseteq T, AllBefore(r, S, T \ S)
  PROVE  /\ Len(s) \in Nat /\ Len(a) \in Nat /\ Len(s) <= Len(a)
         /\ \A i \in 1 .. Len(s) : i \in 1 .. Len(a) /\ a[i] = s[i]
<1>1. Len(s) \in Nat /\ Len(a) \in Nat
  BY DEF Lists
<1> DEFINE Good(i) == i \in 1 .. Len(a) /\ a[i] = s[i]
           M == {i \in 1 .. Len(s) : ~Good(i)}
<1>2. M = {}
  <2> SUFFICES ASSUME M # {} PROVE FALSE
    OBVIOUS
  <2>1. M \in SUBSET Nat
    BY <1>1
  <2>2. PICK m \in M : \A n \in M : m <= n
    BY <2>1, SmallestExists
  <2>3. m \in 1 .. Len(s) /\ ~Good(m) /\ m \in Nat
    BY <1>1
  <2>4. ASSUME NEW j \in 1 .. Len(s), j < m PROVE Good(j)
    BY <1>1, <2>2, <2>3, <2>4
  <2>5. s[m] \in S /\ s[m] \in T /\ s[m] \in Int
    BY <2>3, ListPlaces DEF Lists
  <2>6. PICK k \in 1 .. Len(a) : a[k] = s[m]
    BY <2>5 DEF Lists
  <2> HIDE DEF M
  <2>7. ~(k < m)
    <3> SUFFICES ASSUME k < m PROVE FALSE
      OBVIOUS
    <3>1. k \in 1 .. Len(s)
      BY <1>1, <2>3, <2>6
    <3>2. a[k] = s[k]
      BY <2>4, <3>1
    <3>3. s[k] = s[m] /\ k # m
      BY <2>6, <3>2, <1>1, <2>3
    <3> QED BY <2>3, <3>1, <3>3, ListPlaces
  <2>8. m \in 1 .. Len(a) /\ m # k /\ m < k
    BY <1>1, <2>3, <2>6, <2>7
  <2>9. Before(r, a[m], a[k]) /\ a[m] \in Int /\ a[m] \in T
    BY <2>8, <2>6, ListPlaces DEF Lists
  <2>10. CASE a[m] \in S
    <3>1. PICK l \in 1 .. Len(s) : s[l] = a[m]
      BY <2>10 DEF Lists
    <3>2. l < m
      BY <2>3, <2>6, <2>9, <3>1, ListPlaces
    <3>3. a[l] = a[m] /\ l \in 1 .. Len(a) /\ l # m
      BY <2>4, <3>1, <3>2, <1>1, <2>3
    <3> QED BY <2>8, <3>3, ListPlaces
  <2>11. CASE a[m] \notin S
    <3>1. Before(r, s[m], a[m])
      BY <2>5, <2>9, <2>11 DEF AllBefore
    <3> QED BY <2>5, <2>6, <2>9, <3>1, BeforeOrder
  <2> QED BY <2>10, <2>11
<1>3. \A i \in 1 .. Len(s) : Good(i)
  BY <1>2
<1>4. Len(s) <= Len(a)
  <2>1. CASE Len(s) = 0
    BY <1>1, <2>1
  <2>2. CASE Len(s) # 0
    <3>1. Len(s) \in 1 .. Len(s)
      BY <1>1, <2>2
    <3> QED BY <1>1, <1>3, <3>1
  <2> QED BY <2>1, <2>2
<1> QED BY <1>1, <1>3, <1>4

\* There is one list of a set.
LEMMA ListUnique ==
  ASSUME NEW r \in BOOLEAN, NEW s, NEW a, NEW S, Lists(r, s, S), Lists(r, a, S)
  PROVE  s = a
<1>1. S \subseteq S /\ AllBefore(r, S, S \ S)
  BY DEF AllBefore
<1>2. /\ Len(s) \in Nat /\ Len(a) \in Nat /\ Len(s) <= Len(a) /\ Len(a) <= Len(s)
      /\ \A i \in 1 .. Len(s) : a[i] = s[i]
  BY <1>1, ListPrefix
<1>3. Len(s) = Len(a)
  BY <1>2
<1>4. s \in Seq(Int) /\ a \in Seq(Int)
  BY DEF Lists
<1> QED BY <1>2, <1>3, <1>4

\* Lists of earlier and later elements, one after the other.
LEMMA ListConcat ==
  ASSUME NEW r \in BOOLEAN, NEW s, NEW a, NEW S, NEW T, Lists(r, s, S), Lists(r, a, T),
         AllBefore(r, S, T)
  PROVE  Lists(r, s \o a, S \cup T)
<1>1. s \in Seq(Int) /\ a \in Seq(Int) /\ Len(s) \in Nat /\ Len(a) \in Nat
  BY DEF Lists
<1>2. PICK z : z = s \o a
  OBVIOUS
<1>3. /\ z \in Seq(Int) /\ Len(z) = Len(s) + Len(a)
      /\ \A i \in 1 .. Len(s) : z[i] = s[i]
      /\ \A i \in 1 .. Len(a) : z[Len(s) + i] = a[i]
  BY <1>1, <1>2, ConcatProperties
<1>4. ASSUME NEW i \in 1 .. Len(z)
      PROVE  \/ i \in 1 .. Len(s) /\ z[i] = s[i] /\ s[i] \in S
             \/ /\ i - Len(s) \in 1 .. Len(a) /\ i \notin 1 .. Len(s)
                /\ z[i] = a[i - Len(s)] /\ a[i - Len(s)] \in T
  <2>1. CASE i \in 1 .. Len(s)
    BY <1>3, <2>1 DEF Lists
  <2>2. CASE i \notin 1 .. Len(s)
    <3>1. i - Len(s) \in 1 .. Len(a) /\ i = Len(s) + (i - Len(s))
      BY <1>1, <1>3, <2>2
    <3> QED BY <1>3, <2>2, <3>1 DEF Lists
  <2> QED BY <2>1, <2>2
<1>5. ASSUME NEW i \in 1 .. Len(z), NEW j \in 1 .. Len(z), i < j PROVE Before(r, z[i], z[j])
  <2>1. CASE i \in 1 .. Len(s) /\ j \in 1 .. Len(s)
    BY <1>3, <1>5, <2>1 DEF Lists
  <2>2. CASE i \in 1 .. Len(s) /\ j \notin 1 .. Len(s)
    BY <1>4, <2>2 DEF AllBefore
  <2>3. CASE i \notin 1 .. Len(s) /\ j \notin 1 .. Len(s)
    <3>1. i - Len(s) < j - Len(s)
      BY <1>1, <1>3, <1>5
    <3> QED BY <1>4, <2>3, <3>1 DEF Lists
  <2>4. ~(i \notin 1 .. Len(s) /\ j \in 1 .. Len(s))
    BY <1>1, <1>3, <1>5
  <2> QED BY <2>1, <2>2, <2>3, <2>4
<1>6. ASSUME NEW x \in S \cup T PROVE \E i \in 1 .. Len(z) : z[i] = x
  <2>1. CASE x \in S
    <3>1. PICK i \in 1 .. Len(s) : s[i] = x
      BY <2>1 DEF Lists
    <3>2. i \in 1 .. Len(z)
      BY <1>1, <1>3
    <3> QED BY <1>3, <3>1, <3>2
  <2>2. CASE x \in T
    <3>1. PICK i \in 1 .. Len(a) : a[i] = x
      BY <2>2 DEF Lists
    <3>2. Len(s) + i \in 1 .. Len(z)
      BY <1>1, <1>3
    <3> QED BY <1>3, <3>1, <3>2
  <2> QED BY <2>1, <2>2
<1>7. \A i \in 1 .. Len(z) : z[i] \in S \cup T
  BY <1>4
<1>8. Lists(r, z, S \cup T)
  BY <1>3, <1>5, <1>6, <1>7 DEF Lists
<1> QED BY <1>2, <1>8

\* The place behind x belongs to the first element behind it.
LEMMA ListNext ==
  ASSUME NEW r \in BOOLEAN, NEW s, NEW S, Lists(r, s, S), NEW i \in 1 .. Len(s),
         NEW y \in S, Before(r, s[i], y),
         \A z \in S : ~(Before(r, s[i], z) /\ Before(r, z, y))
  PROVE  i + 1 \in 1 .. Len(s) /\ s[i + 1] = y
<1>1. Len(s) \in Nat /\ s[i] \in Int
  BY ListPlaces
<1>2. PICK k \in 1 .. Len(s) : s[k] = y
  BY DEF Lists
<1>3. i < k /\ y \in Int
  BY <1>2, ListPlaces
<1>4. i + 1 \in 1 .. Len(s)
  BY <1>1, <1>3
<1>5. s[i + 1] \in S /\ s[i + 1] \in Int /\ Before(r, s[i], s[i + 1])
  BY <1>1, <1>4, ListPlaces DEF Lists
<1>6. i + 1 = k \/ i + 1 < k
  BY <1>1, <1>3
<1>7. ~(i + 1 < k)
  <2> SUFFICES ASSUME i + 1 < k PROVE FALSE
    OBVIOUS
  <2>1. Before(r, s[i + 1], s[k])
    BY <1>4 DEF Lists
  <2> QED BY <1>2, <1>5, <2>1
<1> QED BY <1>2, <1>4, <1>6, <1>7

\* The first place belongs to the first element.
LEMMA ListFirst ==
  ASSUME NEW r \in BOOLEAN, NEW s, NEW S, Lists(r, s, S), NEW y \in S,
         \A z \in S : ~Before(r, z, y)
  PROVE  1 \in 1 .. Len(s) /\ s[1] = y
<1>1. PICK k \in 1 .. Len(s) : s[k] = y
  BY DEF Lists
<1>2. Len(s) \in Nat /\ y \in Int /\ 1 \in 1 .. Len(s)
  BY <1>1, ListPlaces DEF Lists
<1>3. s[1] \in S
  BY <1>2 DEF Lists
<1>4. ~(1 < k)
  <2> SUFFICES ASSUME 1 < k PROVE FALSE
    OBVIOUS
  <2>1. Before(r, s[1], s[k])
    BY <1>2 DEF Lists
  <2> QED BY <1>1, <1>3, <2>1
<1> QED BY <1>1, <1>2, <1>4

\* Ascending lists a finite set.
LEMMA AscendingLists ==
  ASSUME NEW S \in SUBSET Int, IsFiniteSet(S)
  PROVE  Lists(FALSE, Ascending(S), S)
<1> DEFINE N == Cardinality(S)
           o == Ascending(S)
<1>1. o \in [1 .. N -> S] /\ N \in Nat /\ \A i, j \in 1 .. N : i < j => o[i] < o[j]
  BY AscendingSorts
<1>2. o = [i \in 1 .. N |-> CHOOSE t \in S : Rank(S, t) = i - 1]
  BY DEF Ascending, Rank
<1> HIDE DEF o, N
<1>3. o \in Seq(Int) /\ Len(o) = N
  <2>1. o \in [1 .. N -> Int]
    BY <1>1
  <2> QED BY <1>1, <2>1, FunctionIsSeq
<1>4. ASSUME NEW x \in S PROVE \E i \in 1 .. N : o[i] = x
  <2>1. Rank(S, x) \in 0 .. N - 1
    BY RankOrder DEF N
  <2>2. PICK i \in 1 .. N : i - 1 = Rank(S, x)
    <3>1. Rank(S, x) + 1 \in 1 .. N /\ (Rank(S, x) + 1) - 1 = Rank(S, x)
      BY <1>1, <2>1
    <3> QED BY <3>1
  <2>3. o[i] \in S /\ Rank(S, o[i]) = Rank(S, x)
    <3>1. o[i] = CHOOSE t \in S : Rank(S, t) = Rank(S, x)
      BY <1>2, <2>2
    <3> QED BY <3>1
  <2>4. PICK y \in S : y = o[i] /\ Rank(S, y) = Rank(S, x)
    BY <2>3
  <2>5. /\ x < y => Rank(S, x) < Rank(S, y)
        /\ y < x => Rank(S, y) < Rank(S, x)
    BY RankOrder
  <2>6. x \in Int /\ y \in Int /\ Rank(S, x) \in Int
    BY <1>1, <2>1
  <2>7. x = y
    BY <2>4, <2>5, <2>6
  <2> QED BY <2>4, <2>7
<1>5. \A i, j \in 1 .. N : i < j => Before(FALSE, o[i], o[j])
  BY <1>1 DEF Before
<1>6. Lists(FALSE, o, S)
  BY <1>1, <1>3, <1>4, <1>5 DEF Lists
<1> QED BY <1>6 DEF o

\* Reversing a list.
LEMMA ReverseLists ==
  ASSUME NEW s, NEW S, Lists(FALSE, s, S)
  PROVE  Lists(TRUE, Reverse(s), S)
<1>1. s \in Seq(Int) /\ Len(s) \in Nat
  BY DEF Lists
<1>2. PICK z : z = Reverse(s)
  OBVIOUS
<1>3. z = [i \in 1 .. Len(s) |-> s[(Len(s) - i) + 1]]
  BY <1>2 DEF Reverse
<1>4. \A i \in 1 .. Len(s) : (Len(s) - i) + 1 \in 1 .. Len(s)
  BY <1>1
<1>5. z \in Seq(Int) /\ Len(z) = Len(s)
  BY <1>1, <1>3, <1>4
<1>6. \A i \in 1 .. Len(s) : z[i] = s[(Len(s) - i) + 1]
  BY <1>3
<1>7. ASSUME NEW i \in 1 .. Len(s), NEW j \in 1 .. Len(s), i < j PROVE Before(TRUE, z[i], z[j])
  <2>1. (Len(s) - j) + 1 < (Len(s) - i) + 1
    BY <1>1, <1>7
  <2>2. s[(Len(s) - j) + 1] < s[(Len(s) - i) + 1]
    BY <1>4, <2>1 DEF Lists, Before
  <2> QED BY <1>6, <2>2 DEF Before
<1>8. \A i \in 1 .. Len(s) : z[i] \in S
  BY <1>4, <1>6 DEF Lists
<1>9. ASSUME NEW x \in S PROVE \E i \in 1 .. Len(s) : z[i] = x
  <2>1. PICK i \in 1 .. Len(s) : s[i] = x
    BY DEF Lists
  <2>2. (Len(s) - i) + 1 \in 1 .. Len(s) /\ (Len(s) - ((Len(s) - i) + 1)) + 1 = i
    BY <1>1
  <2> QED BY <1>6, <2>1, <2>2
<1>10. Lists(TRUE, z, S)
  BY <1>5, <1>7, <1>8, <1>9 DEF Lists
<1> QED BY <1>2, <1>10

\* The order of the reply.
LEMMA ReplyOrderLists ==
  ASSUME NEW query, query.reverse \in BOOLEAN, NEW S \in SUBSET Int, IsFiniteSet(S)
  PROVE  Lists(query.reverse, ReplyOrder(query, S), S)
<1>1. Lists(FALSE, Ascending(S), S)
  BY AscendingLists
<1>2. CASE query.reverse = TRUE
  BY <1>1, <1>2, ReverseLists DEF ReplyOrder
<1>3. CASE query.reverse = FALSE
  BY <1>1, <1>3 DEF ReplyOrder
<1> QED BY <1>2, <1>3

\* The arguments of the search, what it should find for them, and one step of it.
Frames(s) == [si : DOMAIN s, ei : DOMAIN s, values : SUBSET Time]
Matches(s, x) == {m \in 1 .. Len(s) : x.si <= m /\ m <= x.ei /\ s[m].ts \in x.values}
Within(s, W, i, j) == {t \in W : s[i].ts <= t /\ t <= s[j].ts}
Half(s, f, W, i, j) == IF Within(s, W, i, j) = {} THEN {} ELSE f[[si |-> i, ei |-> j, values |-> Within(s, W, i, j)]]
Search(s, f, x) ==
  IF x.si = x.ei THEN IF s[x.si].ts \in x.values THEN {x.si} ELSE {}
  ELSE Half(s, f, x.values, x.si, (x.si + x.ei) \div 2)
         \cup Half(s, f, x.values, ((x.si + x.ei) \div 2) + 1, x.ei)

\* One half, searched right.
LEMMA HalfMatches ==
  ASSUME NEW s \in Seq(Sent), Up(s), NEW f, NEW W \in SUBSET Time,
         NEW i \in 1 .. Len(s), NEW j \in 1 .. Len(s),
         i <= j => f[[si |-> i, ei |-> j, values |-> Within(s, W, i, j)]]
                     = Matches(s, [si |-> i, ei |-> j, values |-> Within(s, W, i, j)])
  PROVE  Half(s, f, W, i, j) = {m \in 1 .. Len(s) : i <= m /\ m <= j /\ s[m].ts \in W}
<1> DEFINE V == Within(s, W, i, j)
           M == {m \in 1 .. Len(s) : i <= m /\ m <= j /\ s[m].ts \in W}
<1>1. \A m \in 1 .. Len(s) : s[m].ts \in Time /\ s[m].ts \in Int
  BY DEF Up, Samples, Time
<1>2. \A m, n \in 1 .. Len(s) : m < n => s[m].ts < s[n].ts
  BY DEF Up
<1>3. ASSUME NEW m \in M PROVE s[m].ts \in V /\ i <= j
  <2>1. m \in 1 .. Len(s) /\ i <= m /\ m <= j /\ s[m].ts \in W /\ m \in Int /\ i \in Int /\ j \in Int
    OBVIOUS
  <2>2. s[i].ts <= s[m].ts
    <3>1. CASE i = m
      BY <1>1, <3>1
    <3>2. CASE i < m
      BY <1>1, <1>2, <3>2, <2>1
    <3> QED BY <2>1, <3>1, <3>2
  <2>3. s[m].ts <= s[j].ts
    <3>1. CASE j = m
      BY <1>1, <3>1
    <3>2. CASE m < j
      BY <1>1, <1>2, <3>2, <2>1
    <3> QED BY <2>1, <3>1, <3>2
  <2> QED BY <2>1, <2>2, <2>3 DEF Within
<1>4. CASE V = {}
  <2>1. M = {}
    BY <1>3, <1>4
  <2> QED BY <1>4, <2>1 DEF Half
<1>5. CASE V # {}
  <2>1. PICK t \in V : TRUE
    BY <1>5
  <2>2. t \in Int /\ s[i].ts <= t /\ t <= s[j].ts
    <3>1. t \in Time /\ s[i].ts <= t /\ t <= s[j].ts
      BY <2>1 DEF Within
    <3> QED BY <3>1 DEF Time
  <2>3. i <= j
    BY <1>1, <1>2, <2>2
  <2>4. Half(s, f, W, i, j) = f[[si |-> i, ei |-> j, values |-> V]]
    BY <1>5 DEF Half
  <2>5. Matches(s, [si |-> i, ei |-> j, values |-> V]) = {m \in 1 .. Len(s) : i <= m /\ m <= j /\ s[m].ts \in V}
    BY DEF Matches
  <2>6. {m \in 1 .. Len(s) : i <= m /\ m <= j /\ s[m].ts \in V} = M
    <3>1. \A u \in V : u \in W
      BY DEF Within
    <3> HIDE DEF V
    <3> QED BY <1>3, <3>1
  <2> QED BY <2>3, <2>4, <2>5, <2>6
<1> QED BY <1>4, <1>5

\* One frame, when its halves are searched right.
LEMMA SearchMatches ==
  ASSUME NEW s \in Seq(Sent), Up(s), NEW f, NEW x \in Frames(s),
         \A y \in Frames(s) : y.si <= y.ei /\ y.ei - y.si < x.ei - x.si => f[y] = Matches(s, y)
  PROVE  Search(s, f, x) = Matches(s, x)
<1>1. PICK i \in 1 .. Len(s), j \in 1 .. Len(s), W \in SUBSET Time : x = [si |-> i, ei |-> j, values |-> W]
  BY DEF Frames
<1>2. x.si = i /\ x.ei = j /\ x.values = W /\ Len(s) \in Nat
  BY <1>1
<1> DEFINE mid == (i + j) \div 2
           M == {m \in 1 .. Len(s) : i <= m /\ m <= j /\ s[m].ts \in W}
<1>3. Matches(s, x) = M
  BY <1>2 DEF Matches
<1>4. CASE i = j
  <2>1. M = IF s[i].ts \in W THEN {i} ELSE {}
    BY <1>4
  <2> QED BY <1>2, <1>3, <1>4, <2>1 DEF Search
<1>5. CASE i # j
  <2>1. mid \in Int /\ (i < j => i <= mid /\ mid < j) /\ (j < i => j <= mid /\ mid < i)
    BY <1>5
  <2>2. mid \in 1 .. Len(s) /\ mid + 1 \in 1 .. Len(s)
    BY <1>2, <1>5, <2>1
  <2> HIDE DEF mid
  <2>3. ASSUME NEW k \in 1 .. Len(s), NEW l \in 1 .. Len(s), i <= j => l - k < j - i, k <= l => i <= j
        PROVE  Half(s, f, W, k, l) = {m \in 1 .. Len(s) : k <= m /\ m <= l /\ s[m].ts \in W}
    <3>1. Within(s, W, k, l) \in SUBSET Time
      BY DEF Within
    <3>2. DOMAIN s = 1 .. Len(s)
      OBVIOUS
    <3>3. PICK y \in Frames(s) : y = [si |-> k, ei |-> l, values |-> Within(s, W, k, l)]
      BY <3>1, <3>2 DEF Frames
    <3>4. k <= l => y.si = k /\ y.ei = l /\ i <= j /\ l - k < j - i
      BY <2>3, <3>3
    <3>5. k <= l => f[y] = Matches(s, y)
      BY <1>2, <3>4
    <3> QED BY <3>3, <3>5, HalfMatches
  <2>4. Half(s, f, W, i, mid) = {m \in 1 .. Len(s) : i <= m /\ m <= mid /\ s[m].ts \in W}
    BY <2>1, <2>2, <2>3, <1>5
  <2>5. Half(s, f, W, mid + 1, j) = {m \in 1 .. Len(s) : mid + 1 <= m /\ m <= j /\ s[m].ts \in W}
    BY <2>1, <2>2, <2>3, <1>5
  <2>6. {m \in 1 .. Len(s) : i <= m /\ m <= mid /\ s[m].ts \in W}
          \cup {m \in 1 .. Len(s) : mid + 1 <= m /\ m <= j /\ s[m].ts \in W} = M
    <3>1. \A m \in 1 .. Len(s) : i <= m /\ m <= j <=> (i <= m /\ m <= mid) \/ (mid + 1 <= m /\ m <= j)
      BY <2>1, <2>2, <1>2, <1>5
    <3> QED BY <3>1
  <2>7. Search(s, f, x) = Half(s, f, W, i, mid) \cup Half(s, f, W, mid + 1, j)
    BY <1>2, <1>5 DEF Search, mid
  <2> QED BY <1>3, <2>4, <2>5, <2>6, <2>7
<1> QED BY <1>4, <1>5

\* filterSamples finds the samples with one of the timestamps.
THEOREM FoundExact ==
  ASSUME NEW s \in Seq(Sent), Up(s), s # <<>>, NEW W \in SUBSET Time
  PROVE  Found(s, W) = {m \in 1 .. Len(s) : s[m].ts \in W}
<1> DEFINE F == CHOOSE f : f = [x \in Frames(s) |-> Search(s, f, x)]
           first == [si |-> 1, ei |-> Len(s), values |-> W]
<1>1. Found(s, W) = F[first]
  BY Zenon DEF Found, Frames, Search, Half, Within
<1>2. PICK g : g = [x \in Frames(s) |-> Matches(s, x)]
  OBVIOUS
<1>3. g = [x \in Frames(s) |-> Search(s, g, x)]
  <2>1. \A x \in Frames(s) : g[x] = Matches(s, x)
    BY <1>2
  <2>2. \A x \in Frames(s) : Search(s, g, x) = Matches(s, x)
    BY <2>1, SearchMatches
  <2> QED BY <1>2, <2>2
<1>4. F = [x \in Frames(s) |-> Search(s, F, x)]
  BY <1>3, Zenon
<1> HIDE DEF F
<1>5. Len(s) \in Nat /\ first \in Frames(s)
  BY DEF Frames
<1> DEFINE Bad == {n \in Nat : \E x \in Frames(s) : x.si <= x.ei /\ x.ei - x.si = n /\ F[x] # Matches(s, x)}
<1>6. Bad = {}
  <2> SUFFICES ASSUME Bad # {} PROVE FALSE
    OBVIOUS
  <2>1. PICK n \in Bad : \A k \in Bad : n <= k
    BY SmallestExists
  <2>2. PICK x \in Frames(s) : x.si <= x.ei /\ x.ei - x.si = n /\ F[x] # Matches(s, x)
    OBVIOUS
  <2>3. ASSUME NEW y \in Frames(s), y.si <= y.ei, y.ei - y.si < x.ei - x.si PROVE F[y] = Matches(s, y)
    <3>1. y.ei - y.si \in Nat
      BY <2>3, <1>5 DEF Frames
    <3>2. n \in Nat
      OBVIOUS
    <3> HIDE DEF Bad
    <3>3. y.ei - y.si \notin Bad
      BY <2>1, <2>2, <2>3, <3>1, <3>2
    <3> QED BY <2>3, <3>1, <3>3 DEF Bad
  <2>4. Search(s, F, x) = Matches(s, x)
    BY <2>3, SearchMatches
  <2> QED BY <1>4, <2>2, <2>4
<1>7. first.si = 1 /\ first.ei = Len(s) /\ 1 <= Len(s) /\ first.ei - first.si \in Nat
  BY <1>5
<1>8. F[first] = Matches(s, first)
  BY <1>5, <1>6, <1>7
<1>9. Matches(s, first) = {m \in 1 .. Len(s) : s[m].ts \in W}
  BY <1>5 DEF Matches
<1> QED BY <1>1, <1>8, <1>9

----------------------------------------------------------------------------
(***************************************************************************)
(* The timestamps that pass through the iterators.                         *)
(***************************************************************************)
Times(s) == {s[i].ts : i \in 1 .. Len(s)}

\* The timestamps of some of the samples.
LEMMA SubTimes ==
  ASSUME NEW s \in Seq(Sent), NEW K \in SUBSET (1 .. Len(s))
  PROVE  Times(Sub(s, K)) = {s[i].ts : i \in K}
<1>1. Len(s) \in Nat /\ K \in SUBSET Int
  OBVIOUS
<1>2. IsFiniteSet(1 .. Len(s))
  BY <1>1, FS_Interval
<1>3. IsFiniteSet(K)
  BY <1>2, FS_Subset
<1>4. PICK o : o = Ascending(K)
  OBVIOUS
<1>5. Lists(FALSE, o, K)
  BY <1>1, <1>3, <1>4, AscendingLists
<1>6. o \in Seq(Int) /\ DOMAIN o = 1 .. Len(o) /\ Len(o) \in Nat
  BY <1>5 DEF Lists
<1>7. PICK z : z = Sub(s, K)
  OBVIOUS
<1>8. z = [n \in 1 .. Len(o) |-> s[o[n]]]
  BY <1>4, <1>6, <1>7 DEF Sub
<1>9. z \in Seq(Sent)
  BY <1>7, SubTakes
<1>10. Len(z) = Len(o) /\ \A n \in 1 .. Len(z) : z[n] = s[o[n]]
  BY <1>6, <1>8, <1>9
<1>11. \A n \in 1 .. Len(z) : o[n] \in K
  BY <1>5, <1>10 DEF Lists
<1>12. \A i \in K : \E n \in 1 .. Len(z) : o[n] = i
  BY <1>5, <1>10 DEF Lists
<1>13. ASSUME NEW n \in 1 .. Len(z) PROVE z[n].ts \in {s[i].ts : i \in K}
  <2>1. PICK i \in K : i = o[n]
    BY <1>11
  <2>2. z[n].ts = s[i].ts
    BY <1>10, <2>1
  <2> QED BY <2>2
<1>14. ASSUME NEW i \in K PROVE s[i].ts \in Times(z)
  <2>1. PICK n \in 1 .. Len(z) : o[n] = i
    BY <1>12
  <2> QED BY <1>10, <2>1 DEF Times
<1> QED BY <1>7, <1>13, <1>14 DEF Times

\* ... and of the samples in the other order.
LEMMA ReverseTimes ==
  ASSUME NEW s \in Seq(Sent)
  PROVE  Times(Reverse(s)) = Times(s)
<1>1. Len(s) \in Nat
  OBVIOUS
<1>2. PICK z : z = Reverse(s)
  OBVIOUS
<1>3. z = [i \in 1 .. Len(s) |-> s[(Len(s) - i) + 1]]
  BY <1>2 DEF Reverse
<1>4. \A i \in 1 .. Len(s) : (Len(s) - i) + 1 \in 1 .. Len(s) /\ (Len(s) - ((Len(s) - i) + 1)) + 1 = i
  BY <1>1
<1>5. z \in Seq(Sent) /\ Len(z) = Len(s)
  BY <1>1, <1>3, <1>4
<1>6. \A i \in 1 .. Len(s) : z[i] = s[(Len(s) - i) + 1]
  BY <1>3
<1>7. \A i \in 1 .. Len(s) : \E k \in 1 .. Len(s) : z[k] = s[i]
  BY <1>4, <1>6
<1>8. \A i \in 1 .. Len(s) : \E k \in 1 .. Len(s) : z[i] = s[k]
  BY <1>4, <1>6
<1>9. ASSUME NEW i \in 1 .. Len(s) PROVE z[i].ts \in Times(s)
  <2>1. PICK k \in 1 .. Len(s) : z[i] = s[k]
    BY <1>8
  <2> QED BY <2>1 DEF Times
<1>10. ASSUME NEW i \in 1 .. Len(s) PROVE s[i].ts \in Times(z)
  <2>1. PICK k \in 1 .. Len(s) : z[k] = s[i]
    BY <1>7
  <2> QED BY <1>5, <2>1 DEF Times
<1>11. Times(z) = Times(s)
  BY <1>5, <1>9, <1>10 DEF Times
<1> QED BY <1>2, <1>11

\* FILTER_BY_TS keeps the samples it is asked for.
LEMMA FilterSamplesTimes ==
  ASSUME NEW s \in Seq(Sent), Up(s), NEW W \in SUBSET Time
  PROVE  Times(FilterSamples(s, W)) = Times(s) \cap W
<1>1. DOMAIN s = 1 .. Len(s) /\ Len(s) \in Nat
  OBVIOUS
<1>2. PICK K : K = {i \in 1 .. Len(s) : i \in Found(s, W)}
  OBVIOUS
<1>3. K \in SUBSET (1 .. Len(s)) /\ FilterSamples(s, W) = Sub(s, K)
  BY <1>1, <1>2 DEF FilterSamples
<1>4. K = {i \in 1 .. Len(s) : s[i].ts \in W}
  <2>1. CASE s = <<>>
    <3>1. 1 .. Len(s) = {}
      BY <2>1
    <3> QED BY <1>2, <3>1
  <2>2. CASE s # <<>>
    BY <1>2, <2>2, FoundExact
  <2> QED BY <2>1, <2>2
<1>5. Times(Sub(s, K)) = {s[i].ts : i \in K}
  BY <1>3, SubTimes
<1>6. {s[i].ts : i \in K} = {s[i].ts : i \in 1 .. Len(s)} \cap W
  BY <1>4
<1> QED BY <1>3, <1>5, <1>6 DEF Times

\* What FILTER_BY_TS leaves, in either direction.
LEMMA FilteredByTsTimes ==
  ASSUME q \in Query, wanted \in Seq(Time), NEW s \in Seq(Sent), q.byTs => Up(s)
  PROVE  Times(FilteredByTs(s)) = IF q.byTs THEN Times(s) \cap Range(wanted) ELSE Times(s)
<1>1. q.byTs \in BOOLEAN /\ q.reverse \in BOOLEAN
  BY DEF Query
<1>2. CASE ~q.byTs
  BY <1>2 DEF FilteredByTs
<1>3. CASE q.byTs
  <2>1. Range(wanted) \in SUBSET Time
    <3>1. \A i \in 1 .. Len(wanted) : wanted[i] \in Time
      BY ElementOfSeq
    <3> QED BY <3>1 DEF Range
  <2>2. PICK f : f = FilterSamples(s, Range(wanted))
    OBVIOUS
  <2>3. Times(f) = Times(s) \cap Range(wanted)
    BY <1>3, <2>1, <2>2, FilterSamplesTimes
  <2>4. f \in Seq(Sent)
    BY <2>2, FilterSamplesKeeps, SubOrder
  <2>5. FilteredByTs(s) = IF q.reverse THEN Reverse(f) ELSE f
    BY <1>3, <2>2 DEF FilteredByTs
  <2> QED BY <1>3, <2>3, <2>4, <2>5, ReverseTimes
<1> QED BY <1>1, <1>2, <1>3

\* FILTER_BY_VALUE drops the samples it rejects.
LEMMA FilteredByValueTimes ==
  ASSUME q \in Query, NEW s \in Seq(Sent)
  PROVE  Times(FilteredByValue(s)) = IF q.byValue THEN Times(s) \ q.rejected ELSE Times(s)
<1>1. CASE ~q.byValue
  BY <1>1 DEF FilteredByValue
<1>2. CASE q.byValue
  <2>1. DOMAIN s = 1 .. Len(s)
    OBVIOUS
  <2>2. PICK K \in SUBSET (1 .. Len(s)) : K = {i \in 1 .. Len(s) : s[i].ts \notin q.rejected}
    OBVIOUS
  <2>3. FilteredByValue(s) = Sub(s, K)
    BY <1>2, <2>1, <2>2 DEF FilteredByValue
  <2>4. Times(Sub(s, K)) = {s[i].ts : i \in K}
    BY SubTimes
  <2>5. {s[i].ts : i \in K} = {s[i].ts : i \in 1 .. Len(s)} \ q.rejected
    BY <2>2
  <2> QED BY <1>2, <2>3, <2>4, <2>5 DEF Times
<1> QED BY <1>1, <1>2

\* Reading a chunk decodes the samples in range.
LEMMA ProcessChunkTimes ==
  ASSUME q \in Query, NEW b \in Buffer, NEW c \in Seq(Time), Increasing(c)
  PROVE  Times(View(ProcessChunk(b, c))) = {t \in Range(c) : q.start <= t /\ t <= q.end}
<1>1. PICK s : s = [i \in DOMAIN c |-> Sample(c[i])]
  OBVIOUS
<1>2. DOMAIN c = 1 .. Len(c) /\ Len(c) \in Nat /\ \A i \in 1 .. Len(c) : c[i] \in Time
  OBVIOUS
<1>3. \A i \in 1 .. Len(c) : s[i] \in Sent /\ s[i].ts = c[i]
  BY <1>1, <1>2, SampleSent
<1>4. s \in Seq(Sent) /\ Len(s) = Len(c)
  BY <1>1, <1>2, <1>3
<1>5. PICK K \in SUBSET (1 .. Len(s)) : K = {i \in 1 .. Len(c) : q.start <= c[i] /\ c[i] <= q.end}
  BY <1>4
<1>6. Decompressed(c) = Sub(s, K)
  BY <1>1, <1>2, <1>5 DEF Decompressed
<1>7. Times(Sub(s, K)) = {s[i].ts : i \in K}
  BY <1>4, SubTimes
<1>8. {s[i].ts : i \in K} = {t \in Range(c) : q.start <= t /\ t <= q.end}
  BY <1>2, <1>3, <1>5 DEF Range
<1>9. Decompressed(c) \in Seq(Sent)
  BY DecompressedUp
<1>10. Times(View(ProcessChunk(b, c))) = Times(Decompressed(c))
  BY <1>9, ProcessChunkFits, ReverseTimes
<1> QED BY <1>6, <1>7, <1>8, <1>10

\* The open bucket up to the end of the range.
LEMMA OpenBucketTimes ==
  ASSUME q \in Query, WellFormed(q), NEW b \in Buffer
  PROVE  Times(View(OpenBucket(b))) = {t \in q.open : t <= q.end}
<1> DEFINE S == {t \in q.open : t <= q.end}
<1>1. S \in SUBSET (0 .. MaxTime) /\ MaxTime \in Nat
  BY TimeAssumption DEF Query, Time
<1>2. IsFiniteSet(0 .. MaxTime)
  BY <1>1, FS_Interval
<1>3. IsFiniteSet(S)
  BY <1>1, <1>2, FS_Subset
<1>4. PICK f : f = Ascending(S)
  OBVIOUS
<1>5. Lists(FALSE, f, S)
  <2>1. S \in SUBSET Int
    BY <1>1
  <2> HIDE DEF S
  <2> QED BY <1>3, <1>4, <2>1, AscendingLists
<1>6. PICK s : s = View(OpenBucket(b))
  OBVIOUS
<1>7. s = [i \in DOMAIN f |-> Sample(f[i])]
  BY <1>4, <1>6, OpenBucketFits
<1> HIDE DEF S
<1>8. DOMAIN f = 1 .. Len(f) /\ Len(f) \in Nat
  BY <1>5 DEF Lists
<1>9. \A i \in 1 .. Len(f) : f[i] \in S /\ f[i] \in Time
  BY <1>1, <1>5 DEF Lists, Time
<1>10. \A i \in 1 .. Len(f) : s[i] \in Sent /\ s[i].ts = f[i]
  BY <1>7, <1>8, <1>9, SampleSent
<1>11. Len(s) = Len(f)
  BY <1>7, <1>8, <1>10
<1>12. \A x \in S : \E i \in 1 .. Len(f) : f[i] = x
  BY <1>5 DEF Lists
<1>13. {s[i].ts : i \in 1 .. Len(f)} = S
  BY <1>9, <1>10, <1>12
<1> QED BY <1>4, <1>6, <1>11, <1>13 DEF Times, S

----------------------------------------------------------------------------
(***************************************************************************)
(* The chunks of a series.                                                 *)
(***************************************************************************)
\* t is a sample of one of the chunks.
Chained(cs, t) == \E i \in 1 .. Len(cs) : \E k \in 1 .. Len(cs[i]) : cs[i][k] = t

\* The samples that are neither outside the range nor filtered out.
Passes(query, t) ==
  /\ query.start <= t /\ t <= query.end
  /\ query.byTs => t \in query.wanted
  /\ query.byValue => t \notin query.rejected

\* What a query selects.
LEMMA SelectedIs ==
  ASSUME NEW query \in Queries
  PROVE  /\ Selected(query) \in SUBSET Time
         /\ \A t \in Time : t \in Selected(query) <=>
              /\ Chained(query.chunks, t) \/ (query.latest /\ t \in query.open)
              /\ Passes(query, t)
<1>1. query \in Query
  BY QueryOK
<1>2. /\ query.chunks \in Seq(Seq(Time)) /\ query.open \in SUBSET Time
      /\ query.latest \in BOOLEAN
  BY <1>1 DEF Query
<1>3. DOMAIN query.chunks = 1 .. Len(query.chunks)
  BY <1>2
<1>4. ASSUME NEW i \in 1 .. Len(query.chunks)
      PROVE  DOMAIN query.chunks[i] = 1 .. Len(query.chunks[i]) /\ Range(query.chunks[i]) \in SUBSET Time
  <2>1. query.chunks[i] \in Seq(Time)
    BY <1>2, ElementOfSeq
  <2>2. DOMAIN query.chunks[i] = 1 .. Len(query.chunks[i])
    BY <2>1
  <2>3. \A k \in 1 .. Len(query.chunks[i]) : query.chunks[i][k] \in Time
    BY <2>1, ElementOfSeq
  <2> QED BY <2>2, <2>3 DEF Range
<1> DEFINE stored == UNION {Range(query.chunks[i]) : i \in DOMAIN query.chunks}
<1>5. stored \in SUBSET Time
  BY <1>3, <1>4
<1>6. \A t \in Time : t \in stored <=> Chained(query.chunks, t)
  BY <1>3, <1>4 DEF Chained, Range
<1> HIDE DEF stored
<1>7. Selected(query) = {t \in (IF query.latest THEN stored \cup query.open ELSE stored) : Passes(query, t)}
  BY DEF Selected, stored, Passes
<1> HIDE DEF Passes
<1> QED BY <1>2, <1>5, <1>6, <1>7

\* A chunk of a series, and two of them.
GoodChunk(c) ==
  /\ c \in Seq(Time) /\ Increasing(c)
  /\ Len(c) \in Nat /\ Len(c) > 0 /\ DOMAIN c = 1 .. Len(c)
  /\ \A k \in 1 .. Len(c) : c[k] \in Time /\ c[k] \in Int /\ c[1] <= c[k] /\ c[k] <= c[Len(c)]
Earlier(c, d) == \A k \in 1 .. Len(c), l \in 1 .. Len(d) : c[k] < d[l]
GoodChunks(cs) ==
  /\ cs \in Seq(Seq(Time)) /\ Len(cs) \in Nat /\ DOMAIN cs = 1 .. Len(cs)
  /\ \A i \in 1 .. Len(cs) : GoodChunk(cs[i])
  /\ \A i, j \in 1 .. Len(cs) : i < j => Earlier(cs[i], cs[j])

\* A sorted chunk that is not empty is one.
LEMMA ChunkOK ==
  ASSUME NEW c \in Seq(Time), Increasing(c), c # <<>>
  PROVE  GoodChunk(c)
<1>1. PICK m \in Nat : m = Len(c)
  OBVIOUS
<1>2. m > 0 /\ DOMAIN c = 1 .. m /\ 1 \in 1 .. m /\ m \in 1 .. m
  BY <1>1
<1>3. \A k \in 1 .. m : c[k] \in Time
  BY <1>1, ElementOfSeq
<1>4. \A k \in 1 .. m : c[k] \in Int
  BY <1>3 DEF Time
<1>5. ASSUME NEW k \in 1 .. m PROVE c[1] <= c[k] /\ c[k] <= c[m]
  <2>1. (k = 1 \/ 1 < k) /\ (k = m \/ k < m)
    OBVIOUS
  <2>2. 1 < k => c[1] < c[k]
    BY <1>2 DEF Increasing
  <2>3. k < m => c[k] < c[m]
    BY <1>2 DEF Increasing
  <2> QED BY <1>2, <1>4, <2>1, <2>2, <2>3
<1> QED BY <1>1, <1>2, <1>3, <1>4, <1>5 DEF GoodChunk

\* So are the chunks of a series, and they follow each other.
LEMMA ChunksOK ==
  ASSUME NEW query \in Queries
  PROVE  GoodChunks(query.chunks)
<1>1. PICK cs : cs = query.chunks
  OBVIOUS
<1>2. cs \in Seq(Seq(Time)) /\ WellFormed(query)
  BY <1>1, QueryOK DEF Query
<1>3. Len(cs) \in Nat /\ DOMAIN cs = 1 .. Len(cs)
  BY <1>2
<1>4. ASSUME NEW i \in 1 .. Len(cs) PROVE GoodChunk(cs[i])
  <2>1. PICK c \in Seq(Time) : c = cs[i] /\ c # <<>> /\ Increasing(c)
    BY <1>1, <1>2, <1>3, ElementOfSeq DEF WellFormed
  <2> QED BY <2>1, ChunkOK
<1>5. ASSUME NEW i \in 1 .. Len(cs), NEW j \in 1 .. Len(cs), i < j PROVE Earlier(cs[i], cs[j])
  <2>1. cs[i][Len(cs[i])] < cs[j][1]
    BY <1>1, <1>2, <1>3, <1>5 DEF WellFormed
  <2>2. PICK c, d : c = cs[i] /\ d = cs[j]
    OBVIOUS
  <2>3. GoodChunk(c) /\ GoodChunk(d) /\ c[Len(c)] < d[1]
    BY <1>4, <2>1, <2>2
  <2>4. Len(c) \in 1 .. Len(c) /\ 1 \in 1 .. Len(d)
    BY <2>3 DEF GoodChunk
  <2>5. c[Len(c)] \in Int /\ d[1] \in Int
    BY <2>3, <2>4 DEF GoodChunk
  <2>6. ASSUME NEW k \in 1 .. Len(c), NEW l \in 1 .. Len(d) PROVE c[k] < d[l]
    <3>1. c[k] \in Int /\ c[k] <= c[Len(c)] /\ d[l] \in Int /\ d[1] <= d[l]
      BY <2>3 DEF GoodChunk
    <3> QED BY <2>3, <2>5, <3>1
  <2> QED BY <2>2, <2>6 DEF Earlier
<1> QED BY <1>1, <1>2, <1>3, <1>4, <1>5 DEF GoodChunks

\* The last sample of a series.
LEMMA LastIsLast ==
  ASSUME NEW query \in Queries, query.chunks # <<>>, NEW t \in Time, Chained(query.chunks, t)
  PROVE  Last(Last(query.chunks)) \in Time /\ t <= Last(Last(query.chunks))
<1>1. PICK cs : cs = query.chunks /\ GoodChunks(cs)
  BY ChunksOK
<1>2. PICK n \in Nat : n = Len(cs) /\ n > 0
  BY <1>1 DEF GoodChunks
<1>3. n \in 1 .. n
  BY <1>2
<1>4. PICK c : c = cs[n] /\ GoodChunk(c)
  BY <1>1, <1>2, <1>3 DEF GoodChunks
<1>5. PICK m \in Nat : m = Len(c) /\ m \in 1 .. m
  BY <1>4 DEF GoodChunk
<1>6. Last(Last(cs)) = c[m] /\ c[m] \in Time /\ c[m] \in Int
  BY <1>2, <1>4, <1>5 DEF Last, GoodChunk
<1>7. PICK i \in 1 .. n : \E k \in 1 .. Len(cs[i]) : cs[i][k] = t
  BY <1>1, <1>2 DEF Chained
<1>8. PICK k \in 1 .. Len(cs[i]) : cs[i][k] = t
  BY <1>7
<1>9. t <= c[m]
  <2>1. CASE i = n
    BY <1>4, <1>5, <1>8, <2>1 DEF GoodChunk
  <2>2. CASE i # n
    <3>1. i < n
      BY <2>2
    <3>2. Earlier(cs[i], c)
      BY <1>1, <1>2, <1>3, <1>4, <3>1 DEF GoodChunks
    <3>3. t < c[m]
      BY <1>5, <1>8, <3>2 DEF Earlier
    <3> QED BY <1>6, <3>3 DEF Time
  <2> QED BY <2>1, <2>2
<1> QED BY <1>1, <1>6, <1>9

\* A set of the first numbers is counted by its largest.
LEMMA PrefixCount ==
  ASSUME NEW n \in Nat, NEW A \in SUBSET (1 .. n), \A i \in A, j \in 1 .. n : j < i => j \in A
  PROVE  Cardinality(A) \in 0 .. n /\ A = 1 .. Cardinality(A)
<1> DEFINE M == {m \in Nat : m + 1 \notin A}
<1>1. n \in M
  OBVIOUS
<1>2. PICK m \in M : \A k \in M : m <= k
  <2>1. M \in SUBSET Nat /\ M # {}
    BY <1>1
  <2> HIDE DEF M
  <2> QED BY <2>1, SmallestExists
<1>3. m \in Nat /\ m + 1 \notin A /\ m <= n
  BY <1>1, <1>2
<1>4. \A i \in 1 .. m : i \in A
  <2> SUFFICES ASSUME NEW i \in 1 .. m, i \notin A PROVE FALSE
    OBVIOUS
  <2>1. i - 1 \in Nat /\ (i - 1) + 1 = i
    BY <1>3
  <2>2. i - 1 \in M
    BY <2>1
  <2> QED BY <1>2, <1>3, <2>2
<1>5. ASSUME NEW i \in A PROVE i \in 1 .. m
  <2>1. i \in 1 .. n
    OBVIOUS
  <2>2. ~(m + 1 < i)
    <3> SUFFICES ASSUME m + 1 < i PROVE FALSE
      OBVIOUS
    <3>1. m + 1 \in 1 .. n
      BY <1>3, <2>1
    <3> QED BY <1>3, <3>1
  <2> QED BY <1>3, <2>1, <2>2
<1>6. A = 1 .. m
  BY <1>4, <1>5
<1>7. Cardinality(1 .. m) = m
  BY <1>3, FS_Interval
<1> QED BY <1>3, <1>6, <1>7

\* The place a chunk read has in the series.
Place(r, first, i) == IF r THEN (first - i) + 1 ELSE (first + i) - 1

\* SeriesIterator_New: the chunks before the first one cannot hold samples of the range.
LEMMA FirstChunksAre ==
  ASSUME NEW query \in Queries, query.chunks # <<>>
  PROVE  \E first \in 1 .. Len(query.chunks) :
           /\ Len(FirstChunks(query)) = IF query.reverse THEN first ELSE Len(query.chunks) - first + 1
           /\ \A i \in 1 .. Len(FirstChunks(query)) :
                /\ Place(query.reverse, first, i) \in 1 .. Len(query.chunks)
                /\ FirstChunks(query)[i] = query.chunks[Place(query.reverse, first, i)]
           /\ ~query.reverse => first = 1 \/ query.chunks[first][1] <= query.start
           /\ query.reverse =>
                /\ \A i \in 1 .. Len(query.chunks) : i <= first => first = 1 \/ query.chunks[i][1] <= query.end
                /\ \A i \in 1 .. Len(query.chunks) : first < i => ~(query.chunks[i][1] <= query.end)
<1>1. PICK cs : cs = query.chunks /\ GoodChunks(cs)
  BY ChunksOK
<1>2. /\ Len(cs) \in Nat \ {0} /\ cs \in Seq(Seq(Time)) /\ DOMAIN cs = 1 .. Len(cs)
      /\ \A i \in 1 .. Len(cs) : GoodChunk(cs[i])
      /\ \A i, j \in 1 .. Len(cs) : i < j => Earlier(cs[i], cs[j])
  BY <1>1 DEF GoodChunks
<1>3. PICK bound \in Time : bound = IF query.reverse THEN query.end ELSE query.start
  BY QueryOK DEF Query
<1>4. PICK K \in SUBSET (1 .. Len(cs)) : K = {i \in DOMAIN cs : cs[i][1] <= bound}
  BY <1>2
<1>5. \A i \in 1 .. Len(cs) : 1 \in 1 .. Len(cs[i]) /\ cs[i][1] \in Int /\ bound \in Int
  BY <1>2 DEF Time, GoodChunk
<1>6. ASSUME NEW i \in K, NEW j \in 1 .. Len(cs), j < i PROVE j \in K
  <2>1. cs[j][1] < cs[i][1] /\ cs[i][1] <= bound
    BY <1>2, <1>4, <1>5, <1>6 DEF Earlier
  <2>2. cs[j][1] <= bound
    BY <1>5, <2>1
  <2> QED BY <1>2, <1>4, <2>2
<1>7. PICK m \in 0 .. Len(cs) : m = Cardinality(K) /\ K = 1 .. m
  BY <1>2, <1>6, PrefixCount
<1>8. PICK first \in 1 .. Len(cs) : first = IF m = 0 THEN 1 ELSE m
  BY <1>2
<1>9. FirstChunks(query) = IF query.reverse THEN Reverse(SubSeq(cs, 1, first))
                           ELSE SubSeq(cs, first, Len(cs))
  BY <1>1, <1>3, <1>4, <1>7, <1>8 DEF FirstChunks
<1>10. PICK z : z = FirstChunks(query)
  OBVIOUS
<1>11. query.reverse \in BOOLEAN
  BY QueryOK DEF Query
<1>12. /\ Len(z) = IF query.reverse THEN first ELSE Len(cs) - first + 1
       /\ \A i \in 1 .. Len(z) : /\ Place(query.reverse, first, i) \in 1 .. Len(cs)
                                 /\ z[i] = cs[Place(query.reverse, first, i)]
  <2>1. CASE ~query.reverse
    <3>1. first \in Nat \ {0} /\ Len(cs) \in Int /\ Len(cs) <= Len(cs) /\ first <= Len(cs)
      BY <1>2, <1>8
    <3>2. z = SubSeq(cs, first, Len(cs)) /\ cs \in Seq(Seq(Time))
      BY <1>2, <1>9, <1>10, <2>1
    <3>3. /\ z \in Seq(Seq(Time)) /\ Len(z) = Len(cs) - first + 1
          /\ \A i \in 1 .. Len(z) : first + i - 1 \in 1 .. Len(cs) /\ z[i] = cs[first + i - 1]
      BY <3>1, <3>2, Slice
    <3> QED BY <2>1, <3>3 DEF Place
  <2>2. CASE query.reverse
    <3>1. PICK y : y = SubSeq(cs, 1, first)
      OBVIOUS
    <3>2. /\ y \in Seq(Seq(Time)) /\ Len(y) = first
          /\ \A i \in 1 .. Len(y) : 1 + i - 1 \in 1 .. Len(cs) /\ y[i] = cs[1 + i - 1]
      BY <3>1, <1>2, <1>8, Slice
    <3>3. z = [i \in 1 .. first |-> y[(first - i) + 1]]
      BY <1>9, <1>10, <2>2, <3>1, <3>2 DEF Reverse
    <3>4. \A i \in 1 .. first : (first - i) + 1 \in 1 .. first /\ 1 + ((first - i) + 1) - 1 = (first - i) + 1
      BY <1>8
    <3>5. \A i \in 1 .. first : z[i] = cs[(first - i) + 1]
      BY <3>2, <3>3, <3>4
    <3>6. \A i \in 1 .. first : (first - i) + 1 \in 1 .. Len(cs)
      BY <1>2, <1>8
    <3>7. Len(z) = first
      <4>1. first \in Nat
        BY <1>2, <1>8
      <4>2. \A i \in 1 .. first : z[i] \in Seq(Time)
        BY <1>2, <3>5, <3>6, ElementOfSeq
      <4> QED BY <3>3, <4>1, <4>2
    <3> QED BY <2>2, <3>5, <3>6, <3>7 DEF Place
  <2> QED BY <1>11, <2>1, <2>2
<1>13. ~query.reverse => first = 1 \/ cs[first][1] <= query.start
  <2>1. m = 0 \/ first \in K
    BY <1>7, <1>8
  <2> QED BY <1>3, <1>4, <1>8, <2>1
<1>14. ASSUME query.reverse, NEW i \in 1 .. Len(cs)
       PROVE  /\ i <= first => first = 1 \/ cs[i][1] <= query.end
              /\ first < i => ~(cs[i][1] <= query.end)
  <2>1. i <= first => first = 1 \/ i \in K
    BY <1>7, <1>8
  <2>2. first < i => i \notin K
    BY <1>7, <1>8
  <2> QED BY <1>2, <1>3, <1>4, <1>14, <2>1, <2>2
<1> QED BY <1>1, <1>10, <1>12, <1>13, <1>14

----------------------------------------------------------------------------
(***************************************************************************)
(* The chunks still to be read.                                            *)
(***************************************************************************)
Follows(r, c, d) == IF r THEN Earlier(d, c) ELSE Earlier(c, d)

\* They are chunks of the series, in the order of reading; a chunk behind the
\* end of the range is read only when there is no other.
Chain(query, cs) ==
  /\ cs \in Seq(Seq(Time))
  /\ \A i \in 1 .. Len(cs) : GoodChunk(cs[i])
  /\ \A i \in 1 .. Len(cs) : \A k \in 1 .. Len(cs[i]) : Chained(query.chunks, cs[i][k])
  /\ \A i, j \in 1 .. Len(cs) : i < j => Follows(query.reverse, cs[i], cs[j])
  /\ query.reverse => \A i \in 1 .. Len(cs) : cs[i][1] <= query.end \/ i = Len(cs)

\* What the first chunk is to the others.
LEMMA ChainHead ==
  ASSUME NEW query \in Queries, NEW cs, Chain(query, cs), cs # <<>>, NEW c, c = Head(cs), NEW d, d = Tail(cs)
  PROVE  /\ GoodChunk(c) /\ Chain(query, d)
         /\ \A t \in Time : Chained(cs, t) <=> t \in Range(c) \/ Chained(d, t)
         /\ \A t \in Range(c) : t \in Time /\ Chained(query.chunks, t)
         /\ \A t \in Range(c), u \in Time : Chained(d, u) => Before(query.reverse, t, u)
         /\ query.reverse => c[1] <= query.end \/ d = <<>>
<1>1. PICK n \in Nat : n = Len(cs) /\ n > 0
  BY DEF Chain
<1>2. /\ d \in Seq(Seq(Time)) /\ Len(d) = n - 1 /\ c = cs[1]
      /\ \A i \in 1 .. Len(d) : d[i] = cs[i + 1]
  BY <1>1, HeadTailProperties DEF Chain
<1>3. 1 \in 1 .. n /\ \A i \in 1 .. n - 1 : i + 1 \in 1 .. n
  BY <1>1
<1>4. GoodChunk(c)
  BY <1>1, <1>2, <1>3 DEF Chain
<1>5. Range(c) = {c[k] : k \in 1 .. Len(c)} /\ \A k \in 1 .. Len(c) : c[k] \in Time
  BY <1>4 DEF GoodChunk, Range
<1>6. Chain(query, d)
  <2>1. \A i \in 1 .. Len(d) : GoodChunk(d[i])
    BY <1>1, <1>2, <1>3 DEF Chain
  <2>2. \A i \in 1 .. Len(d) : \A k \in 1 .. Len(d[i]) : Chained(query.chunks, d[i][k])
    BY <1>1, <1>2, <1>3 DEF Chain
  <2>3. ASSUME NEW i \in 1 .. Len(d), NEW j \in 1 .. Len(d), i < j PROVE Follows(query.reverse, d[i], d[j])
    <3>1. i + 1 \in 1 .. n /\ j + 1 \in 1 .. n /\ i + 1 < j + 1
      BY <1>1, <1>2, <2>3
    <3> QED BY <1>1, <1>2, <3>1 DEF Chain
  <2>4. ASSUME query.reverse, NEW i \in 1 .. Len(d) PROVE d[i][1] <= query.end \/ i = Len(d)
    <3>1. i + 1 \in 1 .. n /\ (i + 1 = n => i = Len(d))
      BY <1>1, <1>2
    <3> QED BY <1>1, <1>2, <2>4, <3>1 DEF Chain
  <2> QED BY <1>2, <2>1, <2>2, <2>3, <2>4 DEF Chain
<1>7. ASSUME NEW t \in Time PROVE Chained(cs, t) <=> t \in Range(c) \/ Chained(d, t)
  <2>1. ASSUME Chained(cs, t) PROVE t \in Range(c) \/ Chained(d, t)
    <3>1. PICK i \in 1 .. n : \E k \in 1 .. Len(cs[i]) : cs[i][k] = t
      BY <1>1, <2>1 DEF Chained
    <3>2. CASE i = 1
      BY <1>2, <1>5, <3>1, <3>2
    <3>3. CASE i # 1
      <4>1. i - 1 \in 1 .. Len(d) /\ (i - 1) + 1 = i
        BY <1>1, <1>2, <3>3
      <4>2. d[i - 1] = cs[i]
        BY <1>2, <4>1
      <4> QED BY <3>1, <4>1, <4>2 DEF Chained
    <3> QED BY <3>2, <3>3
  <2>2. ASSUME t \in Range(c) PROVE Chained(cs, t)
    BY <1>1, <1>2, <1>3, <1>5, <2>2 DEF Chained
  <2>3. ASSUME Chained(d, t) PROVE Chained(cs, t)
    <3>1. PICK i \in 1 .. Len(d) : \E k \in 1 .. Len(d[i]) : d[i][k] = t
      BY <2>3 DEF Chained
    <3>2. i + 1 \in 1 .. n /\ d[i] = cs[i + 1]
      BY <1>1, <1>2, <1>3
    <3> QED BY <1>1, <3>1, <3>2 DEF Chained
  <2> QED BY <2>1, <2>2, <2>3
<1>8. \A t \in Range(c) : t \in Time /\ Chained(query.chunks, t)
  BY <1>1, <1>2, <1>3, <1>5 DEF Chain
<1>9. ASSUME NEW t \in Range(c), NEW u \in Time, Chained(d, u) PROVE Before(query.reverse, t, u)
  <2>1. PICK i \in 1 .. Len(d) : \E k \in 1 .. Len(d[i]) : d[i][k] = u
    BY <1>9 DEF Chained
  <2>2. i + 1 \in 1 .. n /\ 1 < i + 1 /\ d[i] = cs[i + 1]
    BY <1>1, <1>2, <1>3
  <2>3. Follows(query.reverse, c, d[i])
    BY <1>1, <1>2, <1>3, <2>2 DEF Chain
  <2>4. PICK k \in 1 .. Len(c) : c[k] = t
    BY <1>5
  <2>5. PICK l \in 1 .. Len(d[i]) : d[i][l] = u
    BY <2>1
  <2> QED BY <2>3, <2>4, <2>5 DEF Follows, Earlier, Before
<1>10. query.reverse => c[1] <= query.end \/ d = <<>>
  <2>1. query.reverse => c[1] <= query.end \/ Len(d) = 0
    BY <1>1, <1>2, <1>3 DEF Chain
  <2>2. Len(d) = 0 => d = <<>>
    BY <1>2, EmptySeq
  <2> QED BY <2>1, <2>2
<1> QED BY <1>4, <1>6, <1>7, <1>8, <1>9, <1>10

\* The chunks SeriesIterator_New begins with hold all that a query selects.
LEMMA FirstChunksHold ==
  ASSUME NEW query \in Queries
  PROVE  /\ Chain(query, FirstChunks(query))
         /\ \A t \in Selected(query) : Chained(query.chunks, t) => Chained(FirstChunks(query), t)
<1>1. PICK cs, z : cs = query.chunks /\ z = FirstChunks(query)
  OBVIOUS
<1>2. GoodChunks(cs) /\ z \in Seq(Seq(Time)) /\ query.reverse \in BOOLEAN
  BY <1>1, ChunksOK, FirstChunksOK, QueryOK DEF Query
<1>3. CASE cs = <<>>
  <2>1. z = <<>>
    BY <1>1, <1>3 DEF FirstChunks
  <2>2. Len(z) = 0 /\ Len(cs) = 0
    BY <1>3, <2>1
  <2>3. Chain(query, z)
    BY <1>2, <2>2 DEF Chain
  <2>4. \A t \in Selected(query) : ~Chained(cs, t)
    BY <2>2 DEF Chained
  <2> QED BY <1>1, <2>3, <2>4
<1>4. CASE cs # <<>>
  <2>0. cs \in Seq(Seq(Time)) /\ Len(cs) \in Nat /\ Len(cs) # 0
    BY <1>2, <1>4, EmptySeq DEF GoodChunks
  <2>1. PICK n \in Nat : n = Len(cs) /\ n > 0
    BY <2>0
  <2>2. PICK first \in 1 .. n :
          /\ Len(z) = IF query.reverse THEN first ELSE n - first + 1
          /\ \A i \in 1 .. Len(z) : /\ Place(query.reverse, first, i) \in 1 .. n
                                    /\ z[i] = cs[Place(query.reverse, first, i)]
          /\ ~query.reverse => first = 1 \/ cs[first][1] <= query.start
          /\ query.reverse =>
               /\ \A i \in 1 .. n : i <= first => first = 1 \/ cs[i][1] <= query.end
               /\ \A i \in 1 .. n : first < i => ~(cs[i][1] <= query.end)
    BY <1>1, <1>4, <2>1, FirstChunksAre
  <2>3. Len(z) \in Nat /\ \A i \in 1 .. n : GoodChunk(cs[i])
    BY <1>2, <2>1 DEF GoodChunks
  <2>4. Chain(query, z)
    <3>1. \A i \in 1 .. Len(z) : GoodChunk(z[i])
      BY <2>2, <2>3
    <3>2. \A i \in 1 .. Len(z) : \A k \in 1 .. Len(z[i]) : Chained(cs, z[i][k])
      BY <2>1, <2>2 DEF Chained
    <3>3. ASSUME NEW i \in 1 .. Len(z), NEW j \in 1 .. Len(z), i < j PROVE Follows(query.reverse, z[i], z[j])
      <4>1. PICK k \in 1 .. n, l \in 1 .. n : /\ k = Place(query.reverse, first, i) /\ z[i] = cs[k]
                                              /\ l = Place(query.reverse, first, j) /\ z[j] = cs[l]
        BY <2>2
      <4>2. CASE query.reverse
        <5>1. l < k
          BY <2>3, <3>3, <4>1, <4>2 DEF Place
        <5> QED BY <1>2, <2>1, <4>1, <4>2, <5>1 DEF GoodChunks, Follows
      <4>3. CASE ~query.reverse
        <5>1. k < l
          BY <2>3, <3>3, <4>1, <4>3 DEF Place
        <5> QED BY <1>2, <2>1, <4>1, <4>3, <5>1 DEF GoodChunks, Follows
      <4> QED BY <4>2, <4>3
    <3>4. ASSUME query.reverse, NEW i \in 1 .. Len(z) PROVE z[i][1] <= query.end \/ i = Len(z)
      <4>1. PICK k \in 1 .. n : k = Place(query.reverse, first, i) /\ z[i] = cs[k]
        BY <2>2
      <4>2. k <= first /\ Len(z) = first /\ (first = 1 => i = 1)
        BY <2>2, <3>4, <4>1 DEF Place
      <4> QED BY <2>2, <3>4, <4>1, <4>2
    <3> QED BY <1>1, <1>2, <3>1, <3>2, <3>3, <3>4 DEF Chain
  <2>5. ASSUME NEW t \in Selected(query), Chained(cs, t) PROVE Chained(z, t)
    <3>1. PICK i \in 1 .. n : \E k \in 1 .. Len(cs[i]) : cs[i][k] = t
      BY <2>1, <2>5 DEF Chained
    <3>2. PICK k \in 1 .. Len(cs[i]) : cs[i][k] = t
      BY <3>1
    <3>3. t \in Time /\ t \in Int /\ query.start <= t /\ t <= query.end
      BY SelectedIs DEF Passes, Time
    <3>4. query.start \in Int /\ query.end \in Int
      BY QueryOK DEF Query, Time
    <3>5. GoodChunk(cs[i]) /\ cs[i][1] \in Int /\ cs[i][1] <= t
      <4>1. GoodChunk(cs[i])
        BY <2>3
      <4>2. 1 \in 1 .. Len(cs[i])
        BY <4>1 DEF GoodChunk
      <4> QED BY <3>2, <4>1, <4>2 DEF GoodChunk
    <3>6. CASE query.reverse
      <4>1. ~(first < i)
        BY <2>2, <3>3, <3>4, <3>5, <3>6
      <4>2. PICK j \in 1 .. Len(z) : j = (first - i) + 1
        BY <2>2, <3>6, <4>1
      <4>3. Place(query.reverse, first, j) = i
        BY <3>6, <4>2 DEF Place
      <4> QED BY <2>2, <3>1, <4>3 DEF Chained
    <3>7. CASE ~query.reverse
      <4>1. ~(i < first)
        <5> SUFFICES ASSUME i < first PROVE FALSE
          OBVIOUS
        <5>1. Earlier(cs[i], cs[first]) /\ GoodChunk(cs[first])
          BY <1>2, <2>1, <2>3 DEF GoodChunks
        <5>2. 1 \in 1 .. Len(cs[first])
          BY <5>1 DEF GoodChunk
        <5>3. t < cs[first][1] /\ cs[first][1] \in Int
          BY <3>2, <5>1, <5>2 DEF Earlier, GoodChunk
        <5>4. cs[first][1] <= query.start
          BY <2>2, <3>7
        <5> QED BY <3>3, <3>4, <5>3, <5>4
      <4>2. PICK j \in 1 .. Len(z) : j = (i - first) + 1
        <5>1. (i - first) + 1 \in 1 .. n - first + 1
          BY <2>1, <4>1
        <5> QED BY <2>2, <3>7, <5>1
      <4>3. Place(query.reverse, first, j) = i
        BY <3>7, <4>2 DEF Place
      <4> QED BY <2>2, <3>1, <4>3 DEF Chained
    <3> QED BY <3>6, <3>7
  <2> QED BY <1>1, <2>4, <2>5
<1> QED BY <1>3, <1>4

----------------------------------------------------------------------------
(***************************************************************************)
(* The filters, once more: what they leave, and what they still look for.  *)
(***************************************************************************)
\* n distinct values in front of the k-th have places in front of it.
LEMMA PlacesBelow ==
  ASSUME NEW n \in Nat, NEW k \in Nat, NEW f \in [1 .. n -> 1 .. k],
         \A i, j \in 1 .. n : i < j => f[i] < f[j]
  PROVE  n <= k
<1>1. CASE n = 0
  BY <1>1
<1>2. CASE n # 0
  <2>1. n \in Nat \ {0} /\ n \in 1 .. n /\ 1 \in 1 .. n
    BY <1>2
  <2>2. f \in [1 .. n -> Int] /\ f[n] \in 1 .. k /\ f[1] \in 1 .. k
    BY <2>1
  <2>3. f[1] + n - 1 <= f[n]
    BY <2>1, <2>2, Growth
  <2> QED BY <2>1, <2>2, <2>3
<1> QED BY <1>1, <1>2

\* After n matches FILTER_BY_TS still looks for all that comes behind them.
LEMMA StillWantedKeeps ==
  ASSUME q \in Query, wanted \in Seq(Time), Increasing(wanted),
         NEW s \in Seq(Sent), Ordered(s), Times(s) \subseteq Range(wanted),
         NEW w, w = StillWanted(Len(s))
  PROVE  /\ w \in Seq(Time) /\ Increasing(w) /\ Range(w) \subseteq Range(wanted)
         /\ \A u \in Range(wanted) : (\A t \in Times(s) : Before(q.reverse, t, u)) => u \in Range(w)
<1>1. PICK n \in Nat, m \in Nat : n = Len(s) /\ m = Len(wanted)
  OBVIOUS
<1>2. DOMAIN wanted = 1 .. m /\ \A i \in 1 .. m : wanted[i] \in Time /\ wanted[i] \in Int
  <2>1. DOMAIN wanted = 1 .. m /\ \A i \in 1 .. m : wanted[i] \in Time
    BY <1>1, ElementOfSeq
  <2> QED BY <2>1 DEF Time
<1>3. Range(wanted) = {wanted[i] : i \in 1 .. m}
  BY <1>2 DEF Range
<1>4. PICK g : g = [i \in 1 .. n |-> CHOOSE k \in 1 .. m : wanted[k] = s[i].ts]
  OBVIOUS
<1>5. ASSUME NEW i \in 1 .. n PROVE g[i] \in 1 .. m /\ wanted[g[i]] = s[i].ts /\ s[i].ts \in Times(s)
  <2>1. s[i].ts \in Times(s)
    BY <1>1 DEF Times
  <2>2. \E k \in 1 .. m : wanted[k] = s[i].ts
    BY <1>3, <2>1
  <2>3. g[i] = CHOOSE k \in 1 .. m : wanted[k] = s[i].ts
    BY <1>4
  <2> QED BY <2>1, <2>2, <2>3
<1>6. \A i, k \in 1 .. m : wanted[i] < wanted[k] => i < k
  <2> SUFFICES ASSUME NEW i \in 1 .. m, NEW k \in 1 .. m, wanted[i] < wanted[k], ~(i < k) PROVE FALSE
    OBVIOUS
  <2>1. wanted[i] \in Int /\ wanted[k] \in Int
    BY <1>2
  <2>2. k = i \/ k < i
    OBVIOUS
  <2>3. k < i => wanted[k] < wanted[i]
    BY <1>2 DEF Increasing
  <2> QED BY <2>1, <2>2, <2>3
<1>7. q.reverse \in BOOLEAN
  BY DEF Query
<1>8. CASE ~q.reverse
  <2>1. w = SubSeq(wanted, n + 1, m)
    BY <1>1, <1>8 DEF StillWanted
  <2>2. /\ w \in Seq(Time) /\ Len(w) = IF n + 1 <= m THEN m - (n + 1) + 1 ELSE 0
        /\ \A i \in 1 .. Len(w) : (n + 1) + i - 1 \in 1 .. m /\ w[i] = wanted[(n + 1) + i - 1]
    <3>1. n + 1 \in Nat \ {0} /\ m \in Int /\ m <= Len(wanted)
      BY <1>1
    <3> QED BY <1>1, <2>1, <3>1, Slice
  <2>3. DOMAIN w = 1 .. Len(w) /\ Len(w) \in Nat
    BY <2>2
  <2>4. Increasing(w)
    <3>1. ASSUME NEW i \in 1 .. Len(w), NEW k \in 1 .. Len(w), i < k PROVE w[i] < w[k]
      <4>1. (n + 1) + i - 1 < (n + 1) + k - 1
        BY <2>3, <3>1
      <4> QED BY <1>2, <2>2, <4>1 DEF Increasing
    <3> QED BY <2>3, <3>1 DEF Increasing
  <2>5. Range(w) \subseteq Range(wanted)
    BY <1>3, <2>2, <2>3 DEF Range
  <2>6. ASSUME NEW u \in Range(wanted), \A t \in Times(s) : Before(q.reverse, t, u) PROVE u \in Range(w)
    <3>1. PICK k \in 1 .. m : wanted[k] = u
      BY <1>3
    <3>2. ASSUME NEW i \in 1 .. n PROVE g[i] \in 1 .. k - 1
      <4>1. wanted[g[i]] < wanted[k]
        BY <1>5, <1>8, <2>6, <3>1 DEF Before
      <4>2. g[i] < k /\ g[i] \in 1 .. m
        BY <1>5, <1>6, <4>1
      <4> QED BY <4>2
    <3>3. ASSUME NEW i \in 1 .. n, NEW j \in 1 .. n, i < j PROVE g[i] < g[j]
      <4>1. s[i].ts < s[j].ts
        BY <1>1, <1>8, <3>3 DEF Ordered, Up
      <4> QED BY <1>5, <1>6, <4>1
    <3>4. PICK h : h = [i \in 1 .. n |-> g[i]]
      OBVIOUS
    <3>5. n <= k - 1
      <4>1. k - 1 \in Nat /\ h \in [1 .. n -> 1 .. k - 1]
        BY <3>2, <3>4
      <4>2. \A i, j \in 1 .. n : i < j => h[i] < h[j]
        BY <3>3, <3>4
      <4> QED BY <4>1, <4>2, PlacesBelow
    <3>6. PICK i \in 1 .. Len(w) : i = k - n
      BY <2>2, <3>5
    <3>7. (n + 1) + i - 1 = k
      BY <3>6
    <3> QED BY <2>2, <2>3, <3>1, <3>6, <3>7 DEF Range
  <2> QED BY <2>2, <2>4, <2>5, <2>6
<1>9. CASE q.reverse
  <2>1. w = SubSeq(wanted, 1, m - n)
    BY <1>1, <1>9 DEF StillWanted
  <2>2. /\ w \in Seq(Time) /\ Len(w) = IF 1 <= m - n THEN (m - n) - 1 + 1 ELSE 0
        /\ \A i \in 1 .. Len(w) : 1 + i - 1 \in 1 .. m /\ w[i] = wanted[1 + i - 1]
    <3>1. 1 \in Nat \ {0} /\ m - n \in Int /\ m - n <= Len(wanted)
      BY <1>1
    <3> QED BY <1>1, <2>1, <3>1, Slice
  <2>3. DOMAIN w = 1 .. Len(w) /\ Len(w) \in Nat
    BY <2>2
  <2>4. \A i \in 1 .. Len(w) : i \in 1 .. m /\ w[i] = wanted[i]
    BY <2>2
  <2>5. Increasing(w)
    BY <1>2, <2>3, <2>4 DEF Increasing
  <2>6. Range(w) \subseteq Range(wanted)
    BY <1>3, <2>3, <2>4 DEF Range
  <2>7. ASSUME NEW u \in Range(wanted), \A t \in Times(s) : Before(q.reverse, t, u) PROVE u \in Range(w)
    <3>1. PICK k \in 1 .. m : wanted[k] = u
      BY <1>3
    <3>2. PICK h : h = [i \in 1 .. n |-> (m - g[i]) + 1]
      OBVIOUS
    <3>3. ASSUME NEW i \in 1 .. n PROVE h[i] \in 1 .. m - k /\ h[i] = (m - g[i]) + 1 /\ g[i] \in Int
      <4>1. wanted[k] < wanted[g[i]]
        BY <1>5, <1>9, <2>7, <3>1 DEF Before
      <4>2. k < g[i] /\ g[i] \in 1 .. m
        BY <1>5, <1>6, <4>1
      <4> QED BY <3>2, <4>2
    <3>4. ASSUME NEW i \in 1 .. n, NEW j \in 1 .. n, i < j PROVE h[i] < h[j]
      <4>1. s[j].ts < s[i].ts
        BY <1>1, <1>9, <3>4 DEF Ordered, Down
      <4>2. g[j] < g[i]
        BY <1>5, <1>6, <4>1
      <4> QED BY <3>3, <4>2
    <3>5. m - k \in Nat /\ h \in [1 .. n -> 1 .. m - k]
      BY <3>2, <3>3
    <3>6. n <= m - k
      BY <3>4, <3>5, PlacesBelow
    <3>7. k \in 1 .. Len(w)
      BY <2>2, <3>6
    <3> QED BY <2>3, <2>4, <3>1, <3>7 DEF Range
  <2> QED BY <2>2, <2>5, <2>6, <2>7
<1> QED BY <1>7, <1>8, <1>9

\* What arrives of a buffer that passes through the filters.
Thinned(b) ==
  {t \in Times(View(b)) : /\ q.byTs => t \in Range(wanted)
                          /\ q.byValue => t \notin q.rejected}

\* Both filters together, and what FILTER_BY_TS goes on looking for.
LEMMA PassTimes ==
  ASSUME q \in Query, wanted \in Seq(Time), q.byTs => Increasing(wanted), NEW b \in Buffer, Fits(b),
         View(b) \in Seq(Sent),
         IF q.reverse /\ ~q.byTs THEN Down(View(b)) ELSE Up(View(b)),
         Pass(b)
  PROVE  /\ Times(View(buf')) = Thinned(b)
         /\ pc' = "fetch" => Thinned(b) = {}
         /\ pc' = "chunk" /\ buf'.num = 0 => /\ ~q.byTs /\ ~q.byValue
                                             /\ Times(View(b)) = {}
         /\ q.byTs => /\ Increasing(wanted') /\ Range(wanted') \subseteq Range(wanted)
                      /\ \A u \in Range(wanted) :
                           (\A t \in Times(View(b)) : Before(q.reverse, t, u)) => u \in Range(wanted')
         /\ ~q.byTs => wanted' = wanted
<1>1. PICK s \in Seq(Sent) : s = View(b)
  OBVIOUS
<1>2. PICK byTs, byValue : /\ byTs = FilteredByTs(s) /\ byValue = FilteredByValue(byTs)
                           /\ buf' = WithView(b, byValue)
                           /\ wanted' = IF q.byTs THEN StillWanted(Len(byTs)) ELSE wanted
                           /\ \/ pc' = IF (q.byTs \/ q.byValue) /\ byValue = <<>> THEN "fetch" ELSE "chunk"
                              \/ pc' = "undefined"
  BY <1>1 DEF Pass
<1>3. /\ byTs \in Seq(Sent) /\ byValue \in Seq(Sent)
      /\ Len(byValue) \in 0 .. Len(s) /\ Ordered(byValue)
  BY <1>1, <1>2, FiltersKeep
<1>4. Len(s) = b.num
  BY <1>1, ViewIs
<1>5. b.off \in Nat /\ b.num \in Nat /\ b.size \in Nat /\ b.off + Len(byValue) <= b.size
  BY <1>3, <1>4, CapIs DEF Fits, Buffer
<1>6. View(WithView(b, byValue)) = byValue /\ WithView(b, byValue).num = Len(byValue)
  BY <1>3, <1>5, WithViewIs
<1>7. q.byTs \in BOOLEAN /\ q.byValue \in BOOLEAN /\ q.reverse \in BOOLEAN
  BY DEF Query
<1>8. Times(byTs) = IF q.byTs THEN Times(s) \cap Range(wanted) ELSE Times(s)
  <2>1. q.byTs => Up(s)
    BY <1>1
  <2> QED BY <1>2, <2>1, FilteredByTsTimes
<1>9. Times(byValue) = IF q.byValue THEN Times(byTs) \ q.rejected ELSE Times(byTs)
  BY <1>2, <1>3, FilteredByValueTimes
<1>10. Times(byValue) = Thinned(b)
  BY <1>1, <1>7, <1>8, <1>9 DEF Thinned
<1>11. byValue = <<>> => Times(byValue) = {}
  BY DEF Times
<1>12. pc' = "fetch" => Thinned(b) = {}
  BY <1>2, <1>10, <1>11
<1>13. ASSUME pc' = "chunk", buf'.num = 0 PROVE ~q.byTs /\ ~q.byValue /\ Times(View(b)) = {}
  <2>1. byValue = <<>>
    BY <1>2, <1>3, <1>6, <1>13, EmptySeq
  <2>2. ~q.byTs /\ ~q.byValue
    BY <1>2, <1>7, <1>13, <2>1
  <2> QED BY <1>1, <1>8, <1>9, <1>11, <2>1, <2>2
<1>14. ASSUME q.byTs
       PROVE  /\ Increasing(wanted') /\ Range(wanted') \subseteq Range(wanted)
              /\ \A u \in Range(wanted) :
                   (\A t \in Times(View(b)) : Before(q.reverse, t, u)) => u \in Range(wanted')
  <2>1. Ordered(byTs)
    <3>1. FilterSamples(s, Range(wanted)) \in Seq(Sent) /\ Up(FilterSamples(s, Range(wanted)))
      BY <1>1, <1>14, FilterSamplesKeeps, SubOrder
    <3> QED BY <1>2, <1>7, <1>14, <3>1, ReverseOrder DEF FilteredByTs, Ordered
  <2>2. Times(byTs) \subseteq Range(wanted) /\ Times(byTs) \subseteq Times(s)
    BY <1>8, <1>14
  <2>3. wanted' = StillWanted(Len(byTs))
    BY <1>2, <1>14
  <2>4. /\ Increasing(wanted') /\ Range(wanted') \subseteq Range(wanted)
        /\ \A u \in Range(wanted) : (\A t \in Times(byTs) : Before(q.reverse, t, u)) => u \in Range(wanted')
    BY <1>3, <1>14, <2>1, <2>2, <2>3, StillWantedKeeps
  <2> QED BY <1>1, <2>2, <2>4
<1> QED BY <1>2, <1>6, <1>10, <1>12, <1>13, <1>14

\* The open bucket of a compaction comes behind its samples, and is in the range
\* when SeriesIterator takes it.
LEMMA OpenAhead ==
  ASSUME NEW query \in Queries, ~LatestDeviates(query), query.latest, NEW t \in query.open
  PROVE  /\ \A u \in Time : Chained(query.chunks, u) => u < t
         /\ query.end > query.last => query.start <= t
         /\ ~(query.end > query.last) => ~(t <= query.end)
<1> DEFINE last == Newest(query)
<1>1. /\ t \in Int /\ t >= 0 /\ query.end \in Int /\ query.end >= 0 /\ query.start \in Int
      /\ query.chunks \in Seq(Seq(Time)) /\ query.last \in Int /\ query.last <= last
  BY QueryOK, TimeAssumption DEF Query, Time, WellFormed
<1>2. /\ ~(t <= last /\ (query.chunks # <<>> \/ query.end = 0))
      /\ ~(query.end > query.last /\ t < query.start)
  BY DEF LatestDeviates
<1>3. query.chunks # <<>> => last \in Int
  <2> SUFFICES ASSUME query.chunks # <<>> PROVE last \in Int
    OBVIOUS
  <2>1. GoodChunks(query.chunks)
    BY ChunksOK
  <2>2. PICK cs : cs = query.chunks
    OBVIOUS
  <2>3. Len(cs) \in 1 .. Len(cs)
    BY <2>1, <2>2, EmptySeq DEF GoodChunks
  <2>4. PICK c : c = cs[Len(cs)] /\ GoodChunk(c)
    BY <2>1, <2>2, <2>3 DEF GoodChunks
  <2>5. Len(c) \in 1 .. Len(c)
    BY <2>4 DEF GoodChunk
  <2>6. c[Len(c)] \in Int
    BY <2>4, <2>5 DEF GoodChunk
  <2> QED BY <2>2, <2>4, <2>6 DEF Last, Newest
<1>4. last \in Int
  BY <1>3 DEF Newest
<1>5. ASSUME NEW u \in Time, Chained(query.chunks, u) PROVE u < t
  <2>1. query.chunks # <<>>
    <3>1. query.chunks = <<>> => Len(query.chunks) = 0
      OBVIOUS
    <3> QED BY <1>5, <3>1 DEF Chained
  <2>2. u <= last /\ u \in Int
    BY <1>5, <2>1, LastIsLast DEF Time, Newest
  <2>3. last < t
    BY <1>1, <1>2, <1>4, <2>1
  <2> HIDE DEF last
  <2> QED BY <1>1, <1>4, <2>2, <2>3
<1>6. query.end > query.last => query.start <= t
  BY <1>1, <1>2
<1>7. ~(query.end > query.last) => ~(t <= query.end)
  <2>1. CASE query.chunks # <<>>
    <3> HIDE DEF last
    <3> QED BY <1>1, <1>2, <1>4, <2>1
  <2>2. CASE query.chunks = <<>>
    <3>1. last = 0
      BY <2>2 DEF Newest
    <3> HIDE DEF last
    <3> QED BY <1>1, <1>2, <3>1
  <2> QED BY <2>1, <2>2
<1> QED BY <1>5, <1>6, <1>7

----------------------------------------------------------------------------
(***************************************************************************)
(* The input: the selected samples are divided into those still to be      *)
(* read, those in the buffer and those the reply or the current bucket     *)
(* already has, each before the others in the order of the reply.          *)
(***************************************************************************)
Sel == Selected(q)
Rest == {t \in Sel : Chained(chunks, t) \/ (latest /\ t \in q.open)}
Held == IF pc = "chunk" THEN Times(View(buf)) ELSE IF pc = "loop" THEN Times(unread) ELSE {}
Done == Sel \ (Rest \cup Held)

\* FILTER_BY_TS still looks for all that is to come.
WantedInv ==
  q.byTs => /\ Increasing(wanted) /\ Range(wanted) \subseteq q.wanted
            /\ Rest \subseteq Range(wanted)

\* The order of the three parts; the input ends only when nothing is left of it.
InputInv ==
  /\ Chain(q, chunks) /\ (latest => q.latest) /\ WantedInv
  /\ Held \subseteq Sel \ Rest
  /\ AllBefore(q.reverse, Sel \ Rest, Rest)
  /\ AllBefore(q.reverse, Done, Held)
  /\ pc = "chunk" /\ q.agg # "none" /\ buf.num = 0 => Rest = {}
  /\ pc = "end" => Rest = {}

\* A step of the series iterator moves samples from the rest to the buffer.
InputStep == InputInv' /\ Done' = Done /\ Held' = Rest \ Rest'

\* Samples that move from the rest R to the buffer leave R2.
LEMMA Moved ==
  ASSUME NEW r \in BOOLEAN, NEW S, NEW R \in SUBSET S, NEW R2 \in SUBSET R,
         AllBefore(r, S \ R, R), AllBefore(r, R \ R2, R2)
  PROVE  /\ R \ R2 \subseteq S \ R2
         /\ AllBefore(r, S \ R2, R2)
         /\ S \ (R2 \cup (R \ R2)) = S \ R
         /\ AllBefore(r, S \ R, R \ R2)
BY DEF AllBefore

\* A buffer with some of the rest passes through the filters.
LEMMA Received ==
  ASSUME IndInv, InputInv, pc = "fetch", q' = q,
         NEW b \in Buffer, Fits(b), View(b) \in Seq(Sent),
         IF q.reverse /\ ~q.byTs THEN Down(View(b)) ELSE Up(View(b)),
         Pass(b), pc' # "undefined",
         Chain(q, chunks'), latest' => q.latest,
         NEW V, V = Times(View(b)), \A t \in V : t \in Time,
         Rest' \subseteq Rest,
         \A t \in Rest : t \in Rest' \/ t \in V,
         AllBefore(q.reverse, V, Rest'),
         \A t \in V : q.start <= t /\ t <= q.end,
         \A t \in V : Passes(q, t) => t \in Rest,
         V = {} /\ ~q.byTs /\ ~q.byValue /\ q.agg # "none" => Rest' = {}
  PROVE  InputStep
<1>1. q \in Queries /\ q \in Query /\ wanted \in Seq(Time)
  BY QueryOK DEF IndInv, TypeInv
<1>2. q.byTs \in BOOLEAN /\ q.byValue \in BOOLEAN /\ q.reverse \in BOOLEAN
  BY <1>1 DEF Query
<1>3. /\ Sel \in SUBSET Time
      /\ \A t \in Sel : Passes(q, t)
  BY <1>1, SelectedIs DEF Sel
<1>4. q.byTs => /\ Increasing(wanted) /\ Range(wanted) \subseteq q.wanted
                /\ Rest \subseteq Range(wanted)
  BY DEF InputInv, WantedInv
<1>5. /\ Times(View(buf')) = Thinned(b)
      /\ pc' = "fetch" => Thinned(b) = {}
      /\ pc' = "chunk" /\ buf'.num = 0 => ~q.byTs /\ ~q.byValue /\ V = {}
      /\ q.byTs => /\ Increasing(wanted') /\ Range(wanted') \subseteq Range(wanted)
                   /\ \A u \in Range(wanted) :
                        (\A t \in V : Before(q.reverse, t, u)) => u \in Range(wanted')
  BY <1>1, <1>4, PassTimes
<1>6. pc' \in {"fetch", "chunk"}
  BY <1>1, PassInv
<1>7. Rest \subseteq Sel /\ Sel' = Sel
  BY DEF Rest, Sel
<1>8. Thinned(b) = Rest \ Rest'
  <2>1. ASSUME NEW t \in Thinned(b) PROVE t \in Rest /\ t \notin Rest'
    <3>1. t \in V /\ (q.byTs => t \in Range(wanted)) /\ (q.byValue => t \notin q.rejected)
      BY DEF Thinned
    <3>2. Passes(q, t)
      BY <1>4, <3>1 DEF Passes
    <3>3. t \in Int
      BY <3>1 DEF Time
    <3>4. t \notin Rest'
      BY <1>2, <3>1, <3>3, BeforeOrder DEF AllBefore
    <3> QED BY <3>1, <3>2, <3>4
  <2>2. ASSUME NEW t \in Rest, t \notin Rest' PROVE t \in Thinned(b)
    <3>1. t \in V /\ Passes(q, t)
      BY <1>3, <1>7, <2>2
    <3> QED BY <1>4, <3>1 DEF Thinned, Passes
  <2> QED BY <2>1, <2>2
<1>9. Held' = Rest \ Rest'
  BY <1>5, <1>6, <1>8 DEF Held
<1>10. Held = {}
  BY DEF Held
<1>11. AllBefore(q.reverse, Rest \ Rest', Rest')
  <2>1. \A t \in Rest \ Rest' : t \in V
    OBVIOUS
  <2> QED BY <2>1 DEF AllBefore
<1>12. AllBefore(q.reverse, Sel \ Rest, Rest)
  BY DEF InputInv
<1>13. Done = Sel \ Rest /\ Done' = Sel \ (Rest' \cup (Rest \ Rest'))
  BY <1>7, <1>9, <1>10 DEF Done
<1>14. /\ Rest \ Rest' \subseteq Sel \ Rest'
       /\ AllBefore(q.reverse, Sel \ Rest', Rest')
       /\ Sel \ (Rest' \cup (Rest \ Rest')) = Sel \ Rest
       /\ AllBefore(q.reverse, Sel \ Rest, Rest \ Rest')
  <2>1. PICK S, R, R2 : S = Sel /\ R = Rest /\ R2 = Rest'
    OBVIOUS
  <2>2. R \in SUBSET S /\ R2 \in SUBSET R /\ AllBefore(q.reverse, S \ R, R) /\ AllBefore(q.reverse, R \ R2, R2)
    BY <1>7, <1>11, <1>12, <2>1
  <2>3. /\ R \ R2 \subseteq S \ R2
        /\ AllBefore(q.reverse, S \ R2, R2)
        /\ S \ (R2 \cup (R \ R2)) = S \ R
        /\ AllBefore(q.reverse, S \ R, R \ R2)
    BY <1>2, <2>2, Moved
  <2> QED BY <2>1, <2>3
<1>15. WantedInv'
  <2> SUFFICES ASSUME q.byTs
               PROVE  /\ Increasing(wanted') /\ Range(wanted') \subseteq q.wanted
                      /\ Rest' \subseteq Range(wanted')
    BY DEF WantedInv
  <2>1. ASSUME NEW u \in Rest' PROVE u \in Range(wanted')
    <3>1. u \in Range(wanted)
      BY <1>4
    <3>2. \A t \in V : Before(q.reverse, t, u)
      BY DEF AllBefore
    <3> QED BY <1>5, <3>1, <3>2
  <2> QED BY <1>4, <1>5, <2>1
<1>16. Done' = Done
  BY <1>13, <1>14
<1>17. pc' = "chunk" /\ q.agg # "none" /\ buf'.num = 0 => Rest' = {}
  BY <1>5
<1>18. InputInv'
  BY <1>6, <1>7, <1>9, <1>13, <1>14, <1>15, <1>16, <1>17 DEF InputInv
<1> QED BY <1>9, <1>16, <1>18 DEF InputStep

\* A chunk is read.
LEMMA ReadChunkInput ==
  ASSUME IndInv, InputInv, ~LatestDeviates(q), ReadChunk, pc' # "undefined"
  PROVE  InputStep
<1>1. /\ pc = "fetch" /\ chunks # <<>> /\ chunks' = Tail(chunks) /\ q' = q
      /\ ~(q.reverse /\ ShouldFinalizeLastBucket)
  BY DEF ReadChunk
<1>2. q \in Queries /\ q \in Query /\ WellFormed(q) /\ buf \in Buffer /\ Chain(q, chunks) /\ (latest => q.latest)
  BY QueryOK DEF IndInv, TypeInv, InputInv
<1>3. PICK c, d : c = Head(chunks) /\ d = Tail(chunks)
  OBVIOUS
<1>4. /\ GoodChunk(c) /\ Chain(q, d)
      /\ \A t \in Time : Chained(chunks, t) <=> t \in Range(c) \/ Chained(d, t)
      /\ \A t \in Range(c) : t \in Time /\ Chained(q.chunks, t)
      /\ \A t \in Range(c), u \in Time : Chained(d, u) => Before(q.reverse, t, u)
      /\ q.reverse => c[1] <= q.end \/ d = <<>>
  BY <1>1, <1>2, <1>3, ChainHead
<1>5. c \in Seq(Time) /\ Increasing(c) /\ Range(c) = {c[k] : k \in 1 .. Len(c)}
  BY <1>4 DEF GoodChunk, Range
<1>6. PICK b : b = ProcessChunk(buf, c)
  OBVIOUS
<1>7. /\ b \in Buffer /\ Fits(b) /\ View(b) \in Seq(Sent)
      /\ IF q.reverse /\ ~q.byTs THEN Down(View(b)) ELSE Up(View(b))
  BY <1>2, <1>5, <1>6, ProcessChunkFits
<1>8. PICK V : V = Times(View(b))
  OBVIOUS
<1>9. V = {t \in Range(c) : q.start <= t /\ t <= q.end}
  BY <1>2, <1>5, <1>6, <1>8, ProcessChunkTimes
<1>10. /\ Sel \in SUBSET Time
       /\ \A t \in Time : t \in Sel <=>
            /\ Chained(q.chunks, t) \/ (q.latest /\ t \in q.open)
            /\ Passes(q, t)
  BY <1>2, SelectedIs DEF Sel
<1>y. PICK y \in Range(c) : y = Last(c) /\ y \in Int /\ y \in Time /\ Chained(q.chunks, y)
  <2>1. Len(c) \in 1 .. Len(c) /\ c[Len(c)] \in Range(c)
    BY <1>4, <1>5 DEF GoodChunk
  <2> QED BY <1>4, <2>1 DEF Last, Time
\* A chunk without a sample in range is left to an open bucket behind the range.
<1>h. ASSUME HandOut(b), b.num = 0, ShouldFinalizeLastBucket, ~(~q.reverse /\ Last(c) < q.start),
             NEW u \in q.open, u <= q.end
      PROVE  FALSE
  <2>1. ~q.reverse /\ q.latest
    BY <1>1, <1>2, <1>h DEF ShouldFinalizeLastBucket
  <2>2. V = {}
    <3>1. Len(View(b)) = 0
      BY <1>7, <1>h, ViewIs
    <3> QED BY <1>8, <3>1 DEF Times
  <2>3. ~(q.start <= y /\ y <= q.end)
    BY <1>9, <1>y, <2>2
  <2>4. y < u
    BY <1>2, <1>y, <1>h, <2>1, OpenAhead
  <2>5. q.start \in Int /\ q.end \in Int /\ u \in Int
    BY <1>2 DEF Query, Time
  <2> QED BY <1>y, <1>h, <2>1, <2>3, <2>4, <2>5
<1>s. \/ buf' = b /\ UNCHANGED <<pc, wanted, latest>> /\ ~q.reverse /\ Last(c) < q.start
      \/ HandOut(b) /\ ~(~q.reverse /\ Last(c) < q.start)
  BY <1>3, <1>6 DEF ReadChunk
<1>o. ASSUME NEW u \in q.open, u <= q.end PROVE latest' = latest
  <2>1. latest \in BOOLEAN
    BY DEF IndInv, TypeInv
  <2> QED BY <1>s, <1>h, <1>o, <2>1 DEF HandOut
<1>11. /\ Rest = {t \in Sel : Chained(chunks, t) \/ (latest /\ t \in q.open)}
       /\ Rest' = {t \in Sel : Chained(d, t) \/ (latest /\ t \in q.open)}
  <2>1. /\ Rest = {t \in Sel : Chained(chunks, t) \/ (latest /\ t \in q.open)}
        /\ Rest' = {t \in Sel : Chained(d, t) \/ (latest' /\ t \in q.open)}
    BY <1>1, <1>3 DEF Rest, Sel
  <2>2. \A t \in Sel : t <= q.end
    BY <1>10 DEF Passes
  <2> QED BY <1>o, <2>1, <2>2
<1>12. /\ q.start \in Int /\ q.end \in Int /\ q.reverse \in BOOLEAN
       /\ \A t \in Time : t \in Int
  BY <1>2 DEF Query, Time
<1>13. Rest' \subseteq Rest /\ \A t \in Rest : t \in Rest' \/ t \in V
  <2>1. \A t \in Rest : q.start <= t /\ t <= q.end /\ t \in Time
    BY <1>10, <1>11 DEF Passes
  <2> QED BY <1>4, <1>9, <1>10, <1>11, <2>1
<1>14. CASE buf' = b /\ UNCHANGED <<pc, wanted, latest>> /\ ~q.reverse /\ Last(c) < q.start
  <2>1. V = {}
    <3> SUFFICES ASSUME NEW t \in V PROVE FALSE
      OBVIOUS
    <3>1. PICK k \in 1 .. Len(c) : c[k] = t /\ q.start <= c[k]
      BY <1>5, <1>9
    <3>2. c[k] <= c[Len(c)] /\ c[k] \in Int /\ c[Len(c)] \in Int /\ c[Len(c)] < q.start
      <4>1. Len(c) \in 1 .. Len(c)
        BY <1>4 DEF GoodChunk
      <4> QED BY <1>4, <1>14, <4>1 DEF GoodChunk, Last
    <3> QED BY <1>12, <3>1, <3>2
  <2>2. Rest' = Rest
    BY <1>13, <2>1
  <2>3. Held = {} /\ Held' = {} /\ Sel' = Sel
    BY <1>1, <1>14 DEF Held, Sel
  <2>4. Done' = Done
    BY <2>2, <2>3 DEF Done
  <2>5. WantedInv'
    BY <1>1, <1>14, <2>2 DEF InputInv, WantedInv
  <2>6. InputInv'
    BY <1>1, <1>2, <1>3, <1>4, <1>14, <2>2, <2>3, <2>4, <2>5 DEF InputInv
  <2> QED BY <2>2, <2>3, <2>4, <2>6 DEF InputStep
<1>15. CASE HandOut(b) /\ ~(~q.reverse /\ Last(c) < q.start)
  <2>z. PICK z : /\ z \in Buffer /\ Fits(z) /\ View(z) \in Seq(Sent) /\ Pass(z)
                 /\ IF q.reverse /\ ~q.byTs THEN Down(View(z)) ELSE Up(View(z))
                 /\ V = Times(View(z))
    <3>1. CASE ~(b.num = 0 /\ ShouldFinalizeLastBucket)
      BY <1>7, <1>8, <1>15, <3>1 DEF HandOut
    <3>2. CASE b.num = 0 /\ ShouldFinalizeLastBucket
      <4>1. PICK z : z = OpenBucket(b) /\ Pass(z)
        BY <1>15, <3>2 DEF HandOut
      <4>2. /\ z \in Buffer /\ Fits(z) /\ View(z) \in Seq(Sent)
            /\ IF q.reverse /\ ~q.byTs THEN Down(View(z)) ELSE Up(View(z))
        BY <1>2, <1>7, <4>1, OpenBucketFits
      <4>3. Times(View(z)) = {}
        <5>1. Times(View(z)) = {t \in q.open : t <= q.end}
          BY <1>2, <1>7, <4>1, OpenBucketTimes
        <5> QED BY <1>h, <1>15, <3>2, <5>1
      <4>4. V = {}
        <5>1. Len(View(b)) = 0
          BY <1>7, <3>2, ViewIs
        <5> QED BY <1>8, <5>1 DEF Times
      <4> QED BY <4>1, <4>2, <4>3, <4>4
    <3> QED BY <3>1, <3>2
  \* What is left of the open bucket comes later, and is out of range for TS.REVRANGE.
  <2>1. ASSUME NEW u \in Rest', latest, u \in q.open
        PROVE  ~q.reverse /\ \A t \in Time : Chained(q.chunks, t) => t < u
    <3>1. u <= q.end
      BY <1>10, <1>11 DEF Passes
    <3>2. /\ \A t \in Time : Chained(q.chunks, t) => t < u
          /\ ~(q.end > q.last) => ~(u <= q.end)
      BY <1>2, <2>1, OpenAhead
    <3> QED BY <1>1, <2>1, <3>1, <3>2 DEF ShouldFinalizeLastBucket
  <2>2. AllBefore(q.reverse, V, Rest')
    <3> SUFFICES ASSUME NEW t \in V, NEW u \in Rest' PROVE Before(q.reverse, t, u)
      BY DEF AllBefore
    <3>1. t \in Range(c) /\ t \in Time /\ Chained(q.chunks, t) /\ u \in Time
      BY <1>4, <1>9, <1>10, <1>11
    <3>2. CASE Chained(d, u)
      BY <1>4, <3>1, <3>2
    <3>3. CASE latest /\ u \in q.open
      BY <2>1, <3>1, <3>3 DEF Before
    <3> QED BY <1>11, <3>2, <3>3
  <2>3. \A t \in V : t \in Time /\ q.start <= t /\ t <= q.end
    BY <1>4, <1>9
  <2>4. \A t \in V : Passes(q, t) => t \in Rest
    BY <1>4, <1>9, <1>10, <1>11
  <2>5. ASSUME V = {} PROVE Rest' = {}
    <3> SUFFICES ASSUME NEW u \in Rest' PROVE FALSE
      OBVIOUS
    <3>1. u \in Time /\ u \in Int /\ q.start <= u /\ u <= q.end
      BY <1>10, <1>11, <1>12 DEF Passes
    <3>2. 1 \in 1 .. Len(c) /\ Len(c) \in 1 .. Len(c)
      BY <1>4 DEF GoodChunk
    <3>3. PICK x \in Range(c) : x = c[1] /\ x \in Int /\ y = c[Len(c)] /\ y \in Int
      BY <1>4, <1>5, <1>y, <3>2 DEF GoodChunk, Last
    <3>4. /\ ~(q.start <= x /\ x <= q.end)
          /\ ~(q.start <= y /\ y <= q.end)
      BY <1>9, <2>5
    <3>5. CASE q.reverse
      <4>1. Chained(d, u)
        BY <1>11, <2>1, <3>5
      <4>2. d # <<>>
        <5>1. d = <<>> => Len(d) = 0
          OBVIOUS
        <5> QED BY <4>1, <5>1 DEF Chained
      <4>3. x <= q.end
        BY <1>4, <3>3, <3>5, <4>2
      <4>4. u < x
        BY <1>4, <3>1, <3>5, <4>1 DEF Before
      <4> QED BY <1>12, <3>1, <3>3, <3>4, <4>3, <4>4
    <3>6. CASE ~q.reverse
      <4>1. y < u
        <5>1. CASE Chained(d, u)
          BY <1>4, <3>1, <3>6, <5>1 DEF Before
        <5>2. CASE latest /\ u \in q.open
          BY <1>4, <2>1, <5>2
        <5> QED BY <1>11, <5>1, <5>2
      <4>2. ~(y < q.start)
        BY <1>15, <3>3, <3>6 DEF Last
      <4> QED BY <1>12, <3>1, <3>3, <3>4, <4>1, <4>2
    <3> QED BY <1>12, <3>5, <3>6
  <2>6. Chain(q, chunks') /\ (latest' => q.latest)
    BY <1>1, <1>2, <1>3, <1>4, <1>15 DEF HandOut
  <2> QED BY <1>1, <1>13, <2>z, <2>2, <2>3, <2>4, <2>5, <2>6, Received
<1> QED BY <1>14, <1>15, <1>s

\* The chunks still to be read hold stored samples only.
LEMMA ChainStored ==
  ASSUME NEW query, NEW cs, Chain(query, cs), NEW t, Chained(cs, t)
  PROVE  Chained(query.chunks, t)
<1>1. PICK i \in 1 .. Len(cs) : \E k \in 1 .. Len(cs[i]) : cs[i][k] = t
  BY DEF Chained
<1> QED BY <1>1 DEF Chain

\* The open bucket is added.
LEMMA ReadLatestInput ==
  ASSUME IndInv, InputInv, ~LatestDeviates(q), ReadLatest, pc' # "undefined"
  PROVE  InputStep
<1>1. /\ pc = "fetch" /\ chunks' = chunks /\ q' = q /\ latest' = FALSE /\ latest
      /\ q.end > q.last /\ (q.reverse \/ chunks = <<>>)
  BY DEF ReadLatest, ShouldFinalizeLastBucket
<1>2. q \in Queries /\ q \in Query /\ WellFormed(q) /\ buf \in Buffer /\ Chain(q, chunks) /\ q.latest
  BY <1>1, QueryOK DEF IndInv, TypeInv, InputInv
<1>3. PICK b : b = OpenBucket(buf) /\ Pass(b)
  BY DEF ReadLatest
<1>4. /\ b \in Buffer /\ Fits(b) /\ View(b) \in Seq(Sent)
      /\ IF q.reverse /\ ~q.byTs THEN Down(View(b)) ELSE Up(View(b))
  BY <1>2, <1>3, OpenBucketFits
<1>5. PICK V : V = Times(View(b)) /\ V = {t \in q.open : t <= q.end}
  BY <1>2, <1>3, OpenBucketTimes
<1>6. /\ Sel \in SUBSET Time
      /\ \A t \in Time : t \in Sel <=>
           /\ Chained(q.chunks, t) \/ (q.latest /\ t \in q.open)
           /\ Passes(q, t)
  BY <1>2, SelectedIs DEF Sel
<1>7. /\ Rest = {t \in Sel : Chained(chunks, t) \/ t \in q.open}
      /\ Rest' = {t \in Sel : Chained(chunks, t)}
  BY <1>1 DEF Rest, Sel
<1>8. ASSUME NEW t \in q.open
      PROVE  q.start <= t /\ \A u \in Time : Chained(q.chunks, u) => u < t
  BY <1>1, <1>2, OpenAhead
<1>9. Rest' \subseteq Rest /\ \A t \in Rest : t \in Rest' \/ t \in V
  BY <1>5, <1>6, <1>7 DEF Passes
<1>10. \A t \in V : t \in Time /\ q.start <= t /\ t <= q.end
  BY <1>2, <1>5, <1>8 DEF Query
<1>11. \A t \in V : Passes(q, t) => t \in Rest
  BY <1>2, <1>5, <1>6, <1>7, <1>10
<1>12. ~q.reverse => Rest' = {}
  <2>1. chunks = <<>> => Len(chunks) = 0
    OBVIOUS
  <2> QED BY <1>1, <1>7, <2>1 DEF Chained
<1>13. \A u \in Rest' : u \in Time /\ Chained(q.chunks, u)
  BY <1>2, <1>6, <1>7, ChainStored
<1>14. AllBefore(q.reverse, V, Rest')
  <2> SUFFICES ASSUME NEW t \in V, NEW u \in Rest' PROVE Before(q.reverse, t, u)
    BY DEF AllBefore
  <2>1. u < t
    BY <1>5, <1>8, <1>13
  <2> QED BY <1>12, <2>1 DEF Before
<1>15. V = {} /\ ~q.byTs /\ ~q.byValue /\ q.agg # "none" => Rest' = {}
  <2> SUFFICES ASSUME V = {}, ~q.byTs, ~q.byValue, q.agg # "none", q.reverse PROVE FALSE
    BY <1>12
  <2>1. ASSUME NEW t \in q.open PROVE t > q.end
    <3>1. ~(t <= q.end)
      BY <1>5
    <3>2. t \in Int /\ q.end \in Int
      BY <1>2 DEF Query, Time
    <3> QED BY <3>1, <3>2
  <2> QED BY <1>1, <1>2, <2>1 DEF LatestDeviates
<1>16. Chain(q, chunks') /\ (latest' => q.latest)
  BY <1>1, <1>2
<1> QED BY <1>1, <1>3, <1>4, <1>5, <1>9, <1>10, <1>11, <1>14, <1>15, <1>16, Received

\* The input ends when nothing is left to be read.
LEMMA EndOfInputRest ==
  ASSUME IndInv, InputInv, ~LatestDeviates(q), EndOfInput
  PROVE  InputStep /\ Rest' = {} /\ Held' = {}
<1>1. /\ pc = "fetch" /\ pc' = "end" /\ UNCHANGED <<q, chunks, latest, wanted, buf, unread>>
      /\ TsExhausted \/ (chunks = <<>> /\ ~ShouldFinalizeLastBucket)
  BY DEF EndOfInput, iterators
<1>2. q \in Queries /\ (latest => q.latest) /\ wanted \in Seq(Time)
  BY DEF IndInv, TypeInv, InputInv
<1>3. Rest = {}
  <2>1. CASE TsExhausted
    <3>1. q.byTs /\ wanted = <<>> /\ Range(wanted) = {}
      BY <2>1 DEF TsExhausted, Range
    <3> QED BY <3>1 DEF InputInv, WantedInv
  <2>2. CASE chunks = <<>> /\ ~ShouldFinalizeLastBucket
    <3> SUFFICES ASSUME NEW t \in Rest PROVE FALSE
      OBVIOUS
    <3>1. Len(chunks) = 0
      BY <2>2
    <3>2. latest /\ t \in q.open /\ t \in Sel
      BY <3>1 DEF Rest, Chained
    <3>3. t <= q.end
      BY <1>2, <3>2, SelectedIs DEF Sel, Passes
    <3>4. ~(q.end > q.last)
      BY <2>2, <3>2 DEF ShouldFinalizeLastBucket
    <3> QED BY <1>2, <3>2, <3>3, <3>4, OpenAhead
  <2> QED BY <1>1, <2>1, <2>2
<1>4. Rest' = Rest /\ Held = {} /\ Held' = {} /\ Sel' = Sel
  BY <1>1 DEF Rest, Held, Sel
<1>5. Done' = Done
  BY <1>4 DEF Done
<1>6. WantedInv'
  BY <1>1, <1>4 DEF InputInv, WantedInv
<1>7. InputInv'
  BY <1>1, <1>3, <1>4, <1>5, <1>6 DEF InputInv
<1> QED BY <1>3, <1>4, <1>5, <1>7 DEF InputStep

\* In the beginning all is to be read.
LEMMA InputInit ==
  ASSUME Init
  PROVE  InputInv /\ Done = {} /\ Held = {}
<1>1. /\ q \in Queries /\ pc = "fetch" /\ chunks = FirstChunks(q) /\ latest = q.latest
      /\ wanted = Ascending(q.wanted)
  BY DEF Init, FilterValues
<1>2. q \in Query
  BY <1>1, QueryOK
<1>3. /\ Chain(q, chunks)
      /\ \A t \in Sel : Chained(q.chunks, t) => Chained(chunks, t)
  BY <1>1, FirstChunksHold DEF Sel
<1>4. /\ Sel \in SUBSET Time
      /\ \A t \in Sel : Chained(q.chunks, t) \/ (q.latest /\ t \in q.open)
      /\ \A t \in Sel : q.byTs => t \in q.wanted
  BY <1>1, SelectedIs DEF Sel, Passes
<1>5. Rest = Sel
  BY <1>1, <1>3, <1>4 DEF Rest
<1>6. Held = {}
  BY <1>1 DEF Held
<1>7. Lists(FALSE, wanted, q.wanted)
  <2>1. MaxTime \in Nat /\ q.wanted \in SUBSET (0 .. MaxTime)
    BY <1>2, TimeAssumption DEF Query, Time
  <2>2. IsFiniteSet(0 .. MaxTime)
    BY <2>1, FS_Interval
  <2>3. IsFiniteSet(q.wanted)
    BY <2>1, <2>2, FS_Subset
  <2>4. q.wanted \in SUBSET Int
    BY <2>1
  <2> QED BY <1>1, <2>3, <2>4, AscendingLists
<1>8. DOMAIN wanted = 1 .. Len(wanted)
  BY <1>7 DEF Lists
<1>9. Increasing(wanted) /\ Range(wanted) = q.wanted
  BY <1>7, <1>8 DEF Lists, Before, Increasing, Range
<1>10. WantedInv
  BY <1>4, <1>5, <1>9 DEF WantedInv
<1>11. InputInv /\ Done = {}
  BY <1>1, <1>3, <1>5, <1>6, <1>10 DEF InputInv, AllBefore, Done
<1> QED BY <1>6, <1>11

----------------------------------------------------------------------------
(***************************************************************************)
(* The reply.                                                              *)
(***************************************************************************)
Cut(s, n) == IF Len(s) <= n THEN s ELSE SubSeq(s, 1, n)

\* s is the beginning of full.
Begins(s, full) == Len(s) <= Len(full) /\ \A i \in 1 .. Len(s) : full[i] = s[i]

\* COUNT leaves the beginning of a sequence.
LEMMA CutIs ==
  ASSUME NEW full \in Seq(Sent), NEW n \in Nat
  PROVE  /\ Cut(full, n) \in Seq(Sent)
         /\ Len(Cut(full, n)) = IF Len(full) <= n THEN Len(full) ELSE n
         /\ \A i \in 1 .. Len(Cut(full, n)) : i \in 1 .. Len(full) /\ Cut(full, n)[i] = full[i]
<1>1. Len(full) \in Nat
  OBVIOUS
<1>2. CASE Len(full) <= n
  BY <1>2 DEF Cut
<1>3. CASE ~(Len(full) <= n)
  <2>1. PICK z : z = SubSeq(full, 1, n)
    OBVIOUS
  <2>2. /\ z \in Seq(Sent) /\ Len(z) = n
        /\ \A i \in 1 .. Len(z) : 1 + i - 1 \in 1 .. Len(full) /\ z[i] = full[1 + i - 1]
    <3>1. 1 \in Nat \ {0} /\ n \in Int /\ n <= Len(full)
      BY <1>1, <1>3
    <3>2. Len(z) = IF 1 <= n THEN n - 1 + 1 ELSE 0
      BY <2>1, <3>1, Slice
    <3>3. Len(z) = n
      BY <3>2
    <3> QED BY <2>1, <3>1, <3>3, Slice
  <2>3. \A i \in 1 .. Len(z) : 1 + i - 1 = i
    BY <2>2
  <2> QED BY <1>3, <2>1, <2>2, <2>3 DEF Cut
<1> QED BY <1>2, <1>3

\* Sequences that agree are equal.
LEMMA SameSequence ==
  ASSUME NEW s \in Seq(Sent), NEW z \in Seq(Sent), Len(s) = Len(z), \A i \in 1 .. Len(s) : s[i] = z[i]
  PROVE  s = z
OBVIOUS

\* ReplySeriesRange sends the beginning of full, or stops at COUNT with as much of it
\* as is asked for.
LEMMA ReplySends ==
  ASSUME q \in Queries, reply \in Seq(Sent), NEW s \in Seq(Sent), Reply(s),
         NEW full \in Seq(Sent), Begins(reply \o s, full)
  PROVE  \/ pc' = "fetch" /\ reply' = reply \o s /\ Len(reply') < q.count
         \/ pc' = "done" /\ reply' = Cut(full, q.count)
<1>1. PICK sent \in Seq(Sent) : sent = reply \o s
  BY ConcatProperties
<1>2. PICK c \in Nat : c = q.count
  BY QueryOK
<1>3. PICK m \in Nat, l \in Nat : m = Len(sent) /\ l = Len(full) /\ m <= l
  BY <1>1 DEF Begins
<1>4. \A i \in 1 .. m : full[i] = sent[i]
  BY <1>1, <1>3 DEF Begins
<1>5. CASE m < c
  <2>1. reply' = SubSeq(sent, 1, m) /\ pc' = "fetch"
    BY <1>1, <1>2, <1>3, <1>5 DEF Reply
  <2>2. SubSeq(sent, 1, m) = sent
    BY <1>3
  <2> QED BY <1>1, <1>2, <1>3, <1>5, <2>1, <2>2
<1>6. CASE ~(m < c)
  <2>1. reply' = SubSeq(sent, 1, c) /\ pc' = "done"
    BY <1>1, <1>2, <1>3, <1>6 DEF Reply
  <2>2. /\ SubSeq(sent, 1, c) \in Seq(Sent) /\ Len(SubSeq(sent, 1, c)) = c
        /\ \A i \in 1 .. c : i \in 1 .. m /\ SubSeq(sent, 1, c)[i] = sent[i]
    <3>1. PICK z : z = SubSeq(sent, 1, c)
      OBVIOUS
    <3>2. 1 \in Nat \ {0} /\ c \in Int /\ c <= Len(sent)
      BY <1>3, <1>6
    <3>3. /\ z \in Seq(Sent) /\ Len(z) = IF 1 <= c THEN c - 1 + 1 ELSE 0
          /\ \A i \in 1 .. Len(z) : 1 + i - 1 \in 1 .. m /\ z[i] = sent[1 + i - 1]
      BY <1>3, <3>1, <3>2, Slice
    <3>4. Len(z) = c
      BY <3>3
    <3>5. \A i \in 1 .. c : 1 + i - 1 = i
      OBVIOUS
    <3> QED BY <3>1, <3>3, <3>4, <3>5
  <2>3. /\ Cut(full, c) \in Seq(Sent) /\ Len(Cut(full, c)) = c
        /\ \A i \in 1 .. c : Cut(full, c)[i] = full[i]
    <3>1. (IF l <= c THEN l ELSE c) = c
      BY <1>3, <1>6
    <3> QED BY <1>3, <3>1, CutIs
  <2>4. SubSeq(sent, 1, c) = Cut(full, c)
    BY <1>4, <2>2, <2>3, SameSequence
  <2> QED BY <1>2, <2>1, <2>4
<1> QED BY <1>3, <1>5, <1>6

\* What has been sent so far is a prefix of the answer.
LEMMA BeginsPrefix ==
  ASSUME NEW s \in Seq(Sent), NEW full \in Seq(Sent), NEW n \in Nat, Begins(s, full), Len(s) < n
  PROVE  IsPrefix(s, Cut(full, n))
<1>1. PICK z \in Seq(Sent) : z = Cut(full, n)
  BY CutIs
<1>2. /\ Len(z) = IF Len(full) <= n THEN Len(full) ELSE n
      /\ \A i \in 1 .. Len(z) : z[i] = full[i]
  BY <1>1, CutIs
<1>3. Len(s) \in Nat /\ Len(full) \in Nat /\ Len(z) \in Nat /\ Len(s) <= Len(z)
  BY <1>1, <1>2 DEF Begins
<1>4. \A i \in 1 .. Len(s) : i \in 1 .. Len(z) /\ s[i] = z[i]
  BY <1>2, <1>3 DEF Begins
<1>5. SubSeq(s, 1, Len(s)) = SubSeq(z, 1, Len(s))
  BY <1>3, <1>4
<1> QED BY <1>1, <1>3, <1>5 DEF IsPrefix

\* The selected samples are finitely many numbers.
LEMMA SelFinite ==
  ASSUME NEW query \in Queries
  PROVE  /\ Selected(query) \in SUBSET Time /\ Selected(query) \in SUBSET Int
         /\ \A S \in SUBSET Selected(query) : S \in SUBSET Int /\ IsFiniteSet(S)
<1>1. Selected(query) \in SUBSET Time
  BY SelectedIs
<1>2. MaxTime \in Nat /\ Time = 0 .. MaxTime
  BY TimeAssumption DEF Time
<1>3. IsFiniteSet(0 .. MaxTime)
  BY <1>2, FS_Interval
<1>4. ASSUME NEW S \in SUBSET Selected(query) PROVE S \in SUBSET Int /\ IsFiniteSet(S)
  <2>1. S \in SUBSET (0 .. MaxTime)
    BY <1>1, <1>2
  <2>2. IsFiniteSet(S)
    BY <1>3, <2>1, FS_Subset
  <2> QED BY <2>1, <2>2
<1> QED BY <1>1, <1>4

\* A list of timestamps is a sequence of them.
LEMMA ListOfTimes ==
  ASSUME NEW r \in BOOLEAN, NEW s, NEW S \in SUBSET Time, Lists(r, s, S)
  PROVE  s \in Seq(Time)
<1>1. s \in Seq(Int) /\ Len(s) \in Nat
  BY DEF Lists
<1>2. s \in [1 .. Len(s) -> Time]
  <2>1. \A i \in 1 .. Len(s) : s[i] \in Time
    BY DEF Lists
  <2>2. s = [i \in 1 .. Len(s) |-> s[i]]
    BY <1>1
  <2> QED BY <2>1, <2>2
<1> QED BY <1>1, <1>2, FunctionIsSeq

----------------------------------------------------------------------------
(***************************************************************************)
(* Queries without an aggregation: the reply lists the samples that are    *)
(* done with.                                                              *)
(***************************************************************************)
Full == Reported(q, Sel)

\* Samples as they are stored, with the timestamps S.
Stamps(s) == [i \in 1 .. Len(s) |-> s[i].ts]
PlainOf(s, S) == s \in Seq(Sent) /\ Samples(s) /\ Lists(q.reverse, Stamps(s), S)

\* Samples in the order of the reply list their timestamps.
LEMMA OrderedPlain ==
  ASSUME q \in Query, NEW s \in Seq(Sent), Ordered(s)
  PROVE  PlainOf(s, Times(s))
<1>1. q.reverse \in BOOLEAN /\ Len(s) \in Nat
  BY DEF Query
<1>2. Samples(s)
  BY <1>1 DEF Ordered, Up, Down
<1>3. PICK z : z = Stamps(s)
  OBVIOUS
<1>4. z = [i \in 1 .. Len(s) |-> s[i].ts] /\ \A i \in 1 .. Len(s) : z[i] = s[i].ts
  BY <1>3 DEF Stamps
<1>5. z \in Seq(Int) /\ Len(z) = Len(s)
  <2>1. \A i \in 1 .. Len(s) : s[i].ts \in Int
    BY <1>2 DEF Samples, Time
  <2> QED BY <1>1, <1>4, <2>1
<1>6. \A i, j \in 1 .. Len(z) : i < j => Before(q.reverse, z[i], z[j])
  BY <1>1, <1>4, <1>5 DEF Ordered, Up, Down, Before
<1>7. Lists(q.reverse, z, Times(s))
  BY <1>4, <1>5, <1>6 DEF Lists, Times
<1> QED BY <1>2, <1>3, <1>7 DEF PlainOf

\* Two sequences, one after the other.
LEMMA Joined ==
  ASSUME NEW X, NEW s \in Seq(X), NEW z \in Seq(X), NEW y, y = s \o z
  PROVE  /\ y \in Seq(X) /\ Len(y) = Len(s) + Len(z)
         /\ \A i \in 1 .. Len(s) : y[i] = s[i]
         /\ \A i \in 1 .. Len(z) : y[Len(s) + i] = z[i]
BY ConcatProperties

\* More samples behind the ones sent.
LEMMA PlainConcat ==
  ASSUME q \in Query, NEW s, NEW z, NEW S, NEW T, PlainOf(s, S), PlainOf(z, T), AllBefore(q.reverse, S, T)
  PROVE  PlainOf(s \o z, S \cup T)
<1>1. s \in Seq(Sent) /\ z \in Seq(Sent) /\ Len(s) \in Nat /\ Len(z) \in Nat /\ q.reverse \in BOOLEAN
  BY DEF PlainOf, Query
<1>2. PICK y : y = s \o z
  OBVIOUS
<1>3. /\ y \in Seq(Sent) /\ Len(y) = Len(s) + Len(z)
      /\ \A i \in 1 .. Len(s) : y[i] = s[i]
      /\ \A i \in 1 .. Len(z) : y[Len(s) + i] = z[i]
  BY <1>1, <1>2, Joined
<1>4. \A i \in 1 .. Len(y) : i \in 1 .. Len(s) \/ (i - Len(s) \in 1 .. Len(z) /\ i = Len(s) + (i - Len(s)))
  BY <1>1, <1>3
<1>5. Samples(y)
  <2> SUFFICES ASSUME NEW i \in 1 .. Len(y) PROVE y[i].ts \in Time /\ y[i] = Sample(y[i].ts)
    BY DEF Samples
  <2>1. CASE i \in 1 .. Len(s)
    BY <1>3, <2>1 DEF PlainOf, Samples
  <2>2. CASE i - Len(s) \in 1 .. Len(z) /\ i = Len(s) + (i - Len(s))
    <3>1. y[i] = z[i - Len(s)]
      BY <1>3, <2>2
    <3> QED BY <2>2, <3>1 DEF PlainOf, Samples
  <2> QED BY <1>4, <2>1, <2>2
<1>6. PICK ss, zz, yy : ss = Stamps(s) /\ zz = Stamps(z) /\ yy = Stamps(y)
  OBVIOUS
<1>7. /\ ss \in Seq(Int) /\ Len(ss) = Len(s) /\ \A i \in 1 .. Len(s) : ss[i] = s[i].ts
      /\ zz \in Seq(Int) /\ Len(zz) = Len(z) /\ \A i \in 1 .. Len(z) : zz[i] = z[i].ts
      /\ yy \in Seq(Int) /\ Len(yy) = Len(y) /\ \A i \in 1 .. Len(y) : yy[i] = y[i].ts
  <2>1. ASSUME NEW a \in Seq(Sent), Samples(a), NEW aa, aa = Stamps(a)
        PROVE  aa \in Seq(Int) /\ Len(aa) = Len(a) /\ \A i \in 1 .. Len(a) : aa[i] = a[i].ts
    <3>1. Len(a) \in Nat /\ \A i \in 1 .. Len(a) : a[i].ts \in Int
      BY <2>1 DEF Samples, Time
    <3>2. aa = [i \in 1 .. Len(a) |-> a[i].ts]
      BY <2>1 DEF Stamps
    <3>3. aa \in [1 .. Len(a) -> Int]
      BY <3>1, <3>2
    <3> QED BY <3>1, <3>2, <3>3, FunctionIsSeq
  <2> QED BY <1>1, <1>3, <1>5, <1>6, <2>1 DEF PlainOf
<1>8. yy = ss \o zz
  <2>1. PICK xx : xx = ss \o zz
    OBVIOUS
  <2>2. /\ xx \in Seq(Int) /\ Len(xx) = Len(ss) + Len(zz)
        /\ \A i \in 1 .. Len(ss) : xx[i] = ss[i]
        /\ \A i \in 1 .. Len(zz) : xx[Len(ss) + i] = zz[i]
    <3>1. ss \in Seq(Int) /\ zz \in Seq(Int)
      BY <1>7
    <3> QED BY <2>1, <3>1, Joined
  <2>3. ASSUME NEW i \in 1 .. Len(y) PROVE yy[i] = xx[i]
    <3>1. CASE i \in 1 .. Len(s)
      BY <1>3, <1>7, <2>2, <3>1
    <3>2. CASE i - Len(s) \in 1 .. Len(z) /\ i = Len(s) + (i - Len(s))
      <4>1. y[i] = z[i - Len(s)]
        BY <1>3, <3>2
      <4>2. xx[i] = zz[i - Len(s)]
        BY <1>7, <2>2, <3>2
      <4> QED BY <1>7, <3>2, <4>1, <4>2
    <3> QED BY <1>4, <3>1, <3>2
  <2>4. Len(yy) = Len(xx)
    BY <1>3, <1>7, <2>2
  <2>5. yy \in Seq(Int) /\ xx \in Seq(Int) /\ \A i \in 1 .. Len(yy) : yy[i] = xx[i]
    BY <1>7, <2>2, <2>3
  <2>6. yy = xx
    BY <2>4, <2>5, SeqEqual
  <2> QED BY <2>1, <2>6
<1>9. Lists(q.reverse, ss \o zz, S \cup T)
  BY <1>1, <1>6, ListConcat DEF PlainOf
<1> QED BY <1>2, <1>3, <1>5, <1>6, <1>8, <1>9 DEF PlainOf

\* What a query without an aggregation is answered.
LEMMA PlainFull ==
  ASSUME q \in Queries, q.agg = "none"
  PROVE  PlainOf(Full, Sel)
<1>1. q \in Query /\ q.reverse \in BOOLEAN
  BY QueryOK DEF Query
<1>2. Sel \in SUBSET Time /\ Sel \in SUBSET Int /\ IsFiniteSet(Sel)
  BY SelFinite DEF Sel
<1>3. PICK o : o = ReplyOrder(q, Sel)
  OBVIOUS
<1>4. Lists(q.reverse, o, Sel)
  BY <1>1, <1>2, <1>3, ReplyOrderLists
<1>5. o \in Seq(Time)
  BY <1>1, <1>2, <1>4, ListOfTimes
<1>6. DOMAIN o = 1 .. Len(o) /\ Len(o) \in Nat /\ \A i \in 1 .. Len(o) : o[i] \in Time
  BY <1>5, ElementOfSeq
<1>7. PICK f : f = Full
  OBVIOUS
<1>8. f = [i \in 1 .. Len(o) |-> Sample(o[i])]
  BY <1>3, <1>6, <1>7 DEF Full, Reported
<1>9. \A i \in 1 .. Len(o) : f[i] \in Sent /\ f[i].ts = o[i] /\ f[i] = Sample(o[i])
  BY <1>6, <1>8, SampleSent
<1>10. f \in Seq(Sent) /\ Len(f) = Len(o)
  BY <1>6, <1>8, <1>9
<1>11. Samples(f)
  BY <1>6, <1>9, <1>10 DEF Samples
<1>12. Stamps(f) = o
  <2>1. Stamps(f) = [i \in 1 .. Len(o) |-> f[i].ts]
    BY <1>10 DEF Stamps
  <2>2. Stamps(f) = [i \in 1 .. Len(o) |-> o[i]]
    BY <1>9, <2>1
  <2> QED BY <1>5, <2>2
<1> QED BY <1>4, <1>7, <1>10, <1>11, <1>12 DEF PlainOf

\* What has been sent is the beginning of it.
LEMMA PlainBegins ==
  ASSUME q \in Queries, NEW full, PlainOf(full, Sel),
         NEW s, NEW S, PlainOf(s, S), S \subseteq Sel, AllBefore(q.reverse, S, Sel \ S)
  PROVE  /\ Begins(s, full)
         /\ S = Sel => s = full
<1>1. q.reverse \in BOOLEAN /\ s \in Seq(Sent) /\ full \in Seq(Sent)
  BY QueryOK DEF Query, PlainOf
<1>2. PICK ss, ff : ss = Stamps(s) /\ ff = Stamps(full)
  OBVIOUS
<1>3. Lists(q.reverse, ss, S) /\ Lists(q.reverse, ff, Sel)
  BY <1>2 DEF PlainOf
<1>4. /\ ss = [i \in 1 .. Len(s) |-> s[i].ts] /\ ff = [i \in 1 .. Len(full) |-> full[i].ts]
      /\ Len(s) \in Nat /\ Len(full) \in Nat
  BY <1>1, <1>2 DEF Stamps
<1>5. Len(ss) = Len(s) /\ Len(ff) = Len(full)
  <2>1. ss \in Seq(Int) /\ ff \in Seq(Int)
    BY <1>3 DEF Lists
  <2>2. DOMAIN ss = 1 .. Len(s) /\ DOMAIN ff = 1 .. Len(full)
    BY <1>4
  <2> QED BY <1>4, <2>1, <2>2, LenProperties
<1>6. /\ Len(s) <= Len(full)
      /\ \A i \in 1 .. Len(s) : i \in 1 .. Len(full) /\ ff[i] = ss[i]
  BY <1>1, <1>3, <1>5, ListPrefix
<1>7. ASSUME NEW i \in 1 .. Len(s) PROVE full[i] = s[i]
  <2>1. i \in 1 .. Len(full) /\ full[i].ts = s[i].ts
    BY <1>4, <1>6
  <2>2. s[i] = Sample(s[i].ts) /\ full[i] = Sample(full[i].ts)
    BY <2>1 DEF PlainOf, Samples
  <2> QED BY <2>1, <2>2
<1>8. Begins(s, full)
  BY <1>6, <1>7 DEF Begins
<1>9. S = Sel => s = full
  <2> SUFFICES ASSUME S = Sel PROVE s = full
    OBVIOUS
  <2>1. ss = ff
    BY <1>1, <1>3, ListUnique
  <2>2. Len(s) = Len(full)
    BY <1>5, <2>1
  <2> QED BY <1>1, <1>7, <2>2, SameSequence
<1> QED BY <1>8, <1>9

----------------------------------------------------------------------------
(***************************************************************************)
(* The grid of buckets.                                                    *)
(***************************************************************************)
Start(t) == CalcBucketStart(q, t)
Aligned(b) == \E m \in Int : b = q.align + (q.delta * m)

\* Multiples of d are at least d apart.
LEMMA Multiples ==
  ASSUME NEW d \in Nat \ {0}, NEW m \in Int, NEW k \in Int, m < k
  PROVE  (d * m) + d <= d * k
<1>1. PICK j \in Nat : k = m + 1 + j
  <2>1. k - m - 1 \in Nat /\ k = m + 1 + (k - m - 1)
    OBVIOUS
  <2> QED BY <2>1
<1>2. d * j >= 0 /\ d * j \in Int /\ d * m \in Int
  OBVIOUS
<1>3. d * k = (d * m) + d + (d * j)
  BY <1>1
<1> QED BY <1>2, <1>3

\* The numbers of a query.
LEMMA GridOK ==
  ASSUME q \in Queries
  PROVE  q.delta \in Nat \ {0} /\ q.delta <= MaxTime + 1 /\ q.align \in Int /\ q.reverse \in BOOLEAN /\ q.empty \in BOOLEAN
         /\ MaxTime \in Nat
<1>1. q \in Query /\ q.delta \in 1 .. MaxTime + 1 /\ MaxTime \in Nat
  BY QueryOK, TimeAssumption
<1> QED BY <1>1 DEF Query, Time

\* The remainder the code uses is 0 at the beginnings of buckets, and only there.
LEMMA AlignedIs ==
  ASSUME q \in Queries, NEW b \in Int
  PROVE  Aligned(b) <=> (b - q.align) % q.delta = 0
<1>1. PICK d \in Nat \ {0}, a \in Int : d = q.delta /\ a = q.align
  BY GridOK
<1>2. PICK x \in Int : x = b - a
  OBVIOUS
<1>3. PICK y \in Int, r \in 0 .. d - 1 : r = x % d /\ x = (d * y) + r
  <2>1. x % d \in 0 .. d - 1 /\ x \div d \in Int /\ x = (d * (x \div d)) + (x % d)
    OBVIOUS
  <2> QED BY <2>1
<1>4. ASSUME r = 0 PROVE Aligned(b)
  <2>1. b = a + (d * y)
    BY <1>2, <1>3, <1>4
  <2> QED BY <1>1, <2>1 DEF Aligned
<1>5. ASSUME Aligned(b) PROVE r = 0
  <2>1. PICK m \in Int : b = a + (d * m)
    BY <1>1, <1>5 DEF Aligned
  <2>2. d * m \in Int /\ d * y \in Int
    OBVIOUS
  <2>3. d * m = (d * y) + r
    BY <1>2, <1>3, <2>1, <2>2
  <2>4. ~(m < y)
    <3> SUFFICES ASSUME m < y PROVE FALSE
      OBVIOUS
    <3>1. (d * m) + d <= d * y
      BY Multiples
    <3> QED BY <2>2, <2>3, <3>1
  <2>5. ~(y < m)
    <3> SUFFICES ASSUME y < m PROVE FALSE
      OBVIOUS
    <3>1. (d * y) + d <= d * m
      BY Multiples
    <3> QED BY <2>2, <2>3, <3>1
  <2>6. m = y
    BY <2>4, <2>5
  <2> QED BY <2>2, <2>3, <2>6
<1>6. (b - q.align) % q.delta = r
  BY <1>1, <1>2, <1>3
<1> QED BY <1>4, <1>5, <1>6

\* Beginnings of buckets are at least a bucket apart.
LEMMA AlignedApart ==
  ASSUME q \in Queries, NEW b \in Int, NEW c \in Int, Aligned(b), Aligned(c), b < c
  PROVE  b + q.delta <= c /\ \E k \in Nat \ {0} : c = b + (q.delta * k)
<1>1. PICK d \in Nat \ {0}, a \in Int : d = q.delta /\ a = q.align
  BY GridOK
<1>2. PICK m \in Int : b = a + (d * m)
  BY <1>1 DEF Aligned
<1>3. PICK k \in Int : c = a + (d * k)
  BY <1>1 DEF Aligned
<1>4. d * m \in Int /\ d * k \in Int
  OBVIOUS
<1>5. m < k
  <2> SUFFICES ASSUME k < m \/ k = m PROVE FALSE
    OBVIOUS
  <2>1. CASE k = m
    BY <1>2, <1>3, <1>4, <2>1
  <2>2. CASE k < m
    <3>1. (d * k) + d <= d * m
      BY <2>2, Multiples
    <3> QED BY <1>2, <1>3, <1>4, <3>1
  <2> QED BY <2>1, <2>2
<1>6. (d * m) + d <= d * k
  BY <1>5, Multiples
<1>7. PICK j \in Nat \ {0} : k = m + j
  <2>1. k - m \in Nat \ {0} /\ k = m + (k - m)
    BY <1>5
  <2> QED BY <2>1
<1>8. d * k = (d * m) + (d * j)
  BY <1>7
<1>9. d * j \in Int
  OBVIOUS
<1>10. c = b + (d * j)
  BY <1>2, <1>3, <1>4, <1>8, <1>9
<1>11. b + d <= c
  BY <1>2, <1>3, <1>4, <1>6
<1> QED BY <1>1, <1>10, <1>11

\* Steps along the grid stay on it.
LEMMA AlignedSteps ==
  ASSUME q \in Queries, NEW b \in Int, Aligned(b), NEW k \in Int
  PROVE  q.delta * k \in Int /\ Aligned(b + (q.delta * k))
<1>1. PICK d \in Nat \ {0}, a \in Int : d = q.delta /\ a = q.align
  BY GridOK
<1>2. PICK m \in Int : b = a + (d * m)
  BY <1>1 DEF Aligned
<1>3. d * m \in Int /\ d * k \in Int /\ d * (m + k) \in Int /\ d * (m + k) = (d * m) + (d * k)
  OBVIOUS
<1>4. b + (d * k) = a + (d * (m + k))
  BY <1>2, <1>3
<1>5. m + k \in Int
  OBVIOUS
<1> QED BY <1>1, <1>3, <1>4, <1>5 DEF Aligned

\* A timestamp lies in the bucket CalcBucketStart computes, which is one of the grid.
LEMMA StartIs ==
  ASSUME q \in Queries, NEW t \in Time
  PROVE  /\ Start(t) \in Int /\ Aligned(Start(t)) /\ t \in Int
         /\ Start(t) <= t /\ t < Start(t) + q.delta
         /\ Start(t) \in -MaxTime - 1 .. MaxTime
<1>1. Start(t) \in Int /\ Start(t) <= t /\ t < Start(t) + q.delta
  BY StartBounds DEF Start
<1>2. PICK d \in Nat \ {0}, a \in Int : d = q.delta /\ a = q.align /\ d <= MaxTime + 1 /\ MaxTime \in Nat
  BY GridOK
<1>3. t \in Nat /\ t <= MaxTime
  BY <1>2 DEF Time
<1>4. PICK x \in Int : x = t - a
  BY <1>3
<1>5. PICK y \in Int, r \in 0 .. d - 1 : r = x % d /\ x = (d * y) + r
  <2>1. x % d \in 0 .. d - 1 /\ x \div d \in Int /\ x = (d * (x \div d)) + (x % d)
    OBVIOUS
  <2> QED BY <2>1
<1>6. Start(t) = t - r
  BY <1>2, <1>4, <1>5 DEF Start, CalcBucketStart
<1>7. d * y \in Int
  OBVIOUS
<1>8. Start(t) = a + (d * y)
  BY <1>3, <1>4, <1>5, <1>6, <1>7
<1>9. Aligned(Start(t))
  BY <1>2, <1>8 DEF Aligned
<1>10. Start(t) \in -MaxTime - 1 .. MaxTime
  BY <1>1, <1>2, <1>3
<1> QED BY <1>1, <1>3, <1>9, <1>10

\* A bucket of the grid that holds a timestamp is its bucket.
LEMMA SameStart ==
  ASSUME q \in Queries, NEW t \in Time, NEW b \in Int, Aligned(b), b <= t, t < b + q.delta
  PROVE  Start(t) = b
<1>1. PICK s \in Int : s = Start(t) /\ Aligned(s) /\ s <= t /\ t < s + q.delta
  BY StartIs
<1>2. t \in Int /\ q.delta \in Nat
  BY StartIs, GridOK
<1>3. ~(s < b)
  <2> SUFFICES ASSUME s < b PROVE FALSE
    OBVIOUS
  <2>1. s + q.delta <= b
    BY <1>1, AlignedApart
  <2> QED BY <1>1, <1>2, <2>1
<1>4. ~(b < s)
  <2> SUFFICES ASSUME b < s PROVE FALSE
    OBVIOUS
  <2>1. b + q.delta <= s
    BY <1>1, AlignedApart
  <2> QED BY <1>1, <1>2, <2>1
<1> QED BY <1>1, <1>3, <1>4

\* Buckets are in the order of their samples.
LEMMA StartOrder ==
  ASSUME q \in Queries, NEW t \in Time, NEW u \in Time, Before(q.reverse, t, u)
  PROVE  Start(t) = Start(u) \/ Before(q.reverse, Start(t), Start(u))
<1>1. PICK s \in Int : s = Start(t) /\ Aligned(s) /\ s <= t /\ t < s + q.delta
  BY StartIs
<1>2. PICK z \in Int : z = Start(u) /\ Aligned(z) /\ z <= u /\ u < z + q.delta
  BY StartIs
<1>3. t \in Int /\ u \in Int /\ q.delta \in Nat /\ q.reverse \in BOOLEAN
  BY StartIs, GridOK
<1>4. CASE q.reverse
  <2>1. u < t
    BY <1>4 DEF Before
  <2>2. ~(s < z)
    <3> SUFFICES ASSUME s < z PROVE FALSE
      OBVIOUS
    <3>1. s + q.delta <= z
      BY <1>1, <1>2, AlignedApart
    <3> QED BY <1>1, <1>2, <1>3, <2>1, <3>1
  <2> QED BY <1>1, <1>2, <1>4, <2>2 DEF Before
<1>5. CASE ~q.reverse
  <2>1. t < u
    BY <1>5 DEF Before
  <2>2. ~(z < s)
    <3> SUFFICES ASSUME z < s PROVE FALSE
      OBVIOUS
    <3>1. z + q.delta <= s
      BY <1>1, <1>2, AlignedApart
    <3> QED BY <1>1, <1>2, <1>3, <2>1, <3>1
  <2> QED BY <1>1, <1>2, <1>5, <2>2 DEF Before
<1> QED BY <1>4, <1>5

----------------------------------------------------------------------------
(***************************************************************************)
(* The buckets of the reply.                                               *)
(***************************************************************************)
\* What follows an element of a list: a list of elements behind it that no other
\* element comes in between.
Follow(r, S, c, G) ==
  /\ G \in SUBSET S
  /\ \A x \in G : Before(r, c, x)
  /\ \A x \in S : ~Before(r, c, x) \/ x \in G \/ (\A z \in G : Before(r, z, x))

\* In a list, such elements stand directly behind it, in their order.
LEMMA ListFollow ==
  ASSUME NEW r \in BOOLEAN, NEW s, NEW S \in SUBSET Int, Lists(r, s, S), NEW at \in 1 .. Len(s),
         NEW g, NEW G, Lists(r, g, G), Follow(r, S, s[at], G)
  PROVE  Len(g) \in Nat /\ \A i \in 1 .. Len(g) : at + i \in 1 .. Len(s) /\ s[at + i] = g[i]
<1>1. s \in Seq(Int) /\ g \in Seq(Int) /\ Len(s) \in Nat /\ Len(g) \in Nat /\ s[at] \in S
  BY DEF Lists
<1>2. PICK c \in Int : c = s[at]
  BY <1>1
<1>3. PICK h : h = SubSeq(s, 1, at)
  OBVIOUS
<1>4. h \in Seq(Int) /\ Len(h) = at /\ \A i \in 1 .. at : i \in 1 .. Len(s) /\ h[i] = s[i]
  <2>1. 1 \in Nat \ {0} /\ at \in Int /\ at <= Len(s) /\ at - 1 + 1 = at
    BY <1>1
  <2>2. /\ h \in Seq(Int) /\ Len(h) = IF 1 <= at THEN at - 1 + 1 ELSE 0
        /\ \A i \in 1 .. Len(h) : 1 + i - 1 \in 1 .. Len(s) /\ h[i] = s[1 + i - 1]
    BY <1>1, <1>3, <2>1, Slice
  <2>3. Len(h) = at
    BY <2>1, <2>2
  <2>4. \A i \in 1 .. at : 1 + i - 1 = i
    OBVIOUS
  <2> QED BY <2>2, <2>3, <2>4
<1>5. PICK H : H = {x \in S : x = c \/ Before(r, x, c)}
  OBVIOUS
<1>6. Lists(r, h, H)
  <2>1. \A i, j \in 1 .. Len(h) : i < j => Before(r, h[i], h[j])
    BY <1>4 DEF Lists
  <2>2. ASSUME NEW i \in 1 .. Len(h) PROVE h[i] \in H
    <3>1. i \in 1 .. Len(s) /\ h[i] = s[i] /\ s[i] \in S
      BY <1>4 DEF Lists
    <3>2. i = at \/ i < at
      BY <1>4
    <3>3. i < at => Before(r, s[i], s[at])
      BY <3>1 DEF Lists
    <3> QED BY <1>2, <1>5, <3>1, <3>2, <3>3
  <2>3. ASSUME NEW x \in H PROVE \E i \in 1 .. Len(h) : h[i] = x
    <3>1. x \in S /\ (x = c \/ Before(r, x, c))
      BY <1>5
    <3>2. PICK i \in 1 .. Len(s) : s[i] = x
      BY <3>1 DEF Lists
    <3>3. i = at \/ i < at
      BY <1>2, <3>1, <3>2, ListPlaces
    <3>4. i \in 1 .. at
      BY <1>1, <3>3
    <3> QED BY <1>4, <3>2, <3>4
  <2> QED BY <1>4, <2>1, <2>2, <2>3 DEF Lists
<1>7. G \in SUBSET S /\ G \in SUBSET Int /\ H \in SUBSET S /\ H \in SUBSET Int
  BY <1>5 DEF Follow
<1>8. AllBefore(r, H, G)
  <2> SUFFICES ASSUME NEW x \in H, NEW z \in G PROVE Before(r, x, z)
    BY DEF AllBefore
  <2>1. Before(r, c, z)
    BY <1>2 DEF Follow
  <2>2. x = c \/ Before(r, x, c)
    BY <1>5
  <2>3. x \in Int /\ z \in Int
    BY <1>7
  <2> QED BY <2>1, <2>2, <2>3, BeforeOrder
<1>9. PICK y : y = h \o g
  OBVIOUS
<1>10. Lists(r, y, H \cup G)
  BY <1>6, <1>8, <1>9, ListConcat
<1>11. AllBefore(r, H \cup G, S \ (H \cup G))
  <2> SUFFICES ASSUME NEW x \in H \cup G, NEW z \in S, z \notin H, z \notin G PROVE Before(r, x, z)
    BY DEF AllBefore
  <2>1. z \in Int /\ z # c /\ ~Before(r, z, c)
    BY <1>5
  <2>2. Before(r, c, z)
    BY <2>1, BeforeOrder
  <2>3. \A u \in G : Before(r, u, z)
    BY <1>2, <2>2 DEF Follow
  <2>4. x \in Int
    BY <1>7
  <2>5. CASE x \in H
    <3>1. x = c \/ Before(r, x, c)
      BY <1>5, <2>5
    <3> QED BY <2>1, <2>2, <2>4, <3>1, BeforeOrder
  <2> QED BY <2>3, <2>5
<1>12. H \cup G \subseteq S
  BY <1>7
<1>13. Len(y) <= Len(s) /\ \A i \in 1 .. Len(y) : i \in 1 .. Len(s) /\ s[i] = y[i]
  BY <1>10, <1>11, <1>12, ListPrefix
<1>14. /\ Len(y) = Len(h) + Len(g)
       /\ \A i \in 1 .. Len(g) : y[Len(h) + i] = g[i]
  <2>1. PICK X : X = Int /\ h \in Seq(X) /\ g \in Seq(X)
    BY <1>1, <1>4
  <2> QED BY <1>9, <2>1, Joined
<1>15. ASSUME NEW i \in 1 .. Len(g) PROVE at + i \in 1 .. Len(s) /\ s[at + i] = g[i]
  <2>1. at + i \in 1 .. Len(y)
    BY <1>1, <1>4, <1>14
  <2> QED BY <1>4, <1>13, <1>14, <2>1
<1> QED BY <1>1, <1>15

\* The last element of a list.
LEMMA ListLast ==
  ASSUME NEW r \in BOOLEAN, NEW s, NEW S \in SUBSET Int, Lists(r, s, S), NEW at \in 1 .. Len(s),
         \A x \in S : ~Before(r, s[at], x)
  PROVE  at = Len(s)
<1>1. Len(s) \in Nat /\ Len(s) \in 1 .. Len(s) /\ at <= Len(s)
  BY DEF Lists
<1>2. CASE at < Len(s)
  <2>1. Before(r, s[at], s[Len(s)]) /\ s[Len(s)] \in S
    BY <1>1, <1>2 DEF Lists
  <2> QED BY <2>1
<1> QED BY <1>1, <1>2

\* The beginnings of the buckets the reply has.
Starts == BucketsOf(q, Sel)
Order == ReplyOrder(q, Starts)

\* Whether a bucket is one of them.
LEMMA StartsAre ==
  ASSUME q \in Queries
  PROVE  /\ Starts \in SUBSET Int /\ IsFiniteSet(Starts)
         /\ \A b \in Int : b \in Starts <=>
              IF q.empty THEN /\ Aligned(b)
                              /\ \E t, u \in Sel : Start(t) <= b /\ b <= Start(u)
              ELSE \E t \in Sel : b = Start(t)
<1>1. Sel \in SUBSET Time /\ MaxTime \in Nat
  BY SelFinite, GridOK DEF Sel
<1>2. \A t \in Sel : t \in Time /\ Start(t) \in Int /\ Start(t) \in -MaxTime - 1 .. MaxTime
  BY <1>1, StartIs
<1>3. PICK st : st = {Start(t) : t \in Sel}
  OBVIOUS
<1>4. Starts = IF q.empty
               THEN {b \in -MaxTime - 1 .. MaxTime :
                       (\E c, d \in st : c <= b /\ b <= d) /\ (b - q.align) % q.delta = 0}
               ELSE st
  BY <1>3 DEF Starts, BucketsOf, Start
<1>5. st \in SUBSET (-MaxTime - 1 .. MaxTime)
  BY <1>2, <1>3
<1>6. Starts \in SUBSET (-MaxTime - 1 .. MaxTime)
  BY <1>4, <1>5
<1>7. IsFiniteSet(Starts)
  <2>1. -MaxTime - 1 \in Int /\ MaxTime \in Int
    BY <1>1
  <2>2. IsFiniteSet(-MaxTime - 1 .. MaxTime)
    BY <2>1, FS_Interval
  <2> QED BY <1>6, <2>2, FS_Subset
<1>8. ASSUME NEW b \in Int
      PROVE b \in Starts <=>
              IF q.empty THEN Aligned(b) /\ \E t, u \in Sel : Start(t) <= b /\ b <= Start(u)
              ELSE \E t \in Sel : b = Start(t)
  <2>1. CASE ~q.empty
    BY <1>3, <1>4, <2>1
  <2>2. CASE q.empty
    <3>1. Aligned(b) <=> (b - q.align) % q.delta = 0
      BY AlignedIs
    <3>2. (\E c, d \in st : c <= b /\ b <= d) <=> (\E t, u \in Sel : Start(t) <= b /\ b <= Start(u))
      BY <1>3
    <3>3. (\E t, u \in Sel : Start(t) <= b /\ b <= Start(u)) => b \in -MaxTime - 1 .. MaxTime
      <4> SUFFICES ASSUME NEW t \in Sel, NEW u \in Sel, Start(t) <= b, b <= Start(u)
                   PROVE  b \in -MaxTime - 1 .. MaxTime
        OBVIOUS
      <4>1. PICK c \in Int, d \in Int : c = Start(t) /\ d = Start(u) /\ -MaxTime - 1 <= c /\ d <= MaxTime
        BY <1>2
      <4> QED BY <1>1, <4>1
    <3> QED BY <1>4, <2>2, <3>1, <3>2, <3>3
  <2> QED BY <2>1, <2>2
<1>9. Starts \in SUBSET Int
  BY <1>6
<1> QED BY <1>7, <1>8, <1>9

\* They are listed in order, and every selected sample has its bucket among them.
LEMMA OrderLists ==
  ASSUME q \in Queries
  PROVE  /\ Lists(q.reverse, Order, Starts) /\ Order \in Seq(Int) /\ Len(Order) \in Nat
         /\ \A t \in Sel : t \in Time /\ Start(t) \in Starts
         /\ \A b \in Starts : b \in Int /\ Aligned(b) /\ \E t \in Sel : b = Start(t) \/ b <= Start(t)
<1>1. Starts \in SUBSET Int /\ IsFiniteSet(Starts) /\ q.reverse \in BOOLEAN
  BY StartsAre, GridOK
<1>2. Lists(q.reverse, Order, Starts)
  BY <1>1, ReplyOrderLists DEF Order
<1>3. Order \in Seq(Int) /\ Len(Order) \in Nat
  BY <1>2 DEF Lists
<1>4. Sel \in SUBSET Time
  BY SelFinite DEF Sel
<1>5. ASSUME NEW t \in Sel PROVE t \in Time /\ Start(t) \in Starts
  <2>1. t \in Time /\ Start(t) \in Int /\ Aligned(Start(t))
    BY <1>4, StartIs
  <2>2. Start(t) <= Start(t)
    BY <2>1
  <2> QED BY <2>1, <2>2, StartsAre
<1>6. ASSUME NEW b \in Starts PROVE b \in Int /\ Aligned(b) /\ \E t \in Sel : b = Start(t) \/ b <= Start(t)
  <2>1. b \in Int
    BY <1>1
  <2>2. CASE q.empty
    BY <2>1, <2>2, StartsAre
  <2>3. CASE ~q.empty
    <3>1. PICK t \in Sel : b = Start(t)
      BY <2>1, <2>3, StartsAre
    <3>2. Aligned(Start(t))
      BY <1>5, StartIs
    <3> QED BY <2>1, <3>1, <3>2
  <2> QED BY <2>1, <2>2, <2>3
<1> QED BY <1>2, <1>3, <1>5, <1>6

\* The samples of a bucket, in order.
LEMMA ContentLists ==
  ASSUME q \in Queries, NEW S \in SUBSET Sel, NEW b
  PROVE  /\ Lists(q.reverse, ReplyOrder(q, InBucketAt(q, S, b)), InBucketAt(q, S, b))
         /\ ReplyOrder(q, InBucketAt(q, S, b)) \in Seq(Time)
<1>1. PICK T : T = InBucketAt(q, S, b)
  OBVIOUS
<1>2. T \in SUBSET Sel
  BY <1>1 DEF InBucketAt
<1>3. Sel \in SUBSET Time /\ T \in SUBSET Int /\ IsFiniteSet(T) /\ q.reverse \in BOOLEAN
  BY <1>2, SelFinite, GridOK DEF Sel
<1>4. Lists(q.reverse, ReplyOrder(q, T), T)
  BY <1>3, ReplyOrderLists
<1>5. T \in SUBSET Time
  BY <1>2, <1>3
<1>6. ReplyOrder(q, T) \in Seq(Time)
  BY <1>3, <1>4, <1>5, ListOfTimes
<1> QED BY <1>1, <1>4, <1>6

\* What a query with an aggregation is answered.
LEMMA AggFull ==
  ASSUME q \in Queries, q.agg # "none"
  PROVE  /\ Full \in Seq(Sent) /\ Len(Full) = Len(Order)
         /\ \A i \in 1 .. Len(Order) :
              Full[i] = Bucket(q, Max0(Order[i]), ReplyOrder(q, InBucketAt(q, Sel, Order[i])))
<1>1. Order \in Seq(Int) /\ Len(Order) \in Nat /\ DOMAIN Order = 1 .. Len(Order)
  BY OrderLists
<1>2. PICK f : f = Full
  OBVIOUS
<1>3. f = [i \in 1 .. Len(Order) |-> Bucket(q, Max0(Order[i]), ReplyOrder(q, InBucketAt(q, Sel, Order[i])))]
  <2>1. f = [i \in DOMAIN Order |-> Bucket(q, Max0(Order[i]), ReplyOrder(q, InBucketAt(q, Sel, Order[i])))]
    BY <1>2 DEF Full, Reported, Order, Starts
  <2> QED BY <1>1, <2>1
<1>4. ASSUME NEW i \in 1 .. Len(Order)
      PROVE Bucket(q, Max0(Order[i]), ReplyOrder(q, InBucketAt(q, Sel, Order[i]))) \in Sent
  <2>1. PICK b \in Starts : b = Order[i]
    BY OrderLists DEF Lists
  <2>2. PICK t \in Sel : b = Start(t) \/ b <= Start(t)
    BY OrderLists
  <2>3. t \in Time /\ b \in Int
    BY <2>2, OrderLists
  <2>4. Start(t) \in Int /\ Start(t) <= MaxTime /\ MaxTime \in Nat
    BY <2>3, StartIs, GridOK
  <2>5. Max0(b) \in 0 .. MaxTime
    BY <2>2, <2>3, <2>4 DEF Max0
  <2>6. Max0(b) \in Time
    BY <2>5 DEF Time
  <2>7. ReplyOrder(q, InBucketAt(q, Sel, b)) \in Seq(Time)
    BY ContentLists
  <2> QED BY <2>1, <2>6, <2>7, BucketSent
<1>5. f \in [1 .. Len(Order) -> Sent]
  BY <1>3, <1>4
<1>6. f \in Seq(Sent) /\ Len(f) = Len(Order)
  BY <1>1, <1>5, FunctionIsSeq
<1> QED BY <1>2, <1>3, <1>6

----------------------------------------------------------------------------
(***************************************************************************)
(* The empty buckets between two others, once more: which ones they are.   *)
(***************************************************************************)
\* The beginning of the k-th bucket behind the one at c.
Along(c, k) == IF q.reverse THEN c - (q.delta * k) ELSE c + (q.delta * k)

\* Buckets along the grid are in order, and all that are in order are along it.
LEMMA AlongGrid ==
  ASSUME q \in Queries, NEW c \in Int, Aligned(c)
  PROVE  /\ \A k \in Int : Along(c, k) \in Int /\ Aligned(Along(c, k))
         /\ \A i, j \in Int : Before(q.reverse, Along(c, i), Along(c, j)) <=> i < j
         /\ Along(c, 0) = c
         /\ \A b \in Int : Aligned(b) /\ Before(q.reverse, c, b) => \E k \in Nat \ {0} : b = Along(c, k)
<1>1. PICK d \in Nat \ {0}, r \in BOOLEAN : d = q.delta /\ r = q.reverse
  BY GridOK
<1>2. \A k \in Int : Along(c, k) = IF r THEN c - (d * k) ELSE c + (d * k)
  BY <1>1 DEF Along
<1>3. \A k \in Int : d * k \in Int /\ d * (0 - k) = 0 - (d * k)
  OBVIOUS
<1>4. ASSUME NEW k \in Int PROVE Along(c, k) \in Int /\ Aligned(Along(c, k))
  <2>1. CASE ~r
    <3>1. d * k \in Int /\ Aligned(c + (d * k))
      BY <1>1, AlignedSteps
    <3> QED BY <1>2, <2>1, <3>1
  <2>2. CASE r
    <3>1. 0 - k \in Int
      OBVIOUS
    <3>2. Aligned(c + (d * (0 - k)))
      BY <1>1, <3>1, AlignedSteps
    <3>3. c + (d * (0 - k)) = c - (d * k) /\ d * k \in Int
      BY <1>3
    <3> QED BY <1>2, <2>2, <3>2, <3>3
  <2> QED BY <2>1, <2>2
<1>5. ASSUME NEW i \in Int, NEW j \in Int, i < j PROVE Before(r, Along(c, i), Along(c, j))
  <2>1. (d * i) + d <= d * j /\ d * i \in Int /\ d * j \in Int
    BY <1>5, Multiples
  <2> QED BY <1>2, <2>1 DEF Before
<1>6. ASSUME NEW i \in Int, NEW j \in Int, Before(r, Along(c, i), Along(c, j)) PROVE i < j
  <2>1. CASE j < i
    <3>1. Before(r, Along(c, j), Along(c, i))
      BY <1>5, <2>1
    <3> QED BY <1>4, <1>6, <3>1, BeforeOrder
  <2>2. CASE i = j
    BY <1>4, <1>6, <2>2, BeforeOrder
  <2> QED BY <2>1, <2>2
<1>7. Along(c, 0) = c
  <2>1. d * 0 = 0
    OBVIOUS
  <2> QED BY <1>2, <2>1
<1>8. ASSUME NEW b \in Int, Aligned(b), Before(r, c, b) PROVE \E k \in Nat \ {0} : b = Along(c, k)
  <2>1. CASE r
    <3>1. b < c
      BY <1>8, <2>1 DEF Before
    <3>2. PICK k \in Nat \ {0} : c = b + (d * k)
      BY <1>1, <1>8, <3>1, AlignedApart
    <3>3. d * k \in Int
      OBVIOUS
    <3>4. b = c - (d * k)
      BY <3>2, <3>3
    <3>5. k \in Int /\ Along(c, k) = c - (d * k)
      BY <1>2, <2>1
    <3> QED BY <3>4, <3>5
  <2>2. CASE ~r
    <3>1. c < b
      BY <1>8, <2>2 DEF Before
    <3>2. PICK k \in Nat \ {0} : b = c + (d * k)
      BY <1>1, <1>8, <3>1, AlignedApart
    <3>3. k \in Int /\ Along(c, k) = c + (d * k)
      BY <1>2, <2>2
    <3> QED BY <3>2, <3>3
  <2> QED BY <2>1, <2>2
<1> QED BY <1>1, <1>4, <1>5, <1>6, <1>7, <1>8

\* The buckets strictly between two others.
Between(c, b) == {x \in Int : Aligned(x) /\ Before(q.reverse, c, x) /\ Before(q.reverse, x, b)}

\* They are listed by counting up to them.
LEMMA AlongLists ==
  ASSUME q \in Queries, NEW c \in Int, Aligned(c), NEW n \in Nat,
         NEW g, g = [i \in 1 .. n |-> Along(c, i)], NEW b, b = Along(c, n + 1)
  PROVE  Lists(q.reverse, g, Between(c, b)) /\ Len(g) = n
<1>1. /\ \A k \in Int : Along(c, k) \in Int /\ Aligned(Along(c, k))
      /\ \A i, j \in Int : Before(q.reverse, Along(c, i), Along(c, j)) <=> i < j
      /\ Along(c, 0) = c
      /\ \A x \in Int : Aligned(x) /\ Before(q.reverse, c, x) => \E k \in Nat \ {0} : x = Along(c, k)
  BY AlongGrid
<1>2. g \in [1 .. n -> Int]
  BY <1>1
<1>3. g \in Seq(Int) /\ Len(g) = n /\ \A i \in 1 .. n : g[i] = Along(c, i)
  BY <1>2, FunctionIsSeq
<1>4. \A i, j \in 1 .. Len(g) : i < j => Before(q.reverse, g[i], g[j])
  BY <1>1, <1>3
<1>5. ASSUME NEW i \in 1 .. Len(g) PROVE g[i] \in Between(c, b)
  <2>1. i \in Int /\ 0 \in Int /\ n + 1 \in Int /\ 0 < i /\ i < n + 1
    BY <1>3
  <2>2. Before(q.reverse, c, Along(c, i)) /\ Before(q.reverse, Along(c, i), b)
    BY <1>1, <2>1
  <2> QED BY <1>1, <1>3, <2>1, <2>2 DEF Between
<1>6. ASSUME NEW x \in Between(c, b) PROVE \E i \in 1 .. Len(g) : g[i] = x
  <2>1. PICK k \in Nat \ {0} : x = Along(c, k)
    BY <1>1 DEF Between
  <2>2. k < n + 1
    <3>1. k \in Int /\ n + 1 \in Int
      OBVIOUS
    <3>2. Before(q.reverse, Along(c, k), Along(c, n + 1))
      BY <2>1 DEF Between
    <3> QED BY <1>1, <3>1, <3>2
  <2>3. k \in 1 .. n
    BY <2>2
  <2> QED BY <1>3, <2>1, <2>3
<1> QED BY <1>3, <1>4, <1>5, <1>6 DEF Lists

\* How often d goes into a multiple of it.
LEMMA DivExact ==
  ASSUME NEW d \in Nat \ {0}, NEW m \in Int
  PROVE  (d * m) \div d = m
<1>1. PICK x \in Int : x = d * m
  OBVIOUS
<1>2. PICK y \in Int, r \in 0 .. d - 1 : y = x \div d /\ x = (d * y) + r
  <2>1. x % d \in 0 .. d - 1 /\ x \div d \in Int /\ x = (d * (x \div d)) + (x % d)
    OBVIOUS
  <2> QED BY <2>1
<1>3. d * y \in Int
  OBVIOUS
<1>4. ~(m < y)
  <2> SUFFICES ASSUME m < y PROVE FALSE
    OBVIOUS
  <2>1. (d * m) + d <= d * y
    BY Multiples
  <2> QED BY <1>1, <1>2, <1>3, <2>1
<1>5. ~(y < m)
  <2> SUFFICES ASSUME y < m PROVE FALSE
    OBVIOUS
  <2>1. (d * y) + d <= d * m
    BY Multiples
  <2> QED BY <1>1, <1>2, <1>3, <2>1
<1>6. m = y
  BY <1>4, <1>5
<1> QED BY <1>1, <1>2, <1>6

\* EMPTY: the code computes the buckets between c and the new one.
LEMMA GapAlong ==
  ASSUME q \in Queries, q.empty, NEW c \in Int, Aligned(c), scope \in 1 .. MaxTime + q.delta, scope = c + q.delta,
         NEW k \in Nat, NEW new, new = Along(c, k + 1), IF q.reverse THEN 0 < new + q.delta ELSE new <= MaxTime
  PROVE  EmptyBuckets(new) = [i \in 1 .. k |-> Along(c, i)]
<1>1. PICK d \in Nat \ {0}, r \in BOOLEAN, e \in Nat : d = q.delta /\ r = q.reverse /\ e = scope /\ e >= 1 /\ e = c + d
  BY GridOK
<1>2. d * k \in Int /\ d * (k + 1) = (d * k) + d /\ d * k >= 0 /\ d * (k + 1) \in Int
  OBVIOUS
<1>3. new = (IF r THEN c - ((d * k) + d) ELSE c + ((d * k) + d)) /\ new \in Int
  <2>1. new = IF r THEN c - (d * (k + 1)) ELSE c + (d * (k + 1))
    BY <1>1 DEF Along
  <2> QED BY <1>2, <2>1
<1>4. CASE k = 0
  <2>1. d * k = 0
    BY <1>4
  <2>2. EmptyBuckets(new) = <<>>
    <3>1. CASE r
      <4>1. new = c - d
        BY <1>2, <1>3, <2>1, <3>1
      <4>2. ~(e >= (new + d) + 2 * d)
        BY <1>1, <4>1
      <4> QED BY <1>1, <3>1, <4>2 DEF EmptyBuckets
    <3>2. CASE ~r
      <4>1. new = c + d
        BY <1>2, <1>3, <2>1, <3>2
      <4>2. ~(e < new)
        BY <1>1, <4>1
      <4> QED BY <1>1, <3>2, <4>2 DEF EmptyBuckets
    <3> QED BY <3>1, <3>2
  <2>3. 1 .. k = {}
    BY <1>4
  <2>4. [i \in 1 .. k |-> Along(c, i)] = <<>>
    BY <2>3
  <2> QED BY <2>2, <2>4
<1>5. CASE k # 0
  <2>1. PICK m \in Nat : k = m + 1
    <3>1. k - 1 \in Nat /\ k = (k - 1) + 1
      BY <1>5
    <3> QED BY <3>1
  <2>2. PICK dm \in Nat : dm = d * m /\ dm \div d = m /\ d * k = dm + d
    <3>1. d * m \in Nat /\ d * (m + 1) = (d * m) + d
      OBVIOUS
    <3> QED BY <2>1, <3>1, DivExact
  <2>3. new = IF r THEN c - (dm + 2 * d) ELSE c + (dm + 2 * d)
    BY <1>3, <2>2
  <2>4. ASSUME NEW i \in 1 .. k
        PROVE  Along(c, i) = IF r THEN (c - d) + (i - 1) * (-d) ELSE e + (i - 1) * d
    <3>1. PICK j \in Nat : i = j + 1 /\ i - 1 = j
      <4>1. i - 1 \in Nat /\ i = (i - 1) + 1
        BY <2>1
      <4> QED BY <4>1
    <3>2. d * i = (d * j) + d /\ d * j \in Int /\ j * d = d * j /\ j * (-d) = 0 - (d * j)
      BY <3>1
    <3>3. Along(c, i) = IF r THEN c - (d * i) ELSE c + (d * i)
      BY <1>1 DEF Along
    <3> QED BY <1>1, <3>1, <3>2, <3>3
  <2>5. CASE r
    <3>1. Max0(e - 2 * d) = c - d
      <4>1. 0 < new + d
        BY <1>1, <2>5
      <4>2. c - d >= 0 /\ e - 2 * d = c - d
        BY <1>1, <2>3, <2>5, <4>1
      <4> QED BY <4>2 DEF Max0
    <3>2. (c - d) - (new + d) = dm /\ e >= (new + d) + 2 * d
      BY <1>1, <2>3, <2>5
    <3>3. EmptyBuckets(new) = [i \in 1 .. dm \div d + 1 |-> (c - d) + (i - 1) * (-d)]
      BY <1>1, <2>5, <3>1, <3>2 DEF EmptyBuckets
    <3>4. EmptyBuckets(new) = [i \in 1 .. k |-> (c - d) + (i - 1) * (-d)]
      BY <2>1, <2>2, <3>3
    <3> QED BY <2>4, <2>5, <3>4
  <2>6. CASE ~r
    <3>1. Max0(new - d) = new - d
      <4>1. new - d >= 0
        BY <1>1, <2>3, <2>6
      <4> QED BY <1>3, <4>1 DEF Max0
    <3>2. (new - d) - e = dm /\ e < new
      BY <1>1, <2>3, <2>6
    <3>3. EmptyBuckets(new) = [i \in 1 .. dm \div d + 1 |-> e + (i - 1) * d]
      BY <1>1, <2>6, <3>1, <3>2 DEF EmptyBuckets
    <3>4. EmptyBuckets(new) = [i \in 1 .. k |-> e + (i - 1) * d]
      BY <2>1, <2>2, <3>3
    <3> QED BY <2>4, <2>6, <3>4
  <2> QED BY <2>5, <2>6
<1> QED BY <1>4, <1>5

\* fillEmptyBuckets: the buckets strictly between the one that ends and the one that begins
\* are reported with EMPTY, and none without.
THEOREM GapExact ==
  ASSUME q \in Queries, NEW c \in Int, Aligned(c), scope \in 1 .. MaxTime + q.delta, scope = c + q.delta,
         NEW new \in Int, Aligned(new), Before(q.reverse, c, new),
         IF q.reverse THEN 0 < new + q.delta ELSE new <= MaxTime
  PROVE  Lists(q.reverse, EmptyBuckets(new), IF q.empty THEN Between(c, new) ELSE {})
<1>1. CASE q.empty
  <2>1. PICK m \in Nat \ {0} : new = Along(c, m)
    BY AlongGrid
  <2>2. PICK k \in Nat : m = k + 1
    <3>1. m - 1 \in Nat /\ m = (m - 1) + 1
      OBVIOUS
    <3> QED BY <3>1
  <2>3. new = Along(c, k + 1)
    BY <2>1, <2>2
  <2>4. EmptyBuckets(new) = [i \in 1 .. k |-> Along(c, i)]
    BY <1>1, <2>3, GapAlong
  <2>5. Lists(q.reverse, EmptyBuckets(new), Between(c, new))
    BY <2>3, <2>4, AlongLists
  <2> QED BY <1>1, <2>5
<1>2. CASE ~q.empty
  <2>1. EmptyBuckets(new) = <<>>
    BY <1>2 DEF EmptyBuckets
  <2>2. Lists(q.reverse, <<>>, {})
    BY DEF Lists
  <2> QED BY <1>2, <2>1, <2>2
<1> QED BY <1>1, <1>2

----------------------------------------------------------------------------
(***************************************************************************)
(* The inductive invariant of the answer.  Without an aggregation the      *)
(* reply lists the samples that are done with.  With one it is the         *)
(* beginning of the full reply: the buckets sent, then the ones in the     *)
(* buffer, and At is the index of the current one, whose samples are in    *)
(* the context.                                                            *)
(***************************************************************************)
PlainInv == ~open /\ pc # "loop" /\ PlainOf(reply, Done)

\* The index of the current bucket in the full reply; what was sent and written is right.
At == Len(reply) + written + 1
Correct ==
  /\ \A i \in 1 .. Len(reply) : reply[i] = Full[i]
  /\ \A i \in 1 .. written : Cell(buf, i - 1) = Full[Len(reply) + i]
\* The bucket at c has a sample that was read, or the first sample is about to be read.
Entered(c) ==
  \/ \E p \in Done : Start(p) = c
  \/ Done = {} /\ pc = "loop" /\ unread # <<>> /\ Start(unread[1].ts) = c
\* The iterator's idea of it: only the first bucket of a forward query, and the last one in
\* reverse, may begin before 0.
Window(c) ==
  /\ bucket.initialized /\ bucket.start = Max0(c)
  /\ scope # NoScope => scope = c + q.delta \/ (q.reverse /\ c < 0)
  /\ ~q.reverse /\ (written > 0 \/ scope = NoScope) => c >= 0
\* The aggregation is in the bucket that begins at c.
Running(c) ==
  /\ open /\ At \in 1 .. Len(Order) /\ Order[At] = c
  /\ Correct /\ Entered(c) /\ Window(c)
  /\ \A p \in Done : Start(p) = c \/ Before(q.reverse, Start(p), c)
  /\ Lists(q.reverse, ctx, InBucketAt(q, Done, c))
\* It has not seen a sample yet, or has sent its last bucket.
Unstarted ==
  /\ ~open /\ ~bucket.initialized /\ scope = NoScope /\ ctx = <<>> /\ reply = <<>>
  /\ Done = {} /\ pc # "loop"
Finished == ~open /\ scope = NoScope /\ reply = Full /\ Rest = {} /\ Held = {} /\ pc # "loop"
AggInv == (\E c \in Int : Running(c)) \/ Unstarted \/ Finished

\* A query that is being answered, and one that is done.
Active ==
  /\ InputInv /\ Len(reply) < q.count
  /\ IF q.agg = "none" THEN PlainInv ELSE AggInv
Sane == ~LatestDeviates(q) /\ ~displaced /\ pc \notin {"undefined", "failed"}
AnswerInv == Sane => IF pc = "done" THEN reply = Answer(q) ELSE Active

\* What is computed from the query only.
LEMMA SameQuery ==
  ASSUME q' = q
  PROVE  /\ Sel' = Sel /\ Full' = Full /\ Starts' = Starts /\ Order' = Order
         /\ Answer(q)' = Answer(q) /\ LatestDeviates(q)' = LatestDeviates(q)
         /\ \A t : Start(t)' = Start(t)
         /\ \A s, S : PlainOf(s, S)' = PlainOf(s, S)
BY DEF Sel, Full, Starts, Order, Start, PlainOf, Stamps

\* COUNT cuts the full reply.
LEMMA AnswerIs == Answer(q) = Cut(Full, q.count)
BY DEF Answer, Cut, Full, Sel

\* The input is used up, or all that was in the buffer is.
LEMMA BufferDone ==
  ASSUME InputInv, UNCHANGED <<q, iterators>>, Held' = {}, pc' = "fetch" \/ (pc' = "end" /\ Rest = {})
  PROVE  InputInv' /\ Rest' = Rest /\ Done' = Sel \ Rest
<1>1. Sel' = Sel /\ Rest' = Rest /\ q' = q /\ chunks' = chunks /\ latest' = latest /\ wanted' = wanted
  BY DEF Sel, Rest, Chained, iterators
<1>2. Done' = Sel \ Rest
  BY <1>1 DEF Done
<1>3. WantedInv' /\ Chain(q, chunks)' /\ (latest' => q'.latest)
  <2>1. WantedInv'
    BY <1>1 DEF InputInv, WantedInv, Increasing, Range
  <2>2. Chain(q, chunks) /\ (latest => q.latest)
    BY DEF InputInv
  <2> QED BY <1>1, <2>1, <2>2
<1>4. AllBefore(q.reverse, Sel \ Rest, Rest)' /\ AllBefore(q.reverse, Done, Held)'
  BY <1>1 DEF InputInv, AllBefore
<1>5. pc' # "chunk" /\ (pc' = "end" => Rest' = {}) /\ Held' \subseteq Sel' \ Rest'
  BY <1>1
<1> QED BY <1>1, <1>2, <1>3, <1>4, <1>5 DEF InputInv

\* Outside the loop the state of the aggregation says as much after a step that leaves
\* it alone as before.
LEMMA AggKept ==
  ASSUME AggInv, UNCHANGED <<q, reply, written, scope, bucket, ctx, open>>, written = 0,
         pc # "loop", pc' # "loop", Done' = Done, Finished => Rest' = {} /\ Held' = {}
  PROVE  AggInv'
<1>1. Sel' = Sel /\ Full' = Full /\ Order' = Order /\ \A t : Start(t)' = Start(t)
  BY SameQuery
<1>2. ASSUME NEW c \in Int, Running(c) PROVE Running(c)'
  <2>1. Correct'
    <3>1. \A i \in 1 .. Len(reply) : reply[i] = Full[i]
      BY <1>2 DEF Running, Correct
    <3>2. 1 .. written' = {}
      OBVIOUS
    <3> QED BY <1>1, <3>1, <3>2 DEF Correct
  <2>2. Entered(c)'
    BY <1>1, <1>2 DEF Running, Entered
  <2>3. Window(c)'
    BY <1>2 DEF Running, Window
  <2>4. (\A p \in Done : Start(p) = c \/ Before(q.reverse, Start(p), c))'
    BY <1>1, <1>2 DEF Running
  <2>5. Lists(q.reverse, ctx, InBucketAt(q, Done, c))'
    BY <1>2 DEF Running
  <2>6. open' /\ At' = At /\ At \in 1 .. Len(Order) /\ Order[At] = c
    BY <1>2 DEF Running, At
  <2> QED BY <1>1, <2>1, <2>2, <2>3, <2>4, <2>5, <2>6 DEF Running
<1>3. Unstarted => Unstarted'
  BY DEF Unstarted
<1>4. Finished => Finished'
  BY <1>1 DEF Finished
<1>5. (\E c \in Int : Running(c)) => (\E c \in Int : Running(c)')
  BY <1>2
<1> QED BY <1>3, <1>4, <1>5 DEF AggInv

\* Reading on.
LEMMA InputActive ==
  ASSUME IndInv, IndInv', Active, pc = "fetch", pc' \in {"fetch", "chunk", "end"}, InputStep,
         UNCHANGED <<q, aggregation, reply>>
  PROVE  Active'
<1>1. /\ q' = q /\ reply' = reply /\ written' = written /\ scope' = scope /\ bucket' = bucket /\ ctx' = ctx
      /\ open' = open /\ pc' # "loop" /\ pc # "loop"
  BY DEF aggregation
<1>2. InputInv' /\ Done' = Done /\ Held' = Rest \ Rest'
  BY DEF InputStep
<1>3. /\ Sel' = Sel /\ Full' = Full /\ Order' = Order /\ \A t : Start(t)' = Start(t)
      /\ \A s, S : PlainOf(s, S)' = PlainOf(s, S)
  BY <1>1, SameQuery
<1>4. written = 0
  BY <1>1 DEF IndInv, BucketInv
<1>5. CASE q.agg = "none"
  <2>1. PlainInv
    BY <1>5 DEF Active
  <2>2. PlainInv'
    BY <1>1, <1>2, <1>3, <2>1 DEF PlainInv
  <2> QED BY <1>1, <1>2, <1>5, <2>2 DEF Active
<1>6. CASE q.agg # "none"
  <2>1. AggInv /\ Len(reply) < q.count
    BY <1>6 DEF Active
  <2>2. Finished => Rest' = {} /\ Held' = {}
    <3> SUFFICES ASSUME Finished PROVE Rest' = {} /\ Held' = {}
      OBVIOUS
    <3>1. Done = Sel
      BY DEF Finished, Done
    <3>2. Rest' \subseteq Sel'
      BY DEF Rest
    <3>3. Done' = Sel' \ (Rest' \cup Held')
      BY DEF Done
    <3>4. Held' \subseteq Sel'
      BY <1>2 DEF InputInv
    <3> QED BY <1>2, <1>3, <3>1, <3>2, <3>3, <3>4
  <2>3. AggInv'
    BY <1>1, <1>2, <1>4, <2>1, <2>2, AggKept
  <2> QED BY <1>1, <1>2, <1>6, <2>1, <2>3 DEF Active
<1> QED BY <1>5, <1>6

----------------------------------------------------------------------------
(***************************************************************************)
(* Queries without an aggregation.                                         *)
(***************************************************************************)
\* A chunk is sent.
LEMMA ReplyChunkAnswer ==
  ASSUME IndInv, Active, ReplyChunk
  PROVE  IF pc' = "done" THEN reply' = Answer(q)' ELSE Active'
<1>1. /\ pc = "chunk" /\ q.agg = "none" /\ Reply(View(buf)) /\ UNCHANGED <<q, iterators>> /\ open' = open
      /\ q \in Queries /\ q \in Query
  BY QueryOK DEF ReplyChunk, aggregation, IndInv, TypeInv
<1>2. PICK s \in Seq(Sent) : s = View(buf) /\ Ordered(s)
  BY <1>1 DEF IndInv, ChunkInv
<1>3. PlainOf(s, Held)
  BY <1>1, <1>2, OrderedPlain DEF Held
<1>4. ~open /\ PlainOf(reply, Done) /\ InputInv /\ reply \in Seq(Sent)
  BY <1>1 DEF Active, PlainInv, IndInv, TypeInv
<1>5. /\ AllBefore(q.reverse, Done, Held) /\ AllBefore(q.reverse, Sel \ Rest, Rest)
      /\ Held \subseteq Sel \ Rest /\ Rest \subseteq Sel
  BY <1>4 DEF InputInv, Rest
<1>6. PICK S : S = Sel \ Rest
  OBVIOUS
<1>7. Done \cup Held = S /\ S \subseteq Sel /\ Sel \ S = Rest
  BY <1>5, <1>6 DEF Done
<1>8. PlainOf(reply \o s, S)
  BY <1>1, <1>3, <1>4, <1>5, <1>7, PlainConcat
<1>9. PICK full \in Seq(Sent) : full = Full /\ PlainOf(full, Sel)
  BY <1>1, PlainFull DEF PlainOf
<1>10. AllBefore(q.reverse, S, Sel \ S)
  BY <1>5, <1>6, <1>7
<1>11. Begins(reply \o s, full)
  BY <1>1, <1>7, <1>8, <1>9, <1>10, PlainBegins
<1>12. Reply(s)
  BY <1>1, <1>2
<1>13. \/ pc' = "fetch" /\ reply' = reply \o s /\ Len(reply') < q.count
       \/ pc' = "done" /\ reply' = Cut(full, q.count)
  BY <1>1, <1>4, <1>9, <1>11, <1>12, ReplySends
<1>14. CASE pc' = "done"
  <2>1. reply' = Answer(q)
    BY <1>9, <1>13, <1>14, AnswerIs
  <2> QED BY <1>1, <1>14, <2>1
<1>15. CASE pc' = "fetch"
  <2>1. Held' = {}
    BY <1>15 DEF Held
  <2>2. InputInv' /\ Done' = S
    BY <1>1, <1>4, <1>6, <1>15, <2>1, BufferDone
  <2>3. PlainOf(reply', Done')
    BY <1>8, <1>13, <1>15, <2>2
  <2>4. PlainOf(reply, Done)'
    BY <1>1, <2>3 DEF PlainOf, Stamps
  <2> QED BY <1>1, <1>4, <1>13, <1>15, <2>2, <2>4 DEF Active, PlainInv
<1> QED BY <1>13, <1>14, <1>15

----------------------------------------------------------------------------
(***************************************************************************)
(* The samples in the loop of the aggregation.                             *)
(***************************************************************************)
\* The order of the reply, as Ordered states it.
LEMMA OrderedBefore ==
  ASSUME q \in Queries, NEW s \in Seq(Sent), Ordered(s), NEW i \in 1 .. Len(s), NEW j \in 1 .. Len(s), i < j
  PROVE  Before(q.reverse, s[i].ts, s[j].ts)
BY DEF Ordered, Up, Down, Before

\* Samples are timestamps.
LEMMA OrderedTimes ==
  ASSUME NEW s \in Seq(Sent), Ordered(s)
  PROVE  \A i \in 1 .. Len(s) : s[i].ts \in Time /\ s[i] = Sample(s[i].ts) /\ s[i].ts \in Int
<1>1. \A i \in 1 .. Len(s) : s[i].ts \in Time /\ s[i] = Sample(s[i].ts)
  BY DEF Ordered, Up, Down, Samples
<1>2. \A t \in Time : t \in Int
  BY DEF Time
<1> QED BY <1>1, <1>2

\* The first m unread samples are read.
LEMMA Consumed ==
  ASSUME q \in Queries, InputInv, pc = "loop", pc' = "loop", UNCHANGED <<q, iterators>>,
         unread \in Seq(Sent), Ordered(unread), NEW m \in 1 .. Len(unread),
         unread' = SubSeq(unread, m + 1, Len(unread)),
         NEW T, T = {unread[i].ts : i \in 1 .. m}
  PROVE  /\ InputInv' /\ Done' = Done \cup T
         /\ T \subseteq Sel /\ AllBefore(q.reverse, Done, T)
<1>1. Sel' = Sel /\ Rest' = Rest /\ q' = q /\ chunks' = chunks /\ latest' = latest /\ wanted' = wanted
  BY DEF Sel, Rest, Chained, iterators
<1>2. PICK u : u = unread
  OBVIOUS
<1>3. u \in Seq(Sent) /\ Ordered(u) /\ Len(u) \in Nat /\ m \in 1 .. Len(u)
  BY <1>2
<1>4. PICK U : U = {u[i].ts : i \in m + 1 .. Len(u)}
  OBVIOUS
<1>5. Held = T \cup U
  <2>1. Held = {u[i].ts : i \in 1 .. Len(u)}
    BY <1>2 DEF Held, Times
  <2>2. \A i : i \in 1 .. Len(u) <=> i \in 1 .. m \/ i \in m + 1 .. Len(u)
    BY <1>3
  <2> QED BY <1>2, <1>4, <2>1, <2>2
<1>6. Held' = U
  <2>1. PICK v : v = SubSeq(u, m + 1, Len(u))
    OBVIOUS
  <2>2. m + 1 \in Nat \ {0} /\ Len(u) \in Int /\ Len(u) <= Len(u)
    BY <1>3
  <2>3. /\ v \in Seq(Sent) /\ Len(v) = IF m + 1 <= Len(u) THEN Len(u) - (m + 1) + 1 ELSE 0
        /\ \A i \in 1 .. Len(v) : (m + 1) + i - 1 \in 1 .. Len(u) /\ v[i] = u[(m + 1) + i - 1]
    BY <1>3, <2>1, <2>2, Slice
  <2>4. Len(v) = Len(u) - m
    BY <1>3, <2>3
  <2>5. Held' = {v[i].ts : i \in 1 .. Len(v)}
    BY <1>2, <2>1 DEF Held, Times
  <2>6. ASSUME NEW i \in 1 .. Len(v) PROVE v[i].ts \in U
    <3>1. (m + 1) + i - 1 \in m + 1 .. Len(u)
      BY <1>3, <2>4
    <3> QED BY <1>4, <2>3, <3>1
  <2>7. ASSUME NEW x \in U PROVE \E i \in 1 .. Len(v) : v[i].ts = x
    <3>1. PICK j \in m + 1 .. Len(u) : u[j].ts = x
      BY <1>4
    <3>2. PICK i \in 1 .. Len(v) : (m + 1) + i - 1 = j
      <4>1. j - m \in 1 .. Len(v) /\ (m + 1) + (j - m) - 1 = j
        BY <1>3, <2>4
      <4> QED BY <4>1
    <3> QED BY <2>3, <3>1, <3>2
  <2> QED BY <2>5, <2>6, <2>7
<1>7. AllBefore(q.reverse, T, U)
  <2> SUFFICES ASSUME NEW i \in 1 .. m, NEW j \in m + 1 .. Len(u) PROVE Before(q.reverse, u[i].ts, u[j].ts)
    BY <1>2, <1>4 DEF AllBefore
  <2>1. i \in 1 .. Len(u) /\ j \in 1 .. Len(u) /\ i < j
    BY <1>3
  <2> QED BY <1>3, <2>1, OrderedBefore
<1>8. T \cap U = {}
  <2> SUFFICES ASSUME NEW x \in T, x \in U PROVE FALSE
    OBVIOUS
  <2>1. Before(q.reverse, x, x)
    BY <1>7 DEF AllBefore
  <2>2. PICK i \in 1 .. Len(u) : x = u[i].ts
    BY <1>2, <1>3
  <2>3. x \in Int /\ q.reverse \in BOOLEAN
    BY <1>3, <2>2, OrderedTimes, GridOK
  <2> QED BY <2>1, <2>3, BeforeOrder
<1>9. /\ Held \subseteq Sel \ Rest /\ AllBefore(q.reverse, Sel \ Rest, Rest) /\ AllBefore(q.reverse, Done, Held)
      /\ Chain(q, chunks) /\ (latest => q.latest) /\ WantedInv
  BY DEF InputInv
<1>10. Done' = Done \cup T
  BY <1>1, <1>5, <1>6, <1>8, <1>9 DEF Done
<1>11. AllBefore(q.reverse, Done \cup T, U) /\ AllBefore(q.reverse, Done, T)
  BY <1>5, <1>7, <1>9 DEF AllBefore
<1>12. WantedInv'
  BY <1>1, <1>9 DEF WantedInv, Increasing, Range
<1>13. InputInv'
  <2>1. Chain(q, chunks)' /\ (latest' => q'.latest)
    BY <1>1, <1>9
  <2>2. Held' \subseteq Sel' \ Rest'
    BY <1>1, <1>5, <1>6, <1>9
  <2>3. AllBefore(q'.reverse, Sel' \ Rest', Rest') /\ AllBefore(q'.reverse, Done', Held')
    BY <1>1, <1>6, <1>9, <1>10, <1>11
  <2> QED BY <1>12, <2>1, <2>2, <2>3 DEF InputInv, AllBefore
<1> QED BY <1>5, <1>9, <1>10, <1>11, <1>13

\* The next sample comes behind the ones that are done with, and before all others.
LEMMA NextSample ==
  ASSUME q \in Queries, InputInv, NEW s \in Seq(Sent), Ordered(s), s # <<>>, Held = Times(s),
         NEW t, t = s[1].ts
  PROVE  /\ t \in Sel /\ t \in Time /\ t \notin Done
         /\ \A p \in Done : Before(q.reverse, p, t)
         /\ \A p \in Sel : p \in Done \/ p = t \/ Before(q.reverse, t, p)
<1>1. Len(s) \in Nat /\ 1 \in 1 .. Len(s) /\ q.reverse \in BOOLEAN
  BY EmptySeq, GridOK
<1>2. t \in Time /\ t \in Int
  BY <1>1, OrderedTimes
<1>3. t \in Held
  BY <1>1 DEF Times
<1>4. /\ Held \subseteq Sel \ Rest /\ AllBefore(q.reverse, Sel \ Rest, Rest) /\ AllBefore(q.reverse, Done, Held)
  BY DEF InputInv
<1>5. t \in Sel /\ t \notin Done
  BY <1>3, <1>4 DEF Done
<1>6. \A p \in Done : Before(q.reverse, p, t)
  BY <1>3, <1>4 DEF AllBefore
<1>7. ASSUME NEW p \in Sel, p \notin Done PROVE p = t \/ Before(q.reverse, t, p)
  <2>1. p \in Rest \/ p \in Held
    BY <1>7 DEF Done
  <2>2. CASE p \in Rest
    BY <1>3, <1>4, <2>2 DEF AllBefore
  <2>3. CASE p \in Held
    <3>1. PICK i \in 1 .. Len(s) : p = s[i].ts
      BY <2>3 DEF Times
    <3>2. CASE i = 1
      BY <3>1, <3>2
    <3>3. CASE i # 1
      <4>1. 1 < i
        BY <1>1, <3>3
      <4> QED BY <1>1, <3>1, <4>1, OrderedBefore
    <3> QED BY <3>2, <3>3
  <2> QED BY <2>1, <2>2, <2>3
<1> QED BY <1>2, <1>5, <1>6, <1>7

----------------------------------------------------------------------------
(***************************************************************************)
(* The current bucket.                                                     *)
(***************************************************************************)
\* The current bucket is one of the reply.
LEMMA CurrentBucket ==
  ASSUME IndInv, NEW c, Running(c)
  PROVE  /\ q \in Queries /\ c \in Starts /\ c \in Int /\ Aligned(c)
         /\ At \in 1 .. Len(Order) /\ Order[At] = c /\ Len(Order) \in Nat /\ At \in Nat
<1>1. q \in Queries /\ At \in 1 .. Len(Order) /\ Order[At] = c
  BY DEF IndInv, TypeInv, Running
<1>2. Lists(q.reverse, Order, Starts) /\ Len(Order) \in Nat
  BY <1>1, OrderLists
<1>3. c \in Starts
  BY <1>1, <1>2 DEF Lists
<1>4. c \in Int /\ Aligned(c)
  BY <1>1, <1>3, OrderLists
<1>5. At \in Nat
  BY <1>1, <1>2
<1> QED BY <1>1, <1>2, <1>3, <1>4, <1>5

\* A sample that does not end the current bucket belongs to it.
LEMMA StaysInBucket ==
  ASSUME q \in Queries, NEW c \in Int, Aligned(c), Window(c), scope # NoScope,
         NEW w \in Time, Start(w) = c, NEW u \in Time, u = w \/ Before(q.reverse, w, u), ~EndsBucket(u)
  PROVE  Start(u) = c
<1>1. c <= w /\ w < c + q.delta /\ w \in Int /\ u \in Int /\ q.delta \in Nat /\ q.reverse \in BOOLEAN
  BY StartIs, GridOK
<1>2. CASE q.reverse
  <2>1. ~(u < Max0(c)) /\ u <= w
    BY <1>1, <1>2 DEF EndsBucket, Window, Before
  <2>2. c <= u /\ u < c + q.delta
    BY <1>1, <2>1 DEF Max0
  <2> QED BY <2>2, SameStart
<1>3. CASE ~q.reverse
  <2>1. scope = c + q.delta /\ ~(u >= scope) /\ w <= u
    BY <1>1, <1>3 DEF EndsBucket, Window, Before
  <2>2. c <= u /\ u < c + q.delta
    BY <1>1, <2>1
  <2> QED BY <2>2, SameStart
<1> QED BY <1>1, <1>2, <1>3

\* A sample that ends it begins a later one.
LEMMA LeavesBucket ==
  ASSUME q \in Queries, NEW c \in Int, Aligned(c), Window(c), scope \in 1 .. MaxTime + q.delta, scope # NoScope,
         NEW t \in Time, EndsBucket(t), NEW new, new = Start(t)
  PROVE  /\ new \in Int /\ Aligned(new) /\ Before(q.reverse, c, new) /\ scope = c + q.delta
         /\ IF q.reverse THEN 0 < new + q.delta ELSE new <= MaxTime
         /\ ~q.reverse => new >= 0
<1>1. /\ new \in Int /\ Aligned(new) /\ t \in Nat /\ t <= MaxTime /\ new <= t /\ t < new + q.delta
      /\ q.delta \in Nat /\ q.reverse \in BOOLEAN /\ MaxTime \in Nat
  <2>1. /\ new \in Int /\ Aligned(new) /\ new <= t /\ t < new + q.delta
    BY StartIs
  <2>2. q.delta \in Nat /\ q.reverse \in BOOLEAN /\ MaxTime \in Nat
    BY GridOK
  <2>3. t \in Nat /\ t <= MaxTime
    BY <2>2 DEF Time
  <2> QED BY <2>1, <2>2, <2>3
<1>2. CASE q.reverse
  <2>1. t < Max0(c)
    BY <1>2 DEF EndsBucket, Window
  <2>2. c > 0 /\ t < c
    BY <1>1, <2>1 DEF Max0
  <2>3. scope = c + q.delta
    BY <1>2, <2>2 DEF Window
  <2>4. new < c /\ 0 < new + q.delta
    BY <1>1, <2>2
  <2> QED BY <1>1, <1>2, <2>3, <2>4 DEF Before
<1>3. CASE ~q.reverse
  <2>1. t >= scope /\ scope = c + q.delta /\ scope >= 1
    BY <1>1, <1>3 DEF EndsBucket, Window
  <2>2. c < new
    BY <1>1, <2>1
  <2>3. c + q.delta <= new
    BY <1>1, <2>2, AlignedApart
  <2>4. new <= MaxTime /\ new >= 0
    BY <1>1, <2>1, <2>3
  <2> QED BY <1>1, <1>3, <2>1, <2>2, <2>4 DEF Before
<1> QED BY <1>1, <1>2, <1>3

\* The samples D are done with, t is the next one: D has no sample behind the bucket c,
\* and the others have none before the bucket new.
Parted(D, t, c, new) ==
  /\ \A p \in D : p \in Time /\ (Start(p) = c \/ Before(q.reverse, Start(p), c))
  /\ \A p \in Sel : p \in D \/ Start(p) = new \/ Before(q.reverse, new, Start(p))

\* The next sample t in the order of the query begins the bucket new.
LEMMA Parts ==
  ASSUME q \in Queries, NEW D \in SUBSET Sel, NEW t \in Sel, NEW c, NEW new, new = Start(t),
         \A p \in D : Start(p) = c \/ Before(q.reverse, Start(p), c),
         \A p \in Sel : p \in D \/ p = t \/ Before(q.reverse, t, p)
  PROVE  Parted(D, t, c, new)
<1>1. \A p \in Sel : p \in Time
  BY OrderLists
<1>2. ASSUME NEW p \in Sel, p \notin D PROVE Start(p) = new \/ Before(q.reverse, new, Start(p))
  <2>1. CASE p = t
    BY <2>1
  <2>2. CASE Before(q.reverse, t, p)
    BY <1>1, <2>2, StartOrder
  <2> QED BY <1>2, <2>1, <2>2
<1> QED BY <1>1, <1>2 DEF Parted

\* Then the bucket c is complete, no bucket between has a sample, and the bucket new has
\* only t among the samples so far.
Separated(D, t, c, new) ==
  /\ InBucketAt(q, Sel, c) = InBucketAt(q, D, c)
  /\ \A b \in Int : Before(q.reverse, c, b) /\ Before(q.reverse, b, new) => InBucketAt(q, Sel, b) = {}
  /\ InBucketAt(q, D \cup {t}, new) = {t}
  /\ \A p \in D \cup {t} : Start(p) = new \/ Before(q.reverse, Start(p), new)

\* The samples done with and the others part at a sample that begins a new bucket.
LEMMA PartedBuckets ==
  ASSUME q \in Queries, NEW D \in SUBSET Sel, NEW t \in Sel, t \notin D, NEW c \in Int, NEW new \in Int, new = Start(t),
         Parted(D, t, c, new), Before(q.reverse, c, new)
  PROVE  Separated(D, t, c, new)
<1>1. q.reverse \in BOOLEAN /\ \A p \in Sel : p \in Time /\ Start(p) \in Int
  BY GridOK, OrderLists, StartIs
<1>2. \A p \in D : Start(p) = c \/ Before(q.reverse, Start(p), c)
  BY DEF Parted
<1>3. \A p \in Sel : p \in D \/ Start(p) = new \/ Before(q.reverse, new, Start(p))
  BY DEF Parted
<1>4. \A S, b : InBucketAt(q, S, b) = {p \in S : Start(p) = b}
  BY DEF InBucketAt, Start
<1>5. ASSUME NEW p \in Sel, Start(p) = c PROVE p \in D
  BY <1>1, <1>3, <1>5, BeforeOrder
<1>6. ASSUME NEW b \in Int, Before(q.reverse, c, b), Before(q.reverse, b, new), NEW p \in Sel PROVE Start(p) # b
  <2> SUFFICES ASSUME Start(p) = b PROVE FALSE
    OBVIOUS
  <2>1. p \notin D
    BY <1>1, <1>2, <1>6, BeforeOrder
  <2> QED BY <1>1, <1>3, <1>6, <2>1, BeforeOrder
<1>7. ASSUME NEW p \in D PROVE Start(p) # new /\ Before(q.reverse, Start(p), new)
  BY <1>1, <1>2, BeforeOrder
<1>8. InBucketAt(q, Sel, c) = InBucketAt(q, D, c)
  BY <1>4, <1>5
<1>9. ASSUME NEW b \in Int, Before(q.reverse, c, b), Before(q.reverse, b, new) PROVE InBucketAt(q, Sel, b) = {}
  BY <1>4, <1>6, <1>9
<1>10. InBucketAt(q, D \cup {t}, new) = {t}
  BY <1>4, <1>7
<1> QED BY <1>7, <1>8, <1>9, <1>10 DEF Separated

\* The new bucket follows the current one in the reply, with the gap in between.
LEMMA GapFollows ==
  ASSUME q \in Queries, NEW D \in SUBSET Sel, NEW t \in Sel, NEW c \in Starts, NEW new \in Int, new = Start(t),
         Parted(D, t, c, new), Before(q.reverse, c, new), Aligned(new),
         NEW G, G = IF q.empty THEN Between(c, new) ELSE {}
  PROVE  Follow(q.reverse, Starts, c, G \cup {new}) /\ AllBefore(q.reverse, G, {new})
<1>1. q.reverse \in BOOLEAN /\ \A p \in Sel : p \in Time /\ Start(p) \in Int
  BY GridOK, OrderLists, StartIs
<1>2. c \in Int /\ new \in Starts
  BY OrderLists
<1>3. \A x \in G : x \in Int /\ Aligned(x) /\ Before(q.reverse, c, x) /\ Before(q.reverse, x, new)
  BY DEF Between
<1>4. ASSUME NEW x \in G PROVE x \in Starts
  <2>1. q.empty /\ x \in Int /\ Aligned(x) /\ Before(q.reverse, c, x) /\ Before(q.reverse, x, new)
    BY <1>3
  <2>2. PICK p \in Sel, u \in Sel : Start(p) <= c /\ c <= Start(u)
    BY <1>2, <2>1, StartsAre
  <2>3. PICK y \in Int, z \in Int : y = Start(p) /\ z = Start(u) /\ y <= c /\ c <= z
    BY <1>1, <2>2
  <2>4. \E a, b \in Sel : Start(a) <= x /\ x <= Start(b)
    <3>1. CASE q.reverse
      <4>1. x < c /\ new < x
        BY <2>1, <3>1 DEF Before
      <4>2. new <= x /\ x <= z
        BY <1>2, <2>1, <2>3, <4>1
      <4> QED BY <2>3, <4>2
    <3>2. CASE ~q.reverse
      <4>1. c < x /\ x < new
        BY <2>1, <3>2 DEF Before
      <4>2. y <= x /\ x <= new
        BY <1>2, <2>1, <2>3, <4>1
      <4> QED BY <2>3, <4>2
    <3> QED BY <1>1, <3>1, <3>2
  <2> QED BY <2>1, <2>4, StartsAre
<1>5. ASSUME NEW x \in Starts, Before(q.reverse, c, x), x \notin G, x # new
      PROVE  Before(q.reverse, new, x)
  <2>1. x \in Int /\ Aligned(x)
    BY OrderLists
  <2>2. CASE q.empty
    <3>1. ~Before(q.reverse, x, new)
      BY <1>5, <2>1, <2>2 DEF Between
    <3> QED BY <1>1, <1>5, <2>1, <3>1, BeforeOrder
  <2>3. CASE ~q.empty
    <3>1. PICK p \in Sel : x = Start(p)
      BY <2>1, <2>3, StartsAre
    <3>2. p \notin D
      BY <1>1, <1>2, <1>5, <3>1, BeforeOrder DEF Parted
    <3> QED BY <1>5, <3>1, <3>2 DEF Parted
  <2> QED BY <2>2, <2>3
<1>6. ASSUME NEW x \in Starts, Before(q.reverse, c, x), x \notin G \cup {new}, NEW z \in G \cup {new}
      PROVE  Before(q.reverse, z, x)
  <2>1. Before(q.reverse, new, x) /\ x \in Int
    BY <1>5, <1>6, OrderLists
  <2>2. z = new \/ (z \in Int /\ Before(q.reverse, z, new))
    BY <1>3
  <2> QED BY <1>1, <2>1, <2>2, BeforeOrder
<1>7. G \cup {new} \in SUBSET Starts /\ \A x \in G \cup {new} : Before(q.reverse, c, x)
  BY <1>2, <1>3, <1>4
<1>8. Follow(q.reverse, Starts, c, G \cup {new})
  BY <1>6, <1>7 DEF Follow
<1>9. AllBefore(q.reverse, G, {new})
  BY <1>3 DEF AllBefore
<1> QED BY <1>8, <1>9

\* A list of one.
LEMMA SingleLists ==
  ASSUME NEW r \in BOOLEAN, NEW x \in Int
  PROVE  Lists(r, <<x>>, {x}) /\ Len(<<x>>) = 1 /\ <<x>>[1] = x
<1>1. <<x>> \in Seq(Int) /\ Len(<<x>>) = 1 /\ <<x>>[1] = x
  OBVIOUS
<1>2. 1 .. Len(<<x>>) = {1}
  BY <1>1
<1> QED BY <1>1, <1>2 DEF Lists

\* In the loop there is a current bucket.
LEMMA LoopRuns ==
  ASSUME IndInv, Active, pc = "loop"
  PROVE  /\ q \in Queries /\ InputInv /\ Len(reply) < q.count /\ q.agg # "none" /\ scope # NoScope
         /\ \E c \in Int : Running(c) /\ c \in Starts /\ Aligned(c)
<1>1. q \in Queries /\ InputInv /\ Len(reply) < q.count /\ scope # NoScope
  BY DEF IndInv, TypeInv, BucketInv, Active
<1>2. q.agg # "none" /\ AggInv
  BY DEF Active, PlainInv
<1>3. PICK c \in Int : Running(c)
  BY <1>2 DEF AggInv, Unstarted, Finished
<1>4. c \in Starts /\ Aligned(c)
  BY <1>3, CurrentBucket
<1> QED BY <1>1, <1>2, <1>3, <1>4

----------------------------------------------------------------------------
(***************************************************************************)
(* Samples appended to the current bucket.                                 *)
(***************************************************************************)
\* What Appended takes from the buffer are the timestamps of the first m unread samples.
LEMMA AppendedIs ==
  ASSUME IndInv, pc = "loop", ~displaced, NEW ei \in si .. buf.num - 1, NEW m, m = (ei - si) + 1
  PROVE  /\ m \in 1 .. Len(unread) /\ unread \in Seq(Sent) /\ Ordered(unread)
         /\ Lists(q.reverse, Appended(si, ei), {unread[i].ts : i \in 1 .. m})
         /\ \A i \in 1 .. m : si + i - 1 \in si .. ei /\ Cell(buf, si + i - 1) = unread[i]
<1>1. Unread /\ si \in Nat /\ buf.num \in Nat /\ q \in Queries
  BY CapIs DEF IndInv, LoopInv, TypeInv, Buffer
<1>2. Len(unread) = buf.num - si /\ unread \in Seq(Sent) /\ Ordered(unread)
  BY <1>1 DEF Unread
<1>3. m \in Nat /\ m \in 1 .. Len(unread) /\ Len(unread) \in Nat
  BY <1>1, <1>2
<1>4. ASSUME NEW i \in 1 .. m PROVE si + i - 1 \in si .. ei /\ Cell(buf, si + i - 1) = unread[i] /\ i \in 1 .. Len(unread)
  <2>1. si + i - 1 \in si .. ei /\ i \in 1 .. Len(unread)
    BY <1>1, <1>3
  <2>2. unread[i] = Cell(buf, si + i - 1)
    BY <1>1, <2>1 DEF Unread
  <2> QED BY <2>1, <2>2
<1>5. PICK u \in Seq(Sent) : u = unread /\ Ordered(u)
  BY <1>2
<1>6. PICK a : a = Appended(si, ei)
  OBVIOUS
<1>7. a = [i \in 1 .. m |-> Head(Cell(buf, si + i - 1).val)]
  BY <1>1, <1>6 DEF Appended
<1>8. ASSUME NEW i \in 1 .. m PROVE a[i] = u[i].ts /\ u[i].ts \in Int
  <2>1. a[i] = Head(u[i].val)
    BY <1>4, <1>5, <1>7
  <2>2. u[i].ts \in Time /\ u[i] = Sample(u[i].ts) /\ u[i].ts \in Int
    BY <1>4, <1>5, OrderedTimes
  <2>3. u[i].val = <<u[i].ts>>
    BY <2>2, SampleSent
  <2> QED BY <2>1, <2>2, <2>3
<1>9. a \in Seq(Int) /\ Len(a) = m
  <2>1. a \in [1 .. m -> Int]
    BY <1>7, <1>8
  <2> QED BY <1>3, <2>1, FunctionIsSeq
<1>10. \A i, j \in 1 .. Len(a) : i < j => Before(q.reverse, a[i], a[j])
  <2> SUFFICES ASSUME NEW i \in 1 .. m, NEW j \in 1 .. m, i < j PROVE Before(q.reverse, u[i].ts, u[j].ts)
    BY <1>8, <1>9
  <2> QED BY <1>1, <1>4, <1>5, OrderedBefore
<1>11. Lists(q.reverse, a, {u[i].ts : i \in 1 .. m})
  BY <1>8, <1>9, <1>10 DEF Lists
<1> QED BY <1>2, <1>3, <1>4, <1>5, <1>6, <1>11

\* The samples up to ei join the current bucket in the context.
LEMMA AppendAnswer ==
  ASSUME IndInv, Active, InBucket, NEW ei \in si .. buf.num - 1, AppendTo(ei),
         \A i \in si .. ei : ~EndsBucket(Cell(buf, i).ts)
  PROVE  Active'
<1>1. pc = "loop" /\ ~displaced /\ si \in Nat /\ buf.num \in Nat /\ ei \in Int
  BY CapIs DEF InBucket, IndInv, TypeInv, Buffer
<1>2. PICK m \in Nat : m = (ei - si) + 1
  BY <1>1
<1>3. /\ m \in 1 .. Len(unread) /\ unread \in Seq(Sent) /\ Ordered(unread)
      /\ Lists(q.reverse, Appended(si, ei), {unread[i].ts : i \in 1 .. m})
      /\ \A i \in 1 .. m : si + i - 1 \in si .. ei /\ Cell(buf, si + i - 1) = unread[i]
  BY <1>1, <1>2, AppendedIs
<1>4. /\ q \in Queries /\ InputInv /\ Len(reply) < q.count /\ q.agg # "none" /\ scope # NoScope
  BY <1>1, LoopRuns
<1>5. PICK c \in Int : Running(c) /\ c \in Starts /\ Aligned(c)
  BY <1>1, LoopRuns
<1>6. PICK T : T = {unread[i].ts : i \in 1 .. m}
  OBVIOUS
<1>7. /\ ctx' = ctx \o Appended(si, ei) /\ unread' = SubSeq(unread, m + 1, Len(unread))
      /\ q' = q /\ pc' = pc /\ UNCHANGED <<q, iterators>> /\ buf' = buf /\ written' = written /\ scope' = scope
      /\ bucket' = bucket /\ open' = open /\ reply' = reply
  <2>1. ei - si + 2 = m + 1
    BY <1>1, <1>2
  <2> QED BY <2>1 DEF AppendTo
<1>8. /\ InputInv' /\ Done' = Done \cup T
      /\ T \subseteq Sel /\ AllBefore(q.reverse, Done, T)
  BY <1>1, <1>3, <1>4, <1>6, <1>7, Consumed
<1>9. /\ Sel' = Sel /\ Full' = Full /\ Order' = Order /\ \A t : Start(t)' = Start(t)
  BY <1>7, SameQuery
<1>10. Len(unread) \in Nat /\ 1 \in 1 .. m /\ 1 \in 1 .. Len(unread)
  BY <1>3
<1>11. PICK t \in Time : t = unread[1].ts /\ t \in T
  BY <1>3, <1>6, <1>10, OrderedTimes
<1>12. PICK w \in Time : Start(w) = c /\ \A u \in T : u = w \/ Before(q.reverse, w, u)
  <2>1. CASE \E p \in Done : Start(p) = c
    <3>1. PICK p \in Done : Start(p) = c
      BY <2>1
    <3>2. p \in Sel
      BY DEF Done
    <3>3. p \in Time
      BY <1>4, <3>2, OrderLists
    <3> QED BY <1>8, <3>1, <3>3 DEF AllBefore
  <2>2. CASE Start(t) = c
    <3>1. ASSUME NEW u \in T PROVE u = t \/ Before(q.reverse, t, u)
      <4>1. PICK i \in 1 .. m : u = unread[i].ts
        BY <1>6
      <4>2. i \in 1 .. Len(unread)
        BY <1>3, <1>10
      <4>3. i = 1 \/ 1 < i
        OBVIOUS
      <4> QED BY <1>3, <1>4, <1>10, <1>11, <4>1, <4>2, <4>3, OrderedBefore
    <3> QED BY <2>2, <3>1
  <2> QED BY <1>5, <1>11, <2>1, <2>2 DEF Running, Entered
<1>13. ASSUME NEW u \in T PROVE Start(u) = c
  <2>1. PICK i \in 1 .. m : u = unread[i].ts
    BY <1>6
  <2>2. ~EndsBucket(u)
    BY <1>3, <2>1
  <2>3. u \in Time
    BY <1>4, <1>8, OrderLists
  <2>4. Window(c)
    BY <1>5 DEF Running
  <2> QED BY <1>4, <1>5, <1>12, <2>2, <2>3, <2>4, StaysInBucket
<1>14. Running(c)'
  <2>1. open' /\ At' = At /\ At' \in 1 .. Len(Order') /\ Order'[At'] = c
    BY <1>5, <1>7, <1>9 DEF Running, At
  <2>2. Correct'
    BY <1>5, <1>7, <1>9 DEF Running, Correct, Cell
  <2>3. Entered(c)'
    <3>1. t \in Done' /\ Start(t)' = c
      BY <1>8, <1>9, <1>11, <1>13
    <3> QED BY <3>1 DEF Entered
  <2>4. Window(c)'
    BY <1>5, <1>7 DEF Running, Window
  <2>5. (\A p \in Done : Start(p) = c \/ Before(q.reverse, Start(p), c))'
    <3>1. \A p \in Done : Start(p) = c \/ Before(q.reverse, Start(p), c)
      BY <1>5 DEF Running
    <3> QED BY <1>7, <1>8, <1>9, <1>13, <3>1
  <2>6. Lists(q.reverse, ctx, InBucketAt(q, Done, c))'
    <3>1. InBucketAt(q, Done \cup T, c) = InBucketAt(q, Done, c) \cup T
      BY <1>13 DEF InBucketAt, Start
    <3>2. PICK I : I = InBucketAt(q, Done, c) /\ I \subseteq Done
      BY DEF InBucketAt
    <3>3. AllBefore(q.reverse, I, T)
      BY <1>8, <3>2 DEF AllBefore
    <3>4. Lists(q.reverse, ctx, I) /\ q.reverse \in BOOLEAN
      BY <1>4, <1>5, <3>2, GridOK DEF Running
    <3>5. Lists(q.reverse, ctx \o Appended(si, ei), I \cup T)
      BY <1>3, <1>6, <3>3, <3>4, ListConcat
    <3> QED BY <1>7, <1>8, <3>1, <3>2, <3>5
  <2> QED BY <2>1, <2>2, <2>3, <2>4, <2>5, <2>6 DEF Running
<1>15. AggInv'
  BY <1>14 DEF AggInv
<1> QED BY <1>4, <1>7, <1>8, <1>15 DEF Active

\* findLastIndexbeforeTS stops before the end of the bucket.
LEMMA LastIndexInBucket ==
  ASSUME IndInv, InBucket, Vectorized
  PROVE  /\ LastIndexBefore(scope) \in si .. buf.num - 1
         /\ \A i \in si .. LastIndexBefore(scope) : ~EndsBucket(Cell(buf, i).ts)
<1>1. pc = "loop" /\ ~displaced /\ ~q.reverse /\ si \in Nat /\ buf.num \in Nat /\ q \in Queries /\ scope \in Int
  BY CapIs, QueryOK DEF InBucket, Vectorized, IndInv, TypeInv, BucketInv, Buffer
<1>2. PICK e \in si .. buf.num - 1 : e = LastIndexBefore(scope) /\ Cell(buf, e).ts < scope
  BY LastIndexFound
<1>3. PICK m \in Nat : m = (e - si) + 1
  BY <1>1
<1>4. /\ m \in 1 .. Len(unread) /\ unread \in Seq(Sent) /\ Ordered(unread)
      /\ \A i \in 1 .. m : si + i - 1 \in si .. e /\ Cell(buf, si + i - 1) = unread[i]
  BY <1>1, <1>3, AppendedIs
<1>5. \A i \in 1 .. Len(unread) : unread[i].ts \in Int
  BY <1>4, OrderedTimes
<1>6. Len(unread) \in Nat /\ m \in 1 .. m /\ si + m - 1 = e
  BY <1>1, <1>3, <1>4
<1>7. unread[m].ts < scope
  BY <1>2, <1>4, <1>6
<1>8. ASSUME NEW i \in si .. e PROVE ~EndsBucket(Cell(buf, i).ts)
  <2>1. PICK k \in 1 .. m : si + k - 1 = i /\ k \in 1 .. Len(unread)
    <3>1. (i - si) + 1 \in 1 .. m /\ si + ((i - si) + 1) - 1 = i /\ (i - si) + 1 \in 1 .. Len(unread)
      BY <1>1, <1>3, <1>4, <1>6
    <3> QED BY <3>1
  <2>2. Cell(buf, i) = unread[k]
    BY <1>4, <2>1
  <2>3. unread[k].ts < scope
    <3>1. CASE k = m
      BY <1>7, <3>1
    <3>2. CASE k < m
      <4>1. unread[k].ts < unread[m].ts
        BY <1>1, <1>4, <2>1, <3>2 DEF Ordered, Up
      <4> QED BY <1>1, <1>4, <1>5, <1>7, <2>1, <4>1
    <3> QED BY <1>4, <3>1, <3>2
  <2>4. unread[k].ts \in Int
    BY <1>5, <2>1
  <2> QED BY <1>1, <2>2, <2>3, <2>4 DEF EndsBucket
<1> QED BY <1>2, <1>8

\* The two loops that append to the current bucket.
LEMMA AppendValueAnswer ==
  ASSUME IndInv, Active, AppendValue \/ AppendValueVec
  PROVE  Active' /\ pc' = "loop"
<1>1. CASE AppendValue
  <2>1. si \in Nat /\ buf.num \in Nat /\ InBucket /\ AppendTo(si) /\ si < buf.num /\ ~EndsBucket(Cell(buf, si).ts)
    BY <1>1, CapIs DEF AppendValue, InBucket, IndInv, TypeInv, Buffer
  <2>2. si \in si .. buf.num - 1 /\ si .. si = {si}
    BY <2>1
  <2>3. Active'
    BY <2>1, <2>2, AppendAnswer
  <2> QED BY <2>1, <2>3 DEF AppendTo, InBucket
<1>2. CASE AppendValueVec
  <2>1. InBucket /\ Vectorized /\ AppendTo(LastIndexBefore(scope))
    BY <1>2 DEF AppendValueVec
  <2>2. PICK e \in si .. buf.num - 1 : e = LastIndexBefore(scope) /\ \A i \in si .. e : ~EndsBucket(Cell(buf, i).ts)
    BY <2>1, LastIndexInBucket
  <2>3. AppendTo(e)
    BY <2>1, <2>2
  <2>4. Active'
    BY <2>1, <2>2, <2>3, AppendAnswer
  <2> QED BY <2>1, <2>3, <2>4 DEF AppendTo, InBucket
<1> QED BY <1>1, <1>2

----------------------------------------------------------------------------
(***************************************************************************)
(* A bucket ends.                                                          *)
(***************************************************************************)
\* In the full reply the current bucket is followed by the gap and the new one.
Ahead(at, c, cur, new, gap) ==
  /\ Full[at] = Bucket(q, Max0(c), cur)
  /\ \A i \in 1 .. Len(gap) : Full[at + i] = Bucket(q, gap[i], <<>>)
  /\ at + (Len(gap) + 1) \in 1 .. Len(Order) /\ Order[at + (Len(gap) + 1)] = new

\* A sample that ends the current bucket puts the gap and the new bucket behind it.
LEMMA GapAhead ==
  ASSUME q \in Queries, q.agg # "none", NEW D \in SUBSET Sel, NEW t \in Sel, t \notin D,
         NEW c \in Int, NEW new \in Int, new = Start(t), Aligned(new),
         Parted(D, t, c, new), Before(q.reverse, c, new),
         NEW at \in 1 .. Len(Order), Order[at] = c,
         NEW cur, Lists(q.reverse, cur, InBucketAt(q, D, c)),
         NEW gap \in Seq(Time), Lists(q.reverse, gap, IF q.empty THEN Between(c, new) ELSE {})
  PROVE  Ahead(at, c, cur, new, gap)
<1>1. /\ Lists(q.reverse, Order, Starts) /\ Len(Order) \in Nat /\ Starts \in SUBSET Int /\ q.reverse \in BOOLEAN
      /\ gap \in Seq(Int) /\ Len(gap) \in Nat
  <2>1. Lists(q.reverse, Order, Starts) /\ Len(Order) \in Nat
    BY OrderLists
  <2>2. Starts \in SUBSET Int /\ q.reverse \in BOOLEAN
    BY OrderLists, GridOK
  <2>3. gap \in Seq(Int)
    BY DEF Lists
  <2>4. Len(gap) \in Nat
    BY <2>3, LenProperties
  <2> QED BY <2>1, <2>2, <2>3, <2>4
<1>2. c \in Starts
  BY <1>1 DEF Lists
<1>3. PICK G : G = IF q.empty THEN Between(c, new) ELSE {}
  OBVIOUS
<1>4. Follow(q.reverse, Starts, c, G \cup {new}) /\ AllBefore(q.reverse, G, {new})
  BY <1>2, <1>3, GapFollows
<1>5. PICK g : g = gap \o <<new>>
  OBVIOUS
<1>6. Lists(q.reverse, g, G \cup {new})
  <2>1. Lists(q.reverse, <<new>>, {new})
    BY <1>1, SingleLists
  <2>2. Lists(q.reverse, gap, G)
    BY <1>3
  <2> QED BY <1>1, <1>4, <1>5, <2>1, <2>2, ListConcat
<1>7. /\ Len(g) = Len(gap) + 1 /\ g[Len(gap) + 1] = new
      /\ \A i \in 1 .. Len(gap) : g[i] = gap[i]
  <2>1. PICK X, z : X = Int /\ gap \in Seq(X) /\ z \in Seq(X) /\ z = <<new>> /\ Len(z) = 1 /\ z[1] = new
    <3>1. <<new>> \in Seq(Int) /\ Len(<<new>>) = 1 /\ <<new>>[1] = new
      OBVIOUS
    <3> QED BY <1>1, <3>1
  <2>2. /\ Len(g) = Len(gap) + Len(z)
        /\ \A i \in 1 .. Len(gap) : g[i] = gap[i]
        /\ \A i \in 1 .. Len(z) : g[Len(gap) + i] = z[i]
    BY <1>5, <2>1, Joined
  <2>3. 1 \in 1 .. Len(z)
    BY <2>1
  <2> QED BY <2>1, <2>2, <2>3
<1>8. \A i \in 1 .. Len(g) : at + i \in 1 .. Len(Order) /\ Order[at + i] = g[i]
  BY <1>1, <1>4, <1>6, ListFollow
<1>9. /\ InBucketAt(q, Sel, c) = InBucketAt(q, D, c)
      /\ \A b \in Int : Before(q.reverse, c, b) /\ Before(q.reverse, b, new) => InBucketAt(q, Sel, b) = {}
  <2>1. Separated(D, t, c, new)
    BY PartedBuckets
  <2> QED BY <2>1 DEF Separated
<1>10. \A i \in 1 .. Len(Order) : Full[i] = Bucket(q, Max0(Order[i]), ReplyOrder(q, InBucketAt(q, Sel, Order[i])))
  BY AggFull
<1>11. \A b : Lists(q.reverse, ReplyOrder(q, InBucketAt(q, Sel, b)), InBucketAt(q, Sel, b))
  BY ContentLists
<1>12. Full[at] = Bucket(q, Max0(c), cur)
  <2>1. ReplyOrder(q, InBucketAt(q, Sel, c)) = cur
    BY <1>1, <1>9, <1>11, ListUnique
  <2> QED BY <1>10, <2>1
<1>13. ASSUME NEW i \in 1 .. Len(gap) PROVE Full[at + i] = Bucket(q, gap[i], <<>>)
  <2>1. i \in 1 .. Len(g)
    BY <1>1, <1>7
  <2>2. at + i \in 1 .. Len(Order) /\ Order[at + i] = gap[i]
    BY <1>7, <1>8, <2>1
  <2>3. gap[i] \in Time /\ gap[i] \in G
    <3>1. gap[i] \in Time
      BY ElementOfSeq
    <3>2. gap[i] \in G
      BY <1>3 DEF Lists
    <3> QED BY <3>1, <3>2
  <2>4. gap[i] \in Int /\ Before(q.reverse, c, gap[i]) /\ Before(q.reverse, gap[i], new)
    BY <1>3, <2>3 DEF Between
  <2>5. InBucketAt(q, Sel, gap[i]) = {}
    BY <1>9, <2>4
  <2>6. Lists(q.reverse, <<>>, {})
    BY DEF Lists
  <2>7. ReplyOrder(q, InBucketAt(q, Sel, gap[i])) = <<>>
    BY <1>1, <1>11, <2>5, <2>6, ListUnique
  <2>8. Max0(gap[i]) = gap[i]
    BY <2>3, <2>4, TimeAssumption DEF Max0, Time
  <2> QED BY <1>10, <2>2, <2>7, <2>8
<1>14. at + (Len(gap) + 1) \in 1 .. Len(Order) /\ Order[at + (Len(gap) + 1)] = new
  <2>1. Len(gap) + 1 \in 1 .. Len(g)
    BY <1>1, <1>7
  <2> QED BY <1>7, <1>8, <2>1
<1> QED BY <1>12, <1>13, <1>14 DEF Ahead

\* The bucket and the empty ones behind it are the next ones of the reply.
LEMMA CloseBucketAnswer ==
  ASSUME IndInv, Active, CloseBucket, ~displaced'
  PROVE  Active' /\ pc' = "loop"
<1>a. PICK t \in Time : \E y \in Int : \E g \in Seq(Time) : Ended(t, y, g)
  BY CloseBucketInv
<1>b. PICK new \in Int, gap \in Seq(Time) : Ended(t, new, gap)
  BY <1>a
<1>1. /\ pc = "loop" /\ ~displaced /\ unread # <<>> /\ unread[1].ts = t /\ EndsBucket(t)
      /\ new = Start(t) /\ gap = EmptyBuckets(new)
      /\ written' = (written + 1) + Len(gap) /\ ctx' = <<t>> /\ scope' = new + q.delta
      /\ bucket'.start = Max0(new) /\ bucket'.initialized = bucket.initialized
      /\ unread' = SubSeq(unread, 2, Len(unread)) /\ UNCHANGED <<q, iterators>>
      /\ q' = q /\ pc' = pc /\ open' = open /\ reply' = reply
  BY <1>b DEF Ended, BucketStartNormalize, Start
<1>2. /\ \A i \in 0 .. written - 1 : Cell(buf', i) = Cell(buf, i)
      /\ Cell(buf', written) = Bucket(q, bucket.start, ctx)
      /\ \A i \in 1 .. Len(gap) : Cell(buf', written + i) = Bucket(q, gap[i], <<>>)
  BY <1>b DEF Ended
<1>3. /\ q \in Queries /\ InputInv /\ Len(reply) < q.count /\ q.agg # "none" /\ scope # NoScope
  BY <1>1, LoopRuns
<1>4. PICK c \in Int : Running(c) /\ c \in Starts /\ Aligned(c)
  BY <1>1, LoopRuns
<1>5. Unread /\ scope \in 1 .. MaxTime + q.delta /\ written \in Nat /\ reply \in Seq(Sent) /\ Len(reply) \in Nat /\ Len(gap) \in Nat
  BY <1>1, <1>3, CapIs DEF IndInv, LoopInv, TypeInv, BucketInv
<1>6. unread \in Seq(Sent) /\ Ordered(unread) /\ Len(unread) \in Nat /\ 1 \in 1 .. Len(unread)
  <2>1. unread \in Seq(Sent) /\ Ordered(unread)
    BY <1>5 DEF Unread
  <2> QED BY <1>1, <2>1, EmptySeq
<1>7. Window(c) /\ \A p \in Done : Start(p) = c \/ Before(q.reverse, Start(p), c)
  BY <1>4 DEF Running
<1>8. /\ new \in Int /\ Aligned(new) /\ Before(q.reverse, c, new) /\ scope = c + q.delta
      /\ IF q.reverse THEN 0 < new + q.delta ELSE new <= MaxTime
      /\ ~q.reverse => new >= 0
  BY <1>1, <1>3, <1>4, <1>5, <1>7, LeavesBucket
<1>9. /\ t \in Sel /\ t \notin Done
      /\ \A p \in Sel : p \in Done \/ p = t \/ Before(q.reverse, t, p)
  <2>1. Held = Times(unread)
    BY <1>1 DEF Held
  <2> QED BY <1>1, <1>3, <1>6, <2>1, NextSample
<1>10. PICK D \in SUBSET Sel : D = Done
  BY DEF Done
<1>11. Parted(D, t, c, new)
  BY <1>1, <1>3, <1>7, <1>9, <1>10, Parts
<1>12. Lists(q.reverse, gap, IF q.empty THEN Between(c, new) ELSE {})
  BY <1>1, <1>3, <1>4, <1>5, <1>8, GapExact
<1>13. PICK at \in 1 .. Len(Order) : at = At /\ Order[at] = c
  BY <1>4 DEF Running
<1>14. Lists(q.reverse, ctx, InBucketAt(q, D, c))
  BY <1>4, <1>10 DEF Running
<1>15. Ahead(at, c, ctx, new, gap)
  BY <1>1, <1>3, <1>8, <1>9, <1>10, <1>11, <1>12, <1>13, <1>14, GapAhead
<1>16. PICK l \in Nat, v \in Nat, n \in Nat : l = Len(reply) /\ v = written /\ n = Len(gap) /\ at = (l + v) + 1
  BY <1>5, <1>13 DEF At
<1>17. /\ Sel' = Sel /\ Full' = Full /\ Order' = Order /\ \A p : Start(p)' = Start(p)
  BY <1>1, SameQuery
<1>18. Correct'
  <2>1. \A i \in 1 .. Len(reply) : reply[i] = Full[i]
    BY <1>4 DEF Running, Correct
  <2>2. \A i \in 1 .. v : Cell(buf, i - 1) = Full[l + i]
    BY <1>4, <1>16 DEF Running, Correct
  <2>3. ASSUME NEW i \in 1 .. (v + 1) + n PROVE Cell(buf', i - 1) = Full[l + i]
    <3>1. CASE i \in 1 .. v
      <4>1. i - 1 \in 0 .. v - 1
        BY <1>16, <3>1
      <4> QED BY <1>2, <1>16, <2>2, <3>1, <4>1
    <3>2. CASE i = v + 1
      <4>1. i - 1 = v /\ l + i = at
        BY <1>16, <3>2
      <4>2. Cell(buf', v) = Bucket(q, Max0(c), ctx)
        BY <1>2, <1>7, <1>16 DEF Window
      <4> QED BY <1>15, <4>1, <4>2 DEF Ahead
    <3>3. CASE v + 1 < i
      <4>1. PICK j \in 1 .. n : i - 1 = v + j /\ l + i = at + j
        <5>1. i - (v + 1) \in 1 .. n /\ i - 1 = v + (i - (v + 1)) /\ l + i = at + (i - (v + 1))
          BY <1>16, <3>3
        <5> QED BY <5>1
      <4>2. Cell(buf', v + j) = Bucket(q, gap[j], <<>>)
        BY <1>2, <1>16, <4>1
      <4>3. Full[at + j] = Bucket(q, gap[j], <<>>)
        BY <1>15, <1>16 DEF Ahead
      <4> QED BY <4>1, <4>2, <4>3
    <3>4. i \in 1 .. v \/ i = v + 1 \/ v + 1 < i
      OBVIOUS
    <3> QED BY <3>1, <3>2, <3>3, <3>4
  <2>4. written' = (v + 1) + n /\ Len(reply') = l
    BY <1>1, <1>16
  <2> QED BY <1>1, <1>16, <1>17, <2>1, <2>3, <2>4 DEF Correct, Cell
<1>19. At' \in 1 .. Len(Order') /\ Order'[At'] = new
  <2>1. At' = at + (n + 1)
    <3>1. At' = Len(reply') + written' + 1
      BY DEF At
    <3> QED BY <1>1, <1>16, <3>1
  <2> QED BY <1>15, <1>16, <1>17, <2>1 DEF Ahead
<1>20. InputInv' /\ Done' = D \cup {t}
  <2>1. PICK m \in 1 .. Len(unread) : m = 1 /\ m + 1 = 2
    BY <1>6
  <2>2. PICK T : T = {unread[i].ts : i \in 1 .. m}
    OBVIOUS
  <2>3. InputInv' /\ Done' = Done \cup T
    BY <1>1, <1>3, <1>6, <2>1, <2>2, Consumed
  <2>4. T = {t}
    <3>1. 1 .. m = {1}
      BY <2>1
    <3> QED BY <1>1, <2>2, <3>1
  <2> QED BY <1>10, <2>3, <2>4
<1>21. /\ InBucketAt(q, D \cup {t}, new) = {t}
       /\ \A p \in D \cup {t} : Start(p) = new \/ Before(q.reverse, Start(p), new)
  <2>1. Separated(D, t, c, new)
    <3>1. q \in Queries /\ t \in Sel /\ t \notin D /\ new = Start(t)
      BY <1>1, <1>3, <1>9, <1>10
    <3> QED BY <1>8, <1>11, <3>1, PartedBuckets
  <2> QED BY <2>1 DEF Separated
<1>22. Entered(new)'
  <2>1. t \in Done' /\ Start(t)' = new
    BY <1>1, <1>17, <1>20
  <2> QED BY <2>1 DEF Entered
<1>23. Window(new)'
  <2>1. bucket'.initialized
    BY <1>1, <1>7 DEF Window
  <2> QED BY <1>1, <1>8, <2>1 DEF Window
<1>24. Lists(q.reverse, ctx, InBucketAt(q, Done, new))'
  <2>1. t \in Int /\ q.reverse \in BOOLEAN
    BY <1>3, GridOK, StartIs
  <2>2. Lists(q.reverse, <<t>>, {t})
    BY <2>1, SingleLists
  <2> QED BY <1>1, <1>20, <1>21, <2>2
<1>25. Running(new)'
  <2>1. open'
    BY <1>1, <1>4 DEF Running
  <2>2. (\A p \in Done : Start(p) = new \/ Before(q.reverse, Start(p), new))'
    BY <1>1, <1>17, <1>20, <1>21
  <2> QED BY <1>18, <1>19, <1>22, <1>23, <1>24, <2>1, <2>2 DEF Running
<1>26. AggInv'
  BY <1>25 DEF AggInv
<1> QED BY <1>1, <1>3, <1>20, <1>26 DEF Active

----------------------------------------------------------------------------
(***************************************************************************)
(* The first and the last bucket.                                          *)
(***************************************************************************)
\* Every bucket of the reply lies between two samples.
LEMMA StartsBetween ==
  ASSUME q \in Queries, NEW b \in Starts
  PROVE  b \in Int /\ \E t, u \in Sel : Start(t) \in Int /\ Start(u) \in Int /\ Start(t) <= b /\ b <= Start(u)
<1>1. b \in Int /\ \A p \in Sel : Start(p) \in Int
  BY OrderLists, StartIs
<1>2. CASE q.empty
  BY <1>1, <1>2, StartsAre
<1>3. CASE ~q.empty
  <2>1. PICK t \in Sel : b = Start(t)
    BY <1>1, <1>3, StartsAre
  <2>2. Start(t) \in Int /\ Start(t) <= b /\ b <= Start(t)
    BY <1>1, <2>1
  <2> QED BY <1>1, <2>2
<1> QED BY <1>2, <1>3

\* The bucket no sample comes before is the first one of the reply.
LEMMA StartsFirst ==
  ASSUME q \in Queries, NEW c \in Starts, \A p \in Sel : Start(p) = c \/ Before(q.reverse, c, Start(p))
  PROVE  1 \in 1 .. Len(Order) /\ Order[1] = c
<1>1. q.reverse \in BOOLEAN /\ c \in Int /\ Lists(q.reverse, Order, Starts)
  BY GridOK, OrderLists
<1>2. ASSUME NEW z \in Starts PROVE ~Before(q.reverse, z, c)
  <2>1. PICK t \in Sel, u \in Sel : Start(t) \in Int /\ Start(u) \in Int /\ Start(t) <= z /\ z <= Start(u)
    BY StartsBetween
  <2>2. z \in Int
    BY StartsBetween
  <2>3. /\ Start(t) = c \/ Before(q.reverse, c, Start(t))
        /\ Start(u) = c \/ Before(q.reverse, c, Start(u))
    OBVIOUS
  <2> QED BY <1>1, <2>1, <2>2, <2>3 DEF Before
<1> QED BY <1>1, <1>2, ListFirst

\* The bucket no sample comes behind is the last one.
LEMMA StartsLast ==
  ASSUME q \in Queries, NEW at \in 1 .. Len(Order), NEW c, c = Order[at],
         \A p \in Sel : Start(p) = c \/ Before(q.reverse, Start(p), c)
  PROVE  at = Len(Order)
<1>1. q.reverse \in BOOLEAN /\ Lists(q.reverse, Order, Starts) /\ Starts \in SUBSET Int
  BY GridOK, OrderLists
<1>2. c \in Starts /\ c \in Int
  BY <1>1 DEF Lists
<1>3. ASSUME NEW z \in Starts PROVE ~Before(q.reverse, c, z)
  <2>1. PICK t \in Sel, u \in Sel : Start(t) \in Int /\ Start(u) \in Int /\ Start(t) <= z /\ z <= Start(u)
    BY StartsBetween
  <2>2. z \in Int
    BY StartsBetween
  <2>3. /\ Start(t) = c \/ Before(q.reverse, Start(t), c)
        /\ Start(u) = c \/ Before(q.reverse, Start(u), c)
    OBVIOUS
  <2> QED BY <1>1, <1>2, <2>1, <2>2, <2>3 DEF Before
<1>4. \A z \in Starts : ~Before(q.reverse, Order[at], z)
  BY <1>3
<1> QED BY <1>1, <1>4, ListLast

----------------------------------------------------------------------------
(***************************************************************************)
(* A chunk enters the loop of the aggregation.                             *)
(***************************************************************************)
\* The samples in a chunk of the aggregation.
LEMMA ChunkHeld ==
  ASSUME IndInv, pc = "chunk"
  PROVE  /\ View(buf) \in Seq(Sent) /\ Ordered(View(buf)) /\ Held = Times(View(buf))
         /\ Len(View(buf)) = buf.num /\ buf.num \in Nat
         /\ buf.num = 0 <=> Held = {}
         /\ buf.num # 0 => View(buf) # <<>> /\ View(buf)[1] = Cell(buf, 0)
<1>1. buf \in Buffer /\ View(buf) \in Seq(Sent) /\ Ordered(View(buf))
  BY DEF IndInv, TypeInv, ChunkInv
<1>2. Len(View(buf)) = buf.num /\ buf.num \in Nat
  BY <1>1, CapIs, ViewIs DEF Buffer
<1>3. PICK s \in Seq(Sent) : s = View(buf)
  BY <1>1
<1>4. Held = {s[i].ts : i \in 1 .. Len(s)}
  BY <1>3 DEF Held, Times
<1>5. CASE buf.num = 0
  <2>1. 1 .. Len(s) = {}
    BY <1>2, <1>3, <1>5
  <2>2. Held = {}
    BY <1>4, <2>1
  <2> QED BY <1>1, <1>2, <1>3, <1>4, <1>5, <2>2 DEF Times
<1>6. CASE buf.num # 0
  <2>1. 1 \in 1 .. Len(s) /\ Len(s) # 0 /\ 1 \in 1 .. buf.num
    BY <1>2, <1>3, <1>6
  <2>2. Held # {}
    BY <1>4, <2>1
  <2>3. s # <<>>
    BY <2>1
  <2>4. View(buf)[1] = Cell(buf, 0)
    BY <2>1 DEF View
  <2> QED BY <1>1, <1>2, <1>3, <1>4, <1>6, <2>2, <2>3, <2>4 DEF Times
<1> QED BY <1>5, <1>6

\* A chunk without samples that counts as the end of the input.
LEMMA EmptyChunkAnswer ==
  ASSUME IndInv, Active, BeginChunk, scope = NoScope, buf.num = 0
  PROVE  Active' /\ pc' = "end"
<1>1. /\ pc = "chunk" /\ q.agg # "none" /\ pc' = "end" /\ UNCHANGED <<q, iterators>> /\ q' = q /\ reply' = reply
      /\ UNCHANGED <<q, reply, written, scope, bucket, ctx, open>> /\ written = 0
  BY DEF BeginChunk, IndInv, BucketInv
<1>2. InputInv /\ AggInv /\ Len(reply) < q.count
  BY <1>1 DEF Active
<1>3. Held = {} /\ Rest = {}
  BY <1>1, <1>2, ChunkHeld DEF InputInv
<1>4. Held' = {}
  BY <1>1 DEF Held
<1>5. InputInv' /\ Rest' = Rest /\ Done' = Sel \ Rest
  BY <1>1, <1>2, <1>3, <1>4, BufferDone
<1>6. Done' = Done
  BY <1>3, <1>5 DEF Done
<1>7. AggInv'
  BY <1>1, <1>2, <1>3, <1>4, <1>5, <1>6, AggKept
<1> QED BY <1>1, <1>2, <1>5, <1>7 DEF Active

\* BeginChunk with samples to read, or in the middle of a call.
Begun(start) ==
  /\ pc = "chunk" /\ q.agg # "none" /\ pc' = "loop" /\ written = 0 /\ written' = 0
  /\ UNCHANGED <<q, iterators>> /\ q' = q /\ reply' = reply /\ ctx' = ctx /\ open' = TRUE
  /\ scope' = (IF scope = NoScope THEN start + q.delta ELSE scope) /\ scope' # NoScope
  /\ bucket'.start = Max0(start) /\ bucket'.initialized = TRUE
  /\ unread' = View(buf)
  /\ bucket.initialized => start = bucket.start
  /\ ~bucket.initialized => start = Start(Cell(buf, 0).ts)

\* The code of the other branch.
LEMMA BeginIs ==
  ASSUME IndInv, BeginChunk, ~(scope = NoScope /\ buf.num = 0)
  PROVE  \E start : Begun(start)
<1>1. PICK start : start = IF bucket.initialized THEN bucket.start
                           ELSE CalcBucketStart(q, Cell(buf, 0).ts)
  OBVIOUS
<1>2. /\ pc = "chunk" /\ q.agg # "none" /\ pc' = "loop" /\ written' = written /\ open' = TRUE /\ unread' = View(buf)
      /\ UNCHANGED <<q, iterators>> /\ q' = q /\ reply' = reply /\ ctx' = ctx
      /\ scope' = (IF scope = NoScope THEN start + q.delta ELSE scope)
      /\ bucket' = [start |-> BucketStartNormalize(start), initialized |-> TRUE]
  BY <1>1 DEF BeginChunk
<1>3. bucket'.start = Max0(start) /\ bucket'.initialized = TRUE
  BY <1>2 DEF BucketStartNormalize
<1>4. scope' # NoScope
  BY <1>2, BeginChunkInv DEF IndInv, BucketInv
<1>5. written = 0
  BY <1>2 DEF IndInv, BucketInv
<1> QED BY <1>1, <1>2, <1>3, <1>4, <1>5 DEF Begun, Start

\* The samples stay where they are: the buffer is now read by the aggregation.
LEMMA BeginInput ==
  ASSUME IndInv, InputInv, NEW start, Begun(start)
  PROVE  InputInv' /\ Done' = Done
<1>1. /\ pc = "chunk" /\ pc' = "loop" /\ q' = q /\ chunks' = chunks /\ latest' = latest /\ wanted' = wanted
      /\ unread' = View(buf)
  BY DEF Begun, iterators
<1>2. Sel' = Sel /\ Rest' = Rest
  BY <1>1 DEF Sel, Rest, Chained
<1>3. Held' = Held
  BY <1>1 DEF Held, Times
<1>4. Done' = Done
  BY <1>2, <1>3 DEF Done
<1>5. /\ Held \subseteq Sel \ Rest /\ AllBefore(q.reverse, Sel \ Rest, Rest) /\ AllBefore(q.reverse, Done, Held)
      /\ Chain(q, chunks) /\ (latest => q.latest) /\ WantedInv
  BY DEF InputInv
<1>6. WantedInv'
  BY <1>1, <1>2, <1>5 DEF WantedInv, Increasing, Range
<1>7. Chain(q, chunks)' /\ (latest' => q'.latest)
  BY <1>1, <1>5
<1>8. Held' \subseteq Sel' \ Rest' /\ AllBefore(q.reverse, Sel \ Rest, Rest)' /\ AllBefore(q.reverse, Done, Held)'
  BY <1>1, <1>2, <1>3, <1>4, <1>5 DEF AllBefore
<1> QED BY <1>1, <1>4, <1>6, <1>7, <1>8 DEF InputInv

\* A chunk that goes on with the current bucket.
LEMMA BeginRunning ==
  ASSUME IndInv, InputInv, NEW start, Begun(start), NEW c \in Int, Running(c)
  PROVE  Running(c)'
<1>1. Done' = Done
  BY BeginInput
<1>2. q' = q /\ reply' = reply /\ ctx' = ctx /\ open' /\ written = 0 /\ written' = 0 /\ pc # "loop"
  BY DEF Begun
<1>3. Sel' = Sel /\ Full' = Full /\ Order' = Order /\ \A t : Start(t)' = Start(t)
  BY <1>2, SameQuery
<1>4. Correct'
  <2>1. \A i \in 1 .. Len(reply) : reply[i] = Full[i]
    BY DEF Running, Correct
  <2>2. 1 .. written' = {}
    BY <1>2
  <2> QED BY <1>2, <1>3, <2>1, <2>2 DEF Correct
<1>5. Entered(c)'
  BY <1>1, <1>2, <1>3 DEF Running, Entered
<1>6. Window(c)'
  <2>1. q.delta \in Nat /\ q.reverse \in BOOLEAN
    BY GridOK DEF IndInv, TypeInv
  <2>2. /\ bucket.initialized /\ bucket.start = Max0(c)
        /\ scope # NoScope => scope = c + q.delta \/ (q.reverse /\ c < 0)
        /\ ~q.reverse /\ scope = NoScope => c >= 0
    BY DEF Running, Window
  <2>3. start = Max0(c)
    BY <2>2 DEF Begun
  <2>4. bucket'.initialized /\ bucket'.start = Max0(c) /\ scope' # NoScope
    BY <2>3 DEF Begun, Max0
  <2>5. scope' = c + q.delta \/ (q.reverse /\ c < 0)
    <3>1. CASE scope = NoScope
      <4>1. scope' = Max0(c) + q.delta
        BY <2>3, <3>1 DEF Begun
      <4> QED BY <2>1, <2>2, <3>1, <4>1 DEF Max0
    <3>2. CASE scope # NoScope
      <4>1. scope' = scope
        BY <3>2 DEF Begun
      <4> QED BY <2>2, <3>2, <4>1
    <3> QED BY <3>1, <3>2
  <2> QED BY <1>2, <2>4, <2>5 DEF Window
<1>7. (\A p \in Done : Start(p) = c \/ Before(q.reverse, Start(p), c))'
  BY <1>1, <1>2, <1>3 DEF Running
<1>8. Lists(q.reverse, ctx, InBucketAt(q, Done, c))'
  BY <1>1, <1>2 DEF Running
<1>9. At' = At /\ At \in 1 .. Len(Order) /\ Order[At] = c
  BY <1>2 DEF Running, At
<1> QED BY <1>2, <1>3, <1>4, <1>5, <1>6, <1>7, <1>8, <1>9 DEF Running

\* The first chunk with samples: its first sample begins the first bucket of the reply.
LEMMA BeginFirst ==
  ASSUME IndInv, InputInv, NEW start, Begun(start), Unstarted, buf.num # 0
  PROVE  \E c \in Int : Running(c)'
<1>1. Done' = Done /\ Done = {}
  BY BeginInput DEF Unstarted
<1>2. q' = q /\ reply' = <<>> /\ ctx' = <<>> /\ open' /\ written' = 0 /\ pc' = "loop" /\ unread' = View(buf) /\ q \in Queries
  BY DEF Begun, Unstarted, IndInv, TypeInv
<1>3. Sel' = Sel /\ Full' = Full /\ Order' = Order /\ \A t : Start(t)' = Start(t)
  BY <1>2, SameQuery
<1>4. PICK s \in Seq(Sent) : s = View(buf) /\ Ordered(s) /\ s # <<>> /\ Held = Times(s) /\ s[1] = Cell(buf, 0)
  <2>1. pc = "chunk"
    BY DEF Begun
  <2> QED BY <2>1, ChunkHeld
<1>5. PICK t : t = s[1].ts
  OBVIOUS
<1>6. /\ t \in Sel /\ t \in Time
      /\ \A p \in Sel : p \in Done \/ p = t \/ Before(q.reverse, t, p)
  BY <1>2, <1>4, <1>5, NextSample
<1>7. PICK c \in Int : c = Start(t)
  BY <1>2, <1>6, StartIs
<1>8. c \in Starts /\ \A p \in Sel : p \in Time
  BY <1>2, <1>6, <1>7, OrderLists
<1>9. ASSUME NEW p \in Sel PROVE Start(p) = c \/ Before(q.reverse, c, Start(p))
  <2>1. p = t \/ Before(q.reverse, t, p)
    BY <1>1, <1>6
  <2> QED BY <1>2, <1>6, <1>7, <1>8, <2>1, StartOrder
<1>10. 1 \in 1 .. Len(Order) /\ Order[1] = c
  BY <1>2, <1>8, <1>9, StartsFirst
<1>11. Len(reply') = 0 /\ At' = 1
  BY <1>2 DEF At
<1>12. Correct'
  <2>1. 1 .. Len(reply') = {} /\ 1 .. written' = {}
    BY <1>2, <1>11
  <2> QED BY <2>1 DEF Correct
<1>13. Entered(c)'
  <2>1. Done' = {} /\ pc' = "loop" /\ unread' # <<>> /\ unread'[1].ts = t
    BY <1>1, <1>2, <1>4, <1>5
  <2>2. Start(t)' = c
    BY <1>3, <1>7
  <2>3. Start(unread[1].ts)' = c
    BY <1>2, <1>7, <2>1 DEF Start
  <2> QED BY <2>1, <2>3 DEF Entered
<1>14. Window(c)'
  <2>1. start = c /\ scope = NoScope
    BY <1>4, <1>5, <1>7 DEF Begun, Unstarted
  <2>2. bucket'.initialized /\ bucket'.start = Max0(c) /\ scope' = c + q.delta /\ scope' # NoScope
    BY <2>1 DEF Begun
  <2> QED BY <1>2, <2>2 DEF Window
<1>15. (\A p \in Done : Start(p) = c \/ Before(q.reverse, Start(p), c))'
  BY <1>1
<1>16. Lists(q.reverse, ctx, InBucketAt(q, Done, c))'
  <2>1. InBucketAt(q', Done', c) = {}
    BY <1>1 DEF InBucketAt
  <2> QED BY <1>2, <2>1 DEF Lists
<1>17. Running(c)'
  BY <1>2, <1>3, <1>10, <1>11, <1>12, <1>13, <1>14, <1>15, <1>16 DEF Running
<1> QED BY <1>17

\* A chunk enters the loop.
LEMMA BeginChunkAnswer ==
  ASSUME IndInv, Active, BeginChunk
  PROVE  Active' /\ pc' # "done"
<1>1. CASE scope = NoScope /\ buf.num = 0
  BY <1>1, EmptyChunkAnswer
<1>2. CASE ~(scope = NoScope /\ buf.num = 0)
  <2>1. PICK start : Begun(start)
    BY <1>2, BeginIs
  <2>2. pc = "chunk" /\ pc' = "loop" /\ q' = q /\ reply' = reply /\ q.agg # "none"
    BY <2>1 DEF Begun
  <2>3. InputInv /\ AggInv /\ Len(reply) < q.count
    BY <2>2 DEF Active
  <2>4. InputInv'
    BY <2>1, <2>3, BeginInput
  <2>5. CASE \E c \in Int : Running(c)
    <3>1. \E c \in Int : Running(c)'
      BY <2>1, <2>3, <2>5, BeginRunning
    <3> QED BY <2>2, <2>3, <2>4, <3>1 DEF Active, AggInv
  <2>6. CASE Unstarted
    <3>1. buf.num # 0
      BY <1>2, <2>6 DEF Unstarted
    <3>2. \E c \in Int : Running(c)'
      BY <2>1, <2>3, <2>6, <3>1, BeginFirst
    <3> QED BY <2>2, <2>3, <2>4, <3>2 DEF Active, AggInv
  <2>7. CASE Finished
    BY <1>2, <2>2, <2>7, ChunkHeld DEF Finished
  <2> QED BY <2>3, <2>5, <2>6, <2>7 DEF AggInv
<1> QED BY <1>1, <1>2

----------------------------------------------------------------------------
(***************************************************************************)
(* Buckets are sent.                                                       *)
(***************************************************************************)
\* At the end of a buffer all that was read is done with.
LEMMA LoopEnds ==
  ASSUME IndInv, Active, ReturnChunk
  PROVE  /\ q \in Queries /\ q.agg # "none" /\ Len(reply) < q.count /\ InputInv /\ unread = <<>> /\ Held = {}
         /\ \E c \in Int : Running(c) /\ \E p \in Done : Start(p) = c
<1>1. pc = "loop" /\ ~displaced /\ si >= buf.num
  BY DEF ReturnChunk
<1>2. q \in Queries /\ q.agg # "none" /\ Len(reply) < q.count /\ InputInv
  BY <1>1, LoopRuns
<1>3. PICK c \in Int : Running(c)
  BY <1>1, LoopRuns
<1>4. Unread /\ si \in Nat /\ buf.num \in Nat
  BY <1>1, CapIs DEF IndInv, LoopInv, TypeInv, Buffer
<1>5. unread \in Seq(Sent) /\ Len(unread) = 0
  BY <1>1, <1>4 DEF Unread
<1>6. unread = <<>>
  BY <1>5, EmptySeq
<1>7. Held = {}
  <2>1. 1 .. Len(unread) = {}
    BY <1>5
  <2> QED BY <1>1, <2>1 DEF Held, Times
<1>8. \E p \in Done : Start(p) = c
  BY <1>3, <1>6 DEF Running, Entered
<1> QED BY <1>2, <1>3, <1>6, <1>7, <1>8

\* What a sequence of buckets makes of the reply.
Sends(s) ==
  /\ s \in Seq(Sent) /\ reply \in Seq(Sent) /\ Reply(s) /\ Len(s) = written
  /\ \A i \in 1 .. written : s[i] = Cell(buf, i - 1)

\* The buckets in the buffer are the next ones of the full reply.
LEMMA SendsFull ==
  ASSUME q \in Queries, q.agg # "none", NEW c \in Int, Running(c), NEW s, Sends(s), written \in Nat
  PROVE  \/ /\ pc' = "fetch" /\ reply' = reply \o s /\ Len(reply') < q.count
            /\ Len(reply') = Len(reply) + written /\ \A i \in 1 .. Len(reply') : reply'[i] = Full[i]
         \/ pc' = "done" /\ reply' = Answer(q)
<1>1. PICK full \in Seq(Sent) : full = Full /\ Len(full) = Len(Order)
  BY AggFull
<1>2. Len(Order) \in Nat
  BY OrderLists
<1>3. s \in Seq(Sent) /\ reply \in Seq(Sent) /\ Reply(s) /\ Len(s) = written /\ Len(reply) \in Nat
  BY DEF Sends
<1>4. PICK z : z = reply \o s
  OBVIOUS
<1>5. /\ z \in Seq(Sent) /\ Len(z) = Len(reply) + Len(s)
      /\ \A i \in 1 .. Len(reply) : z[i] = reply[i]
      /\ \A i \in 1 .. Len(s) : z[Len(reply) + i] = s[i]
  <2>1. PICK X : X = Sent /\ s \in Seq(X) /\ reply \in Seq(X)
    BY <1>3
  <2> QED BY <1>4, <2>1, Joined
<1>6. PICK l \in Nat, v \in Nat : l = Len(reply) /\ v = written
  BY <1>3
<1>7. /\ l + v + 1 \in 1 .. Len(Order)
      /\ \A i \in 1 .. l : reply[i] = full[i]
      /\ \A i \in 1 .. v : s[i] = full[l + i]
  <2>1. l + v + 1 \in 1 .. Len(Order)
    BY <1>6 DEF Running, At
  <2>2. \A i \in 1 .. l : reply[i] = full[i]
    BY <1>1, <1>6 DEF Running, Correct
  <2>3. \A i \in 1 .. v : Cell(buf, i - 1) = full[l + i]
    BY <1>1, <1>6 DEF Running, Correct
  <2>4. \A i \in 1 .. v : s[i] = Cell(buf, i - 1)
    BY <1>6 DEF Sends
  <2> QED BY <2>1, <2>2, <2>3, <2>4
<1>8. Len(z) = l + v
  BY <1>3, <1>5, <1>6
<1>9. ASSUME NEW i \in 1 .. l + v PROVE full[i] = z[i]
  <2>1. CASE i \in 1 .. l
    BY <1>5, <1>6, <1>7, <2>1
  <2>2. CASE i \notin 1 .. l
    <3>1. PICK j \in 1 .. v : i = l + j
      <4>1. i - l \in 1 .. v /\ i = l + (i - l)
        BY <1>6, <2>2
      <4> QED BY <4>1
    <3>2. z[l + j] = s[j]
      BY <1>3, <1>5, <1>6
    <3> QED BY <1>7, <3>1, <3>2
  <2> QED BY <2>1, <2>2
<1>10. Begins(z, full)
  <2>1. l + v <= Len(full)
    BY <1>1, <1>2, <1>6, <1>7
  <2> QED BY <1>8, <1>9, <2>1 DEF Begins
<1>11. Begins(reply \o s, full)
  BY <1>4, <1>10
<1>12. \/ pc' = "fetch" /\ reply' = reply \o s /\ Len(reply') < q.count
       \/ pc' = "done" /\ reply' = Cut(full, q.count)
  BY <1>3, <1>11, ReplySends
<1>13. CASE pc' = "fetch"
  <2>1. reply' = z /\ Len(reply') < q.count
    BY <1>4, <1>12, <1>13
  <2>2. \A i \in 1 .. Len(reply') : reply'[i] = Full[i]
    BY <1>1, <1>8, <1>9, <2>1
  <2> QED BY <1>3, <1>4, <1>5, <1>13, <2>1, <2>2
<1>14. CASE pc' = "done"
  BY <1>1, <1>12, <1>14, AnswerIs
<1> QED BY <1>12, <1>13, <1>14

\* The buckets of a buffer are sent, or none has ended yet.
LEMMA ReturnChunkAnswer ==
  ASSUME IndInv, Active, ReturnChunk
  PROVE  IF pc' = "done" THEN reply' = Answer(q)' ELSE Active'
<1>1. /\ q \in Queries /\ q.agg # "none" /\ Len(reply) < q.count /\ InputInv /\ unread = <<>> /\ Held = {}
  BY LoopEnds
<1>2. PICK c \in Int : Running(c) /\ \E p \in Done : Start(p) = c
  BY LoopEnds
<1>3. /\ q' = q /\ UNCHANGED <<q, iterators>> /\ ctx' = ctx /\ open' = open /\ bucket' = bucket /\ written' = 0
  BY DEF ReturnChunk
<1>4. written \in Nat /\ reply \in Seq(Sent) /\ q.reverse \in BOOLEAN
  BY <1>1, CapIs, GridOK DEF IndInv, TypeInv
<1>5. /\ Sel' = Sel /\ Full' = Full /\ Order' = Order /\ \A t : Start(t)' = Start(t) /\ Answer(q)' = Answer(q)
  BY <1>3, SameQuery
<1>6. ASSUME pc' = "fetch", Len(reply') < q.count, Len(reply') = Len(reply) + written,
             \A i \in 1 .. Len(reply') : reply'[i] = Full[i],
             scope' = scope \/ (scope' = NoScope /\ written > 0)
      PROVE  Active'
  <2>1. Held' = {}
    BY <1>6 DEF Held
  <2>2. InputInv' /\ Done' = Sel \ Rest
    BY <1>1, <1>3, <1>6, <2>1, BufferDone
  <2>3. Done' = Done
    BY <1>1, <2>2 DEF Done
  <2>4. Correct'
    <3>1. 1 .. written' = {}
      BY <1>3
    <3> QED BY <1>5, <1>6, <3>1 DEF Correct
  <2>5. At' \in 1 .. Len(Order') /\ Order'[At'] = c
    <3>1. At' = At
      BY <1>3, <1>4, <1>6 DEF At
    <3> QED BY <1>2, <1>5, <3>1 DEF Running
  <2>6. Entered(c)'
    BY <1>2, <1>5, <2>3 DEF Entered
  <2>7. Window(c)'
    <3>1. /\ bucket.initialized /\ bucket.start = Max0(c)
          /\ scope # NoScope => scope = c + q.delta \/ (q.reverse /\ c < 0)
          /\ ~q.reverse /\ (written > 0 \/ scope = NoScope) => c >= 0
      BY <1>2 DEF Running, Window
    <3>2. CASE scope' = scope
      BY <1>3, <3>1, <3>2 DEF Window
    <3>3. CASE scope' = NoScope /\ written > 0
      BY <1>3, <3>1, <3>3 DEF Window
    <3> QED BY <1>6, <3>2, <3>3
  <2>8. (\A p \in Done : Start(p) = c \/ Before(q.reverse, Start(p), c))'
    BY <1>2, <1>3, <1>5, <2>3 DEF Running
  <2>9. Lists(q.reverse, ctx, InBucketAt(q, Done, c))'
    BY <1>2, <1>3, <2>3 DEF Running
  <2>10. open'
    BY <1>2, <1>3 DEF Running
  <2>11. Running(c)'
    BY <2>4, <2>5, <2>6, <2>7, <2>8, <2>9, <2>10 DEF Running
  <2> QED BY <1>1, <1>3, <1>6, <2>2, <2>11 DEF Active, AggInv
<1>7. CASE written = 0
  <2>1. pc' = "fetch" /\ reply' = reply /\ scope' = scope
    BY <1>7 DEF ReturnChunk
  <2>2. \A i \in 1 .. Len(reply) : reply[i] = Full[i]
    BY <1>2 DEF Running, Correct
  <2>3. Len(reply) = Len(reply) + written
    BY <1>4, <1>7
  <2> QED BY <1>1, <1>6, <2>1, <2>2, <2>3
<1>8. CASE written # 0
  <2>1. PICK s : s = [i \in 1 .. written |-> Cell(buf, i - 1)] /\ Reply(s)
    BY <1>8 DEF ReturnChunk
  <2>2. \A i \in 0 .. written - 1 : Cell(buf, i) \in Sent
    BY DEF ReturnChunk, IndInv, LoopInv, Written
  <2>3. \A i \in 1 .. written : i - 1 \in 0 .. written - 1
    BY <1>4
  <2>4. s \in Seq(Sent) /\ Len(s) = written /\ \A i \in 1 .. written : s[i] = Cell(buf, i - 1)
    BY <1>4, <2>1, <2>2, <2>3
  <2>5. Sends(s)
    BY <1>4, <2>1, <2>4 DEF Sends
  <2>6. \/ /\ pc' = "fetch" /\ Len(reply') < q.count
           /\ Len(reply') = Len(reply) + written /\ \A i \in 1 .. Len(reply') : reply'[i] = Full[i]
        \/ pc' = "done" /\ reply' = Answer(q)
    BY <1>1, <1>2, <1>4, <2>5, SendsFull
  <2>7. scope' = NoScope /\ written > 0
    BY <1>4, <1>8 DEF ReturnChunk
  <2>8. CASE pc' = "fetch"
    BY <1>6, <2>6, <2>7, <2>8
  <2>9. CASE pc' = "done"
    BY <1>5, <2>6, <2>9
  <2> QED BY <2>6, <2>8, <2>9
<1> QED BY <1>7, <1>8

\* _finalize: the last bucket is sent behind all others.
LEMMA FinalizeAnswer ==
  ASSUME IndInv, Active, Finalize
  PROVE  IF pc' = "done" THEN reply' = Answer(q)' ELSE Active'
<1>1. /\ pc = "end" /\ open /\ open' = FALSE /\ scope' = NoScope /\ Reply(<<Bucket(q, bucket.start, ctx)>>)
      /\ q' = q /\ UNCHANGED <<q, iterators>>
  BY DEF Finalize
<1>2. q.agg # "none" /\ InputInv /\ AggInv /\ Len(reply) < q.count
  BY <1>1 DEF Active, PlainInv
<1>3. PICK c \in Int : Running(c)
  BY <1>1, <1>2 DEF AggInv, Unstarted, Finished
<1>4. /\ q \in Queries /\ reply \in Seq(Sent) /\ Len(reply) \in Nat /\ bucket.start \in Time /\ ctx \in Seq(Time)
      /\ written = 0
  BY <1>1 DEF IndInv, TypeInv, BucketInv
<1>5. Rest = {} /\ Held = {} /\ Done = Sel
  BY <1>1, <1>2 DEF InputInv, Held, Done
<1>6. PICK at \in 1 .. Len(Order) : at = At /\ Order[at] = c /\ at = Len(reply) + 1
  BY <1>3, <1>4 DEF Running, At
<1>7. \A p \in Sel : Start(p) = c \/ Before(q.reverse, Start(p), c)
  BY <1>3, <1>5 DEF Running
<1>8. at = Len(Order)
  BY <1>4, <1>6, <1>7, StartsLast
<1>9. PICK full \in Seq(Sent) : full = Full /\ Len(full) = Len(Order)
  BY <1>2, <1>4, AggFull
<1>10. PICK x \in Sent : x = Bucket(q, bucket.start, ctx)
  BY <1>4, BucketSent
<1>11. full[at] = x
  <2>1. q.reverse \in BOOLEAN
    BY <1>4, GridOK
  <2>2. Lists(q.reverse, ctx, InBucketAt(q, Sel, c))
    BY <1>3, <1>5 DEF Running
  <2>3. Lists(q.reverse, ReplyOrder(q, InBucketAt(q, Sel, c)), InBucketAt(q, Sel, c))
    BY <1>4, ContentLists
  <2>4. ctx = ReplyOrder(q, InBucketAt(q, Sel, c))
    BY <2>1, <2>2, <2>3, ListUnique
  <2>5. bucket.start = Max0(c)
    BY <1>3 DEF Running, Window
  <2>6. Full[at] = Bucket(q, Max0(Order[at]), ReplyOrder(q, InBucketAt(q, Sel, Order[at])))
    BY <1>2, <1>4, AggFull
  <2> QED BY <1>6, <1>9, <1>10, <2>4, <2>5, <2>6
<1>12. PICK s \in Seq(Sent) : s = <<x>> /\ Len(s) = 1 /\ s[1] = x
  <2>1. <<x>> \in Seq(Sent) /\ Len(<<x>>) = 1 /\ <<x>>[1] = x
    OBVIOUS
  <2> QED BY <2>1
<1>13. PICK z : z = reply \o s
  OBVIOUS
<1>14. /\ z \in Seq(Sent) /\ Len(z) = Len(reply) + Len(s)
       /\ \A i \in 1 .. Len(reply) : z[i] = reply[i]
       /\ \A i \in 1 .. Len(s) : z[Len(reply) + i] = s[i]
  <2>1. PICK X : X = Sent /\ s \in Seq(X) /\ reply \in Seq(X)
    BY <1>4
  <2> QED BY <1>13, <2>1, Joined
<1>15. z = full
  <2>1. Len(z) = Len(full)
    BY <1>4, <1>6, <1>8, <1>9, <1>12, <1>14
  <2>2. \A i \in 1 .. Len(reply) : reply[i] = full[i]
    BY <1>3, <1>9 DEF Running, Correct
  <2>3. z[at] = x
    <3>1. 1 \in 1 .. Len(s)
      BY <1>12
    <3> QED BY <1>6, <1>12, <1>14, <3>1
  <2>4. ASSUME NEW i \in 1 .. Len(z) PROVE z[i] = full[i]
    <3>1. CASE i = at
      BY <1>11, <2>3, <3>1
    <3>2. CASE i # at
      <4>1. i \in 1 .. Len(reply)
        BY <1>4, <1>6, <1>12, <1>14, <3>2
      <4> QED BY <1>14, <2>2, <4>1
    <3> QED BY <3>1, <3>2
  <2> QED BY <1>14, <2>1, <2>4, SameSequence
<1>16. Begins(reply \o s, full)
  <2>1. Len(z) \in Nat
    BY <1>14
  <2> QED BY <1>13, <1>15, <2>1 DEF Begins
<1>17. Reply(s)
  BY <1>1, <1>10, <1>12
<1>18. \/ pc' = "fetch" /\ reply' = reply \o s /\ Len(reply') < q.count
       \/ pc' = "done" /\ reply' = Cut(full, q.count)
  BY <1>4, <1>16, <1>17, ReplySends
<1>19. Full' = Full /\ Answer(q)' = Answer(q)
  BY <1>1, SameQuery
<1>20. CASE pc' = "done"
  BY <1>9, <1>18, <1>19, <1>20, AnswerIs
<1>21. CASE pc' = "fetch"
  <2>1. Held' = {}
    BY <1>21 DEF Held
  <2>2. InputInv' /\ Rest' = {}
    BY <1>1, <1>2, <1>5, <1>21, <2>1, BufferDone
  <2>3. reply' = Full' /\ Len(reply') < q.count
    BY <1>9, <1>13, <1>15, <1>18, <1>19, <1>21
  <2>4. Finished'
    BY <1>1, <1>21, <2>1, <2>2, <2>3 DEF Finished
  <2> QED BY <1>1, <1>2, <1>21, <2>2, <2>3, <2>4 DEF Active, AggInv
<1> QED BY <1>18, <1>20, <1>21

\* The input is used up and nothing is left to send.
LEMMA EndOfReplyAnswer ==
  ASSUME IndInv, Active, EndOfReply
  PROVE  pc' = "done" /\ reply' = Answer(q)'
<1>1. pc = "end" /\ ~open /\ pc' = "done" /\ q' = q /\ reply' = reply
  BY DEF EndOfReply
<1>2. InputInv /\ Len(reply) < q.count /\ q \in Queries
  BY DEF Active, IndInv, TypeInv
<1>3. Rest = {} /\ Held = {} /\ Done = Sel
  BY <1>1, <1>2 DEF InputInv, Held, Done
<1>4. reply = Full
  <2>1. CASE q.agg = "none"
    <3>1. PlainOf(reply, Sel)
      BY <1>3, <2>1 DEF Active, PlainInv
    <3>2. PlainOf(Full, Sel)
      BY <1>2, <2>1, PlainFull
    <3>3. AllBefore(q.reverse, Sel, Sel \ Sel)
      BY DEF AllBefore
    <3> QED BY <1>2, <3>1, <3>2, <3>3, PlainBegins
  <2>2. CASE q.agg # "none"
    <3>1. Unstarted \/ Finished
      BY <1>1, <2>2 DEF Active, AggInv, Running
    <3>2. CASE Finished
      BY <3>2 DEF Finished
    <3>3. CASE Unstarted
      <4>1. reply = <<>> /\ Sel = {}
        BY <1>3, <3>3 DEF Unstarted
      <4>2. Lists(q.reverse, Order, Starts) /\ Len(Order) \in Nat
        BY <1>2, OrderLists
      <4>3. Starts = {}
        <5> SUFFICES ASSUME NEW b \in Starts PROVE FALSE
          OBVIOUS
        <5>1. \E t \in Sel : TRUE
          BY <1>2, StartsBetween
        <5> QED BY <4>1, <5>1
      <4>4. Len(Order) = 0
        <5>1. 1 \notin 1 .. Len(Order)
          BY <4>2, <4>3 DEF Lists
        <5> QED BY <4>2, <5>1
      <4>5. Full \in Seq(Sent) /\ Len(Full) = 0
        BY <1>2, <2>2, <4>4, AggFull
      <4> QED BY <4>1, <4>5, EmptySeq
    <3> QED BY <3>1, <3>2, <3>3
  <2> QED BY <2>1, <2>2
<1>5. Cut(Full, q.count) = Full
  BY <1>2, <1>4, QueryOK DEF Cut, IndInv, TypeInv
<1>6. Answer(q)' = Answer(q)
  BY <1>1, SameQuery
<1> QED BY <1>1, <1>4, <1>5, <1>6, AnswerIs

----------------------------------------------------------------------------
(***************************************************************************)
(* The theorem.                                                            *)
(***************************************************************************)
\* Nothing has been read or sent.
LEMMA AnswerInit == Init => AnswerInv
<1> SUFFICES ASSUME Init PROVE Active
  BY DEF AnswerInv, Init
<1>1. InputInv /\ Done = {}
  BY InputInit
<1>2. pc = "fetch" /\ ~open /\ reply = <<>> /\ q \in Queries /\ scope = NoScope /\ ctx = <<>> /\ ~bucket.initialized
  BY DEF Init
<1>3. Len(reply) < q.count
  <2>1. q.count \in Nat \ {0} /\ Len(reply) = 0
    BY <1>2, QueryOK
  <2> QED BY <2>1
<1>4. PlainInv
  <2>1. reply \in Seq(Sent) /\ Samples(reply) /\ Stamps(reply) = <<>>
    BY <1>2 DEF Samples, Stamps
  <2>2. Lists(q.reverse, Stamps(reply), Done)
    BY <1>1, <2>1 DEF Lists
  <2> QED BY <1>2, <2>1, <2>2 DEF PlainInv, PlainOf
<1>5. AggInv
  BY <1>1, <1>2 DEF AggInv, Unstarted
<1> QED BY <1>1, <1>3, <1>4, <1>5 DEF Active

\* Every step keeps it.
LEMMA AnswerNext ==
  ASSUME IndInv, AnswerInv, Next
  PROVE  AnswerInv'
<1> SUFFICES ASSUME Sane' PROVE IF pc' = "done" THEN reply' = Answer(q)' ELSE Active'
  BY DEF AnswerInv
<1>1. q' = q
  BY DEF Next, ReadChunk, ReadLatest, EndOfInput, ReplyChunk, BeginChunk, AssertDirection,
     AppendValue, AppendValueVec, AppendTo, CloseBucket, ReturnChunk, Finalize, EndOfReply
<1>2. ~LatestDeviates(q) /\ ~displaced' /\ pc' # "undefined" /\ pc' # "failed"
  BY <1>1, SameQuery DEF Sane
<1>3. pc \in {"fetch", "chunk", "loop", "end"} /\ ~displaced
  BY DEF IndInv, BucketInv, Next, ReadChunk, ReadLatest, EndOfInput, ReplyChunk, BeginChunk, AssertDirection,
     AppendValue, AppendValueVec, InBucket, CloseBucket, ReturnChunk, Finalize, EndOfReply
<1>4. Active /\ InputInv
  BY <1>2, <1>3 DEF AnswerInv, Sane, Active
<1>5. IndInv'
  BY NextInv
<1>6. CASE ReadChunk
  <2>1. InputStep /\ pc = "fetch" /\ UNCHANGED <<q, aggregation, reply>>
    BY <1>2, <1>4, <1>6, ReadChunkInput DEF ReadChunk
  <2>2. pc' \in {"fetch", "chunk", "end"}
    BY <1>2, <1>6 DEF ReadChunk, HandOut, Pass
  <2> QED BY <1>4, <1>5, <2>1, <2>2, InputActive
<1>7. CASE ReadLatest
  <2>1. InputStep /\ pc = "fetch" /\ UNCHANGED <<q, aggregation, reply>>
    BY <1>2, <1>4, <1>7, ReadLatestInput DEF ReadLatest
  <2>2. pc' \in {"fetch", "chunk", "end"}
    BY <1>2, <1>7 DEF ReadLatest, Pass
  <2> QED BY <1>4, <1>5, <2>1, <2>2, InputActive
<1>8. CASE EndOfInput
  <2>1. InputStep /\ pc = "fetch" /\ UNCHANGED <<q, aggregation, reply>> /\ pc' \in {"fetch", "chunk", "end"}
    BY <1>2, <1>4, <1>8, EndOfInputRest DEF EndOfInput
  <2> QED BY <1>4, <1>5, <2>1, InputActive
<1>9. CASE ReplyChunk
  BY <1>4, <1>9, ReplyChunkAnswer
<1>10. CASE BeginChunk
  BY <1>4, <1>10, BeginChunkAnswer
<1>11. CASE AppendValue \/ AppendValueVec
  BY <1>4, <1>11, AppendValueAnswer
<1>12. CASE CloseBucket
  BY <1>2, <1>4, <1>12, CloseBucketAnswer
<1>13. CASE ReturnChunk
  BY <1>4, <1>13, ReturnChunkAnswer
<1>14. CASE Finalize
  BY <1>4, <1>14, FinalizeAnswer
<1>15. CASE EndOfReply
  BY <1>4, <1>15, EndOfReplyAnswer
<1>16. CASE AssertDirection
  BY <1>2, <1>16 DEF AssertDirection
<1> QED BY <1>6, <1>7, <1>8, <1>9, <1>10, <1>11, <1>12, <1>13, <1>14, <1>15, <1>16 DEF Next

\* And so does a step that changes nothing.
LEMMA AnswerStutter ==
  ASSUME AnswerInv, UNCHANGED vars
  PROVE  AnswerInv'
<1>1. /\ q' = q /\ pc' = pc /\ chunks' = chunks /\ latest' = latest /\ wanted' = wanted /\ buf' = buf /\ written' = written
      /\ scope' = scope /\ bucket' = bucket /\ ctx' = ctx /\ open' = open /\ reply' = reply /\ unread' = unread
      /\ displaced' = displaced
  BY DEF vars
<1>2. /\ Sel' = Sel /\ Full' = Full /\ Order' = Order /\ Answer(q)' = Answer(q)
      /\ LatestDeviates(q)' = LatestDeviates(q) /\ (\A t : Start(t)' = Start(t))
      /\ \A s, S : PlainOf(s, S)' = PlainOf(s, S)
  BY <1>1, SameQuery
<1>3. Rest' = Rest /\ Held' = Held
  BY <1>1, <1>2 DEF Rest, Chained, Held, Times, View, Cell
<1>4. Done' = Done
  BY <1>2, <1>3 DEF Done
<1>5. InputInv => InputInv'
  BY <1>1, <1>2, <1>3, <1>4 DEF InputInv, WantedInv, Chain, GoodChunk, Chained, Follows, Earlier, AllBefore, Increasing, Range
<1>6. PlainInv => PlainInv'
  BY <1>1, <1>2, <1>4 DEF PlainInv
<1>7. AggInv => AggInv'
  <2>1. ASSUME NEW c \in Int, Running(c) PROVE Running(c)'
    <3>1. Correct'
      BY <1>1, <1>2, <2>1 DEF Running, Correct, Cell
    <3>2. Entered(c)'
      BY <1>1, <1>2, <1>4, <2>1 DEF Running, Entered, Start
    <3>3. Window(c)' /\ Lists(q.reverse, ctx, InBucketAt(q, Done, c))'
      BY <1>1, <1>4, <2>1 DEF Running, Window
    <3>4. (\A p \in Done : Start(p) = c \/ Before(q.reverse, Start(p), c))'
      BY <1>1, <1>2, <1>4, <2>1 DEF Running
    <3>5. open' /\ At' = At /\ At \in 1 .. Len(Order) /\ Order[At] = c
      BY <1>1, <2>1 DEF Running, At
    <3> QED BY <1>2, <3>1, <3>2, <3>3, <3>4, <3>5 DEF Running
  <2>2. (Unstarted => Unstarted') /\ (Finished => Finished')
    BY <1>1, <1>2, <1>3, <1>4 DEF Unstarted, Finished
  <2>3. (\E c \in Int : Running(c)) => (\E c \in Int : Running(c)')
    BY <2>1
  <2> QED BY <2>2, <2>3 DEF AggInv
<1>8. Active => Active'
  BY <1>1, <1>5, <1>6, <1>7 DEF Active
<1>9. Sane' => Sane
  BY <1>1, <1>2 DEF Sane
<1> QED BY <1>1, <1>2, <1>8, <1>9 DEF AnswerInv

\* What has been sent between two chunks is the beginning of the full reply.
LEMMA FetchBegins ==
  ASSUME IndInv, Active, pc = "fetch"
  PROVE  Begins(reply, Full) /\ Full \in Seq(Sent)
<1>1. q \in Queries /\ reply \in Seq(Sent) /\ Len(reply) \in Nat /\ InputInv /\ written = 0 /\ Held = {}
  BY DEF Active, IndInv, TypeInv, BucketInv, Held
<1>2. CASE q.agg = "none"
  <2>1. PlainOf(reply, Done) /\ PlainOf(Full, Sel)
    BY <1>1, <1>2, PlainFull DEF Active, PlainInv
  <2>2. Done \subseteq Sel /\ Done = Sel \ Rest /\ Sel \ Done = Rest
    BY <1>1 DEF Done, Rest
  <2>3. AllBefore(q.reverse, Done, Sel \ Done)
    BY <1>1, <2>2 DEF InputInv
  <2> QED BY <1>1, <2>1, <2>2, <2>3, PlainBegins DEF PlainOf
<1>3. CASE q.agg # "none"
  <2>1. Full \in Seq(Sent) /\ Len(Full) = Len(Order) /\ Len(Order) \in Nat
    BY <1>1, <1>3, AggFull, OrderLists
  <2>2. AggInv
    BY <1>3 DEF Active
  <2>3. ASSUME NEW c \in Int, Running(c) PROVE Begins(reply, Full)
    <3>1. \A i \in 1 .. Len(reply) : reply[i] = Full[i]
      BY <2>3 DEF Running, Correct
    <3>2. Len(reply) <= Len(Full)
      BY <1>1, <2>1, <2>3 DEF Running, At
    <3> QED BY <3>1, <3>2 DEF Begins
  <2>4. ASSUME Unstarted PROVE Begins(reply, Full)
    <3>1. Len(reply) = 0
      BY <2>4 DEF Unstarted
    <3>2. 1 .. Len(reply) = {}
      BY <3>1
    <3> QED BY <2>1, <3>1, <3>2 DEF Begins
  <2>5. ASSUME Finished PROVE Begins(reply, Full)
    BY <1>1, <2>5 DEF Finished, Begins
  <2> QED BY <2>1, <2>2, <2>3, <2>4, <2>5 DEF AggInv
<1> QED BY <1>2, <1>3

\* Every execution keeps the division of the selected samples and what was made of those
\* that are done with, whatever the series, its division into chunks and the options.
THEOREM AnswerInvariance == Spec => []AnswerInv
<1>1. Init => IndInv /\ AnswerInv
  BY InitInv, AnswerInit
<1>2. IndInv /\ AnswerInv /\ [Next]_vars => IndInv' /\ AnswerInv'
  BY NextInv, AnswerNext, AnswerStutter
<1> QED BY <1>1, <1>2, PTL DEF Spec

\* TS.RANGE and TS.REVRANGE answer exactly what their documentation promises, whatever the
\* series, its division into chunks, the options and their values, but for the listed
\* deviations of LATEST: every sample or bucket asked for, each once, in order, made of
\* the right samples; and what has been sent on the way is a part of it.
THEOREM AnswerTheorem == Spec => []AnswerExact
<1>1. IndInv /\ AnswerInv => AnswerExact
  <2> SUFFICES ASSUME IndInv, AnswerInv, ~LatestDeviates(q)
               PROVE  /\ pc = "done" => reply = Answer(q)
                      /\ pc = "fetch" => IsPrefix(reply, Answer(q))
    BY DEF AnswerExact
  <2>1. pc = "done" \/ pc = "fetch" => Sane
    BY DEF Sane, IndInv, BucketInv
  <2>2. ASSUME pc = "fetch" PROVE IsPrefix(reply, Answer(q))
    <3>1. Active
      BY <2>1, <2>2 DEF AnswerInv
    <3>2. /\ Begins(reply, Full) /\ Full \in Seq(Sent) /\ reply \in Seq(Sent) /\ Len(reply) < q.count
          /\ q.count \in Nat
      BY <2>2, <3>1, FetchBegins, QueryOK DEF Active, IndInv, TypeInv
    <3> QED BY <3>2, BeginsPrefix, AnswerIs
  <2>3. ASSUME pc = "done" PROVE reply = Answer(q)
    BY <2>1, <2>3 DEF AnswerInv
  <2> QED BY <2>2, <2>3
<1> QED BY <1>1, Invariance, AnswerInvariance, PTL
============================================================================
