--------------------------- MODULE LRUCache_proof ---------------------------
(***************************************************************************)
(* Proofs about LRUCache, for any keys and values, any capacity and any    *)
(* lifetime: the capacity is never exceeded, map and list agree, and get   *)
(* misses only for a reason and hits only the latest put.                  *)
(***************************************************************************)
EXTENDS LRUCache, WellFoundedInduction, TLAPS

(* Induction over the natural numbers, as a fact about a set. *)
LEMMA Least ==
    ASSUME NEW S, S \subseteq Nat, S # {}
    PROVE  \E x \in S : \A y \in S : x <= y
<1>1. \E x \in S : \A y \in S : ~ (<<y, x>> \in OpToRel(<, Nat))
  BY NatLessThanWellFounded, WFMin, Zenon
<1>2. \A x, y \in S : ~ (<<y, x>> \in OpToRel(<, Nat)) => x <= y
  BY DEF OpToRel
<1>. QED BY <1>1, <1>2, Zenon

LEMMA Inductive ==
    ASSUME NEW S, 0 \in S, \A n \in Nat : n \in S => n + 1 \in S
    PROVE  \A n \in Nat : n \in S
<1>1. SUFFICES ASSUME Nat \ S # {} PROVE FALSE
  OBVIOUS
<1>2. PICK x \in Nat \ S : \A y \in Nat \ S : x <= y
  BY <1>1, Least
<1>3. x - 1 \in Nat /\ x - 1 \in S
  BY <1>2
<1>. QED BY <1>2, <1>3
-----------------------------------------------------------------------------
(* Subsequences. *)

Increasing(m, n) == \A i, j \in 1 .. n : i < j => m[i] < m[j]

(* d has some of the elements of c, in the order of c. *)
Sub(d, c) ==
    \E m \in [1 .. Len(d) -> 1 .. Len(c)] :
        Increasing(m, Len(d)) /\ \A i \in 1 .. Len(d) : d[i] = c[m[i]]

(* What is counted upwards is never behind its index. *)
LEMMA AtLeast ==
    ASSUME NEW n \in Nat, NEW l \in Nat, NEW m \in [1 .. n -> 1 .. l], Increasing(m, n)
    PROVE  \A i \in 1 .. n : i <= m[i]
<1> DEFINE S == {i \in Nat : i \in 1 .. n => i <= m[i]}
<1>1. 0 \in S
  OBVIOUS
<1>2. ASSUME NEW i \in Nat, i \in S PROVE i + 1 \in S
  <2>1. CASE i + 1 \in 1 .. n /\ i # 0
    <3>1. m[i] < m[i + 1] /\ i <= m[i] /\ m[i] \in Nat /\ m[i + 1] \in Nat
      BY <1>2, <2>1 DEF Increasing
    <3>. QED BY <3>1
  <2>2. CASE i + 1 \in 1 .. n /\ i = 0
    BY <2>2
  <2>. QED BY <2>1, <2>2
<1>3. \A i \in Nat : i \in S
  <2>. HIDE DEF S
  <2>. QED BY <1>1, <1>2, Inductive
<1>. QED BY <1>3

LEMMA SubLen ==
    ASSUME NEW A, NEW c \in Seq(A), NEW d \in Seq(A), Sub(d, c)
    PROVE  Len(d) <= Len(c)
<1>1. PICK m \in [1 .. Len(d) -> 1 .. Len(c)] : Increasing(m, Len(d))
  BY DEF Sub
<1>2. Len(c) \in Nat /\ Len(d) \in Nat
  OBVIOUS
<1>3. \A i \in 1 .. Len(d) : i <= m[i]
  BY <1>1, <1>2, AtLeast, Zenon
<1>. QED BY <1>2, <1>3

(* Erasing an element, and putting one in front. *)
LEMMA EraseIs ==
    ASSUME NEW A, NEW c \in Seq(A), NEW a \in 1 .. Len(c)
    PROVE  /\ Erase(c, a) \in Seq(A) /\ Len(Erase(c, a)) = Len(c) - 1
           /\ \A i \in 1 .. Len(c) - 1 : Erase(c, a)[i] = IF i < a THEN c[i] ELSE c[i + 1]
<1>1. \A i \in 1 .. Len(c) - 1 : (IF i < a THEN c[i] ELSE c[i + 1]) \in A
  OBVIOUS
<1>. QED BY <1>1 DEF Erase

LEMMA EraseSub ==
    ASSUME NEW A, NEW c \in Seq(A), NEW a \in 1 .. Len(c) PROVE Sub(Erase(c, a), c)
<1> DEFINE m == [i \in 1 .. Len(c) - 1 |-> IF i < a THEN i ELSE i + 1]
<1>1. m \in [1 .. Len(c) - 1 -> 1 .. Len(c)] /\ Increasing(m, Len(c) - 1)
  BY DEF Increasing
<1>2. \A i \in 1 .. Len(c) - 1 : m[i] = IF i < a THEN i ELSE i + 1
  OBVIOUS
<1>. HIDE DEF m
<1>3. \A i \in 1 .. Len(c) - 1 : Erase(c, a)[i] = c[m[i]]
  BY <1>2, EraseIs
<1>4. Len(Erase(c, a)) = Len(c) - 1
  BY EraseIs
<1>. QED BY <1>1, <1>3, <1>4, Zenon DEF Sub

LEMMA ConsIs ==
    ASSUME NEW A, NEW x \in A, NEW c \in Seq(A)
    PROVE  /\ <<x>> \o c \in Seq(A) /\ Len(<<x>> \o c) = Len(c) + 1
           /\ \A i \in 1 .. Len(c) + 1 : (<<x>> \o c)[i] = IF i = 1 THEN x ELSE c[i - 1]
OBVIOUS

(* The first index with key k. *)
LEMMA AtIs ==
    ASSUME NEW A, NEW c \in Seq(A), NEW k \in Keys(c)
    PROVE  At(c, k) \in 1 .. Len(c) /\ c[At(c, k)].key = k
<1> DEFINE S == {i \in 1 .. Len(c) : c[i].key = k}
<1>1. S \subseteq Nat /\ S # {}
  BY DEF Keys
<1>2. PICK x \in S : \A y \in S : x <= y
  BY <1>1, Least
<1>3. x \in 1 .. Len(c) /\ c[x].key = k /\ \A j \in 1 .. x - 1 : c[j].key # k
  BY <1>2
<1>. QED BY <1>3 DEF At

-----------------------------------------------------------------------------
(* clean_expire. *)

(* The equation that defines Survivors, for the first n nodes. *)
Loop(f, s, t, n) ==
    f = [i \in 0 .. n |-> IF i = 0 THEN <<>>
                          ELSE IF Expired(s[i], t) THEN f[i - 1] ELSE Append(f[i - 1], s[i])]

LEMMA LoopEnds == ASSUME NEW s, NEW t PROVE \A n \in Nat : \E f : Loop(f, s, t, n)
<1> DEFINE S == {n \in Nat : \E f : Loop(f, s, t, n)}
<1>1. 0 \in S
  <2>1. Loop([i \in 0 .. 0 |-> <<>>], s, t, 0)
    BY DEF Loop
  <2>. QED BY <2>1
<1>2. ASSUME NEW n \in Nat, n \in S PROVE n + 1 \in S
  <2>1. PICK f : Loop(f, s, t, n)
    BY <1>2
  <2> DEFINE step == IF Expired(s[n + 1], t) THEN f[n] ELSE Append(f[n], s[n + 1])
             g == [i \in 0 .. n + 1 |-> IF i = n + 1 THEN step ELSE f[i]]
             h == [i \in 0 .. n + 1 |-> IF i = 0 THEN <<>>
                      ELSE IF Expired(s[i], t) THEN g[i - 1] ELSE Append(g[i - 1], s[i])]
  <2>2. ASSUME NEW i \in 0 .. n + 1 PROVE g[i] = h[i]
    <3>1. CASE i = n + 1
      <4>1. g[i] = step /\ g[i - 1] = f[n] /\ i # 0
        BY <3>1
      <4>. QED BY <3>1, <4>1
    <3>2. CASE i \in 0 .. n
      <4>1. g[i] = f[i] /\ (i # 0 => g[i - 1] = f[i - 1])
        BY <3>2
      <4>2. f[i] = IF i = 0 THEN <<>>
                   ELSE IF Expired(s[i], t) THEN f[i - 1] ELSE Append(f[i - 1], s[i])
        BY <2>1, <3>2 DEF Loop
      <4>. QED BY <4>1, <4>2
    <3>. QED BY <3>1, <3>2
  <2>3. g = h
    BY <2>2
  <2>4. Loop(g, s, t, n + 1)
    BY <2>3 DEF Loop
  <2>. HIDE DEF g
  <2>. QED BY <2>4
<1>3. \A n \in Nat : n \in S
  <2>. HIDE DEF S
  <2>. QED BY <1>1, <1>2, Inductive
<1>. QED BY <1>3

LEMMA SurvivorsLoop ==
    ASSUME NEW A, NEW s \in Seq(A), NEW t
    PROVE  Loop(Survivors(s, t), s, t, Len(s))
<1>1. Len(s) \in Nat
  OBVIOUS
<1>2. \E f : Loop(f, s, t, Len(s))
  BY <1>1, LoopEnds, Zenon
<1>3. Survivors(s, t) = CHOOSE f : Loop(f, s, t, Len(s))
  BY Zenon DEF Survivors, Loop
<1>. QED BY <1>2, <1>3, Zenon

(* What is left of the first n nodes: those that are alive, in order. *)
Left(d, s, t, n) ==
    \E m \in [1 .. Len(d) -> 1 .. n] :
        /\ Increasing(m, Len(d))
        /\ \A i \in 1 .. Len(d) : d[i] = s[m[i]] /\ ~Expired(s[m[i]], t)
        /\ \A j \in 1 .. n : Expired(s[j], t) \/ \E i \in 1 .. Len(d) : m[i] = j

LEMMA OneMore ==
    ASSUME NEW k \in Nat, NEW n \in Nat, NEW m \in [1 .. k -> 1 .. n], Increasing(m, k)
    PROVE  \E o \in [1 .. k + 1 -> 1 .. n + 1] :
              Increasing(o, k + 1) /\ o[k + 1] = n + 1 /\ \A i \in 1 .. k : o[i] = m[i]
<1> DEFINE o == [i \in 1 .. k + 1 |-> IF i = k + 1 THEN n + 1 ELSE m[i]]
<1>1. \A i \in 1 .. k : m[i] \in 1 .. n
  OBVIOUS
<1>2. \A i \in 1 .. k + 1 : o[i] \in 1 .. n + 1 /\ (i # k + 1 => i \in 1 .. k /\ o[i] = m[i])
  BY <1>1
<1>3. o \in [1 .. k + 1 -> 1 .. n + 1] /\ o[k + 1] = n + 1
  BY <1>2
<1>. HIDE DEF o
<1>4. Increasing(o, k + 1)
  <2>1. ASSUME NEW i \in 1 .. k + 1, NEW j \in 1 .. k + 1, i < j PROVE o[i] < o[j]
    <3>1. i \in 1 .. k /\ o[i] = m[i] /\ m[i] \in 1 .. n
      BY <1>1, <1>2, <2>1
    <3>2. CASE j = k + 1
      BY <1>3, <3>1, <3>2
    <3>3. CASE j # k + 1
      BY <1>2, <2>1, <3>1, <3>3 DEF Increasing
    <3>. QED BY <3>2, <3>3
  <2>. QED BY <2>1 DEF Increasing
<1>. QED BY <1>2, <1>3, <1>4

LEMMA LeftStep ==
    ASSUME NEW A, NEW s \in Seq(A), NEW t, NEW n \in Nat, n + 1 <= Len(s),
           NEW d \in Seq(A), Left(d, s, t, n)
    PROVE  /\ Expired(s[n + 1], t) => Left(d, s, t, n + 1)
           /\ ~Expired(s[n + 1], t) => Left(Append(d, s[n + 1]), s, t, n + 1)
<1>1. PICK m \in [1 .. Len(d) -> 1 .. n] :
        /\ Increasing(m, Len(d))
        /\ \A i \in 1 .. Len(d) : d[i] = s[m[i]] /\ ~Expired(s[m[i]], t)
        /\ \A j \in 1 .. n : Expired(s[j], t) \/ \E i \in 1 .. Len(d) : m[i] = j
  BY DEF Left
<1>2. CASE Expired(s[n + 1], t)
  <2>1. m \in [1 .. Len(d) -> 1 .. n + 1]
    OBVIOUS
  <2>2. \A j \in 1 .. n + 1 : Expired(s[j], t) \/ \E i \in 1 .. Len(d) : m[i] = j
    BY <1>1, <1>2
  <2>. QED BY <1>1, <1>2, <2>1, <2>2 DEF Left
<1>3. CASE ~Expired(s[n + 1], t)
  <2> DEFINE e == Append(d, s[n + 1])
  <2>1. /\ Len(d) \in Nat /\ Len(e) = Len(d) + 1 /\ e[Len(d) + 1] = s[n + 1]
        /\ \A i \in 1 .. Len(d) : e[i] = d[i]
    OBVIOUS
  <2>2. PICK o \in [1 .. Len(d) + 1 -> 1 .. n + 1] :
            /\ Increasing(o, Len(d) + 1) /\ o[Len(d) + 1] = n + 1
            /\ \A i \in 1 .. Len(d) : o[i] = m[i]
    BY <1>1, <2>1, OneMore, Zenon
  <2>. HIDE DEF e
  <2>3. o \in [1 .. Len(e) -> 1 .. n + 1] /\ Increasing(o, Len(e))
    BY <2>1, <2>2
  <2>4. ASSUME NEW i \in 1 .. Len(e) PROVE e[i] = s[o[i]] /\ ~Expired(s[o[i]], t)
    <3>1. CASE i = Len(d) + 1
      BY <1>3, <2>1, <2>2, <3>1
    <3>2. CASE i \in 1 .. Len(d)
      BY <1>1, <2>1, <2>2, <3>2
    <3>. QED BY <2>1, <3>1, <3>2
  <2>5. \A j \in 1 .. n + 1 : Expired(s[j], t) \/ \E i \in 1 .. Len(e) : o[i] = j
    <3>1. ASSUME NEW j \in 1 .. n, ~Expired(s[j], t) PROVE \E i \in 1 .. Len(e) : o[i] = j
      <4>1. PICK i \in 1 .. Len(d) : m[i] = j
        BY <1>1, <3>1
      <4>. QED BY <2>1, <2>2, <4>1
    <3>2. Len(e) \in 1 .. Len(e) /\ o[Len(e)] = n + 1
      BY <2>1, <2>2
    <3>. QED BY <3>1, <3>2
  <2>6. Left(e, s, t, n + 1)
    BY <2>3, <2>4, <2>5 DEF Left
  <2>. QED BY <1>3, <2>6 DEF e
<1>. QED BY <1>2, <1>3

(* Survivors is what it is meant to be. *)
LEMMA SurvivorsAre ==
    ASSUME NEW A, NEW s \in Seq(A), NEW t
    PROVE  Survivors(s, t)[Len(s)] \in Seq(A) /\ Left(Survivors(s, t)[Len(s)], s, t, Len(s))
<1> DEFINE f == Survivors(s, t)
           S == {n \in Nat : n <= Len(s) => f[n] \in Seq(A) /\ Left(f[n], s, t, n)}
<1>0. Len(s) \in Nat /\ \A i \in 1 .. Len(s) : s[i] \in A
  OBVIOUS
<1>1. \A i \in 0 .. Len(s) :
        f[i] = IF i = 0 THEN <<>>
               ELSE IF Expired(s[i], t) THEN f[i - 1] ELSE Append(f[i - 1], s[i])
  <2>1. Loop(f, s, t, Len(s))
    BY SurvivorsLoop
  <2>. HIDE DEF f
  <2>. QED BY <2>1 DEF Loop
<1>. HIDE DEF f
<1>2. 0 \in S
  <2>1. f[0] = <<>>
    BY <1>0, <1>1
  <2>2. Left(<<>>, s, t, 0)
    <3> DEFINE m == [i \in 1 .. Len(<<>>) |-> i]
    <3>1. m \in [1 .. Len(<<>>) -> 1 .. 0] /\ \A i \in 1 .. Len(<<>>) : FALSE
      OBVIOUS
    <3>2. \A i \in 1 .. 0 : FALSE
      OBVIOUS
    <3>. HIDE DEF m
    <3>. QED BY <3>1, <3>2, Zenon DEF Left, Increasing
  <2>3. f[0] \in Seq(A) /\ Left(f[0], s, t, 0)
    BY <2>1, <2>2
  <2>. QED BY <2>3
<1>3. ASSUME NEW n \in Nat, n \in S PROVE n + 1 \in S
  <2>1. SUFFICES ASSUME n + 1 <= Len(s)
                 PROVE  f[n + 1] \in Seq(A) /\ Left(f[n + 1], s, t, n + 1)
    OBVIOUS
  <2>2. f[n] \in Seq(A) /\ Left(f[n], s, t, n) /\ s[n + 1] \in A
    BY <1>0, <1>3, <2>1
  <2>3. f[n + 1] = IF Expired(s[n + 1], t) THEN f[n] ELSE Append(f[n], s[n + 1])
    BY <1>0, <1>1, <2>1
  <2>4. /\ Expired(s[n + 1], t) => Left(f[n], s, t, n + 1)
        /\ ~Expired(s[n + 1], t) => Left(Append(f[n], s[n + 1]), s, t, n + 1)
    BY <2>1, <2>2, LeftStep
  <2>. QED BY <2>2, <2>3, <2>4
<1>4. \A n \in Nat : n \in S
  <2>. HIDE DEF S
  <2>. QED BY <1>2, <1>3, Inductive
<1>. QED BY <1>0, <1>4 DEF f

-----------------------------------------------------------------------------
(* The keys in the order of their last use. *)

Node == [key : Key, value : Value, expire : 0 .. (MaxTime + Ttl)]

Unique(r) == \A i, j \in 1 .. Len(r) : r[i] = r[j] => i = j

(* q is r after a use of k, which was at a in r; Len(r) + 1 stands for "not *)
(* there".                                                                 *)
Used(q, r, k, a) ==
    /\ q \in Seq(Key)
    /\ IF a <= Len(r) THEN r[a] = k /\ Len(q) = Len(r)
       ELSE Len(q) = Len(r) + 1 /\ \A i \in 1 .. Len(r) : r[i] # k
    /\ \A p \in 1 .. Len(q) : q[p] = IF p = 1 THEN k ELSE IF p <= a THEN r[p - 1] ELSE r[p]

LEMMA MostRecentIs ==
    ASSUME recency \in Seq(Key), NEW k \in Key
    PROVE  \E a \in 1 .. Len(recency) + 1 : Used(MostRecent(k), recency, k, a)
<1> DEFINE old == {i \in 1 .. Len(recency) : recency[i] = k}
<1>1. CASE old = {}
  <2>1. MostRecent(k) = <<k>> \o recency
    BY <1>1 DEF MostRecent
  <2>2. /\ MostRecent(k) \in Seq(Key) /\ Len(MostRecent(k)) = Len(recency) + 1
        /\ \A i \in 1 .. Len(recency) + 1 : MostRecent(k)[i] = IF i = 1 THEN k ELSE recency[i - 1]
    BY <2>1, ConsIs
  <2>3. Used(MostRecent(k), recency, k, Len(recency) + 1)
    BY <1>1, <2>2 DEF Used
  <2>. QED BY <2>3
<1>2. CASE old # {}
  <2>1. PICK a \in 1 .. Len(recency) : recency[a] = k /\ a = CHOOSE i \in old : TRUE
    BY <1>2
  <2> DEFINE s == Erase(recency, a)
  <2>2. MostRecent(k) = <<k>> \o s
    BY <1>2, <2>1 DEF MostRecent
  <2>3. /\ s \in Seq(Key) /\ Len(s) = Len(recency) - 1
        /\ \A i \in 1 .. Len(recency) - 1 : s[i] = IF i < a THEN recency[i] ELSE recency[i + 1]
    BY <2>1, EraseIs
  <2>. HIDE DEF s
  <2>4. /\ MostRecent(k) \in Seq(Key) /\ Len(MostRecent(k)) = Len(recency)
        /\ \A i \in 1 .. Len(recency) : MostRecent(k)[i] = IF i = 1 THEN k ELSE s[i - 1]
    BY <2>2, <2>3, ConsIs
  <2>5. ASSUME NEW p \in 2 .. Len(recency)
        PROVE  s[p - 1] = IF p <= a THEN recency[p - 1] ELSE recency[p]
    <3>1. p - 1 \in 1 .. Len(recency) - 1 /\ (p - 1 < a <=> p <= a) /\ (p - 1) + 1 = p
      OBVIOUS
    <3>. QED BY <2>3, <3>1
  <2>6. Used(MostRecent(k), recency, k, a)
    BY <2>1, <2>4, <2>5 DEF Used
  <2>. QED BY <2>6
<1>. QED BY <1>1, <1>2

LEMMA UsedUnique ==
    ASSUME NEW r \in Seq(Key), Unique(r), NEW q, NEW k, NEW a \in 1 .. Len(r) + 1, Used(q, r, k, a)
    PROVE  Unique(q)
<1>1. ASSUME NEW p \in 1 .. Len(q), p # 1
      PROVE  LET b == IF p <= a THEN p - 1 ELSE p
             IN  b \in 1 .. Len(r) /\ b # a /\ q[p] = r[b] /\ r[b] # k
  BY <1>1 DEF Unique, Used
<1>. QED BY <1>1 DEF Unique, Used

(* Another key never moves forward. *)
LEMMA UsedOlder ==
    ASSUME NEW r \in Seq(Key), Unique(r), NEW q, NEW k, NEW a \in 1 .. Len(r) + 1, Used(q, r, k, a),
           NEW i \in 1 .. Len(r), r[i] # k
    PROVE  LET j == IF i < a THEN i + 1 ELSE i
           IN  j \in 2 .. Len(q) /\ q[j] = r[i] /\ i <= j
BY DEF Unique, Used

-----------------------------------------------------------------------------
(* What list, map and history have to do with each other. *)

Distinct(c) == \A i, j \in 1 .. Len(c) : c[i].key = c[j].key => i = j

(* The list has its keys in the order of their last use. *)
Embeds(c, r) ==
    \E e \in [1 .. Len(c) -> 1 .. Len(r)] :
        Increasing(e, Len(c)) /\ \A i \in 1 .. Len(c) : r[e[i]] = c[i].key

Remembered(c, l) ==
    \A i \in 1 .. Len(c) : l[c[i].key] = [value |-> c[i].value, expire |-> c[i].expire]

(* Why a key is not in the map: it has expired, or Capacity keys were used *)
(* after it.                                                               *)
Excuse(k, r, l, t) ==
    l[k].expire <= t \/ \E i \in 1 .. Len(r) : r[i] = k /\ i > Capacity

Excused(m, r, l, t) == \A k \in Key \ m : Excuse(k, r, l, t)

Matches(c, m, r, l) == m = Keys(c) /\ Distinct(c) /\ Embeds(c, r) /\ Remembered(c, l)

Agrees(c, m, r, l, t) == Matches(c, m, r, l) /\ Excused(m, r, l, t)

LEMMA SubAgrees ==
    ASSUME NEW c \in Seq(Node), NEW d \in Seq(Node), NEW r \in Seq(Key), NEW l, Sub(d, c)
    PROVE  /\ Keys(d) \subseteq Keys(c)
           /\ Distinct(c) => Distinct(d)
           /\ Remembered(c, l) => Remembered(d, l)
           /\ Embeds(c, r) => Embeds(d, r)
<1>1. PICK m \in [1 .. Len(d) -> 1 .. Len(c)] :
          Increasing(m, Len(d)) /\ \A i \in 1 .. Len(d) : d[i] = c[m[i]]
  BY DEF Sub
<1>2. \A i \in 1 .. Len(d) : m[i] \in 1 .. Len(c) /\ d[i] = c[m[i]]
  BY <1>1
<1>3. \A i, j \in 1 .. Len(d) : m[i] = m[j] => i = j
  BY <1>1 DEF Increasing
<1>4. Keys(d) \subseteq Keys(c)
  BY <1>2 DEF Keys
<1>5. ASSUME Distinct(c) PROVE Distinct(d)
  <2>1. ASSUME NEW i \in 1 .. Len(d), NEW j \in 1 .. Len(d), d[i].key = d[j].key PROVE i = j
    <3>1. m[i] \in 1 .. Len(c) /\ m[j] \in 1 .. Len(c) /\ c[m[i]].key = c[m[j]].key
      BY <1>2, <2>1
    <3>2. m[i] = m[j]
      BY <1>5, <3>1 DEF Distinct
    <3>. QED BY <1>3, <3>2
  <2>. QED BY <2>1 DEF Distinct
<1>6. Remembered(c, l) => Remembered(d, l)
  BY <1>2 DEF Remembered
<1>7. ASSUME Embeds(c, r) PROVE Embeds(d, r)
  <2>1. PICK e \in [1 .. Len(c) -> 1 .. Len(r)] :
            Increasing(e, Len(c)) /\ \A i \in 1 .. Len(c) : r[e[i]] = c[i].key
    BY <1>7 DEF Embeds
  <2> DEFINE o == [i \in 1 .. Len(d) |-> e[m[i]]]
  <2>2. o \in [1 .. Len(d) -> 1 .. Len(r)] /\ \A i \in 1 .. Len(d) : o[i] = e[m[i]]
    BY <1>2
  <2>. HIDE DEF o
  <2>3. Increasing(o, Len(d))
    BY <1>1, <1>2, <2>1, <2>2 DEF Increasing
  <2>4. \A i \in 1 .. Len(d) : r[o[i]] = d[i].key
    BY <1>2, <2>1, <2>2
  <2>. QED BY <2>2, <2>3, <2>4 DEF Embeds
<1>. QED BY <1>4, <1>5, <1>6, <1>7

LEMMA EraseKeys ==
    ASSUME NEW c \in Seq(Node), NEW a \in 1 .. Len(c), Distinct(c)
    PROVE  Keys(Erase(c, a)) = Keys(c) \ {c[a].key}
<1> DEFINE d == Erase(c, a)
<1>1. /\ d \in Seq(Node) /\ Len(d) = Len(c) - 1
      /\ \A i \in 1 .. Len(c) - 1 : d[i] = IF i < a THEN c[i] ELSE c[i + 1]
  BY EraseIs
<1>. HIDE DEF d
<1>2. ASSUME NEW i \in 1 .. Len(d) PROVE d[i].key \in Keys(c) \ {c[a].key}
  <2>1. \E j \in 1 .. Len(c) : j # a /\ d[i] = c[j]
    BY <1>1
  <2>. QED BY <2>1 DEF Distinct, Keys
<1>3. ASSUME NEW j \in 1 .. Len(c), j # a
      PROVE  LET i == IF j < a THEN j ELSE j - 1 IN i \in 1 .. Len(d) /\ d[i] = c[j]
  BY <1>1, <1>3
<1>4. \A j \in 1 .. Len(c) : j # a => c[j].key \in Keys(d)
  BY <1>3 DEF Keys
<1>5. Keys(d) = Keys(c) \ {c[a].key}
  BY <1>2, <1>4 DEF Keys
<1>. QED BY <1>5 DEF d

LEMMA EraseMatches ==
    ASSUME NEW c \in Seq(Node), NEW m, NEW r \in Seq(Key), NEW l, NEW a \in 1 .. Len(c),
           Matches(c, m, r, l)
    PROVE  Matches(Erase(c, a), m \ {c[a].key}, r, l)
<1>1. Erase(c, a) \in Seq(Node) /\ Sub(Erase(c, a), c)
  BY EraseIs, EraseSub, Zenon
<1>2. Keys(Erase(c, a)) = Keys(c) \ {c[a].key}
  BY EraseKeys DEF Matches
<1>. QED BY <1>1, <1>2, SubAgrees DEF Matches

(* c is d with n in front. *)
Cons(c, n, d) ==
    /\ Len(c) = Len(d) + 1 /\ c[1] = n
    /\ \A i \in 1 .. Len(c) : i # 1 => i - 1 \in 1 .. Len(d) /\ c[i] = d[i - 1]
    /\ \A i \in 1 .. Len(d) : i + 1 \in 1 .. Len(c) /\ c[i + 1] = d[i]

LEMMA NodeInFront ==
    ASSUME NEW n \in Node, NEW d \in Seq(Node)
    PROVE  <<n>> \o d \in Seq(Node) /\ Cons(<<n>> \o d, n, d)
<1> DEFINE c == <<n>> \o d
<1>1. /\ c \in Seq(Node) /\ Len(c) = Len(d) + 1 /\ Len(d) \in Nat
      /\ \A i \in 1 .. Len(d) + 1 : c[i] = IF i = 1 THEN n ELSE d[i - 1]
  BY ConsIs
<1>. HIDE DEF c
<1>2. Cons(c, n, d)
  BY <1>1 DEF Cons
<1>. QED BY <1>1, <1>2 DEF c

LEMMA ConsKeys ==
    ASSUME NEW d \in Seq(Node), NEW n \in Node, NEW c \in Seq(Node), Cons(c, n, d)
    PROVE  /\ Keys(c) = Keys(d) \union {n.key}
           /\ Distinct(d) /\ n.key \notin Keys(d) => Distinct(c)
<1>1. 1 \in 1 .. Len(c)
  BY DEF Cons
<1>2. \A i \in 1 .. Len(c) : c[i].key \in Keys(d) \union {n.key}
  BY DEF Cons, Keys
<1>3. \A i \in 1 .. Len(d) : d[i].key \in Keys(c)
  BY DEF Cons, Keys
<1>4. ASSUME Distinct(d), n.key \notin Keys(d), NEW i \in 1 .. Len(c), NEW j \in 1 .. Len(c),
             c[i].key = c[j].key
      PROVE  i = j
  <2>1. \A k \in 1 .. Len(c) : k # 1 => c[k].key \in Keys(d)
    BY DEF Cons, Keys
  <2>2. CASE i = 1 \/ j = 1
    BY <1>4, <2>1, <2>2 DEF Cons
  <2>3. CASE i # 1 /\ j # 1
    <3>1. /\ i - 1 \in 1 .. Len(d) /\ c[i] = d[i - 1]
          /\ j - 1 \in 1 .. Len(d) /\ c[j] = d[j - 1]
      BY <2>3 DEF Cons
    <3>2. i - 1 = j - 1
      BY <1>4, <3>1 DEF Distinct
    <3>. QED BY <3>2
  <2>. QED BY <2>2, <2>3
<1>5. Keys(c) = Keys(d) \union {n.key}
  BY <1>1, <1>2, <1>3 DEF Cons, Keys
<1>. QED BY <1>4, <1>5 DEF Distinct

LEMMA ConsEmbeds ==
    ASSUME NEW d \in Seq(Node), NEW n \in Node, n.key \notin Keys(d), NEW c \in Seq(Node),
           Cons(c, n, d), NEW r \in Seq(Key), Unique(r), Embeds(d, r),
           NEW q, NEW a \in 1 .. Len(r) + 1, Used(q, r, n.key, a)
    PROVE  Embeds(c, q)
<1>1. PICK e \in [1 .. Len(d) -> 1 .. Len(r)] :
          Increasing(e, Len(d)) /\ \A i \in 1 .. Len(d) : r[e[i]] = d[i].key
  BY DEF Embeds
<1>2. \A i \in 1 .. Len(d) : e[i] \in 1 .. Len(r) /\ r[e[i]] # n.key
  BY <1>1 DEF Keys
<1> DEFINE g == [i \in 1 .. Len(d) |-> IF e[i] < a THEN e[i] + 1 ELSE e[i]]
           o == [j \in 1 .. Len(c) |-> IF j = 1 THEN 1 ELSE g[j - 1]]
<1>3. ASSUME NEW i \in 1 .. Len(d) PROVE g[i] \in 2 .. Len(q) /\ q[g[i]] = d[i].key
  <2>1. e[i] \in 1 .. Len(r) /\ r[e[i]] # n.key /\ r[e[i]] = d[i].key
    BY <1>1, <1>2
  <2>. QED BY <2>1, UsedOlder
<1>4. ASSUME NEW i \in 1 .. Len(d), NEW j \in 1 .. Len(d), i < j PROVE g[i] < g[j]
  <2>1. e[i] < e[j] /\ e[i] \in Int /\ e[j] \in Int /\ a \in Int
    BY <1>1, <1>2, <1>4 DEF Increasing
  <2>2. g[i] = IF e[i] < a THEN e[i] + 1 ELSE e[i]
    OBVIOUS
  <2>3. g[j] = IF e[j] < a THEN e[j] + 1 ELSE e[j]
    OBVIOUS
  <2>4. e[j] # a
    BY <1>2 DEF Used
  <2>. HIDE DEF g
  <2>. QED BY <2>1, <2>2, <2>3, <2>4
<1>. HIDE DEF g
<1>5. Len(q) \in Nat /\ Len(q) >= 1 /\ q[1] = n.key
  BY DEF Used
<1>6. \A j \in 1 .. Len(c) : o[j] = IF j = 1 THEN 1 ELSE g[j - 1]
  OBVIOUS
<1>7. o \in [1 .. Len(c) -> 1 .. Len(q)]
  BY <1>3, <1>5 DEF Cons
<1>. HIDE DEF o
<1>8. ASSUME NEW j \in 1 .. Len(c) PROVE q[o[j]] = c[j].key
  <2>1. CASE j = 1
    BY <1>5, <1>6, <2>1 DEF Cons
  <2>2. CASE j # 1
    <3>1. j - 1 \in 1 .. Len(d) /\ c[j] = d[j - 1] /\ o[j] = g[j - 1]
      BY <1>6, <2>2 DEF Cons
    <3>. QED BY <1>3, <3>1
  <2>. QED BY <2>1, <2>2
<1>9. ASSUME NEW i \in 1 .. Len(c), NEW j \in 1 .. Len(c), i < j PROVE o[i] < o[j]
  <2>1. j - 1 \in 1 .. Len(d) /\ o[j] = g[j - 1]
    BY <1>6, <1>9 DEF Cons
  <2>2. CASE i = 1
    <3>1. o[i] = 1 /\ g[j - 1] \in 2 .. Len(q)
      BY <1>3, <1>6, <2>1, <2>2
    <3>. QED BY <2>1, <3>1
  <2>3. CASE i # 1
    <3>1. i - 1 \in 1 .. Len(d) /\ o[i] = g[i - 1] /\ i - 1 < j - 1
      BY <1>6, <1>9, <2>3 DEF Cons
    <3>. QED BY <1>4, <2>1, <3>1
  <2>. QED BY <2>2, <2>3
<1>. QED BY <1>7, <1>8, <1>9 DEF Embeds, Increasing

(* l2 remembers the same as l, except that n is the latest put of its key. *)
Remembers(l2, l, n) ==
    \A k \in Key : l2[k] = IF k = n.key THEN [value |-> n.value, expire |-> n.expire] ELSE l[k]

LEMMA ConsRemembered ==
    ASSUME NEW d \in Seq(Node), NEW n \in Node, n.key \notin Keys(d), NEW c \in Seq(Node),
           Cons(c, n, d), NEW l, NEW l2, Remembers(l2, l, n), Remembered(d, l)
    PROVE  Remembered(c, l2)
<1>1. \A x \in Node : x.key \in Key
  BY DEF Node
<1>2. ASSUME NEW i \in 1 .. Len(d)
      PROVE  l2[d[i].key] = [value |-> d[i].value, expire |-> d[i].expire]
  <2>1. d[i].key \in Key /\ d[i].key # n.key
    BY <1>1 DEF Keys
  <2>. QED BY <2>1 DEF Remembers, Remembered
<1>3. l2[n.key] = [value |-> n.value, expire |-> n.expire]
  BY <1>1 DEF Remembers
<1>4. ASSUME NEW j \in 1 .. Len(c)
      PROVE  l2[c[j].key] = [value |-> c[j].value, expire |-> c[j].expire]
  <2>1. c[j] = n \/ \E i \in 1 .. Len(d) : c[j] = d[i]
    BY DEF Cons
  <2>. QED BY <1>2, <1>3, <2>1
<1>. QED BY <1>4 DEF Remembered

(* What put or get do with a node they leave at the front. *)
LEMMA ConsMatches ==
    ASSUME recency \in Seq(Key), Unique(recency), NEW d \in Seq(Node), NEW m, NEW n \in Node,
           n.key \notin m, NEW l2, Remembers(l2, last, n), Matches(d, m, recency, last)
    PROVE  Matches(<<n>> \o d, m \union {n.key}, MostRecent(n.key), l2)
<1>1. <<n>> \o d \in Seq(Node) /\ Cons(<<n>> \o d, n, d)
  BY NodeInFront
<1>2. PICK a \in 1 .. Len(recency) + 1 : Used(MostRecent(n.key), recency, n.key, a)
  BY MostRecentIs DEF Node
<1>3. Keys(<<n>> \o d) = Keys(d) \union {n.key} /\ Distinct(<<n>> \o d)
  BY <1>1, ConsKeys DEF Matches
<1>4. Embeds(<<n>> \o d, MostRecent(n.key))
  BY <1>1, <1>2, ConsEmbeds DEF Matches
<1>5. Remembered(<<n>> \o d, l2)
  BY <1>1, ConsRemembered DEF Matches
<1>. QED BY <1>3, <1>4, <1>5 DEF Matches

LEMMA StillExcused ==
    ASSUME recency \in Seq(Key), Unique(recency), NEW n \in Node, NEW l2, Remembers(l2, last, n),
           NEW t, NEW k \in Key, k # n.key, Excuse(k, recency, last, t)
    PROVE  Excuse(k, MostRecent(n.key), l2, t)
<1> DEFINE q == MostRecent(n.key)
<1>1. PICK a \in 1 .. Len(recency) + 1 : Used(q, recency, n.key, a)
  BY MostRecentIs DEF Node
<1>. HIDE DEF q
<1>2. l2[k] = last[k]
  BY DEF Remembers
<1>3. ASSUME NEW i \in 1 .. Len(recency), recency[i] = k, i > Capacity
      PROVE  \E j \in 1 .. Len(q) : q[j] = k /\ j > Capacity
  <2>1. \E j \in 2 .. Len(q) : q[j] = k /\ i <= j
    BY <1>1, <1>3, UsedOlder
  <2>. QED BY <1>3, <2>1, CapacityAssumption
<1>. QED BY <1>2, <1>3 DEF Excuse, q

-----------------------------------------------------------------------------
(* The inductive invariant. *)

Types ==
    /\ now \in 0 .. MaxTime
    /\ cache \in Seq(Node)
    /\ key_map \subseteq Key
    /\ reply \in [key : Key, result : Value \union {Absent}, at : 0 .. MaxTime]
    /\ corrupt \in BOOLEAN /\ misread \in BOOLEAN
    /\ recency \in Seq(Key) /\ Unique(recency)
    /\ last \in [Key -> [value : Value \union {Absent}, expire : Int]]

IInv ==
    /\ Types
    /\ SizeBounded
    /\ ~misread => ~corrupt /\ Agrees(cache, key_map, recency, last, now)

(* As time passes more is expired. *)
LEMMA LaterAgrees ==
    ASSUME Types, NEW c, NEW m, NEW t \in Int, NEW u \in Int, t <= u, Agrees(c, m, recency, last, t)
    PROVE  Agrees(c, m, recency, last, u)
<1>1. \A k \in Key : last[k].expire \in Int
  BY DEF Types
<1>. QED BY <1>1 DEF Agrees, Excused, Excuse

(* What clean_expire leaves behind. *)
LEMMA CleanIs ==
    ASSUME Types
    PROVE  /\ Cleaned(now) \in Seq(Node) /\ Len(Cleaned(now)) <= Len(cache)
           /\ CleanedMap(now) \subseteq Key
           /\ Agrees(cache, key_map, recency, last, now)
                 => Agrees(Cleaned(now), CleanedMap(now), recency, last, now)
<1> DEFINE c == Cleaned(now)
<1>1. c \in Seq(Node) /\ Left(c, cache, now, Len(cache))
  BY SurvivorsAre DEF Types, Cleaned
<1>. HIDE DEF c
<1>2. PICK e \in [1 .. Len(c) -> 1 .. Len(cache)] :
        /\ Increasing(e, Len(c))
        /\ \A i \in 1 .. Len(c) : c[i] = cache[e[i]] /\ ~Expired(cache[e[i]], now)
        /\ \A j \in 1 .. Len(cache) : Expired(cache[j], now) \/ \E i \in 1 .. Len(c) : e[i] = j
  BY <1>1 DEF Left
<1>3. Sub(c, cache)
  BY <1>2 DEF Sub
<1>4. Len(c) <= Len(cache)
  BY <1>1, <1>3, SubLen DEF Types
<1>5. CleanedMap(now) \subseteq Key
  BY DEF CleanedMap, Types
<1>6. ASSUME Agrees(cache, key_map, recency, last, now)
      PROVE  Agrees(c, CleanedMap(now), recency, last, now)
  <2>1. Distinct(c) /\ Embeds(c, recency) /\ Remembered(c, last) /\ Keys(c) \subseteq key_map
    BY <1>1, <1>3, <1>6, SubAgrees DEF Agrees, Matches, Types
  <2>2. \A k : k \in CleanedMap(now) <=>
              k \in key_map /\ ~ \E j \in 1 .. Len(cache) : cache[j].key = k /\ Expired(cache[j], now)
    BY DEF CleanedMap
  <2>3. ASSUME NEW k \in Keys(c) PROVE k \in CleanedMap(now)
    <3>1. PICK i \in 1 .. Len(c) : k = c[i].key
      BY <2>3 DEF Keys
    <3>2. e[i] \in 1 .. Len(cache) /\ k = cache[e[i]].key /\ ~Expired(cache[e[i]], now)
      BY <1>2, <3>1
    <3>3. \A j \in 1 .. Len(cache) : cache[j].key = k => j = e[i]
      BY <1>6, <3>2 DEF Agrees, Matches, Distinct
    <3>. QED BY <2>1, <2>2, <3>2, <3>3
  <2>4. ASSUME NEW k \in CleanedMap(now) PROVE k \in Keys(c)
    <3>1. PICK j \in 1 .. Len(cache) : k = cache[j].key
      BY <1>6, <2>2 DEF Agrees, Matches, Keys
    <3>2. PICK i \in 1 .. Len(c) : e[i] = j
      BY <1>2, <2>2, <3>1
    <3>. QED BY <1>2, <3>1, <3>2 DEF Keys
  <2>5. ASSUME NEW k \in Key, k \notin CleanedMap(now) PROVE Excuse(k, recency, last, now)
    <3>1. CASE k \notin key_map
      BY <1>6, <3>1 DEF Agrees, Excused
    <3>2. CASE k \in key_map
      <4>1. PICK j \in 1 .. Len(cache) : cache[j].key = k /\ Expired(cache[j], now)
        BY <2>2, <2>5, <3>2
      <4>2. last[k] = [value |-> cache[j].value, expire |-> cache[j].expire]
        BY <1>6, <4>1 DEF Agrees, Matches, Remembered
      <4>3. last[k].expire = cache[j].expire
        BY <4>2
      <4>. QED BY <4>1, <4>3 DEF Excuse, Expired
    <3>. QED BY <3>1, <3>2
  <2>. QED BY <2>1, <2>3, <2>4, <2>5 DEF Agrees, Matches, Excused
<1>. QED BY <1>1, <1>4, <1>5, <1>6 DEF c

(* The state in which get and put find the cache after clean_expire, at    *)
(* the time of their second reading of the clock.                          *)
LEMMA CallStart ==
    ASSUME IInv, NEW t2 \in now .. MaxTime
    PROVE  /\ Types /\ t2 \in 0 .. MaxTime
           /\ Cleaned(now) \in Seq(Node) /\ Len(Cleaned(now)) \in 0 .. Capacity
           /\ CleanedMap(now) \subseteq Key
           /\ ~misread => Agrees(Cleaned(now), CleanedMap(now), recency, last, t2)
<1>. Types /\ Len(cache) <= Capacity
  BY DEF IInv, SizeBounded
<1>1. now \in Int /\ t2 \in Int /\ now <= t2 /\ t2 \in 0 .. MaxTime /\ Len(cache) \in Nat
  BY TimeAssumption DEF Types
<1>2. /\ Cleaned(now) \in Seq(Node) /\ Len(Cleaned(now)) <= Len(cache)
      /\ CleanedMap(now) \subseteq Key
      /\ Agrees(cache, key_map, recency, last, now)
            => Agrees(Cleaned(now), CleanedMap(now), recency, last, now)
  BY CleanIs
<1>3. Len(Cleaned(now)) \in 0 .. Capacity
  BY <1>1, <1>2, CapacityAssumption
<1>4. ~misread => Agrees(Cleaned(now), CleanedMap(now), recency, last, t2)
  BY <1>1, <1>2, LaterAgrees DEF IInv
<1>. QED BY <1>1, <1>2, <1>3, <1>4

(* In a list that has outgrown the capacity, Capacity other keys have been *)
(* used after the last one.                                                *)
LEMMA LastIsOld ==
    ASSUME NEW c \in Seq(Node), NEW r \in Seq(Key), NEW l, NEW t, Embeds(c, r), Len(c) = Capacity + 1
    PROVE  Excuse(c[Len(c)].key, r, l, t)
<1>1. PICK e \in [1 .. Len(c) -> 1 .. Len(r)] :
          Increasing(e, Len(c)) /\ \A i \in 1 .. Len(c) : r[e[i]] = c[i].key
  BY DEF Embeds
<1>2. Len(c) \in Nat /\ Len(r) \in Nat /\ Len(c) \in 1 .. Len(c)
  BY CapacityAssumption
<1>3. Len(c) <= e[Len(c)]
  BY <1>1, <1>2, AtLeast
<1>4. e[Len(c)] \in 1 .. Len(r) /\ e[Len(c)] > Capacity
  BY <1>1, <1>2, <1>3, CapacityAssumption
<1>. QED BY <1>1, <1>2, <1>4 DEF Excuse

(* So the key that put evicts from a full list has its excuse. *)
LEMMA EvictedExcused ==
    ASSUME Types, NEW c \in Seq(Node), Len(c) = Capacity, NEW m, NEW n \in Node, n.key \notin m,
           NEW l2, NEW t, Remembers(l2, last, n), Matches(c, m, recency, last)
    PROVE  Excuse(Evicted(c), MostRecent(n.key), l2, t)
<1> DEFINE b == <<n>> \o c
           r == MostRecent(n.key)
<1>1. Embeds(b, r)
  BY ConsMatches DEF Types, Matches
<1>2. b \in Seq(Node) /\ Cons(b, n, c)
  BY NodeInFront
<1>3. r \in Seq(Key)
  BY MostRecentIs DEF Types, Node, Used
<1>. HIDE DEF b, r
<1>4. Len(b) = Capacity + 1 /\ b[Len(b)] = c[Len(c)]
  BY <1>2, CapacityAssumption DEF Cons
<1>5. Excuse(b[Len(b)].key, r, l2, t)
  BY <1>1, <1>2, <1>3, <1>4, LastIsOld
<1>. QED BY <1>4, <1>5 DEF r, Evicted

-----------------------------------------------------------------------------
(* Every step keeps the invariant. *)

IsReply(r) == r \in [key : Key, result : Value \union {Absent}, at : 0 .. MaxTime]

(* A step that ends with the node n in front of the list d. *)
LEMMA FrontKeeps ==
    ASSUME Types, NEW d \in Seq(Node), Len(d) < Capacity, NEW m, m \subseteq Key, NEW n \in Node,
           now' \in 0 .. MaxTime, cache' = <<n>> \o d, key_map' = m \union {n.key},
           recency' = MostRecent(n.key), IsReply(reply'), corrupt' = corrupt, misread' = misread,
           last' \in [Key -> [value : Value \union {Absent}, expire : Int]],
           ~misread => /\ ~corrupt /\ n.key \notin m
                       /\ Matches(d, m, recency, last) /\ Remembers(last', last, n)
                       /\ Excused(m \union {n.key}, MostRecent(n.key), last', now')
    PROVE  IInv'
<1>1. n.key \in Key
  BY DEF Node
<1>2. PICK a \in 1 .. Len(recency) + 1 : Used(MostRecent(n.key), recency, n.key, a)
  BY <1>1, MostRecentIs DEF Types
<1>3. MostRecent(n.key) \in Seq(Key) /\ Unique(MostRecent(n.key))
  <2>1. recency \in Seq(Key) /\ Unique(recency)
    BY DEF Types
  <2>2. Unique(MostRecent(n.key))
    BY <1>2, <2>1, UsedUnique
  <2>. QED BY <1>2, <2>2 DEF Used
<1>4. cache' \in Seq(Node) /\ Len(cache') <= Capacity
  BY NodeInFront, CapacityAssumption DEF Cons
<1>5. Types'
  BY <1>1, <1>3, <1>4 DEF Types, IsReply
<1>6. ~misread => Matches(<<n>> \o d, m \union {n.key}, MostRecent(n.key), last')
  BY ConsMatches DEF Types
<1>. QED BY <1>4, <1>5, <1>6 DEF IInv, SizeBounded, Agrees

LEMMA TypesAre == Types => TypeOK
<1>1. \A c \in Seq(Node) : \A i \in 1 .. Len(c) : c[i] \in Node
  OBVIOUS
<1>. QED BY <1>1 DEF Types, TypeOK, Node

LEMMA InitKeeps == Init => IInv
<1> SUFFICES ASSUME Init PROVE IInv
  OBVIOUS
<1>1. cache \in Seq(Node) /\ Len(cache) = 0 /\ recency \in Seq(Key) /\ Len(recency) = 0
  BY DEF Init
<1>2. Unique(recency) /\ Distinct(cache) /\ Remembered(cache, last) /\ Keys(cache) = {}
  BY <1>1 DEF Unique, Distinct, Remembered, Keys
<1>3. Types
  <2>1. now \in 0 .. MaxTime /\ last \in [Key -> [value : Value \union {Absent}, expire : Int]]
    BY TimeAssumption DEF Init, NeverPut
  <2>. QED BY <1>1, <1>2, <2>1, TimeAssumption DEF Types, Init
<1>4. Embeds(cache, recency)
  <2> DEFINE e == [i \in 1 .. Len(cache) |-> i]
  <2>1. e \in [1 .. Len(cache) -> 1 .. Len(recency)] /\ 1 .. Len(cache) = {}
    BY <1>1
  <2>. HIDE DEF e
  <2>. QED BY <2>1 DEF Embeds, Increasing
<1>5. Excused(key_map, recency, last, now)
  <2>1. ASSUME NEW k \in Key PROVE last[k].expire <= now
    <3>1. last[k].expire = -1 /\ now = 0
      BY DEF Init, NeverPut
    <3>. QED BY <3>1
  <2>. QED BY <2>1 DEF Excused, Excuse
<1>. QED BY <1>1, <1>2, <1>3, <1>4, <1>5, CapacityAssumption
         DEF Init, IInv, SizeBounded, Agrees, Matches

LEMMA TickKeeps == ASSUME IInv, Tick PROVE IInv'
<1>1. Types' /\ SizeBounded'
  BY TimeAssumption DEF IInv, Tick, Types, SizeBounded
<1>2. now \in Int /\ now + 1 \in Int /\ now <= now + 1
  BY DEF IInv, Types
<1>3. ~misread => Agrees(cache, key_map, recency, last, now + 1)
  BY <1>2, LaterAgrees DEF IInv
<1>. QED BY <1>1, <1>3 DEF IInv, Tick

LEMMA GetMissingKeeps == ASSUME IInv, NEW k \in Key, GetMissing(k) PROVE IInv'
<1>1. now \in now .. MaxTime
  BY TimeAssumption DEF IInv, Types
<1>. Types
  BY DEF IInv
<1>2. /\ Cleaned(now) \in Seq(Node) /\ Len(Cleaned(now)) \in 0 .. Capacity
      /\ CleanedMap(now) \subseteq Key
      /\ ~misread => Agrees(Cleaned(now), CleanedMap(now), recency, last, now)
  BY <1>1, CallStart
<1>3. Types' /\ SizeBounded'
  BY <1>2, CapacityAssumption DEF Types, SizeBounded, GetMissing, Reply
<1>. QED BY <1>2, <1>3 DEF IInv, GetMissing

(* get or put follow an iterator that dangles only after a misread. *)
LEMMA DanglingKeeps ==
    ASSUME IInv, NEW k \in Key, GetDangling(k) \/ \E v \in Value : PutDangling(k, v)
    PROVE  IInv'
<1>. Types /\ SizeBounded
  BY DEF IInv
<1>1. misread
  <2>1. now \in now .. MaxTime
    BY TimeAssumption DEF Types
  <2>2. misread \/ CleanedMap(now) = Keys(Cleaned(now))
    BY <2>1, CallStart DEF Agrees, Matches
  <2>. QED BY <2>2 DEF GetDangling, PutDangling
<1>2. IsReply(reply')
  BY DEF Types, IsReply, GetDangling, PutDangling, Reply
<1>3. Types'
  BY <1>2 DEF Types, IsReply, GetDangling, PutDangling
<1>. QED BY <1>1, <1>3 DEF IInv, SizeBounded, GetDangling, PutDangling

LEMMA InFront ==
    ASSUME Types, NEW c \in Seq(Node), NEW k \in Keys(c), Len(c) \in 0 .. Capacity
    PROVE  /\ At(c, k) \in 1 .. Len(c) /\ c[At(c, k)].key = k /\ c[At(c, k)] \in Node
           /\ Without(c, k) \in Seq(Node) /\ Len(Without(c, k)) < Capacity
<1>1. At(c, k) \in 1 .. Len(c) /\ c[At(c, k)].key = k
  BY AtIs
<1>2. Without(c, k) \in Seq(Node) /\ Len(Without(c, k)) = Len(c) - 1
  BY <1>1, EraseIs DEF Without
<1>. QED BY <1>1, <1>2, CapacityAssumption

(* The list without the node of k, once k's node is to be put in front. *)
LEMMA WithoutMatches ==
    ASSUME Types, NEW c \in Seq(Node), NEW m, NEW t, Agrees(c, m, recency, last, t),
           NEW n \in Node, n.key \in m, NEW l2, Remembers(l2, last, n)
    PROVE  /\ Matches(Without(c, n.key), m \ {n.key}, recency, last)
           /\ Excused(m, MostRecent(n.key), l2, t)
<1>1. At(c, n.key) \in 1 .. Len(c) /\ c[At(c, n.key)].key = n.key
  BY AtIs DEF Agrees, Matches
<1>2. Matches(Without(c, n.key), m \ {n.key}, recency, last)
  BY <1>1, EraseMatches DEF Agrees, Without, Types
<1>3. ASSUME NEW k \in Key \ m PROVE Excuse(k, MostRecent(n.key), l2, t)
  <2>1. k # n.key /\ Excuse(k, recency, last, t)
    BY DEF Agrees, Excused
  <2>. QED BY <2>1, StillExcused DEF Types
<1>. QED BY <1>2, <1>3 DEF Excused

LEMMA GetFoundKeeps ==
    ASSUME IInv, ~corrupt, NEW k \in Key, NEW t2 \in now .. MaxTime, GetFound(k, t2)
    PROVE  IInv'
<1> DEFINE c == Cleaned(now)
           m == CleanedMap(now)
           n == c[At(c, k)]
<1>. /\ Types /\ t2 \in 0 .. MaxTime /\ c \in Seq(Node) /\ Len(c) \in 0 .. Capacity /\ m \subseteq Key
     /\ ~misread => Agrees(c, m, recency, last, t2)
  BY CallStart
<1>1. k \in m /\ k \in Keys(c) /\ now' = t2 /\ corrupt' = corrupt /\ last' = last
  BY DEF GetFound
<1>2. Expired(n, t2) => /\ cache' = Without(c, k) /\ recency' = recency /\ Reply(k, Absent, t2)
                        /\ \E e \in ErasedKey : key_map' = m \ {e} /\ misread' = (misread \/ e # k)
  BY DEF GetFound
<1>3. ~Expired(n, t2) => /\ cache' = <<n>> \o Without(c, k) /\ key_map' = m /\ Reply(k, n.value, t2)
                         /\ recency' = MostRecent(k) /\ misread' = misread
  BY DEF GetFound, Touch
<1>. HIDE DEF c, m, n
<1>4. /\ At(c, k) \in 1 .. Len(c) /\ n.key = k /\ n \in Node
      /\ Without(c, k) \in Seq(Node) /\ Len(Without(c, k)) < Capacity
  BY <1>1, InFront DEF n
<1>5. ~misread => last[k] = [value |-> n.value, expire |-> n.expire]
  BY <1>4 DEF Agrees, Matches, Remembered, n
<1>6. CASE Expired(n, t2)
  <2>1. PICK e \in ErasedKey : key_map' = m \ {e} /\ misread' = (misread \/ e # k)
    BY <1>2, <1>6
  <2>2. IsReply(reply') /\ cache' = Without(c, k) /\ recency' = recency
    BY <1>2, <1>6 DEF Reply, IsReply
  <2>3. Types' /\ SizeBounded'
    BY <1>1, <1>4, <2>1, <2>2, CapacityAssumption DEF Types, IsReply, SizeBounded
  <2>4. ASSUME ~misread, e = k PROVE Agrees(Without(c, k), m \ {k}, recency, last, t2)
    <3>1. Matches(Without(c, k), m \ {k}, recency, last)
      BY <1>4, <2>4, EraseMatches DEF Agrees, Without, Types, n
    <3>2. last[k].expire = n.expire
      BY <1>5, <2>4
    <3>3. Excuse(k, recency, last, t2)
      BY <1>6, <3>2 DEF Excuse, Expired
    <3>. QED BY <2>4, <3>1, <3>3 DEF Agrees, Excused
  <2>. QED BY <1>1, <2>1, <2>2, <2>3, <2>4 DEF IInv
<1>7. CASE ~Expired(n, t2)
  <2>1. /\ cache' = <<n>> \o Without(c, n.key) /\ key_map' = (m \ {n.key}) \union {n.key}
        /\ recency' = MostRecent(n.key) /\ misread' = misread /\ IsReply(reply')
    BY <1>1, <1>3, <1>4, <1>7 DEF Reply, IsReply, Node
  <2>2. ~misread => Remembers(last, last, n)
    BY <1>4, <1>5 DEF Remembers
  <2>3. ~misread => /\ Matches(Without(c, n.key), m \ {n.key}, recency, last)
                    /\ Excused(m, MostRecent(n.key), last, t2)
    BY <1>1, <1>4, <2>2, WithoutMatches
  <2>4. m = (m \ {n.key}) \union {n.key} /\ n.key \notin m \ {n.key} /\ m \ {n.key} \subseteq Key
    BY <1>1, <1>4
  <2>5. last \in [Key -> [value : Value \union {Absent}, expire : Int]]
    BY DEF Types
  <2>. QED BY <1>1, <1>4, <2>1, <2>2, <2>3, <2>4, <2>5, FrontKeeps
<1>. QED BY <1>6, <1>7

(* What put leaves in the list, and what is remembered of it. *)
LEMMA NewNode ==
    ASSUME Types, NEW k \in Key, NEW v \in Value, NEW t2 \in 0 .. MaxTime, NEW n,
           n = [key |-> k, value |-> v, expire |-> t2 + Ttl],
           last' = [last EXCEPT ![k] = [value |-> v, expire |-> t2 + Ttl]]
    PROVE  /\ n \in Node /\ n.key = k /\ Remembers(last', last, n)
           /\ last' \in [Key -> [value : Value \union {Absent}, expire : Int]]
<1>1. t2 + Ttl \in Int /\ t2 + Ttl \in 0 .. (MaxTime + Ttl)
  BY TimeAssumption
<1>2. n \in Node /\ n.key = k /\ n.value = v /\ n.expire = t2 + Ttl
  BY <1>1 DEF Node
<1>3. last \in [Key -> [value : Value \union {Absent}, expire : Int]]
  BY DEF Types
<1>. QED BY <1>1, <1>2, <1>3 DEF Remembers

LEMMA PutUpdateKeeps ==
    ASSUME IInv, ~corrupt, NEW k \in Key, NEW v \in Value, NEW t2 \in now .. MaxTime,
           PutUpdate(k, v, t2)
    PROVE  IInv'
<1> DEFINE c == Cleaned(now)
           m == CleanedMap(now)
           n == [key |-> k, value |-> v, expire |-> t2 + Ttl]
<1>. /\ Types /\ t2 \in 0 .. MaxTime /\ c \in Seq(Node) /\ Len(c) \in 0 .. Capacity /\ m \subseteq Key
     /\ ~misread => Agrees(c, m, recency, last, t2)
  BY CallStart
<1>1. /\ k \in m /\ k \in Keys(c) /\ now' = t2 /\ cache' = <<n>> \o Without(c, k) /\ key_map' = m
      /\ last' = [last EXCEPT ![k] = [value |-> v, expire |-> t2 + Ttl]]
      /\ recency' = MostRecent(k) /\ reply' = reply /\ corrupt' = corrupt /\ misread' = misread
  BY DEF PutUpdate
<1>2. /\ n \in Node /\ n.key = k /\ Remembers(last', last, n)
      /\ last' \in [Key -> [value : Value \union {Absent}, expire : Int]]
  BY <1>1, NewNode
<1>. HIDE DEF c, m, n
<1>3. Without(c, n.key) \in Seq(Node) /\ Len(Without(c, n.key)) < Capacity
  BY <1>1, <1>2, InFront
<1>4. ~misread => /\ Matches(Without(c, n.key), m \ {n.key}, recency, last)
                  /\ Excused(m, MostRecent(n.key), last', t2)
  BY <1>1, <1>2, WithoutMatches
<1>5. m = (m \ {n.key}) \union {n.key} /\ n.key \notin m \ {n.key} /\ m \ {n.key} \subseteq Key
  BY <1>1, <1>2
<1>6. /\ cache' = <<n>> \o Without(c, n.key) /\ key_map' = (m \ {n.key}) \union {n.key}
      /\ recency' = MostRecent(n.key) /\ IsReply(reply')
  BY <1>1, <1>2, <1>5 DEF Types, IsReply
<1>7. now' \in 0 .. MaxTime /\ corrupt' = corrupt /\ misread' = misread
  BY <1>1
<1>8. ~misread => Excused((m \ {n.key}) \union {n.key}, MostRecent(n.key), last', now')
  BY <1>1, <1>4, <1>5
<1>. QED BY <1>2, <1>3, <1>4, <1>5, <1>6, <1>7, <1>8, FrontKeeps

(* What put keeps of list and map when it makes room for a new key. *)
LEMMA RoomIs ==
    ASSUME Types, NEW c \in Seq(Node), Len(c) = Capacity
    PROVE  /\ Dropped(c) \in Seq(Node) /\ Len(Dropped(c)) < Capacity
           /\ \A m, l : Matches(c, m, recency, l) => Matches(Dropped(c), m \ {Evicted(c)}, recency, l)
<1>1. Len(c) \in 1 .. Len(c)
  BY CapacityAssumption
<1>2. Dropped(c) \in Seq(Node) /\ Len(Dropped(c)) < Capacity
  BY <1>1, EraseIs, CapacityAssumption DEF Dropped
<1>. QED BY <1>1, <1>2, EraseMatches DEF Dropped, Evicted, Types

LEMMA PutNewKeeps ==
    ASSUME IInv, ~corrupt, NEW k \in Key, NEW v \in Value, NEW t2 \in now .. MaxTime,
           PutNew(k, v, t2)
    PROVE  IInv'
<1> DEFINE c == Cleaned(now)
           m == CleanedMap(now)
           n == [key |-> k, value |-> v, expire |-> t2 + Ttl]
           d == IF IsFull(c) THEN Dropped(c) ELSE c
           o == IF IsFull(c) THEN m \ {Evicted(c)} ELSE m
<1>. /\ Types /\ t2 \in 0 .. MaxTime /\ c \in Seq(Node) /\ Len(c) \in 0 .. Capacity /\ m \subseteq Key
     /\ ~misread => Agrees(c, m, recency, last, t2)
  BY CallStart
<1>1. /\ k \notin m /\ now' = t2 /\ cache' = <<n>> \o d /\ key_map' = o \union {k}
      /\ last' = [last EXCEPT ![k] = [value |-> v, expire |-> t2 + Ttl]]
      /\ recency' = MostRecent(k) /\ reply' = reply /\ corrupt' = corrupt /\ misread' = misread
  BY DEF PutNew
<1>2. /\ n \in Node /\ n.key = k /\ Remembers(last', last, n)
      /\ last' \in [Key -> [value : Value \union {Absent}, expire : Int]]
  BY <1>1, NewNode
<1>. HIDE DEF c, m, n
<1>3. d \in Seq(Node) /\ Len(d) < Capacity
  BY RoomIs, CapacityAssumption DEF IsFull
<1>4. o \subseteq Key /\ n.key \notin m /\ n.key \notin o
  BY <1>1, <1>2
<1>5. ~misread => Matches(d, o, recency, last)
  BY RoomIs DEF Agrees, IsFull
<1>6. ASSUME ~misread, NEW q \in Key \ (o \union {n.key}) PROVE Excuse(q, MostRecent(n.key), last', t2)
  <2>1. CASE q \notin m
    <3>1. q \in Key /\ q # n.key /\ Excuse(q, recency, last, t2)
      BY <1>6, <2>1 DEF Agrees, Excused
    <3>. QED BY <1>2, <3>1, StillExcused DEF Types
  <2>2. CASE q \in m
    <3>1. q = Evicted(c) /\ Len(c) = Capacity
      BY <2>2 DEF IsFull
    <3>2. Matches(c, m, recency, last)
      BY <1>6 DEF Agrees
    <3>. QED BY <1>2, <1>4, <3>1, <3>2, EvictedExcused
  <2>. QED BY <2>1, <2>2
<1>. HIDE DEF d, o
<1>7. ~misread => Excused(o \union {n.key}, MostRecent(n.key), last', t2)
  BY <1>6 DEF Excused
<1>8. key_map' = o \union {n.key} /\ recency' = MostRecent(n.key) /\ IsReply(reply')
  BY <1>1, <1>2 DEF Types, IsReply
<1>. QED BY <1>1, <1>2, <1>3, <1>4, <1>5, <1>7, <1>8, FrontKeeps

LEMMA InductiveStep == IInv /\ [Next]_vars => IInv'
<1> SUFFICES ASSUME IInv, [Next]_vars PROVE IInv'
  OBVIOUS
<1>1. CASE UNCHANGED vars
  <2>1. Types' /\ SizeBounded'
    BY <1>1 DEF IInv, vars, Types, SizeBounded
  <2>. QED BY <1>1, <2>1 DEF IInv, vars
<1>2. CASE Tick
  BY <1>2, TickKeeps
<1>3. ASSUME NEW k \in Key, Get(k) PROVE IInv'
  BY <1>3, GetFoundKeeps, GetMissingKeeps, DanglingKeeps DEF Get
<1>4. ASSUME NEW k \in Key, NEW v \in Value, Put(k, v) PROVE IInv'
  BY <1>4, PutNewKeeps, PutUpdateKeeps, DanglingKeeps DEF Put
<1>. QED BY <1>1, <1>2, <1>3, <1>4 DEF Next

(* IInv holds in every reachable state of the cache: what map, list and    *)
(* the history of puts and uses have to do with each other after each call *)
(* of get and put, until the expired branch of get misreads a key.         *)
THEOREM Invariance == Spec => []IInv
BY InitKeeps, InductiveStep, PTL DEF Spec

(* Map and list describe the same entries, and no erased node is used, as  *)
(* long as the expired branch of get reads the right key from the node it  *)
(* has erased (lines 31-32, 55-56, 71-75).                                 *)
THEOREM MapMatchesListCorrect == Spec => []MapMatchesList
<1>1. IInv => MapMatchesList
  BY TypesAre DEF IInv, Agrees, Matches, Distinct, MapMatchesList
<1>. QED BY <1>1, Invariance, PTL

(* The list never exceeds the capacity, whatever get misread: the test for *)
(* equality in line 69 is always met before the list would grow past it.   *)
THEOREM SizeBoundedCorrect == Spec => []SizeBounded
<1>1. IInv => SizeBounded
  BY DEF IInv
<1>. QED BY <1>1, Invariance, PTL

-----------------------------------------------------------------------------
(* What get answers: the latest put while that is alive, or nothing, for a *)
(* reason.                                                                 *)
LEMMA FoundAnswers ==
    ASSUME IInv, ~misread, NEW k \in Key, NEW t2 \in now .. MaxTime, GetFound(k, t2)
    PROVE  \/ reply'.result = Absent /\ Excuse(k, recency, last, now')
           \/ reply'.result = last[k].value /\ last[k].value \in Value /\ last[k].expire > now'
<1> DEFINE c == Cleaned(now)
           n == c[At(c, k)]
<1>. /\ Types /\ t2 \in 0 .. MaxTime /\ c \in Seq(Node) /\ Len(c) \in 0 .. Capacity
     /\ Agrees(c, CleanedMap(now), recency, last, t2)
  BY CallStart
<1>1. /\ k \in Keys(c) /\ now' = t2
      /\ Reply(k, IF Expired(n, t2) THEN Absent ELSE n.value, t2)
  BY DEF GetFound
<1>. HIDE DEF c, n
<1>2. At(c, k) \in 1 .. Len(c) /\ n.key = k /\ n \in Node
  BY <1>1, InFront DEF n
<1>3. last[k] = [value |-> n.value, expire |-> n.expire]
  BY <1>2 DEF Agrees, Matches, Remembered, n
<1>4. /\ last[k].value = n.value /\ last[k].expire = n.expire
      /\ n.value \in Value /\ n.expire \in Int /\ t2 \in Int
  BY <1>2, <1>3, TimeAssumption DEF Node
<1>5. CASE Expired(n, t2)
  BY <1>1, <1>4, <1>5 DEF Reply, Expired, Excuse
<1>6. CASE ~Expired(n, t2)
  BY <1>1, <1>4, <1>6 DEF Reply, Expired
<1>. QED BY <1>5, <1>6

LEMMA GetAnswers ==
    ASSUME IInv, ~misread, NEW k \in Key, Get(k)
    PROVE  \/ reply'.result = Absent /\ Excuse(k, recency, last, now')
           \/ reply'.result = last[k].value /\ last[k].value \in Value /\ last[k].expire > now'
<1>1. now \in now .. MaxTime
  BY TimeAssumption DEF IInv, Types
<1>2. Agrees(Cleaned(now), CleanedMap(now), recency, last, now)
  BY <1>1, CallStart
<1>3. CASE GetMissing(k)
  BY <1>2, <1>3 DEF GetMissing, Reply, Agrees, Excused
<1>4. CASE GetDangling(k)
  BY <1>2, <1>4 DEF GetDangling, Agrees, Matches
<1>. QED BY <1>3, <1>4, FoundAnswers DEF Get

(* A get that fails has a reason, provided -1 is not a value: the key was  *)
(* never put, has expired, or Capacity other keys were used after it.      *)
THEOREM MissHasReasonCorrect == ASSUME Absent \notin Value PROVE Spec => MissHasReason
<1> DEFINE Miss == \A k \in Key : ~misread /\ Get(k) /\ reply'.result = Absent =>
                      \/ last[k].expire <= now'
                      \/ \E i \in 1 .. Len(recency) : recency[i] = k /\ i > Capacity
<1>1. IInv => Miss
  BY GetAnswers DEF Excuse
<1>2. IInv /\ [Next]_vars => [Miss]_vars
  BY <1>1
<1>. QED BY <1>2, Invariance, PTL DEF Spec, MissHasReason

(* A get that succeeds returns the latest put of that key, not yet expired *)
(* when get returns.                                                       *)
THEOREM HitIsLatestCorrect == Spec => HitIsLatest
<1> DEFINE Hit == \A k \in Key : ~misread /\ Get(k) /\ reply'.result # Absent =>
                     reply'.result = last[k].value /\ last[k].expire > now'
<1>1. IInv => Hit
  BY GetAnswers
<1>2. IInv /\ [Next]_vars => [Hit]_vars
  BY <1>1
<1>. QED BY <1>2, Invariance, PTL DEF Spec, HitIsLatest
=============================================================================
