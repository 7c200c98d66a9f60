------------------------------ MODULE ListLemmas ------------------------------
(***************************************************************************)
(* What the models do to their lists of requests, sessions and rows: where *)
(* each member is afterwards; and what the order of a set by time is, and  *)
(* the places that gives.                                                  *)
(***************************************************************************)
EXTENDS Filters, Ranking, SequencesExt, FiniteSetTheorems, WellFoundedInduction, TLAPS

(* Two lists joined.                                                       *)
LEMMA JoinedSays ==
    ASSUME NEW S, NEW a \in Seq(S), NEW b \in Seq(S)
    PROVE  /\ a \o b \in Seq(S) /\ Len(a \o b) = Len(a) + Len(b)
           /\ \A m \in 1 .. Len(a) + Len(b) :
                (a \o b)[m] = IF m <= Len(a) THEN a[m] ELSE b[m - Len(a)]
OBVIOUS

(* What is before the i-th member of a list.                              *)
LEMMA HeadSays ==
    ASSUME NEW S, NEW s \in Seq(S), NEW i \in DOMAIN s
    PROVE  /\ SubSeq(s, 1, i - 1) \in Seq(S) /\ Len(SubSeq(s, 1, i - 1)) = i - 1
           /\ \A m \in 1 .. i - 1 : SubSeq(s, 1, i - 1)[m] = s[m]
<1>1. i \in 1 .. Len(s) /\ Len(s) \in Nat
  OBVIOUS
<1> QED
  BY <1>1

(* Two parts of a list around its i-th member, the first part changed.     *)
LEMMA AroundSays ==
    ASSUME NEW S, NEW s \in Seq(S), NEW i \in DOMAIN s, NEW b \in Seq(S), Len(b) = i - 1
    PROVE  /\ b \o SubSeq(s, i + 1, Len(s)) \in Seq(S)
           /\ Len(b \o SubSeq(s, i + 1, Len(s))) = Len(s) - 1
           /\ \A m \in 1 .. Len(s) - 1 :
                (b \o SubSeq(s, i + 1, Len(s)))[m] = IF m < i THEN b[m] ELSE s[m + 1]
<1>1. i \in 1 .. Len(s) /\ Len(s) \in Nat
  OBVIOUS
<1>2. /\ SubSeq(s, i + 1, Len(s)) \in Seq(S) /\ Len(SubSeq(s, i + 1, Len(s))) = Len(s) - i
      /\ \A m \in 1 .. Len(s) - i : SubSeq(s, i + 1, Len(s))[m] = s[i + m]
  BY <1>1
<1> DEFINE a == SubSeq(s, i + 1, Len(s))
           c == b \o a
<1>3. a \in Seq(S) /\ Len(a) = Len(s) - i /\ \A m \in 1 .. Len(s) - i : a[m] = s[i + m]
  BY <1>2
<1> HIDE DEF a
<1>4. /\ c \in Seq(S) /\ Len(c) = Len(b) + Len(a)
      /\ \A m \in 1 .. Len(b) + Len(a) : c[m] = IF m <= Len(b) THEN b[m] ELSE a[m - Len(b)]
  BY <1>3, JoinedSays
<1> HIDE DEF c
<1>5. Len(c) = Len(s) - 1
  BY <1>1, <1>3, <1>4
<1>6. ASSUME NEW m \in 1 .. Len(s) - 1
      PROVE  c[m] = IF m < i THEN b[m] ELSE s[m + 1]
  <2>1. Len(b) = i - 1 /\ m \in 1 .. Len(b) + Len(a)
    BY <1>1, <1>3
  <2>2. c[m] = IF m <= i - 1 THEN b[m] ELSE a[m - (i - 1)]
    BY <1>4, <2>1
  <2>3. m >= i => a[m - (i - 1)] = s[i + (m - (i - 1))] /\ i + (m - (i - 1)) = m + 1
    BY <1>1, <1>3
  <2> QED
    BY <1>1, <2>2, <2>3
<1> QED
  BY <1>4, <1>5, <1>6 DEF a, c

(* A list without its i-th member, with one put before it, and with one    *)
(* moved to its end.                                                       *)
LEMMA RemovedSays ==
    ASSUME NEW S, NEW s \in Seq(S), NEW i \in DOMAIN s
    PROVE  /\ RemoveAt(s, i) \in Seq(S) /\ Len(RemoveAt(s, i)) = Len(s) - 1
           /\ \A m \in 1 .. Len(s) - 1 :
                RemoveAt(s, i)[m] = IF m < i THEN s[m] ELSE s[m + 1]
<1>1. /\ SubSeq(s, 1, i - 1) \in Seq(S) /\ Len(SubSeq(s, 1, i - 1)) = i - 1
      /\ \A m \in 1 .. i - 1 : SubSeq(s, 1, i - 1)[m] = s[m]
  BY HeadSays
<1> DEFINE b == SubSeq(s, 1, i - 1)
<1> HIDE DEF b
<1>2. /\ b \o SubSeq(s, i + 1, Len(s)) \in Seq(S)
      /\ Len(b \o SubSeq(s, i + 1, Len(s))) = Len(s) - 1
      /\ \A m \in 1 .. Len(s) - 1 :
           (b \o SubSeq(s, i + 1, Len(s)))[m] = IF m < i THEN b[m] ELSE s[m + 1]
  BY <1>1, AroundSays DEF b
<1> DEFINE c == b \o SubSeq(s, i + 1, Len(s))
<1>3. RemoveAt(s, i) = c
  BY DEF RemoveAt, b
<1> HIDE DEF c
<1>4. /\ c \in Seq(S) /\ Len(c) = Len(s) - 1
      /\ \A m \in 1 .. Len(s) - 1 : c[m] = IF m < i THEN b[m] ELSE s[m + 1]
  BY <1>2 DEF c
<1>6. /\ i \in 1 .. Len(s) /\ Len(s) \in Nat
      /\ \A m \in 1 .. i - 1 : b[m] = s[m]
  BY <1>1 DEF b
<1>5. \A m \in 1 .. Len(s) - 1 : c[m] = IF m < i THEN s[m] ELSE s[m + 1]
  BY <1>4, <1>6
<1> QED
  BY <1>3, <1>4, <1>5

LEMMA PutFirstSays ==
    ASSUME NEW S, NEW s \in Seq(S), NEW x \in S
    PROVE  /\ <<x>> \o s \in Seq(S) /\ Len(<<x>> \o s) = Len(s) + 1
           /\ (<<x>> \o s)[1] = x
           /\ \A m \in 2 .. Len(s) + 1 : (<<x>> \o s)[m] = s[m - 1]
<1>1. <<x>> \in Seq(S) /\ Len(<<x>>) = 1 /\ <<x>>[1] = x /\ Len(s) \in Nat
  OBVIOUS
<1> QED
  BY <1>1

LEMMA SentLastSays ==
    ASSUME NEW S, NEW s \in Seq(S), NEW i \in DOMAIN s, NEW x \in S
    PROVE  /\ Append(RemoveAt(s, i), x) \in Seq(S) /\ Len(Append(RemoveAt(s, i), x)) = Len(s)
           /\ Append(RemoveAt(s, i), x)[Len(s)] = x
           /\ \A m \in 1 .. Len(s) - 1 :
                Append(RemoveAt(s, i), x)[m] = IF m < i THEN s[m] ELSE s[m + 1]
<1>1. /\ RemoveAt(s, i) \in Seq(S) /\ Len(RemoveAt(s, i)) = Len(s) - 1
      /\ \A m \in 1 .. Len(s) - 1 : RemoveAt(s, i)[m] = IF m < i THEN s[m] ELSE s[m + 1]
  BY RemovedSays
<1> DEFINE r == RemoveAt(s, i)
<1> HIDE DEF r
<1>2. /\ r \in Seq(S) /\ Len(r) = Len(s) - 1
      /\ \A m \in 1 .. Len(s) - 1 : r[m] = IF m < i THEN s[m] ELSE s[m + 1]
  BY <1>1 DEF r
<1>3. /\ Append(r, x) \in Seq(S) /\ Len(Append(r, x)) = Len(s) /\ Append(r, x)[Len(s)] = x
      /\ \A m \in 1 .. Len(s) - 1 : Append(r, x)[m] = r[m]
  BY <1>2
<1> QED
  BY <1>2, <1>3 DEF r

(* The same in one word, which is easier to cite.                          *)
SentLast(S, s, i, x, t) ==
    /\ t \in Seq(S) /\ Len(t) = Len(s) /\ t[Len(s)] = x
    /\ \A m \in 1 .. Len(s) - 1 : t[m] = IF m < i THEN s[m] ELSE s[m + 1]

LEMMA SentLastIs ==
    ASSUME NEW S, NEW s \in Seq(S), NEW i \in DOMAIN s, NEW x \in S
    PROVE  SentLast(S, s, i, x, Append(RemoveAt(s, i), x))
BY SentLastSays DEF SentLast

(* A member put before the i-th one.                                       *)
LEMMA InsertedSays ==
    ASSUME NEW S, NEW s \in Seq(S), NEW i \in 1 .. Len(s) + 1, NEW x \in S
    PROVE  /\ InsertAt(s, i, x) \in Seq(S) /\ Len(InsertAt(s, i, x)) = Len(s) + 1
           /\ \A m \in 1 .. Len(s) + 1 :
                InsertAt(s, i, x)[m] = IF m < i THEN s[m] ELSE IF m = i THEN x ELSE s[m - 1]
<1> DEFINE a == SubSeq(s, 1, i - 1)
           b == SubSeq(s, i, Len(s))
           h == a \o <<x>>
           j == h \o b
<1>1. i \in Nat /\ Len(s) \in Nat /\ i >= 1 /\ i <= Len(s) + 1
  OBVIOUS
<1>2. a \in Seq(S) /\ Len(a) = i - 1 /\ \A m \in 1 .. i - 1 : a[m] = s[m]
  BY <1>1
<1>3. /\ b \in Seq(S) /\ Len(b) = Len(s) + 1 - i
      /\ \A m \in 1 .. Len(s) + 1 - i : b[m] = s[i - 1 + m]
  BY <1>1
<1> HIDE DEF a, b
<1>4. /\ h \in Seq(S) /\ Len(h) = i
      /\ \A m \in 1 .. i : h[m] = IF m < i THEN s[m] ELSE x
  <2>1. <<x>> \in Seq(S) /\ Len(<<x>>) = 1 /\ <<x>>[1] = x
    OBVIOUS
  <2>2. /\ h \in Seq(S) /\ Len(h) = Len(a) + 1
        /\ \A m \in 1 .. Len(a) + 1 : h[m] = IF m <= Len(a) THEN a[m] ELSE <<x>>[m - Len(a)]
    BY <1>2, <2>1, JoinedSays
  <2> HIDE DEF h
  <2>3. ASSUME NEW m \in 1 .. i
        PROVE  h[m] = IF m < i THEN s[m] ELSE x
    <3>1. m \in 1 .. Len(a) + 1 /\ (m <= Len(a) <=> m < i) /\ (m >= i => m - Len(a) = 1)
      BY <1>1, <1>2
    <3>2. m < i => m \in 1 .. i - 1
      BY <1>1
    <3> QED
      BY <1>2, <2>1, <2>2, <3>1, <3>2
  <2> QED
    BY <1>1, <1>2, <2>2, <2>3
<1> HIDE DEF h
<1>5. /\ j \in Seq(S) /\ Len(j) = Len(h) + Len(b)
      /\ \A m \in 1 .. Len(h) + Len(b) : j[m] = IF m <= Len(h) THEN h[m] ELSE b[m - Len(h)]
  BY <1>3, <1>4, JoinedSays
<1>6. InsertAt(s, i, x) = j
  BY DEF InsertAt, a, b, h
<1> HIDE DEF j
<1>7. Len(j) = Len(s) + 1
  BY <1>1, <1>3, <1>4, <1>5
<1>8. ASSUME NEW m \in 1 .. Len(s) + 1
      PROVE  j[m] = IF m < i THEN s[m] ELSE IF m = i THEN x ELSE s[m - 1]
  <2>1. m \in 1 .. Len(h) + Len(b) /\ Len(h) = i
    BY <1>1, <1>3, <1>4
  <2>2. j[m] = IF m <= i THEN h[m] ELSE b[m - i]
    BY <1>5, <2>1
  <2>3. m > i => m - i \in 1 .. Len(s) + 1 - i /\ i - 1 + (m - i) = m - 1
    BY <1>1
  <2>4. m > i => b[m - i] = s[m - 1]
    BY <1>3, <2>3
  <2>5. m <= i => h[m] = IF m < i THEN s[m] ELSE x
    BY <1>1, <1>4
  <2> QED
    BY <1>1, <2>2, <2>4, <2>5
<1> QED
  BY <1>5, <1>6, <1>7, <1>8
Inserted(S, s, i, x, t) ==
    /\ t \in Seq(S) /\ Len(t) = Len(s) + 1
    /\ \A m \in 1 .. Len(s) + 1 : t[m] = IF m < i THEN s[m] ELSE IF m = i THEN x ELSE s[m - 1]

LEMMA InsertedIs ==
    ASSUME NEW S, NEW s \in Seq(S), NEW i \in 1 .. Len(s) + 1, NEW x \in S
    PROVE  Inserted(S, s, i, x, InsertAt(s, i, x))
BY InsertedSays DEF Inserted

-----------------------------------------------------------------------------
(* Induction over a set of numbers: the library states it for an operator. *)
LessOnNat == {p \in Nat \X Nat : p[1] < p[2]}

(* Any set of numbers has a least one.                                     *)
LEMMA LeastOf == ASSUME NEW T, T \subseteq Nat, T # {}
  PROVE \E x \in T : \A y \in T : x <= y
<1>1. LessOnNat = OpToRel(<, Nat)
  BY DEF LessOnNat, OpToRel
<1>2. IsWellFoundedOn(LessOnNat, Nat)
  BY <1>1, NatLessThanWellFounded
<1>3. PICK x \in T : \A y \in T : ~ (<<y, x>> \in LessOnNat)
  BY <1>2, WFMin
<1>4. ASSUME NEW y \in T PROVE x <= y
  <2>1. x \in Nat /\ y \in Nat /\ <<y, x>> \in Nat \X Nat
    OBVIOUS
  <2>2. <<y, x>>[1] = y /\ <<y, x>>[2] = x
    OBVIOUS
  <2>3. ~ (y < x)
    BY <1>3, <2>1, <2>2 DEF LessOnNat
  <2> QED
    BY <2>1, <2>3
<1> QED
  BY <1>4

(* So a set that has 0, and n + 1 with n, has every number.                *)
LEMMA ByInduction == ASSUME NEW T, 0 \in T, \A n \in Nat : n \in T => n+1 \in T
  PROVE Nat \subseteq T
<1> SUFFICES ASSUME Nat \ T # {} PROVE FALSE
  OBVIOUS
<1>1. PICK x \in Nat \ T : \A y \in Nat \ T : x <= y
  BY LeastOf
<1>2. x # 0
  OBVIOUS
<1>3. x-1 \in Nat /\ x-1 \in T
  BY <1>1, <1>2
<1> QED
  BY <1>3

(* The function by which Filtered is defined exists.                       *)
Upon(s, K, f, n) == IF n = 0 THEN <<>> ELSE IF n \in K THEN Append(f[n - 1], s[n]) ELSE f[n - 1]

LEMMA FilteredIs ==
  ASSUME NEW S, NEW s \in Seq(S), NEW K
  PROVE \E f : f = [n \in 0 .. Len(s) |-> Upon(s, K, f, n)] /\ Filtered(s, K) = f[Len(s)]
<1> DEFINE T == {m \in Nat : \E g : g = [n \in 0 .. m |-> Upon(s, K, g, n)]}
<1>1. 0 \in T
  <2> DEFINE g == [n \in 0 .. 0 |-> <<>>]
  <2>1. g = [n \in 0 .. 0 |-> Upon(s, K, g, n)]
    BY DEF Upon
  <2> QED
    BY <2>1
<1>2. ASSUME NEW m \in Nat, m \in T PROVE m + 1 \in T
  <2>1. PICK g : g = [n \in 0 .. m |-> Upon(s, K, g, n)]
    BY <1>2
  <2> DEFINE h == [n \in 0 .. m + 1 |-> IF n <= m THEN g[n] ELSE Upon(s, K, g, n)]
  <2>2. \A n \in 0 .. m + 1 : h[n] = Upon(s, K, h, n)
    <3> SUFFICES ASSUME NEW n \in 0 .. m + 1 PROVE h[n] = Upon(s, K, h, n)
      OBVIOUS
    <3>1. h[n] = Upon(s, K, g, n)
      BY <2>1
    <3>2. n # 0 => n - 1 \in 0 .. m + 1 /\ n - 1 <= m
      OBVIOUS
    <3>3. n # 0 => h[n - 1] = g[n - 1]
      BY <3>2
    <3> HIDE DEF h
    <3> QED
      BY <3>1, <3>3 DEF Upon
  <2>3. h = [n \in 0 .. m + 1 |-> Upon(s, K, h, n)]
    <3>1. h = [n \in 0 .. m + 1 |-> h[n]]
      OBVIOUS
    <3> HIDE DEF h
    <3> QED
      BY <3>1, <2>2
  <2> HIDE DEF h
  <2> QED
    BY <2>3
<1> HIDE DEF T
<1>3. Len(s) \in T
  BY <1>1, <1>2, ByInduction
<1> DEFINE f == CHOOSE g : g = [n \in 0 .. Len(s) |-> Upon(s, K, g, n)]
<1>4. f = [n \in 0 .. Len(s) |-> Upon(s, K, f, n)]
  BY <1>3 DEF T
<1>5. Filtered(s, K) = f[Len(s)]
  BY DEF Filtered, Upon
<1> HIDE DEF f
<1> QED
  BY <1>4, <1>5

(* e tells from which position of s each member of t is. *)
Selects(s, K, m, t, e) ==
    /\ e \in [1 .. Len(t) -> 1 .. m]
    /\ \A n \in 1 .. Len(t) : e[n] \in K /\ t[n] = s[e[n]]
    /\ \A k \in 1 .. m : k \in K => \E n \in 1 .. Len(t) : e[n] = k
    /\ \A l, n \in 1 .. Len(t) : l < n => e[l] < e[n]

(* What a filter keeps are the members at those positions, in their order. *)
LEMMA FilteredSays ==
  ASSUME NEW S, NEW s \in Seq(S), NEW K
  PROVE /\ Filtered(s, K) \in Seq(S)
        /\ \E e : Selects(s, K, Len(s), Filtered(s, K), e)
<1>1. PICK f : f = [n \in 0 .. Len(s) |-> Upon(s, K, f, n)] /\ Filtered(s, K) = f[Len(s)]
  BY FilteredIs
<1> DEFINE T == {m \in Nat : m <= Len(s) => f[m] \in Seq(S) /\ \E e : Selects(s, K, m, f[m], e)}
<1>2. 0 \in T
  <2>1. f[0] = <<>>
    BY <1>1 DEF Upon
  <2>2. Selects(s, K, 0, <<>>, <<>>)
    BY DEF Selects
  <2>3. f[0] \in Seq(S) /\ \E e : Selects(s, K, 0, f[0], e)
    BY <2>1, <2>2
  <2> QED
    BY <2>3
<1>3. ASSUME NEW m \in Nat, m \in T PROVE m + 1 \in T
  <2> SUFFICES ASSUME m + 1 <= Len(s)
               PROVE  f[m + 1] \in Seq(S) /\ \E e : Selects(s, K, m + 1, f[m + 1], e)
    OBVIOUS
  <2>1. f[m] \in Seq(S) /\ \E e : Selects(s, K, m, f[m], e)
    BY <1>3
  <2>2. f[m + 1] = IF m + 1 \in K THEN Append(f[m], s[m + 1]) ELSE f[m]
    <3>1. m + 1 \in 0 .. Len(s) /\ m + 1 # 0 /\ (m + 1) - 1 = m
      OBVIOUS
    <3> QED
      BY <1>1, <3>1 DEF Upon
  <2>3. PICK e : Selects(s, K, m, f[m], e)
    BY <2>1
  <2> DEFINE t == f[m]
  <2>4. t \in Seq(S) /\ Selects(s, K, m, t, e) /\ s[m + 1] \in S
    BY <2>1, <2>3
  <2> HIDE DEF t
  <2>5. CASE m + 1 \notin K
    <3>1. Selects(s, K, m + 1, t, e)
      BY <2>4, <2>5 DEF Selects
    <3> QED
      BY <2>2, <2>4, <2>5, <3>1 DEF t
  <2>6. CASE m + 1 \in K
    <3> DEFINE u == Append(t, s[m + 1])
               d == [n \in 1 .. Len(t) + 1 |-> IF n <= Len(t) THEN e[n] ELSE m + 1]
    <3>1. u \in Seq(S) /\ Len(u) = Len(t) + 1 /\ Len(t) \in Nat
          /\ \A n \in 1 .. Len(t) + 1 : u[n] = IF n <= Len(t) THEN t[n] ELSE s[m + 1]
      BY <2>4
    <3> HIDE DEF u
    <3>2. Selects(s, K, m + 1, u, d)
      <4>1. d \in [1 .. Len(u) -> 1 .. m + 1]
        BY <2>4, <3>1 DEF Selects
      <4>2. \A n \in 1 .. Len(u) : d[n] \in K /\ u[n] = s[d[n]]
        BY <2>4, <2>6, <3>1 DEF Selects
      <4>3. ASSUME NEW k \in 1 .. m + 1, k \in K PROVE \E n \in 1 .. Len(u) : d[n] = k
        <5>1. CASE k <= m
          <6>1. PICK n \in 1 .. Len(t) : e[n] = k
            BY <2>4, <4>3, <5>1 DEF Selects
          <6> QED
            BY <3>1, <6>1
        <5>2. CASE k = m + 1
          BY <3>1, <5>2
        <5> QED
          BY <5>1, <5>2, SMTT(60)
      <4>4. \A l, n \in 1 .. Len(u) : l < n => d[l] < d[n]
        <5>1. \A n \in 1 .. Len(t) : e[n] \in 1 .. m
          BY <2>4 DEF Selects
        <5>2. \A l, n \in 1 .. Len(t) : l < n => e[l] < e[n]
          BY <2>4 DEF Selects
        <5> QED
          BY <3>1, <5>1, <5>2
      <4> QED
        BY <4>1, <4>2, <4>3, <4>4 DEF Selects
    <3> QED
      BY <2>2, <2>6, <3>1, <3>2 DEF t, u
  <2> QED
    BY <2>5, <2>6
<1> HIDE DEF T
<1>4. Len(s) \in T
  BY <1>2, <1>3, ByInduction
<1> QED
  BY <1>1, <1>4 DEF T

-----------------------------------------------------------------------------
(* Members in the order of their times, and the places that gives.         *)

(* Those not behind x: who has less time, or the same and no higher number. *)
UpTo(S, t, num, x) == {f \in S : t[f] < t[x] \/ (t[f] = t[x] /\ num[f] <= num[x])}
CountUpTo(S, t, num, x) == Cardinality(UpTo(S, t, num, x))

(* How many they are is the position of x, if no two have one number.      *)
LEMMA UpToCounts ==
    ASSUME NEW S, IsFiniteSet(S), NEW t \in [S -> Int], NEW num \in [S -> Int],
           \A x, y \in S : x # y => num[x] # num[y]
    PROVE  /\ \A x \in S : CountUpTo(S, t, num, x) \in 1 .. Cardinality(S)
           /\ \A x, y \in S : CountUpTo(S, t, num, x) < CountUpTo(S, t, num, y)
                                <=> t[x] < t[y] \/ (t[x] = t[y] /\ num[x] < num[y])
           /\ \A i \in 1 .. Cardinality(S) : \E x \in S : CountUpTo(S, t, num, x) = i
<1> DEFINE n == Cardinality(S)
           upTo(x) == UpTo(S, t, num, x)
<1>1. n \in Nat
  BY FS_CardinalityType
<1>2. \A x, y \in S : /\ t[x] \in Int /\ t[y] \in Int /\ num[x] \in Int /\ num[y] \in Int
                      /\ x \in upTo(y) <=> t[x] < t[y] \/ (t[x] = t[y] /\ num[x] <= num[y])
  BY DEF UpTo
<1>3. \A x \in S : upTo(x) \in SUBSET S
  BY DEF UpTo
<1> HIDE DEF upTo
<1>4. \A x \in S : IsFiniteSet(upTo(x)) /\ Cardinality(upTo(x)) \in 1 .. n
  <2> SUFFICES ASSUME NEW x \in S
               PROVE  IsFiniteSet(upTo(x)) /\ Cardinality(upTo(x)) \in 1 .. n
    OBVIOUS
  <2>1. upTo(x) \in SUBSET S /\ x \in upTo(x)
    BY <1>2, <1>3
  <2>2. /\ IsFiniteSet(upTo(x)) /\ Cardinality(upTo(x)) <= n /\ Cardinality(upTo(x)) \in Nat
        /\ Cardinality(upTo(x)) # 0
    BY <2>1, FS_Subset, FS_CardinalityType, FS_EmptySet
  <2> QED
    BY <1>1, <2>2
<1>5. ASSUME NEW x \in S, NEW y \in S, x # y, x \in upTo(y)
      PROVE  Cardinality(upTo(x)) < Cardinality(upTo(y)) /\ y \notin upTo(x)
  <2>1. t[x] \in Int /\ t[y] \in Int /\ num[x] \in Int /\ num[y] \in Int /\ num[x] # num[y]
    BY <1>2, <1>5
  <2>2. upTo(x) \in SUBSET upTo(y)
    <3> SUFFICES ASSUME NEW f \in upTo(x) PROVE f \in upTo(y)
      OBVIOUS
    <3>1. f \in S /\ t[f] \in Int /\ num[f] \in Int
      BY <1>2, <1>3
    <3> QED
      BY <1>2, <1>5, <2>1, <3>1
  <2>3. y \in upTo(y) /\ y \notin upTo(x)
    BY <1>2, <1>5, <2>1
  <2>4. Cardinality(upTo(x)) <= Cardinality(upTo(y)) /\ Cardinality(upTo(x)) # Cardinality(upTo(y))
    BY <1>4, <2>2, <2>3, FS_Subset
  <2>5. Cardinality(upTo(x)) \in Int /\ Cardinality(upTo(y)) \in Int
    BY <1>1, <1>4
  <2> QED
    BY <2>3, <2>4, <2>5
<1>6. ASSUME NEW x \in S, NEW y \in S PROVE x \in upTo(y) \/ y \in upTo(x)
  BY <1>2
<1>7. ASSUME NEW x \in S, NEW y \in S
      PROVE  Cardinality(upTo(x)) < Cardinality(upTo(y))
               <=> t[x] < t[y] \/ (t[x] = t[y] /\ num[x] < num[y])
  <2>1. /\ Cardinality(upTo(x)) \in Int /\ Cardinality(upTo(y)) \in Int
        /\ t[x] \in Int /\ t[y] \in Int /\ num[x] \in Int /\ num[y] \in Int
    BY <1>1, <1>2, <1>4
  <2>2. CASE x = y
    BY <2>1, <2>2
  <2>3. CASE x # y /\ x \in upTo(y)
    <3>1. num[x] # num[y] /\ Cardinality(upTo(x)) < Cardinality(upTo(y))
      BY <1>5, <2>3
    <3> QED
      BY <1>2, <2>1, <2>3, <3>1
  <2>4. CASE x # y /\ x \notin upTo(y)
    <3>1. Cardinality(upTo(y)) < Cardinality(upTo(x))
      BY <1>5, <1>6, <2>4
    <3> QED
      BY <1>2, <2>1, <2>4, <3>1
  <2> QED
    BY <2>2, <2>3, <2>4
<1> DEFINE rank == [x \in S |-> Cardinality(upTo(x))]
<1>8. rank \in Injection(S, 1 .. n)
  <2>1. rank \in [S -> 1 .. n]
    BY <1>4
  <2>2. \A x, y \in S : x # y => rank[x] # rank[y]
    <3> SUFFICES ASSUME NEW x \in S, NEW y \in S, x # y PROVE rank[x] # rank[y]
      OBVIOUS
    <3>1. rank[x] \in Int /\ rank[y] \in Int
      BY <1>1, <2>1
    <3>2. rank[x] < rank[y] \/ rank[y] < rank[x]
      BY <1>5, <1>6
    <3> QED
      BY <3>1, <3>2
  <2> HIDE DEF rank
  <2> QED
    BY <2>1, <2>2 DEF Injection, IsInjective
<1>9. rank \in Surjection(S, 1 .. n)
  <2>1. IsFiniteSet(1 .. n) /\ Cardinality(1 .. n) = n
    BY <1>1, FS_Interval
  <2> HIDE DEF rank
  <2> QED
    BY <1>8, <2>1, FS_Injection
<1>10. \A i \in 1 .. n : \E x \in S : Cardinality(upTo(x)) = i
  <2>1. \A x \in S : rank[x] = Cardinality(upTo(x))
    OBVIOUS
  <2> HIDE DEF rank
  <2> QED
    BY <1>9, <2>1 DEF Surjection
<1> QED
  BY <1>4, <1>7, <1>10 DEF upTo, CountUpTo

Sorted(t, order) == \A i, j \in DOMAIN order : i < j => t[order[i]] <= t[order[j]]

(* Any finite set can be put in order, ties by any numbering of the set.   *)
LEMMA OrderExists ==
    ASSUME NEW S, IsFiniteSet(S), NEW t \in [S -> Int]
    PROVE  \E order \in SetToSeqs(S) : Sorted(t, order)
<1> DEFINE n == Cardinality(S)
<1>1. n \in Nat /\ ExistsBijection(1 .. n, S)
  BY FS_CardinalityType
<1>2. PICK b \in Bijection(1 .. n, S) : TRUE
  BY <1>1 DEF ExistsBijection
<1> DEFINE num == [x \in S |-> CHOOSE i \in 1 .. n : b[i] = x]
<1>3. /\ num \in [S -> Int] /\ \A x, y \in S : x # y => num[x] # num[y]
  <2>1. \A x \in S : num[x] \in 1 .. n /\ b[num[x]] = x
    BY <1>2 DEF Bijection, Surjection
  <2>2. num = [x \in S |-> num[x]]
    OBVIOUS
  <2> HIDE DEF num
  <2>3. \A x \in S : num[x] \in Int
    BY <1>1, <2>1
  <2>4. \A x, y \in S : x # y => num[x] # num[y]
    BY <2>1
  <2> QED
    BY <2>2, <2>3, <2>4
<1> DEFINE at(x) == CountUpTo(S, t, num, x)
<1> HIDE DEF num
<1>4. /\ \A x \in S : at(x) \in 1 .. n
      /\ \A x, y \in S : at(x) < at(y) <=> t[x] < t[y] \/ (t[x] = t[y] /\ num[x] < num[y])
      /\ \A i \in 1 .. n : \E x \in S : at(x) = i
  BY <1>3, UpToCounts
<1> HIDE DEF at
<1> DEFINE order == [i \in 1 .. n |-> CHOOSE x \in S : at(x) = i]
<1>5. \A i \in 1 .. n : order[i] \in S /\ at(order[i]) = i
  BY <1>4
<1>6. order = [i \in 1 .. n |-> order[i]] /\ DOMAIN order = 1 .. n
  OBVIOUS
<1> HIDE DEF order
<1>7. order \in SetToSeqs(S)
  BY <1>5, <1>6 DEF SetToSeqs
<1>8. Sorted(t, order)
  <2> SUFFICES ASSUME NEW i \in 1 .. n, NEW j \in 1 .. n, i < j
               PROVE  t[order[i]] <= t[order[j]]
    BY <1>6 DEF Sorted
  <2>1. t[order[i]] \in Int /\ t[order[j]] \in Int /\ at(order[i]) < at(order[j])
    BY <1>5
  <2>2. t[order[i]] < t[order[j]] \/ t[order[i]] = t[order[j]]
    BY <1>4, <1>5, <2>1
  <2> QED
    BY <2>1, <2>2
<1> QED
  BY <1>7, <1>8

(* What is in an order is all there is, once.                              *)
LEMMA OrderSays ==
    ASSUME NEW S, IsFiniteSet(S), NEW order \in SetToSeqs(S)
    PROVE  /\ Cardinality(S) \in Nat /\ DOMAIN order = 1 .. Cardinality(S)
           /\ order \in [1 .. Cardinality(S) -> S]
           /\ order \in Bijection(1 .. Cardinality(S), S)
<1> DEFINE n == Cardinality(S)
<1>1. n \in Nat /\ IsFiniteSet(1 .. n) /\ Cardinality(1 .. n) = n
  BY FS_CardinalityType, FS_Interval
<1>2. order \in [1 .. n -> S] /\ \A i, j \in 1 .. n : i # j => order[i] # order[j]
  BY DEF SetToSeqs
<1>3. order \in Injection(1 .. n, S)
  BY <1>2 DEF Injection, IsInjective
<1>4. order \in Surjection(1 .. n, S)
  BY <1>1, <1>3, FS_Injection
<1> QED
  BY <1>1, <1>2, <1>3, <1>4 DEF Bijection

(* The function by which Places is defined exists.                         *)
PlaceAfter(times, f, i) == IF i > 1 /\ times[i] = times[i - 1] THEN f[i - 1] ELSE i

LEMMA PlacesIs ==
    ASSUME NEW times, NEW n \in Nat, Len(times) = n
    PROVE  Places(times) = [i \in 1 .. n |-> PlaceAfter(times, Places(times), i)]
<1> DEFINE T == {m \in Nat : \E g : g = [k \in 1 .. m |-> PlaceAfter(times, g, k)]}
<1>1. 0 \in T
  <2> DEFINE g == [k \in 1 .. 0 |-> 0]
  <2>1. g = [k \in 1 .. 0 |-> PlaceAfter(times, g, k)]
    BY DEF PlaceAfter
  <2> QED
    BY <2>1
<1>2. ASSUME NEW m \in Nat, m \in T PROVE m + 1 \in T
  <2>1. PICK g : g = [k \in 1 .. m |-> PlaceAfter(times, g, k)]
    BY <1>2
  <2> DEFINE h == [k \in 1 .. m + 1 |-> IF k <= m THEN g[k] ELSE PlaceAfter(times, g, k)]
  <2>2. \A k \in 1 .. m + 1 : h[k] = PlaceAfter(times, h, k)
    <3> SUFFICES ASSUME NEW k \in 1 .. m + 1 PROVE h[k] = PlaceAfter(times, h, k)
      OBVIOUS
    <3>1. h[k] = PlaceAfter(times, g, k)
      BY <2>1
    <3>2. k > 1 => k - 1 \in 1 .. m + 1 /\ k - 1 <= m
      OBVIOUS
    <3>3. k > 1 => h[k - 1] = g[k - 1]
      BY <3>2
    <3> HIDE DEF h
    <3> QED
      BY <3>1, <3>3 DEF PlaceAfter
  <2>3. h = [k \in 1 .. m + 1 |-> PlaceAfter(times, h, k)]
    <3>1. h = [k \in 1 .. m + 1 |-> h[k]]
      OBVIOUS
    <3> HIDE DEF h
    <3> QED
      BY <3>1, <2>2
  <2> HIDE DEF h
  <2> QED
    BY <2>3
<1> HIDE DEF T
<1>3. n \in T
  BY <1>1, <1>2, ByInduction, SMTT(60)
<1> DEFINE f == CHOOSE g : g = [k \in 1 .. n |-> PlaceAfter(times, g, k)]
<1>4. f = [k \in 1 .. n |-> PlaceAfter(times, f, k)]
  BY <1>3 DEF T
<1>5. Places(times) = f
  BY DEF Places, PlaceAfter
<1> HIDE DEF f
<1> QED
  BY <1>4, <1>5

(* Places depend on which times are equal, and on nothing else.            *)
LEMMA SamePlaces ==
    ASSUME NEW n \in Nat, NEW s \in [1 .. n -> Int], NEW t \in [1 .. n -> Int],
           \A i, j \in 1 .. n : s[i] = s[j] <=> t[i] = t[j]
    PROVE  Places(s) = Places(t)
<1> DEFINE T == {m \in Nat : m \in 1 .. n => Places(s)[m] = Places(t)[m]}
<1>1. Len(s) = n /\ Len(t) = n
  OBVIOUS
<1>2. /\ Places(s) = [i \in 1 .. n |-> PlaceAfter(s, Places(s), i)]
      /\ Places(t) = [i \in 1 .. n |-> PlaceAfter(t, Places(t), i)]
  BY <1>1, PlacesIs
<1>3. \A i \in 1 .. n :
        /\ Places(s)[i] = IF i > 1 /\ s[i] = s[i - 1] THEN Places(s)[i - 1] ELSE i
        /\ Places(t)[i] = IF i > 1 /\ t[i] = t[i - 1] THEN Places(t)[i - 1] ELSE i
  BY <1>2 DEF PlaceAfter
<1>4. 0 \in T
  OBVIOUS
<1>5. ASSUME NEW m \in Nat, m \in T PROVE m + 1 \in T
  <2> SUFFICES ASSUME m + 1 \in 1 .. n PROVE Places(s)[m + 1] = Places(t)[m + 1]
    OBVIOUS
  <2>1. CASE m = 0
    <3>1. m + 1 = 1 /\ ~(m + 1 > 1)
      BY <2>1
    <3> QED
      BY <1>3, <3>1
  <2>2. CASE m > 0
    <3>1. m \in 1 .. n /\ m + 1 - 1 = m /\ m + 1 > 1
      BY <2>2
    <3>2. Places(s)[m] = Places(t)[m] /\ (s[m + 1] = s[m] <=> t[m + 1] = t[m])
      BY <1>5, <3>1
    <3>3. /\ Places(s)[m + 1] = IF s[m + 1] = s[m] THEN Places(s)[m] ELSE m + 1
          /\ Places(t)[m + 1] = IF t[m + 1] = t[m] THEN Places(t)[m] ELSE m + 1
      BY <1>3, <3>1
    <3> QED
      BY <3>2, <3>3
  <2> QED
    BY <2>1, <2>2
<1> HIDE DEF T
<1>6. ASSUME NEW i \in 1 .. n PROVE Places(s)[i] = Places(t)[i]
  <2>1. Nat \subseteq T
    BY <1>4, <1>5, ByInduction
  <2>2. i \in T
    BY <2>1
  <2> QED
    BY <2>2 DEF T
<1>7. Places(s) = [i \in 1 .. n |-> Places(s)[i]] /\ Places(t) = [i \in 1 .. n |-> Places(t)[i]]
  BY <1>2
<1> QED
  BY <1>6, <1>7

(* The place is the first position that has the time, if all before are in *)
(* order.                                                                  *)
LEMMA PlacesSay ==
    ASSUME NEW times, NEW n \in Nat, Len(times) = n,
           \A i \in 1 .. n : times[i] \in Int, NEW i \in 1 .. n,
           \A j, k \in 1 .. i : j < k => times[j] <= times[k]
    PROVE  /\ Places(times)[i] \in 1 .. i
           /\ times[Places(times)[i]] = times[i]
           /\ \A k \in 1 .. Places(times)[i] - 1 : times[k] < times[i]
<1> DEFINE place == Places(times)
           Good(m) == /\ place[m] \in 1 .. m
                      /\ times[place[m]] = times[m]
                      /\ \A k \in 1 .. place[m] - 1 : times[k] < times[m]
           T == {m \in Nat : m \in 1 .. i => Good(m)}
<1>1. \A m \in 1 .. n :
        place[m] = IF m > 1 /\ times[m] = times[m - 1] THEN place[m - 1] ELSE m
  BY PlacesIs DEF PlaceAfter
<1> HIDE DEF place
<1>2. 0 \in T
  OBVIOUS
<1>3. ASSUME NEW m \in Nat, m \in T PROVE m + 1 \in T
  <2> SUFFICES ASSUME m + 1 \in 1 .. i PROVE Good(m + 1)
    OBVIOUS
  <2>1. CASE m + 1 > 1 /\ times[m + 1] = times[m]
    <3>1. m \in 1 .. n /\ place[m + 1] = place[m]
      BY <1>1, <2>1
    <3>2. Good(m)
      BY <1>3, <3>1
    <3> QED
      BY <2>1, <3>1, <3>2
  <2>2. CASE ~(m + 1 > 1 /\ times[m + 1] = times[m])
    <3>1. place[m + 1] = m + 1
      BY <1>1, <2>2
    <3>2. ASSUME NEW k \in 1 .. m PROVE times[k] < times[m + 1]
      <4>1. m \in 1 .. n /\ k \in 1 .. n /\ times[k] \in Int /\ times[m] \in Int
            /\ times[m + 1] \in Int
        OBVIOUS
      <4>2. times[k] <= times[m] /\ times[m] <= times[m + 1] /\ times[m] # times[m + 1]
        BY <2>2, <4>1
      <4> QED
        BY <4>1, <4>2
    <3> QED
      BY <3>1, <3>2
  <2> QED
    BY <2>1, <2>2
<1> HIDE DEF T
<1>4. i \in T
  BY ONLY <1>2, <1>3, i \in Nat, ByInduction, SMTT(60)
<1> QED
  BY <1>4 DEF T, place

(* C comes first in an order of S, and by time.                            *)
Leads(S, t, order, C) ==
    /\ IsFiniteSet(S) /\ t \in [S -> Int] /\ order \in SetToSeqs(S) /\ C \in SUBSET S
    /\ \A i, j \in DOMAIN order :
         i < j /\ order[j] \in C => order[i] \in C /\ t[order[i]] <= t[order[j]]
Faster(C, t, x) == {f \in C : t[f] < t[x]}

(* Then a place in C is one more than the number of those who are faster.  *)
LEMMA PlaceCounts ==
    ASSUME NEW S, NEW t, NEW order, NEW C, Leads(S, t, order, C),
           NEW n \in DOMAIN order, order[n] \in C
    PROVE  /\ Places([i \in DOMAIN order |-> t[order[i]]])[n] \in 1 .. n
           /\ Places([i \in DOMAIN order |-> t[order[i]]])[n]
                = 1 + Cardinality(Faster(C, t, order[n]))
           /\ Cardinality(Faster(C, t, order[n])) \in Nat
<1> DEFINE z == Cardinality(S)
           x == order[n]
           times == [i \in DOMAIN order |-> t[order[i]]]
           p == Places(times)[n]
<1>1. /\ IsFiniteSet(S) /\ t \in [S -> Int] /\ order \in SetToSeqs(S) /\ C \subseteq S
      /\ \A i, j \in DOMAIN order :
           i < j /\ order[j] \in C => order[i] \in C /\ t[order[i]] <= t[order[j]]
  BY DEF Leads
<1>2. /\ z \in Nat /\ DOMAIN order = 1 .. z /\ order \in [1 .. z -> S]
      /\ order \in Bijection(1 .. z, S)
  BY <1>1, OrderSays
<1>3. /\ \A i, j \in 1 .. z : i # j => order[i] # order[j]
      /\ \A f \in S : \E i \in 1 .. z : order[i] = f
  BY <1>2 DEF Bijection, Injection, Surjection, IsInjective
<1>4. \A i \in 1 .. z : order[i] \in S /\ t[order[i]] \in Int
  BY <1>1, <1>2
<1>5. times \in Seq(Int) /\ Len(times) = z /\ \A i \in 1 .. z : times[i] = t[order[i]]
  <2>1. times = [i \in 1 .. z |-> t[order[i]]]
    BY <1>2
  <2>2. times \in [1 .. z -> Int]
    BY <1>4, <2>1
  <2> HIDE DEF times
  <2>3. times \in Seq(Int) /\ Len(times) = z
    BY <1>2, <2>2
  <2> QED
    BY <2>1, <2>3
<1> HIDE DEF times
<1>6. n \in 1 .. z /\ x \in C /\ t[x] \in Int /\ times[n] = t[x]
  BY <1>2, <1>4, <1>5
<1>7. \A j, k \in 1 .. n : j < k => times[j] <= times[k]
  <2> SUFFICES ASSUME NEW j \in 1 .. n, NEW k \in 1 .. n, j < k PROVE times[j] <= times[k]
    OBVIOUS
  <2>1. j \in 1 .. z /\ k \in 1 .. z
    BY <1>2, <1>6
  <2>2. order[k] \in C
    <3>1. CASE k = n
      BY <1>6, <3>1
    <3>2. CASE k < n
      BY <1>1, <1>2, <1>6, <2>1, <3>2
    <3> QED
      BY <1>6, <2>1, <3>1, <3>2
  <2> QED
    BY <1>1, <1>2, <1>5, <2>1, <2>2
<1>8. /\ p \in 1 .. n /\ times[p] = times[n]
      /\ \A k \in 1 .. p - 1 : times[k] < times[n]
  <2>1. \A i \in 1 .. z : times[i] \in Int
    BY <1>4, <1>5
  <2> HIDE DEF z
  <2> QED
    BY ONLY <1>2, <1>5, <1>6, <1>7, <2>1, PlacesSay, Zenon
<1> DEFINE B == Faster(C, t, x)
           m == p - 1
           g == [k \in 1 .. m |-> order[k]]
<1>9. /\ m \in Nat /\ p = m + 1 /\ m < n
      /\ \A k \in 1 .. m : k \in 1 .. z /\ k < n
  BY <1>2, <1>6, <1>8
<1>10. ASSUME NEW k \in 1 .. m PROVE order[k] \in B
  <2>1. k \in 1 .. z /\ k < n /\ times[k] < times[n] /\ times[k] = t[order[k]]
    BY <1>5, <1>8, <1>9
  <2>2. order[k] \in C
    BY <1>1, <1>2, <1>6, <2>1
  <2> QED
    BY <1>6, <2>1, <2>2 DEF Faster
<1>11. ASSUME NEW f \in B PROVE \E k \in 1 .. m : order[k] = f
  <2>1. f \in C /\ f \in S /\ t[f] < t[x]
    BY <1>1 DEF Faster
  <2>2. PICK k \in 1 .. z : order[k] = f
    BY <1>3, <2>1
  <2>3. times[k] = t[f] /\ times[k] \in Int /\ times[k] < times[n]
    BY <1>4, <1>5, <1>6, <2>1, <2>2
  <2>4. ~(n <= k)
    <3>1. n = k => times[n] = times[k]
      OBVIOUS
    <3>2. n < k => times[n] <= times[k]
      BY <1>1, <1>2, <1>5, <1>6, <2>1, <2>2
    <3> QED
      BY <1>2, <1>6, <2>3, <3>1, <3>2
  <2>5. ~(p <= k)
    <3>1. k \in 1 .. n /\ p \in 1 .. n
      BY <1>2, <1>6, <1>8, <2>4
    <3>2. p = k => times[p] = times[k]
      OBVIOUS
    <3>3. p < k => times[p] <= times[k]
      BY <1>7, <3>1
    <3> QED
      BY <1>6, <1>8, <2>3, <3>1, <3>2, <3>3
  <2>6. k \in 1 .. m
    BY <1>2, <1>6, <1>8, <2>5
  <2> QED
    BY <2>2, <2>6
<1> HIDE DEF B, m, p, x
<1>12. g \in [1 .. m -> B]
  BY <1>10
<1>13. g \in Bijection(1 .. m, B)
  <2>1. \A i, j \in 1 .. m : i # j => g[i] # g[j]
    BY <1>3, <1>9
  <2>2. \A f \in B : \E k \in 1 .. m : g[k] = f
    BY <1>11
  <2> HIDE DEF g
  <2> QED
    BY <1>12, <2>1, <2>2 DEF Bijection, Injection, Surjection, IsInjective
<1>14. IsFiniteSet(1 .. m) /\ Cardinality(1 .. m) = m
  BY <1>9, FS_Interval
<1>15. Cardinality(B) = m
  BY <1>13, <1>14, FS_Bijection DEF ExistsBijection
<1> QED
  BY <1>8, <1>9, <1>15 DEF B, p, x, times

(* Places by the order of times: who is faster is ahead, and a place       *)
(* counts who is.                                                          *)
PlacedBy(S, t, order, pos, p) ==
    /\ IsFiniteSet(S) /\ t \in [S -> Int] /\ order \in SetToSeqs(S) /\ Sorted(t, order)
    /\ pos \in [S -> 1 .. Cardinality(S)] /\ \A f \in S : order[pos[f]] = f
    /\ \A f \in S : p[f] = Places([i \in DOMAIN order |-> t[order[i]]])[pos[f]]
Ahead(S, p, e) == {f \in S : p[f] < p[e]}

LEMMA PlacesCount ==
    ASSUME NEW S, NEW t, NEW order, NEW pos, NEW p, PlacedBy(S, t, order, pos, p), NEW e \in S
    PROVE  /\ p[e] \in 1 .. Cardinality(S)
           /\ \A f \in S : t[f] < t[e] <=> p[f] < p[e]
           /\ p[e] = 1 + Cardinality(Faster(S, t, e))
           /\ p[e] = 1 + Cardinality(Ahead(S, p, e))
<1> DEFINE n == Cardinality(S)
<1>1. /\ IsFiniteSet(S) /\ t \in [S -> Int] /\ order \in SetToSeqs(S) /\ Sorted(t, order)
      /\ pos \in [S -> 1 .. n] /\ \A f \in S : order[pos[f]] = f
      /\ \A f \in S : p[f] = Places([i \in DOMAIN order |-> t[order[i]]])[pos[f]]
  BY DEF PlacedBy
<1>2. n \in Nat /\ DOMAIN order = 1 .. n /\ \A i \in 1 .. n : order[i] \in S
  BY <1>1, OrderSays
<1>3. Leads(S, t, order, S)
  <2>1. ASSUME NEW i \in DOMAIN order, NEW j \in DOMAIN order, i < j
        PROVE  order[i] \in S /\ t[order[i]] <= t[order[j]]
    BY <1>1, <1>2, <2>1 DEF Sorted
  <2> QED
    BY <1>1, <2>1 DEF Leads
<1>4. \A f \in S : /\ p[f] = 1 + Cardinality(Faster(S, t, f))
                   /\ Cardinality(Faster(S, t, f)) \in Nat
  <2> SUFFICES ASSUME NEW f \in S
               PROVE  /\ p[f] = 1 + Cardinality(Faster(S, t, f))
                      /\ Cardinality(Faster(S, t, f)) \in Nat
    OBVIOUS
  <2>1. pos[f] \in DOMAIN order /\ order[pos[f]] = f
    BY <1>1, <1>2
  <2>2. p[f] = Places([i \in DOMAIN order |-> t[order[i]]])[pos[f]]
    BY <1>1
  <2> QED
    BY <1>3, <2>1, <2>2, PlaceCounts
<1>5. \A f \in S : Faster(S, t, f) \in SUBSET S /\ IsFiniteSet(Faster(S, t, f))
  BY <1>1, FS_Subset DEF Faster
<1>6. ASSUME NEW f \in S, NEW h \in S, t[f] < t[h]
      PROVE  Cardinality(Faster(S, t, f)) < Cardinality(Faster(S, t, h))
  <2>1. /\ Faster(S, t, f) \in SUBSET Faster(S, t, h)
        /\ f \in Faster(S, t, h) /\ f \notin Faster(S, t, f)
    <3>1. \A x \in S : t[x] \in Int
      BY <1>1
    <3> QED
      BY <1>6, <3>1 DEF Faster
  <2>2. /\ Cardinality(Faster(S, t, f)) <= Cardinality(Faster(S, t, h))
        /\ Cardinality(Faster(S, t, f)) # Cardinality(Faster(S, t, h))
    BY <1>5, <2>1, FS_Subset
  <2> QED
    BY <1>4, <2>2
<1>7. ASSUME NEW f \in S, NEW h \in S, t[f] = t[h] PROVE p[f] = p[h]
  BY <1>4, <1>7 DEF Faster
<1>8. \A f, h \in S : t[f] < t[h] <=> p[f] < p[h]
  <2> SUFFICES ASSUME NEW f \in S, NEW h \in S PROVE t[f] < t[h] <=> p[f] < p[h]
    OBVIOUS
  <2>1. t[f] \in Int /\ t[h] \in Int /\ p[f] \in Int /\ p[h] \in Int
    BY <1>1, <1>4
  <2>2. CASE t[f] < t[h]
    BY <1>4, <1>6, <2>2
  <2>3. CASE t[f] = t[h]
    BY <1>7, <2>1, <2>3
  <2>4. CASE t[h] < t[f]
    BY <1>4, <1>6, <2>1, <2>4
  <2> QED
    BY <2>1, <2>2, <2>3, <2>4
<1>9. p[e] \in 1 .. n
  <2>1. e \notin Faster(S, t, e)
    BY <1>1 DEF Faster
  <2>2. Cardinality(Faster(S, t, e)) <= n /\ Cardinality(Faster(S, t, e)) # n
    BY <1>1, <1>5, <2>1, FS_Subset
  <2> QED
    BY <1>2, <1>4, <2>2
<1>10. Ahead(S, p, e) = Faster(S, t, e)
  BY <1>8 DEF Ahead, Faster
<1> QED
  BY <1>4, <1>8, <1>9, <1>10
=============================================================================
