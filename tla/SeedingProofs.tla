----------------------------- MODULE SeedingProofs -----------------------------
(***************************************************************************)
(* Proofs about the seeding of an event and its protocol, for any entries, *)
(* generations in flight and pools of up to twenty lanes: a generation     *)
(* seeds by the rules, and no lane of a heat is given twice; and the rules *)
(* do what they are for, however many swimmers, results and hundredths.    *)
(*                                                                         *)
(* First the rules by themselves: the sizes of the heats add up to the     *)
(* swimmers, so every rank swims in one heat, a better one never earlier;  *)
(* a heat has no more ranks than lanes, and its lanes go outwards.  A      *)
(* generation writes one plan made by them.  That two entries never share  *)
(* a lane which the last generation wrote is inductive once the requests   *)
(* are typed: a plan gives no lane of a heat twice, and whoever is moved   *)
(* or deleted afterwards is no longer one of those it seeded.              *)
(*                                                                         *)
(* Then what the runs check of the rules over their bounds.  A table of a  *)
(* protocol is a set of results in the order of their rank, of which those *)
(* in competition come first, so a place counts who is faster; the tables  *)
(* are of disjoint parts of the list, so each result is in one row.        *)
(***************************************************************************)
EXTENDS Seeding, Rules, ListLemmas

Statuses == {"none", "IN", "OUT"}

(* A generation under way has read a pool of the competition, and entries  *)
(* of the event, some if it is about to write.                             *)
RequestGood(q) ==
    /\ q.step \in {"idle", "entries", "commit"}
    /\ q.lanes \in Pools \cup {0}
    /\ DOMAIN q.seen \subseteq Entries
    /\ \A e \in DOMAIN q.seen : q.seen[e] \in Times
    /\ q.step # "idle" => q.lanes \in Pools
    /\ q.step = "commit" => DOMAIN q.seen # {}

HasShape(x) == x = [heat |-> x.heat, lane |-> x.lane]

(* What the invariant has of the types; that is TypeOK (SeedingTypes).     *)
SpotGood(x) ==
    /\ HasShape(x)
    /\ x.heat \in 0 .. Cardinality(Entries) /\ x.lane \in {NoLane} \cup 0 .. 20

Spotted == spot = [e \in Entries |-> spot[e]]

SeedingTyped ==
    /\ status \in [Entries -> Statuses]
    /\ time \in [Entries -> Times]
    /\ DOMAIN spot = Entries /\ Spotted
    /\ \A e \in Entries : SpotGood(spot[e])
    /\ lanes \in Pools
    /\ fresh \subseteq InEvent
    /\ DOMAIN req = Requests
    /\ \A r \in Requests : RequestGood(req[r])

(* The inductive invariant.                                                *)
SeedingInv == SeedingTyped /\ LaneSharedOnlyWithOutsider

-----------------------------------------------------------------------------
(* The heats of an event: how many, and how many swim in each.             *)

LEMMA SizesSay ==
    ASSUME NEW sizes \in Seq(Int), NEW h \in DOMAIN sizes
    PROVE  /\ SizeOf(sizes, h) \in Nat
           /\ SizeOf(sizes, h) >= sizes[h]
           /\ sizes[h] >= 0 => SizeOf(sizes, h) = sizes[h]
<1>1. sizes[h] \in Int
  OBVIOUS
<1> QED
  BY <1>1 DEF SizeOf

(* The function by which Taken is defined exists.                          *)
PlacedAfter(sizes, f, k) ==
    IF k = 0 THEN 0 ELSE f[k - 1] + SizeOf(sizes, Len(sizes) - k + 1)

LEMMA TakenIs ==
    ASSUME NEW sizes \in Seq(Int)
    PROVE  \E f : /\ f = [k \in 0 .. Len(sizes) |-> PlacedAfter(sizes, f, k)]
                  /\ \A h \in 0 .. Len(sizes) : Taken(sizes, h) = f[Len(sizes) - h]
<1> DEFINE T == {m \in Nat : \E g : g = [k \in 0 .. m |-> PlacedAfter(sizes, g, k)]}
<1>1. 0 \in T
  <2> DEFINE g == [k \in 0 .. 0 |-> 0]
  <2>1. g = [k \in 0 .. 0 |-> PlacedAfter(sizes, g, k)]
    BY DEF PlacedAfter
  <2> QED
    BY <2>1
<1>2. ASSUME NEW m \in Nat, m \in T PROVE m + 1 \in T
  <2>1. PICK g : g = [k \in 0 .. m |-> PlacedAfter(sizes, g, k)]
    BY <1>2
  <2> DEFINE h == [k \in 0 .. m + 1 |-> IF k <= m THEN g[k] ELSE PlacedAfter(sizes, g, k)]
  <2>2. \A k \in 0 .. m + 1 : h[k] = PlacedAfter(sizes, h, k)
    <3> SUFFICES ASSUME NEW k \in 0 .. m + 1 PROVE h[k] = PlacedAfter(sizes, h, k)
      OBVIOUS
    <3>1. h[k] = PlacedAfter(sizes, g, k)
      BY <2>1
    <3>2. k # 0 => k - 1 \in 0 .. m + 1 /\ k - 1 <= m
      OBVIOUS
    <3>3. k # 0 => h[k - 1] = g[k - 1]
      BY <3>2
    <3> HIDE DEF h
    <3> QED
      BY <3>1, <3>3 DEF PlacedAfter
  <2>3. h = [k \in 0 .. m + 1 |-> PlacedAfter(sizes, h, k)]
    <3>1. h = [k \in 0 .. m + 1 |-> h[k]]
      OBVIOUS
    <3> HIDE DEF h
    <3> QED
      BY <3>1, <2>2
  <2> HIDE DEF h
  <2> QED
    BY <2>3
<1> HIDE DEF T
<1>3. Len(sizes) \in T
  BY <1>1, <1>2, ByInduction, SMTT(60)
<1> DEFINE f == CHOOSE g : g = [k \in 0 .. Len(sizes) |-> PlacedAfter(sizes, g, k)]
<1>4. f = [k \in 0 .. Len(sizes) |-> PlacedAfter(sizes, f, k)]
  BY <1>3 DEF T
<1>5. \A h : Taken(sizes, h) = f[Len(sizes) - h]
  BY DEF Taken, PlacedAfter
<1> HIDE DEF f
<1> QED
  BY <1>4, <1>5

(* Heats are filled from the last one.                                     *)
LEMMA TakenSays ==
    ASSUME NEW sizes \in Seq(Int)
    PROVE  /\ \A h \in 0 .. Len(sizes) : Taken(sizes, h) \in Nat
           /\ Taken(sizes, Len(sizes)) = 0
           /\ \A h \in DOMAIN sizes :
                Taken(sizes, h - 1) = Taken(sizes, h) + SizeOf(sizes, h)
<1> DEFINE last == Len(sizes)
<1>1. PICK f : /\ f = [k \in 0 .. Len(sizes) |-> PlacedAfter(sizes, f, k)]
               /\ \A h \in 0 .. Len(sizes) : Taken(sizes, h) = f[Len(sizes) - h]
  BY TakenIs
<1>2. last \in Nat /\ DOMAIN sizes = 1 .. last
  OBVIOUS
<1> HIDE DEF last
<1>3. /\ f[0] = 0
      /\ \A k \in 1 .. last : f[k] = f[k - 1] + SizeOf(sizes, last - k + 1)
  <2>1. \A k \in 0 .. last : f[k] = PlacedAfter(sizes, f, k)
    BY <1>1 DEF last
  <2> QED
    BY <1>2, <2>1 DEF PlacedAfter, last
<1>4. \A k \in 1 .. last : SizeOf(sizes, last - k + 1) \in Nat
  BY <1>2, SizesSay
<1> DEFINE T == {k \in Nat : k <= last => f[k] \in Nat}
<1>5. 0 \in T
  BY <1>3
<1>6. ASSUME NEW k \in Nat, k \in T PROVE k + 1 \in T
  <2> SUFFICES ASSUME k + 1 <= last PROVE f[k + 1] \in Nat
    OBVIOUS
  <2>1. k + 1 \in 1 .. last /\ (k + 1) - 1 = k /\ k <= last
    BY <1>2
  <2>2. f[k] \in Nat
    BY <1>6, <2>1
  <2>3. f[k + 1] = f[k] + SizeOf(sizes, last - (k + 1) + 1)
    BY <1>3, <2>1
  <2> QED
    BY <1>4, <2>1, <2>2, <2>3
<1>7. \A k \in 0 .. last : f[k] \in Nat
  <2> HIDE DEF T
  <2>1. Nat \subseteq T
    BY <1>5, <1>6, ByInduction
  <2> QED
    BY <2>1, <1>2 DEF T
<1>8. \A h \in 0 .. last : Taken(sizes, h) = f[last - h] /\ last - h \in 0 .. last
  BY <1>1, <1>2 DEF last
<1>9. ASSUME NEW h \in 1 .. last
      PROVE  Taken(sizes, h - 1) = Taken(sizes, h) + SizeOf(sizes, h)
  <2>1. last - (h - 1) \in 1 .. last /\ h - 1 \in 0 .. last /\ h \in 0 .. last
    BY <1>2
  <2>2. (last - (h - 1)) - 1 = last - h /\ last - (last - (h - 1)) + 1 = h
    BY <1>2
  <2>3. f[last - (h - 1)] = f[last - h] + SizeOf(sizes, h)
    BY <1>3, <2>1, <2>2
  <2> QED
    BY <1>8, <2>1, <2>3
<1>10. Taken(sizes, last) = 0
  BY <1>2, <1>3, <1>8
<1> QED
  BY <1>2, <1>7, <1>8, <1>9, <1>10 DEF last

(* Who is in a later heat is taken before those of the earlier ones.       *)
LEMMA TakenFalls ==
    ASSUME NEW sizes \in Seq(Int), NEW g \in 0 .. Len(sizes), NEW h \in g .. Len(sizes)
    PROVE  Taken(sizes, h) <= Taken(sizes, g)
<1> DEFINE last == Len(sizes)
           T == {k \in Nat : g + k <= last => Taken(sizes, g + k) <= Taken(sizes, g)}
<1>1. last \in Nat /\ DOMAIN sizes = 1 .. last
  OBVIOUS
<1>2. /\ \A x \in 0 .. last : Taken(sizes, x) \in Nat
      /\ \A x \in 1 .. last : Taken(sizes, x - 1) = Taken(sizes, x) + SizeOf(sizes, x)
  BY <1>1, TakenSays
<1>3. \A x \in 1 .. last : SizeOf(sizes, x) \in Nat
  BY <1>1, SizesSay
<1>4. 0 \in T
  <2>1. g + 0 = g /\ g \in 0 .. last
    BY <1>1
  <2>2. Taken(sizes, g) \in Nat
    BY <1>2, <2>1
  <2> QED
    BY <2>1, <2>2
<1>5. ASSUME NEW k \in Nat, k \in T PROVE k + 1 \in T
  <2> SUFFICES ASSUME g + (k + 1) <= last PROVE Taken(sizes, g + (k + 1)) <= Taken(sizes, g)
    OBVIOUS
  <2>1. /\ g + (k + 1) \in 1 .. last /\ (g + (k + 1)) - 1 = g + k
        /\ g + k \in 0 .. last /\ g \in 0 .. last
    BY <1>1
  <2> HIDE DEF last
  <2>2. Taken(sizes, g + k) <= Taken(sizes, g)
    BY <1>1, <1>5, <2>1
  <2>3. Taken(sizes, g + k) = Taken(sizes, g + (k + 1)) + SizeOf(sizes, g + (k + 1))
    BY <1>2, <2>1
  <2> QED
    BY <1>2, <1>3, <2>1, <2>2, <2>3
<1>6. h - g \in Nat /\ g + (h - g) = h /\ h <= last
  BY <1>1
<1> HIDE DEF T
<1>7. h - g \in T
  BY <1>4, <1>5, <1>6, ByInduction
<1> QED
  BY <1>6, <1>7 DEF T

(* Every rank that is taken swims in one heat, ...                         *)
LEMMA HeatOfSays ==
    ASSUME NEW sizes \in Seq(Int), NEW a \in 1 .. Taken(sizes, 0)
    PROVE  /\ HeatOf(sizes, a) \in DOMAIN sizes
           /\ a > Taken(sizes, HeatOf(sizes, a))
           /\ a <= Taken(sizes, HeatOf(sizes, a)) + SizeOf(sizes, HeatOf(sizes, a))
<1> DEFINE last == Len(sizes)
           T == {k \in 0 .. last : Taken(sizes, last - k) >= a}
<1>1. last \in Nat /\ DOMAIN sizes = 1 .. last
  OBVIOUS
<1>2. /\ \A x \in 0 .. last : Taken(sizes, x) \in Nat
      /\ Taken(sizes, last) = 0
      /\ \A x \in 1 .. last : Taken(sizes, x - 1) = Taken(sizes, x) + SizeOf(sizes, x)
  BY <1>1, TakenSays
<1>3. a \in Nat /\ a >= 1 /\ a <= Taken(sizes, 0)
  BY <1>1, <1>2
<1> HIDE DEF last
<1>4. last \in T
  <2>1. last \in 0 .. last /\ last - last = 0
    BY <1>1
  <2> QED
    BY <1>3, <2>1
<1>5. PICK k \in T : \A j \in T : k <= j
  <2>1. T \subseteq Nat /\ T # {}
    BY <1>1, <1>4
  <2> HIDE DEF T
  <2> QED
    BY <2>1, LeastOf
<1>6. k \in 0 .. last /\ Taken(sizes, last - k) >= a
  OBVIOUS
<1>7. k # 0
  BY <1>1, <1>2, <1>3, <1>6
<1>8. k - 1 \in 0 .. last /\ k - 1 \notin T
  <2>1. k - 1 \in 0 .. last /\ ~(k <= k - 1)
    BY <1>1, <1>6, <1>7
  <2> HIDE DEF T
  <2> QED
    BY <1>5, <2>1
<1> DEFINE h == last - k + 1
<1>9. h \in 1 .. last /\ h = last - (k - 1) /\ h - 1 = last - k
  BY <1>1, <1>6, <1>7
<1>10. a > Taken(sizes, h)
  <2>1. ~(Taken(sizes, last - (k - 1)) >= a)
    BY <1>8
  <2>2. Taken(sizes, h) \in Nat /\ h = last - (k - 1)
    BY <1>1, <1>2, <1>9
  <2> QED
    BY <1>3, <2>1, <2>2
<1>11. a <= Taken(sizes, h) + SizeOf(sizes, h)
  <2>1. Taken(sizes, h - 1) = Taken(sizes, h) + SizeOf(sizes, h)
    BY <1>2, <1>9
  <2>2. Taken(sizes, h - 1) >= a /\ Taken(sizes, h - 1) \in Nat
    BY <1>1, <1>2, <1>6, <1>9
  <2> QED
    BY <1>3, <2>1, <2>2
<1> HIDE DEF h
<1> QED
  BY <1>1, <1>9, <1>10, <1>11 DEF HeatOf

(* ... the only one it fits, ...                                           *)
LEMMA HeatOfOnly ==
    ASSUME NEW sizes \in Seq(Int), NEW a \in 1 .. Taken(sizes, 0), NEW h \in DOMAIN sizes,
           a > Taken(sizes, h), a <= Taken(sizes, h) + SizeOf(sizes, h)
    PROVE  HeatOf(sizes, a) = h
<1> DEFINE last == Len(sizes)
           g == HeatOf(sizes, a)
<1>1. last \in Nat /\ DOMAIN sizes = 1 .. last /\ h \in 1 .. last
  OBVIOUS
<1>2. /\ \A x \in 0 .. last : Taken(sizes, x) \in Nat
      /\ \A x \in 1 .. last : Taken(sizes, x - 1) = Taken(sizes, x) + SizeOf(sizes, x)
  BY <1>1, TakenSays
<1>3. a \in Nat
  BY <1>1, <1>2
<1>4. g \in 1 .. last /\ a > Taken(sizes, g) /\ a <= Taken(sizes, g) + SizeOf(sizes, g)
  BY <1>1, HeatOfSays
<1> HIDE DEF g
<1>5. a <= Taken(sizes, g - 1) /\ a <= Taken(sizes, h - 1)
  BY <1>1, <1>2, <1>4
<1>6. \A x, y \in 1 .. last : x < y => Taken(sizes, y - 1) <= Taken(sizes, x)
  <2> SUFFICES ASSUME NEW x \in 1 .. last, NEW y \in 1 .. last, x < y
               PROVE  Taken(sizes, y - 1) <= Taken(sizes, x)
    OBVIOUS
  <2>1. x \in 0 .. last /\ y - 1 \in x .. last
    BY <1>1
  <2> QED
    BY <2>1, TakenFalls
<1> HIDE DEF last
<1>7. \A x \in 1 .. last : x \in 0 .. last /\ x - 1 \in 0 .. last
  BY <1>1
<1>8. ~(g < h)
  <2>1. g < h => Taken(sizes, h - 1) <= Taken(sizes, g)
    BY <1>1, <1>4, <1>6
  <2>2. Taken(sizes, h - 1) \in Nat /\ Taken(sizes, g) \in Nat
    BY <1>1, <1>2, <1>4, <1>7
  <2> QED
    BY <1>3, <1>4, <1>5, <2>1, <2>2
<1>9. ~(h < g)
  <2>1. h < g => Taken(sizes, g - 1) <= Taken(sizes, h)
    BY <1>1, <1>4, <1>6
  <2>2. Taken(sizes, g - 1) \in Nat /\ Taken(sizes, h) \in Nat
    BY <1>1, <1>2, <1>4, <1>7
  <2> QED
    BY <1>3, <1>5, <2>1, <2>2
<1> QED
  BY <1>1, <1>4, <1>8, <1>9 DEF g

(* ... and a better rank never in an earlier one.                          *)
LEMMA HeatOfFalls ==
    ASSUME NEW sizes \in Seq(Int), NEW a \in 1 .. Taken(sizes, 0),
           NEW b \in 1 .. Taken(sizes, 0), a < b
    PROVE  HeatOf(sizes, a) >= HeatOf(sizes, b)
<1> DEFINE last == Len(sizes)
           g == HeatOf(sizes, a)
           h == HeatOf(sizes, b)
<1>1. last \in Nat /\ DOMAIN sizes = 1 .. last
  OBVIOUS
<1>2. /\ \A x \in 0 .. last : Taken(sizes, x) \in Nat
      /\ \A x \in 1 .. last : Taken(sizes, x - 1) = Taken(sizes, x) + SizeOf(sizes, x)
  BY <1>1, TakenSays
<1>3. a \in Nat /\ b \in Nat
  BY <1>1, <1>2
<1>4. /\ g \in 1 .. last /\ a > Taken(sizes, g)
      /\ h \in 1 .. last /\ b <= Taken(sizes, h) + SizeOf(sizes, h)
  BY <1>1, HeatOfSays
<1> HIDE DEF g, h
<1> SUFFICES ASSUME g < h PROVE FALSE
  BY <1>1, <1>4 DEF g, h
<1>5. g \in 0 .. last /\ h - 1 \in 0 .. last /\ h - 1 \in g .. last
  BY <1>1, <1>4
<1>6. Taken(sizes, h - 1) <= Taken(sizes, g)
  BY <1>5, TakenFalls
<1>7. b <= Taken(sizes, h - 1)
  BY <1>2, <1>4
<1> HIDE DEF last
<1>8. Taken(sizes, h - 1) \in Nat /\ Taken(sizes, g) \in Nat
  BY <1>2, <1>5
<1> QED
  BY <1>3, <1>4, <1>6, <1>7, <1>8

(* A heat for every full pool, and one for who is left.                    *)
LEMMA CountSays ==
    ASSUME NEW n \in Nat \ {0}, NEW wide \in 1 .. 20
    PROVE  /\ HeatCount(n, wide) \in 1 .. n
           /\ (HeatCount(n, wide) - 1) * wide < n
           /\ n <= HeatCount(n, wide) * wide
<1> DEFINE q == (n + wide - 1) \div wide
<1>1. q \in Nat /\ q >= 1 /\ q <= n /\ (q - 1) * wide < n /\ n <= q * wide
  BY SMTT(60)
<1>2. HeatCount(n, wide) = q
  <2>1. HeatCount(n, wide) = Max({1, q})
    BY DEF HeatCount
  <2> HIDE DEF q
  <2> QED
    BY <1>1, <2>1 DEF Max
<1> HIDE DEF q
<1> QED
  BY <1>1, <1>2

(* As long as the later heats are full.                                    *)
LEMMA TakenFull ==
    ASSUME NEW sizes \in Seq(Int), NEW wide \in Nat, NEW g \in 0 .. Len(sizes),
           \A h \in g + 1 .. Len(sizes) : sizes[h] = wide
    PROVE  Taken(sizes, g) = (Len(sizes) - g) * wide
<1> DEFINE last == Len(sizes)
           T == {k \in Nat : k <= last - g => Taken(sizes, last - k) = k * wide}
<1>1. last \in Nat /\ DOMAIN sizes = 1 .. last /\ g \in 0 .. last
  OBVIOUS
<1>2. /\ Taken(sizes, last) = 0
      /\ \A x \in 1 .. last : Taken(sizes, x - 1) = Taken(sizes, x) + SizeOf(sizes, x)
  BY <1>1, TakenSays
<1>3. \A x \in g + 1 .. last : SizeOf(sizes, x) = wide
  BY <1>1, SizesSay
<1> HIDE DEF last
<1>4. 0 \in T
  BY <1>1, <1>2
<1>5. ASSUME NEW k \in Nat, k \in T PROVE k + 1 \in T
  <2> SUFFICES ASSUME k + 1 <= last - g PROVE Taken(sizes, last - (k + 1)) = (k + 1) * wide
    OBVIOUS
  <2>1. /\ last - k \in 1 .. last /\ last - k \in g + 1 .. last
        /\ (last - k) - 1 = last - (k + 1) /\ k <= last - g
    BY <1>1
  <2>2. Taken(sizes, last - k) = k * wide
    BY <1>5, <2>1
  <2>3. Taken(sizes, last - (k + 1)) = Taken(sizes, last - k) + wide
    BY <1>2, <1>3, <2>1
  <2>4. (k + 1) * wide = k * wide + wide
    OBVIOUS
  <2> QED
    BY <2>2, <2>3, <2>4
<1>6. last - g \in Nat /\ last - (last - g) = g
  BY <1>1
<1>7. last - g \in T
  <2> HIDE DEF T
  <2> QED
    BY <1>4, <1>5, <1>6, ByInduction
<1> QED
  BY <1>6, <1>7 DEF last

(* The heats take every swimmer; from three lanes on, they take no more,   *)
(* and each heat has swimmers, and lanes for them.                         *)
LEMMA HeatsTake ==
    ASSUME NEW n \in Nat \ {0}, NEW wide \in 1 .. 20
    PROVE  /\ HeatSizes(n, wide) \in Seq(Int)
           /\ Len(HeatSizes(n, wide)) = HeatCount(n, wide)
           /\ Taken(HeatSizes(n, wide), 0) >= n
           /\ wide >= 3 =>
                /\ Taken(HeatSizes(n, wide), 0) = n
                /\ \A h \in DOMAIN HeatSizes(n, wide) : HeatSizes(n, wide)[h] \in 1 .. wide
<1> DEFINE last == HeatCount(n, wide)
           sizes == HeatSizes(n, wide)
           first == n - (last - 1) * wide
           moves == last > 1 /\ n >= 3 /\ 3 - first > 0
           at(h) == IF h = 1 THEN IF moves THEN 3 ELSE first
                    ELSE IF h = 2 /\ moves THEN wide - (3 - first) ELSE wide
<1>1. last \in 1 .. n /\ (last - 1) * wide < n /\ n <= last * wide
  BY CountSays
<1>2. first \in Int /\ first >= 1 /\ first <= wide
  <2>1. last * wide = (last - 1) * wide + wide
    BY <1>1
  <2> QED
    BY <1>1, <2>1
<1>3. sizes = [h \in 1 .. last |-> at(h)]
  <2> DEFINE full == [h \in 1 .. last |-> IF h = 1 THEN first ELSE wide]
  <2>1. sizes = IF last > 1 /\ n >= 3 /\ 3 - full[1] > 0
                THEN [full EXCEPT ![1] = @ + (3 - full[1]), ![2] = @ - (3 - full[1])] ELSE full
    BY DEF HeatSizes
  <2> HIDE DEF sizes, first, last
  <2>2. full[1] = first /\ (last > 1 => 2 \in 1 .. last /\ full[2] = wide)
    BY <1>1
  <2>3. CASE moves
    <3>1. sizes = [full EXCEPT ![1] = @ + (3 - first), ![2] = @ - (3 - first)]
      BY <2>1, <2>2, <2>3
    <3>2. first + (3 - first) = 3
      BY <1>2
    <3> QED
      BY <2>2, <2>3, <3>1, <3>2
  <2>4. CASE ~moves
    <3>1. sizes = full
      BY <2>1, <2>2, <2>4
    <3> QED
      BY <2>4, <3>1
  <2> QED
    BY <2>3, <2>4
<1> HIDE DEF first
<1>4. \A h \in 1 .. last : at(h) \in Int
  BY <1>2
<1>5. sizes \in Seq(Int) /\ Len(sizes) = last /\ DOMAIN sizes = 1 .. last
      /\ \A h \in 1 .. last : sizes[h] = at(h)
  <2> HIDE DEF at
  <2> QED
    BY <1>1, <1>3, <1>4
<1> HIDE DEF sizes, last
<1>6. wide >= 3 => \A h \in 1 .. last : sizes[h] \in 1 .. wide
  BY <1>2, <1>5
<1>7. /\ \A h \in 1 .. last : SizeOf(sizes, h) \in Nat /\ SizeOf(sizes, h) >= sizes[h]
      /\ wide >= 3 => \A h \in 1 .. last : SizeOf(sizes, h) = sizes[h]
  BY <1>5, <1>6, SizesSay
<1>8. /\ Taken(sizes, last) = 0
      /\ \A h \in 1 .. last : Taken(sizes, h - 1) = Taken(sizes, h) + SizeOf(sizes, h)
  BY <1>5, TakenSays
<1>9. CASE last = 1
  <2>1. sizes[1] = n
    BY <1>1, <1>5, <1>9 DEF first
  <2>2. Taken(sizes, 0) = SizeOf(sizes, 1)
    BY <1>7, <1>8, <1>9
  <2> QED
    BY <1>5, <1>6, <1>7, <1>9, <2>1, <2>2 DEF sizes, last
<1>10. CASE last > 1
  <2>1. 2 \in 0 .. last /\ 1 \in 1 .. last /\ 2 \in 1 .. last
    BY <1>1, <1>10
  <2>2. \A h \in 2 + 1 .. last : sizes[h] = wide
    BY <1>5
  <2>3. Taken(sizes, 2) = (last - 2) * wide
    <3>1. 2 \in 0 .. Len(sizes) /\ \A h \in 2 + 1 .. Len(sizes) : sizes[h] = wide
      BY <1>5, <2>1, <2>2
    <3> QED
      BY <1>5, <3>1, TakenFull
  <2>4. Taken(sizes, 0) = Taken(sizes, 2) + SizeOf(sizes, 2) + SizeOf(sizes, 1)
    <3>1. Taken(sizes, 1) = Taken(sizes, 2) + SizeOf(sizes, 2)
      BY <1>8, <2>1
    <3>2. Taken(sizes, 0) = Taken(sizes, 1) + SizeOf(sizes, 1)
      BY <1>8, <2>1
    <3> QED
      BY <3>1, <3>2
  <2>5. sizes[1] + sizes[2] = first + wide /\ sizes[1] \in Int /\ sizes[2] \in Int
    BY <1>2, <1>5, <2>1
  <2>6. (last - 2) * wide + wide = (last - 1) * wide
    BY <1>1
  <2>7. (last - 2) * wide + sizes[2] + sizes[1] = n
    BY <1>1, <2>5, <2>6 DEF first
  <2>8. (last - 2) * wide \in Int
    BY <1>1
  <2>9. Taken(sizes, 0) >= n /\ (wide >= 3 => Taken(sizes, 0) = n)
    BY <1>7, <2>1, <2>3, <2>4, <2>5, <2>7, <2>8
  <2> QED
    BY <1>5, <1>6, <2>9 DEF sizes, last
<1> QED
  BY <1>1, <1>9, <1>10
-----------------------------------------------------------------------------
(* The order of the lanes of a pool has every lane once, all in the pool.  *)

LEMMA OrderDistinct ==
    ASSUME NEW n \in 1 .. 20
    PROVE  /\ Len(LaneOrder(n)) = n
           /\ \A i \in 1 .. n : LaneOrder(n)[i] \in MinLane(n) .. MaxLane(n)
           /\ \A i, j \in 1 .. n : i # j => LaneOrder(n)[i] # LaneOrder(n)[j]
<1> DEFINE c == CenterLane(n)
           at(i) == IF i % 2 = 0 THEN c + i \div 2 ELSE c - i \div 2
<1>1. c \in Int /\ (IF n = 10 THEN c = 4 ELSE c = (n + 1) \div 2)
  BY DEF CenterLane
<1>2. LaneOrder(n) = [i \in 1 .. n |-> at(i)]
  BY DEF LaneOrder
<1>3. \A i \in 1 .. n : at(i) \in MinLane(n) .. MaxLane(n)
  BY <1>1 DEF MinLane, MaxLane
<1>4. \A i, j \in 1 .. n : i # j => at(i) # at(j)
  BY <1>1
<1>5. LaneOrder(n) \in Seq(Int) /\ Len(LaneOrder(n)) = n
  <2> HIDE DEF at
  <2>1. \A i \in 1 .. n : at(i) \in Int
    BY <1>3 DEF MinLane, MaxLane
  <2> QED
    BY <1>2, <2>1
<1> QED
  <2> HIDE DEF at
  <2> QED
    BY <1>2, <1>3, <1>4, <1>5

-----------------------------------------------------------------------------
(* A plan: the swimmers of a heat are counted by their rank, so nobody has *)
(* the number of another one of the same heat.                             *)

LEMMA CountsDiffer ==
    ASSUME NEW D, IsFiniteSet(D), NEW heat, NEW rank \in [D -> Int],
           NEW e \in D, NEW g \in D, heat[e] = heat[g], rank[e] < rank[g]
    PROVE  LET upTo(x) == {f \in D : heat[f] = heat[x] /\ rank[f] <= rank[x]}
           IN  Cardinality(upTo(e)) < Cardinality(upTo(g))
<1> DEFINE upTo(x) == {f \in D : heat[f] = heat[x] /\ rank[f] <= rank[x]}
<1>1. upTo(e) \subseteq upTo(g) /\ g \in upTo(g) /\ g \notin upTo(e)
  OBVIOUS
<1>2. IsFiniteSet(upTo(g))
  BY FS_Subset
<1>3. IsFiniteSet(upTo(e)) /\ Cardinality(upTo(e)) <= Cardinality(upTo(g))
      /\ Cardinality(upTo(e)) # Cardinality(upTo(g))
  <2> HIDE DEF upTo
  <2> QED
    BY <1>1, <1>2, FS_Subset
<1>4. Cardinality(upTo(e)) \in Nat /\ Cardinality(upTo(g)) \in Nat
  <2> HIDE DEF upTo
  <2> QED
    BY <1>2, <1>3, FS_CardinalityType
<1> QED
  BY <1>3, <1>4

(* As many ranks as swimmers: every rank is somebody's.                    *)
LEMMA RanksAll ==
    ASSUME NEW seen, IsFiniteSet(DOMAIN seen), NEW rank \in Rankings(seen)
    PROVE  /\ Cardinality(DOMAIN seen) \in Nat
           /\ rank \in [DOMAIN seen -> 1 .. Cardinality(DOMAIN seen)]
           /\ \A a \in 1 .. Cardinality(DOMAIN seen) : \E e \in DOMAIN seen : rank[e] = a
           /\ \A e, g \in DOMAIN seen : e # g => rank[e] # rank[g]
           /\ \A e, g \in DOMAIN seen :
                e # g /\ Before(seen[e], seen[g]) => rank[e] < rank[g]
<1> DEFINE D == DOMAIN seen
           n == Cardinality(D)
<1>1. n \in Nat
  BY FS_CardinalityType
<1>2. /\ rank \in [D -> 1 .. n]
      /\ \A e, g \in D : e # g => rank[e] # rank[g]
      /\ \A e, g \in D : e # g /\ Before(seen[e], seen[g]) => rank[e] < rank[g]
  BY DEF Rankings
<1> HIDE DEF D
<1>3. IsFiniteSet(1 .. n) /\ Cardinality(1 .. n) = n
  BY <1>1, FS_Interval
<1>4. rank \in Injection(D, 1 .. n)
  BY <1>2 DEF Injection, IsInjective
<1>5. rank \in Surjection(D, 1 .. n)
  BY <1>3, <1>4, FS_Injection
<1> QED
  BY <1>1, <1>2, <1>5 DEF Surjection, D

(* A heat has no more swimmers than ranks.                                 *)
LEMMA HeatFits ==
    ASSUME NEW seen, IsFiniteSet(DOMAIN seen), NEW rank \in Rankings(seen),
           NEW sizes \in Seq(Int), Taken(sizes, 0) >= Cardinality(DOMAIN seen),
           NEW h \in DOMAIN sizes
    PROVE  Cardinality({f \in DOMAIN seen : HeatOf(sizes, rank[f]) = h}) <= SizeOf(sizes, h)
<1> DEFINE D == DOMAIN seen
           n == Cardinality(D)
           S == {f \in D : HeatOf(sizes, rank[f]) = h}
           t == Taken(sizes, h)
           size == SizeOf(sizes, h)
           own == [f \in S |-> rank[f]]
<1>1. n \in Nat /\ rank \in [D -> 1 .. n] /\ \A e, g \in D : e # g => rank[e] # rank[g]
  BY RanksAll
<1>2. t \in Nat /\ size \in Nat /\ Taken(sizes, 0) \in Nat
  BY TakenSays, SizesSay
<1>3. \A f \in S : rank[f] \in t + 1 .. t + size
  <2> SUFFICES ASSUME NEW f \in D, HeatOf(sizes, rank[f]) = h
               PROVE  rank[f] \in t + 1 .. t + size
    OBVIOUS
  <2>1. rank[f] \in 1 .. Taken(sizes, 0) /\ rank[f] \in Nat
    BY <1>1, <1>2
  <2> QED
    BY <1>2, <2>1, HeatOfSays
<1> HIDE DEF t, size
<1>4. IsFiniteSet(t + 1 .. t + size) /\ Cardinality(t + 1 .. t + size) = size
  <2>1. t + 1 \in Int /\ t + size \in Int /\ (t + size) - (t + 1) + 1 = size
        /\ (t + 1 > t + size <=> size = 0)
    BY <1>2
  <2>2. /\ IsFiniteSet(t + 1 .. t + size)
        /\ Cardinality(t + 1 .. t + size) =
             IF t + 1 > t + size THEN 0 ELSE (t + size) - (t + 1) + 1
    BY <2>1, FS_Interval
  <2> QED
    BY <2>1, <2>2
<1>5. own \in Injection(S, t + 1 .. t + size)
  BY <1>1, <1>3 DEF Injection, IsInjective
<1> HIDE DEF own, S
<1>6. Cardinality(S) <= size
  BY <1>4, <1>5, FS_Injection
<1> QED
  BY <1>6 DEF S, D, size

(* What a plan is: the heats follow one ranking, the lanes of a heat       *)
(* another one.                                                            *)
PlanBy(seen, wide, plan, first, rank, count) ==
    /\ DOMAIN plan = DOMAIN seen
    /\ \A e \in DOMAIN seen :
         /\ HasShape(plan[e])
         /\ plan[e].heat = HeatOf(HeatSizes(Cardinality(DOMAIN seen), wide), first[e])
         /\ plan[e].lane = IF count[e] <= wide THEN LaneOrder(wide)[count[e]] ELSE NoLane
    /\ \A e \in DOMAIN seen :
         /\ count[e] \in Nat /\ count[e] >= 1
         /\ count[e] <= Cardinality({f \in DOMAIN seen : plan[f].heat = plan[e].heat})
    /\ \A e, g \in DOMAIN seen :
         plan[e].heat = plan[g].heat /\ rank[e] < rank[g] => count[e] < count[g]

LEMMA PlanSays ==
    ASSUME NEW seen, IsFiniteSet(DOMAIN seen), NEW wide \in 1 .. 20,
           NEW plan \in Plans(seen, wide)
    PROVE  \E first, rank \in Rankings(seen) : \E count :
             PlanBy(seen, wide, plan, first, rank, count)
<1> DEFINE D == DOMAIN seen
           sizes == HeatSizes(Cardinality(D), wide)
           order == LaneOrder(wide)
<1>1. PICK heat \in Heats(seen, wide), rank \in Rankings(seen) :
        plan = Plan(heat, rank, order)
  BY DEF Plans
<1>2. PICK first \in Rankings(seen) : heat = [e \in D |-> HeatOf(sizes, first[e])]
  BY DEF Heats
<1>3. /\ rank \in [D -> Int] /\ Cardinality(D) \in Nat
      /\ \A e, g \in D : e # g => rank[e] # rank[g]
  BY RanksAll
<1> HIDE DEF sizes
<1> DEFINE upTo(x) == {f \in D : heat[f] = heat[x] /\ rank[f] <= rank[x]}
           count == [x \in D |-> Cardinality(upTo(x))]
<1>4. \A e \in D : /\ count[e] \in Nat /\ count[e] >= 1
                   /\ count[e] <= Cardinality({f \in D : heat[f] = heat[e]})
  <2> SUFFICES ASSUME NEW e \in D
               PROVE  /\ count[e] \in Nat /\ count[e] >= 1
                      /\ count[e] <= Cardinality({f \in D : heat[f] = heat[e]})
    OBVIOUS
  <2> DEFINE all == {f \in D : heat[f] = heat[e]}
             low == upTo(e)
  <2>1. IsFiniteSet(all) /\ low \subseteq all /\ {e} \subseteq low
    BY <1>3, FS_Subset
  <2>2. Cardinality({e}) = 1
    BY FS_Singleton
  <2>3. count[e] = Cardinality(low)
    OBVIOUS
  <2> HIDE DEF upTo, all, low, count
  <2>4. IsFiniteSet(low) /\ Cardinality(low) <= Cardinality(all)
    BY <2>1, FS_Subset
  <2>5. Cardinality({e}) <= Cardinality(low) /\ Cardinality(low) \in Nat
    BY <2>1, <2>4, FS_Subset, FS_CardinalityType
  <2> QED
    BY <2>2, <2>3, <2>4, <2>5 DEF all
<1>5. \A e, g \in D : heat[e] = heat[g] /\ rank[e] < rank[g] => count[e] < count[g]
  <2> SUFFICES ASSUME NEW e \in D, NEW g \in D, heat[e] = heat[g], rank[e] < rank[g]
               PROVE  count[e] < count[g]
    OBVIOUS
  <2>1. Cardinality(upTo(e)) < Cardinality(upTo(g))
    BY <1>3, CountsDiffer
  <2> QED
    BY <2>1
<1>6. Len(order) = wide
  BY OrderDistinct
<1>7. plan = [e \in D |-> [heat |-> heat[e],
                           lane |-> IF count[e] <= wide THEN order[count[e]] ELSE NoLane]]
  BY <1>1, <1>2, <1>6 DEF Plan
<1> HIDE DEF count, order
<1>8. /\ DOMAIN plan = D
      /\ \A e \in D : /\ plan[e].heat = heat[e] /\ heat[e] = HeatOf(sizes, first[e])
                      /\ plan[e].lane = IF count[e] <= wide THEN order[count[e]] ELSE NoLane
  <2>1. DOMAIN plan = D
    BY <1>7
  <2>2. ASSUME NEW e \in D
        PROVE  /\ plan[e].heat = heat[e] /\ heat[e] = HeatOf(sizes, first[e])
               /\ plan[e].lane = IF count[e] <= wide THEN order[count[e]] ELSE NoLane
    <3>1. plan[e] = [heat |-> heat[e],
                     lane |-> IF count[e] <= wide THEN order[count[e]] ELSE NoLane]
      BY <1>7, Zenon
    <3>2. heat[e] = HeatOf(sizes, first[e])
      BY <1>2
    <3> QED
      BY <3>1, <3>2
  <2> QED
    BY <2>1, <2>2
<1>9. \A e \in D : HasShape(plan[e])
  BY <1>7 DEF HasShape
<1>10. \A e \in D : {f \in D : plan[f].heat = plan[e].heat} = {f \in D : heat[f] = heat[e]}
  BY <1>8
<1>11. PlanBy(seen, wide, plan, first, rank, count)
  BY <1>4, <1>5, <1>8, <1>9, <1>10 DEF PlanBy, order, sizes
<1> QED
  BY <1>11

(* No plan gives a lane of a heat twice.                                   *)
LEMMA PlanDistinct ==
    ASSUME NEW seen, IsFiniteSet(DOMAIN seen), DOMAIN seen # {}, NEW wide \in 1 .. 20,
           NEW plan \in Plans(seen, wide)
    PROVE  /\ DOMAIN plan = DOMAIN seen
           /\ \A e \in DOMAIN plan :
                /\ HasShape(plan[e])
                /\ plan[e].heat \in 1 .. Cardinality(DOMAIN seen)
                /\ plan[e].lane \in {NoLane} \cup 0 .. 20
           /\ \A e, g \in DOMAIN plan :
                e # g /\ plan[e].lane # NoLane /\ plan[g].lane # NoLane
                => plan[e] # plan[g]
<1> DEFINE D == DOMAIN seen
           n == Cardinality(D)
           sizes == HeatSizes(n, wide)
           order == LaneOrder(wide)
<1>a. PICK first \in Rankings(seen), rank \in Rankings(seen) :
        \E count : PlanBy(seen, wide, plan, first, rank, count)
  BY PlanSays
<1>1. PICK count : PlanBy(seen, wide, plan, first, rank, count)
  BY <1>a
<1>2. n \in Nat \ {0}
  BY FS_EmptySet, FS_CardinalityType
<1>3. /\ first \in [D -> 1 .. n] /\ rank \in [D -> 1 .. n]
      /\ \A e, g \in D : e # g => rank[e] # rank[g]
  BY RanksAll
<1>4. sizes \in Seq(Int) /\ Len(sizes) \in 1 .. n /\ Taken(sizes, 0) >= n
  BY <1>2, HeatsTake, CountSays
<1>5. \A e \in D : HeatOf(sizes, first[e]) \in 1 .. n
  <2> SUFFICES ASSUME NEW e \in D PROVE HeatOf(sizes, first[e]) \in 1 .. n
    OBVIOUS
  <2>1. Taken(sizes, 0) \in Nat /\ DOMAIN sizes = 1 .. Len(sizes)
    BY <1>4, TakenSays
  <2>2. first[e] \in 1 .. Taken(sizes, 0)
    BY <1>2, <1>3, <1>4, <2>1
  <2>3. HeatOf(sizes, first[e]) \in DOMAIN sizes
    BY <1>4, <2>2, HeatOfSays
  <2> QED
    BY <1>2, <1>4, <2>1, <2>3
<1>6. /\ \A i \in 1 .. wide : order[i] \in 0 .. 20
      /\ \A i, j \in 1 .. wide : i # j => order[i] # order[j]
  <2>1. MinLane(wide) .. MaxLane(wide) \subseteq 0 .. 20
    BY DEF MinLane, MaxLane
  <2> QED
    BY <2>1, OrderDistinct
<1>7. /\ DOMAIN plan = D
      /\ \A e \in D :
           /\ HasShape(plan[e]) /\ plan[e].heat = HeatOf(sizes, first[e])
           /\ plan[e].lane = IF count[e] <= wide THEN order[count[e]] ELSE NoLane
           /\ count[e] \in Nat /\ count[e] >= 1
      /\ \A e, g \in D : plan[e].heat = plan[g].heat /\ rank[e] < rank[g] => count[e] < count[g]
  BY <1>1 DEF PlanBy
<1> HIDE DEF D, n, sizes, order
<1>8. \A e \in D : /\ plan[e].heat \in 1 .. n
                   /\ HasShape(plan[e])
                   /\ plan[e].lane \in {NoLane} \cup 0 .. 20
                   /\ plan[e].lane # NoLane =>
                         count[e] \in 1 .. wide /\ plan[e].lane = order[count[e]]
  BY <1>5, <1>6, <1>7
<1>9. ASSUME NEW e \in D, NEW g \in D, e # g, plan[e].lane # NoLane, plan[g].lane # NoLane,
             plan[e].heat = plan[g].heat
      PROVE  plan[e].lane # plan[g].lane
  <2>1. rank[e] < rank[g] \/ rank[g] < rank[e]
    BY <1>2, <1>3, <1>9
  <2>2. /\ count[e] \in 1 .. wide /\ plan[e].lane = order[count[e]]
        /\ count[g] \in 1 .. wide /\ plan[g].lane = order[count[g]]
    BY <1>8, <1>9
  <2>3. count[e] # count[g]
    BY <1>7, <1>9, <2>1, <2>2
  <2> QED
    BY <1>6, <2>2, <2>3
<1>10. \A e, g \in D : e # g /\ plan[e].lane # NoLane /\ plan[g].lane # NoLane => plan[e] # plan[g]
  BY <1>9
<1> QED
  BY <1>7, <1>8, <1>10 DEF D, n

(* The later in the order, the further from the centre.                    *)
Off(lane, wide) == LET d == lane - CenterLane(wide) IN IF d < 0 THEN -2 * d ELSE 2 * d - 1

LEMMA OrderOutwards ==
    ASSUME NEW wide \in 1 .. 20, NEW i \in 1 .. wide, NEW j \in 1 .. wide, i < j
    PROVE  Off(LaneOrder(wide)[i], wide) < Off(LaneOrder(wide)[j], wide)
<1> DEFINE c == CenterLane(wide)
<1>1. c \in Int
  BY DEF CenterLane
<1>2. \A k \in 1 .. wide :
        LaneOrder(wide)[k] = IF k % 2 = 0 THEN c + k \div 2 ELSE c - k \div 2
  BY DEF LaneOrder
<1>3. \A k \in 1 .. wide :
        Off(LaneOrder(wide)[k], wide) = IF k = 1 THEN -1 ELSE k - 1
  BY <1>1, <1>2 DEF Off
<1> QED
  BY <1>3

(* In a pool of three lanes or more, a plan seeds by the rules.            *)
LEMMA PlanByRules ==
    ASSUME NEW seen, IsFiniteSet(DOMAIN seen), DOMAIN seen # {}, NEW wide \in 3 .. 20,
           NEW plan \in Plans(seen, wide)
    PROVE  /\ {plan[e].heat : e \in DOMAIN seen} = 1 .. HeatCount(Cardinality(DOMAIN seen), wide)
           /\ \A e \in DOMAIN seen : plan[e].lane \in MinLane(wide) .. MaxLane(wide)
           /\ \A e, g \in DOMAIN seen :
                e # g /\ Before(seen[e], seen[g]) =>
                  \/ plan[e].heat > plan[g].heat
                  \/ /\ plan[e].heat = plan[g].heat
                     /\ Off(plan[e].lane, wide) < Off(plan[g].lane, wide)
<1> DEFINE D == DOMAIN seen
           n == Cardinality(D)
           sizes == HeatSizes(n, wide)
           order == LaneOrder(wide)
           last == HeatCount(n, wide)
<1>0. wide \in 1 .. 20 /\ wide >= 3
  OBVIOUS
<1>a. PICK first \in Rankings(seen), rank \in Rankings(seen) :
        \E count : PlanBy(seen, wide, plan, first, rank, count)
  BY <1>0, PlanSays
<1>1. PICK count : PlanBy(seen, wide, plan, first, rank, count)
  BY <1>a
<1>2. n \in Nat \ {0}
  BY FS_EmptySet, FS_CardinalityType
<1>3. /\ first \in [D -> 1 .. n] /\ \A a \in 1 .. n : \E e \in D : first[e] = a
      /\ \A e, g \in D : e # g /\ Before(seen[e], seen[g]) =>
           first[e] < first[g] /\ rank[e] < rank[g]
  BY RanksAll
<1>4. /\ sizes \in Seq(Int) /\ Len(sizes) = last /\ last \in 1 .. n /\ Taken(sizes, 0) = n
      /\ \A h \in DOMAIN sizes : sizes[h] \in 1 .. wide
  <2> HIDE DEF D, n
  <2> QED
    BY <1>0, <1>2, HeatsTake, CountSays
<1>5. /\ DOMAIN plan = D
      /\ \A e \in D :
           /\ HasShape(plan[e]) /\ plan[e].heat = HeatOf(sizes, first[e])
           /\ plan[e].lane = IF count[e] <= wide THEN order[count[e]] ELSE NoLane
           /\ count[e] \in Nat /\ count[e] >= 1
           /\ count[e] <= Cardinality({f \in D : plan[f].heat = plan[e].heat})
      /\ \A e, g \in D : plan[e].heat = plan[g].heat /\ rank[e] < rank[g] => count[e] < count[g]
  BY <1>1 DEF PlanBy
<1>6. \A i \in 1 .. wide : order[i] \in MinLane(wide) .. MaxLane(wide)
  BY <1>0, OrderDistinct
<1> HIDE DEF sizes, order, last
<1>7. DOMAIN sizes = 1 .. last /\ \A h \in 1 .. last : SizeOf(sizes, h) = sizes[h]
  BY <1>4, SizesSay, SMTT(60)
<1>8. \A e \in D : plan[e].heat = HeatOf(sizes, first[e]) /\ plan[e].heat \in 1 .. last
  <2> SUFFICES ASSUME NEW e \in D
               PROVE  plan[e].heat = HeatOf(sizes, first[e]) /\ plan[e].heat \in 1 .. last
    OBVIOUS
  <2>1. first[e] \in 1 .. Taken(sizes, 0)
    BY <1>3, <1>4
  <2>2. HeatOf(sizes, first[e]) \in DOMAIN sizes
    BY <1>4, <2>1, HeatOfSays
  <2>3. plan[e].heat = HeatOf(sizes, first[e])
    BY <1>5
  <2> QED
    BY <1>7, <2>2, <2>3
<1>9. ASSUME NEW h \in 1 .. last PROVE \E e \in D : plan[e].heat = h
  <2> DEFINE a == Taken(sizes, h) + 1
  <2>1. h \in 0 .. last /\ h - 1 \in 0 .. last /\ h \in DOMAIN sizes
    BY <1>4, <1>7
  <2>2. Taken(sizes, h) \in Nat /\ Taken(sizes, h - 1) = Taken(sizes, h) + SizeOf(sizes, h)
        /\ Taken(sizes, h - 1) \in Nat
    BY <1>4, <2>1, TakenSays
  <2>3. SizeOf(sizes, h) \in 1 .. wide
    BY <1>4, <1>7, <2>1
  <2>4. Taken(sizes, h - 1) <= Taken(sizes, 0)
    <3>1. 0 \in 0 .. Len(sizes) /\ h - 1 \in 0 .. Len(sizes)
      BY <1>4, <2>1
    <3> QED
      BY <1>4, <3>1, TakenFalls
  <2>5. a \in 1 .. n /\ a \in 1 .. Taken(sizes, 0)
    BY <1>2, <1>4, <2>2, <2>3, <2>4
  <2>6. a > Taken(sizes, h) /\ a <= Taken(sizes, h) + SizeOf(sizes, h)
    BY <2>2, <2>3
  <2> HIDE DEF a
  <2>7. HeatOf(sizes, a) = h
    BY <1>4, <2>1, <2>5, <2>6, HeatOfOnly
  <2>8. PICK e \in D : first[e] = a
    BY <1>3, <2>5
  <2> QED
    BY <1>8, <2>7, <2>8
<1>10. {plan[e].heat : e \in D} = 1 .. last
  BY <1>8, <1>9
<1>11. \A e \in D : count[e] \in 1 .. wide /\ plan[e].lane = order[count[e]]
  <2> SUFFICES ASSUME NEW e \in D
               PROVE  count[e] \in 1 .. wide /\ plan[e].lane = order[count[e]]
    OBVIOUS
  <2> DEFINE h == plan[e].heat
  <2>1. h \in DOMAIN sizes /\ SizeOf(sizes, h) <= wide /\ SizeOf(sizes, h) \in Nat
    BY <1>4, <1>7, <1>8
  <2>2. {f \in D : plan[f].heat = h} = {f \in D : HeatOf(sizes, first[f]) = h}
    BY <1>8
  <2> HIDE DEF h
  <2>3. Taken(sizes, 0) >= n
    BY <1>2, <1>4
  <2>4. Cardinality({f \in D : HeatOf(sizes, first[f]) = h}) <= SizeOf(sizes, h)
    BY <1>4, <2>1, <2>3, HeatFits
  <2> DEFINE S == {f \in D : plan[f].heat = h}
  <2>5. count[e] <= Cardinality(S) /\ Cardinality(S) <= SizeOf(sizes, h)
    BY <1>5, <2>2, <2>4 DEF h
  <2>6. Cardinality(S) \in Nat
    BY FS_Subset, FS_CardinalityType
  <2>7. count[e] \in Nat /\ count[e] >= 1
    BY <1>5
  <2> HIDE DEF S
  <2>8. count[e] \in 1 .. wide /\ count[e] <= wide
    BY ONLY <1>0, <2>1, <2>5, <2>6, <2>7
  <2>9. plan[e].lane = IF count[e] <= wide THEN order[count[e]] ELSE NoLane
    BY <1>5
  <2> QED
    BY <2>8, <2>9
<1>12. ASSUME NEW e \in D, NEW g \in D, e # g, Before(seen[e], seen[g]),
              ~(plan[e].heat > plan[g].heat)
       PROVE  /\ plan[e].heat = plan[g].heat
              /\ Off(plan[e].lane, wide) < Off(plan[g].lane, wide)
  <2>1. first[e] < first[g] /\ rank[e] < rank[g]
    BY <1>3, <1>12
  <2>2. first[e] \in 1 .. Taken(sizes, 0) /\ first[g] \in 1 .. Taken(sizes, 0)
    BY <1>3, <1>4
  <2>3. HeatOf(sizes, first[e]) >= HeatOf(sizes, first[g])
    BY <1>4, <2>1, <2>2, HeatOfFalls
  <2>4. plan[e].heat = plan[g].heat
    BY <1>4, <1>8, <1>12, <2>3
  <2>5. count[e] < count[g]
    BY <1>5, <2>1, <2>4
  <2>6. Off(order[count[e]], wide) < Off(order[count[g]], wide)
    <3>1. count[e] \in 1 .. wide /\ count[g] \in 1 .. wide
      BY <1>11
    <3> QED
      BY <1>0, <2>5, <3>1, OrderOutwards DEF order
  <2> QED
    BY <1>11, <2>4, <2>6
<1> QED
  BY <1>6, <1>10, <1>11, <1>12 DEF last

-----------------------------------------------------------------------------
(* The steps.                                                              *)

LEMMA NoSpotGood == SpotGood(NoSpot)
<1>1. Cardinality(Entries) \in Nat
  BY SeedingAssumption, FS_CardinalityType
<1> QED
  BY <1>1 DEF SpotGood, HasShape, NoSpot, NoHeat, NoLane

LEMMA SeedingStarts == Init => SeedingInv
<1> SUFFICES ASSUME Init PROVE SeedingInv
  OBVIOUS
<1>1. SeedingTyped
  BY SeedingAssumption, NoSpotGood
  DEF Init, SeedingTyped, Spotted, Statuses, RequestGood, Idle, InEvent
<1>2. LaneSharedOnlyWithOutsider
  BY DEF Init, LaneSharedOnlyWithOutsider
<1> QED
  BY <1>1, <1>2 DEF SeedingInv

(* A commit writes the lanes of one plan, and only those are fresh.        *)
LEMMA CommitKeeps ==
    ASSUME NEW r \in Requests, SeedingInv, GenerateCommit(r)
    PROVE  SeedingInv'
<1> DEFINE seen == req[r].seen
<1>1. /\ SeedingTyped /\ RequestGood(req[r]) /\ req[r].step = "commit"
      /\ DOMAIN seen \subseteq InEvent /\ DOMAIN seen # {}
      /\ UNCHANGED <<status, time, lanes, edits>>
      /\ req' = [req EXCEPT ![r] = Idle]
  BY DEF SeedingInv, SeedingTyped, GenerateCommit, RequestGood
<1>2. /\ DOMAIN seen \subseteq Entries /\ IsFiniteSet(DOMAIN seen) /\ req[r].lanes \in 1 .. 20
      /\ Cardinality(DOMAIN seen) \in Nat /\ Cardinality(DOMAIN seen) <= Cardinality(Entries)
      /\ Cardinality(Entries) \in Nat
  BY <1>1, SeedingAssumption, FS_Subset, FS_CardinalityType DEF RequestGood
<1>3. PICK plan \in Plans(seen, req[r].lanes) :
        /\ spot' = [e \in Entries |-> IF e \in DOMAIN plan
                                      THEN Assigned(spot[e], plan[e]) ELSE spot[e]]
        /\ fresh' = {e \in DOMAIN plan : plan[e].lane # NoLane}
  BY DEF GenerateCommit
<1>4. /\ DOMAIN plan = DOMAIN seen
      /\ \A e \in DOMAIN plan :
           /\ HasShape(plan[e]) /\ plan[e].heat \in 1 .. Cardinality(DOMAIN seen)
           /\ plan[e].lane \in {NoLane} \cup 0 .. 20
      /\ \A e, g \in DOMAIN plan :
           e # g /\ plan[e].lane # NoLane /\ plan[g].lane # NoLane => plan[e] # plan[g]
  BY <1>1, <1>2, PlanDistinct
<1> HIDE DEF seen
<1>5. \A e \in fresh' : e \in DOMAIN plan /\ e \in Entries /\ spot'[e] = plan[e]
  BY <1>2, <1>3, <1>4 DEF Assigned
<1>6. LaneSharedOnlyWithOutsider'
  BY <1>3, <1>4, <1>5 DEF LaneSharedOnlyWithOutsider
<1>7. \A e \in Entries : SpotGood(spot'[e])
  <2> SUFFICES ASSUME NEW e \in Entries PROVE SpotGood(spot'[e])
    OBVIOUS
  <2>1. SpotGood(spot[e])
    BY <1>1 DEF SeedingTyped
  <2>2. spot'[e] = IF e \in DOMAIN plan THEN Assigned(spot[e], plan[e]) ELSE spot[e]
    BY <1>3
  <2>3. CASE e \in DOMAIN plan
    <3> DEFINE old == spot[e]
               new == plan[e]
    <3>1. SpotGood(new)
      <4>1. new.heat \in 0 .. Cardinality(Entries)
        BY <1>2, <1>4, <2>3
      <4> QED
        BY <1>4, <2>3, <4>1 DEF SpotGood
    <3>2. spot'[e] = Assigned(old, new) /\ SpotGood(old)
      BY <2>1, <2>2, <2>3
    <3> HIDE DEF old, new
    <3>3. SpotGood([old EXCEPT !.heat = new.heat])
      BY <3>1, <3>2 DEF SpotGood, HasShape
    <3> QED
      BY <3>1, <3>2, <3>3 DEF Assigned
  <2> QED
    BY <2>1, <2>2, <2>3
<1>8. SeedingTyped'
  <2>1. RequestGood(Idle)
    BY DEF RequestGood, Idle
  <2>2. \A q \in Requests : req'[q] = IF q = r THEN Idle ELSE req[q]
    BY <1>1 DEF SeedingTyped
  <2>3. DOMAIN req' = Requests /\ \A q \in Requests : RequestGood(req'[q])
    BY <1>1, <2>1, <2>2 DEF SeedingTyped
  <2>4. fresh' \subseteq InEvent'
    BY <1>1, <1>4, <1>5 DEF InEvent, seen
  <2>5. Spotted' /\ DOMAIN spot' = Entries
    BY <1>3 DEF Spotted
  <2> QED
    BY <1>1, <1>7, <2>3, <2>4, <2>5 DEF SeedingTyped
<1> QED
  BY <1>6, <1>8 DEF SeedingInv

(* The other steps of a generation write nothing.                          *)
LEMMA ReadKeeps ==
    ASSUME NEW r \in Requests, SeedingInv,
           GenerateBegin(r) \/ GenerateRead(r) \/ GenerateRollback(r)
    PROVE  SeedingInv'
<1>1. SeedingTyped /\ LaneSharedOnlyWithOutsider /\ RequestGood(req[r])
  BY DEF SeedingInv, SeedingTyped
<1>2. UNCHANGED <<status, time, spot, lanes, fresh>>
  BY DEF GenerateBegin, GenerateRead, GenerateRollback, db
<1>3. \E q : RequestGood(q) /\ req' = [req EXCEPT ![r] = q]
  <2>1. RequestGood(Idle)
    BY DEF RequestGood, Idle
  <2>2. RequestGood([Idle EXCEPT !.step = "entries", !.lanes = lanes])
    BY <1>1 DEF RequestGood, Idle, SeedingTyped
  <2>3. req[r].step = "entries" /\ Seedable # {} =>
          RequestGood([req[r] EXCEPT !.step = "commit",
                                     !.seen = [e \in Seedable |-> time[e]]])
    BY <1>1 DEF RequestGood, SeedingTyped, Seedable
  <2>4. CASE GenerateRead(r) /\ ~(Seedable = {} \/ Raises(Cardinality(Seedable), req[r].lanes))
    <3>1. req' = [req EXCEPT ![r] = [req[r] EXCEPT !.step = "commit",
                                       !.seen = [e \in Seedable |-> time[e]]]]
      BY <2>4 DEF GenerateRead
    <3> QED
      BY <2>3, <2>4, <3>1 DEF GenerateRead
  <2> QED
    BY <2>1, <2>2, <2>4 DEF GenerateBegin, GenerateRead, GenerateRollback
<1>4. PICK q : RequestGood(q) /\ req' = [req EXCEPT ![r] = q]
  BY <1>3
<1>5. DOMAIN req' = Requests /\ \A p \in Requests : RequestGood(req'[p])
  BY <1>1, <1>4 DEF SeedingTyped
<1>6. Spotted'
  BY <1>1, <1>2 DEF SeedingTyped, Spotted
<1> QED
  BY <1>1, <1>2, <1>5, <1>6
  DEF SeedingInv, SeedingTyped, LaneSharedOnlyWithOutsider, InEvent, RequestGood

LEMMA ClearKeeps == SeedingInv /\ Clear => SeedingInv'
<1> SUFFICES ASSUME SeedingInv, Clear PROVE SeedingInv'
  OBVIOUS
<1>1. \A e \in Entries : SpotGood(spot'[e])
  BY NoSpotGood DEF Clear
<1>2. Spotted'
  BY DEF Clear, Spotted
<1> QED
  BY <1>1, <1>2 DEF SeedingInv, SeedingTyped, LaneSharedOnlyWithOutsider, Clear, InEvent, RequestGood,
     SpotGood

(* Edits: who is moved or deleted is no longer fresh.                      *)
LEMMA EditKeeps == SeedingInv /\ Edit => SeedingInv'
<1> SUFFICES ASSUME SeedingInv, Edit PROVE SeedingInv'
  OBVIOUS
<1>1. SeedingTyped /\ LaneSharedOnlyWithOutsider
  BY DEF SeedingInv
<1>2. ASSUME UNCHANGED req, UNCHANGED spot, UNCHANGED lanes, UNCHANGED fresh,
             status' \in [Entries -> Statuses], time' \in [Entries -> Times],
             \A e \in Entries : status[e] # "none" => status'[e] # "none"
      PROVE  SeedingInv'
  BY <1>1, <1>2
  DEF SeedingInv, SeedingTyped, Spotted, LaneSharedOnlyWithOutsider, InEvent, RequestGood
<1>3. ASSUME NEW e \in Entries, NEW t \in Times, CreateEntry(e, t) PROVE SeedingInv'
  BY <1>1, <1>2, <1>3 DEF CreateEntry, SeedingTyped, Statuses
<1>4. ASSUME NEW e \in Entries, NEW t \in Times, NEW s \in {"IN", "OUT"}, EditEntry(e, s, t)
      PROVE  SeedingInv'
  BY <1>1, <1>2, <1>4 DEF EditEntry, SeedingTyped, Statuses
<1>5. ASSUME NEW e \in Entries, NEW to, NEW new \in [Entries -> Statuses],
             SpotGood(to),
             \A f \in Entries \ {e} : new[f] = status[f],
             status' = new, time' \in [Entries -> Times],
             spot' = [spot EXCEPT ![e] = to], fresh' = fresh \ {e},
             UNCHANGED lanes, UNCHANGED req
      PROVE  SeedingInv'
  <2>1. Spotted' /\ DOMAIN spot' = Entries
    BY <1>1, <1>5 DEF SeedingTyped, Spotted
  <2> QED
    BY <1>1, <1>5, <2>1
    DEF SeedingInv, SeedingTyped, LaneSharedOnlyWithOutsider, InEvent, RequestGood
<1>6. ASSUME NEW e \in Entries, NEW f \in Entries, MoveEntry(e, spot[f]) PROVE SeedingInv'
  BY <1>1, <1>5, <1>6 DEF MoveEntry, SeedingTyped
<1>7. ASSUME NEW e \in Entries, DeleteEntry(e) PROVE SeedingInv'
  <2> DEFINE new == [status EXCEPT ![e] = "none"]
  <2>1. new \in [Entries -> Statuses] /\ \A f \in Entries \ {e} : new[f] = status[f]
    BY <1>1 DEF SeedingTyped, Statuses
  <2>2. status' = new /\ time' \in [Entries -> Times]
    BY <1>1, <1>7, SeedingAssumption DEF DeleteEntry, SeedingTyped
  <2> QED
    BY <1>5, <1>7, <2>1, <2>2, NoSpotGood DEF DeleteEntry
<1>8. ASSUME NEW n \in Pools, SetLanes(n) PROVE SeedingInv'
  BY <1>1, <1>8
  DEF SetLanes, SeedingInv, SeedingTyped, Spotted, LaneSharedOnlyWithOutsider, InEvent, RequestGood
<1> QED
  BY <1>3, <1>4, <1>6, <1>7, <1>8 DEF Edit

LEMMA SeedingSteps == SeedingInv /\ [Next]_vars => SeedingInv'
<1> SUFFICES ASSUME SeedingInv, [Next]_vars PROVE SeedingInv'
  OBVIOUS
<1>1. ASSUME NEW r \in Requests, Generate(r) PROVE SeedingInv'
  BY <1>1, CommitKeeps, ReadKeeps DEF Generate
<1>2. CASE UNCHANGED vars
  BY <1>2
  DEF vars, db, SeedingInv, SeedingTyped, Spotted, LaneSharedOnlyWithOutsider, InEvent, RequestGood
<1> QED
  BY <1>1, <1>2, ClearKeeps, EditKeeps DEF Next

(* The inductive invariant of the event, its entries and the generations   *)
(* in flight.                                                              *)
THEOREM SeedingInvariance == Spec => []SeedingInv
BY SeedingStarts, SeedingSteps, PTL DEF Spec

(* TypeOK, for any entries, times and pools: in particular a heat has a    *)
(* number up to that of the entries, and the heats of a generation take    *)
(* every entry that it has read.                                           *)
THEOREM SeedingTypes == Spec => []TypeOK
<1>1. SeedingInv => TypeOK
  <2> SUFFICES ASSUME SeedingInv PROVE TypeOK
    OBVIOUS
  <2>1. \A e \in Entries : spot[e] \in Spots
    BY DEF SeedingInv, SeedingTyped, SpotGood, HasShape, Spots
  <2>2. spot \in [Entries -> Spots]
    <3>1. spot = [e \in Entries |-> spot[e]]
      BY DEF SeedingInv, SeedingTyped, Spotted
    <3> QED
      BY <2>1, <3>1
  <2> QED
    BY <2>2 DEF SeedingInv, SeedingTyped, RequestGood, TypeOK, Statuses
<1> QED
  BY <1>1, SeedingInvariance, PTL

(* No interleaving of generations, edits and clears gives one lane of a    *)
(* heat to two entries that the last generation seeded, for pools of up to *)
(* twenty lanes and any entries.                                           *)
THEOREM LanesGivenOnce == Spec => []LaneSharedOnlyWithOutsider
<1>1. SeedingInv => LaneSharedOnlyWithOutsider
  BY DEF SeedingInv
<1> QED
  BY <1>1, SeedingInvariance, PTL

(* Only a commit ends a generation whose entries are all still there.      *)
LEMMA WhoCommits ==
    ASSUME SeedingInv, Next, NEW r \in Requests, Commits(r)
    PROVE  GenerateCommit(r)
<1>1. /\ SeedingTyped /\ req[r].step = "commit" /\ req'[r] = Idle
      /\ DOMAIN req[r].seen \subseteq InEvent
  BY DEF SeedingInv, Commits
<1>2. req'[r] # req[r]
  BY <1>1 DEF Idle
<1>3. ~(Clear \/ Edit)
  BY <1>2 DEF Clear, Edit, CreateEntry, EditEntry, MoveEntry, DeleteEntry, SetLanes
<1>4. PICK q \in Requests : Generate(q)
  BY <1>3 DEF Next
<1>5. q = r
  BY <1>1, <1>2, <1>4 DEF SeedingTyped, Generate, GenerateBegin, GenerateRead, GenerateCommit,
     GenerateRollback
<1> QED
  BY <1>1, <1>4, <1>5 DEF Generate, GenerateBegin, GenerateRead, GenerateRollback, Idle

(* A generation whose reads are still true seeds the event by the rules,   *)
(* whoever swims, in any pool of three to twenty lanes and however equal   *)
(* times are shuffled.                                                     *)
THEOREM GenerationsSeed == Spec => GenerationSeeds
<1>1. ASSUME SeedingInv, Next, NEW r \in Requests, Commits(r), Current(r), lanes >= 3
      PROVE  SeededByRules
  <2> DEFINE seen == req[r].seen
             D == DOMAIN seen
  <2>1. GenerateCommit(r)
    BY <1>1, WhoCommits
  <2>2. /\ D \subseteq Entries /\ D # {} /\ lanes \in 3 .. 20
        /\ D = Seedable /\ \A e \in D : seen[e] = time[e]
        /\ req[r].lanes = lanes /\ DOMAIN spot = Entries
    BY <1>1, <2>1, SeedingAssumption
    DEF SeedingInv, SeedingTyped, RequestGood, GenerateCommit, Current
  <2>3. IsFiniteSet(D)
    BY <2>2, SeedingAssumption, FS_Subset
  <2>4. PICK plan \in Plans(seen, lanes) :
          spot' = [e \in Entries |-> IF e \in DOMAIN plan
                                     THEN Assigned(spot[e], plan[e]) ELSE spot[e]]
    BY <2>1, <2>2 DEF GenerateCommit
  <2>5. /\ {plan[e].heat : e \in D} = 1 .. HeatCount(Cardinality(D), lanes)
        /\ \A e \in D : plan[e].lane \in MinLane(lanes) .. MaxLane(lanes)
        /\ \A e, g \in D :
             e # g /\ Before(seen[e], seen[g]) =>
               \/ plan[e].heat > plan[g].heat
               \/ /\ plan[e].heat = plan[g].heat
                  /\ Off(plan[e].lane, lanes) < Off(plan[g].lane, lanes)
    <3> HIDE DEF seen
    <3> QED
      BY <2>2, <2>3, PlanByRules
  <2>6. /\ DOMAIN plan = D
        /\ \A e, g \in D :
             e # g /\ plan[e].lane # NoLane /\ plan[g].lane # NoLane => plan[e] # plan[g]
    <3> HIDE DEF seen
    <3>1. lanes \in 1 .. 20
      BY <2>2
    <3> QED
      BY <2>2, <2>3, <3>1, PlanDistinct
  <2>7. \A e \in D : plan[e].lane # NoLane
    BY <2>2, <2>5 DEF MinLane, NoLane
  <2>8. \A e \in D : spot'[e] = plan[e]
    BY <2>2, <2>4, <2>6, <2>7 DEF Assigned
  <2>9. \A e \in D : FromCenter(e) = Off(plan[e].lane, lanes)
    BY <2>8 DEF FromCenter, Off
  <2> HIDE DEF D, seen
  <2>10. {spot'[e].heat : e \in D} = 1 .. HeatCount(Cardinality(D), lanes)
    BY <2>5, <2>8
  <2>11. \A e \in D : spot'[e].lane \in MinLane(lanes) .. MaxLane(lanes)
    BY <2>5, <2>8
  <2>12. \A e, g \in D : e # g => spot'[e] # spot'[g]
    BY <2>6, <2>7, <2>8
  <2>13. ASSUME NEW e \in D, NEW g \in D, e # g, Before(time[e], time[g])
         PROVE  \/ spot'[e].heat > spot'[g].heat
                \/ spot'[e].heat = spot'[g].heat /\ FromCenter(e) < FromCenter(g)
    <3>1. Before(seen[e], seen[g])
      BY <2>2, <2>13
    <3> QED
      BY <2>5, <2>8, <2>9, <2>13, <3>1
  <2> QED
    BY <2>2, <2>10, <2>11, <2>12, <2>13 DEF SeededByRules
<1>2. SeedingInv /\ [Next]_vars =>
        [\A r \in Requests : Commits(r) /\ Current(r) /\ lanes >= 3 => SeededByRules]_vars
  BY <1>1
<1> QED
  BY <1>2, SeedingInvariance, PTL DEF Spec, GenerationSeeds

-----------------------------------------------------------------------------
(* The rules by themselves, for every number of swimmers, pool and time.   *)

LEMMA TimesSay ==
    ASSUME clock \in Nat
    PROVE  TimesReadBack
<1> DEFINE m == clock \div 6000
           s == (clock % 6000) \div 100
           h == clock % 100
           text == IF m > 0 THEN <<m, s, h>> ELSE <<s, h>>
<1>1. /\ m \in Nat /\ s \in 0 .. 59 /\ h \in 0 .. 99
      /\ clock = 6000 * m + 100 * s + h /\ clock \div 100 = 60 * m + s
  OBVIOUS
<1>2. ASSUME NEW ms \in Nat, 10 * clock <= ms, ms <= 10 * clock + 9
      PROVE  msToTime(ms) = text
  <2>1. /\ ms \div 60000 = m /\ (ms % 60000) \div 1000 = s
        /\ (ms % 1000) \div 10 = h
    BY <1>2
  <2> HIDE DEF m, s, h
  <2> QED
    BY <2>1 DEF msToTime, Minute, Sec
<1> HIDE DEF m, s, h
<1>3. msToTime(10 * clock) = text /\ msToTime(10 * clock + 9) = text
  <2>1. 10 * clock \in Nat /\ 10 * clock + 9 \in Nat
    OBVIOUS
  <2> QED
    BY <1>2, <2>1
<1>4. ServiceParse(text) = 10 * clock
  BY <1>1 DEF ServiceParse, Minute, Sec
<1>5. PageParse(text) = IF clock < 1000 /\ h < 60 THEN (clock \div 100) * Minute + h * Sec
                        ELSE 10 * clock
  <2>1. CASE m > 0
    <3>1. text = <<m, s, h>> /\ ~(clock < 1000)
      BY <1>1, <2>1
    <3> QED
      BY <1>1, <3>1 DEF PageParse, Minute, Sec
  <2>2. CASE m = 0
    <3>1. /\ text = <<s, h>> /\ clock \div 100 = s /\ (s < 10 <=> clock < 1000)
          /\ clock = 100 * s + h
      BY <1>1, <2>2
    <3> QED
      BY <1>1, <3>1 DEF PageParse, MaySeconds, Minute, Sec
  <2> QED
    BY <1>1, <2>1, <2>2
<1> QED
  BY <1>3, <1>4, <1>5 DEF TimesReadBack, h

(* The ranks of a heat are an interval, so as many as the heat has places. *)
LEMMA HeatHas ==
    ASSUME NEW sizes \in Seq(Int), NEW h \in DOMAIN sizes
    PROVE  Cardinality({a \in 1 .. Taken(sizes, 0) : HeatOf(sizes, a) = h}) = SizeOf(sizes, h)
<1> DEFINE n == Taken(sizes, 0)
           t == Taken(sizes, h)
           z == SizeOf(sizes, h)
<1>1. t \in Nat /\ z \in Nat /\ n \in Nat /\ t + z = Taken(sizes, h - 1)
  <2>1. h \in 1 .. Len(sizes) /\ h \in 0 .. Len(sizes) /\ 0 \in 0 .. Len(sizes)
    OBVIOUS
  <2> QED
    BY <2>1, SizesSay, TakenSays
<1>2. t + z <= n
  <2>1. h - 1 \in 0 .. Len(sizes) /\ 0 \in 0 .. Len(sizes) /\ h - 1 \in 0 .. Len(sizes)
    OBVIOUS
  <2> QED
    BY <1>1, <2>1, TakenFalls
<1> HIDE DEF n, t, z
<1>3. \A a \in 1 .. n : HeatOf(sizes, a) = h <=> a \in t + 1 .. t + z
  <2> SUFFICES ASSUME NEW a \in 1 .. n PROVE HeatOf(sizes, a) = h <=> a \in t + 1 .. t + z
    OBVIOUS
  <2>1. a \in 1 .. Taken(sizes, 0)
    BY DEF n
  <2>2. HeatOf(sizes, a) = h => a > t /\ a <= t + z
    BY <2>1, HeatOfSays DEF t, z
  <2>3. a > t /\ a <= t + z => HeatOf(sizes, a) = h
    BY <2>1, HeatOfOnly DEF t, z
  <2> QED
    BY <1>1, <2>2, <2>3
<1>4. {a \in 1 .. n : HeatOf(sizes, a) = h} = t + 1 .. t + z
  <2>1. \A a \in t + 1 .. t + z : a \in 1 .. n
    BY <1>1, <1>2
  <2> QED
    BY <1>3, <2>1
<1>5. Cardinality(t + 1 .. t + z) = z
  <2>1. t + 1 \in Int /\ t + z \in Int /\ (t + z) - (t + 1) + 1 = z /\ (t + 1 > t + z => z = 0)
    BY <1>1
  <2> QED
    BY <1>1, <2>1, FS_Interval
<1> QED
  BY <1>4, <1>5 DEF n, z

LEMMA HeatsSay ==
    ASSUME swimmers \in Nat, pool \in 1 .. 20
    PROVE  HeatsFit
<1> DEFINE sizes == HeatSizes(swimmers, pool)
           last == HeatCount(swimmers, pool)
<1> SUFFICES ASSUME pool >= 3, swimmers > 0
             PROVE  /\ Taken(sizes, 0) = swimmers /\ ~Raises(swimmers, pool)
                    /\ \A a, b \in 1 .. swimmers : a < b => HeatOf(sizes, a) >= HeatOf(sizes, b)
                    /\ \A h \in DOMAIN sizes :
                         /\ Cardinality({a \in 1 .. swimmers : HeatOf(sizes, a) = h}) = sizes[h]
                         /\ sizes[h] \in 1 .. pool
                         /\ pool >= 5 /\ swimmers >= 3 => sizes[h] >= 3
                         /\ h > 2 => sizes[h] = pool
  BY DEF HeatsFit
<1>0. swimmers \in Nat \ {0} /\ pool \in 1 .. 20
  OBVIOUS
<1>1. /\ sizes \in Seq(Int) /\ Len(sizes) = last /\ Taken(sizes, 0) = swimmers
      /\ \A h \in DOMAIN sizes : sizes[h] \in 1 .. pool
  BY <1>0, HeatsTake
<1>2. ~Raises(swimmers, pool)
  BY <1>1 DEF Raises
<1>3. last \in 1 .. swimmers /\ (last - 1) * pool < swimmers /\ swimmers <= last * pool
  BY <1>0, CountSays
<1>4. \A h \in 1 .. last : /\ pool >= 5 /\ swimmers >= 3 => sizes[h] >= 3
                           /\ h > 2 => sizes[h] = pool
  <2> DEFINE first == swimmers - (last - 1) * pool
             full == [h \in 1 .. last |-> IF h = 1 THEN first ELSE pool]
  <2>1. first \in Int /\ first >= 1 /\ (last = 1 => first = swimmers)
    BY <1>3
  <2>2. sizes = IF last > 1 /\ swimmers >= 3 /\ 3 - full[1] > 0
                THEN [full EXCEPT ![1] = @ + (3 - full[1]), ![2] = @ - (3 - full[1])] ELSE full
    BY DEF HeatSizes
  <2> HIDE DEF sizes, last, first
  <2>3. full[1] = first /\ \A h \in 2 .. last : full[h] = pool
    BY <1>3
  <2>4. CASE last > 1 /\ swimmers >= 3 /\ 3 - first > 0
    <3>1. sizes = [full EXCEPT ![1] = @ + (3 - first), ![2] = @ - (3 - first)]
      BY <2>2, <2>3, <2>4
    <3>2. /\ sizes[1] = first + (3 - first) /\ sizes[2] = pool - (3 - first)
          /\ \A h \in 3 .. last : sizes[h] = pool
      BY <1>3, <2>3, <2>4, <3>1, SMTT(40)
    <3> QED
      BY <1>3, <2>1, <3>2
  <2>5. CASE ~(last > 1 /\ swimmers >= 3 /\ 3 - first > 0)
    <3>1. sizes = full
      BY <2>2, <2>3, <2>5
    <3> QED
      BY <1>3, <2>1, <2>3, <2>5, <3>1
  <2> QED
    BY <2>4, <2>5
<1> HIDE DEF sizes, last
<1>5. \A a, b \in 1 .. swimmers : a < b => HeatOf(sizes, a) >= HeatOf(sizes, b)
  BY <1>1, HeatOfFalls
<1>6. ASSUME NEW h \in DOMAIN sizes
      PROVE  Cardinality({a \in 1 .. swimmers : HeatOf(sizes, a) = h}) = sizes[h]
  <2>1. sizes \in Seq(Int) /\ h \in DOMAIN sizes
    BY <1>1, <1>6
  <2>2. sizes[h] \in 1 .. pool
    BY <1>1, <1>6
  <2>3. sizes[h] >= 0
    BY <1>0, <2>2
  <2>4. SizeOf(sizes, h) = sizes[h]
    BY <2>1, <2>3, SizesSay
  <2> QED
    BY <1>1, <2>1, <2>4, HeatHas
<1> QED
  BY <1>1, <1>2, <1>4, <1>5, <1>6

(* The loop over lanes.                                                    *)
Pushed(n, order, lane) ==
    IF lane \in MinLane(n) .. MaxLane(n) /\ Len(order) < n THEN Append(order, lane) ELSE order
Zigzag(n, f, step) ==
    IF step = 0 THEN <<CenterLane(n)>>
    ELSE Pushed(n, Pushed(n, f[step - 1], CenterLane(n) + step), CenterLane(n) - step)

LEMMA LoopIs ==
    ASSUME NEW n \in Nat
    PROVE  \E f : f = [step \in 0 .. n |-> Zigzag(n, f, step)] /\ LaneLoop(n) = f[n]
<1> DEFINE T == {m \in Nat : \E g : g = [k \in 0 .. m |-> Zigzag(n, g, k)]}
<1>1. 0 \in T
  <2> DEFINE g == [k \in 0 .. 0 |-> <<CenterLane(n)>>]
  <2>1. g = [k \in 0 .. 0 |-> Zigzag(n, g, k)]
    BY DEF Zigzag
  <2> QED
    BY <2>1
<1>2. ASSUME NEW m \in Nat, m \in T PROVE m + 1 \in T
  <2>1. PICK g : g = [k \in 0 .. m |-> Zigzag(n, g, k)]
    BY <1>2
  <2> DEFINE h == [k \in 0 .. m + 1 |-> IF k <= m THEN g[k] ELSE Zigzag(n, g, k)]
  <2>2. \A k \in 0 .. m + 1 : h[k] = Zigzag(n, h, k)
    <3> SUFFICES ASSUME NEW k \in 0 .. m + 1 PROVE h[k] = Zigzag(n, h, k)
      OBVIOUS
    <3>1. h[k] = Zigzag(n, g, k)
      BY <2>1
    <3>2. k # 0 => k - 1 \in 0 .. m + 1 /\ k - 1 <= m
      OBVIOUS
    <3>3. k # 0 => h[k - 1] = g[k - 1]
      BY <3>2
    <3> HIDE DEF h
    <3> QED
      BY <3>1, <3>3 DEF Zigzag
  <2>3. h = [k \in 0 .. m + 1 |-> Zigzag(n, h, k)]
    <3>1. h = [k \in 0 .. m + 1 |-> h[k]]
      OBVIOUS
    <3> HIDE DEF h
    <3> QED
      BY <3>1, <2>2
  <2> HIDE DEF h
  <2> QED
    BY <2>3
<1> HIDE DEF T
<1>3. n \in T
  BY ONLY <1>1, <1>2, n \in Nat, ByInduction, SMTT(60)
<1> DEFINE f == CHOOSE g : g = [k \in 0 .. n |-> Zigzag(n, g, k)]
<1>4. f = [k \in 0 .. n |-> Zigzag(n, f, k)]
  BY <1>3 DEF T
<1>5. LaneLoop(n) = f[n]
  BY DEF LaneLoop, Zigzag, Pushed
<1> HIDE DEF f
<1> QED
  BY <1>4, <1>5

(* The first m lanes of the order, and the next one put to them.           *)
LaneAt(n, i)  == IF i % 2 = 0 THEN CenterLane(n) + i \div 2 ELSE CenterLane(n) - i \div 2
Outward(n, m) == [i \in 1 .. m |-> LaneAt(n, i)]

LEMMA OutwardSays ==
    ASSUME NEW n \in 1 .. 20, NEW m \in Nat
    PROVE  /\ Outward(n, m) \in Seq(Int) /\ Len(Outward(n, m)) = m
           /\ Append(Outward(n, m), LaneAt(n, m + 1)) = Outward(n, m + 1)
<1>1. \A i \in Int : LaneAt(n, i) \in Int
  BY DEF LaneAt, CenterLane
<1>2. Outward(n, m) \in Seq(Int) /\ Len(Outward(n, m)) = m
  BY <1>1 DEF Outward
<1>3. Append(Outward(n, m), LaneAt(n, m + 1)) = Outward(n, m + 1)
  <2> DEFINE a == Append(Outward(n, m), LaneAt(n, m + 1))
  <2>1. a \in Seq(Int) /\ Len(a) = m + 1
    BY <1>1, <1>2, SMTT(40)
  <2>2. \A i \in 1 .. m + 1 : a[i] = LaneAt(n, i)
    BY <1>1, <1>2 DEF Outward
  <2> HIDE DEF a
  <2>3. a = [i \in 1 .. m + 1 |-> a[i]]
    BY <2>1
  <2> QED
    BY <2>2, <2>3 DEF Outward, a
<1> QED
  BY <1>2, <1>3

(* A lane that is next in the order is put to it as long as there are some *)
(* left, and there are as long as it is in the pool.                       *)
LEMMA PushedSays ==
    ASSUME NEW n \in 1 .. 20, NEW m \in 1 .. n, NEW lane, lane = LaneAt(n, m + 1)
    PROVE  Pushed(n, Outward(n, m), lane) = Outward(n, IF m < n THEN m + 1 ELSE m)
<1>0. m \in Nat
  OBVIOUS
<1>1. m < n => lane \in MinLane(n) .. MaxLane(n)
  BY DEF LaneAt, CenterLane, MinLane, MaxLane
<1>2. Len(Outward(n, m)) = m /\ Append(Outward(n, m), lane) = Outward(n, m + 1)
  BY <1>0, OutwardSays
<1> QED
  BY <1>1, <1>2 DEF Pushed

LEMMA LoopSays ==
    ASSUME NEW n \in 1 .. 20
    PROVE  LaneLoop(n) = LaneOrder(n)
<1>1. PICK f : f = [step \in 0 .. n |-> Zigzag(n, f, step)] /\ LaneLoop(n) = f[n]
  BY LoopIs
<1> DEFINE m(k) == IF 2 * k + 1 <= n THEN 2 * k + 1 ELSE n
           T == {k \in Nat : k <= n => f[k] = Outward(n, m(k))}
<1>2. 0 \in T
  <2>1. f[0] = <<CenterLane(n)>>
    BY <1>1 DEF Zigzag
  <2>2. m(0) = 1 /\ LaneAt(n, 1) = CenterLane(n)
    BY DEF LaneAt, CenterLane
  <2>3. Outward(n, 1) = <<CenterLane(n)>>
    BY <2>2 DEF Outward
  <2> QED
    BY <2>1, <2>2, <2>3
<1>3. ASSUME NEW k \in Nat, k \in T PROVE k + 1 \in T
  <2> SUFFICES ASSUME k + 1 <= n PROVE f[k + 1] = Outward(n, m(k + 1))
    OBVIOUS
  <2>1. f[k] = Outward(n, m(k)) /\ m(k) \in 1 .. n
    BY <1>3
  <2>2. f[k + 1] = Pushed(n, Pushed(n, f[k], CenterLane(n) + (k + 1)), CenterLane(n) - (k + 1))
    BY <1>1 DEF Zigzag
  <2>3. CASE 2 * k + 1 < n
    <3>1. m(k) = 2 * k + 1 /\ LaneAt(n, m(k) + 1) = CenterLane(n) + (k + 1)
      BY <2>3 DEF LaneAt, CenterLane
    <3>2. LaneAt(n, (2 * k + 2) + 1) = CenterLane(n) - (k + 1)
      BY DEF LaneAt, CenterLane
    <3>3. Pushed(n, f[k], CenterLane(n) + (k + 1)) = Outward(n, 2 * k + 2)
      <4>1. (IF m(k) < n THEN m(k) + 1 ELSE m(k)) = 2 * k + 2
        BY <2>3, <3>1
      <4> QED
        BY <2>1, <3>1, <4>1, PushedSays
    <3>4. 2 * k + 2 \in 1 .. n
      BY <2>3
    <3>5. f[k + 1] = Outward(n, IF 2 * k + 2 < n THEN (2 * k + 2) + 1 ELSE 2 * k + 2)
      BY <2>2, <3>2, <3>3, <3>4, PushedSays
    <3>6. (IF 2 * k + 2 < n THEN (2 * k + 2) + 1 ELSE 2 * k + 2) = m(k + 1)
      BY <2>3
    <3> QED
      BY <3>5, <3>6
  <2>4. CASE ~(2 * k + 1 < n)
    <3>1. m(k) = n /\ m(k + 1) = n
      BY <2>4
    <3>2. Len(Outward(n, n)) = n
      <4>1. n \in Nat
        OBVIOUS
      <4> QED
        BY <4>1, OutwardSays
    <3>3. \A lane : Pushed(n, Outward(n, n), lane) = Outward(n, n)
      BY <3>2 DEF Pushed
    <3> QED
      BY <2>1, <2>2, <3>1, <3>3
  <2> QED
    BY <2>3, <2>4
<1> HIDE DEF T
<1>4. n \in T
  BY ONLY <1>2, <1>3, n \in Nat, ByInduction, SMTT(60)
<1>5. f[n] = Outward(n, n)
  <2>1. m(n) = n
    OBVIOUS
  <2> QED
    BY <1>4, <2>1 DEF T
<1> QED
  BY <1>1, <1>5 DEF Outward, LaneAt, LaneOrder

LEMMA LanesSay ==
    ASSUME pool \in 1 .. 20
    PROVE  LanesFromCenter
<1> DEFINE order == LaneOrder(pool)
           c == CenterLane(pool)
           from(i) == IF order[i] >= c THEN 2 * (order[i] - c) - 1 ELSE 2 * (c - order[i])
<1>1. order = LaneLoop(pool)
  BY LoopSays
<1>2. /\ Len(order) = pool /\ \A i \in 1 .. pool : order[i] \in MinLane(pool) .. MaxLane(pool)
  BY OrderDistinct
<1>3. \A i \in 1 .. pool : order[i] = LaneAt(pool, i)
  BY DEF LaneOrder, LaneAt
<1>4. ASSUME NEW x \in MinLane(pool) .. MaxLane(pool) PROVE \E i \in 1 .. pool : order[i] = x
  <2> DEFINE i == IF x > c THEN 2 * (x - c) ELSE 2 * (c - x) + 1
  <2>1. i \in 1 .. pool /\ LaneAt(pool, i) = x
    BY <1>4 DEF LaneAt, CenterLane, MinLane, MaxLane
  <2> HIDE DEF i, order
  <2> QED
    BY <1>3, <2>1
<1>5. {order[i] : i \in 1 .. pool} = MinLane(pool) .. MaxLane(pool)
  <2> HIDE DEF order
  <2> QED
    BY <1>2, <1>4
<1>6. ASSUME NEW i \in 1 .. pool, NEW j \in 1 .. pool, i < j PROVE from(i) < from(j)
  <2>1. order[i] \in Int /\ order[j] \in Int /\ c \in Int
    BY <1>2 DEF MinLane, MaxLane, CenterLane
  <2>2. Off(order[i], pool) < Off(order[j], pool)
    BY <1>6, OrderOutwards
  <2> HIDE DEF order, c
  <2>3. from(i) = Off(order[i], pool) /\ from(j) = Off(order[j], pool)
    BY <2>1 DEF Off, c
  <2> QED
    BY <2>2, <2>3
<1> HIDE DEF order, c
<1> QED
  BY <1>1, <1>2, <1>5, <1>6 DEF LanesFromCenter, order, c

(* The rules fit, however many swimmers, lanes up to twenty and hundredths *)
(* there are: every swimmer has a heat and a lane, and every time is read  *)
(* back as it was written, with the exception named.                       *)
THEOREM RulesAreFit == RulesSpec => []RulesFit
<1> DEFINE Inv == pool \in 1 .. MaxPool /\ swimmers \in Nat /\ clock \in Nat
<1>1. RulesInit => Inv
  BY RulesAssumption DEF RulesInit
<1>2. Inv /\ [RulesNext]_inputs => Inv'
  BY DEF RulesNext, MoreSwimmers, MoreResults, inputs
<1>3. Inv => RulesFit
  <2> SUFFICES ASSUME Inv PROVE RulesFit
    OBVIOUS
  <2>1. pool \in 1 .. 20
    BY RulesAssumption
  <2> QED
    BY <2>1, HeatsSay, LanesSay, TimesSay DEF RulesFit
<1> HIDE DEF Inv
<1> QED
  BY <1>1, <1>2, <1>3, PTL DEF RulesSpec

-----------------------------------------------------------------------------
(* The tables of a protocol, for any list that has fewer results than what *)
(* a missing place counts as.                                              *)
Laid == list \in Seq(Listed) /\ Len(list) < LastPlace

(* What counts for a missing place or time is less than what sets the      *)
(* classes apart.                                                          *)
LEMMA KeysApart ==
    /\ LastPlace \in Nat /\ LastTime \in Nat /\ Apart \in Nat
    /\ 0 < LastPlace /\ LastPlace < Apart /\ 1 < LastTime /\ LastTime < Apart
BY SMT DEF LastPlace, LastTime, Apart

LEMMA LaidSays ==
    ASSUME Laid
    PROVE  /\ DOMAIN list = 1 .. Len(list) /\ Len(list) \in Nat
           /\ IsFiniteSet(DOMAIN list) /\ Cardinality(DOMAIN list) = Len(list)
           /\ \A i \in DOMAIN list :
                /\ list[i] \in Listed
                /\ list[i].status \in {"OK", "PK", "DQ"} /\ list[i].group \in {0, 1, 2}
                /\ list[i].time \in 0 .. Apart - 1 /\ list[i].time # LastTime
                /\ TimeKey(list[i].time) \in 1 .. Apart - 1
                /\ Class(list[i].status) \in 0 .. 2
                /\ Class(list[i].status) = 0 <=> list[i].status = "OK"
<1>1. DOMAIN list = 1 .. Len(list) /\ Len(list) \in Nat
  BY DEF Laid
<1>2. IsFiniteSet(DOMAIN list) /\ Cardinality(DOMAIN list) = Len(list)
  <2>1. 1 \in Int /\ Len(list) \in Int /\ (1 > Len(list) => Len(list) = 0)
    BY <1>1
  <2>2. /\ IsFiniteSet(1 .. Len(list))
        /\ Cardinality(1 .. Len(list)) = IF 1 > Len(list) THEN 0 ELSE Len(list) - 1 + 1
    BY <2>1, FS_Interval
  <2> QED
    BY <1>1, <2>1, <2>2
<1>3. ASSUME NEW r \in Listed
      PROVE  /\ r.status \in {"OK", "PK", "DQ"} /\ r.group \in {0, 1, 2}
             /\ r.time \in 0 .. Apart - 1 /\ r.time # LastTime
  <2>1. PICK s \in {"OK", "PK", "DQ"} :
          r \in [group : AgeGroups \cup {NoGroup}, club : Clubs(s), status : {s}, time : Marks(s)]
    BY DEF Listed
  <2>2. Marks(s) \subseteq 0 .. Apart - 1 /\ LastTime \notin Marks(s)
    <3>1. /\ 0 \in 0 .. Apart - 1 /\ 1 \in 0 .. Apart - 1 /\ LastTime # 0 /\ LastTime # 1
          /\ ListedTimes \subseteq 0 .. Apart - 1 /\ LastTime \notin ListedTimes
      BY RulesAssumption, KeysApart
    <3>2. CASE s = "OK"
      BY <3>1, <3>2 DEF Marks, Absent
    <3>3. CASE s = "PK"
      BY <3>1, <3>3 DEF Marks, Absent
    <3>4. CASE s = "DQ"
      BY <3>1, <3>4 DEF Marks, Absent
    <3> QED
      BY <3>2, <3>3, <3>4
  <2> QED
    BY <2>1, <2>2 DEF AgeGroups, NoGroup
<1>4. ASSUME NEW i \in DOMAIN list
      PROVE  /\ list[i] \in Listed
             /\ list[i].status \in {"OK", "PK", "DQ"} /\ list[i].group \in {0, 1, 2}
             /\ list[i].time \in 0 .. Apart - 1 /\ list[i].time # LastTime
             /\ TimeKey(list[i].time) \in 1 .. Apart - 1
             /\ Class(list[i].status) \in 0 .. 2
             /\ Class(list[i].status) = 0 <=> list[i].status = "OK"
  <2>1. list[i] \in Listed
    BY DEF Laid
  <2>2. /\ list[i].status \in {"OK", "PK", "DQ"} /\ list[i].group \in {0, 1, 2}
        /\ list[i].time \in 0 .. Apart - 1 /\ list[i].time # LastTime
    BY <1>3, <2>1
  <2>3. TimeKey(list[i].time) \in 1 .. Apart - 1
    BY <2>2, KeysApart DEF TimeKey, Absent
  <2> QED
    BY <2>1, <2>2, <2>3 DEF Class
<1> QED
  BY <1>1, <1>2, <1>4

(* As many pairs of rank and position come before a pair as positions      *)
(* before its own.                                                         *)
Sooner(rank, i, j) == rank[i] < rank[j] \/ (rank[i] = rank[j] /\ i < j)
Pairs(rank, S)     == {<<rank[i], i>> : i \in S}
PairsBefore(rank, S, p) == {q \in Pairs(rank, S) : Precedes(q, p)}

LEMMA PairsCount ==
    ASSUME NEW S, IsFiniteSet(S), NEW rank, NEW x \in S
    PROVE  Cardinality(PairsBefore(rank, S, <<rank[x], x>>)) = Cardinality({j \in S : Sooner(rank, j, x)})
<1> DEFINE A == {j \in S : Sooner(rank, j, x)}
           B == PairsBefore(rank, S, <<rank[x], x>>)
           f == [j \in A |-> <<rank[j], j>>]
<1>1. \A j \in S : <<rank[j], j>> \in B <=> j \in A
  BY DEF PairsBefore, Pairs, Precedes, Sooner
<1>2. \A q \in B : \E j \in A : q = <<rank[j], j>>
  BY <1>1 DEF PairsBefore, Pairs
<1> HIDE DEF B
<1>3. \A i, j \in A : <<rank[i], i>> = <<rank[j], j>> => i = j
  OBVIOUS
<1>4. f \in Bijection(A, B)
  <2>1. f \in [A -> B]
    BY <1>1
  <2>2. \A i, j \in A : f[i] = f[j] => i = j
    BY <1>3
  <2>3. \A q \in B : \E j \in A : f[j] = q
    BY <1>2
  <2> HIDE DEF f, A
  <2> QED
    BY <2>1, <2>2, <2>3 DEF Bijection, Injection, Surjection, IsInjective
<1>5. IsFiniteSet(A)
  BY FS_Subset
<1> QED
  BY <1>4, <1>5, FS_Bijection DEF ExistsBijection, B

(* The order by rank is one of the whole set.                              *)
LEMMA SortedBySays ==
    ASSUME NEW S, S \subseteq Int, IsFiniteSet(S), NEW rank \in [S -> Int]
    PROVE  /\ SortedBy(rank, S) \in SetToSeqs(S) /\ Sorted(rank, SortedBy(rank, S))
           /\ DOMAIN SortedBy(rank, S) = 1 .. Cardinality(S) /\ Cardinality(S) \in Nat
<1> DEFINE n == Cardinality(S)
           num == [x \in S |-> x]
           at(x) == CountUpTo(S, rank, num, x)
           before(x) == {j \in S : Sooner(rank, j, x)}
           order == SortedBy(rank, S)
<1>1. n \in Nat
  BY FS_CardinalityType
<1>2. num \in [S -> Int] /\ (\A x, y \in S : x # y => num[x] # num[y]) /\ \A x \in S : num[x] = x
  OBVIOUS
<1> HIDE DEF num
<1>3. /\ \A x \in S : at(x) \in 1 .. n
      /\ \A x, y \in S : at(x) < at(y) <=> rank[x] < rank[y] \/ (rank[x] = rank[y] /\ num[x] < num[y])
      /\ \A i \in 1 .. n : \E x \in S : at(x) = i
  BY <1>2, UpToCounts, ZenonT(40)
<1>4. ASSUME NEW x \in S PROVE Cardinality(before(x)) = at(x) - 1
  <2> DEFINE up == UpTo(S, rank, num, x)
  <2>1. \A f \in S : rank[f] \in Int /\ f \in Int /\ num[f] = f
    BY <1>2
  <2>2. x \in up /\ before(x) = up \ {x}
    <3>1. ASSUME NEW f \in S
          PROVE  /\ f \in up <=> rank[f] < rank[x] \/ (rank[f] = rank[x] /\ f <= x)
                 /\ f \in before(x) <=> rank[f] < rank[x] \/ (rank[f] = rank[x] /\ f < x)
      BY <2>1 DEF UpTo, Sooner
    <3>2. \A f \in S : f \in before(x) <=> f \in up /\ f # x
      BY <2>1, <3>1
    <3>3. x \in up /\ up \subseteq S /\ before(x) \subseteq S
      BY <2>1, <3>1 DEF UpTo
    <3> HIDE DEF up, before
    <3> QED
      BY <3>2, <3>3
  <2>3. IsFiniteSet(up)
    BY FS_Subset DEF UpTo
  <2> HIDE DEF up, before
  <2>4. Cardinality(before(x)) = Cardinality(up) - 1
    BY <2>2, <2>3, FS_RemoveElement
  <2> QED
    BY <2>4 DEF CountUpTo, up
<1>5. /\ DOMAIN order = 1 .. n /\ order = [i \in 1 .. n |-> order[i]]
      /\ \A i \in 1 .. n : order[i] = (CHOOSE p \in Pairs(rank, S) :
                                       Cardinality(PairsBefore(rank, S, p)) = i - 1)[2]
  BY DEF SortedBy, Pairs, PairsBefore
<1> HIDE DEF at, before, order
<1>6. ASSUME NEW i \in 1 .. n PROVE order[i] \in S /\ at(order[i]) = i
  <2>1. PICK x \in S : at(x) = i
    BY <1>3
  <2>2. \A y \in S : Cardinality(PairsBefore(rank, S, <<rank[y], y>>)) = Cardinality(before(y))
    BY PairsCount DEF before
  <2>3. Cardinality(PairsBefore(rank, S, <<rank[x], x>>)) = i - 1
    BY <1>4, <2>1, <2>2
  <2>4. \E p \in Pairs(rank, S) : Cardinality(PairsBefore(rank, S, p)) = i - 1
    BY <2>3 DEF Pairs
  <2>5. PICK p \in Pairs(rank, S) : order[i] = p[2] /\ Cardinality(PairsBefore(rank, S, p)) = i - 1
    BY <1>5, <2>4
  <2>6. order[i] \in S /\ p = <<rank[order[i]], order[i]>>
    BY <2>5 DEF Pairs
  <2>7. at(order[i]) \in 1 .. n /\ at(order[i]) - 1 = i - 1
    BY <1>3, <1>4, <2>2, <2>5, <2>6
  <2> QED
    BY <1>1, <2>6, <2>7
<1>7. order = [i \in 1 .. n |-> order[i]] /\ DOMAIN order = 1 .. n
  BY <1>5
<1>8. order \in SetToSeqs(S)
  BY <1>6, <1>7 DEF SetToSeqs
<1>9. Sorted(rank, order)
  <2> SUFFICES ASSUME NEW i \in 1 .. n, NEW j \in 1 .. n, i < j
               PROVE  rank[order[i]] <= rank[order[j]]
    BY <1>7 DEF Sorted
  <2>1. rank[order[i]] \in Int /\ rank[order[j]] \in Int /\ at(order[i]) < at(order[j])
    BY <1>6
  <2>2. rank[order[i]] < rank[order[j]] \/ rank[order[i]] = rank[order[j]]
    BY <1>3, <1>6, <2>1
  <2> QED
    BY <2>1, <2>2
<1> QED
  BY <1>1, <1>7, <1>8, <1>9 DEF order

(* A stored place is one more than the number of faster ones in the age    *)
(* group.                                                                  *)
TimedPeers(i) == Timed(list, Ok(list, Group(list, list[i].group)))

LEMMA StoredSays ==
    ASSUME Laid, NEW i \in DOMAIN list
    PROVE  /\ StoredPlace(list)[i] = PlaceAmong(i, TimedPeers(i))
           /\ StoredPlace(list)[i] \in 0 .. LastPlace - 1
           /\ StoredPlace(list)[i] <= Cardinality(TimedPeers(i))
<1> DEFINE S == TimedPeers(i)
           n == Cardinality(S)
           t == [k \in S |-> list[k].time]
           order == SortedBy(t, S)
           pos == [f \in S |-> CHOOSE m \in DOMAIN order : order[m] = f]
           p == [f \in S |-> Places([m \in DOMAIN order |-> t[order[m]]])[pos[f]]]
           stored == StoredPlace(list)[i]
<1>1. S \subseteq DOMAIN list /\ \A k \in DOMAIN list : list[k].time \in Int
  BY LaidSays DEF TimedPeers, Timed, Ok, Group
<1>2. DOMAIN list \subseteq Int /\ IsFiniteSet(S) /\ n <= Len(list) /\ n \in Nat
  BY <1>1, LaidSays, FS_Subset, FS_CardinalityType
<1>3. t \in [S -> Int] /\ \A k \in S : t[k] = list[k].time
  BY <1>1
<1>4. stored = IF i \in S THEN Places([m \in DOMAIN order |-> list[order[m]].time])
                                 [CHOOSE m \in DOMAIN order : order[m] = i]
               ELSE Absent
  BY DEF StoredPlace, TimedPeers
<1> HIDE DEF t
<1>5. /\ order \in SetToSeqs(S) /\ Sorted(t, order) /\ DOMAIN order = 1 .. n
      /\ order \in Bijection(1 .. n, S)
  BY <1>1, <1>2, <1>3, SortedBySays, OrderSays
<1> HIDE DEF order, S, stored
<1>6. \A m \in 1 .. n : order[m] \in S
  BY <1>2, <1>5, OrderSays
<1>7. \A f \in S : pos[f] \in 1 .. n /\ order[pos[f]] = f
  BY <1>5 DEF Bijection, Surjection
<1>8. [m \in DOMAIN order |-> list[order[m]].time] = [m \in DOMAIN order |-> t[order[m]]]
  BY <1>3, <1>5, <1>6
<1>9. i \in S => stored = p[i]
  BY <1>4, <1>8
<1>10. pos \in [S -> 1 .. n] /\ \A f \in S : p[f] = Places([m \in DOMAIN order |-> t[order[m]]])[pos[f]]
  BY <1>7
<1> HIDE DEF pos, p
<1>11. PlacedBy(S, t, order, pos, p)
  BY <1>2, <1>3, <1>5, <1>7, <1>10 DEF PlacedBy
<1>12. i \in S => p[i] \in 1 .. n /\ p[i] = 1 + Cardinality(Faster(S, t, i))
  BY <1>11, PlacesCount
<1>13. ASSUME i \in S PROVE stored = PlaceAmong(i, S)
  <2>1. \A k \in S : TimeKey(list[k].time) = t[k]
    BY <1>3 DEF S, TimedPeers, Timed, TimeKey
  <2>2. {k \in S : TimeKey(list[k].time) < TimeKey(list[i].time)} = Faster(S, t, i)
    BY <1>13, <2>1 DEF Faster
  <2> QED
    BY <1>9, <1>12, <1>13, <2>2 DEF PlaceAmong
<1>14. Len(list) \in Nat /\ Len(list) < LastPlace
  BY LaidSays DEF Laid
<1>15. CASE i \in S
  <2>1. stored \in 1 .. n
    BY <1>9, <1>12, <1>15
  <2>2. stored \in 0 .. LastPlace - 1 /\ stored <= n
    BY <1>2, <1>14, <2>1, KeysApart
  <2> QED
    BY <1>13, <1>15, <2>2 DEF S, stored
<1>16. CASE i \notin S
  <2>1. stored = Absent
    BY <1>4, <1>16
  <2>2. 0 \in 0 .. LastPlace - 1 /\ 0 <= n
    BY <1>2, KeysApart
  <2> QED
    BY <1>16, <2>1, <2>2 DEF S, stored, PlaceAmong, Absent
<1> QED
  BY <1>15, <1>16

(* A table of S has every member of it in one row.                         *)
TableOf(t, S) ==
    /\ DOMAIN t = 1 .. Cardinality(S) /\ Cardinality(S) \in Nat /\ Len(t) = Cardinality(S)
    /\ \A n \in DOMAIN t : t[n].of \in S
    /\ \A m, n \in DOMAIN t : m # n => t[m].of # t[n].of
    /\ \A i \in S : \E n \in DOMAIN t : t[n].of = i

LEMMA TablesList == ASSUME NEW S, NEW t, TableOf(t, S) PROVE Of(t) = S
BY DEF TableOf, Of

LEMMA TableSays ==
    ASSUME NEW S, IsFiniteSet(S), NEW order \in SetToSeqs(S),
           NEW t, t = [n \in DOMAIN order |-> t[n]], \A n \in DOMAIN order : t[n].of = order[n]
    PROVE  TableOf(t, S)
<1> DEFINE z == Cardinality(S)
           T == {t[n] : n \in DOMAIN order}
<1>1. z \in Nat /\ DOMAIN order = 1 .. z /\ order \in [1 .. z -> S] /\ order \in Bijection(1 .. z, S)
  BY OrderSays
<1>2. /\ \A i, j \in 1 .. z : i # j => order[i] # order[j]
      /\ \A f \in S : \E i \in 1 .. z : order[i] = f
  BY <1>1 DEF Bijection, Injection, Surjection, IsInjective
<1>3. t \in [1 .. z -> T]
  BY <1>1
<1> HIDE DEF T, z
<1>4. t \in Seq(T) /\ Len(t) = z
  BY <1>1, <1>3
<1>5. DOMAIN t = 1 .. z /\ \A n \in 1 .. z : t[n].of = order[n]
  BY <1>1
<1>6. \A n \in 1 .. z : order[n] \in S
  BY <1>1
<1> QED
  BY <1>1, <1>2, <1>4, <1>5, <1>6 DEF TableOf, z

(* The rank of a result in a table: its class first, then a key that is    *)
(* less than what sets the classes apart.                                  *)
RankedBy(rank, v, S) ==
    /\ v = [i \in S |-> v[i]] /\ \A i \in S : v[i] \in 1 .. Apart - 1
    /\ rank = [i \in S |-> Apart * Class(list[i].status) + v[i]]

LEMMA RankSays ==
    ASSUME NEW a \in 0 .. 2, NEW b \in 0 .. 2, NEW x \in 1 .. Apart - 1, NEW y \in 1 .. Apart - 1
    PROVE  /\ Apart * a + x \in Int
           /\ Apart * a + x <= Apart * b + y => a <= b /\ (b = 0 => a = 0 /\ x <= y)
<1>1. \A z \in 1 .. Apart - 1 : z \in Int /\ 1 <= z /\ z < Apart
  BY KeysApart
<1>2. Apart \in Int /\ Apart * 0 = 0 /\ Apart * 1 = Apart /\ Apart * 2 = Apart + Apart
  BY KeysApart
<1>3. \A c \in 0 .. 2 : (c = 0 /\ Apart * c = 0) \/ (c = 1 /\ Apart * c = Apart)
                          \/ (c = 2 /\ Apart * c = Apart + Apart)
  BY <1>2
<1> QED
  BY <1>1, <1>2, <1>3

LEMMA RanksSay ==
    ASSUME Laid, NEW S \in SUBSET DOMAIN list, NEW v, NEW rank, RankedBy(rank, v, S)
    PROVE  /\ rank \in [S -> Int]
           /\ \A i, j \in S : rank[i] <= rank[j] =>
                /\ Class(list[i].status) <= Class(list[j].status)
                /\ list[j].status = "OK" => list[i].status = "OK" /\ v[i] <= v[j]
<1>1. \A i \in S : /\ Class(list[i].status) \in 0 .. 2 /\ v[i] \in 1 .. Apart - 1
                   /\ Class(list[i].status) = 0 <=> list[i].status = "OK"
                   /\ rank[i] = Apart * Class(list[i].status) + v[i]
  BY LaidSays DEF RankedBy
<1>2. \A i \in S : rank[i] \in Int
  BY <1>1, RankSays
<1>3. rank = [i \in S |-> rank[i]]
  BY DEF RankedBy
<1>4. ASSUME NEW i \in S, NEW j \in S, rank[i] <= rank[j]
      PROVE  /\ Class(list[i].status) <= Class(list[j].status)
             /\ Class(list[j].status) = 0 => Class(list[i].status) = 0 /\ v[i] <= v[j]
  <2>1. /\ Class(list[i].status) \in 0 .. 2 /\ Class(list[j].status) \in 0 .. 2
        /\ v[i] \in 1 .. Apart - 1 /\ v[j] \in 1 .. Apart - 1
        /\ Apart * Class(list[i].status) + v[i] <= Apart * Class(list[j].status) + v[j]
    BY <1>1, <1>4
  <2> QED
    BY <2>1, RankSays
<1> QED
  BY <1>1, <1>2, <1>3, <1>4

(* A table with the stored places.                                         *)
LEMMA ByPlaceSays ==
    ASSUME Laid, NEW S \in SUBSET DOMAIN list
    PROVE  /\ TableOf(ByPlace(list, S), S)
           /\ \A n \in DOMAIN ByPlace(list, S) :
                ByPlace(list, S)[n] = StoredRow(list, StoredPlace(list), ByPlace(list, S)[n].of)
           /\ \A m, n \in DOMAIN ByPlace(list, S) :
                LET a == ByPlace(list, S)[m].of b == ByPlace(list, S)[n].of IN
                m < n => /\ Class(list[a].status) <= Class(list[b].status)
                         /\ list[b].status = "OK" =>
                              /\ list[a].status = "OK"
                              /\ PlaceKey(StoredPlace(list)[a]) <= PlaceKey(StoredPlace(list)[b])
<1> DEFINE place == StoredPlace(list)
           v == [i \in S |-> PlaceKey(place[i])]
           rank == [i \in S |-> Apart * Class(list[i].status) + v[i]]
           order == SortedBy(rank, S)
           t == ByPlace(list, S)
           row(n) == StoredRow(list, place, order[n])
<1>1. \A i \in S : place[i] \in 0 .. LastPlace - 1
  BY StoredSays
<1>2. \A i \in S : v[i] \in 1 .. Apart - 1
  BY <1>1, KeysApart DEF PlaceKey, Absent
<1>3. RankedBy(rank, v, S)
  BY <1>2 DEF RankedBy
<1>4. IsFiniteSet(S) /\ S \subseteq Int
  BY LaidSays, FS_Subset
<1>5. order = Ranked(list, S, v)
  BY DEF Ranked
<1>6. t = [n \in DOMAIN order |-> row(n)]
  BY <1>5 DEF ByPlace
<1>7. \A i \in S : v[i] = PlaceKey(place[i])
  OBVIOUS
<1> HIDE DEF v, rank, place, t
<1>8. /\ rank \in [S -> Int]
      /\ \A i, j \in S : rank[i] <= rank[j] =>
           /\ Class(list[i].status) <= Class(list[j].status)
           /\ list[j].status = "OK" => list[i].status = "OK" /\ v[i] <= v[j]
  BY <1>3, RanksSay
<1>9. order \in SetToSeqs(S) /\ Sorted(rank, order)
  BY <1>4, <1>8, SortedBySays
<1> HIDE DEF order
<1>10. \A n \in DOMAIN order : order[n] \in S
  BY <1>4, <1>9, OrderSays
<1>11. \A n \in DOMAIN order : row(n).of = order[n] /\ row(n) = StoredRow(list, place, row(n).of)
  BY DEF StoredRow
<1> HIDE DEF row
<1>12. DOMAIN t = DOMAIN order /\ \A n \in DOMAIN order : t[n] = row(n)
  BY <1>6
<1>13. TableOf(t, S)
  <2>1. t = [n \in DOMAIN order |-> t[n]]
    BY <1>6
  <2>2. \A n \in DOMAIN order : t[n].of = order[n]
    BY <1>11, <1>12
  <2> QED
    BY <1>4, <1>9, <2>1, <2>2, TableSays
<1>14. \A n \in DOMAIN t : t[n] = StoredRow(list, place, t[n].of)
  BY <1>11, <1>12
<1>15. ASSUME NEW m \in DOMAIN t, NEW n \in DOMAIN t, m < n
       PROVE  /\ Class(list[t[m].of].status) <= Class(list[t[n].of].status)
              /\ list[t[n].of].status = "OK" =>
                   /\ list[t[m].of].status = "OK"
                   /\ PlaceKey(place[t[m].of]) <= PlaceKey(place[t[n].of])
  <2>1. t[m].of \in S /\ t[n].of \in S /\ t[m].of = order[m] /\ t[n].of = order[n]
    BY <1>10, <1>11, <1>12
  <2>2. rank[t[m].of] <= rank[t[n].of]
    BY <1>9, <1>12, <1>15, <2>1 DEF Sorted
  <2> QED
    BY <1>7, <1>8, <2>1, <2>2
<1> QED
  BY <1>13, <1>14, <1>15 DEF t, place

(* A table with the places of its own.                                     *)
PlacedRow(i, S) ==
    [of |-> i, place |-> PlaceAmong(i, S), shown |-> Display(PlaceAmong(i, S), list[i].status)]

LEMMA ByTimeSays ==
    ASSUME Laid, NEW S \in SUBSET DOMAIN list
    PROVE  /\ TableOf(ByTime(list, S), S)
           /\ \A n \in DOMAIN ByTime(list, S) :
                /\ ByTime(list, S)[n] = PlacedRow(ByTime(list, S)[n].of, Ok(list, S))
                /\ PlaceAmong(ByTime(list, S)[n].of, Ok(list, S)) \in 0 .. Cardinality(S)
           /\ \A m, n \in DOMAIN ByTime(list, S) :
                LET a == ByTime(list, S)[m].of b == ByTime(list, S)[n].of IN
                m < n => /\ Class(list[a].status) <= Class(list[b].status)
                         /\ list[b].status = "OK" =>
                              list[a].status = "OK" /\ TimeKey(list[a].time) <= TimeKey(list[b].time)
<1> DEFINE v == [i \in S |-> TimeKey(list[i].time)]
           rank == [i \in S |-> Apart * Class(list[i].status) + v[i]]
           order == SortedBy(rank, S)
           places == Places([n \in DOMAIN order |-> v[order[n]]])
           at(n) == IF list[order[n]].status = "OK" THEN places[n] ELSE Absent
           row(n) == [of |-> order[n], place |-> at(n), shown |-> Display(at(n), list[order[n]].status)]
           t == ByTime(list, S)
           C == Ok(list, S)
           z == Cardinality(S)
<1>1. \A i \in S : v[i] \in 1 .. Apart - 1
  BY LaidSays
<1>2. RankedBy(rank, v, S)
  BY <1>1 DEF RankedBy
<1>3. IsFiniteSet(S) /\ S \subseteq Int /\ z \in Nat
  BY LaidSays, FS_Subset, FS_CardinalityType
<1>4. order = Ranked(list, S, [i \in S |-> TimeKey(list[i].time)])
  BY DEF Ranked
<1>5. \A i \in S : v[i] = TimeKey(list[i].time)
  OBVIOUS
<1>6. v \in [S -> Int]
  <2>1. \A i \in S : TimeKey(list[i].time) \in Int
    BY LaidSays
  <2> QED
    BY <2>1
<1> HIDE DEF v, rank
<1>7. /\ rank \in [S -> Int]
      /\ \A i, j \in S : rank[i] <= rank[j] =>
           /\ Class(list[i].status) <= Class(list[j].status)
           /\ list[j].status = "OK" => list[i].status = "OK" /\ v[i] <= v[j]
  BY <1>2, RanksSay
<1>8. order \in SetToSeqs(S) /\ Sorted(rank, order) /\ DOMAIN order = 1 .. z
  BY <1>3, <1>7, SortedBySays
<1>9. \A n \in DOMAIN order : order[n] \in S
  BY <1>3, <1>8, OrderSays
<1>10. Places([n \in DOMAIN order |-> list[order[n]].time]) = places
  <2> DEFINE raw == [n \in 1 .. z |-> list[order[n]].time]
             keys == [n \in 1 .. z |-> v[order[n]]]
  <2>1. \A n \in 1 .. z : /\ list[order[n]].time \in Int /\ list[order[n]].time # LastTime
                          /\ v[order[n]] = TimeKey(list[order[n]].time)
    BY <1>5, <1>8, <1>9, LaidSays
  <2>2. \A m, n \in 1 .. z : raw[m] = raw[n] <=> keys[m] = keys[n]
    BY <2>1, KeysApart DEF TimeKey, Absent
  <2>3. raw = [n \in DOMAIN order |-> list[order[n]].time] /\ keys = [n \in DOMAIN order |-> v[order[n]]]
    BY <1>8
  <2>4. raw \in [1 .. z -> Int] /\ keys \in [1 .. z -> Int]
    BY <1>6, <1>8, <1>9, <2>1
  <2> HIDE DEF raw, keys
  <2>5. Places(raw) = Places(keys)
    BY <1>3, <2>2, <2>4, SamePlaces
  <2> QED
    BY <2>3, <2>5
<1>11. t = [n \in DOMAIN order |-> row(n)]
  BY <1>4, <1>10 DEF ByTime
<1> HIDE DEF order, t
<1>12. Leads(S, v, order, C)
  <2>1. C \in SUBSET S
    BY DEF Ok
  <2>2. ASSUME NEW i \in DOMAIN order, NEW j \in DOMAIN order, i < j, order[j] \in C
        PROVE  order[i] \in C /\ v[order[i]] <= v[order[j]]
    <3>1. rank[order[i]] <= rank[order[j]]
      BY <1>8, <2>2 DEF Sorted
    <3>2. order[i] \in S /\ order[j] \in S /\ list[order[j]].status = "OK"
      BY <1>9, <2>2 DEF Ok
    <3> QED
      BY <1>7, <3>1, <3>2 DEF Ok
  <2> QED
    BY <1>3, <1>6, <1>8, <2>1, <2>2 DEF Leads
<1>13. ASSUME NEW n \in DOMAIN order
       PROVE  at(n) = PlaceAmong(order[n], C) /\ at(n) \in 0 .. z
  <2>1. order[n] \in C <=> list[order[n]].status = "OK"
    BY <1>9 DEF Ok
  <2>2. CASE order[n] \in C
    <3>1. at(n) = 1 + Cardinality(Faster(C, v, order[n])) /\ at(n) \in 1 .. n
      BY <1>12, <2>1, <2>2, PlaceCounts
    <3>2. {k \in C : TimeKey(list[k].time) < TimeKey(list[order[n]].time)} = Faster(C, v, order[n])
      BY <1>5, <1>9 DEF Faster, Ok
    <3>3. at(n) = PlaceAmong(order[n], C)
      BY <2>2, <3>1, <3>2 DEF PlaceAmong
    <3>4. n \in 1 .. z
      BY <1>8
    <3> HIDE DEF at, C, z
    <3> QED
      BY <1>3, <3>1, <3>3, <3>4
  <2>3. CASE order[n] \notin C
    BY <1>3, <2>1, <2>3 DEF PlaceAmong, Absent
  <2> QED
    BY <2>2, <2>3
<1> HIDE DEF at
<1>14. \A n \in DOMAIN order : row(n) = PlacedRow(order[n], C)
  BY <1>13 DEF PlacedRow
<1>15. \A n \in DOMAIN order : row(n).of = order[n]
  OBVIOUS
<1> HIDE DEF row, C
<1>16. DOMAIN t = DOMAIN order /\ \A n \in DOMAIN order : t[n] = row(n) /\ t[n].of = order[n]
  BY <1>11, <1>15
<1>17. TableOf(t, S)
  <2>1. t = [n \in DOMAIN order |-> t[n]]
    BY <1>11
  <2> QED
    BY <1>3, <1>8, <1>16, <2>1, TableSays
<1>18. \A n \in DOMAIN t : t[n] = PlacedRow(t[n].of, C) /\ PlaceAmong(t[n].of, C) \in 0 .. z
  BY <1>13, <1>14, <1>16
<1>19. ASSUME NEW m \in DOMAIN t, NEW n \in DOMAIN t, m < n
       PROVE  /\ Class(list[t[m].of].status) <= Class(list[t[n].of].status)
              /\ list[t[n].of].status = "OK" =>
                   /\ list[t[m].of].status = "OK"
                   /\ TimeKey(list[t[m].of].time) <= TimeKey(list[t[n].of].time)
  <2>1. t[m].of \in S /\ t[n].of \in S /\ t[m].of = order[m] /\ t[n].of = order[n]
    BY <1>9, <1>16
  <2>2. rank[t[m].of] <= rank[t[n].of]
    BY <1>8, <1>16, <1>19, <2>1 DEF Sorted
  <2> QED
    BY <1>5, <1>7, <2>1, <2>2
<1> QED
  BY <1>17, <1>18, <1>19 DEF t, C, z

(* A table of whole age groups has the places of each.                     *)
LEMMA GroupPlaced ==
    ASSUME Laid, NEW S \in SUBSET DOMAIN list,
           \A i \in S : Group(list, list[i].group) \subseteq S
    PROVE  Groupwise(ByPlace(list, S)) /\ Of(ByPlace(list, S)) = S
<1> DEFINE t == ByPlace(list, S)
           place == StoredPlace(list)
           own == [i \in Of(t) |-> OwnPlace(i)]
           key == [i \in Of(t) |-> PlaceKey(OwnPlace(i))]
<1>1. /\ TableOf(t, S) /\ \A n \in DOMAIN t : t[n] = StoredRow(list, place, t[n].of)
      /\ \A m, n \in DOMAIN t :
           m < n => /\ Class(list[t[m].of].status) <= Class(list[t[n].of].status)
                    /\ list[t[n].of].status = "OK" =>
                         /\ list[t[m].of].status = "OK"
                         /\ PlaceKey(place[t[m].of]) <= PlaceKey(place[t[n].of])
  BY ByPlaceSays
<1>2. Of(t) = S /\ Len(t) = Cardinality(S) /\ Cardinality(S) \in Nat /\ \A n \in DOMAIN t : t[n].of \in S
  BY <1>1, TablesList DEF TableOf
<1>3. ASSUME NEW i \in S
      PROVE  place[i] = OwnPlace(i) /\ place[i] \in 0 .. LastPlace - 1 /\ place[i] <= Cardinality(S)
  <2>1. TimedPeers(i) \subseteq S /\ IsFiniteSet(S)
    BY LaidSays, FS_Subset DEF TimedPeers, Timed, Ok
  <2>2. Cardinality(TimedPeers(i)) \in Nat /\ Cardinality(TimedPeers(i)) <= Cardinality(S)
    BY <2>1, FS_Subset, FS_CardinalityType
  <2>3. /\ place[i] = PlaceAmong(i, TimedPeers(i)) /\ place[i] \in 0 .. LastPlace - 1
        /\ place[i] <= Cardinality(TimedPeers(i))
    BY StoredSays
  <2>4. place[i] = OwnPlace(i)
    BY <2>3 DEF OwnPlace, TimedPeers
  <2> HIDE DEF place
  <2> QED
    BY <1>2, <2>2, <2>3, <2>4
<1>4. own = [i \in S |-> OwnPlace(i)] /\ key = [i \in S |-> PlaceKey(OwnPlace(i))]
  BY <1>2
<1>5. \A i \in S : own[i] = place[i] /\ key[i] = PlaceKey(place[i])
  BY <1>3, <1>4
<1> HIDE DEF place, t, own, key
<1>6. ASSUME NEW n \in DOMAIN t
      PROVE  /\ t[n].shown = Display(own[t[n].of], list[t[n].of].status)
             /\ t[n].place = IF own[t[n].of] <= Len(t) THEN own[t[n].of] ELSE Absent
  <2>1. t[n].of \in S /\ t[n] = StoredRow(list, place, t[n].of)
    BY <1>1, <1>2
  <2>2. /\ t[n].place = place[t[n].of]
        /\ t[n].shown = Display(place[t[n].of], list[t[n].of].status)
    BY <2>1 DEF StoredRow
  <2>3. place[t[n].of] = own[t[n].of] /\ place[t[n].of] <= Len(t)
    BY <1>2, <1>3, <1>5, <2>1
  <2> QED
    BY <2>2, <2>3
<1>7. \A m, n \in DOMAIN t : m < n =>
         /\ Class(list[t[m].of].status) <= Class(list[t[n].of].status)
         /\ list[t[m].of].status = "OK" /\ list[t[n].of].status = "OK" =>
              key[t[m].of] <= key[t[n].of]
  BY <1>1, <1>2, <1>5
<1>8. WellPlaced(t, own, key, Len(t))
  BY <1>6, <1>7 DEF WellPlaced
<1> QED
  BY <1>2, <1>8 DEF Groupwise, t, own, key

(* A joint table has its own.                                              *)
LEMMA JointPlaced ==
    ASSUME Laid, NEW S \in SUBSET DOMAIN list
    PROVE  Joint(ByTime(list, S), Len(ByTime(list, S)))
<1> DEFINE t == ByTime(list, S)
           C == Ok(list, S)
           placed == [i \in S |-> PlaceAmong(i, C)]
           key == [i \in S |-> TimeKey(list[i].time)]
<1>1. /\ TableOf(t, S)
      /\ \A n \in DOMAIN t : t[n] = PlacedRow(t[n].of, C) /\ PlaceAmong(t[n].of, C) \in 0 .. Cardinality(S)
      /\ \A m, n \in DOMAIN t : m < n =>
           /\ Class(list[t[m].of].status) <= Class(list[t[n].of].status)
           /\ list[t[n].of].status = "OK" =>
                /\ list[t[m].of].status = "OK"
                /\ TimeKey(list[t[m].of].time) <= TimeKey(list[t[n].of].time)
  BY ByTimeSays
<1> HIDE DEF t, C
<1>2. Of(t) = S /\ Len(t) = Cardinality(S) /\ Cardinality(S) \in Nat /\ \A n \in DOMAIN t : t[n].of \in S
  <2>1. Of(t) = S
    BY <1>1, TablesList
  <2> QED
    BY <1>1, <2>1 DEF TableOf
<1>3. \A i \in S : placed[i] = PlaceAmong(i, C) /\ key[i] = TimeKey(list[i].time)
  OBVIOUS
<1> HIDE DEF placed, key
<1>4. \A n \in DOMAIN t :
        /\ t[n].shown = Display(placed[t[n].of], list[t[n].of].status)
        /\ t[n].place = placed[t[n].of] /\ placed[t[n].of] <= Len(t)
  BY <1>1, <1>2, <1>3 DEF PlacedRow
<1>5. WellPlaced(t, placed, key, Len(t))
  BY <1>1, <1>2, <1>3, <1>4 DEF WellPlaced
<1>6. placed = [i \in Of(t) |-> PlaceAmong(i, Ok(list, Of(t)))] /\ key = [i \in Of(t) |-> TimeKey(list[i].time)]
  BY <1>2 DEF placed, key, C
<1> QED
  BY <1>5, <1>6 DEF Joint, t

(* So it has with all age groups, but for the numbers above three.         *)
LEMMA CombinedPlaced ==
    ASSUME Laid, NEW t \in Combined(list)
    PROVE  Joint(t, 3) /\ TableOf(t, DOMAIN list)
<1> DEFINE S == DOMAIN list
           u == ByTime(list, S)
           C == Ok(list, S)
           placed == [i \in S |-> PlaceAmong(i, C)]
           key == [i \in S |-> TimeKey(list[i].time)]
<1>1. /\ TableOf(u, S)
      /\ \A n \in DOMAIN u : u[n] = PlacedRow(u[n].of, C) /\ PlaceAmong(u[n].of, C) \in 0 .. Cardinality(S)
      /\ \A m, n \in DOMAIN u : m < n =>
           /\ Class(list[u[m].of].status) <= Class(list[u[n].of].status)
           /\ list[u[n].of].status = "OK" =>
                /\ list[u[m].of].status = "OK"
                /\ TimeKey(list[u[m].of].time) <= TimeKey(list[u[n].of].time)
  BY ByTimeSays
<1>2. t = [n \in DOMAIN u |-> [u[n] EXCEPT !.place = IF u[n].place <= 3 THEN @ ELSE Absent]]
  BY DEF Combined
<1>3. DOMAIN u = 1 .. Cardinality(S) /\ Cardinality(S) \in Nat
  BY <1>1 DEF TableOf
<1> HIDE DEF u, C, S
<1>4. DOMAIN t = DOMAIN u
  BY <1>2
<1>5. \A n \in DOMAIN u :
        /\ t[n].of = u[n].of
        /\ t[n].shown = Display(PlaceAmong(u[n].of, C), list[u[n].of].status)
        /\ t[n].place = IF PlaceAmong(u[n].of, C) <= 3 THEN PlaceAmong(u[n].of, C) ELSE Absent
  <2> SUFFICES ASSUME NEW n \in DOMAIN u
               PROVE  /\ t[n].of = u[n].of
                      /\ t[n].shown = Display(PlaceAmong(u[n].of, C), list[u[n].of].status)
                      /\ t[n].place = IF PlaceAmong(u[n].of, C) <= 3
                                      THEN PlaceAmong(u[n].of, C) ELSE Absent
    OBVIOUS
  <2>1. u[n] = PlacedRow(u[n].of, C)
    BY <1>1
  <2>2. t[n] = [u[n] EXCEPT !.place = IF u[n].place <= 3 THEN @ ELSE Absent]
    BY <1>2
  <2>3. /\ u[n].place = PlaceAmong(u[n].of, C)
        /\ u[n].shown = Display(PlaceAmong(u[n].of, C), list[u[n].of].status)
        /\ "place" \in DOMAIN u[n] /\ "of" \in DOMAIN u[n] /\ "shown" \in DOMAIN u[n]
    BY <2>1 DEF PlacedRow
  <2> QED
    BY <2>2, <2>3
<1>6. TableOf(t, S)
  <2> DEFINE T == {t[n] : n \in DOMAIN u}
  <2>1. t \in [1 .. Cardinality(S) -> T]
    BY <1>2, <1>3, <1>4
  <2> HIDE DEF T
  <2>2. Len(t) = Cardinality(S)
    BY <1>3, <2>1
  <2> QED
    BY <1>1, <1>4, <1>5, <2>2 DEF TableOf
<1>7. Of(t) = S /\ \A n \in DOMAIN t : t[n].of \in S /\ u[n].of = t[n].of
  BY <1>4, <1>5, <1>6, TablesList DEF TableOf
<1>8. \A i \in S : placed[i] = PlaceAmong(i, C) /\ key[i] = TimeKey(list[i].time)
  OBVIOUS
<1> HIDE DEF placed, key
<1>9. \A n \in DOMAIN t :
        /\ t[n].shown = Display(placed[t[n].of], list[t[n].of].status)
        /\ t[n].place = IF placed[t[n].of] <= 3 THEN placed[t[n].of] ELSE Absent
  BY <1>4, <1>5, <1>7, <1>8
<1>10. \A m, n \in DOMAIN t : m < n =>
         /\ Class(list[t[m].of].status) <= Class(list[t[n].of].status)
         /\ list[t[m].of].status = "OK" /\ list[t[n].of].status = "OK" =>
              key[t[m].of] <= key[t[n].of]
  BY <1>1, <1>4, <1>7, <1>8
<1>11. WellPlaced(t, placed, key, 3)
  BY <1>9, <1>10 DEF WellPlaced
<1>12. placed = [i \in Of(t) |-> PlaceAmong(i, Ok(list, Of(t)))] /\ key = [i \in Of(t) |-> TimeKey(list[i].time)]
  BY <1>7 DEF placed, key, C
<1> QED
  BY <1>6, <1>11, <1>12 DEF Joint, S

(* The results of the age groups of one name, and those of one age group,  *)
(* are all those of each age group among them.                             *)
LEMMA NamedWhole ==
    ASSUME NEW name, NEW x
    PROVE  /\ Named(list, name, x) \in SUBSET DOMAIN list
           /\ \A i \in Named(list, name, x) : Group(list, list[i].group) \subseteq Named(list, name, x)
BY DEF Named, Group

LEMMA GroupWhole ==
    ASSUME NEW g
    PROVE  /\ Group(list, g) \in SUBSET DOMAIN list
           /\ \A i \in Group(list, g) : Group(list, list[i].group) \subseteq Group(list, g)
BY DEF Group

(* The places of every protocol are right.                                 *)
LEMMA PlacesAreRight == Laid => ProtocolPlaces
<1> SUFFICES ASSUME Laid PROVE ProtocolPlaces
  OBVIOUS
<1>1. ASSUME NEW name \in Namings, NEW t \in Separate(list, name)
      PROVE  Groupwise(t) /\ \A i \in Of(t) : Group(list, list[i].group) \subseteq Of(t)
  <2>1. PICK x : t = ByPlace(list, Named(list, name, x))
    BY DEF Separate
  <2>2. Groupwise(t) /\ Of(t) = Named(list, name, x)
    BY <2>1, NamedWhole, GroupPlaced
  <2> QED
    BY <2>2, NamedWhole
<1>2. \A t \in Combined(list) : Joint(t, 3)
  BY CombinedPlaced
<1>3. ASSUME NEW p \in Primaries, NEW t \in Mixed(list, p, Second)
      PROVE  IF Of(t) = Group(list, p) THEN Groupwise(t) ELSE Joint(t, Len(t))
  <2> DEFINE rest == DOMAIN list \ Group(list, p)
  <2>1. t = ByPlace(list, Group(list, p)) \/ (t = ByTime(list, rest) /\ rest # {})
    BY DEF Mixed
  <2>2. CASE t = ByPlace(list, Group(list, p))
    <3>1. Groupwise(t) /\ Of(t) = Group(list, p)
      BY <2>2, GroupWhole, GroupPlaced
    <3> QED
      BY <3>1
  <2>3. CASE t = ByTime(list, rest) /\ rest # {}
    <3>1. rest \in SUBSET DOMAIN list
      OBVIOUS
    <3>2. Of(t) = rest
      BY <2>3, <3>1, ByTimeSays, TablesList
    <3>3. Of(t) # Group(list, p)
      BY <2>3, <3>2
    <3> QED
      BY <2>3, <3>1, <3>3, JointPlaced
  <2> QED
    BY <2>1, <2>2, <2>3
<1> QED
  BY <1>1, <1>2, <1>3 DEF ProtocolPlaces

-----------------------------------------------------------------------------
(* What a protocol lists.                                                  *)

(* Disjoint parts of the list, each in a table of its own, are listed once. *)
Parted(Parts, F) ==
    /\ \A Q \in Parts : Q \subseteq DOMAIN list
    /\ \A P, Q \in Parts : P # Q => P \cap Q = {}
    /\ \A Q \in Parts : TableOf(F[Q], Q)

LEMMA PartsListed ==
    ASSUME Laid, NEW Parts, NEW F, Parted(Parts, F)
    PROVE  ListsOnce({F[Q] : Q \in Parts}, UNION Parts)
<1>0. /\ \A Q \in Parts : Q \subseteq DOMAIN list
      /\ \A P, Q \in Parts : P # Q => P \cap Q = {}
      /\ \A Q \in Parts : TableOf(F[Q], Q)
  BY DEF Parted
<1> DEFINE tables == {F[Q] : Q \in Parts}
           rows(i) == {p \in tables \X DOMAIN list : p[2] \in DOMAIN p[1] /\ p[1][p[2]].of = i}
<1>1. ASSUME NEW Q \in Parts PROVE DOMAIN F[Q] \subseteq DOMAIN list
  <2>1. Cardinality(Q) <= Len(list) /\ Cardinality(Q) \in Nat
    BY <1>0, LaidSays, FS_Subset, FS_CardinalityType
  <2> QED
    BY <1>0, <2>1, LaidSays DEF TableOf
<1>2. ASSUME NEW i \in DOMAIN list, i \notin UNION Parts PROVE Cardinality(rows(i)) = 0
  <2>1. rows(i) = {}
    BY <1>0, <1>2 DEF TableOf
  <2> QED
    BY <2>1, FS_EmptySet
<1>3. ASSUME NEW i \in DOMAIN list, i \in UNION Parts PROVE Cardinality(rows(i)) = 1
  <2>1. PICK Q \in Parts : i \in Q
    BY <1>3
  <2>2. PICK n \in DOMAIN F[Q] : F[Q][n].of = i
    BY <1>0, <2>1 DEF TableOf
  <2>3. <<F[Q], n>> \in rows(i)
    BY <1>1, <2>1, <2>2
  <2>4. ASSUME NEW p \in rows(i) PROVE p = <<F[Q], n>>
    <3>1. PICK P \in Parts : p[1] = F[P]
      OBVIOUS
    <3>2. p = <<p[1], p[2]>> /\ p[2] \in DOMAIN F[P] /\ F[P][p[2]].of = i
      BY <3>1
    <3>3. i \in P
      BY <1>0, <3>2 DEF TableOf
    <3>4. P = Q
      BY <1>0, <2>1, <3>3
    <3>5. p[2] = n
      BY <1>0, <2>2, <3>2, <3>4 DEF TableOf
    <3> QED
      BY <3>1, <3>2, <3>4, <3>5
  <2> HIDE DEF rows
  <2>5. rows(i) = {<<F[Q], n>>}
    BY <2>3, <2>4
  <2> QED
    BY <2>5, FS_Singleton
<1> QED
  BY <1>2, <1>3 DEF ListsOnce

(* Each of the formats lists every result.                                 *)
LEMMA SeparateLists ==
    ASSUME Laid, NEW name PROVE ListsOnce(Separate(list, name), DOMAIN list)
<1> DEFINE names == {NameOf(name, g) : g \in Groups(list)}
           Parts == {Named(list, name, x) : x \in names}
           F == [Q \in Parts |-> ByPlace(list, Q)]
<1>1. /\ \A Q \in Parts : Q \subseteq DOMAIN list
      /\ \A P, Q \in Parts : P # Q => P \cap Q = {}
      /\ UNION Parts = DOMAIN list
  <2>1. \A x, i : i \in Named(list, name, x) <=> i \in DOMAIN list /\ NameOf(name, list[i].group) = x
    BY DEF Named
  <2>2. /\ \A Q \in Parts : \E x \in names : Q = Named(list, name, x)
        /\ \A x \in names : Named(list, name, x) \in Parts
        /\ \A i \in DOMAIN list : NameOf(name, list[i].group) \in names
    BY DEF Groups
  <2> HIDE DEF Parts, names
  <2>3. \A Q \in Parts : Q \subseteq DOMAIN list
    BY <2>1, <2>2
  <2>4. ASSUME NEW P \in Parts, NEW Q \in Parts, NEW i \in P \cap Q PROVE P = Q
    <3>1. PICK x, y \in names : P = Named(list, name, x) /\ Q = Named(list, name, y)
      BY <2>2
    <3> QED
      BY <2>1, <2>4, <3>1
  <2>5. \A i \in DOMAIN list : \E Q \in Parts : i \in Q
    BY <2>1, <2>2
  <2> QED
    BY <2>3, <2>4, <2>5
<1>2. \A Q \in Parts : F[Q] = ByPlace(list, Q)
  OBVIOUS
<1>3. \A Q \in Parts : TableOf(F[Q], Q)
  BY <1>1, <1>2, ByPlaceSays
<1>4. Separate(list, name) = {F[Q] : Q \in Parts}
  <2>1. Separate(list, name) = {ByPlace(list, Named(list, name, x)) : x \in names}
    BY DEF Separate
  <2>2. /\ \A x \in names : Named(list, name, x) \in Parts
        /\ \A Q \in Parts : \E x \in names : Q = Named(list, name, x)
    OBVIOUS
  <2> HIDE DEF F, Parts, names
  <2> QED
    BY <1>2, <2>1, <2>2
<1> HIDE DEF F, Parts, names
<1>5. ListsOnce({F[Q] : Q \in Parts}, UNION Parts)
  <2>1. Parted(Parts, F)
    BY <1>1, <1>3 DEF Parted
  <2> QED
    BY <2>1, PartsListed
<1> QED
  BY <1>1, <1>4, <1>5

LEMMA CombinedLists == Laid => ListsOnce(Combined(list), DOMAIN list)
<1> SUFFICES ASSUME Laid PROVE ListsOnce(Combined(list), DOMAIN list)
  OBVIOUS
<1>1. PICK t : Combined(list) = {t}
  BY DEF Combined
<1> DEFINE Parts == {DOMAIN list}
           F == [Q \in Parts |-> t]
<1>2. \A Q \in Parts : TableOf(F[Q], Q)
  BY <1>1, CombinedPlaced
<1>3. Combined(list) = {F[Q] : Q \in Parts} /\ UNION Parts = DOMAIN list
  BY <1>1
<1>4. /\ \A Q \in Parts : Q \subseteq DOMAIN list
      /\ \A P, Q \in Parts : P # Q => P \cap Q = {}
  OBVIOUS
<1> HIDE DEF F, Parts
<1>5. Parted(Parts, F)
  BY <1>2, <1>4 DEF Parted
<1>6. ListsOnce({F[Q] : Q \in Parts}, UNION Parts)
  BY <1>5, PartsListed
<1> QED
  BY <1>3, <1>6

LEMMA MixedLists ==
    ASSUME Laid, NEW p, p # NoGroup, NEW second
    PROVE  ListsOnce(Mixed(list, p, second), DOMAIN list)
<1> DEFINE first == Group(list, p)
           rest == DOMAIN list \ first
           Parts == {first, rest} \ {{}}
           F == [Q \in Parts |-> IF Q = first THEN ByPlace(list, Q) ELSE ByTime(list, Q)]
<1>1. first \subseteq DOMAIN list
  BY DEF Group
<1> HIDE DEF first
<1>2. /\ \A Q \in Parts : Q \subseteq DOMAIN list
      /\ \A P, Q \in Parts : P # Q => P \cap Q = {}
      /\ UNION Parts = DOMAIN list
  BY <1>1
<1>3. \A Q \in Parts : F[Q] = IF Q = first THEN ByPlace(list, Q) ELSE ByTime(list, Q)
  OBVIOUS
<1>4. \A Q \in Parts : TableOf(F[Q], Q)
  BY <1>2, <1>3, ByPlaceSays, ByTimeSays
<1>5. Mixed(list, p, second) =
        {ByPlace(list, S) : S \in {first} \ {{}}} \cup {ByTime(list, S) : S \in {rest} \ {{}}}
  <2>1. {Group(list, q) : q \in {p} \ {NoGroup}} = {first}
    BY DEF first
  <2> QED
    BY <2>1 DEF Mixed, first
<1>6. Mixed(list, p, second) = {F[Q] : Q \in Parts}
  <2>1. rest = first => first = {}
    BY <1>1
  <2>2. \A Q \in {first} \ {{}} : Q \in Parts /\ F[Q] = ByPlace(list, Q)
    OBVIOUS
  <2>3. \A Q \in {rest} \ {{}} : Q \in Parts /\ F[Q] = ByTime(list, Q)
    BY <2>1
  <2>4. \A Q \in Parts : Q \in {first} \ {{}} \/ Q \in {rest} \ {{}}
    OBVIOUS
  <2> HIDE DEF F, Parts, rest
  <2> QED
    BY <1>5, <2>2, <2>3, <2>4
<1> HIDE DEF F, Parts
<1>7. Parted(Parts, F)
  BY <1>2, <1>4 DEF Parted
<1>8. ListsOnce({F[Q] : Q \in Parts}, UNION Parts)
  BY <1>7, PartsListed
<1> QED
  BY <1>2, <1>6, <1>8

-----------------------------------------------------------------------------
(* Rules, as they are kept and as they are written.                        *)
WellFormed(c) == c.operator \in {"EQ", "IN", "CONTAINS"}

LEMMA ConditionSays ==
    ASSUME NEW e, NEW c, WellFormed(c)
    PROVE  /\ ConditionHolds(e, CompileCondition(c)) = EvaluateCondition(e, c)
           /\ EvaluateCondition(e, c) \in BOOLEAN
<1> DEFINE k == CompileCondition(c)
           target == Target(e, c.field)
<1>1. k.field = c.field /\ k.operator = c.operator
  BY DEF CompileCondition
<1>2. CASE c.operator = "EQ"
  <2>1. k.sought = {ReadAs(c.field, Text(c))}
    BY <1>2 DEF CompileCondition
  <2> HIDE DEF k
  <2>2. ConditionHolds(e, k) = (ReadAs(c.field, target) = ReadAs(c.field, Text(c)))
    BY <1>1, <1>2, <2>1 DEF ConditionHolds
  <2>3. EvaluateCondition(e, c) = (ReadAs(c.field, target) = ReadAs(c.field, Text(c)))
    BY <1>2 DEF EvaluateCondition
  <2> QED
    BY <2>2, <2>3 DEF k
<1>3. CASE c.operator = "IN"
  <2>1. k.sought = {ReadAs(c.field, v) : v \in {t \in c.values : c.array}}
    BY <1>3 DEF CompileCondition
  <2> HIDE DEF k
  <2>2. ConditionHolds(e, k) =
          (c.array /\ \E v \in c.values : ReadAs(c.field, target) = ReadAs(c.field, v))
    BY <1>1, <1>3, <2>1 DEF ConditionHolds
  <2>3. EvaluateCondition(e, c) = 
          (c.array /\ \E v \in c.values : ReadAs(c.field, target) = ReadAs(c.field, v))
    BY <1>3 DEF EvaluateCondition
  <2> QED
    BY <2>2, <2>3 DEF k
<1>4. CASE c.operator = "CONTAINS"
  <2>1. k.sought = {Text(c)}
    BY <1>4 DEF CompileCondition
  <2> HIDE DEF k
  <2>2. ConditionHolds(e, k) = (Text(c) \subseteq target)
    BY <1>1, <1>4, <2>1 DEF ConditionHolds
  <2>3. EvaluateCondition(e, c) = (Text(c) \subseteq target)
    BY <1>4 DEF EvaluateCondition
  <2> QED
    BY <2>2, <2>3 DEF k
<1> QED
  BY <1>2, <1>3, <1>4 DEF WellFormed

LEMMA BlockSays ==
    ASSUME NEW e, NEW b, \A c \in b.conditions : WellFormed(c),
           NEW k, k.operator = b.operator, k.conditions = {CompileCondition(c) : c \in b.conditions}
    PROVE  BlockHolds(e, k) = EvaluateBlock(e, b) /\ EvaluateBlock(e, b) \in BOOLEAN
<1>1. \A c \in b.conditions : /\ ConditionHolds(e, CompileCondition(c)) = EvaluateCondition(e, c)
                              /\ EvaluateCondition(e, c) \in BOOLEAN
  BY ConditionSays
<1> DEFINE values == {EvaluateCondition(e, c) : c \in b.conditions}
<1>2. /\ k.conditions # {} <=> values # {}
      /\ (\E c \in k.conditions : ConditionHolds(e, c)) <=> TRUE \in values
      /\ (\A c \in k.conditions : ConditionHolds(e, c)) <=> FALSE \notin values
  BY <1>1
<1>3. EvaluateBlock(e, b) =
        (values # {} /\ IF b.operator = "OR" THEN TRUE \in values ELSE FALSE \notin values)
  BY DEF EvaluateBlock
<1> HIDE DEF values
<1> QED
  BY <1>2, <1>3 DEF BlockHolds

WellFormedRule(r) ==
    /\ \A c \in r.conditions : WellFormed(c)
    /\ \A b \in r.subgroups : \A c \in b.conditions : WellFormed(c)

LEMMA RuleSays ==
    ASSUME NEW e, NEW r, WellFormedRule(r)
    PROVE  RuleHolds(e, CompileRule(r)) = EvaluateRule(e, r)
<1> DEFINE k == CompileRule(r)
           all == {EvaluateBlock(e, r)} \cup {EvaluateBlock(e, b) : b \in r.subgroups}
<1>1. /\ k.operator = r.operator /\ k.conditions = {CompileCondition(c) : c \in r.conditions}
      /\ k.subgroups = {CompileBlock(b) : b \in r.subgroups}
  BY DEF CompileRule
<1> HIDE DEF k
<1>2. BlockHolds(e, k) = EvaluateBlock(e, r) /\ EvaluateBlock(e, r) \in BOOLEAN
  BY <1>1, BlockSays DEF WellFormedRule
<1>3. ASSUME NEW b \in r.subgroups
      PROVE  BlockHolds(e, CompileBlock(b)) = EvaluateBlock(e, b) /\ EvaluateBlock(e, b) \in BOOLEAN
  <2>1. /\ CompileBlock(b).operator = b.operator
        /\ CompileBlock(b).conditions = {CompileCondition(c) : c \in b.conditions}
    BY DEF CompileBlock
  <2> QED
    BY <2>1, BlockSays DEF WellFormedRule
<1>4. /\ (\E b \in k.subgroups : BlockHolds(e, b)) <=> \E b \in r.subgroups : EvaluateBlock(e, b)
      /\ (\A b \in k.subgroups : BlockHolds(e, b)) <=> \A b \in r.subgroups : EvaluateBlock(e, b)
  BY <1>1, <1>3
<1> DEFINE some == TRUE \in all
           every == FALSE \notin all
<1>5. /\ some <=> EvaluateBlock(e, r) \/ \E b \in r.subgroups : EvaluateBlock(e, b)
      /\ every <=> EvaluateBlock(e, r) /\ \A b \in r.subgroups : EvaluateBlock(e, b)
      /\ some \in BOOLEAN /\ every \in BOOLEAN
  <2>1. /\ TRUE \in all <=> EvaluateBlock(e, r) \/ \E b \in r.subgroups : EvaluateBlock(e, b)
        /\ FALSE \notin all <=> EvaluateBlock(e, r) /\ \A b \in r.subgroups : EvaluateBlock(e, b)
    BY <1>2, <1>3
  <2> HIDE DEF all
  <2>2. some \in BOOLEAN
    OBVIOUS
  <2>3. every \in BOOLEAN
    OBVIOUS
  <2> QED
    BY <2>1, <2>2, <2>3
<1>6. EvaluateRule(e, r) = IF r.operator = "OR" THEN some ELSE every
  BY DEF EvaluateRule
<1> HIDE DEF all, some, every
<1>7. RuleHolds(e, k) =
        IF r.operator = "OR" THEN BlockHolds(e, k) \/ \E b \in k.subgroups : BlockHolds(e, b)
        ELSE BlockHolds(e, k) /\ \A b \in k.subgroups : BlockHolds(e, b)
  BY <1>1 DEF RuleHolds
<1>8. CASE r.operator = "OR"
  <2>1. RuleHolds(e, k) = (BlockHolds(e, k) \/ \E b \in k.subgroups : BlockHolds(e, b))
    BY <1>7, <1>8
  <2>2. EvaluateRule(e, r) = some
    BY <1>6, <1>8
  <2>3. some <=> BlockHolds(e, k) \/ \E b \in k.subgroups : BlockHolds(e, b)
    BY <1>2, <1>4, <1>5
  <2> QED
    BY <1>5, <2>1, <2>2, <2>3 DEF k
<1>9. CASE r.operator # "OR"
  <2>1. RuleHolds(e, k) = (BlockHolds(e, k) /\ \A b \in k.subgroups : BlockHolds(e, b))
    BY <1>7, <1>9
  <2>2. EvaluateRule(e, r) = every
    BY <1>6, <1>9
  <2>3. every <=> BlockHolds(e, k) /\ \A b \in k.subgroups : BlockHolds(e, b)
    BY <1>2, <1>4, <1>5
  <2> QED
    BY <1>5, <2>1, <2>2, <2>3 DEF k
<1> QED
  BY <1>8, <1>9

LEMMA RuleListsSay ==
    ASSUME NEW rules \in RuleLists
    PROVE  /\ DOMAIN rules \in {1 .. 2, 1 .. 3} /\ rules # <<>>
           /\ \A n \in DOMAIN rules : WellFormedRule(rules[n])
<1>1. WellFormed(Young) /\ WellFormed(Either) /\ WellFormed(InClub)
  BY DEF WellFormed, Young, Either, InClub, Condition
<1>2. ASSUME NEW op, NEW op2
      PROVE  WellFormedRule(Rule(op, {Either, InClub},
                                 {Block(op2, {Young, InClub}), Block("AND", {InClub})}))
  BY <1>1 DEF WellFormedRule, Rule, Block
<1>3. ASSUME NEW op
      PROVE  /\ WellFormedRule(Rule(op, {Young}, {})) /\ WellFormedRule(Rule(op, {Either}, {}))
             /\ WellFormedRule(Rule(op, {}, {}))
  BY <1>1 DEF WellFormedRule, Rule
<1>4. CASE \E op, op2 \in {"AND", "OR"} :
             rules = <<Rule(op, {Either, InClub}, {Block(op2, {Young, InClub}), Block("AND", {InClub})}),
                       Rule("AND", {Young}, {})>>
  <2>1. PICK op, op2 \in {"AND", "OR"} :
          rules = <<Rule(op, {Either, InClub}, {Block(op2, {Young, InClub}), Block("AND", {InClub})}),
                    Rule("AND", {Young}, {})>>
    BY <1>4
  <2> DEFINE a == Rule(op, {Either, InClub}, {Block(op2, {Young, InClub}), Block("AND", {InClub})})
             b == Rule("AND", {Young}, {})
  <2>4. WellFormedRule(a) /\ WellFormedRule(b) /\ rules = <<a, b>>
    BY <1>2, <1>3, <2>1
  <2> HIDE DEF a, b
  <2>2. /\ DOMAIN rules = 1 .. 2 /\ WellFormedRule(rules[1]) /\ WellFormedRule(rules[2])
        /\ Len(rules) = 2
    BY <2>4
  <2>3. rules # <<>> /\ \A n \in 1 .. 2 : n = 1 \/ n = 2
    BY <2>2
  <2> QED
    BY <2>2, <2>3
<1>5. CASE rules = <<Rule("AND", {}, {}), Rule("OR", {Either}, {}), Rule("OR", {Young}, {})>>
  <2>1. /\ DOMAIN rules = 1 .. 3 /\ WellFormedRule(rules[1]) /\ WellFormedRule(rules[2])
        /\ WellFormedRule(rules[3]) /\ Len(rules) = 3
    BY <1>3, <1>5
  <2>2. rules # <<>> /\ \A n \in 1 .. 3 : n = 1 \/ n = 2 \/ n = 3
    BY <2>1
  <2> QED
    BY <2>1, <2>2
<1> QED
  BY <1>4, <1>5 DEF RuleLists

LEMMA CompiledSays == ASSUME NEW e PROVE CompiledAsTested(e)
<1>1. \A c \in Conditions : WellFormed(c)
  BY DEF Conditions, Condition, WellFormed
<1> QED
  BY <1>1, ConditionSays, RuleSays, RuleListsSay DEF CompiledAsTested

(* A protocol by rules lists what it is to, in the table of the first that *)
(* holds.                                                                  *)
LEMMA AdvancedLists ==
    ASSUME Laid, NEW g, g.groups \in RuleLists
    PROVE  ListsByRules(Advanced(list, g), g)
<1> DEFINE compiled == [n \in DOMAIN g.groups |-> CompileRule(g.groups[n])]
           holds == [i \in DOMAIN list |-> {n \in DOMAIN g.groups : RuleHolds(list[i], compiled[n])}]
           taken(n) == {i \in DOMAIN list : n \in holds[i] /\ \A m \in holds[i] : n <= m}
           rest == {i \in DOMAIN list : holds[i] = {} /\ g.includeUnmatched}
           Parts == ({taken(n) : n \in DOMAIN g.groups} \cup {rest}) \ {{}}
           F == [Q \in Parts |-> ByPlace(list, Q)]
           first(i) == IF holds[i] = {} THEN 0 ELSE Min(holds[i])
<1>1. DOMAIN g.groups \subseteq Nat /\ \A n \in DOMAIN g.groups : WellFormedRule(g.groups[n])
  BY RuleListsSay
<1>2. \A i \in DOMAIN list :
        holds[i] = {n \in DOMAIN g.groups : EvaluateRule(list[i], g.groups[n])}
  <2> SUFFICES ASSUME NEW i \in DOMAIN list
               PROVE  holds[i] = {n \in DOMAIN g.groups : EvaluateRule(list[i], g.groups[n])}
    OBVIOUS
  <2>1. \A n \in DOMAIN g.groups :
          RuleHolds(list[i], compiled[n]) = EvaluateRule(list[i], g.groups[n])
    BY <1>1, RuleSays
  <2> HIDE DEF compiled
  <2> QED
    BY <2>1
<1>3. Advanced(list, g) = {ByPlace(list, S) : S \in Parts}
  BY DEF Advanced
<1>4. \A i \in DOMAIN list : holds[i] \subseteq DOMAIN g.groups
  BY <1>2
<1> HIDE DEF holds
<1>5. \A Q \in Parts : Q \subseteq DOMAIN list
  OBVIOUS
<1>6. ASSUME NEW i \in DOMAIN list, holds[i] # {}
      PROVE  /\ first(i) \in holds[i] /\ \A m \in holds[i] : first(i) <= m
             /\ \A n \in DOMAIN g.groups : i \in taken(n) <=> n = first(i)
  <2>1. holds[i] \subseteq Nat /\ holds[i] \subseteq DOMAIN g.groups
    BY <1>1, <1>4
  <2>2. \E x \in holds[i] : \A y \in holds[i] : x <= y
    BY <1>6, <2>1, LeastOf
  <2>3. first(i) \in holds[i] /\ \A m \in holds[i] : first(i) <= m
    BY <1>6, <2>2 DEF Min
  <2>4. \A n \in DOMAIN g.groups : i \in taken(n) <=> n = first(i)
    BY <2>1, <2>3
  <2> QED
    BY <2>3, <2>4
<1>7. \A i \in DOMAIN list : holds[i] = {} => first(i) = 0
  OBVIOUS
<1>8. \A i \in DOMAIN list : i \in rest <=> holds[i] = {} /\ g.includeUnmatched
  OBVIOUS
<1>9. \A n : \A i \in taken(n) : i \in DOMAIN list /\ holds[i] # {}
  OBVIOUS
<1> HIDE DEF first
<1>10. ASSUME NEW Q \in Parts
       PROVE  (\E n \in DOMAIN g.groups : Q = taken(n)) \/ Q = rest
  OBVIOUS
<1>11. ASSUME NEW Q \in Parts, NEW i \in Q, NEW j \in Q PROVE first(i) = first(j)
  <2>1. CASE \E n \in DOMAIN g.groups : Q = taken(n)
    <3>1. PICK n \in DOMAIN g.groups : Q = taken(n)
      BY <2>1
    <3>2. i \in taken(n) /\ j \in taken(n)
      BY <1>11, <3>1
    <3> QED
      BY <1>6, <1>9, <3>2
  <2>2. CASE Q = rest
    BY <1>5, <1>7, <1>8, <1>11, <2>2
  <2> QED
    BY <1>10, <2>1, <2>2
<1>12. ASSUME NEW P \in Parts, NEW Q \in Parts, NEW i \in P \cap Q PROVE P = Q
  <2>1. i \in DOMAIN list
    BY <1>5
  <2>2. CASE holds[i] = {}
    <3>1. P = rest /\ Q = rest
      BY <1>9, <1>10, <1>12, <2>2
    <3> QED
      BY <3>1
  <2>3. CASE holds[i] # {}
    <3>1. i \notin rest
      BY <2>3
    <3>2. PICK m, n \in DOMAIN g.groups : P = taken(m) /\ Q = taken(n)
      BY <1>10, <1>12, <3>1
    <3>3. m = first(i) /\ n = first(i)
      BY <1>6, <1>12, <2>1, <2>3, <3>2
    <3> QED
      BY <3>2, <3>3
  <2> QED
    BY <2>2, <2>3
<1>13. UNION Parts = {i \in DOMAIN list : g.includeUnmatched \/ holds[i] # {}}
  <2>1. ASSUME NEW i \in UNION Parts PROVE i \in DOMAIN list /\ (g.includeUnmatched \/ holds[i] # {})
    <3>1. PICK Q \in Parts : i \in Q
      OBVIOUS
    <3> QED
      BY <1>5, <1>8, <1>9, <1>10, <3>1
  <2>2. ASSUME NEW i \in DOMAIN list, g.includeUnmatched \/ holds[i] # {} PROVE i \in UNION Parts
    <3>1. CASE holds[i] = {}
      BY <1>8, <2>2, <3>1
    <3>2. CASE holds[i] # {}
      <4>1. first(i) \in DOMAIN g.groups /\ i \in taken(first(i))
        BY <1>4, <1>6, <3>2
      <4> QED
        BY <4>1
    <3> QED
      BY <3>1, <3>2
  <2> HIDE DEF Parts
  <2> QED
    BY <2>1, <2>2
<1>14. \A Q \in Parts : Q # {}
  OBVIOUS
<1>15. \A Q \in Parts : F[Q] = ByPlace(list, Q)
  OBVIOUS
<1> HIDE DEF Parts, F, rest, taken
<1>16. \A Q \in Parts : TableOf(F[Q], Q)
  BY <1>5, <1>15, ByPlaceSays
<1>17. Advanced(list, g) = {F[Q] : Q \in Parts}
  BY <1>3, <1>15
<1>18. ListsOnce(Advanced(list, g), {i \in DOMAIN list : g.includeUnmatched \/ holds[i] # {}})
  <2>1. Parted(Parts, F)
    BY <1>5, <1>12, <1>16 DEF Parted
  <2>2. ListsOnce({F[Q] : Q \in Parts}, UNION Parts)
    BY <2>1, PartsListed
  <2> QED
    BY <1>13, <1>17, <2>2
<1>19. ASSUME NEW t \in Advanced(list, g) PROVE Cardinality({first(t[n].of) : n \in DOMAIN t}) = 1
  <2>1. PICK Q \in Parts : t = F[Q]
    BY <1>17
  <2>2. TableOf(t, Q)
    BY <1>16, <2>1
  <2>3. PICK i \in Q : TRUE
    BY <1>14
  <2>4. PICK n \in DOMAIN t : t[n].of = i
    BY <2>2, <2>3 DEF TableOf
  <2>5. \A m \in DOMAIN t : first(t[m].of) = first(i)
    BY <1>11, <2>2 DEF TableOf
  <2>6. {first(t[m].of) : m \in DOMAIN t} = {first(i)}
    BY <2>4, <2>5
  <2> QED
    BY <2>6, FS_Singleton
<1> DEFINE written(i) == {n \in DOMAIN g.groups : EvaluateRule(list[i], g.groups[n])}
           leading(i) == IF written(i) = {} THEN 0 ELSE Min(written(i))
<1>20. \A i \in DOMAIN list : holds[i] = written(i) /\ first(i) = leading(i)
  BY <1>2 DEF first
<1>21. ListsOnce(Advanced(list, g), {i \in DOMAIN list : g.includeUnmatched \/ written(i) # {}})
  <2>1. {i \in DOMAIN list : g.includeUnmatched \/ written(i) # {}}
          = {i \in DOMAIN list : g.includeUnmatched \/ holds[i] # {}}
    BY <1>20
  <2> QED
    BY <1>18, <2>1
<1>22. \A t \in Advanced(list, g) : Cardinality({leading(t[n].of) : n \in DOMAIN t}) = 1
  <2> SUFFICES ASSUME NEW t \in Advanced(list, g)
               PROVE  Cardinality({leading(t[n].of) : n \in DOMAIN t}) = 1
    OBVIOUS
  <2>1. PICK Q \in Parts : t = F[Q]
    BY <1>17
  <2>2. \A n \in DOMAIN t : t[n].of \in DOMAIN list
    BY <1>5, <1>16, <2>1 DEF TableOf
  <2> HIDE DEF leading, written
  <2>3. {leading(t[n].of) : n \in DOMAIN t} = {first(t[n].of) : n \in DOMAIN t}
    BY <1>20, <2>2
  <2> QED
    BY <1>19, <2>3
<1> QED
  BY <1>21, <1>22 DEF ListsByRules

(* The formats a competition chooses without rules.                        *)
LEMMA RowsList ==
    ASSUME Laid, NEW row \in Rows, NEW name
    PROVE  ListsOnce(ProtocolOf(list, name, Resolved(row, {})), DOMAIN list)
<1> DEFINE c == Resolved(row, {})
           rules == {g \in c.grouping : g.enabled /\ g.groups # <<>>}
<1>1. c = FromRow(row)
  BY DEF Resolved
<1>2. \/ \E f \in {"SEPARATE", "COMBINED"} : row = Row(f, NoGroup, {}, {})
      \/ \E p \in Primaries : row = Row("MIXED", p, {Second}, {})
  BY DEF Rows
<1>3. /\ c.grouping = row.grouping /\ c.primary = row.primary
      /\ c.format = IF row.format \in {"COMBINED", "MIXED"} THEN row.format ELSE "SEPARATE"
  BY <1>1 DEF FromRow, ConfigOf
<1>4. row.grouping = {}
  BY <1>2 DEF Row
<1>5. rules = {}
  BY <1>3, <1>4
<1>6. ProtocolOf(list, name, c) =
        CASE rules # {} -> Advanced(list, CHOOSE g \in rules : TRUE)
          [] rules = {} /\ c.format = "SEPARATE" -> Separate(list, name)
          [] rules = {} /\ c.format = "COMBINED" -> Combined(list)
          [] rules = {} /\ c.format = "MIXED"    -> Mixed(list, c.primary, c.secondary)
  BY DEF ProtocolOf
<1> HIDE DEF c, rules
<1>7. CASE row = Row("SEPARATE", NoGroup, {}, {})
  <2>1. c.format = "SEPARATE"
    BY <1>3, <1>7 DEF Row
  <2>2. ProtocolOf(list, name, c) = Separate(list, name)
    BY <1>5, <1>6, <2>1
  <2> QED
    BY <2>2, SeparateLists DEF c
<1>8. CASE row = Row("COMBINED", NoGroup, {}, {})
  <2>1. c.format = "COMBINED"
    BY <1>3, <1>8 DEF Row
  <2>2. ProtocolOf(list, name, c) = Combined(list)
    BY <1>5, <1>6, <2>1
  <2> QED
    BY <2>2, CombinedLists DEF c
<1>9. ASSUME NEW p \in Primaries, row = Row("MIXED", p, {Second}, {})
      PROVE  ListsOnce(ProtocolOf(list, name, Resolved(row, {})), DOMAIN list)
  <2>1. c.format = "MIXED" /\ c.primary = p /\ p # NoGroup
    BY <1>3, <1>9 DEF Row, Primaries, NoGroup
  <2>2. ProtocolOf(list, name, c) = Mixed(list, p, c.secondary)
    BY <1>5, <1>6, <2>1
  <2> QED
    BY <2>1, <2>2, MixedLists DEF c
<1> QED
  BY <1>2, <1>7, <1>8, <1>9

(* Rules count if they are on, whosever they are.                          *)
LEMMA GroupingsList ==
    ASSUME Laid, NEW g \in Groupings
    PROVE  LET c == Resolved(Row("SEPARATE", NoGroup, {}, {g}), {}) IN
           /\ Resolved(Row("SEPARATE", NoGroup, {}, {}), {[grouping |-> {g}]}) = c
           /\ IF g.enabled THEN ListsByRules(ProtocolOf(list, OwnNames, c), g)
                           ELSE ProtocolOf(list, OwnNames, c) = Separate(list, OwnNames)
<1> DEFINE c == Resolved(Row("SEPARATE", NoGroup, {}, {g}), {})
           own == Row("SEPARATE", NoGroup, {}, {})
           mine == [grouping |-> {g}]
           rules == {h \in c.grouping : h.enabled /\ h.groups # <<>>}
<1>1. c = ConfigOf("SEPARATE", NoGroup, {}, {g})
  BY DEF Resolved, FromRow, Row
<1>2. Resolved(own, {mine}) = c
  <2>1. FromRow(own) = ConfigOf("SEPARATE", NoGroup, {}, {})
    BY DEF FromRow, Row
  <2>2. {mine} # {} /\ (CHOOSE d \in {mine} : TRUE) = mine
    OBVIOUS
  <2>3. Resolved(own, {mine}) = FromDefaults(mine)
    <3> HIDE DEF own, mine
    <3> QED
      BY <2>1, <2>2 DEF Resolved, IsUntouched
  <2>4. FromDefaults(mine) = ConfigOf("SEPARATE", NoGroup, {}, {g})
    BY DEF FromDefaults
  <2> QED
    BY <1>1, <2>3, <2>4
<1>3. c.grouping = {g} /\ c.format = "SEPARATE"
  BY <1>1 DEF ConfigOf
<1>4. ProtocolOf(list, OwnNames, c) =
        CASE rules # {} -> Advanced(list, CHOOSE h \in rules : TRUE)
          [] rules = {} /\ c.format = "SEPARATE" -> Separate(list, OwnNames)
          [] rules = {} /\ c.format = "COMBINED" -> Combined(list)
          [] rules = {} /\ c.format = "MIXED"    -> Mixed(list, c.primary, c.secondary)
  BY DEF ProtocolOf
<1>5. (g.enabled = TRUE /\ g.groups \in RuleLists) \/ g.enabled = FALSE
  BY DEF Groupings
<1> HIDE DEF c
<1>6. CASE g.enabled = TRUE /\ g.groups \in RuleLists
  <2>1. g.groups # <<>>
    BY <1>6, RuleListsSay
  <2>2. rules = {g}
    BY <1>3, <1>6, <2>1
  <2>3. rules # {} /\ (CHOOSE h \in rules : TRUE) = g
    BY <2>2
  <2> HIDE DEF rules
  <2>4. ProtocolOf(list, OwnNames, c) = Advanced(list, g)
    BY <1>4, <2>3
  <2> QED
    BY <1>2, <1>6, <2>4, AdvancedLists DEF c, own, mine
<1>7. CASE g.enabled = FALSE
  <2>1. rules = {}
    BY <1>3, <1>7
  <2> HIDE DEF rules
  <2>2. ProtocolOf(list, OwnNames, c) = Separate(list, OwnNames)
    BY <1>3, <1>4, <2>1
  <2> QED
    BY <1>2, <1>7, <2>2 DEF c, own, mine
<1> QED
  BY <1>5, <1>6, <1>7

LEMMA ProtocolsList == Laid => ProtocolListsAll
<1>1. ASSUME NEW row, NEW defaults, ~IsUntouched(FromRow(row))
      PROVE  Resolved(row, defaults) = Resolved(row, {})
  BY <1>1 DEF Resolved
<1> QED
  BY <1>1, CompiledSays, RowsList, GroupingsList DEF ProtocolListsAll

(* Every list the runs lay out is shorter than what a missing place counts *)
(* as.                                                                     *)
LEMMA ListsLaid == RulesSpec => [](Laid /\ Len(list) <= MaxListed)
<1>1. RulesInit => Laid /\ Len(list) <= MaxListed
  BY RulesAssumption, KeysApart DEF RulesInit, Laid
<1>2. Laid /\ Len(list) <= MaxListed /\ [RulesNext]_inputs => (Laid /\ Len(list) <= MaxListed)'
  <2> SUFFICES ASSUME Laid, Len(list) <= MaxListed, [RulesNext]_inputs
               PROVE  Laid' /\ Len(list)' <= MaxListed
    OBVIOUS
  <2>1. CASE list' = list
    BY <2>1 DEF Laid
  <2>2. CASE MoreResults
    <3>1. PICK r \in Listed : list' = Append(list, r)
      BY <2>2 DEF MoreResults
    <3>2. list' \in Seq(Listed) /\ Len(list') = Len(list) + 1 /\ Len(list) \in Nat
      BY <3>1 DEF Laid
    <3>3. Len(list) < MaxListed /\ MaxListed \in 0 .. LastPlace - 1 /\ LastPlace \in Int
      BY <2>2, RulesAssumption, KeysApart DEF MoreResults
    <3>4. Len(list') <= MaxListed /\ Len(list') < LastPlace
      BY <3>2, <3>3
    <3> QED
      BY <3>2, <3>4 DEF Laid
  <2> QED
    BY <2>1, <2>2 DEF RulesNext, MoreSwimmers, inputs
<1> QED
  BY <1>1, <1>2, PTL DEF RulesSpec

(* The places of a protocol are right, however many results it lists and   *)
(* whatever their times.                                                   *)
THEOREM PlacesOfProtocols == RulesSpec => []ProtocolPlaces
BY ListsLaid, PlacesAreRight, PTL

(* A protocol lists every result once, in the table its rules say, however *)
(* many there are.                                                         *)
THEOREM ProtocolsAreWhole == RulesSpec => []ProtocolListsAll
BY ListsLaid, ProtocolsList, PTL
=============================================================================
