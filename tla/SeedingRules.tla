----------------------------- MODULE SeedingRules -----------------------------
(***************************************************************************)
(* The rules of heat seeding: the order of the entries, the sizes of the   *)
(* heats, and the lanes of a heat from the centre outwards.  The functions *)
(* of seeding.service.ts outside of SeedingService.                        *)
(***************************************************************************)
EXTENDS Integers, Sequences, FiniteSetsExt

NT == 0   \* no entry time: null or 0

(* Times in order, those without a time last.                              *)
Before(a, b) == a # NT /\ (b = NT \/ a < b)

(* The ranks sortEntriesByRules may give: equal times are shuffled.        *)
Rankings(time) ==
    {rank \in [DOMAIN time -> 1 .. Cardinality(DOMAIN time)] :
       \A e, f \in DOMAIN time : e # f =>
         rank[e] # rank[f] /\ (Before(time[e], time[f]) => rank[e] < rank[f])}

-----------------------------------------------------------------------------
(* Heats 1 .. HeatCount: filled from the last one, which gets the fastest. *)

HeatCount(n, lanes) == Max({1, (n + lanes - 1) \div lanes})

(* Mutant: the first heat stays as it is.                                  *)
HeatSizesUnbalanced(n, lanes) ==
    [h \in 1 .. HeatCount(n, lanes) |->
       IF h = 1 THEN n - (HeatCount(n, lanes) - 1) * lanes ELSE lanes]

(* All heats are full but the first; when that one has fewer than three    *)
(* swimmers, the second gives it what is missing.                          *)
HeatSizes(n, lanes) ==
    LET last == HeatCount(n, lanes)
        full == [h \in 1 .. last |-> IF h = 1 THEN n - (last - 1) * lanes
                                     ELSE lanes]
        need == 3 - full[1]
    IN  IF last > 1 /\ n >= 3 /\ need > 0
        THEN [full EXCEPT ![1] = @ + need, ![2] = @ - need]
        ELSE full

(* The ranks that swim in heat h: those after the ranks of all later heats. *)
SizeOf(sizes, h) == IF sizes[h] > 0 THEN sizes[h] ELSE 0
Taken(sizes, h) ==
    LET last == Len(sizes)
        currentIdx[k \in 0 .. last] ==   \* placed in the last k heats
          IF k = 0 THEN 0 ELSE currentIdx[k - 1] + SizeOf(sizes, last - k + 1)
    IN  currentIdx[last - h]
HeatOf(sizes, rank) ==
    CHOOSE h \in DOMAIN sizes :
      LET before == Taken(sizes, h)
      IN  rank > before /\ rank <= before + SizeOf(sizes, h)

(* With fewer than three lanes the moved swimmers may not exist: a size    *)
(* below zero counts as none, so more are placed than there are, and the   *)
(* assignment of the swimmer behind the last one raises.                   *)
Raises(n, lanes) ==
    LET sizes == HeatSizes(n, lanes)
    IN  Taken(sizes, 0) > n

-----------------------------------------------------------------------------
(* Lanes.                                                                  *)

MinLane(lanes)    == IF lanes = 10 THEN 0 ELSE 1
MaxLane(lanes)    == IF lanes = 10 THEN 9 ELSE lanes
CenterLane(lanes) == IF lanes = 10 THEN 4 ELSE (lanes + 1) \div 2

(* One step to the right of the centre, one to the left, and so on, as far *)
(* as the pool goes, which is as far as there are lanes to give: the       *)
(* centre is chosen so.  The loop itself is LaneLoop.                      *)
LaneOrder(lanes) ==
    [i \in 1 .. lanes |-> IF i % 2 = 0 THEN CenterLane(lanes) + i \div 2
                                       ELSE CenterLane(lanes) - i \div 2]

LaneLoop(lanes) ==
    LET c == CenterLane(lanes)
        Push(order, lane) ==
          IF lane \in MinLane(lanes) .. MaxLane(lanes) /\ Len(order) < lanes
          THEN Append(order, lane) ELSE order
        zigzag[step \in 0 .. lanes] ==
          IF step = 0 THEN <<c>>
          ELSE Push(Push(zigzag[step - 1], c + step), c - step)
    IN  zigzag[lanes]

=============================================================================
