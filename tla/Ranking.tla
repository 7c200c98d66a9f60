-------------------------------- MODULE Ranking --------------------------------
(***************************************************************************)
(* The places finalizeEvent gives in an age group.                         *)
(***************************************************************************)
EXTENDS Integers, Sequences, FiniteSets

(* Mutant: the next place does not count the ties before it.               *)
PlacesDense(times) ==
    LET place[i \in 1 .. Len(times)] ==
          IF i = 1 THEN 1
          ELSE IF times[i] = times[i - 1] THEN place[i - 1]
          ELSE place[i - 1] + 1
    IN  place

(* The loop over the times in order: currentPlace stays in a tie.          *)
Places(times) ==
    LET place[i \in 1 .. Len(times)] ==
          IF i > 1 /\ times[i] = times[i - 1] THEN place[i - 1] ELSE i
    IN  place

=============================================================================
