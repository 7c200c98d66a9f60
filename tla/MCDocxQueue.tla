----------------------------- MODULE MCDocxQueue -----------------------------
(* Instances of DocxQueue for TLC.                                         *)
EXTENDS DocxQueue, TLC

(* One process serves two requests at a time; the other one only works, as *)
(* worker.py does.                                                         *)
TwoInOne == {CHOOSE s \in Services : TRUE} \X {1, 2}

Symmetry == Permutations(Jobs)
=============================================================================
