------------------------------ MODULE MCResults ------------------------------
(* Instances of Results for TLC.                                           *)
EXTENDS Results, TLC

Report(s, t) == [status |-> s, time |-> t]

(* The reports secretaries make: with few of them the runs can afford more *)
(* entries or more edits.                                                  *)
TwoTimes   == {Report("OK", 1), Report("OK", 2)}
TimesOrDQ  == TwoTimes \cup {Report("DQ", 0)}
TimesOrPK  == TwoTimes \cup {Report("PK", 0)}

(* Time 1 meets the norm of a higher rank than time 2.                     *)
TierOfTime == [t \in {1, 2} |-> 3 - t]

OneGroup == [e \in Entries |-> 1]

Symmetry == Permutations(Requests) \cup Permutations(Entries)
=============================================================================
