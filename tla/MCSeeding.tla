------------------------------- MODULE MCSeeding -------------------------------
(* Instances of Seeding, and of the rules it and the protocols go by, for  *)
(* TLC.  They share no state: a behaviour is one of the part that is       *)
(* chosen at first, and the other stays as it begins.                      *)
EXTENDS Seeding, Rules, TLC

VARIABLE part

SeedingInit ==
    /\ part \in {"seeding", "rules"}
    /\ Init /\ RulesInit
    /\ part = "seeding" => pool = 1 /\ clock = 0
    /\ part = "rules" => /\ time = [e \in Entries |-> NT]
                         /\ lanes = CHOOSE n \in Pools : TRUE

SeedingNext ==
    \/ part = "seeding" /\ Next /\ UNCHANGED <<part, inputs>>
    \/ part = "rules" /\ RulesNext /\ UNCHANGED <<part, vars>>

SeedingSpec == SeedingInit /\ [][SeedingNext]_<<part, vars, inputs>>

Symmetry == Permutations(Entries) \cup Permutations(Requests)
================================================================================
