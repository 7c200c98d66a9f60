--------------------------------- MODULE Rules ---------------------------------
(***************************************************************************)
(* The pure rules, of seeding, ranking and protocols, against what they    *)
(* are for, over bounded inputs: pools and times are looked at in the      *)
(* first states, and every step adds a swimmer or a result.                *)
(***************************************************************************)
EXTENDS SeedingRules, Protocols, TimeText

CONSTANTS
    MaxSwimmers,  \* bound on the entries of an event to seed
    MaxPool,      \* bound on the lanes of a pool (the API takes up to 20)
    MaxListed,    \* bound on the results of an event to lay out
    ListedTimes,  \* their finish times
    MaxClock      \* bound on the times written and read, in hundredths

ASSUME RulesAssumption ==
    /\ MaxSwimmers \in Nat /\ MaxListed \in 0 .. LastPlace - 1 /\ MaxClock \in Nat
    /\ MaxPool \in 1 .. 20
    /\ ListedTimes \subseteq 1 .. Apart - 1
    /\ LastTime \notin ListedTimes  \* pages give whole hundredths of a second

VARIABLES pool, swimmers, list, clock

inputs == <<pool, swimmers, list, clock>>

(* Results with and without age group and time; of the statuses but OK,    *)
(* PK may have a time (an OK result out of competition).  The club goes    *)
(* with the status: rules see the one, and the order in a table the other. *)
Marks(s)  == CASE s = "OK" -> ListedTimes \cup {Absent}
               [] s = "PK" -> {1, Absent} [] OTHER -> {Absent}
AgeGroups == {1, 2}
Clubs(s)  == CASE s = "OK" -> {{}} [] s = "PK" -> {{1}} [] OTHER -> {{1, 2}}
Listed    == UNION {[group : AgeGroups \cup {NoGroup}, club : Clubs(s), status : {s},
                     time : Marks(s)] : s \in {"OK", "PK", "DQ"}}

(* Results come with the slowest first, and the higher age groups: every   *)
(* order asked for differs from theirs.                                    *)
Standing(r) == (Apart * Class(r.status) + TimeKey(r.time)) * 10 + r.group

RulesInit ==
    /\ pool \in 1 .. MaxPool /\ clock \in 0 .. MaxClock /\ (pool = 1 \/ clock = 0)
    /\ swimmers = 0 /\ list = <<>>

MoreSwimmers ==
    /\ list = <<>> /\ clock = 0 /\ swimmers < MaxSwimmers
    /\ swimmers' = swimmers + 1
    /\ UNCHANGED <<pool, list, clock>>

MoreResults ==
    /\ pool = 1 /\ swimmers = 0 /\ clock = 0 /\ Len(list) < MaxListed
    /\ \E r \in Listed : /\ list # <<>> => Standing(r) <= Standing(Last(list))
                         /\ list' = Append(list, r)
    /\ UNCHANGED <<pool, swimmers, clock>>

RulesNext == MoreSwimmers \/ MoreResults

RulesSpec == RulesInit /\ [][RulesNext]_inputs

-----------------------------------------------------------------------------
(* From five lanes on, the heats of an event take every swimmer, none more *)
(* than the pool has lanes, and none fewer than three if three are there:  *)
(* the second heat survives what the first one takes from it (the comment  *)
(* at seeding.service.ts:81 claims it from six lanes on).  From three      *)
(* lanes on, every rank swims in exactly one heat that fits the pool,      *)
(* better ranks in later heats, and only the two slowest heats are not     *)
(* full (seeding.service.ts:42-51, 84-94).                                 *)
HeatsFit ==
    LET sizes == HeatSizes(swimmers, pool) IN
    pool >= 3 /\ swimmers > 0 =>
      /\ Taken(sizes, 0) = swimmers /\ ~Raises(swimmers, pool)
      /\ \A a, b \in 1 .. swimmers : a < b => HeatOf(sizes, a) >= HeatOf(sizes, b)
      /\ \A h \in DOMAIN sizes :
           /\ Cardinality({a \in 1 .. swimmers : HeatOf(sizes, a) = h}) = sizes[h]
           /\ sizes[h] \in 1 .. pool
           /\ pool >= 5 /\ swimmers >= 3 => sizes[h] >= 3
           /\ h > 2 => sizes[h] = pool

(* The lanes of a heat are all lanes of the pool, each once, from the      *)
(* centre outwards with the right one first (seeding.service.ts:112-128,   *)
(* backend/tests/run-tests.ts:240-250).                                    *)
LanesFromCenter ==
    LET order   == LaneOrder(pool)
        from(i) == IF order[i] >= CenterLane(pool)
                   THEN 2 * (order[i] - CenterLane(pool)) - 1
                   ELSE 2 * (CenterLane(pool) - order[i])
    IN  /\ order = LaneLoop(pool) /\ Len(order) = pool
        /\ {order[i] : i \in 1 .. pool} = MinLane(pool) .. MaxLane(pool)
        /\ \A i, j \in 1 .. pool : i < j => from(i) < from(j)

(* Every time that is shown in whole hundredths is read back as itself,    *)
(* and other times lose what is below; but pages read one under ten        *)
(* seconds with fewer than 60 hundredths as minutes and seconds: such a    *)
(* result, saved again with its heat, is another one (utils.ts:1-32, the   *)
(* results page secretary/page.tsx:140, 267, applications/new:29-42).      *)
TimesReadBack ==
    LET text  == msToTime(10 * clock)
        short == clock < 1000 /\ clock % 100 < 60
    IN  /\ ServiceParse(text) = 10 * clock /\ msToTime(10 * clock + 9) = text
        /\ PageParse(text) = IF short THEN (clock \div 100) * Minute + (clock % 100) * Sec
                             ELSE 10 * clock

(* Heats and lanes for every pool, and times for every text.               *)
RulesFit == HeatsFit /\ LanesFromCenter /\ TimesReadBack

-----------------------------------------------------------------------------
(* Mixed formats, also with a primary age group that has been deleted, and *)
(* rules: what a condition may be that the tests evaluate.                 *)
Primaries == {1, 3}
Second    == {2}

(* Names of the age groups: their own, the same, and the common one.       *)
OwnNames == <<"A", "B">>
Namings  == {OwnNames, <<"A", "A">>, <<"A", Common>>}

Condition(f, op, array, S) == [field |-> f, operator |-> op, array |-> array, values |-> S]
Conditions ==
    {Condition(f, op, array, S) : f \in {"ageGroupId", "club"}, op \in {"EQ", "IN", "CONTAINS"},
                                  array \in {TRUE}, S \in SUBSET {{}, {1}, {1, 2}}}
    \cup {Condition(f, op, array, {t}) : f \in {"ageGroupId", "club"},
             op \in {"EQ", "IN", "CONTAINS"}, array \in {FALSE}, t \in {{}, {0}, {1}, {1, 2}}}

Block(op, S)      == [operator |-> op, conditions |-> S]
Rule(op, S, subs) == [operator |-> op, conditions |-> S, subgroups |-> subs]
Young  == Condition("ageGroupId", "EQ", FALSE, {{1}})
Either == Condition("ageGroupId", "IN", TRUE, {{1}, {2}})
InClub == Condition("club", "CONTAINS", FALSE, {{1}})
RuleLists ==
    {<<Rule(op, {Either, InClub}, {Block(op2, {Young, InClub}), Block("AND", {InClub})}),
       Rule("AND", {Young}, {})>> : op \in {"AND", "OR"}, op2 \in {"AND", "OR"}}
    \cup {<<Rule("AND", {}, {}), Rule("OR", {Either}, {}), Rule("OR", {Young}, {})>>}

Groupings == [enabled : {TRUE}, groups : RuleLists, includeUnmatched : BOOLEAN]
        \cup [enabled : {FALSE}, groups : {CHOOSE rules \in RuleLists : TRUE}, includeUnmatched : {TRUE}]
Row(f, p, second, g) == [format |-> f, primary |-> p, secondary |-> second, grouping |-> g]
Rows == {Row(f, NoGroup, {}, {}) : f \in {"SEPARATE", "COMBINED"}}
          \cup {Row("MIXED", p, {Second}, {}) : p \in Primaries}

(* A compiled condition holds of the results the one it was made of does,  *)
(* which is what the tests look at (backend/tests/run-tests.ts:447-503):   *)
(* by itself, and in the rules of a protocol.                              *)
CompiledAsTested(e) ==
    /\ \A c \in Conditions : ConditionHolds(e, CompileCondition(c)) = EvaluateCondition(e, c)
    /\ \A rules \in RuleLists, n \in 1 .. 3 :
         n \in DOMAIN rules =>
           RuleHolds(e, CompileRule(rules[n])) = EvaluateRule(e, rules[n])

ListsOnce(tables, S) ==
    LET rows(i) == {p \in tables \X DOMAIN list : p[2] \in DOMAIN p[1] /\ p[1][p[2]].of = i} IN
    \A i \in DOMAIN list : Cardinality(rows(i)) = IF i \in S THEN 1 ELSE 0

(* What a protocol by rules lists, and what its tables have together: the  *)
(* first rule that holds, 0 if none does.                                  *)
ListsByRules(tables, g) ==
    LET holds(i) == {n \in DOMAIN g.groups : EvaluateRule(list[i], g.groups[n])}
        first(i) == IF holds(i) = {} THEN 0 ELSE Min(holds(i))
    IN  /\ ListsOnce(tables, {i \in DOMAIN list : g.includeUnmatched \/ holds(i) # {}})
        /\ \A t \in tables : Cardinality({first(t[n].of) : n \in DOMAIN t}) = 1

(* A protocol has one row for every result, whatever the configuration,    *)
(* and if the age groups it names were deleted too.  By rules, those of    *)
(* the competition or, if that has chosen nothing, of who created it, a    *)
(* result is in the table of the first that holds, and what none holds of  *)
(* is left out unless it is asked for; rules that are off change nothing   *)
(* (export.controller.ts:509-601, 632-1019).                               *)
ProtocolListsAll ==
    list # <<>> =>
    /\ CompiledAsTested(Last(list))
    /\ \A row \in Rows, name \in Namings :
         ListsOnce(ProtocolOf(list, name, Resolved(row, {})), DOMAIN list)
    /\ \A g \in Groupings :
         LET c == Resolved(Row("SEPARATE", NoGroup, {}, {g}), {}) IN
         /\ Resolved(Row("SEPARATE", NoGroup, {}, {}), {[grouping |-> {g}]}) = c
         /\ IF g.enabled THEN ListsByRules(ProtocolOf(list, OwnNames, c), g)
                         ELSE ProtocolOf(list, OwnNames, c) = Separate(list, OwnNames)
    /\ \A row \in Rows, g \in Groupings :
         ~IsUntouched(FromRow(row)) =>
           Resolved(row, {[grouping |-> {g}]}) = Resolved(row, {})

Of(t) == {t[n].of : n \in DOMAIN t}
PlaceAmong(i, S) ==
    IF i \in S
    THEN 1 + Cardinality({k \in S : TimeKey(list[k].time) < TimeKey(list[i].time)})
    ELSE Absent
OwnPlace(i) == PlaceAmong(i, Timed(list, Ok(list, Group(list, list[i].group))))

(* Table t shows place, as a number up to most, and has its rows in the    *)
(* order of key.                                                           *)
WellPlaced(t, place, key, most) ==
    /\ \A n \in DOMAIN t : LET p == place[t[n].of] IN
         /\ t[n].shown = Display(p, list[t[n].of].status)
         /\ t[n].place = IF p <= most THEN p ELSE Absent
    /\ \A m, n \in DOMAIN t : LET a == t[m].of b == t[n].of IN
         m < n => /\ Class(list[a].status) <= Class(list[b].status)
                  /\ list[a].status = "OK" /\ list[b].status = "OK" => key[a] <= key[b]

Groupwise(t) == WellPlaced(t, [i \in Of(t) |-> OwnPlace(i)],
                           [i \in Of(t) |-> PlaceKey(OwnPlace(i))], Len(t))
Joint(t, most) == WellPlaced(t, [i \in Of(t) |-> PlaceAmong(i, Ok(list, Of(t)))],
                             [i \in Of(t) |-> TimeKey(list[i].time)], most)

(* A table has the results in competition first, then those out of         *)
(* competition, then the others.  A place is one more than the number of   *)
(* faster results in competition, of the age group or of the joint table:  *)
(* ties share it, and the next one counts them all.  Without a time there  *)
(* is no place in an age group, and in a joint table that of 16:39.999.    *)
(* Age groups that share a name are in one table, each with its places and *)
(* in the order of these; when all age groups are joined, the number gets  *)
(* lost from place 4 on (results.service.ts:251-258,                       *)
(* export.controller.ts:816-996).                                          *)
ProtocolPlaces ==
    /\ \A name \in Namings : \A t \in Separate(list, name) :
         /\ Groupwise(t)
         /\ \A i \in Of(t) : Group(list, list[i].group) \subseteq Of(t)
    /\ \A t \in Combined(list) : Joint(t, 3)
    /\ \A p \in Primaries : \A t \in Mixed(list, p, Second) :
         IF Of(t) = Group(list, p) THEN Groupwise(t) ELSE Joint(t, Len(t))

(* All age groups are combined into one ranking, and the places            *)
(* recalculated (the comments at export.controller.ts:529 and 845): every  *)
(* result with a time in competition has one.                              *)
CombinedGivesPlaces ==
    \A t \in Combined(list), n \in 1 .. Len(list) : LET r == list[t[n].of] IN
      r.status = "OK" /\ r.time # Absent => t[n].place # Absent
=============================================================================
