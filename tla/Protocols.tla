------------------------------- MODULE Protocols -------------------------------
(***************************************************************************)
(* The result protocol of one event (ExportController): its results, in    *)
(* any order, laid out in tables by one of the formats or by rules.        *)
(*                                                                         *)
(* A result is [group, club, status, time]: its age group or none, the     *)
(* club of its athlete, the status resolveProtocolStatus gives it (PK for  *)
(* everyone out of competition, DQ for DQ, DNS and DNF) and its finish     *)
(* time or none; name gives the age groups their names.  A protocol is a   *)
(* set of tables; a row is [of, shown, place]: the result by its position, *)
(* its placeDisplay and its place.                                         *)
(***************************************************************************)
EXTENDS Ranking, SequencesExt

NoGroup   == 0
NoMark    == ""
Absent    == 0         \* no time, no place
LastPlace == 999       \* what a missing place counts as in a comparison
LastTime  == 999999    \* and a missing time, in milliseconds: 16:39.999
Apart     == 10000000  \* more than any place or time of a swim

PlaceKey(place) == IF place = Absent THEN LastPlace ELSE place
TimeKey(time)   == IF time = Absent THEN LastTime ELSE time

Class(s) == CASE s = "OK" -> 0 [] s = "PK" -> 1 [] OTHER -> 2

(* Positions S in the order of rank, equals staying as they are: the n-th  *)
(* has n - 1 of them before it.                                            *)
Precedes(p, q) == p[1] < q[1] \/ (p[1] = q[1] /\ p[2] < q[2])
SortedBy(rank, S) ==
    LET ranked    == {<<rank[i], i>> : i \in S}
        before(p) == {q \in ranked : Precedes(q, p)}
    IN  [n \in 1 .. Cardinality(S) |->
           (CHOOSE p \in ranked : Cardinality(before(p)) = n - 1)[2]]

(* By class first, and in a class by key.                                  *)
Ranked(list, S, key) == SortedBy([i \in S |-> Apart * Class(list[i].status) + key[i]], S)

Group(list, g)  == {i \in DOMAIN list : list[i].group = g}
Groups(list)    == {list[i].group : i \in DOMAIN list}
Ok(list, S)     == {i \in S : list[i].status = "OK"}
Timed(list, S)  == {i \in S : list[i].time # Absent}

(* The place a finalization has left with a result, and what it shows.     *)
StoredPlace(list) ==
    [i \in DOMAIN list |->
       LET S     == Timed(list, Ok(list, Group(list, list[i].group)))
           order == SortedBy([k \in S |-> list[k].time], S)
       IN  IF i \in S
           THEN Places([n \in DOMAIN order |-> list[order[n]].time])
                  [CHOOSE n \in DOMAIN order : order[n] = i]
           ELSE Absent]

Display(place, s) ==
    IF s # "OK" THEN s ELSE IF place = Absent THEN NoMark ELSE ToString(place)

-----------------------------------------------------------------------------
(* A row with the stored place, and the rows of S in the order of place.   *)
StoredRow(list, place, i) ==
    [of |-> i, place |-> place[i], shown |-> Display(place[i], list[i].status)]

ByPlace(list, S) ==
    LET place == StoredPlace(list)
        order == Ranked(list, S, [i \in S |-> PlaceKey(place[i])])
    IN  [n \in DOMAIN order |-> StoredRow(list, place, order[n])]

(* A table of its own for each name of an age group: those that share one  *)
(* are in one table, and one called as the results without are with these. *)
Common          == "common"
NameOf(name, g) == IF g = NoGroup THEN Common ELSE name[g]
Named(list, name, x) == {i \in DOMAIN list : NameOf(name, list[i].group) = x}

Separate(list, name) ==
    {ByPlace(list, Named(list, name, x)) : x \in {NameOf(name, g) : g \in Groups(list)}}

(* The rows of S in the order of time, with their places in it.  A missing *)
(* time shares no place with one that counts as much in the order.         *)
ByTime(list, S) ==
    LET order  == Ranked(list, S, [i \in S |-> TimeKey(list[i].time)])
        places == Places([n \in DOMAIN order |-> list[order[n]].time])
        at(n)  == IF list[order[n]].status = "OK" THEN places[n] ELSE Absent
    IN  [n \in DOMAIN order |->
           [of |-> order[n], place |-> at(n), shown |-> Display(at(n), list[order[n]].status)]]

(* All age groups in one table.  The numeric place is read back from the   *)
(* one shown, if that begins like a Roman numeral: it is up to III.        *)
Combined(list) ==
    LET rows == ByTime(list, DOMAIN list) IN
    {[n \in DOMAIN rows |->
        [rows[n] EXCEPT !.place = IF rows[n].place <= 3 THEN @ ELSE Absent]]}

(* Mutant: age groups that are in neither list are left out.               *)
MixedListed(list, primary, secondary) ==
    LET rest == {i \in DOMAIN list : list[i].group \in secondary} IN
    {ByPlace(list, S) : S \in {Group(list, p) : p \in {primary} \ {NoGroup}} \ {{}}}
      \cup {ByTime(list, S) : S \in {rest} \ {{}}}

(* The primary age group in a table of its own, and in another one those   *)
(* secondary list and all the others.  Left out: that among equals those   *)
(* of the list come first.                                                 *)
Mixed(list, primary, secondary) ==
    LET rest == DOMAIN list \ Group(list, primary) IN
    {ByPlace(list, S) : S \in {Group(list, p) : p \in {primary} \ {NoGroup}} \ {{}}}
      \cup {ByTime(list, S) : S \in {rest} \ {{}}}

-----------------------------------------------------------------------------
(* Rules.  A text is the set of its parts, so that one contains another as *)
(* a subset; it stands for all texts that differ in case.  A condition is  *)
(* [field, operator, array, values]: its value is the texts it lists, or,  *)
(* not being an array, the only one of them.                               *)
Comma == 44

Target(e, field) ==
    CASE field = "ageGroupId" -> {e.group} \ {NoGroup} [] field = "club" -> e.club

(* A value as one text: that of an array is its items with commas between. *)
Text(c) == UNION c.values \cup {p \in {Comma} : Cardinality(c.values) > 1}

(* Age groups are compared as numbers: no text is one for no age group,    *)
(* and so does the number 0 count.                                         *)
ToNumber(text)    == CASE text = {} -> NoGroup [] Cardinality(text) = 1 -> CHOOSE n \in text : TRUE
                       [] OTHER -> -1
ReadAs(field, text) == IF field = "ageGroupId" THEN ToNumber(text) ELSE text

(* A condition as it is kept for all entries: what it looks for.           *)
CompileCondition(c) ==
    [field |-> c.field, operator |-> c.operator,
     sought |-> CASE c.operator = "EQ" -> {ReadAs(c.field, Text(c))}
                  [] c.operator = "IN" -> {ReadAs(c.field, v) : v \in {t \in c.values : c.array}}
                  [] OTHER             -> {Text(c)}]

CompileBlock(b) ==
    [operator |-> b.operator, conditions |-> {CompileCondition(c) : c \in b.conditions}]
CompileRule(r) ==
    [operator |-> r.operator, conditions |-> {CompileCondition(c) : c \in r.conditions},
     subgroups |-> {CompileBlock(b) : b \in r.subgroups}]

ConditionHolds(e, k) ==
    LET target == Target(e, k.field) IN
    IF k.operator \in {"EQ", "IN"} THEN ReadAs(k.field, target) \in k.sought
                                   ELSE \E t \in k.sought : t \subseteq target

BlockHolds(e, b) ==
    /\ b.conditions # {}
    /\ IF b.operator = "OR" THEN \E c \in b.conditions : ConditionHolds(e, c)
                            ELSE \A c \in b.conditions : ConditionHolds(e, c)

(* A rule is a block with further blocks.                                  *)
RuleHolds(e, r) ==
    IF r.operator = "OR"
    THEN BlockHolds(e, r) \/ \E b \in r.subgroups : BlockHolds(e, b)
    ELSE BlockHolds(e, r) /\ \A b \in r.subgroups : BlockHolds(e, b)

(* A result goes to the first rule that holds of it, and what none holds   *)
(* of into a table of its own if it is asked for.                          *)
Advanced(list, g) ==
    LET compiled == [n \in DOMAIN g.groups |-> CompileRule(g.groups[n])]
        holds    == [i \in DOMAIN list |-> {n \in DOMAIN g.groups : RuleHolds(list[i], compiled[n])}]
        taken(n) == {i \in DOMAIN list : n \in holds[i] /\ \A m \in holds[i] : n <= m}
        rest     == {i \in DOMAIN list : holds[i] = {} /\ g.includeUnmatched}
    IN  {ByPlace(list, S) : S \in ({taken(n) : n \in DOMAIN g.groups} \cup {rest}) \ {{}}}

-----------------------------------------------------------------------------
(* The evaluation of conditions, blocks and rules as they are written,     *)
(* which nothing but the tests calls.                                      *)
EvaluateCondition(e, c) ==
    LET target == Target(e, c.field) IN
    CASE c.operator = "EQ"       -> ReadAs(c.field, target) = ReadAs(c.field, Text(c))
      [] c.operator = "IN"       -> c.array /\ \E v \in c.values :
                                      ReadAs(c.field, target) = ReadAs(c.field, v)
      [] c.operator = "CONTAINS" -> Text(c) \subseteq target

EvaluateBlock(e, b) ==
    LET values == {EvaluateCondition(e, c) : c \in b.conditions} IN
    values # {} /\ IF b.operator = "OR" THEN TRUE \in values ELSE FALSE \notin values

EvaluateRule(e, r) ==
    LET all == {EvaluateBlock(e, r)} \cup {EvaluateBlock(e, b) : b \in r.subgroups} IN
    IF r.operator = "OR" THEN TRUE \in all ELSE FALSE \notin all

-----------------------------------------------------------------------------
(* The configuration of a competition, from its columns: the list of age   *)
(* groups and the rules, which may be null, are sets of at most one.  The  *)
(* defaults of a user give their rules only.                               *)
ConfigOf(format, primary, secondary, grouping) ==
    [format    |-> IF format \in {"COMBINED", "MIXED"} THEN format ELSE "SEPARATE",
     primary   |-> primary,
     secondary |-> UNION secondary,
     grouping  |-> grouping]
FromRow(row)       == ConfigOf(row.format, row.primary, row.secondary, row.grouping)
FromDefaults(mine) == ConfigOf("SEPARATE", NoGroup, {}, mine.grouping)

IsUntouched(c) == c = ConfigOf("SEPARATE", NoGroup, {}, {})

(* The defaults of the creator, if there are any, are those of an event    *)
(* whose competition has no configuration of its own.                      *)
Resolved(row, defaults) ==
    IF IsUntouched(FromRow(row)) /\ defaults # {}
    THEN FromDefaults(CHOOSE mine \in defaults : TRUE) ELSE FromRow(row)

(* The tables of an event: by rules if there are any, or by the format.    *)
ProtocolOf(list, name, c) ==
    LET rules == {g \in c.grouping : g.enabled /\ g.groups # <<>>} IN
    CASE rules # {}            -> Advanced(list, CHOOSE g \in rules : TRUE)
      [] rules = {} /\ c.format = "SEPARATE" -> Separate(list, name)
      [] rules = {} /\ c.format = "COMBINED" -> Combined(list)
      [] rules = {} /\ c.format = "MIXED"    -> Mixed(list, c.primary, c.secondary)
=============================================================================
