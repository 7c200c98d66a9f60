----------------------------- MODULE SetupProofs -----------------------------
(***************************************************************************)
(* What fills a competition, proved for every number of swimmers, events,  *)
(* imports, requests and norms: that importing a file again adds nothing,  *)
(* and an import undisturbed no second row of a name; that the tab of      *)
(* events and the table of the norms show what there is once their answers *)
(* have come; and that the pages send what they show.                      *)
(***************************************************************************)
EXTENDS MCSetup, ListLemmas, FiniteSetTheorems

-----------------------------------------------------------------------------
(* The import.  Athletes that match, and events of a name, in any table.   *)
MatchingIn(t, u, w) ==
    {a \in DOMAIN t : t[a].swimmer = w /\ (u \in Admins \/ t[a].owner = u)}
NamedIn(t, n) == {e \in DOMAIN t : t[e] = n}

MatchedBy(c) == {c.who[w] : w \in DOMAIN c.who}
ChosenBy(c)  == {c.where[n] : n \in DOMAIN c.where}

(* No id is given out twice.                                               *)
UsedGood == DOMAIN athlete \subseteq used /\ DOMAIN event \subseteq used

(* What an import has found belongs to its file, and every athlete to one  *)
(* swimmer of it.                                                          *)
SlotFits(c, ids) ==
    /\ c.file \in Files /\ DOMAIN c.group = SwimmersOf(c.file)
    /\ DOMAIN c.who \subseteq SwimmersOf(c.file)
    /\ DOMAIN c.where \subseteq EventsOf(c.file)
    /\ \A v, w \in DOMAIN c.who : c.who[v] = c.who[w] => v = w
    /\ MatchedBy(c) \cup ChosenBy(c) \subseteq ids

SlotsGood ==
    /\ clash \cup again \subseteq {i \in Imports : InFlight(i)}
    /\ \A i \in Imports : InFlight(i) => SlotFits(imp[i], used)
    /\ \A i \in again : <<imp[i].file, imp[i].user>> \in done

(* What an import has read until now.                                      *)
KnowsAthletes(c) == c.step \in {"apply", "events", "entries", "write"}
KnowsEvents(c)   == c.step \in {"entries", "write"}

(* Nobody has disturbed an import: what it has read is as it was.          *)
Undisturbed(c, gs, at, ev, en) ==
    /\ \A w \in SwimmersOf(c.file) : c.group[w] \in gs \cup {NoGroup}
    /\ KnowsAthletes(c) => \A w \in SwimmersOf(c.file) :
         /\ w \in DOMAIN c.who => c.who[w] \in MatchingIn(at, c.user, w)
         /\ w \notin DOMAIN c.who => MatchingIn(at, c.user, w) = {}
    /\ KnowsEvents(c) => \A n \in EventsOf(c.file) :
         /\ n \in DOMAIN c.where => c.where[n] \in NamedIn(ev, n)
         /\ n \notin DOMAIN c.where => NamedIn(ev, n) = {}
    /\ c.step = "write" =>
         c.pairs = {<<x.athlete, x.event>> : x \in en} \cap (MatchedBy(c) \X ChosenBy(c))

CleanGood ==
    \A i \in Imports \ clash :
      InFlight(i) => Undisturbed(imp[i], groups, athlete, event, entries)

(* The entries of a file that was imported undisturbed are there.          *)
Imported(f, u, at, ev, en) ==
    \A r \in f : \E x \in en :
      /\ x.athlete \in MatchingIn(at, u, r.swimmer)
      /\ x.event \in NamedIn(ev, r.event)

DoneGood ==
    \A f \in Files, u \in Users :
      <<f, u>> \in done => Imported(f, u, athlete, event, entries)

(* An import that repeats it finds everybody, every event and every entry, *)
(* if there are no two to choose from.                                     *)
Repeats(c, at, ev) ==
    /\ KnowsAthletes(c) => \A w \in SwimmersOf(c.file) :
         w \in DOMAIN c.who /\ c.who[w] \in MatchingIn(at, c.user, w)
    /\ KnowsEvents(c) => \A n \in EventsOf(c.file) :
         n \in DOMAIN c.where /\ c.where[n] \in NamedIn(ev, n)
    /\ c.step = "write" => \A r \in c.file :
         \/ <<c.who[r.swimmer], c.where[r.event]>> \in c.pairs
         \/ Several(MatchingIn(at, c.user, r.swimmer))
         \/ Several(NamedIn(ev, r.event))

AgainGood == \A i \in again : Repeats(imp[i], athlete, event)

(* The inductive invariant.                                                *)
ImportInv == TypeOK /\ UsedGood /\ SlotsGood /\ CleanGood /\ DoneGood /\ AgainGood

-----------------------------------------------------------------------------
(* What the operators say.                                                 *)
LEMMA WithSays ==
    ASSUME NEW f, NEW g
    PROVE  /\ DOMAIN With(f, g) = DOMAIN f \cup DOMAIN g
           /\ \A x \in DOMAIN f : With(f, g)[x] = f[x]
           /\ \A x \in DOMAIN g \ DOMAIN f : With(f, g)[x] = g[x]
BY DEF With

LEMMA PartialSays ==
    ASSUME NEW S, NEW T, NEW f
    PROVE  /\ f \in Partial(S, T) => /\ DOMAIN f \subseteq S /\ f \in [DOMAIN f -> T]
                                     /\ \A x \in DOMAIN f : f[x] \in T
           /\ \A D \in SUBSET S : f \in [D -> T] => f \in Partial(S, T)
BY DEF Partial

LEMMA NothingPartial == ASSUME NEW S, NEW T PROVE <<>> \in Partial(S, T) /\ DOMAIN <<>> = {}
<1>1. <<>> \in [{} -> T] /\ {} \in SUBSET S
  OBVIOUS
<1> QED
  BY <1>1 DEF Partial

(* A function joined with another one of the same kind.                    *)
LEMMA JoinedPartial ==
    ASSUME NEW S, NEW T, NEW f \in Partial(S, T), NEW g \in Partial(S, T)
    PROVE  With(f, g) \in Partial(S, T)
<1>1. /\ DOMAIN f \subseteq S /\ DOMAIN g \subseteq S
      /\ \A x \in DOMAIN f : f[x] \in T
      /\ \A x \in DOMAIN g : g[x] \in T
  BY PartialSays
<1>2. With(f, g) \in [DOMAIN f \cup DOMAIN g -> T]
  BY <1>1 DEF With
<1> QED
  BY <1>1, <1>2 DEF Partial

LEMMA LessPartial ==
    ASSUME NEW S, NEW T, NEW f \in Partial(S, T), NEW x, NEW g, g = Without(f, x)
    PROVE  g \in Partial(S, T) /\ DOMAIN g = DOMAIN f \ {x}
<1>1. /\ DOMAIN f \subseteq S /\ \A y \in DOMAIN f : f[y] \in T
  BY PartialSays
<1>2. g \in [DOMAIN f \ {x} -> T]
  BY <1>1 DEF Without
<1>3. DOMAIN f \ {x} \in SUBSET S
  BY <1>1
<1> QED
  BY <1>2, <1>3 DEF Partial

LEMMA FilesSay ==
    ASSUME NEW f \in Files
    PROVE  /\ SwimmersOf(f) \subseteq Swimmers /\ EventsOf(f) \subseteq EventNames
           /\ SwimmersOf(f) \subseteq Nat /\ EventsOf(f) \subseteq Nat
           /\ \A r \in f : r.swimmer \in SwimmersOf(f) /\ r.event \in EventsOf(f)
<1>1. \A r \in f : r.swimmer \in Swimmers /\ r.event \in EventNames
  BY ImportAssumption
<1>2. Swimmers \subseteq Nat /\ EventNames \subseteq Nat
  BY ImportAssumption
<1> QED
  BY <1>1, <1>2 DEF SwimmersOf, EventsOf

LEMMA NewIdsSay ==
    ASSUME NEW S, S \subseteq Nat, NEW ids, ids \subseteq Nat, NEW f \in NewIds(S, ids)
    PROVE  /\ f \in [S -> ids \ used]
           /\ \A x, y \in S : f[x] = f[y] => x = y
<1>1. f \in [S -> ids \ used] /\ \A x, y \in S : x < y => f[x] < f[y]
  BY DEF NewIds
<1>2. ASSUME NEW x \in S, NEW y \in S, f[x] = f[y]
      PROVE  x = y
  <2>1. f[x] \in Nat /\ x \in Nat /\ y \in Nat
    BY <1>1
  <2>2. ~(x < y) /\ ~(y < x)
    BY <1>1, <1>2, <2>1
  <2> QED
    BY <2>1, <2>2
<1> QED
  BY <1>1, <1>2

LEMMA IdsSay ==
    /\ AthleteIds \subseteq Nat /\ EventIds \subseteq Nat /\ GroupIds \subseteq Nat
    /\ Swimmers \subseteq Nat /\ EventNames \subseteq Nat
BY ImportAssumption

LEMMA PicksSay ==
    ASSUME NEW answer, NEW f \in Picks(answer)
    PROVE  /\ DOMAIN f = {k \in DOMAIN answer : answer[k] # {}}
           /\ \A k \in DOMAIN f : f[k] \in answer[k]
BY DEF Picks

(* What is read of the athletes and the events is one of the sets above.   *)
LEMMA MatchingSays ==
    /\ \A u, w : Matching(u, w) = MatchingIn(athlete, u, w)
    /\ \A n : Named(n) = NamedIn(event, n)
BY DEF Matching, MatchingIn, Named, NamedIn, Sees

(* Rows that are added leave what was there.                               *)
LEMMA GrowSays ==
    ASSUME NEW f, NEW g, DOMAIN f \subseteq DOMAIN g, \A x \in DOMAIN f : g[x] = f[x]
    PROVE  /\ \A u, w : MatchingIn(f, u, w) \subseteq MatchingIn(g, u, w)
           /\ \A n : NamedIn(f, n) \subseteq NamedIn(g, n)
BY DEF MatchingIn, NamedIn

(* An import.                                                              *)
LEMMA SlotSays ==
    ASSUME ImportInv, NEW i \in Imports
    PROVE  /\ imp[i].step \in Steps /\ imp[i].file \in Files \cup {{}} /\ imp[i].user \in Users
           /\ imp[i] \in Import /\ DOMAIN imp = Imports
           /\ imp[i].group \in Partial(Swimmers, GroupIds \cup {NoGroup})
           /\ imp[i].who \in Partial(Swimmers, AthleteIds)
           /\ imp[i].where \in Partial(EventNames, EventIds)
           /\ imp[i].pairs \in SUBSET (AthleteIds \X EventIds)
<1>1. imp \in [Imports -> Import]
  BY DEF ImportInv, TypeOK
<1>2. imp[i] \in Import
  BY <1>1
<1> QED
  BY <1>1, <1>2 DEF Import

LEMMA NoImportSays ==
    ASSUME Users # {}
    PROVE  NoImport \in Import /\ NoImport.step = "idle"
<1>1. (CHOOSE u \in Users : TRUE) \in Users
  OBVIOUS
<1>2. <<>> \in Partial(Swimmers, GroupIds \cup {NoGroup}) /\ <<>> \in Partial(Swimmers, AthleteIds)
      /\ <<>> \in Partial(EventNames, EventIds)
  BY NothingPartial
<1>3. {} \in Files \cup {{}} /\ {} \in SUBSET (AthleteIds \X EventIds)
  OBVIOUS
<1> QED
  BY <1>1, <1>2, <1>3 DEF NoImport, Import, Steps

LEMMA BecomesSays ==
    ASSUME ImportInv, NEW i \in Imports, NEW x \in Import, Becomes(i, x)
    PROVE  /\ imp' \in [Imports -> Import] /\ imp'[i] = x
           /\ \A k \in Imports : k # i => imp'[k] = imp[k]
<1>1. imp \in [Imports -> Import]
  BY DEF ImportInv, TypeOK
<1> QED
  BY <1>1 DEF Becomes

(* An import goes on, and the rest stays as it is.                         *)
LEMMA GoesOnGood ==
    ASSUME ImportInv, NEW i \in Imports, NEW x \in Import, Becomes(i, x), x.step # "idle",
           UNCHANGED <<draft, groups, rows, used, edits, clash, done>>,
           again' \subseteq Imports, \A k \in Imports : k # i => (k \in again' <=> k \in again),
           SlotFits(x, used), i \notin clash => Undisturbed(x, groups, athlete, event, entries),
           i \in again' => Repeats(x, athlete, event) /\ <<x.file, x.user>> \in done
    PROVE  ImportInv'
<1>1. /\ imp' \in [Imports -> Import] /\ imp'[i] = x
      /\ \A k \in Imports : k # i => imp'[k] = imp[k]
  BY BecomesSays
<1>2. UNCHANGED <<athlete, applied, event, entries>>
  BY DEF rows
<1>3. TypeOK'
  BY <1>1, <1>2 DEF ImportInv, TypeOK
<1>4. UsedGood' /\ DoneGood'
  BY <1>2 DEF ImportInv, UsedGood, DoneGood, Imported, MatchingIn, NamedIn
<1>5. SlotsGood'
  BY <1>1 DEF ImportInv, SlotsGood, InFlight, At
<1>6. CleanGood'
  BY <1>1, <1>2 DEF ImportInv, CleanGood, InFlight, At
<1>7. AgainGood'
  BY <1>1, <1>2 DEF ImportInv, AgainGood
<1> QED
  BY <1>3, <1>4, <1>5, <1>6, <1>7 DEF ImportInv

LEMMA BeginKeeps ==
    ASSUME ImportInv, NEW i \in Imports, NEW f \in Files, NEW u \in Users, Begin(i, f, u)
    PROVE  ImportInv'
<1>1. PICK g \in [SwimmersOf(f) -> groups \cup {NoGroup}] :
        Becomes(i, [NoImport EXCEPT !.step = "athletes", !.file = f, !.user = u, !.group = g])
  BY DEF Begin
<1> DEFINE x == [NoImport EXCEPT !.step = "athletes", !.file = f, !.user = u, !.group = g]
<1>2. /\ x.step = "athletes" /\ x.file = f /\ x.user = u /\ x.group = g
      /\ x.who = <<>> /\ x.where = <<>> /\ x.pairs = {}
  BY DEF NoImport
<1>3. x \in Import
  <2>1. NoImport \in Import
    BY NoImportSays
  <2>2. g \in Partial(Swimmers, GroupIds \cup {NoGroup})
    <3>1. SwimmersOf(f) \in SUBSET Swimmers /\ g \in [SwimmersOf(f) -> GroupIds \cup {NoGroup}]
      BY FilesSay DEF ImportInv, TypeOK
    <3> QED
      BY <3>1, PartialSays
  <2> QED
    BY <2>1, <2>2 DEF Import, Steps
<1> HIDE DEF x
<1>4. DOMAIN x.who = {} /\ DOMAIN x.where = {}
  BY <1>2, NothingPartial
<1>5. SlotFits(x, used)
  BY <1>2, <1>4 DEF SlotFits, MatchedBy, ChosenBy
<1>6. Undisturbed(x, groups, athlete, event, entries)
  BY <1>2 DEF Undisturbed, KnowsAthletes, KnowsEvents
<1>7. Repeats(x, athlete, event)
  BY <1>2 DEF Repeats, KnowsAthletes, KnowsEvents
<1>8. i \notin again
  BY DEF Begin, ImportInv, SlotsGood, InFlight
<1>9. /\ again' \subseteq Imports /\ \A k \in Imports : k # i => (k \in again' <=> k \in again)
      /\ i \in again' => <<f, u>> \in done
  BY <1>8 DEF Begin, ImportInv, TypeOK
<1>10. Becomes(i, x) /\ UNCHANGED <<draft, groups, rows, used, edits, clash, done>>
  BY <1>1 DEF Begin, x
<1> QED
  BY <1>2, <1>3, <1>5, <1>6, <1>7, <1>9, <1>10, GoesOnGood

(* A step of an import in flight that only reads.                          *)
LEMMA ReadsGood ==
    ASSUME ImportInv, NEW i \in Imports, NEW x \in Import, Becomes(i, x), InFlight(i),
           x.step # "idle", x.file = imp[i].file, x.user = imp[i].user,
           UNCHANGED <<draft, groups, rows, used, edits, ghost>>, SlotFits(x, used),
           Undisturbed(imp[i], groups, athlete, event, entries) =>
             Undisturbed(x, groups, athlete, event, entries),
           Repeats(imp[i], athlete, event) /\ Imported(x.file, x.user, athlete, event, entries) =>
             Repeats(x, athlete, event)
    PROVE  ImportInv'
<1>1. UNCHANGED <<clash, done, again>> /\ again \subseteq Imports
  BY DEF ghost, ImportInv, TypeOK
<1>2. i \notin clash => Undisturbed(x, groups, athlete, event, entries)
  BY DEF ImportInv, CleanGood
<1>3. i \in again => Repeats(x, athlete, event) /\ <<x.file, x.user>> \in done
  <2> SUFFICES ASSUME i \in again
               PROVE  Repeats(x, athlete, event) /\ <<x.file, x.user>> \in done
    OBVIOUS
  <2>1. <<x.file, x.user>> \in done /\ x.file \in Files /\ x.user \in Users
    BY SlotSays DEF ImportInv, SlotsGood, SlotFits
  <2>2. Imported(x.file, x.user, athlete, event, entries) /\ Repeats(imp[i], athlete, event)
    BY <2>1 DEF ImportInv, DoneGood, AgainGood
  <2> QED
    BY <2>1, <2>2
<1> QED
  BY <1>1, <1>2, <1>3, GoesOnGood

LEMMA FindAthletesKeeps ==
    ASSUME ImportInv, NEW i \in Imports, FindAthletes(i) PROVE ImportInv'
<1> DEFINE c == imp[i]
<1>1. PICK f \in Picks([w \in SwimmersOf(c.file) |-> Matching(c.user, w)]) :
        Becomes(i, [c EXCEPT !.step = "apply", !.who = f])
  BY DEF FindAthletes
<1>2. /\ DOMAIN f = {w \in SwimmersOf(c.file) : MatchingIn(athlete, c.user, w) # {}}
      /\ \A w \in DOMAIN f : f[w] \in MatchingIn(athlete, c.user, w)
  <2> DEFINE answer == [w \in SwimmersOf(c.file) |-> Matching(c.user, w)]
  <2>1. DOMAIN answer = SwimmersOf(c.file)
        /\ \A w \in SwimmersOf(c.file) : answer[w] = MatchingIn(athlete, c.user, w)
    BY MatchingSays
  <2> HIDE DEF answer
  <2>2. DOMAIN f = {k \in DOMAIN answer : answer[k] # {}} /\ \A k \in DOMAIN f : f[k] \in answer[k]
    BY PicksSay DEF answer
  <2> QED
    BY <2>1, <2>2
<1>3. InFlight(i) /\ SlotFits(c, used) /\ c \in Import /\ c.step = "athletes"
  BY SlotSays DEF FindAthletes, InFlight, At, ImportInv, SlotsGood
<1>4. /\ DOMAIN athlete \subseteq AthleteIds /\ DOMAIN athlete \subseteq used
  BY PartialSays DEF ImportInv, TypeOK, UsedGood
<1>5. /\ \A w \in DOMAIN f : f[w] \in DOMAIN athlete /\ athlete[f[w]].swimmer = w
  BY <1>2 DEF MatchingIn
<1>6. f \in Partial(Swimmers, AthleteIds)
  <2>1. DOMAIN f \in SUBSET Swimmers
    BY <1>2, <1>3, FilesSay DEF SlotFits
  <2>2. f \in [DOMAIN f -> AthleteIds]
    <3>1. f = [k \in DOMAIN f |-> f[k]]
      BY DEF Picks
    <3> QED
      BY <1>4, <1>5, <3>1
  <2> QED
    BY <2>1, <2>2, PartialSays
<1> DEFINE x == [c EXCEPT !.step = "apply", !.who = f]
<1>7. /\ x \in Import /\ x.step = "apply" /\ x.file = c.file /\ x.user = c.user /\ x.who = f
      /\ x.group = c.group /\ x.where = c.where
  BY <1>3, <1>6 DEF Import, Steps
<1>8. Becomes(i, x)
  BY <1>1
<1> HIDE DEF x
<1>9. SlotFits(x, used)
  BY <1>2, <1>3, <1>4, <1>5, <1>7 DEF SlotFits, MatchedBy, ChosenBy
<1>10. Undisturbed(c, groups, athlete, event, entries) =>
         Undisturbed(x, groups, athlete, event, entries)
  BY <1>2, <1>7 DEF Undisturbed, KnowsAthletes, KnowsEvents
<1>11. Imported(x.file, x.user, athlete, event, entries) => Repeats(x, athlete, event)
  <2> SUFFICES ASSUME Imported(x.file, x.user, athlete, event, entries),
                      NEW w \in SwimmersOf(x.file)
               PROVE  w \in DOMAIN x.who /\ x.who[w] \in MatchingIn(athlete, x.user, w)
    BY <1>7 DEF Repeats, KnowsAthletes, KnowsEvents
  <2>1. PICK r \in x.file : r.swimmer = w
    BY DEF SwimmersOf
  <2>2. MatchingIn(athlete, x.user, w) # {}
    BY <2>1 DEF Imported
  <2> QED
    BY <1>2, <1>7, <2>2
<1>12. UNCHANGED <<draft, groups, rows, used, edits, ghost>>
  BY DEF FindAthletes
<1> QED
  BY <1>3, <1>7, <1>8, <1>9, <1>10, <1>11, <1>12, ReadsGood

LEMMA ApplyKeeps == ASSUME ImportInv, NEW i \in Imports, Apply(i) PROVE ImportInv'
<1> DEFINE c == imp[i]
           x == [c EXCEPT !.step = "events"]
<1>1. InFlight(i) /\ SlotFits(c, used) /\ c \in Import /\ c.step = "apply"
  BY SlotSays DEF Apply, InFlight, At, ImportInv, SlotsGood
<1>2. /\ x \in Import /\ x.step = "events" /\ x.file = c.file /\ x.user = c.user
      /\ x.who = c.who /\ x.group = c.group /\ x.where = c.where
  BY <1>1 DEF Import, Steps
<1>3. Becomes(i, x) /\ UNCHANGED <<draft, groups, rows, used, edits, ghost>>
  BY DEF Apply
<1> HIDE DEF x
<1>4. SlotFits(x, used)
  BY <1>1, <1>2 DEF SlotFits, MatchedBy, ChosenBy
<1>5. Undisturbed(c, groups, athlete, event, entries) =>
        Undisturbed(x, groups, athlete, event, entries)
  BY <1>1, <1>2 DEF Undisturbed, KnowsAthletes, KnowsEvents
<1>6. Repeats(c, athlete, event) => Repeats(x, athlete, event)
  BY <1>1, <1>2 DEF Repeats, KnowsAthletes, KnowsEvents
<1> QED
  BY <1>1, <1>2, <1>3, <1>4, <1>5, <1>6, ReadsGood

LEMMA FindEventsKeeps == ASSUME ImportInv, NEW i \in Imports, FindEvents(i) PROVE ImportInv'
<1> DEFINE c == imp[i]
<1>1. PICK f \in Picks([n \in EventsOf(c.file) |-> Named(n)]) :
        Becomes(i, [c EXCEPT !.step = "entries", !.where = f])
  BY DEF FindEvents
<1>2. /\ DOMAIN f = {n \in EventsOf(c.file) : NamedIn(event, n) # {}}
      /\ \A n \in DOMAIN f : f[n] \in NamedIn(event, n)
  <2> DEFINE answer == [n \in EventsOf(c.file) |-> Named(n)]
  <2>1. DOMAIN answer = EventsOf(c.file)
        /\ \A n \in EventsOf(c.file) : answer[n] = NamedIn(event, n)
    BY MatchingSays
  <2> HIDE DEF answer
  <2>2. DOMAIN f = {k \in DOMAIN answer : answer[k] # {}} /\ \A k \in DOMAIN f : f[k] \in answer[k]
    BY PicksSay DEF answer
  <2> QED
    BY <2>1, <2>2
<1>3. InFlight(i) /\ SlotFits(c, used) /\ c \in Import /\ c.step = "events"
  BY SlotSays DEF FindEvents, InFlight, At, ImportInv, SlotsGood
<1>4. /\ DOMAIN event \subseteq EventIds /\ DOMAIN event \subseteq used
  BY PartialSays DEF ImportInv, TypeOK, UsedGood
<1>5. \A n \in DOMAIN f : f[n] \in DOMAIN event
  BY <1>2 DEF NamedIn
<1>6. f \in Partial(EventNames, EventIds)
  <2>1. DOMAIN f \in SUBSET EventNames
    BY <1>2, <1>3, FilesSay DEF SlotFits
  <2>2. f \in [DOMAIN f -> EventIds]
    <3>1. f = [k \in DOMAIN f |-> f[k]]
      BY DEF Picks
    <3> QED
      BY <1>4, <1>5, <3>1
  <2> QED
    BY <2>1, <2>2, PartialSays
<1> DEFINE x == [c EXCEPT !.step = "entries", !.where = f]
<1>7. /\ x \in Import /\ x.step = "entries" /\ x.file = c.file /\ x.user = c.user /\ x.where = f
      /\ x.group = c.group /\ x.who = c.who
  BY <1>3, <1>6 DEF Import, Steps
<1>8. Becomes(i, x)
  BY <1>1
<1> HIDE DEF x
<1>9. SlotFits(x, used)
  BY <1>2, <1>3, <1>4, <1>5, <1>7 DEF SlotFits, MatchedBy, ChosenBy
<1>10. Undisturbed(c, groups, athlete, event, entries) =>
         Undisturbed(x, groups, athlete, event, entries)
  BY <1>2, <1>3, <1>7 DEF Undisturbed, KnowsAthletes, KnowsEvents
<1>11. Repeats(c, athlete, event) /\ Imported(x.file, x.user, athlete, event, entries) =>
         Repeats(x, athlete, event)
  <2> SUFFICES ASSUME Repeats(c, athlete, event),
                      Imported(x.file, x.user, athlete, event, entries)
               PROVE  Repeats(x, athlete, event)
    OBVIOUS
  <2>1. ASSUME NEW n \in EventsOf(x.file)
        PROVE  n \in DOMAIN x.where /\ x.where[n] \in NamedIn(event, n)
    <3>1. PICK r \in x.file : r.event = n
      BY DEF EventsOf
    <3>2. NamedIn(event, n) # {}
      BY <3>1 DEF Imported
    <3> QED
      BY <1>2, <1>7, <3>2
  <2> QED
    BY <1>3, <1>7, <2>1 DEF Repeats, KnowsAthletes, KnowsEvents
<1>12. UNCHANGED <<draft, groups, rows, used, edits, ghost>>
  BY DEF FindEvents
<1> QED
  BY <1>3, <1>7, <1>8, <1>9, <1>10, <1>11, <1>12, ReadsGood

LEMMA FindEntriesKeeps == ASSUME ImportInv, NEW i \in Imports, FindEntries(i) PROVE ImportInv'
<1> DEFINE c == imp[i]
           found == {<<y.athlete, y.event>> : y \in entries} \cap (Matched(i) \X Chosen(i))
           x == [c EXCEPT !.step = "write", !.pairs = found]
<1>1. InFlight(i) /\ SlotFits(c, used) /\ c \in Import /\ c.step = "entries"
  BY SlotSays DEF FindEntries, InFlight, At, ImportInv, SlotsGood
<1>2. found \in SUBSET (AthleteIds \X EventIds)
  <2>1. \A y \in entries : y.athlete \in AthleteIds /\ y.event \in EventIds
    BY PartialSays DEF ImportInv, TypeOK
  <2> QED
    BY <2>1
<1>3. found = {<<y.athlete, y.event>> : y \in entries} \cap (MatchedBy(c) \X ChosenBy(c))
  BY DEF Matched, Chosen, MatchedBy, ChosenBy
<1>4. Becomes(i, x) /\ UNCHANGED <<draft, groups, rows, used, edits, ghost>>
  BY DEF FindEntries
<1> HIDE DEF found
<1>5. /\ x \in Import /\ x.step = "write" /\ x.file = c.file /\ x.user = c.user
      /\ x.who = c.who /\ x.group = c.group /\ x.where = c.where /\ x.pairs = found
  BY <1>1, <1>2 DEF Import, Steps
<1> HIDE DEF x
<1>6. SlotFits(x, used)
  BY <1>1, <1>5 DEF SlotFits, MatchedBy, ChosenBy
<1>7. MatchedBy(x) = MatchedBy(c) /\ ChosenBy(x) = ChosenBy(c)
  BY <1>5 DEF MatchedBy, ChosenBy
<1>8. Undisturbed(c, groups, athlete, event, entries) =>
        Undisturbed(x, groups, athlete, event, entries)
  <2> SUFFICES ASSUME Undisturbed(c, groups, athlete, event, entries)
               PROVE  Undisturbed(x, groups, athlete, event, entries)
    OBVIOUS
  <2>1. x.pairs = {<<y.athlete, y.event>> : y \in entries} \cap (MatchedBy(x) \X ChosenBy(x))
    BY <1>3, <1>5, <1>7
  <2> QED
    BY <1>1, <1>5, <2>1 DEF Undisturbed, KnowsAthletes, KnowsEvents
<1>9. Repeats(c, athlete, event) /\ Imported(x.file, x.user, athlete, event, entries) =>
        Repeats(x, athlete, event)
  <2> SUFFICES ASSUME Repeats(c, athlete, event),
                      Imported(x.file, x.user, athlete, event, entries)
               PROVE  Repeats(x, athlete, event)
    OBVIOUS
  <2>1. ASSUME NEW r \in x.file,
               ~Several(MatchingIn(athlete, x.user, r.swimmer)), ~Several(NamedIn(event, r.event))
        PROVE  <<x.who[r.swimmer], x.where[r.event]>> \in x.pairs
    <3>1. PICK y \in entries : /\ y.athlete \in MatchingIn(athlete, x.user, r.swimmer)
                               /\ y.event \in NamedIn(event, r.event)
      BY DEF Imported
    <3>2. r.swimmer \in SwimmersOf(c.file) /\ r.event \in EventsOf(c.file)
      BY <1>5 DEF SwimmersOf, EventsOf
    <3>3. /\ r.swimmer \in DOMAIN c.who /\ r.event \in DOMAIN c.where
          /\ c.who[r.swimmer] \in MatchingIn(athlete, c.user, r.swimmer)
          /\ c.where[r.event] \in NamedIn(event, r.event)
      BY <1>1, <3>2 DEF Repeats, KnowsAthletes, KnowsEvents
    <3>4. c.who[r.swimmer] = y.athlete /\ c.where[r.event] = y.event
      BY <1>5, <2>1, <3>1, <3>3 DEF Several
    <3>5. c.who[r.swimmer] \in MatchedBy(c) /\ c.where[r.event] \in ChosenBy(c)
      BY <3>3 DEF MatchedBy, ChosenBy
    <3> QED
      BY <1>3, <1>5, <3>4, <3>5
  <2> QED
    BY <1>1, <1>5, <2>1 DEF Repeats, KnowsAthletes, KnowsEvents
<1> QED
  BY <1>1, <1>4, <1>5, <1>6, <1>8, <1>9, ReadsGood

(* A transaction that is rolled back leaves nothing.                       *)
LEMMA QuitsGood ==
    ASSUME ImportInv, NEW i \in Imports, Becomes(i, NoImport), again' = again \ {i},
           clash' = clash \ {i}, UNCHANGED <<draft, groups, rows, used, edits, done>>
    PROVE  ImportInv'
<1>1. NoImport \in Import /\ NoImport.step = "idle"
  BY SlotSays, NoImportSays
<1>2. /\ imp' \in [Imports -> Import] /\ imp'[i] = NoImport
      /\ \A k \in Imports : k # i => imp'[k] = imp[k]
  BY <1>1, BecomesSays
<1>3. UNCHANGED <<athlete, applied, event, entries>>
  BY DEF rows
<1>4. TypeOK'
  BY <1>2, <1>3 DEF ImportInv, TypeOK
<1>5. UsedGood' /\ DoneGood'
  BY <1>3 DEF ImportInv, UsedGood, DoneGood
<1>6. SlotsGood' /\ CleanGood' /\ AgainGood'
  <2>1. again \subseteq Imports /\ clash \subseteq Imports
    BY DEF ImportInv, TypeOK
  <2>2. SlotsGood'
    BY <1>1, <1>2, <2>1 DEF ImportInv, SlotsGood, InFlight, At
  <2>3. CleanGood'
    BY <1>1, <1>2, <1>3, <2>1 DEF ImportInv, CleanGood, InFlight, At
  <2>4. AgainGood'
    BY <1>1, <1>2, <1>3, <2>1 DEF ImportInv, AgainGood
  <2> QED
    BY <2>2, <2>3, <2>4
<1> QED
  BY <1>4, <1>5, <1>6 DEF ImportInv

LEMMA RollBackKeeps ==
    ASSUME ImportInv, NEW i \in Imports, RollBack(i) \/ TimeOut(i) PROVE ImportInv'
BY QuitsGood DEF RollBack, TimeOut, Leaves

LEMMA ChangeStatusKeeps == ASSUME ImportInv, ChangeStatus PROVE ImportInv'
<1>1. UNCHANGED <<groups, athlete, applied, event, entries, used, imp, clash, done, again>>
  BY DEF ChangeStatus, rows, ghost
<1>2. TypeOK'
  BY <1>1, ImportAssumption DEF ChangeStatus, ImportInv, TypeOK
<1> QED
  BY <1>1, <1>2 DEF ImportInv, UsedGood, SlotsGood, CleanGood, DoneGood, AgainGood, InFlight, At

(* Others add rows: an import in flight is disturbed, and what was there   *)
(* is there still.                                                         *)
LEMMA StillImported ==
    ASSUME NEW f, NEW u, NEW at, NEW ev, NEW en, NEW at2, NEW ev2, NEW en2,
           DOMAIN at \subseteq DOMAIN at2, \A x \in DOMAIN at : at2[x] = at[x],
           DOMAIN ev \subseteq DOMAIN ev2, \A x \in DOMAIN ev : ev2[x] = ev[x],
           en \subseteq en2, Imported(f, u, at, ev, en)
    PROVE  Imported(f, u, at2, ev2, en2)
<1>1. \A w : MatchingIn(at, u, w) \subseteq MatchingIn(at2, u, w)
  BY DEF MatchingIn
<1>2. \A n : NamedIn(ev, n) \subseteq NamedIn(ev2, n)
  BY DEF NamedIn
<1> QED
  BY <1>1, <1>2 DEF Imported

LEMMA StillRepeats ==
    ASSUME NEW c, NEW at, NEW ev, NEW at2, NEW ev2,
           DOMAIN at \subseteq DOMAIN at2, \A x \in DOMAIN at : at2[x] = at[x],
           DOMAIN ev \subseteq DOMAIN ev2, \A x \in DOMAIN ev : ev2[x] = ev[x],
           Repeats(c, at, ev)
    PROVE  Repeats(c, at2, ev2)
<1>1. \A w : MatchingIn(at, c.user, w) \subseteq MatchingIn(at2, c.user, w)
  BY DEF MatchingIn
<1>2. \A n : NamedIn(ev, n) \subseteq NamedIn(ev2, n)
  BY DEF NamedIn
<1> QED
  BY <1>1, <1>2 DEF Repeats, Several

LEMMA AddsGood ==
    ASSUME ImportInv, TypeOK', UsedGood', used \subseteq used', UNCHANGED <<imp, done, again>>,
           clash' = {k \in Imports : InFlight(k)}, entries \subseteq entries',
           DOMAIN athlete \subseteq DOMAIN athlete',
           \A x \in DOMAIN athlete : athlete'[x] = athlete[x],
           DOMAIN event \subseteq DOMAIN event', \A x \in DOMAIN event : event'[x] = event[x]
    PROVE  ImportInv'
<1>1. SlotsGood' /\ CleanGood'
  BY DEF ImportInv, SlotsGood, CleanGood, SlotFits, InFlight, At
<1>2. DoneGood'
  <2> SUFFICES ASSUME NEW f \in Files, NEW u \in Users, <<f, u>> \in done
               PROVE  Imported(f, u, athlete', event', entries')
    BY DEF DoneGood
  <2>1. Imported(f, u, athlete, event, entries)
    BY DEF ImportInv, DoneGood
  <2> QED
    BY <2>1, StillImported
<1>3. AgainGood'
  <2> SUFFICES ASSUME NEW i \in again
               PROVE  Repeats(imp[i], athlete', event')
    BY DEF AgainGood
  <2>1. Repeats(imp[i], athlete, event)
    BY DEF ImportInv, AgainGood
  <2> QED
    BY <2>1, StillRepeats
<1> QED
  BY <1>1, <1>2, <1>3 DEF ImportInv

(* Others remove rows: nothing counts as imported any more.                *)
LEMMA DeletesGood ==
    ASSUME ImportInv, Deletes, TypeOK', DOMAIN athlete' \subseteq DOMAIN athlete,
           DOMAIN event' \subseteq DOMAIN event
    PROVE  ImportInv'
<1>1. /\ UNCHANGED <<imp, used>> /\ done' = {} /\ again' = {}
      /\ clash' = {k \in Imports : InFlight(k)}
  BY DEF Deletes, Others
<1>2. UsedGood'
  BY <1>1 DEF ImportInv, UsedGood
<1>3. SlotsGood' /\ CleanGood'
  BY <1>1 DEF ImportInv, SlotsGood, CleanGood, InFlight, At
<1>4. DoneGood' /\ AgainGood'
  BY <1>1 DEF DoneGood, AgainGood
<1> QED
  BY <1>2, <1>3, <1>4 DEF ImportInv

LEMMA TypesSay ==
    ASSUME ImportInv
    PROVE  /\ draft \in BOOLEAN /\ groups \subseteq GroupIds
           /\ athlete \in Partial(AthleteIds, [swimmer : Swimmers, owner : Users])
           /\ event \in Partial(EventIds, EventNames)
           /\ applied \subseteq DOMAIN athlete
           /\ \A x \in entries : /\ x \in [athlete : DOMAIN athlete, event : DOMAIN event,
                                           group : groups \cup {NoGroup}]
           /\ \A x, y \in entries : x.athlete = y.athlete /\ x.event = y.event => x = y
           /\ used \subseteq AthleteIds \cup EventIds \cup GroupIds
           /\ imp \in [Imports -> Import] /\ edits \in 0 .. MaxEdits
           /\ clash \subseteq Imports /\ again \subseteq Imports /\ done \subseteq Files \X Users
BY DEF ImportInv, TypeOK

LEMMA OthersSay ==
    ASSUME ImportInv, Others
    PROVE  edits' \in 0 .. MaxEdits /\ UNCHANGED imp /\ clash' = {k \in Imports : InFlight(k)}
<1>1. edits \in 0 .. MaxEdits /\ MaxEdits \in Nat
  BY TypesSay, ImportAssumption
<1> QED
  BY <1>1 DEF Others

(* A table with one row more.                                              *)
LEMMA OneMoreSays ==
    ASSUME NEW S, NEW T, NEW f \in Partial(S, T), NEW x \in S, x \notin DOMAIN f,
           NEW h \in [{x} -> T], NEW g, g = With(f, h)
    PROVE  /\ g \in Partial(S, T) /\ DOMAIN g = DOMAIN f \cup {x}
           /\ \A z \in DOMAIN f : g[z] = f[z]
<1>1. h \in Partial(S, T)
  BY DEF Partial
<1>2. With(f, h) \in Partial(S, T)
  BY <1>1, JoinedPartial
<1> QED
  BY <1>2 DEF With

LEMMA NewIdSays ==
    ASSUME NEW w \in Nat, NEW ids, ids \subseteq Nat, NEW f \in NewIds({w}, ids)
    PROVE  f[w] \in ids /\ f[w] \notin used
<1>1. f \in [{w} -> ids \ used]
  BY DEF NewIds
<1> QED
  BY <1>1

LEMMA CreateAthleteKeeps ==
    ASSUME ImportInv, NEW u \in Users, NEW w \in Swimmers, CreateAthlete(u, w) PROVE ImportInv'
<1>1. PICK new \in NewIds({w}, AthleteIds) :
        /\ athlete' = With(athlete, [x \in {new[w]} |-> [swimmer |-> w, owner |-> u]])
        /\ used' = used \cup {new[w]}
  BY DEF CreateAthlete
<1> DEFINE a == new[w]
           h == [x \in {a} |-> [swimmer |-> w, owner |-> u]]
<1>2. a \in AthleteIds /\ a \notin used
  BY IdsSay, NewIdSays
<1>3. a \notin DOMAIN athlete /\ h \in [{a} -> [swimmer : Swimmers, owner : Users]]
  BY <1>2 DEF ImportInv, UsedGood
<1>4. athlete' = With(athlete, h) /\ used' = used \cup {a}
  BY <1>1
<1> HIDE DEF a, h
<1>5. /\ athlete' \in Partial(AthleteIds, [swimmer : Swimmers, owner : Users])
      /\ DOMAIN athlete' = DOMAIN athlete \cup {a}
      /\ \A x \in DOMAIN athlete : athlete'[x] = athlete[x]
  <2> DEFINE T == [swimmer : Swimmers, owner : Users]
  <2>1. athlete \in Partial(AthleteIds, T) /\ h \in [{a} -> T]
    BY <1>3, TypesSay
  <2> HIDE DEF T
  <2>2. /\ athlete' \in Partial(AthleteIds, T) /\ DOMAIN athlete' = DOMAIN athlete \cup {a}
        /\ \A x \in DOMAIN athlete : athlete'[x] = athlete[x]
    BY ONLY <1>2, <1>3, <1>4, <2>1, OneMoreSays
  <2> QED
    BY <2>2 DEF T
<1>6. UNCHANGED <<draft, groups, applied, event, entries, done, again, imp>>
      /\ edits' \in 0 .. MaxEdits /\ clash' = {k \in Imports : InFlight(k)}
  BY OthersSay DEF CreateAthlete, Creates
<1>7. TypeOK'
  <2>1. used' \subseteq AthleteIds \cup EventIds \cup GroupIds
    BY <1>2, <1>4, TypesSay
  <2>2. /\ \A x \in entries' : x \in [athlete : DOMAIN athlete', event : DOMAIN event',
                                      group : groups' \cup {NoGroup}]
        /\ applied' \subseteq DOMAIN athlete'
    BY <1>5, <1>6, TypesSay
  <2> QED
    BY <1>5, <1>6, <2>1, <2>2, TypesSay DEF TypeOK
<1>8. UsedGood' /\ used \subseteq used'
  BY <1>4, <1>5, <1>6 DEF ImportInv, UsedGood
<1> QED
  BY <1>5, <1>6, <1>7, <1>8, AddsGood

LEMMA CreateEventKeeps ==
    ASSUME ImportInv, NEW n \in EventNames, CreateEvent(n) PROVE ImportInv'
<1>1. PICK new \in NewIds({n}, EventIds) :
        /\ event' = With(event, [x \in {new[n]} |-> n])
        /\ used' = used \cup {new[n]}
  BY DEF CreateEvent
<1> DEFINE e == new[n]
           h == [x \in {e} |-> n]
<1>2. e \in EventIds /\ e \notin used
  BY IdsSay, NewIdSays
<1>3. e \notin DOMAIN event /\ h \in [{e} -> EventNames]
  BY <1>2 DEF ImportInv, UsedGood
<1>4. event' = With(event, h) /\ used' = used \cup {e}
  BY <1>1
<1> HIDE DEF e, h
<1>5. /\ event' \in Partial(EventIds, EventNames)
      /\ DOMAIN event' = DOMAIN event \cup {e}
      /\ \A x \in DOMAIN event : event'[x] = event[x]
  <2>1. event \in Partial(EventIds, EventNames)
    BY TypesSay
  <2> QED
    BY ONLY <1>2, <1>3, <1>4, <2>1, OneMoreSays
<1>6. UNCHANGED <<draft, groups, applied, athlete, entries, done, again, imp>>
      /\ edits' \in 0 .. MaxEdits /\ clash' = {k \in Imports : InFlight(k)}
  BY OthersSay DEF CreateEvent, Creates
<1>7. TypeOK'
  <2>1. used' \subseteq AthleteIds \cup EventIds \cup GroupIds
    BY <1>2, <1>4, TypesSay
  <2>2. \A x \in entries' : x \in [athlete : DOMAIN athlete', event : DOMAIN event',
                                   group : groups' \cup {NoGroup}]
    BY <1>5, <1>6, TypesSay
  <2> QED
    BY <1>5, <1>6, <2>1, <2>2, TypesSay DEF TypeOK
<1>8. UsedGood' /\ used \subseteq used'
  BY <1>4, <1>5, <1>6 DEF ImportInv, UsedGood
<1> QED
  BY <1>5, <1>6, <1>7, <1>8, AddsGood

LEMMA CreateAgeGroupKeeps == ASSUME ImportInv, CreateAgeGroup PROVE ImportInv'
<1>1. UNCHANGED <<draft, athlete, applied, event, entries, done, again, imp>>
      /\ edits' \in 0 .. MaxEdits /\ clash' = {k \in Imports : InFlight(k)}
  BY OthersSay DEF CreateAgeGroup, Creates, rows
<1>2. PICK g \in GroupIds \ used : groups' = groups \cup {g} /\ used' = used \cup {g}
  BY DEF CreateAgeGroup
<1>3. TypeOK'
  <2>1. \A x \in entries' : x \in [athlete : DOMAIN athlete', event : DOMAIN event',
                                   group : groups' \cup {NoGroup}]
    BY <1>1, <1>2, TypesSay
  <2> QED
    BY <1>1, <1>2, <2>1, TypesSay DEF TypeOK
<1>4. UsedGood' /\ used \subseteq used'
  BY <1>1, <1>2 DEF ImportInv, UsedGood
<1> QED
  BY <1>1, <1>3, <1>4, AddsGood

LEMMA DeleteAthleteKeeps ==
    ASSUME ImportInv, NEW u \in Users, NEW a, DeleteAthlete(u, a) PROVE ImportInv'
<1>1. /\ athlete' = Without(athlete, a) /\ applied' = applied \ {a}
      /\ entries' = {x \in entries : x.athlete # a} /\ UNCHANGED <<groups, event, draft, used>>
      /\ done' = {} /\ again' = {}
  BY DEF DeleteAthlete, Deletes
<1>2. Deletes /\ UNCHANGED imp /\ edits' \in 0 .. MaxEdits
      /\ clash' = {k \in Imports : InFlight(k)}
  BY OthersSay DEF DeleteAthlete, Deletes
<1>3. /\ athlete' \in Partial(AthleteIds, [swimmer : Swimmers, owner : Users])
      /\ DOMAIN athlete' = DOMAIN athlete \ {a}
  <2>1. athlete \in Partial(AthleteIds, [swimmer : Swimmers, owner : Users])
    BY TypesSay
  <2> QED
    BY ONLY <1>1, <2>1, LessPartial
<1>4. TypeOK'
  <2>1. \A x \in entries' : x \in [athlete : DOMAIN athlete', event : DOMAIN event',
                                   group : groups' \cup {NoGroup}]
    BY <1>1, <1>3, TypesSay
  <2> QED
    BY <1>1, <1>2, <1>3, <2>1, TypesSay DEF TypeOK
<1> QED
  BY <1>1, <1>2, <1>3, <1>4, DeletesGood

LEMMA DeleteEventKeeps ==
    ASSUME ImportInv, NEW e, DeleteEvent(e) PROVE ImportInv'
<1>1. /\ event' = Without(event, e)
      /\ entries' = {x \in entries : x.event # e}
      /\ UNCHANGED <<groups, athlete, applied, draft, used>> /\ done' = {} /\ again' = {}
  BY DEF DeleteEvent, Deletes
<1>2. Deletes /\ UNCHANGED imp /\ edits' \in 0 .. MaxEdits
      /\ clash' = {k \in Imports : InFlight(k)}
  BY OthersSay DEF DeleteEvent, Deletes
<1>3. event' \in Partial(EventIds, EventNames) /\ DOMAIN event' = DOMAIN event \ {e}
  <2>1. event \in Partial(EventIds, EventNames)
    BY TypesSay
  <2> QED
    BY ONLY <1>1, <2>1, LessPartial
<1>4. TypeOK'
  <2>1. \A x \in entries' : x \in [athlete : DOMAIN athlete', event : DOMAIN event',
                                   group : groups' \cup {NoGroup}]
    BY <1>1, <1>3, TypesSay
  <2> QED
    BY <1>1, <1>2, <1>3, <2>1, TypesSay DEF TypeOK
<1> QED
  BY <1>1, <1>2, <1>3, <1>4, DeletesGood

LEMMA DeleteAgeGroupKeeps ==
    ASSUME ImportInv, NEW g, DeleteAgeGroup(g) PROVE ImportInv'
<1> DEFINE moved(x) == [x EXCEPT !.group = IF @ = g THEN NoGroup ELSE @]
<1>1. /\ groups' = groups \ {g} /\ entries' = {moved(x) : x \in entries}
      /\ UNCHANGED <<athlete, applied, event, draft, used>> /\ done' = {} /\ again' = {}
  BY DEF DeleteAgeGroup, Deletes
<1>2. Deletes /\ UNCHANGED imp /\ edits' \in 0 .. MaxEdits
      /\ clash' = {k \in Imports : InFlight(k)}
  BY OthersSay DEF DeleteAgeGroup, Deletes
<1>3. ASSUME NEW x \in entries
      PROVE  /\ moved(x) \in [athlete : DOMAIN athlete, event : DOMAIN event,
                              group : (groups \ {g}) \cup {NoGroup}]
             /\ moved(x).athlete = x.athlete /\ moved(x).event = x.event
  <2>1. x \in [athlete : DOMAIN athlete, event : DOMAIN event, group : groups \cup {NoGroup}]
    BY TypesSay
  <2> QED
    BY <2>1
<1> HIDE DEF moved
<1>4. \A x, y \in entries' : x.athlete = y.athlete /\ x.event = y.event => x = y
  <2> SUFFICES ASSUME NEW x \in entries, NEW y \in entries,
                      moved(x).athlete = moved(y).athlete, moved(x).event = moved(y).event
               PROVE  moved(x) = moved(y)
    BY <1>1
  <2>1. x = y
    BY <1>3, TypesSay
  <2> QED
    BY <2>1
<1>5. TypeOK'
  <2>1. \A x \in entries' : x \in [athlete : DOMAIN athlete', event : DOMAIN event',
                                   group : groups' \cup {NoGroup}]
    BY <1>1, <1>3
  <2> QED
    BY <1>1, <1>2, <1>4, <2>1, TypesSay DEF TypeOK
<1> QED
  BY <1>1, <1>2, <1>5, DeletesGood

(* The commit: everybody in the file has an athlete, every event is there, *)
(* and what is new of them has an id of its own.                           *)
NewRowsFit(c, a, e, who, where) ==
    /\ SlotFits(c, used)
    /\ a \in [SwimmersOf(c.file) \ DOMAIN c.who -> AthleteIds \ used]
    /\ e \in [EventsOf(c.file) \ DOMAIN c.where -> EventIds \ used]
    /\ \A v, w \in DOMAIN a : a[v] = a[w] => v = w
    /\ \A m, n \in DOMAIN e : e[m] = e[n] => m = n
    /\ DOMAIN who = SwimmersOf(c.file) /\ DOMAIN where = EventsOf(c.file)
    /\ \A w \in DOMAIN c.who : who[w] = c.who[w] /\ who[w] \in used
    /\ \A w \in DOMAIN a : who[w] = a[w]
    /\ \A n \in DOMAIN c.where : where[n] = c.where[n] /\ where[n] \in used
    /\ \A n \in DOMAIN e : where[n] = e[n]
    /\ \A v, w \in DOMAIN who : who[v] = who[w] => v = w

LEMMA NewRowsSay ==
    ASSUME ImportInv, NEW i \in Imports, At(i, "write"),
           NEW a \in NewAthletes(i), NEW e \in NewEvents(i),
           NEW who, who = With(imp[i].who, a), NEW where, where = With(imp[i].where, e)
    PROVE  NewRowsFit(imp[i], a, e, who, where)
<1> DEFINE c == imp[i]
           S == SwimmersOf(c.file) \ DOMAIN c.who
           E == EventsOf(c.file) \ DOMAIN c.where
<1>1. InFlight(i) /\ SlotFits(c, used) /\ c.file \in Files
  BY DEF At, InFlight, ImportInv, SlotsGood, SlotFits
<1>2. S \subseteq Nat /\ E \subseteq Nat /\ AthleteIds \subseteq Nat /\ EventIds \subseteq Nat
  BY <1>1, FilesSay, IdsSay
<1>3. a \in NewIds(S, AthleteIds) /\ e \in NewIds(E, EventIds)
  BY DEF NewAthletes, NewEvents
<1> HIDE DEF S, E
<1>4. a \in [S -> AthleteIds \ used] /\ \A v, w \in S : a[v] = a[w] => v = w
  BY ONLY <1>2, <1>3, NewIdsSay
<1>5. e \in [E -> EventIds \ used] /\ \A m, n \in E : e[m] = e[n] => m = n
  BY ONLY <1>2, <1>3, NewIdsSay
<1>6. /\ DOMAIN c.who \subseteq SwimmersOf(c.file) /\ DOMAIN c.where \subseteq EventsOf(c.file)
      /\ \A v, w \in DOMAIN c.who : c.who[v] = c.who[w] => v = w
      /\ \A w \in DOMAIN c.who : c.who[w] \in used
      /\ \A n \in DOMAIN c.where : c.where[n] \in used
  BY <1>1 DEF SlotFits, MatchedBy, ChosenBy
<1>7. /\ DOMAIN who = SwimmersOf(c.file)
      /\ \A w \in DOMAIN c.who : who[w] = c.who[w] /\ who[w] \in used
      /\ \A w \in S : who[w] = a[w] /\ who[w] \notin used
  BY <1>4, <1>6 DEF With, S
<1>8. /\ DOMAIN where = EventsOf(c.file)
      /\ \A n \in DOMAIN c.where : where[n] = c.where[n] /\ where[n] \in used
      /\ \A n \in E : where[n] = e[n] /\ where[n] \notin used
  BY <1>5, <1>6 DEF With, E
<1>9. \A v, w \in DOMAIN who : who[v] = who[w] => v = w
  BY <1>4, <1>6, <1>7 DEF S
<1> QED
  BY <1>1, <1>4, <1>5, <1>7, <1>8, <1>9 DEF S, E, NewRowsFit

(* The new rows, for a file with the athletes and the events it has now.   *)
EntriesFit(c, who, where, new) ==
    /\ \A x \in new : \E r \in c.file :
         /\ x = [athlete |-> who[r.swimmer], event |-> where[r.event],
                 group |-> c.group[r.swimmer]]
         /\ <<x.athlete, x.event>> \notin c.pairs
    /\ \A r \in c.file :
         \/ <<who[r.swimmer], where[r.event]>> \in c.pairs
         \/ \E x \in new : x.athlete = who[r.swimmer] /\ x.event = where[r.event]

LEMMA NewEntriesSay ==
    ASSUME NEW i, NEW who, NEW where, NEW new, new = NewEntries(i, who, where)
    PROVE  EntriesFit(imp[i], who, where, new)
<1> DEFINE row(r) == [athlete |-> who[r.swimmer], event |-> where[r.event],
                      group |-> imp[i].group[r.swimmer]]
<1>1. new = {x \in {row(r) : r \in imp[i].file} : <<x.athlete, x.event>> \notin imp[i].pairs}
  BY DEF NewEntries
<1>2. \A r : row(r).athlete = who[r.swimmer] /\ row(r).event = where[r.event]
  OBVIOUS
<1>3. \A x \in new : \E r \in imp[i].file :
        x = row(r) /\ <<x.athlete, x.event>> \notin imp[i].pairs
  <2> HIDE DEF row
  <2> QED
    BY <1>1
<1>4. ASSUME NEW r \in imp[i].file
      PROVE  \/ <<who[r.swimmer], where[r.event]>> \in imp[i].pairs
             \/ \E x \in new : x.athlete = who[r.swimmer] /\ x.event = where[r.event]
  <2>1. row(r).athlete = who[r.swimmer] /\ row(r).event = where[r.event]
    BY <1>2
  <2>2. <<row(r).athlete, row(r).event>> \notin imp[i].pairs => row(r) \in new
    <3> HIDE DEF row
    <3> QED
      BY <1>1
  <2> HIDE DEF row
  <2> QED
    BY <2>1, <2>2
<1> QED
  BY <1>3, <1>4 DEF EntriesFit

(* The database refuses nothing of an import that nobody has disturbed.    *)
LEMMA NotRefused ==
    ASSUME ImportInv, NEW i \in Imports, At(i, "write"),
           NEW a \in NewAthletes(i), NEW e \in NewEvents(i),
           NEW who, who = With(imp[i].who, a), NEW where, where = With(imp[i].where, e),
           NEW new, new = NewEntries(i, who, where),
           Undisturbed(imp[i], groups, athlete, event, entries)
    PROVE  ~Refused(i, new)
<1> DEFINE c == imp[i]
<1>0. NewRowsFit(c, a, e, who, where)
  BY NewRowsSay
<1>1. /\ SlotFits(c, used)
      /\ a \in [SwimmersOf(c.file) \ DOMAIN c.who -> AthleteIds \ used]
      /\ e \in [EventsOf(c.file) \ DOMAIN c.where -> EventIds \ used]
      /\ \A w \in DOMAIN c.who : who[w] = c.who[w]
      /\ \A w \in DOMAIN a : who[w] = a[w]
      /\ \A n \in DOMAIN c.where : where[n] = c.where[n]
      /\ \A n \in DOMAIN e : where[n] = e[n]
  BY <1>0 DEF NewRowsFit
<1>2. \A x \in new : \E r \in c.file :
        /\ x = [athlete |-> who[r.swimmer], event |-> where[r.event],
                group |-> c.group[r.swimmer]]
        /\ <<x.athlete, x.event>> \notin c.pairs
  <2>1. EntriesFit(c, who, where, new)
    BY NewEntriesSay
  <2> QED
    BY <2>1 DEF EntriesFit
<1>3. /\ \A w \in DOMAIN c.who : c.who[w] \in DOMAIN athlete
      /\ \A n \in DOMAIN c.where : c.where[n] \in DOMAIN event
      /\ \A w \in SwimmersOf(c.file) : c.group[w] \in groups \cup {NoGroup}
      /\ c.pairs = {<<y.athlete, y.event>> : y \in entries} \cap (MatchedBy(c) \X ChosenBy(c))
  BY <1>1 DEF At, Undisturbed, KnowsAthletes, KnowsEvents, MatchingIn, NamedIn, SlotFits
<1>4. Matched(i) \subseteq DOMAIN athlete /\ Chosen(i) \subseteq DOMAIN event
  BY <1>3 DEF Matched, Chosen
<1>5. ASSUME NEW x \in new
      PROVE  x.group \in groups \cup {NoGroup}
             /\ ~ \E y \in entries : x.athlete = y.athlete /\ x.event = y.event
  <2>1. PICK r \in c.file :
          /\ x = [athlete |-> who[r.swimmer], event |-> where[r.event],
                  group |-> c.group[r.swimmer]]
          /\ <<x.athlete, x.event>> \notin c.pairs
    BY <1>2
  <2>2. r.swimmer \in SwimmersOf(c.file) /\ r.event \in EventsOf(c.file)
    BY DEF SwimmersOf, EventsOf
  <2>3. ASSUME NEW y \in entries, x.athlete = y.athlete, x.event = y.event
        PROVE  FALSE
    <3>1. y.athlete \in DOMAIN athlete /\ y.event \in DOMAIN event
      BY TypesSay
    <3>2. y.athlete \in used /\ y.event \in used
      BY <3>1 DEF ImportInv, UsedGood
    <3>3. who[r.swimmer] \in used /\ where[r.event] \in used
      BY <2>1, <2>3, <3>2
    <3>4. r.swimmer \in DOMAIN c.who /\ r.event \in DOMAIN c.where
      BY <1>1, <2>2, <3>3
    <3>5. x.athlete \in MatchedBy(c) /\ x.event \in ChosenBy(c)
      BY <1>1, <2>1, <3>4 DEF MatchedBy, ChosenBy
    <3> QED
      BY <1>3, <2>1, <2>3, <3>5
  <2> QED
    BY <1>3, <2>1, <2>2, <2>3
<1> QED
  BY <1>4, <1>5 DEF Refused

(* The athletes and the events that a commit adds.                         *)
Grows(ids, T, f, a, h, g) ==
    /\ g \in Partial(ids, T)
    /\ DOMAIN g = DOMAIN f \cup {a[w] : w \in DOMAIN a}
    /\ \A x \in DOMAIN f : g[x] = f[x]
    /\ \A w \in DOMAIN a : g[a[w]] = h[a[w]]

LEMMA GrowsSays ==
    ASSUME NEW ids, NEW T, NEW f \in Partial(ids, T), NEW a,
           \A w \in DOMAIN a : a[w] \in ids /\ a[w] \notin DOMAIN f,
           NEW h \in [{a[w] : w \in DOMAIN a} -> T], NEW g, g = With(f, h)
    PROVE  Grows(ids, T, f, a, h, g)
<1> DEFINE D == {a[w] : w \in DOMAIN a}
<1>1. D \in SUBSET ids /\ D \cap DOMAIN f = {}
  OBVIOUS
<1>2. h \in [D -> T] /\ DOMAIN h = D /\ \A w \in DOMAIN a : a[w] \in D
  OBVIOUS
<1> HIDE DEF D
<1>3. h \in Partial(ids, T)
  BY <1>1, <1>2 DEF Partial
<1>4. With(f, h) \in Partial(ids, T)
  BY <1>3, JoinedPartial
<1>5. DOMAIN g = DOMAIN f \cup D /\ (\A x \in DOMAIN f : g[x] = f[x])
      /\ \A x \in D \ DOMAIN f : g[x] = h[x]
  BY <1>2 DEF With
<1>6. \A w \in DOMAIN a : g[a[w]] = h[a[w]]
  BY <1>1, <1>2, <1>5
<1> QED
  BY <1>4, <1>5, <1>6 DEF D, Grows

(* The tables after the commit of import c with the new rows a and e.      *)
AddedTo(c, a, at) ==
    /\ at \in Partial(AthleteIds, [swimmer : Swimmers, owner : Users])
    /\ DOMAIN at = DOMAIN athlete \cup {a[w] : w \in DOMAIN a}
    /\ \A x \in DOMAIN athlete : at[x] = athlete[x]
    /\ \A w \in DOMAIN a : at[a[w]] = [swimmer |-> w, owner |-> c.user]
AddedEv(e, ev) ==
    /\ ev \in Partial(EventIds, EventNames)
    /\ DOMAIN ev = DOMAIN event \cup {e[n] : n \in DOMAIN e}
    /\ \A x \in DOMAIN event : ev[x] = event[x]
    /\ \A n \in DOMAIN e : ev[e[n]] = n

LEMMA AddedAthletes ==
    ASSUME ImportInv, NEW i \in Imports, NEW a, NEW e, NEW who, NEW where,
           NewRowsFit(imp[i], a, e, who, where),
           NEW at, at = With(athlete, [x \in {a[w] : w \in DOMAIN a} |->
                               [swimmer |-> CHOOSE w \in DOMAIN a : a[w] = x,
                                owner |-> imp[i].user]])
    PROVE  AddedTo(imp[i], a, at)
<1> DEFINE T == [swimmer : Swimmers, owner : Users]
           back(x) == CHOOSE w \in DOMAIN a : a[w] = x
           h == [x \in {a[w] : w \in DOMAIN a} |-> [swimmer |-> back(x), owner |-> imp[i].user]]
<1>1. /\ DOMAIN a \subseteq Swimmers
      /\ \A w \in DOMAIN a : a[w] \in AthleteIds \ used
      /\ \A v, w \in DOMAIN a : a[v] = a[w] => v = w
  <2>1. SwimmersOf(imp[i].file) \subseteq Swimmers
    BY FilesSay DEF NewRowsFit, SlotFits
  <2> QED
    BY <2>1 DEF NewRowsFit
<1>2. \A w \in DOMAIN a : back(a[w]) = w
  BY <1>1
<1>3. imp[i].user \in Users /\ athlete \in Partial(AthleteIds, T)
      /\ DOMAIN athlete \subseteq used
  BY SlotSays, TypesSay DEF ImportInv, UsedGood
<1>4. at = With(athlete, h)
  OBVIOUS
<1> HIDE DEF back
<1>5. h \in [{a[w] : w \in DOMAIN a} -> T]
      /\ \A w \in DOMAIN a : h[a[w]] = [swimmer |-> w, owner |-> imp[i].user]
  BY <1>1, <1>2, <1>3
<1> HIDE DEF h, T
<1>6. Grows(AthleteIds, T, athlete, a, h, at)
  <2>1. \A w \in DOMAIN a : a[w] \in AthleteIds /\ a[w] \notin DOMAIN athlete
    BY <1>1, <1>3
  <2>2. /\ athlete \in Partial(AthleteIds, T) /\ at = With(athlete, h)
        /\ h \in [{a[w] : w \in DOMAIN a} -> T]
    BY <1>3, <1>4, <1>5
  <2> QED
    BY ONLY <2>1, <2>2, GrowsSays
<1> QED
  BY <1>5, <1>6 DEF T, Grows, AddedTo

LEMMA AddedEvents ==
    ASSUME ImportInv, NEW i \in Imports, NEW a, NEW e, NEW who, NEW where,
           NewRowsFit(imp[i], a, e, who, where),
           NEW ev, ev = With(event, [x \in {e[n] : n \in DOMAIN e} |->
                                       CHOOSE n \in DOMAIN e : e[n] = x])
    PROVE  AddedEv(e, ev)
<1> DEFINE back(x) == CHOOSE n \in DOMAIN e : e[n] = x
           h == [x \in {e[n] : n \in DOMAIN e} |-> back(x)]
<1>1. /\ DOMAIN e \subseteq EventNames
      /\ \A n \in DOMAIN e : e[n] \in EventIds \ used
      /\ \A m, n \in DOMAIN e : e[m] = e[n] => m = n
  <2>1. EventsOf(imp[i].file) \subseteq EventNames
    BY FilesSay DEF NewRowsFit, SlotFits
  <2> QED
    BY <2>1 DEF NewRowsFit
<1>2. \A n \in DOMAIN e : back(e[n]) = n
  BY <1>1
<1>3. event \in Partial(EventIds, EventNames) /\ DOMAIN event \subseteq used
  BY TypesSay DEF ImportInv, UsedGood
<1>4. ev = With(event, h)
  OBVIOUS
<1> HIDE DEF back
<1>5. h \in [{e[n] : n \in DOMAIN e} -> EventNames]
      /\ \A n \in DOMAIN e : h[e[n]] = n
  BY <1>1, <1>2
<1> HIDE DEF h
<1>6. Grows(EventIds, EventNames, event, e, h, ev)
  <2>1. \A n \in DOMAIN e : e[n] \in EventIds /\ e[n] \notin DOMAIN event
    BY <1>1, <1>3
  <2>2. /\ event \in Partial(EventIds, EventNames) /\ ev = With(event, h)
        /\ h \in [{e[n] : n \in DOMAIN e} -> EventNames]
    BY <1>3, <1>4, <1>5
  <2> QED
    BY ONLY <2>1, <2>2, GrowsSays
<1> QED
  BY <1>5, <1>6 DEF Grows, AddedEv

(* What a commit does.                                                     *)
Commits(i, a, e, who, where, new) ==
    /\ At(i, "write") /\ ~Refused(i, new)
    /\ a \in NewAthletes(i) /\ e \in NewEvents(i)
    /\ NewRowsFit(imp[i], a, e, who, where)
    /\ new = NewEntries(i, who, where)
    /\ AddedTo(imp[i], a, athlete') /\ AddedEv(e, event')
    /\ applied' = applied \cup {who[w] : w \in DOMAIN who}
    /\ entries' = entries \cup new
    /\ used' = used \cup {a[w] : w \in DOMAIN a} \cup {e[n] : n \in DOMAIN e}

LEMMA CommitSays ==
    ASSUME ImportInv, NEW i \in Imports, Commit(i)
    PROVE  \E a, e, who, where, new : Commits(i, a, e, who, where, new)
<1>1. PICK a \in NewAthletes(i), e \in NewEvents(i) :
        LET who   == With(imp[i].who, a)
            where == With(imp[i].where, e)
            new   == NewEntries(i, who, where)
            ids   == {a[w] : w \in DOMAIN a} \cup {e[n] : n \in DOMAIN e}
        IN  /\ ~Refused(i, new)
            /\ athlete' = With(athlete, [x \in {a[w] : w \in DOMAIN a} |->
                 [swimmer |-> CHOOSE w \in DOMAIN a : a[w] = x,
                  owner |-> imp[i].user]])
            /\ event' = With(event, [x \in {e[n] : n \in DOMAIN e} |->
                 CHOOSE n \in DOMAIN e : e[n] = x])
            /\ applied' = applied \cup {who[w] : w \in DOMAIN who}
            /\ entries' = entries \cup new
            /\ used' = used \cup ids
  BY DEF Commit
<1> DEFINE who == With(imp[i].who, a)
           where == With(imp[i].where, e)
           new == NewEntries(i, who, where)
           at == With(athlete, [x \in {a[w] : w \in DOMAIN a} |->
                   [swimmer |-> CHOOSE w \in DOMAIN a : a[w] = x, owner |-> imp[i].user]])
           ev == With(event, [x \in {e[n] : n \in DOMAIN e} |->
                   CHOOSE n \in DOMAIN e : e[n] = x])
<1>2. /\ ~Refused(i, new) /\ athlete' = at /\ event' = ev
      /\ applied' = applied \cup {who[w] : w \in DOMAIN who} /\ entries' = entries \cup new
      /\ used' = used \cup {a[w] : w \in DOMAIN a} \cup {e[n] : n \in DOMAIN e}
  BY <1>1
<1>3. At(i, "write")
  BY DEF Commit
<1>4. NewRowsFit(imp[i], a, e, who, where)
  BY <1>3, NewRowsSay
<1> HIDE DEF who, where, new
<1>5. AddedTo(imp[i], a, at)
  BY <1>4, AddedAthletes
<1>6. AddedEv(e, ev)
  BY <1>4, AddedEvents
<1> HIDE DEF at, ev
<1>8. new = NewEntries(i, who, where)
  BY DEF new
<1>9. Commits(i, a, e, who, where, new)
  BY <1>2, <1>3, <1>4, <1>5, <1>6, <1>8 DEF Commits
<1> QED
  BY <1>9

(* Everybody in the file has an athlete afterwards, and every event and    *)
(* every entry is there.                                                   *)
LEMMA CommitAdds ==
    ASSUME ImportInv, NEW i \in Imports, NEW a, NEW e, NEW who, NEW where, NEW new,
           Commits(i, a, e, who, where, new)
    PROVE  /\ used \subseteq used' /\ used' \subseteq AthleteIds \cup EventIds \cup GroupIds
           /\ DOMAIN athlete \subseteq DOMAIN athlete' /\ DOMAIN event \subseteq DOMAIN event'
           /\ \A x \in DOMAIN athlete : athlete'[x] = athlete[x]
           /\ \A x \in DOMAIN event : event'[x] = event[x]
           /\ DOMAIN athlete' \subseteq used' /\ DOMAIN event' \subseteq used'
           /\ \A w \in DOMAIN who : who[w] \in DOMAIN athlete'
           /\ \A x \in new : x \in [athlete : DOMAIN athlete', event : DOMAIN event',
                                    group : groups \cup {NoGroup}]
           /\ \A x, y \in entries' : x.athlete = y.athlete /\ x.event = y.event => x = y
<1> DEFINE c == imp[i]
<1>1. /\ NewRowsFit(c, a, e, who, where) /\ AddedTo(c, a, athlete') /\ AddedEv(e, event')
      /\ ~Refused(i, new) /\ new = NewEntries(i, who, where) /\ entries' = entries \cup new
      /\ used' = used \cup {a[w] : w \in DOMAIN a} \cup {e[n] : n \in DOMAIN e}
  BY DEF Commits
<1>2. /\ DOMAIN athlete' = DOMAIN athlete \cup {a[w] : w \in DOMAIN a}
      /\ \A x \in DOMAIN athlete : athlete'[x] = athlete[x]
      /\ DOMAIN event' = DOMAIN event \cup {e[n] : n \in DOMAIN e}
      /\ \A x \in DOMAIN event : event'[x] = event[x]
  BY <1>1 DEF AddedTo, AddedEv
<1>3. /\ \A w \in DOMAIN a : a[w] \in AthleteIds /\ who[w] = a[w]
      /\ \A n \in DOMAIN e : e[n] \in EventIds /\ where[n] = e[n]
      /\ DOMAIN a = SwimmersOf(c.file) \ DOMAIN c.who
      /\ DOMAIN e = EventsOf(c.file) \ DOMAIN c.where
      /\ DOMAIN who = SwimmersOf(c.file) /\ DOMAIN where = EventsOf(c.file)
      /\ \A w \in DOMAIN c.who : who[w] = c.who[w]
      /\ \A n \in DOMAIN c.where : where[n] = c.where[n]
      /\ \A v, w \in DOMAIN who : who[v] = who[w] => v = w
  BY <1>1 DEF NewRowsFit
<1>4. used \subseteq used' /\ used' \subseteq AthleteIds \cup EventIds \cup GroupIds
  BY <1>1, <1>3, TypesSay
<1>5. DOMAIN athlete' \subseteq used' /\ DOMAIN event' \subseteq used'
  BY <1>1, <1>2 DEF ImportInv, UsedGood
<1>6. /\ \A w \in DOMAIN c.who : c.who[w] \in DOMAIN athlete
      /\ \A x \in new : x.group \in groups \cup {NoGroup} /\ x.event \notin Chosen(i) \ DOMAIN event
      /\ \A x \in new, y \in entries : ~(x.athlete = y.athlete /\ x.event = y.event)
  BY <1>1 DEF Refused, Matched
<1>7. \A w \in DOMAIN who : who[w] \in DOMAIN athlete'
  BY <1>2, <1>3, <1>6
<1>8. \A x \in new : \E r \in c.file :
        x = [athlete |-> who[r.swimmer], event |-> where[r.event], group |-> c.group[r.swimmer]]
  <2>1. EntriesFit(c, who, where, new)
    BY <1>1, NewEntriesSay
  <2> QED
    BY <2>1 DEF EntriesFit
<1>9. \A r \in c.file : r.swimmer \in DOMAIN who /\ r.event \in DOMAIN where
  BY <1>3 DEF SwimmersOf, EventsOf
<1>10. ASSUME NEW x \in new
       PROVE  x \in [athlete : DOMAIN athlete', event : DOMAIN event',
                     group : groups \cup {NoGroup}]
  <2>1. PICK r \in c.file :
          x = [athlete |-> who[r.swimmer], event |-> where[r.event],
               group |-> c.group[r.swimmer]]
    BY <1>8
  <2>2. where[r.event] \in DOMAIN event'
    <3>1. CASE r.event \in DOMAIN e
      BY <1>2, <1>3, <3>1
    <3>2. CASE r.event \in DOMAIN c.where
      <4>1. where[r.event] \in Chosen(i)
        BY <1>3, <3>2 DEF Chosen
      <4>2. x.event = where[r.event]
        BY <2>1
      <4> QED
        BY <1>2, <1>6, <4>1, <4>2
    <3> QED
      BY <1>3, <1>9, <3>1, <3>2
  <2>3. who[r.swimmer] \in DOMAIN athlete' /\ x.group \in groups \cup {NoGroup}
    BY <1>6, <1>7, <1>9
  <2> QED
    BY <2>1, <2>2, <2>3
<1>11. \A x, y \in entries' : x.athlete = y.athlete /\ x.event = y.event => x = y
  <2>1. ASSUME NEW x \in new, NEW y \in new, x.athlete = y.athlete, x.event = y.event
        PROVE  x = y
    <3>1. PICK r \in c.file :
            x = [athlete |-> who[r.swimmer], event |-> where[r.event],
                 group |-> c.group[r.swimmer]]
      BY <1>8
    <3>2. PICK s \in c.file :
            y = [athlete |-> who[s.swimmer], event |-> where[s.event],
                 group |-> c.group[s.swimmer]]
      BY <1>8
    <3>3. r.swimmer = s.swimmer
      BY <1>3, <1>9, <2>1, <3>1, <3>2
    <3> QED
      BY <2>1, <3>1, <3>2, <3>3
  <2> QED
    BY <1>1, <1>6, <2>1, TypesSay
<1> QED
  BY <1>2, <1>4, <1>5, <1>7, <1>10, <1>11

LEMMA CommitImports ==
    ASSUME ImportInv, NEW i \in Imports, NEW a, NEW e, NEW who, NEW where, NEW new,
           Commits(i, a, e, who, where, new),
           Undisturbed(imp[i], groups, athlete, event, entries)
    PROVE  Imported(imp[i].file, imp[i].user, athlete', event', entries')
<1> DEFINE c == imp[i]
<1>1. /\ NewRowsFit(c, a, e, who, where) /\ AddedTo(c, a, athlete') /\ AddedEv(e, event')
      /\ new = NewEntries(i, who, where) /\ entries' = entries \cup new /\ c.step = "write"
  BY DEF Commits, At
<1>2. /\ DOMAIN athlete' = DOMAIN athlete \cup {a[w] : w \in DOMAIN a}
      /\ \A x \in DOMAIN athlete : athlete'[x] = athlete[x]
      /\ \A w \in DOMAIN a : athlete'[a[w]] = [swimmer |-> w, owner |-> c.user]
      /\ DOMAIN event' = DOMAIN event \cup {e[n] : n \in DOMAIN e}
      /\ \A x \in DOMAIN event : event'[x] = event[x]
      /\ \A n \in DOMAIN e : event'[e[n]] = n
  BY <1>1 DEF AddedTo, AddedEv
<1>3. /\ DOMAIN a = SwimmersOf(c.file) \ DOMAIN c.who
      /\ DOMAIN e = EventsOf(c.file) \ DOMAIN c.where
      /\ \A w \in DOMAIN a : who[w] = a[w]
      /\ \A n \in DOMAIN e : where[n] = e[n]
      /\ \A w \in DOMAIN c.who : who[w] = c.who[w]
      /\ \A n \in DOMAIN c.where : where[n] = c.where[n]
  BY <1>1 DEF NewRowsFit
<1>4. /\ \A w \in DOMAIN c.who : w \in SwimmersOf(c.file) =>
           c.who[w] \in MatchingIn(athlete, c.user, w)
      /\ \A n \in DOMAIN c.where : n \in EventsOf(c.file) => c.where[n] \in NamedIn(event, n)
      /\ c.pairs \subseteq {<<x.athlete, x.event>> : x \in entries}
  BY <1>1 DEF Undisturbed, KnowsAthletes, KnowsEvents
<1>5. ASSUME NEW w \in SwimmersOf(c.file)
      PROVE  who[w] \in MatchingIn(athlete', c.user, w)
  <2>1. CASE w \in DOMAIN a
    <3>1. who[w] \in DOMAIN athlete' /\ athlete'[who[w]] = [swimmer |-> w, owner |-> c.user]
      BY <1>2, <1>3, <2>1
    <3>2. athlete'[who[w]].swimmer = w /\ athlete'[who[w]].owner = c.user
      BY <3>1
    <3> QED
      BY <3>1, <3>2 DEF MatchingIn
  <2>2. CASE w \in DOMAIN c.who
    BY <1>2, <1>3, <1>4, <2>2 DEF MatchingIn
  <2> QED
    BY <1>3, <2>1, <2>2
<1>6. ASSUME NEW n \in EventsOf(c.file)
      PROVE  where[n] \in NamedIn(event', n)
  <2>1. CASE n \in DOMAIN e
    BY <1>2, <1>3, <2>1 DEF NamedIn
  <2>2. CASE n \in DOMAIN c.where
    BY <1>2, <1>3, <1>4, <2>2 DEF NamedIn
  <2> QED
    BY <1>3, <2>1, <2>2
<1>7. ASSUME NEW r \in c.file
      PROVE  \E x \in entries' : x.athlete = who[r.swimmer] /\ x.event = where[r.event]
  <2>1. EntriesFit(c, who, where, new)
    BY <1>1, NewEntriesSay
  <2>2. \/ <<who[r.swimmer], where[r.event]>> \in c.pairs
        \/ \E x \in new : x.athlete = who[r.swimmer] /\ x.event = where[r.event]
    BY <2>1 DEF EntriesFit
  <2> QED
    BY <1>1, <1>4, <2>2
<1>8. \A r \in c.file : r.swimmer \in SwimmersOf(c.file) /\ r.event \in EventsOf(c.file)
  BY DEF SwimmersOf, EventsOf
<1> QED
  BY <1>5, <1>6, <1>7, <1>8 DEF Imported

LEMMA CommitKeeps == ASSUME ImportInv, NEW i \in Imports, Commit(i) PROVE ImportInv'
<1>1. PICK a, e, who, where, new : Commits(i, a, e, who, where, new)
  BY CommitSays
<1>2. /\ used \subseteq used' /\ used' \subseteq AthleteIds \cup EventIds \cup GroupIds
      /\ DOMAIN athlete \subseteq DOMAIN athlete' /\ DOMAIN event \subseteq DOMAIN event'
      /\ \A x \in DOMAIN athlete : athlete'[x] = athlete[x]
      /\ \A x \in DOMAIN event : event'[x] = event[x]
      /\ DOMAIN athlete' \subseteq used' /\ DOMAIN event' \subseteq used'
      /\ \A w \in DOMAIN who : who[w] \in DOMAIN athlete'
      /\ \A x \in new : x \in [athlete : DOMAIN athlete', event : DOMAIN event',
                               group : groups \cup {NoGroup}]
      /\ \A x, y \in entries' : x.athlete = y.athlete /\ x.event = y.event => x = y
  BY <1>1, CommitAdds
<1>3. /\ applied' = applied \cup {who[w] : w \in DOMAIN who} /\ entries' = entries \cup new
      /\ athlete' \in Partial(AthleteIds, [swimmer : Swimmers, owner : Users])
      /\ event' \in Partial(EventIds, EventNames) /\ At(i, "write")
  BY <1>1 DEF Commits, AddedTo, AddedEv
<1>4. NoImport \in Import /\ NoImport.step = "idle"
  BY SlotSays, NoImportSays
<1>5. /\ imp' \in [Imports -> Import] /\ imp'[i].step = "idle"
      /\ \A k \in Imports : k # i => imp'[k] = imp[k]
  BY <1>4, BecomesSays DEF Commit, Leaves
<1>6. /\ again' = again \ {i} /\ clash' = {k \in Imports \ {i} : InFlight(k)}
      /\ done' = IF i \in clash THEN done ELSE done \cup {<<imp[i].file, imp[i].user>>}
      /\ UNCHANGED <<draft, groups, edits>>
  BY DEF Commit, Leaves
<1>7. SlotFits(imp[i], used) /\ InFlight(i) /\ imp[i].file \in Files /\ imp[i].user \in Users
  BY <1>3, SlotSays DEF ImportInv, SlotsGood, SlotFits, InFlight, At
<1>8. TypeOK'
  <2>1. \A x \in entries' : x \in [athlete : DOMAIN athlete', event : DOMAIN event',
                                   group : groups' \cup {NoGroup}]
    BY <1>2, <1>3, <1>6, TypesSay
  <2>2. applied' \subseteq DOMAIN athlete'
    BY <1>2, <1>3, TypesSay
  <2>3. clash' \subseteq Imports /\ again' \subseteq Imports /\ done' \subseteq Files \X Users
    BY <1>6, <1>7, TypesSay
  <2>4. draft' \in BOOLEAN /\ groups' \subseteq GroupIds /\ edits' \in 0 .. MaxEdits
    BY <1>6, TypesSay
  <2> QED
    BY <1>2, <1>3, <1>5, <2>1, <2>2, <2>3, <2>4 DEF TypeOK
<1>9. UsedGood'
  BY <1>2 DEF UsedGood
<1>10. SlotsGood' /\ CleanGood'
  BY <1>2, <1>5, <1>6 DEF ImportInv, SlotsGood, SlotFits, CleanGood, InFlight, At
<1>11. DoneGood'
  <2> SUFFICES ASSUME NEW f \in Files, NEW u \in Users, <<f, u>> \in done'
               PROVE  Imported(f, u, athlete', event', entries')
    BY DEF DoneGood
  <2>1. CASE <<f, u>> \in done
    <3>1. Imported(f, u, athlete, event, entries)
      BY <2>1 DEF ImportInv, DoneGood
    <3> QED
      BY <1>2, <1>3, <3>1, StillImported
  <2>2. CASE i \notin clash /\ f = imp[i].file /\ u = imp[i].user
    <3>1. Undisturbed(imp[i], groups, athlete, event, entries)
      BY <1>7, <2>2 DEF ImportInv, CleanGood
    <3> QED
      BY <1>1, <2>2, <3>1, CommitImports
  <2> QED
    BY <1>6, <2>1, <2>2
<1>12. AgainGood'
  <2> SUFFICES ASSUME NEW k \in again'
               PROVE  Repeats(imp'[k], athlete', event')
    BY DEF AgainGood
  <2>1. k \in again /\ imp'[k] = imp[k]
    BY <1>5, <1>6, TypesSay
  <2>2. Repeats(imp[k], athlete, event)
    BY <2>1 DEF ImportInv, AgainGood
  <2>3. Repeats(imp[k], athlete', event')
    BY <1>2, <2>2, StillRepeats
  <2> QED
    BY <2>1, <2>3
<1> QED
  BY <1>8, <1>9, <1>10, <1>11, <1>12 DEF ImportInv

LEMMA ImportStarts == Init => ImportInv
<1> SUFFICES ASSUME Init PROVE ImportInv
  OBVIOUS
<1>1. /\ draft = TRUE /\ groups \subseteq GroupIds /\ athlete = <<>> /\ event = <<>>
      /\ applied = {} /\ entries = {} /\ used = groups /\ edits = 0
      /\ imp = [i \in Imports |-> NoImport] /\ clash = {} /\ done = {} /\ again = {}
  BY DEF Init
<1>2. /\ <<>> \in Partial(AthleteIds, [swimmer : Swimmers, owner : Users])
      /\ <<>> \in Partial(EventIds, EventNames) /\ DOMAIN <<>> = {}
  BY NothingPartial
<1>3. NoImport \in Import /\ NoImport.step = "idle"
  BY NoImportSays, ImportAssumption
<1>4. TypeOK
  BY <1>1, <1>2, <1>3, ImportAssumption DEF TypeOK
<1>5. UsedGood
  BY <1>1, <1>2 DEF UsedGood
<1>6. SlotsGood /\ CleanGood
  BY <1>1, <1>3 DEF SlotsGood, CleanGood, InFlight, At
<1>7. DoneGood /\ AgainGood
  BY <1>1 DEF DoneGood, AgainGood
<1> QED
  BY <1>4, <1>5, <1>6, <1>7 DEF ImportInv

LEMMA ImportSteps == ImportInv /\ [Next]_vars => ImportInv'
<1> SUFFICES ASSUME ImportInv, [Next]_vars PROVE ImportInv'
  OBVIOUS
<1>1. CASE UNCHANGED vars
  <2>1. UNCHANGED <<draft, groups, athlete, applied, event, entries, used, imp, edits,
                    clash, done, again>>
    BY <1>1 DEF vars, rows, ghost
  <2> QED
    BY <2>1 DEF ImportInv, TypeOK, UsedGood, SlotsGood, CleanGood, DoneGood, AgainGood,
                InFlight, At
<1>2. ASSUME NEW i \in Imports, NEW f \in Files, NEW u \in Users, Begin(i, f, u)
      PROVE  ImportInv'
  BY <1>2, BeginKeeps
<1>3. ASSUME NEW i \in Imports,
             FindAthletes(i) \/ Apply(i) \/ FindEvents(i) \/ FindEntries(i)
      PROVE  ImportInv'
  BY <1>3, FindAthletesKeeps, ApplyKeeps, FindEventsKeeps, FindEntriesKeeps
<1>4. ASSUME NEW i \in Imports, Commit(i) \/ RollBack(i) \/ TimeOut(i)
      PROVE  ImportInv'
  BY <1>4, CommitKeeps, RollBackKeeps
<1>5. ASSUME NEW u \in Users
      PROVE  /\ \A w \in Swimmers : CreateAthlete(u, w) => ImportInv'
             /\ \A a \in DOMAIN athlete : DeleteAthlete(u, a) => ImportInv'
  BY CreateAthleteKeeps, DeleteAthleteKeeps
<1>6. /\ \A n \in EventNames : CreateEvent(n) => ImportInv'
      /\ \A e \in DOMAIN event : DeleteEvent(e) => ImportInv'
  BY CreateEventKeeps, DeleteEventKeeps
<1>7. /\ CreateAgeGroup => ImportInv'
      /\ \A g \in groups : DeleteAgeGroup(g) => ImportInv'
      /\ ChangeStatus => ImportInv'
  BY CreateAgeGroupKeeps, DeleteAgeGroupKeeps, ChangeStatusKeeps
<1> QED
  BY <1>1, <1>2, <1>3, <1>4, <1>5, <1>6, <1>7 DEF Next

(* Only the import itself ends it.                                         *)
LEMMA WhoEnds ==
    ASSUME ImportInv, [Next]_vars, NEW i \in Imports, Ends(i)
    PROVE  Commit(i) \/ UNCHANGED <<athlete, event, entries>>
<1>1. imp[i].step # "idle" /\ imp'[i].step = "idle"
  BY DEF Ends, InFlight, At
<1>2. ASSUME NEW k \in Imports, Leaves(k)
      PROVE  k = i
  BY <1>1, <1>2, SlotSays DEF Leaves, Becomes
<1>3. ASSUME NEW k \in Imports, Commit(k)
      PROVE  Commit(i)
  <2>1. k = i
    BY <1>2, <1>3 DEF Commit
  <2> QED
    BY <1>3, <2>1
<1>4. ASSUME NEW k \in Imports, RollBack(k) \/ TimeOut(k)
      PROVE  UNCHANGED <<athlete, event, entries>>
  BY <1>4 DEF RollBack, TimeOut, rows
<1>5. ASSUME NEW k \in Imports,
             \/ \E f \in Files, u \in Users : Begin(k, f, u)
             \/ FindAthletes(k) \/ Apply(k) \/ FindEvents(k) \/ FindEntries(k)
      PROVE  UNCHANGED <<athlete, event, entries>>
  BY <1>5 DEF Begin, FindAthletes, Apply, FindEvents, FindEntries, rows
<1>6. UNCHANGED imp => FALSE
  BY <1>1
<1> QED
  BY <1>3, <1>4, <1>5, <1>6
  DEF Next, vars, CreateAthlete, DeleteAthlete, CreateEvent, DeleteEvent, CreateAgeGroup,
      DeleteAgeGroup, ChangeStatus, Creates, Deletes, Others

LEMMA SameTable ==
    ASSUME NEW S, NEW T, NEW f \in Partial(S, T), NEW g \in Partial(S, T),
           DOMAIN g = DOMAIN f, \A x \in DOMAIN f : g[x] = f[x]
    PROVE  g = f
<1>1. f \in [DOMAIN f -> T] /\ g \in [DOMAIN f -> T]
  BY PartialSays
<1> QED
  BY <1>1

LEMMA ReimportStep ==
    ASSUME ImportInv, [Next]_vars, NEW i \in again, Ends(i), ~Ambiguous(i)
    PROVE  UNCHANGED <<athlete, event, entries>>
<1> DEFINE c == imp[i]
<1>0. i \in Imports
  BY TypesSay
<1>1. CASE Commit(i)
  <2>1. PICK a, e, who, where, new : Commits(i, a, e, who, where, new)
    BY <1>0, <1>1, CommitSays
  <2>2. /\ NewRowsFit(c, a, e, who, where) /\ AddedTo(c, a, athlete') /\ AddedEv(e, event')
        /\ new = NewEntries(i, who, where) /\ entries' = entries \cup new /\ c.step = "write"
    BY <2>1 DEF Commits, At
  <2>3. /\ \A w \in SwimmersOf(c.file) : w \in DOMAIN c.who
        /\ \A n \in EventsOf(c.file) : n \in DOMAIN c.where
        /\ \A r \in c.file : \/ <<c.who[r.swimmer], c.where[r.event]>> \in c.pairs
                            \/ Several(MatchingIn(athlete, c.user, r.swimmer))
                            \/ Several(NamedIn(event, r.event))
    BY <2>2 DEF ImportInv, AgainGood, Repeats, KnowsAthletes, KnowsEvents
  <2>4. /\ DOMAIN a = {} /\ DOMAIN e = {}
        /\ \A w \in SwimmersOf(c.file) : who[w] = c.who[w]
        /\ \A n \in EventsOf(c.file) : where[n] = c.where[n]
    BY <2>2, <2>3 DEF NewRowsFit
  <2>5. \A r \in c.file : r.swimmer \in SwimmersOf(c.file) /\ r.event \in EventsOf(c.file)
    BY DEF SwimmersOf, EventsOf
  <2>6. \A r \in c.file : <<c.who[r.swimmer], c.where[r.event]>> \in c.pairs
    BY <2>3, <2>5, MatchingSays DEF Ambiguous
  <2>7. new = {}
    <3> SUFFICES ASSUME NEW x \in new PROVE FALSE
      OBVIOUS
    <3>1. EntriesFit(c, who, where, new)
      BY <2>2, NewEntriesSay
    <3>2. PICK r \in c.file : /\ x = [athlete |-> who[r.swimmer], event |-> where[r.event],
                                     group |-> c.group[r.swimmer]]
                            /\ <<x.athlete, x.event>> \notin c.pairs
      BY <3>1 DEF EntriesFit
    <3>3. x.athlete = c.who[r.swimmer] /\ x.event = c.where[r.event]
      BY <2>4, <2>5, <3>2
    <3> QED
      BY <2>6, <3>2, <3>3
  <2>8. athlete' = athlete
    <3> DEFINE T == [swimmer : Swimmers, owner : Users]
    <3>1. /\ athlete \in Partial(AthleteIds, T) /\ athlete' \in Partial(AthleteIds, T)
          /\ DOMAIN athlete' = DOMAIN athlete /\ \A x \in DOMAIN athlete : athlete'[x] = athlete[x]
      BY <2>2, <2>4, TypesSay DEF AddedTo
    <3> HIDE DEF T
    <3> QED
      BY ONLY <3>1, SameTable
  <2>9. event' = event
    <3>1. /\ event \in Partial(EventIds, EventNames) /\ event' \in Partial(EventIds, EventNames)
          /\ DOMAIN event' = DOMAIN event /\ \A x \in DOMAIN event : event'[x] = event[x]
      BY <2>2, <2>4, TypesSay DEF AddedEv
    <3> QED
      BY ONLY <3>1, SameTable
  <2> QED
    BY <2>2, <2>7, <2>8, <2>9
<1> QED
  BY <1>0, <1>1, WhoEnds

LEMMA CleanStep ==
    ASSUME ImportInv, [Next]_vars, NEW i \in Imports \ clash
    PROVE  /\ ~RollBack(i)
           /\ Ends(i) =>
                /\ \A a \in DOMAIN athlete' \ DOMAIN athlete :
                     Matching(imp[i].user, athlete'[a].swimmer) = {}
                /\ \A e \in DOMAIN event' \ DOMAIN event : Named(event'[e]) = {}
<1> DEFINE c == imp[i]
<1>1. InFlight(i) => Undisturbed(c, groups, athlete, event, entries) /\ SlotFits(c, used)
  BY DEF ImportInv, CleanGood, SlotsGood
<1>2. ~RollBack(i)
  <2> SUFFICES ASSUME RollBack(i) PROVE FALSE
    OBVIOUS
  <2>1. CASE At(i, "apply") /\ ~(Matched(i) \subseteq DOMAIN athlete)
    BY <1>1, <2>1 DEF At, InFlight, Undisturbed, KnowsAthletes, SlotFits, MatchingIn, Matched
  <2>2. CASE At(i, "write")
    <3>1. PICK a \in NewAthletes(i), e \in NewEvents(i) :
            Refused(i, NewEntries(i, With(imp[i].who, a), With(imp[i].where, e)))
      BY <2>2 DEF RollBack, At
    <3>2. Undisturbed(c, groups, athlete, event, entries)
      BY <1>1, <2>2 DEF At, InFlight
    <3> QED
      BY <2>2, <3>1, <3>2, NotRefused
  <2> QED
    BY <2>1, <2>2 DEF RollBack
<1>3. ASSUME Ends(i), Commit(i)
      PROVE  /\ \A a \in DOMAIN athlete' \ DOMAIN athlete :
                  Matching(imp[i].user, athlete'[a].swimmer) = {}
             /\ \A e \in DOMAIN event' \ DOMAIN event : Named(event'[e]) = {}
  <2>1. PICK a, e, who, where, new : Commits(i, a, e, who, where, new)
    BY <1>3, CommitSays
  <2>2. /\ NewRowsFit(c, a, e, who, where) /\ AddedTo(c, a, athlete') /\ AddedEv(e, event')
        /\ c.step = "write"
    BY <2>1 DEF Commits, At
  <2>3. /\ \A w \in SwimmersOf(c.file) : w \notin DOMAIN c.who =>
             MatchingIn(athlete, c.user, w) = {}
        /\ \A n \in EventsOf(c.file) : n \notin DOMAIN c.where => NamedIn(event, n) = {}
    BY <1>1, <2>2 DEF At, InFlight, Undisturbed, KnowsAthletes, KnowsEvents
  <2>4. /\ DOMAIN a = SwimmersOf(c.file) \ DOMAIN c.who
        /\ DOMAIN e = EventsOf(c.file) \ DOMAIN c.where
    BY <2>2 DEF NewRowsFit
  <2>5. ASSUME NEW x \in DOMAIN athlete' \ DOMAIN athlete
        PROVE  Matching(imp[i].user, athlete'[x].swimmer) = {}
    <3>1. PICK w \in DOMAIN a : x = a[w] /\ athlete'[x] = [swimmer |-> w, owner |-> c.user]
      BY <2>2 DEF AddedTo
    <3>2. athlete'[x].swimmer = w
      BY <3>1
    <3> QED
      BY <2>3, <2>4, <3>2, MatchingSays
  <2>6. ASSUME NEW x \in DOMAIN event' \ DOMAIN event
        PROVE  Named(event'[x]) = {}
    <3>1. PICK n \in DOMAIN e : x = e[n] /\ event'[x] = n
      BY <2>2 DEF AddedEv
    <3> QED
      BY <2>3, <2>4, <3>1, MatchingSays
  <2> QED
    BY <2>5, <2>6
<1> QED
  BY <1>2, <1>3, WhoEnds

(* What imports in flight have read is what there is, until somebody comes *)
(* between, and ids are given out once (athletes.service.ts:565-708).      *)
THEOREM ImportInvariance == Spec => []ImportInv
<1>1. Init => ImportInv
  BY ImportStarts
<1>2. ImportInv /\ [Next]_vars => ImportInv'
  BY ImportSteps
<1> QED
  BY <1>1, <1>2, PTL DEF Spec

-----------------------------------------------------------------------------
(* The page of the norms.  Is there a request that will bring the rows     *)
(* there are, after the k-th answer on its way?                            *)
Unread(k) ==
    \E j \in DOMAIN asks : asks[j].step = "read" \/ (asks[j].step = "answer" /\ j > k)

AsksGood ==
    \A i \in DOMAIN asks : asks[i].step = "answer" /\ ~asks[i].late =>
      asks[i].rows = norms \/ Unread(i)

TableGood == lag \/ table = norms \/ Unread(0)

(* The inductive invariant.                                                *)
NormInv == NormTypeOK /\ FormIsOfItsRow /\ AsksGood /\ TableGood

LEMMA TablesSay ==
    ASSUME NEW f
    PROVE  /\ f \in Tables => /\ DOMAIN f \subseteq 1 .. MaxNorms /\ f \in [DOMAIN f -> NormRow]
                              /\ \A n \in DOMAIN f : f[n] \in NormRow
           /\ \A ids \in SUBSET (1 .. MaxNorms) : f \in [ids -> NormRow] => f \in Tables
BY DEF Tables

LEMMA NormStartTypes ==
    /\ NoRows \in Tables /\ NewForm \in Desk /\ NewForm.id = NewForm.filled
    /\ 0 \in Ids /\ FirstRow \in NormRow
<1>1. MaxNorms \in Nat /\ FirstRow \in NormRow
  BY NormAssumption
<1>2. NoRows \in [{} -> NormRow]
  BY DEF NoRows
<1>3. NoRows \in Tables
  BY <1>2, TablesSay
<1> QED
  BY <1>1, <1>3 DEF NewForm, Desk, Ids

LEMMA NormTypes ==
    ASSUME NormInv
    PROVE  /\ section \in {"wa", "ua"} /\ norms \in Tables /\ table \in Tables
           /\ created \in 0 .. MaxNorms /\ desk \in Desk /\ lag \in BOOLEAN
           /\ asks \in Seq(Ask) /\ Len(asks) \in Nat /\ DOMAIN asks = 1 .. Len(asks)
           /\ \A i \in DOMAIN asks : asks[i] \in Ask
BY DEF NormInv, NormTypeOK

(* What the tables make of a request are tables.                           *)
LEMMA WriteRowTyped ==
    ASSUME NormInv, NEW c \in Ask, WriteRow(c)
    PROVE  norms' \in Tables /\ created' \in 0 .. MaxNorms
<1>1. /\ DOMAIN norms \subseteq 1 .. MaxNorms /\ \A n \in DOMAIN norms : norms[n] \in NormRow
      /\ created \in 0 .. MaxNorms /\ MaxNorms \in Nat /\ c.row \in NormRow
  BY NormTypes, TablesSay, NormAssumption DEF Ask
<1>2. CASE c.op = "remove" /\ norms' = [n \in DOMAIN norms \ {c.id} |-> norms[n]]
           /\ UNCHANGED created
  <2>1. norms' \in [DOMAIN norms \ {c.id} -> NormRow]
    BY <1>1, <1>2
  <2>2. DOMAIN norms \ {c.id} \in SUBSET (1 .. MaxNorms)
    BY <1>1
  <2> QED
    BY <1>1, <1>2, <2>1, <2>2, TablesSay
<1>3. CASE norms' = [norms EXCEPT ![c.id] = c.row] /\ UNCHANGED created
  <2>1. norms' \in [DOMAIN norms -> NormRow]
    BY <1>1, <1>3, NormTypes, TablesSay
  <2> QED
    BY <1>1, <1>3, <2>1, TablesSay
<1>4. CASE /\ norms' = [n \in DOMAIN norms |->
                         IF norms[n].key = c.row.key THEN c.row ELSE norms[n]]
           /\ UNCHANGED created
  <2>1. norms' \in [DOMAIN norms -> NormRow]
    BY <1>1, <1>4
  <2> QED
    BY <1>1, <1>4, <2>1, TablesSay
<1>5. CASE /\ created < MaxNorms /\ created' = created + 1
           /\ norms' = [n \in DOMAIN norms \cup {created'} |->
                         IF n = created' THEN c.row ELSE norms[n]]
  <2>1. created' \in 1 .. MaxNorms
    BY <1>1, <1>5
  <2>2. norms' \in [DOMAIN norms \cup {created'} -> NormRow]
    BY <1>1, <1>5
  <2>3. DOMAIN norms \cup {created'} \in SUBSET (1 .. MaxNorms)
    BY <1>1, <2>1
  <2> QED
    BY <2>1, <2>2, <2>3, TablesSay
<1> QED
  BY <1>2, <1>3, <1>4, <1>5 DEF WriteRow

LEMMA AllLateSays ==
    ASSUME NEW s \in Seq(Ask)
    PROVE  /\ AllLate(s) \in Seq(Ask) /\ Len(AllLate(s)) = Len(s)
           /\ \A n \in 1 .. Len(s) :
                /\ AllLate(s)[n].step = s[n].step
                /\ AllLate(s)[n].step = "answer" => AllLate(s)[n].late
<1> DEFINE F == [n \in DOMAIN s |-> [s[n] EXCEPT !.late = @ \/ s[n].step = "answer"]]
<1>1. /\ DOMAIN s = 1 .. Len(s) /\ Len(s) \in Nat /\ \A n \in 1 .. Len(s) : s[n] \in Ask
  OBVIOUS
<1>2. \A n \in 1 .. Len(s) : /\ F[n] \in Ask /\ F[n].step = s[n].step
                             /\ F[n].step = "answer" => F[n].late
  BY <1>1 DEF Ask
<1>3. F \in Seq(Ask) /\ Len(F) = Len(s)
  <2>1. F \in [1 .. Len(s) -> Ask]
    BY <1>1, <1>2
  <2> HIDE DEF F
  <2> QED
    BY <1>1, <2>1
<1>4. AllLate(s) = F
  BY DEF AllLate
<1> HIDE DEF F
<1> QED
  BY <1>2, <1>3, <1>4

(* A step of the form, or of the user's, that asks for nothing.            *)
LEMMA DeskKeeps ==
    ASSUME NormInv, desk' \in Desk, FormIsOfItsRow',
           UNCHANGED <<section, norms, created, table, asks, lag>>
    PROVE  NormInv'
BY DEF NormInv, NormTypeOK, AsksGood, TableGood, Unread

LEMMA FormStepsKeep ==
    ASSUME NormInv, NEW id, Edit(id) \/ EditCard(id) \/ CancelEdit
    PROVE  NormInv'
<1>1. \A n \in DOMAIN table : table[n] \in NormRow /\ n \in Ids
  BY NormTypes, TablesSay, NormAssumption DEF Ids
<1>2. desk \in Desk
  BY NormTypes
<1>3. desk' \in Desk /\ FormIsOfItsRow'
  <2>1. CASE Edit(id)
    BY <1>1, <2>1 DEF Edit, Desk, FormIsOfItsRow
  <2>2. CASE EditCard(id)
    <3>1. /\ id \in DOMAIN table
          /\ desk' = [desk EXCEPT !.row = table[id], !.filled = id, !.card = TRUE]
      BY <2>2 DEF EditCard
    <3>2. table[id] \in NormRow /\ id \in Ids
      BY <1>1, <3>1
    <3> QED
      BY <1>2, <3>1, <3>2 DEF Desk, FormIsOfItsRow
  <2>3. CASE CancelEdit
    BY <2>3, NormStartTypes DEF CancelEdit, Cleaned, FormIsOfItsRow
  <2> QED
    BY <2>1, <2>2, <2>3
<1> QED
  BY <1>3, DeskKeeps DEF Edit, EditCard, CancelEdit

LEMMA FillKeeps == ASSUME NormInv, NEW row \in NormRow, Fill(row) PROVE NormInv'
<1>1. desk \in Desk /\ (desk.card \/ desk.id = desk.filled)
  BY NormTypes DEF NormInv, FormIsOfItsRow
<1>2. desk' \in Desk /\ FormIsOfItsRow'
  BY <1>1 DEF Fill, Desk, FormIsOfItsRow
<1> QED
  BY <1>2, DeskKeeps DEF Fill

(* A request is put first.                                                 *)
LEMMA NormAsked ==
    ASSUME NormInv, NEW x \in Ask, x.step = "write", asks' = <<x>> \o asks,
           UNCHANGED <<section, norms, created, table, desk, lag>>
    PROVE  NormInv'
<1>1. /\ asks' \in Seq(Ask) /\ Len(asks') = Len(asks) + 1 /\ asks'[1] = x
      /\ \A m \in 2 .. Len(asks) + 1 : asks'[m] = asks[m - 1]
  BY NormTypes, PutFirstSays
<1>2. Len(asks) \in Nat /\ DOMAIN asks = 1 .. Len(asks) /\ DOMAIN asks' = 1 .. Len(asks) + 1
  BY <1>1, NormTypes
<1>3. \A j \in DOMAIN asks : j + 1 \in DOMAIN asks' /\ asks'[j + 1] = asks[j]
  BY <1>1, <1>2
<1>4. \A k \in 0 .. Len(asks) : Unread(k) => Unread(k + 1)' /\ Unread(0)'
  <2> SUFFICES ASSUME NEW k \in 0 .. Len(asks), NEW j \in DOMAIN asks,
                      asks[j].step = "read" \/ (asks[j].step = "answer" /\ j > k)
               PROVE  Unread(k + 1)' /\ Unread(0)'
    BY DEF Unread
  <2>1. j + 1 \in DOMAIN asks' /\ asks'[j + 1] = asks[j] /\ (j > k => j + 1 > k + 1) /\ j + 1 > 0
    BY <1>2, <1>3
  <2> QED
    BY <2>1 DEF Unread
<1>5. AsksGood'
  <2> SUFFICES ASSUME NEW m \in DOMAIN asks', asks'[m].step = "answer", ~asks'[m].late
               PROVE  asks'[m].rows = norms' \/ Unread(m)'
    BY DEF AsksGood
  <2>1. m - 1 \in 1 .. Len(asks) /\ asks'[m] = asks[m - 1] /\ (m - 1) + 1 = m
    BY <1>1, <1>2
  <2>2. asks[m - 1].rows = norms \/ Unread(m - 1)
    BY <1>2, <2>1 DEF NormInv, AsksGood
  <2>3. Unread(m - 1) => Unread((m - 1) + 1)'
    BY <1>2, <1>4, <2>1
  <2> QED
    BY <2>1, <2>2, <2>3
<1>6. TableGood'
  BY <1>2, <1>4 DEF NormInv, TableGood
<1> QED
  BY <1>1, <1>5, <1>6 DEF NormInv, NormTypeOK, FormIsOfItsRow

LEMMA SubmitKeeps == ASSUME NormInv, Submit PROVE NormInv'
<1>1. desk.id \in Ids /\ desk.row \in NormRow
  BY NormTypes DEF Desk
<1> DEFINE x == Asking("save", desk.id, desk.row, TRUE, "write")
<1>2. x \in Ask /\ x.step = "write"
  BY <1>1, NormStartTypes DEF Asking, Ask
<1>3. asks' = <<x>> \o asks /\ UNCHANGED <<section, norms, created, table, desk, lag>>
  BY DEF Submit
<1> HIDE DEF x
<1> QED
  BY <1>2, <1>3, NormAsked

LEMMA RemoveNormKeeps ==
    ASSUME NormInv, NEW id \in 1 .. MaxNorms, RemoveNorm(id) PROVE NormInv'
<1>1. id \in Ids /\ FirstRow \in NormRow /\ (desk.id = id) \in BOOLEAN
  BY NormAssumption DEF Ids
<1> DEFINE x == Asking("remove", id, FirstRow, desk.id = id, "write")
<1>2. x \in Ask /\ x.step = "write"
  BY <1>1, NormStartTypes DEF Asking, Ask
<1>3. asks' = <<x>> \o asks /\ UNCHANGED <<section, norms, created, table, desk, lag>>
  BY DEF RemoveNorm
<1> HIDE DEF x
<1> QED
  BY <1>2, <1>3, NormAsked

LEMMA WritesKeeps == ASSUME NormInv, NEW i \in DOMAIN asks, Writes(i) PROVE NormInv'
<1> DEFINE x == Asking("load", 0, FirstRow, asks[i].closes, "read")
<1>1. asks[i] \in Ask /\ asks[i].closes \in BOOLEAN
  BY NormTypes DEF Ask
<1>2. x \in Ask /\ x.step = "read"
  BY <1>1, NormStartTypes DEF Asking, Ask
<1>3. asks' = [asks EXCEPT ![i] = x] /\ UNCHANGED <<section, table, desk, lag>>
  BY DEF Writes
<1> HIDE DEF x
<1>4. asks' \in Seq(Ask) /\ DOMAIN asks' = DOMAIN asks /\ asks'[i] = x
  BY <1>2, <1>3, NormTypes
<1>5. \A k : Unread(k)'
  BY <1>2, <1>4 DEF Unread
<1>6. norms' \in Tables /\ created' \in 0 .. MaxNorms
  BY <1>1, WriteRowTyped DEF Writes
<1> QED
  BY <1>3, <1>4, <1>5, <1>6 DEF NormInv, NormTypeOK, FormIsOfItsRow, AsksGood, TableGood

LEMMA NormReadsKeeps == ASSUME NormInv, NEW i \in DOMAIN asks, Reads(i) PROVE NormInv'
<1> DEFINE x == [asks[i] EXCEPT !.step = "answer", !.rows = norms]
           N == Len(asks)
<1>1. x \in Ask /\ x.step = "answer" /\ x.rows = norms
  BY NormTypes DEF Ask
<1>2. /\ asks' = Append(RemoveAt(asks, i), x)
      /\ UNCHANGED <<section, norms, created, table, desk, lag>>
  BY DEF Reads
<1> HIDE DEF x
<1>3. asks' \in Seq(Ask) /\ Len(asks') = N /\ asks'[N] = x
  <2>1. asks \in Seq(Ask) /\ i \in DOMAIN asks /\ x \in Ask
    BY <1>1, NormTypes
  <2> DEFINE r == Append(RemoveAt(asks, i), x)
  <2>2. r \in Seq(Ask) /\ Len(r) = Len(asks) /\ r[Len(asks)] = x
    BY ONLY <2>1, SentLastSays
  <2> HIDE DEF r
  <2>3. asks' = r
    BY <1>2 DEF r
  <2> QED
    BY <2>2, <2>3
<1>4. N \in Nat \ {0} /\ DOMAIN asks' = 1 .. N
  BY <1>3, NormTypes
<1> HIDE DEF N
<1>5. \A k \in 0 .. N - 1 : Unread(k)'
  BY <1>1, <1>3, <1>4 DEF Unread
<1>6. AsksGood'
  <2> SUFFICES ASSUME NEW m \in 1 .. N
               PROVE  asks'[m].rows = norms' \/ Unread(m)'
    BY <1>4 DEF AsksGood
  <2>1. m = N \/ m \in 0 .. N - 1
    BY <1>4
  <2> QED
    BY <1>1, <1>2, <1>3, <1>5, <2>1
<1>7. TableGood'
  BY <1>4, <1>5 DEF TableGood
<1> QED
  BY <1>2, <1>3, <1>6, <1>7 DEF NormInv, NormTypeOK, FormIsOfItsRow

(* The page shows an answer; what was read before it is late.              *)
LEMMA NormAnswersKeeps == ASSUME NormInv, NEW i \in DOMAIN asks, Answers(i) PROVE NormInv'
<1> DEFINE c == asks[i]
           N == Len(asks)
           b == SubSeq(asks, 1, i - 1)
           o == AllLate(b)
<1>1. /\ asks \in Seq(Ask) /\ N \in Nat /\ DOMAIN asks = 1 .. N /\ i \in 1 .. N
      /\ c \in Ask /\ c.step = "answer" /\ UNCHANGED <<section, norms, created>>
      /\ table' = c.rows /\ lag' = c.late /\ desk' = IF c.closes THEN NewForm ELSE desk
  BY NormTypes DEF Answers, Cleaned
<1>2. b \in Seq(Ask) /\ Len(b) = i - 1 /\ \A m \in 1 .. i - 1 : b[m] = asks[m]
  BY <1>1, HeadSays
<1>3. asks' = o \o SubSeq(asks, i + 1, N)
  BY DEF Answers
<1> HIDE DEF b
<1>4. /\ o \in Seq(Ask) /\ Len(o) = i - 1
      /\ \A m \in 1 .. i - 1 : /\ o[m].step = asks[m].step
                               /\ o[m].step = "answer" => o[m].late
  BY <1>2, AllLateSays
<1> HIDE DEF o
<1>5. /\ asks' \in Seq(Ask) /\ Len(asks') = N - 1
      /\ \A m \in 1 .. N - 1 : asks'[m] = IF m < i THEN o[m] ELSE asks[m + 1]
  <2> DEFINE r == o \o SubSeq(asks, i + 1, Len(asks))
  <2>1. /\ r \in Seq(Ask) /\ Len(r) = Len(asks) - 1
        /\ \A m \in 1 .. Len(asks) - 1 : r[m] = IF m < i THEN o[m] ELSE asks[m + 1]
    <3>1. asks \in Seq(Ask) /\ i \in DOMAIN asks /\ o \in Seq(Ask) /\ Len(o) = i - 1
      BY <1>1, <1>4
    <3> QED
      BY ONLY <3>1, AroundSays
  <2> HIDE DEF r
  <2>2. asks' = r
    BY <1>3 DEF r
  <2> QED
    BY <2>1, <2>2
<1> HIDE DEF N, c
<1>6. DOMAIN asks' = 1 .. N - 1
  BY <1>1, <1>5
<1>7. \A k \in i .. N : Unread(k) => Unread(k - 1)' /\ Unread(0)'
  <2> SUFFICES ASSUME NEW k \in i .. N, NEW j \in 1 .. N,
                      asks[j].step = "read" \/ (asks[j].step = "answer" /\ j > k)
               PROVE  Unread(k - 1)' /\ Unread(0)'
    BY <1>1 DEF Unread
  <2>1. j # i
    BY <1>1 DEF c
  <2>2. CASE j < i
    <3>1. j \in 1 .. N - 1 /\ asks'[j].step = "read"
      BY <1>1, <1>4, <1>5, <2>2
    <3> QED
      BY <1>6, <3>1 DEF Unread
  <2>3. CASE j > i
    <3>1. j - 1 \in 1 .. N - 1 /\ asks'[j - 1] = asks[j]
      BY <1>1, <1>5, <2>3
    <3>2. (j > k => j - 1 > k - 1) /\ j - 1 > 0
      BY <1>1, <2>3
    <3> QED
      BY <1>6, <3>1, <3>2 DEF Unread
  <2> QED
    BY <1>1, <2>1, <2>2, <2>3
<1>8. AsksGood'
  <2> SUFFICES ASSUME NEW m \in 1 .. N - 1, asks'[m].step = "answer", ~asks'[m].late
               PROVE  asks'[m].rows = norms' \/ Unread(m)'
    BY <1>6 DEF AsksGood
  <2>1. m >= i /\ asks'[m] = asks[m + 1] /\ m + 1 \in i .. N /\ (m + 1) - 1 = m
    BY <1>1, <1>4, <1>5
  <2>2. asks[m + 1].rows = norms \/ Unread(m + 1)
    BY <1>1, <2>1 DEF NormInv, AsksGood
  <2>3. Unread(m + 1) => Unread((m + 1) - 1)'
    BY <1>7, <2>1
  <2> QED
    BY <1>1, <2>1, <2>2, <2>3
<1>9. TableGood'
  <2>1. ~c.late => c.rows = norms \/ Unread(i)
    BY <1>1 DEF NormInv, AsksGood, c
  <2>2. Unread(i) => Unread(0)'
    BY <1>1, <1>7
  <2> QED
    BY <1>1, <2>1, <2>2 DEF TableGood
<1>10. /\ table' \in Tables /\ lag' \in BOOLEAN /\ desk' \in Desk /\ FormIsOfItsRow'
  BY <1>1, NormTypes, NormStartTypes DEF Ask, NormInv, FormIsOfItsRow
<1> QED
  BY <1>1, <1>5, <1>8, <1>9, <1>10 DEF NormInv, NormTypeOK

(* After a failure, or a change elsewhere, no answer on its way counts.    *)
LEMMA NormDisturbed ==
    ASSUME NormInv, NEW s \in Seq(Ask), asks' = AllLate(s), lag' = TRUE,
           norms' \in Tables, created' \in 0 .. MaxNorms, UNCHANGED <<section, table, desk>>
    PROVE  NormInv'
<1> DEFINE o == AllLate(s)
<1>1. /\ o \in Seq(Ask) /\ Len(o) = Len(s) /\ Len(s) \in Nat
      /\ \A n \in 1 .. Len(s) : o[n].step = "answer" => o[n].late
  BY AllLateSays
<1>2. asks' = o
  OBVIOUS
<1> HIDE DEF o
<1>3. AsksGood'
  BY <1>1, <1>2 DEF AsksGood
<1> QED
  BY <1>1, <1>2, <1>3 DEF NormInv, NormTypeOK, FormIsOfItsRow, TableGood

LEMMA NormFailsKeeps == ASSUME NormInv, NEW i \in DOMAIN asks, Fails(i) PROVE NormInv'
<1> DEFINE N == Len(asks)
           r == RemoveAt(asks, i)
<1>1. /\ r \in Seq(Ask) /\ Len(r) = N - 1
      /\ \A m \in 1 .. N - 1 : r[m] = IF m < i THEN asks[m] ELSE asks[m + 1]
  <2>1. asks \in Seq(Ask) /\ i \in DOMAIN asks
    BY NormTypes
  <2> QED
    BY ONLY <2>1, RemovedSays
<1>2. asks[i] \in Ask /\ N \in Nat /\ DOMAIN asks = 1 .. N /\ i \in 1 .. N
  BY NormTypes
<1>3. \/ asks[i].step = "write" /\ asks' = r /\ UNCHANGED <<norms, created, lag>>
      \/ /\ lag' = TRUE /\ asks' = AllLate(r)
         /\ WriteRow(asks[i]) \/ UNCHANGED <<norms, created>>
  BY DEF Fails
<1>4. UNCHANGED <<section, table, desk>>
  BY DEF Fails
<1> HIDE DEF r, N
<1>5. CASE asks[i].step = "write" /\ asks' = r /\ UNCHANGED <<norms, created, lag>>
  <2>1. DOMAIN asks' = 1 .. N - 1
    BY <1>1, <1>2, <1>5
  <2>2. ASSUME NEW j \in 1 .. N, j # i
        PROVE  \E q \in 1 .. N - 1 : /\ asks'[q] = asks[j]
                                     /\ j < i => q = j
                                     /\ j > i => q = j - 1
    <3> DEFINE q == IF j < i THEN j ELSE j - 1
    <3>1. q \in 1 .. N - 1 /\ asks'[q] = asks[j]
      BY <1>1, <1>2, <1>5, <2>2
    <3> QED
      BY <1>2, <3>1
  <2>3. ASSUME NEW k \in 0 .. N, Unread(k)
        PROVE  Unread(IF k < i THEN k ELSE k - 1)'
    <3>1. PICK j \in 1 .. N : asks[j].step = "read" \/ (asks[j].step = "answer" /\ j > k)
      BY <1>2, <2>3 DEF Unread
    <3>2. j # i
      BY <1>5, <3>1
    <3>3. PICK q \in 1 .. N - 1 : /\ asks'[q] = asks[j]
                                  /\ j < i => q = j
                                  /\ j > i => q = j - 1
      BY <2>2, <3>2
    <3>4. j > k => q > (IF k < i THEN k ELSE k - 1)
      BY <1>2, <3>2, <3>3
    <3> QED
      BY <2>1, <3>1, <3>3, <3>4 DEF Unread
  <2>4. AsksGood'
    <3> SUFFICES ASSUME NEW m \in 1 .. N - 1, asks'[m].step = "answer", ~asks'[m].late
                 PROVE  asks'[m].rows = norms' \/ Unread(m)'
      BY <2>1 DEF AsksGood
    <3> DEFINE p == IF m < i THEN m ELSE m + 1
    <3>1. p \in 1 .. N /\ asks'[m] = asks[p] /\ (IF p < i THEN p ELSE p - 1) = m
      BY <1>1, <1>2, <1>5
    <3>2. asks[p].rows = norms \/ Unread(p)
      BY <1>2, <3>1 DEF NormInv, AsksGood
    <3>3. Unread(p) => Unread(IF p < i THEN p ELSE p - 1)'
      BY <1>2, <2>3, <3>1
    <3> QED
      BY <1>5, <3>1, <3>2, <3>3
  <2>5. TableGood'
    <3>1. 0 \in 0 .. N /\ (IF 0 < i THEN 0 ELSE 0 - 1) = 0
      BY <1>2
    <3>2. Unread(0) => Unread(0)'
      BY <2>3, <3>1
    <3> QED
      BY <1>4, <1>5, <3>2 DEF NormInv, TableGood
  <2> QED
    BY <1>1, <1>4, <1>5, <2>4, <2>5 DEF NormInv, NormTypeOK, FormIsOfItsRow
<1>6. CASE /\ lag' = TRUE /\ asks' = AllLate(r)
           /\ WriteRow(asks[i]) \/ UNCHANGED <<norms, created>>
  <2>1. norms' \in Tables /\ created' \in 0 .. MaxNorms
    BY <1>2, <1>6, NormTypes, WriteRowTyped
  <2> QED
    BY <1>1, <1>4, <1>6, <2>1, NormDisturbed
<1> QED
  BY <1>3, <1>5, <1>6

LEMMA NormElsewhereKeeps ==
    ASSUME NormInv, NEW id \in DOMAIN norms, ChangeElsewhere(id) PROVE NormInv'
<1>1. id \in Ids
  BY NormTypes, TablesSay, NormAssumption DEF Ids
<1> DEFINE x == Asking("remove", id, FirstRow, FALSE, "write")
<1>2. x \in Ask
  BY <1>1, NormStartTypes DEF Asking, Ask
<1>3. WriteRow(x) /\ lag' = TRUE /\ asks' = AllLate(asks) /\ UNCHANGED <<section, table, desk>>
  BY DEF ChangeElsewhere
<1> HIDE DEF x
<1>4. norms' \in Tables /\ created' \in 0 .. MaxNorms
  BY <1>2, <1>3, WriteRowTyped
<1> QED
  BY <1>3, <1>4, NormTypes, NormDisturbed

LEMMA NormStarts == NormInit => NormInv
<1> SUFFICES ASSUME NormInit PROVE NormInv
  OBVIOUS
<1>1. 1 .. created \in SUBSET (1 .. MaxNorms) /\ created \in 0 .. MaxNorms
  BY NormAssumption DEF NormInit
<1>2. norms \in Tables
  BY <1>1, TablesSay DEF NormInit
<1> DEFINE x == Asking("load", 0, FirstRow, FALSE, "read")
<1>3. x \in Ask /\ x.step = "read"
  BY NormStartTypes DEF Asking, Ask
<1>4. asks = <<x>>
  BY DEF NormInit
<1> HIDE DEF x
<1>5. asks \in Seq(Ask) /\ DOMAIN asks = {1} /\ asks[1] = x
  BY <1>3, <1>4
<1>6. AsksGood /\ TableGood
  BY <1>3, <1>5 DEF AsksGood, TableGood, Unread
<1> QED
  BY <1>1, <1>2, <1>5, <1>6, NormStartTypes
  DEF NormInit, NormInv, NormTypeOK, FormIsOfItsRow

LEMMA NormSteps == NormInv /\ [NormNext]_normVars => NormInv'
<1>1. NormInv /\ UNCHANGED normVars => NormInv'
  BY DEF normVars, NormInv, NormTypeOK, FormIsOfItsRow, AsksGood, TableGood, Unread
<1> QED
  BY <1>1, FormStepsKeep, FillKeeps, SubmitKeeps, RemoveNormKeeps, WritesKeeps, NormReadsKeeps,
     NormAnswersKeeps, NormFailsKeeps, NormElsewhereKeeps DEF NormNext

(* With nothing on its way nothing more will be brought.                   *)
LEMMA NormCatchesUp == NormInv => TableCatchesUp
<1> SUFFICES ASSUME NormInv, asks = <<>>, ~lag PROVE table = norms
  BY DEF TableCatchesUp
<1>1. ~Unread(0)
  BY DEF Unread
<1> QED
  BY <1>1 DEF NormInv, TableGood

(* The table, the forms and the answers on their way, whatever their order *)
(* (normatives/page.tsx:140-148, 307-385).                                 *)
THEOREM NormInvariance == NormSpec => []NormInv
BY NormStarts, NormSteps, PTL DEF NormSpec

-----------------------------------------------------------------------------
(* The page that imports a file.  Genders that are those of the file but   *)
(* for swimmers that were edited.                                          *)
AgreesWith(sheet, genders, edited) ==
    LET parsed == Parse(sheet).genders IN
    /\ DOMAIN genders = DOMAIN parsed
    /\ \A i \in DOMAIN parsed \ edited : genders[i] = parsed[i]

(* Of a preview, and of an import that was made from it.                   *)
PreviewGood ==
    wiz.sheet # NoSheet =>
      /\ AgreesWith(wiz.sheet, wiz.genders, wiz.edited)
      /\ wiz.step = 4 => ~Parse(wiz.sheet).bad

SaveGood(c) ==
    /\ ~Parse(c.sheet).bad
    /\ AgreesWith(c.sheet, c.genders, c.edited)
    /\ c.entries = Kept(c)

(* What makes SavesWhatWasReviewed hold however parses and edits mix.      *)
WizardInv ==
    /\ WizardTypeOK /\ PreviewGood
    /\ \A k \in DOMAIN saves : SaveGood(saves[k])

(* The parts of the page in their types.                                   *)
LEMMA WizardTypes ==
    WizardInv => /\ gate \in [draft : BOOLEAN, bulk : BOOLEAN] /\ wiz \in Wizard
                 /\ parses \in Seq(Sheets) /\ saves \in Seq(Save)
                 /\ DOMAIN parses = 1 .. Len(parses) /\ DOMAIN saves = 1 .. Len(saves)
BY DEF WizardInv, WizardTypeOK

(* Genders are a function from places of a file.                           *)
LEMMA GendersSay ==
    /\ \A f \in Genders : DOMAIN f \subseteq Positions /\ f \in [DOMAIN f -> Sexes]
    /\ \A of \in SUBSET Positions : \A f \in [of -> Sexes] : f \in Genders
BY DEF Genders

(* What is parsed of a file: genders of its places, entries of those, and  *)
(* an event for each entry.                                                *)
LEMMA ParseSays ==
    ASSUME NEW s \in Sheets
    PROVE  /\ Parse(s).genders \in Genders /\ DOMAIN Parse(s).genders \subseteq DOMAIN s
           /\ Parse(s).offers \subseteq Offers /\ Parse(s).bad \in BOOLEAN
           /\ Parse(s).entries \subseteq Positions \X {o[1] : o \in Offers}
           /\ \A e \in Parse(s).entries :
                /\ e[1] \in DOMAIN Parse(s).genders
                /\ <<e[2], Parse(s).genders[e[1]]>> \in Parse(s).offers
<1> DEFINE swims == {i \in DOMAIN s : s[i].named /\ s[i].year}
           in    == {i \in swims : s[i].style # NoStyle}
<1>1. /\ Parse(s).genders = [i \in swims |-> s[i].gender]
      /\ Parse(s).entries = {<<i, s[i].style>> : i \in in}
      /\ Parse(s).offers = {<<s[i].style, s[i].gender>> : i \in in}
      /\ Parse(s).bad = \E i \in DOMAIN s : s[i].named /\ ~s[i].year
  BY DEF Parse
<1>2. DOMAIN s \subseteq Positions
  BY DEF Positions
<1>3. \A i \in DOMAIN s : s[i].gender \in Sexes
  BY WizardAssumption
<1>4. ASSUME NEW i \in in
      PROVE  <<s[i].style, s[i].gender>> \in Offers
  <2>1. s[i].style \in Gives(s)
    BY DEF Gives, ToSet
  <2> QED
    BY <1>3, <2>1 DEF Offers
<1>5. [i \in swims |-> s[i].gender] \in Genders
  BY <1>2, <1>3, GendersSay
<1>6. ASSUME NEW i \in in
      PROVE  <<i, s[i].style>> \in Positions \X {o[1] : o \in Offers}
  <2>1. <<s[i].style, s[i].gender>>[1] = s[i].style
    OBVIOUS
  <2> QED
    BY <1>2, <1>4, <2>1
<1>7. ASSUME NEW e \in Parse(s).entries
      PROVE  /\ e[1] \in DOMAIN Parse(s).genders
             /\ <<e[2], Parse(s).genders[e[1]]>> \in Parse(s).offers
  <2>1. PICK i \in in : e = <<i, s[i].style>>
    BY <1>1
  <2>2. e[1] = i /\ e[2] = s[i].style /\ Parse(s).genders[i] = s[i].gender
    BY <1>1, <2>1
  <2> QED
    BY <1>1, <2>1, <2>2
<1> QED
  BY <1>1, <1>4, <1>5, <1>6, <1>7

(* A step that changes nothing but the flags, the preview, or the choice.  *)
LEMMA PageChanges ==
    ASSUME WizardInv, NEW w \in Wizard, wiz' = w, UNCHANGED saves,
           gate' \in [draft : BOOLEAN, bulk : BOOLEAN], parses' \in Seq(Sheets),
           w.sheet # NoSheet =>
             /\ AgreesWith(w.sheet, w.genders, w.edited)
             /\ w.step = 4 => ~Parse(w.sheet).bad
    PROVE  WizardInv'
BY DEF WizardInv, WizardTypeOK, PreviewGood

LEMMA StaysTheSame ==
    ASSUME WizardInv, NEW w \in Wizard, Goes(w),
           w.sheet = wiz.sheet, w.genders = wiz.genders, w.edited = wiz.edited,
           w.step = 4 => wiz.step = 4
    PROVE  WizardInv'
<1>1. /\ wiz' = w /\ UNCHANGED saves /\ gate' \in [draft : BOOLEAN, bulk : BOOLEAN]
      /\ parses' \in Seq(Sheets)
  BY WizardTypes DEF Goes
<1>2. w.sheet # NoSheet => /\ AgreesWith(w.sheet, w.genders, w.edited)
                           /\ w.step = 4 => ~Parse(w.sheet).bad
  BY DEF WizardInv, PreviewGood
<1> QED
  BY <1>1, <1>2, PageChanges

LEMMA FlagsAndMovesKeep ==
    ASSUME WizardInv,
           \/ Start \/ SetAllRanks \/ Back
           \/ \E refused \in BOOLEAN : FlagsCome(refused)
           \/ \E o \in Offers : ToggleOffer(o)
    PROVE  WizardInv'
<1>1. wiz \in Wizard /\ gate \in [draft : BOOLEAN, bulk : BOOLEAN]
  BY WizardTypes
<1>2. CASE Start
  <2>1. [wiz EXCEPT !.step = 2] \in Wizard
    BY <1>1 DEF Wizard
  <2> QED
    BY <1>1, <1>2, <2>1, StaysTheSame DEF Start, Wizard
<1>3. CASE SetAllRanks
  <2>1. [wiz EXCEPT !.bulk = TRUE] \in Wizard
    BY <1>1 DEF Wizard
  <2> QED
    BY <1>1, <1>3, <2>1, StaysTheSame DEF SetAllRanks, Wizard
<1>4. ASSUME NEW refused \in BOOLEAN, FlagsCome(refused)
      PROVE  WizardInv'
  <2> DEFINE on == refused \/ gate.bulk
             w  == [wiz EXCEPT !.asked = FALSE, !.bulkOn = on, !.bulk = @ /\ on]
  <2>1. on \in BOOLEAN
    BY <1>1
  <2>2. w \in Wizard
    BY <1>1, <2>1 DEF Wizard
  <2>3. Goes(w)
    BY <1>4 DEF FlagsCome
  <2>4. /\ w.sheet = wiz.sheet /\ w.genders = wiz.genders /\ w.edited = wiz.edited
        /\ w.step = wiz.step
    BY <1>1 DEF Wizard
  <2> HIDE DEF w
  <2> QED
    BY <2>2, <2>3, <2>4, StaysTheSame
<1>5. ASSUME NEW o \in Offers, ToggleOffer(o)
      PROVE  WizardInv'
  <2> DEFINE off == IF o \in wiz.off THEN wiz.off \ {o} ELSE wiz.off \cup {o}
             w   == [wiz EXCEPT !.off = off]
  <2>1. off \in SUBSET Offers
    BY <1>1 DEF Wizard
  <2>2. w \in Wizard
    BY <1>1, <2>1 DEF Wizard
  <2>3. Goes(w)
    BY <1>5 DEF ToggleOffer
  <2>4. /\ w.sheet = wiz.sheet /\ w.genders = wiz.genders /\ w.edited = wiz.edited
        /\ w.step = wiz.step
    BY <1>1 DEF Wizard
  <2> HIDE DEF w
  <2> QED
    BY <2>2, <2>3, <2>4, StaysTheSame
<1>6. ASSUME wiz.step = 3, Goes([wiz EXCEPT !.step = 2, !.sheet = NoSheet, !.failed = FALSE])
      PROVE  WizardInv'
  <2> DEFINE w == [wiz EXCEPT !.step = 2, !.sheet = NoSheet, !.failed = FALSE]
  <2>1. w \in Wizard /\ w.sheet = NoSheet
    <3> DEFINE n == 2
    <3>1. n \in 0 .. 4 /\ NoSheet \in Sheets \cup {NoSheet}
      OBVIOUS
    <3>2. w = [wiz EXCEPT !.step = n, !.sheet = NoSheet, !.failed = FALSE]
      OBVIOUS
    <3> HIDE DEF w, n
    <3> QED
      BY <1>1, <3>1, <3>2 DEF Wizard
  <2>2. wiz' = w /\ UNCHANGED saves /\ gate' = gate /\ parses' \in Seq(Sheets)
    BY <1>6, WizardTypes DEF Goes
  <2> HIDE DEF w
  <2> QED
    BY <1>1, <2>1, <2>2, PageChanges
<1>7. ASSUME wiz.step = 4, Goes([wiz EXCEPT !.step = 3, !.off = {}])
      PROVE  WizardInv'
  <2> DEFINE w == [wiz EXCEPT !.step = 3, !.off = {}]
  <2>1. /\ w \in Wizard /\ w.sheet = wiz.sheet /\ w.genders = wiz.genders
        /\ w.edited = wiz.edited /\ w.step # 4
    <3> DEFINE n == 3
    <3>1. n \in 0 .. 4 /\ n # 4 /\ {} \in SUBSET Offers
      OBVIOUS
    <3>2. w = [wiz EXCEPT !.step = n, !.off = {}]
      OBVIOUS
    <3> HIDE DEF w, n
    <3> QED
      BY <1>1, <3>1, <3>2 DEF Wizard
  <2>2. Goes(w)
    BY <1>7
  <2> HIDE DEF w
  <2> QED
    BY <2>1, <2>2, StaysTheSame
<1> QED
  BY <1>2, <1>3, <1>4, <1>5, <1>6, <1>7 DEF Back

LEMMA ToEventsKeeps == ASSUME WizardInv, ToEvents PROVE WizardInv'
<1> DEFINE w == [wiz EXCEPT !.step = 4]
<1>1. /\ w \in Wizard /\ w.sheet = wiz.sheet /\ w.genders = wiz.genders
      /\ w.edited = wiz.edited
  BY WizardTypes, SMTT(60) DEF Wizard
<1>2. Goes(w) /\ ~Parse(wiz.sheet).bad
  BY DEF ToEvents
<1> HIDE DEF w
<1>3. /\ wiz' = w /\ UNCHANGED saves /\ gate' \in [draft : BOOLEAN, bulk : BOOLEAN]
      /\ parses' \in Seq(Sheets)
  BY <1>2, WizardTypes DEF Goes
<1>4. w.sheet # NoSheet => /\ AgreesWith(w.sheet, w.genders, w.edited)
                           /\ w.step = 4 => ~Parse(w.sheet).bad
  BY <1>1, <1>2 DEF WizardInv, PreviewGood
<1> QED
  BY <1>1, <1>3, <1>4, PageChanges

(* A change of genders, that are remembered as edited.                     *)
LEMMA GendersSet ==
    ASSUME WizardInv, NEW f, NEW on,
           f \in Genders, DOMAIN f = DOMAIN wiz.genders, on \subseteq DOMAIN f,
           \A i \in DOMAIN f \ on : f[i] = wiz.genders[i],
           NEW b \in BOOLEAN, NEW w, wiz.step # 4,
           w = [wiz EXCEPT !.genders = f, !.edited = wiz.edited \cup on, !.bulk = b],
           Goes(w)
    PROVE  WizardInv'
<1>1. wiz \in Wizard /\ wiz.edited \cup on \in SUBSET Positions
  BY WizardTypes, GendersSay DEF Wizard
<1>2. /\ w \in Wizard /\ w.sheet = wiz.sheet /\ w.genders = f /\ w.step = wiz.step
      /\ w.edited = wiz.edited \cup on
  BY <1>1 DEF Wizard
<1>3. /\ wiz' = w /\ UNCHANGED saves /\ gate' \in [draft : BOOLEAN, bulk : BOOLEAN]
      /\ parses' \in Seq(Sheets)
  BY WizardTypes DEF Goes
<1>4. w.sheet # NoSheet => /\ AgreesWith(w.sheet, w.genders, w.edited)
                           /\ w.step = 4 => ~Parse(w.sheet).bad
  <2> SUFFICES ASSUME wiz.sheet # NoSheet
               PROVE  AgreesWith(wiz.sheet, f, wiz.edited \cup on)
    BY <1>2
  <2>1. AgreesWith(wiz.sheet, wiz.genders, wiz.edited)
    BY DEF WizardInv, PreviewGood
  <2> QED
    BY <2>1 DEF AgreesWith
<1> QED
  BY <1>2, <1>3, <1>4, PageChanges

LEMMA ToggleGenderKeeps ==
    ASSUME WizardInv, NEW i \in DOMAIN wiz.genders, ToggleGender(i)
    PROVE  WizardInv'
<1> DEFINE f == [wiz.genders EXCEPT ![i] = Other(@)]
           w == [wiz EXCEPT !.genders[i] = Other(@), !.edited = @ \cup {i}]
<1>1. wiz \in Wizard /\ wiz.genders \in Genders /\ wiz.bulk \in BOOLEAN
  BY WizardTypes DEF Wizard
<1>2. DOMAIN wiz.genders \subseteq Positions /\ wiz.genders \in [DOMAIN wiz.genders -> Sexes]
  BY <1>1, GendersSay
<1>3. f \in [DOMAIN wiz.genders -> Sexes]
  BY <1>2 DEF Other, Sexes
<1>4. f \in Genders /\ DOMAIN f = DOMAIN wiz.genders
  BY <1>2, <1>3, GendersSay
<1>5. \A k \in DOMAIN f \ {i} : f[k] = wiz.genders[k]
  BY <1>2
<1>6. w = [wiz EXCEPT !.genders = f, !.edited = wiz.edited \cup {i}, !.bulk = wiz.bulk]
  BY <1>1 DEF Wizard
<1>7. Goes(w) /\ wiz.step # 4
  BY DEF ToggleGender
<1>8. {i} \subseteq DOMAIN f
  BY <1>4
<1> HIDE DEF f, w
<1> QED
  BY <1>1, <1>4, <1>5, <1>6, <1>7, <1>8, GendersSet

LEMMA SetAllGendersKeeps ==
    ASSUME WizardInv, NEW g \in Sexes, SetAllGenders(g)
    PROVE  WizardInv'
<1> DEFINE d == DOMAIN wiz.genders
           f == [i \in d |-> g]
           w == [wiz EXCEPT !.genders = [i \in DOMAIN @ |-> g],
                            !.edited = DOMAIN wiz.genders, !.bulk = TRUE]
<1>1. wiz \in Wizard /\ wiz.genders \in Genders
  BY WizardTypes DEF Wizard
<1>2. d \subseteq Positions
  BY <1>1, GendersSay
<1>3. f \in Genders
  BY <1>2, GendersSay
<1>4. /\ w \in Wizard /\ w.sheet = wiz.sheet /\ w.genders = f /\ w.step = wiz.step
      /\ w.edited = d
  <2>1. w = [wiz EXCEPT !.genders = f, !.edited = d, !.bulk = TRUE]
    BY <1>1 DEF Wizard
  <2> HIDE DEF f, d, w
  <2> QED
    BY <1>1, <1>2, <1>3, <2>1 DEF Wizard
<1>5. Goes(w) /\ wiz.step = 3
  BY DEF SetAllGenders
<1>6. wiz.sheet # NoSheet => AgreesWith(wiz.sheet, f, d)
  BY DEF WizardInv, PreviewGood, AgreesWith
<1> HIDE DEF w, f, d
<1>7. /\ wiz' = w /\ UNCHANGED saves /\ gate' \in [draft : BOOLEAN, bulk : BOOLEAN]
      /\ parses' \in Seq(Sheets)
  BY <1>5, WizardTypes DEF Goes
<1> QED
  BY <1>4, <1>5, <1>6, <1>7, PageChanges

LEMMA ChooseFileKeeps ==
    ASSUME WizardInv, NEW s \in Sheets, ChooseFile(s)
    PROVE  WizardInv'
<1>1. parses' \in Seq(Sheets) /\ UNCHANGED <<gate, wiz, saves>>
  BY WizardTypes DEF ChooseFile
<1> QED
  BY <1>1 DEF WizardInv, WizardTypeOK, PreviewGood, SaveGood, Kept

LEMMA FileParsedKeeps ==
    ASSUME WizardInv, NEW k \in DOMAIN parses, FileParsed(k) \/ ParseFails(k)
    PROVE  WizardInv'
<1>1. wiz \in Wizard /\ parses \in Seq(Sheets) /\ parses[k] \in Sheets
  BY WizardTypes
<1>2. parses' \in Seq(Sheets) /\ UNCHANGED <<gate, saves>>
  BY <1>1, RemovedSays DEF FileParsed, ParseFails
<1>3. CASE wiz' = wiz
  BY <1>2, <1>3, <1>1, WizardTypes, PageChanges DEF WizardInv, PreviewGood
<1>4. CASE FileParsed(k) /\ wiz.step # 0
  <2> DEFINE s == parses[k]
             g == Parse(s).genders
             w == Reviewed([wiz EXCEPT !.sheet = s, !.failed = FALSE, !.genders = g,
                                       !.edited = {}, !.bulk = FALSE])
  <2>1. wiz' = w
    BY <1>4 DEF FileParsed
  <2>2. s \in Sheets /\ g \in Genders
    BY <1>1, ParseSays
  <2>3. AgreesWith(s, g, {})
    BY DEF AgreesWith
  <2> HIDE DEF s, g
  <2>4. w \in Wizard /\ w.sheet = s /\ w.genders = g /\ w.edited = {} /\ w.step = 3
    <3> DEFINE n == 3
    <3>1. /\ n \in 0 .. 4 /\ {} \in SUBSET Offers /\ {} \in SUBSET Positions
          /\ s \in Sheets \cup {NoSheet}
      BY <2>2
    <3>2. w = [wiz EXCEPT !.step = n, !.off = {}, !.sheet = s, !.failed = FALSE,
                          !.genders = g, !.edited = {}, !.bulk = FALSE]
      BY <1>1 DEF Reviewed, Wizard
    <3>3. n = 3
      OBVIOUS
    <3> HIDE DEF w, n
    <3>4. /\ w \in Wizard /\ w.step = n
          /\ w.sheet = s /\ w.genders = g /\ w.edited = {}
      BY <1>1, <2>2, <3>1, <3>2 DEF Wizard
    <3> QED
      BY <3>3, <3>4
  <2> HIDE DEF w
  <2>5. w.sheet # NoSheet => /\ AgreesWith(w.sheet, w.genders, w.edited)
                             /\ w.step = 4 => ~Parse(w.sheet).bad
    BY <2>3, <2>4
  <2>6. /\ gate' \in [draft : BOOLEAN, bulk : BOOLEAN] /\ w \in Wizard
        /\ wiz' = w /\ UNCHANGED saves /\ parses' \in Seq(Sheets)
    BY <1>2, <2>1, <2>4, WizardTypes
  <2> QED
    BY <2>5, <2>6, PageChanges
<1>5. CASE ParseFails(k) /\ wiz.step # 0
  <2> DEFINE w == Reviewed([wiz EXCEPT !.sheet = NoSheet, !.failed = TRUE])
  <2>1. wiz' = w
    BY <1>5 DEF ParseFails
  <2>2. w \in Wizard /\ w.sheet = NoSheet
    <3> DEFINE n == 3
    <3>1. n \in 0 .. 4 /\ {} \in SUBSET Offers /\ NoSheet \in Sheets \cup {NoSheet}
      OBVIOUS
    <3>2. w = [wiz EXCEPT !.step = n, !.off = {}, !.sheet = NoSheet, !.failed = TRUE]
      BY <1>1 DEF Reviewed, Wizard
    <3> HIDE DEF w, n
    <3> QED
      BY <1>1, <3>1, <3>2 DEF Wizard
  <2> HIDE DEF w
  <2> QED
    BY <1>2, <2>1, <2>2, WizardTypes, PageChanges
<1> QED
  BY <1>3, <1>4, <1>5 DEF FileParsed, ParseFails

(* An import is of the preview as it is reviewed.                          *)
LEMMA ConfirmKeeps == ASSUME WizardInv, ConfirmWizard PROVE WizardInv'
<1> DEFINE c == [sheet |-> wiz.sheet, genders |-> wiz.genders,
                 edited |-> wiz.edited, off |-> wiz.off,
                 entries |-> Kept(wiz), bulk |-> wiz.bulkOn /\ wiz.bulk]
<1>1. wiz \in Wizard /\ wiz.sheet \in Sheets
  BY WizardTypes DEF ConfirmWizard, Preview, Wizard
<1>2. Kept(wiz) \subseteq Positions \X {o[1] : o \in Offers}
  BY <1>1, ParseSays DEF Kept
<1>3. c \in Save
  BY <1>1, <1>2 DEF Wizard, Save
<1>4. SaveGood(c)
  <2>1. ~Parse(wiz.sheet).bad /\ AgreesWith(wiz.sheet, wiz.genders, wiz.edited)
    BY DEF WizardInv, PreviewGood, ConfirmWizard, Preview
  <2>2. /\ c.sheet = wiz.sheet /\ c.genders = wiz.genders /\ c.edited = wiz.edited
        /\ c.off = wiz.off /\ c.entries = Kept(wiz)
    OBVIOUS
  <2>3. Kept(c) = Kept(wiz)
    BY DEF Kept
  <2> HIDE DEF c
  <2> QED
    BY <2>1, <2>2, <2>3 DEF SaveGood
<1>5. saves' = Append(saves, c) /\ UNCHANGED <<gate, wiz, parses>>
  BY DEF ConfirmWizard
<1> HIDE DEF c
<1>6. /\ saves' \in Seq(Save)
      /\ \A k \in DOMAIN saves' : saves'[k] = c \/ (k \in DOMAIN saves /\ saves'[k] = saves[k])
  BY <1>3, <1>5, WizardTypes
<1>7. \A k \in DOMAIN saves' : SaveGood(saves'[k])
  BY <1>4, <1>6 DEF WizardInv
<1>8. WizardTypeOK' /\ PreviewGood'
  BY <1>5, <1>6 DEF WizardInv, WizardTypeOK, PreviewGood
<1>9. (\A k \in DOMAIN saves : SaveGood(saves[k]))'
  BY <1>7 DEF SaveGood, Kept
<1> QED
  BY <1>8, <1>9 DEF WizardInv

LEMMA SaveEndsKeeps ==
    ASSUME WizardInv, NEW k \in DOMAIN saves, SaveEnds(k)
    PROVE  WizardInv'
<1>1. wiz \in Wizard /\ saves \in Seq(Save)
  BY WizardTypes
<1>2. /\ RemoveAt(saves, k) \in Seq(Save)
      /\ DOMAIN RemoveAt(saves, k) = 1 .. Len(saves) - 1
      /\ \A m \in 1 .. Len(saves) - 1 :
           RemoveAt(saves, k)[m] = IF m < k THEN saves[m] ELSE saves[m + 1]
  BY <1>1, RemovedSays
<1> DEFINE r == RemoveAt(saves, k)
<1>3. \A m \in DOMAIN r : \E n \in DOMAIN saves : r[m] = saves[n]
  BY <1>1, <1>2
<1>4. saves' = r /\ UNCHANGED <<gate, parses>>
  BY DEF SaveEnds
<1> HIDE DEF r
<1>5. \A m \in DOMAIN r : SaveGood(r[m])
  BY <1>3 DEF WizardInv
<1>6. (\A m \in DOMAIN saves : SaveGood(saves[m]))'
  BY <1>4, <1>5 DEF SaveGood, Kept
<1>7. wiz' = wiz \/ wiz' = [wiz EXCEPT !.step = 0]
  BY DEF SaveEnds
<1>8. /\ wiz' \in Wizard /\ wiz'.sheet = wiz.sheet /\ wiz'.genders = wiz.genders
      /\ wiz'.edited = wiz.edited /\ (wiz'.step = 4 => wiz.step = 4)
  BY <1>1, <1>7 DEF Wizard
<1>9. WizardTypeOK' /\ PreviewGood'
  <2>1. saves' \in Seq(Save)
    BY <1>2, <1>4 DEF r
  <2>2. WizardTypeOK'
    BY <1>4, <1>8, <2>1 DEF WizardInv, WizardTypeOK
  <2>3. PreviewGood'
    BY <1>8 DEF WizardInv, PreviewGood
  <2> QED
    BY <2>2, <2>3
<1> QED
  BY <1>6, <1>9 DEF WizardInv

LEMMA WizardStarts == WizardInit => WizardInv
<1> SUFFICES ASSUME WizardInit PROVE WizardInv
  OBVIOUS
<1>1. <<>> \in Genders
  <2>1. {} \in SUBSET Positions /\ <<>> \in [{} -> Sexes]
    OBVIOUS
  <2> QED
    BY <2>1, GendersSay
<1>2. wiz \in Wizard /\ wiz.sheet = NoSheet
  BY <1>1 DEF WizardInit, Wizard
<1>3. WizardTypeOK
  BY <1>2 DEF WizardInit, WizardTypeOK
<1> QED
  BY <1>2, <1>3 DEF WizardInv, PreviewGood, WizardInit

LEMMA WizardSteps == WizardInv /\ [WizardNext]_wizardVars => WizardInv'
<1> SUFFICES ASSUME WizardInv, [WizardNext]_wizardVars PROVE WizardInv'
  OBVIOUS
<1>1. CASE UNCHANGED wizardVars
  BY <1>1 DEF wizardVars, WizardInv, WizardTypeOK, PreviewGood, SaveGood, Kept
<1>2. CASE GateChanges
  BY <1>2 DEF GateChanges, WizardInv, WizardTypeOK, PreviewGood, SaveGood, Kept
<1>3. CASE WizardNext
  BY <1>2, <1>3, FlagsAndMovesKeep, ToEventsKeeps, ToggleGenderKeeps, SetAllGendersKeeps,
     ChooseFileKeeps, FileParsedKeeps, ConfirmKeeps, SaveEndsKeeps DEF WizardNext
<1> QED
  BY <1>1, <1>3

(* An entry that was not kept: its swimmer's gender was changed, or its    *)
(* event left out.                                                         *)
LEMMA ReviewedIsSaved == WizardInv => SavesWhatWasReviewed
<1> SUFFICES ASSUME WizardInv, NEW c \in ToSet(saves)
             PROVE  /\ ~Parse(c.sheet).bad
                    /\ \A i \in DOMAIN Parse(c.sheet).genders \ c.edited :
                         c.genders[i] = Parse(c.sheet).genders[i]
                    /\ \A e \in Parse(c.sheet).entries \ c.entries :
                         e[1] \in c.edited \/ <<e[2], c.genders[e[1]]>> \in c.off
  BY DEF SavesWhatWasReviewed
<1>1. PICK k \in DOMAIN saves : c = saves[k]
  BY DEF ToSet
<1>2. SaveGood(c) /\ c \in Save
  BY <1>1, WizardTypes DEF WizardInv
<1>3. AgreesWith(c.sheet, c.genders, c.edited) /\ ~Parse(c.sheet).bad /\ c.entries = Kept(c)
  BY <1>2 DEF SaveGood
<1>4. \A i \in DOMAIN Parse(c.sheet).genders \ c.edited :
        c.genders[i] = Parse(c.sheet).genders[i]
  BY <1>3 DEF AgreesWith
<1>5. ASSUME NEW e \in Parse(c.sheet).entries \ c.entries, e[1] \notin c.edited
      PROVE  <<e[2], c.genders[e[1]]>> \in c.off
  <2>1. /\ e[1] \in DOMAIN Parse(c.sheet).genders
        /\ <<e[2], Parse(c.sheet).genders[e[1]]>> \in Parse(c.sheet).offers
    BY <1>2, ParseSays DEF Save
  <2>2. <<e[2], c.genders[e[1]]>> \in Parse(c.sheet).offers
    BY <1>4, <1>5, <2>1
  <2> QED
    BY <1>3, <1>5, <2>2 DEF Kept
<1> QED
  BY <1>3, <1>4, <1>5

-----------------------------------------------------------------------------
(* The page that makes an application.                                     *)
OnceIn(ds, tw) ==
    \A m, n \in DOMAIN ds : ds[m].of = ds[n].of => m = n \/ ds[m].of \in tw

(* A swimmer asked for by click who is in the application, is asked for by *)
(* another click too, or for the address, was added twice.                 *)
ClicksIn(ad, ds, tw, nm) ==
    /\ \A i \in DOMAIN ad : ad[i] \in Drafted(ds) => ad[i] \in tw
    /\ \A i, j \in DOMAIN ad : ad[i] = ad[j] => i = j \/ ad[i] \in tw
    /\ nm => \A i \in DOMAIN ad : ad[i] \in ToSet(InAddress) => ad[i] \in tw

ActiveIn(ac, ds) == ac # NoAthlete => ac \in Drafted(ds)

ApplicationInv ==
    /\ ApplicationTypeOK
    /\ OnceIn(drafts, twice) /\ ClicksIn(adding, drafts, twice, naming)
    /\ ActiveIn(active, drafts)
    /\ naming => InAddress # <<>>

(* The invariant has all that is checked.                                  *)
LEMMA ApplicationSays == ApplicationInv => ApplicationTypeOK /\ EverybodyOnce
BY DEF ApplicationInv, EverybodyOnce, OnceIn, ActiveIn

LEMMA ApplicationTypes ==
    ApplicationInv =>
      /\ drafts \in Seq(AppDraft) /\ active \in Athletes \cup {NoAthlete}
      /\ paper \in [preview : BOOLEAN, exporting : BOOLEAN]
      /\ adding \in Seq(Athletes) /\ naming \in BOOLEAN /\ twice \in SUBSET Athletes
      /\ DOMAIN drafts = 1 .. Len(drafts) /\ DOMAIN adding = 1 .. Len(adding)
      /\ \A n \in DOMAIN drafts : drafts[n] \in AppDraft
      /\ \A n \in DOMAIN adding : adding[n] \in Athletes
BY DEF ApplicationInv, ApplicationTypeOK

(* Who is in an application.                                               *)
LEMMA DraftedSays ==
    ASSUME NEW ds
    PROVE  /\ \A n \in DOMAIN ds : ds[n].of \in Drafted(ds)
           /\ \A a \in Drafted(ds) : \E n \in DOMAIN ds : ds[n].of = a
BY DEF Drafted, ToSet

(* A new draft has the rows of the latest earlier application.             *)
LEMMA BuildSays ==
    ASSUME NEW a \in Athletes
    PROVE  BuildDraft(a) \in AppDraft /\ BuildDraft(a).of = a
<1>1. Earlier[a] \in Seq(Counts) /\ MaxRows \in Nat
  BY ApplicationAssumption
<1>2. Earlier[a] # <<>> => Earlier[a][1] \in Counts
  BY <1>1
<1>3. (IF Earlier[a] = <<>> THEN 0 ELSE Earlier[a][1]) \in Counts
  BY <1>1, <1>2 DEF Counts
<1> QED
  BY <1>3 DEF BuildDraft, AppDraft

(* Steps that leave the drafts and the requests for them.                  *)
LEMMA SmallStepsKeep ==
    ASSUME ApplicationInv,
           \/ TogglePreview \/ ExportApplication \/ ExportEnds
           \/ \E a \in Athletes : Activate(a)
    PROVE  ApplicationInv'
<1>1. CASE TogglePreview \/ ExportApplication \/ ExportEnds
  <2>1. UNCHANGED <<drafts, active, adding, naming, twice>>
    BY <1>1 DEF TogglePreview, ExportApplication, ExportEnds
  <2>2. paper' \in [preview : BOOLEAN, exporting : BOOLEAN]
    BY <1>1, ApplicationTypes DEF TogglePreview, ExportApplication, ExportEnds
  <2> QED
    BY <2>1, <2>2 DEF ApplicationInv, ApplicationTypeOK
<1>2. ASSUME NEW a \in Athletes, Activate(a)
      PROVE  ApplicationInv'
  BY <1>2 DEF Activate, ApplicationInv, ApplicationTypeOK, ActiveIn
<1> QED
  BY <1>1, <1>2

LEMMA AddAthleteKeeps ==
    ASSUME ApplicationInv, NEW a \in Athletes, AddAthlete(a)
    PROVE  ApplicationInv'
<1> DEFINE second == a \in ToSet(adding) \/ (naming /\ a \in ToSet(InAddress))
<1>1. /\ adding' = Append(adding, a) /\ twice \subseteq twice' /\ (second => a \in twice')
      /\ twice' \subseteq twice \cup {a}
      /\ a \notin Drafted(drafts) /\ UNCHANGED <<drafts, active, paper, naming>>
  BY DEF AddAthlete
<1>2. /\ adding' \in Seq(Athletes) /\ DOMAIN adding' = 1 .. Len(adding) + 1
      /\ \A i \in 1 .. Len(adding) + 1 :
           adding'[i] = IF i <= Len(adding) THEN adding[i] ELSE a
  BY <1>1, ApplicationTypes
<1>3. twice' \in SUBSET Athletes
  BY <1>1, ApplicationTypes
<1>4. ApplicationTypeOK'
  BY <1>1, <1>2, <1>3 DEF ApplicationInv, ApplicationTypeOK
<1>5. OnceIn(drafts, twice')
  BY <1>1 DEF ApplicationInv, OnceIn
<1>6. ClicksIn(adding', drafts, twice', naming)
  <2>1. \A i \in DOMAIN adding : adding[i] = a => a \in twice'
    BY <1>1 DEF ToSet
  <2>2. \A i \in DOMAIN adding : adding[i] \in Drafted(drafts) => adding[i] \in twice'
    BY <1>1 DEF ApplicationInv, ClicksIn
  <2>3. \A i, j \in DOMAIN adding : adding[i] = adding[j] => i = j \/ adding[i] \in twice'
    BY <1>1 DEF ApplicationInv, ClicksIn
  <2>4. naming => \A i \in DOMAIN adding :
                    adding[i] \in ToSet(InAddress) => adding[i] \in twice'
    BY <1>1 DEF ApplicationInv, ClicksIn
  <2>5. naming /\ a \in ToSet(InAddress) => a \in twice'
    BY <1>1
  <2>6. DOMAIN adding = 1 .. Len(adding) /\ Len(adding) \in Nat
    BY ApplicationTypes
  <2>7. \A i \in 1 .. Len(adding) + 1 :
          \/ i \in DOMAIN adding /\ adding'[i] = adding[i]
          \/ i = Len(adding) + 1 /\ adding'[i] = a
    BY <1>2, <2>6
  <2>8. \A i \in 1 .. Len(adding) + 1 :
          adding'[i] \in Drafted(drafts) => adding'[i] \in twice'
    BY <1>1, <2>2, <2>7
  <2>9. \A i, j \in 1 .. Len(adding) + 1 :
          adding'[i] = adding'[j] => i = j \/ adding'[i] \in twice'
    BY <2>1, <2>3, <2>7
  <2>10. naming => \A i \in 1 .. Len(adding) + 1 :
                     adding'[i] \in ToSet(InAddress) => adding'[i] \in twice'
    BY <2>4, <2>5, <2>7
  <2> QED
    BY <1>2, <2>8, <2>9, <2>10 DEF ClicksIn
<1> QED
  BY <1>1, <1>4, <1>5, <1>6 DEF ApplicationInv

(* One answer less: what is said of the rest stays.                        *)
LEMMA FewerClicks ==
    ASSUME ApplicationInv, NEW i \in DOMAIN adding
    PROVE  /\ RemoveAt(adding, i) \in Seq(Athletes)
           /\ ClicksIn(RemoveAt(adding, i), drafts, twice, naming)
           /\ \A m \in DOMAIN RemoveAt(adding, i) :
                RemoveAt(adding, i)[m] = adding[i] => adding[i] \in twice
<1> DEFINE r == RemoveAt(adding, i)
<1>1. /\ r \in Seq(Athletes) /\ DOMAIN r = 1 .. Len(adding) - 1
      /\ \A m \in 1 .. Len(adding) - 1 : r[m] = IF m < i THEN adding[m] ELSE adding[m + 1]
  BY ApplicationTypes, RemovedSays, SMTT(60)
<1> HIDE DEF r
<1> DEFINE at(m) == IF m < i THEN m ELSE m + 1
<1>2. \A m \in DOMAIN r : at(m) \in DOMAIN adding /\ at(m) # i /\ r[m] = adding[at(m)]
  BY <1>1, ApplicationTypes
<1>3. \A m, n \in DOMAIN r : at(m) = at(n) => m = n
  BY <1>1, ApplicationTypes
<1> HIDE DEF at
<1>4. ClicksIn(adding, drafts, twice, naming)
  BY DEF ApplicationInv
<1>5. ClicksIn(r, drafts, twice, naming)
  <2>1. \A m \in DOMAIN r : r[m] \in Drafted(drafts) => r[m] \in twice
    BY <1>2, <1>4 DEF ClicksIn
  <2>2. \A m, n \in DOMAIN r : r[m] = r[n] => m = n \/ r[m] \in twice
    BY <1>2, <1>3, <1>4 DEF ClicksIn
  <2>3. naming => \A m \in DOMAIN r : r[m] \in ToSet(InAddress) => r[m] \in twice
    BY <1>2, <1>4 DEF ClicksIn
  <2> QED
    BY <2>1, <2>2, <2>3 DEF ClicksIn
<1>6. \A m \in DOMAIN r : r[m] = adding[i] => adding[i] \in twice
  BY <1>2, <1>4 DEF ClicksIn
<1> QED
  BY <1>1, <1>5, <1>6 DEF r

LEMMA AddedKeeps ==
    ASSUME ApplicationInv, NEW i \in DOMAIN adding, Added(i)
    PROVE  ApplicationInv'
<1> DEFINE a == adding[i]
           d == BuildDraft(a)
           r == RemoveAt(adding, i)
<1>1. /\ adding' = r /\ drafts' = Append(drafts, d) /\ active' = a
      /\ UNCHANGED <<paper, naming, twice>>
  BY DEF Added
<1>2. /\ r \in Seq(Athletes) /\ ClicksIn(r, drafts, twice, naming)
      /\ \A m \in DOMAIN r : r[m] = a => a \in twice
  BY FewerClicks
<1>3. a \in Athletes /\ d \in AppDraft /\ d.of = a
  BY ApplicationTypes, BuildSays
<1>4. a \in Drafted(drafts) => a \in twice
  BY DEF ApplicationInv, ClicksIn
<1> HIDE DEF a, d, r
<1>5. /\ drafts' \in Seq(AppDraft) /\ DOMAIN drafts' = 1 .. Len(drafts) + 1
      /\ \A n \in 1 .. Len(drafts) + 1 :
           drafts'[n] = IF n <= Len(drafts) THEN drafts[n] ELSE d
      /\ DOMAIN drafts = 1 .. Len(drafts) /\ Len(drafts) \in Nat
  BY <1>1, <1>3, ApplicationTypes
<1>6. \A n \in DOMAIN drafts' : \/ n \in DOMAIN drafts /\ drafts'[n] = drafts[n]
                                \/ n = Len(drafts) + 1 /\ drafts'[n] = d
  BY <1>5
<1>7. \A n \in DOMAIN drafts : n \in DOMAIN drafts' /\ drafts'[n] = drafts[n]
  BY <1>5
<1>8. Drafted(drafts') \subseteq Drafted(drafts) \cup {a} /\ a \in Drafted(drafts')
  <2>1. Len(drafts) + 1 \in DOMAIN drafts' /\ drafts'[Len(drafts) + 1] = d
    BY <1>5
  <2> QED
    BY <1>3, <1>6, <2>1 DEF Drafted, ToSet
<1>9. OnceIn(drafts', twice)
  <2>1. \A n \in DOMAIN drafts : drafts[n].of = a => a \in twice
    BY <1>4 DEF Drafted, ToSet
  <2>2. OnceIn(drafts, twice)
    BY DEF ApplicationInv
  <2> SUFFICES ASSUME NEW m \in DOMAIN drafts', NEW n \in DOMAIN drafts',
                      drafts'[m].of = drafts'[n].of, m # n
               PROVE  drafts'[m].of \in twice
    BY DEF OnceIn
  <2>3. CASE m \in DOMAIN drafts /\ n \in DOMAIN drafts
    BY <1>7, <2>2, <2>3 DEF OnceIn
  <2>4. CASE drafts'[m].of = a /\ (m \in DOMAIN drafts \/ n \in DOMAIN drafts)
    BY <1>7, <2>1, <2>4
  <2> QED
    BY <1>3, <1>6, <2>3, <2>4
<1>10. ClicksIn(r, drafts', twice, naming)
  BY <1>2, <1>8 DEF ClicksIn
<1>11. ActiveIn(a, drafts')
  BY <1>8 DEF ActiveIn
<1>12. ApplicationTypeOK'
  BY <1>1, <1>2, <1>3, <1>5 DEF ApplicationInv, ApplicationTypeOK
<1> QED
  BY <1>1, <1>9, <1>10, <1>11, <1>12 DEF ApplicationInv

LEMMA AddFailsKeeps ==
    ASSUME ApplicationInv, NEW i \in DOMAIN adding, AddFails(i)
    PROVE  ApplicationInv'
<1>1. adding' = RemoveAt(adding, i) /\ UNCHANGED <<drafts, active, paper, naming, twice>>
  BY DEF AddFails
<1>2. adding' \in Seq(Athletes) /\ ClicksIn(adding', drafts, twice, naming)
  BY <1>1, FewerClicks
<1> QED
  BY <1>1, <1>2 DEF ApplicationInv, ApplicationTypeOK

(* Those named who come: each once, and none who is in the application.    *)
LEMMA NewNamedSays ==
    ASSUME NEW ds
    PROVE  /\ NewNamed(ds) \in Seq(Athletes)
           /\ \A n \in DOMAIN NewNamed(ds) : /\ NewNamed(ds)[n] \in ToSet(InAddress)
                                             /\ NewNamed(ds)[n] \notin Drafted(ds)
           /\ \A a \in ToSet(InAddress) \ Drafted(ds) :
                \E n \in DOMAIN NewNamed(ds) : NewNamed(ds)[n] = a
           /\ \A m, n \in DOMAIN NewNamed(ds) : NewNamed(ds)[m] = NewNamed(ds)[n] => m = n
<1> DEFINE K == {n \in DOMAIN InAddress : InAddress[n] \notin Drafted(ds)}
           f == NewNamed(ds)
<1>1. InAddress \in Seq(Athletes) /\ DOMAIN InAddress = 1 .. Len(InAddress)
  BY ApplicationAssumption
<1>2. f = Filtered(InAddress, K)
  BY DEF NewNamed
<1> HIDE DEF f
<1>3. f \in Seq(Athletes) /\ \E e : Selects(InAddress, K, Len(InAddress), f, e)
  BY <1>1, <1>2, FilteredSays
<1>4. PICK e : Selects(InAddress, K, Len(InAddress), f, e)
  BY <1>3
<1>5. /\ DOMAIN f = 1 .. Len(f) /\ e \in [1 .. Len(f) -> 1 .. Len(InAddress)]
      /\ \A n \in DOMAIN f : e[n] \in K /\ f[n] = InAddress[e[n]]
      /\ \A k \in 1 .. Len(InAddress) : k \in K => \E n \in DOMAIN f : e[n] = k
      /\ \A l, n \in DOMAIN f : l < n => e[l] < e[n]
  <2>1. DOMAIN f = 1 .. Len(f)
    BY <1>3
  <2> QED
    BY ONLY <1>4, <2>1 DEF Selects
<1>6. \A n \in DOMAIN f : f[n] \in ToSet(InAddress) /\ f[n] \notin Drafted(ds)
  BY <1>5 DEF ToSet
<1>7. ASSUME NEW a \in ToSet(InAddress) \ Drafted(ds)
      PROVE  \E n \in DOMAIN f : f[n] = a
  <2>1. PICK k \in DOMAIN InAddress : InAddress[k] = a
    BY DEF ToSet
  <2>2. k \in K
    BY <2>1
  <2>3. PICK n \in DOMAIN f : e[n] = k
    BY <1>1, <1>5, <2>2
  <2> QED
    BY <1>5, <2>1, <2>3
<1>8. ASSUME NEW m \in DOMAIN f, NEW n \in DOMAIN f, f[m] = f[n]
      PROVE  m = n
  <2>1. e[m] = e[n]
    BY <1>1, <1>5, <1>8, ApplicationAssumption DEF IsInjective
  <2>2. m \in Nat /\ n \in Nat /\ e[m] \in Nat /\ ~(m < n) /\ ~(n < m)
    BY <1>1, <1>5, <2>1
  <2> QED
    BY <2>2
<1> QED
  BY <1>3, <1>6, <1>7, <1>8 DEF f

LEMMA NamedLoadedKeeps == ASSUME ApplicationInv, NamedLoaded PROVE ApplicationInv'
<1> DEFINE new == NewNamed(drafts)
           b   == [n \in DOMAIN new |-> BuildDraft(new[n])]
<1>1. /\ naming /\ naming' = FALSE /\ drafts' = drafts \o b
      /\ active' = IF active = NoAthlete THEN InAddress[1] ELSE active
      /\ UNCHANGED <<paper, adding, twice>>
  BY DEF NamedLoaded
<1>2. /\ new \in Seq(Athletes)
      /\ \A n \in DOMAIN new : new[n] \in ToSet(InAddress) /\ new[n] \notin Drafted(drafts)
      /\ \A a \in ToSet(InAddress) \ Drafted(drafts) : \E n \in DOMAIN new : new[n] = a
      /\ \A m, n \in DOMAIN new : new[m] = new[n] => m = n
  BY NewNamedSays
<1> HIDE DEF new
<1>3. /\ b \in Seq(AppDraft) /\ DOMAIN b = DOMAIN new /\ DOMAIN b = 1 .. Len(b)
      /\ \A n \in DOMAIN b : b[n].of = new[n]
  <2>1. \A n \in DOMAIN new : BuildDraft(new[n]) \in AppDraft /\ BuildDraft(new[n]).of = new[n]
    BY <1>2, BuildSays
  <2> QED
    BY <1>2, <2>1
<1> HIDE DEF b
<1> DEFINE j == drafts \o b
<1>4. /\ j \in Seq(AppDraft) /\ DOMAIN j = 1 .. Len(drafts) + Len(b)
      /\ \A n \in 1 .. Len(drafts) + Len(b) :
           j[n] = IF n <= Len(drafts) THEN drafts[n] ELSE b[n - Len(drafts)]
  BY <1>3, ApplicationTypes, JoinedSays
<1> HIDE DEF j
<1>5. DOMAIN drafts = 1 .. Len(drafts) /\ Len(drafts) \in Nat /\ Len(b) \in Nat
  BY <1>3, ApplicationTypes
<1>6. \A n \in DOMAIN j :
        \/ n \in DOMAIN drafts /\ j[n] = drafts[n]
        \/ n \notin DOMAIN drafts /\ n - Len(drafts) \in DOMAIN b /\ j[n] = b[n - Len(drafts)]
  BY <1>3, <1>4, <1>5
<1>7. \A n \in DOMAIN drafts : n \in DOMAIN j /\ j[n] = drafts[n]
  BY <1>4, <1>5
<1>8. \A n \in DOMAIN b : n + Len(drafts) \in DOMAIN j /\ j[n + Len(drafts)] = b[n]
  BY <1>3, <1>4, <1>5
<1>9. /\ Drafted(drafts) \subseteq Drafted(j) /\ ToSet(InAddress) \subseteq Drafted(j)
      /\ Drafted(j) \subseteq Drafted(drafts) \cup ToSet(InAddress)
  <2>1. Drafted(drafts) \subseteq Drafted(j)
    BY <1>7 DEF Drafted, ToSet
  <2>2. ASSUME NEW a \in ToSet(InAddress) \ Drafted(drafts)
        PROVE  a \in Drafted(j)
    <3>1. PICK n \in DOMAIN b : b[n].of = a
      BY <1>2, <1>3
    <3>2. n + Len(drafts) \in DOMAIN j /\ j[n + Len(drafts)].of = a
      BY <1>8, <3>1
    <3> QED
      BY <3>2, DraftedSays
  <2>3. ASSUME NEW a \in Drafted(j)
        PROVE  a \in Drafted(drafts) \cup ToSet(InAddress)
    <3>1. PICK n \in DOMAIN j : j[n].of = a
      BY DraftedSays
    <3> QED
      BY <1>2, <1>3, <1>6, <3>1, DraftedSays
  <2> QED
    BY <2>1, <2>2, <2>3
<1>10. OnceIn(j, twice)
  <2> SUFFICES ASSUME NEW m \in DOMAIN j, NEW n \in DOMAIN j, j[m].of = j[n].of, m # n
               PROVE  j[m].of \in twice
    BY DEF OnceIn
  <2>1. CASE m \in DOMAIN drafts /\ n \in DOMAIN drafts
    BY <1>7, <2>1 DEF ApplicationInv, OnceIn
  <2>2. CASE m \notin DOMAIN drafts /\ n \notin DOMAIN drafts
    <3>1. /\ m - Len(drafts) \in DOMAIN b /\ j[m].of = new[m - Len(drafts)]
          /\ n - Len(drafts) \in DOMAIN b /\ j[n].of = new[n - Len(drafts)]
      BY <1>3, <1>6, <2>2
    <3>2. m - Len(drafts) = n - Len(drafts)
      BY <1>2, <1>3, <3>1
    <3>3. m \in Nat /\ n \in Nat
      BY <1>4, <1>5
    <3> QED
      BY <1>5, <3>2, <3>3
  <2>3. ASSUME NEW k \in DOMAIN j, NEW l \in DOMAIN j, k \in DOMAIN drafts, l \notin DOMAIN drafts
        PROVE  j[k].of # j[l].of
    BY <1>2, <1>3, <1>6, <1>7, <2>3, DraftedSays
  <2> QED
    BY <2>1, <2>2, <2>3
<1>11. ClicksIn(adding, j, twice, FALSE)
  BY <1>1, <1>9 DEF ApplicationInv, ClicksIn
<1>12. active' \in Athletes /\ ActiveIn(active', j)
  <2>1. InAddress # <<>>
    BY <1>1 DEF ApplicationInv
  <2>2. 1 \in DOMAIN InAddress /\ InAddress[1] \in Athletes
    BY <2>1, ApplicationAssumption
  <2>3. InAddress[1] \in ToSet(InAddress)
    BY <2>2 DEF ToSet
  <2> QED
    BY <1>1, <1>9, <2>2, <2>3, ApplicationTypes DEF ApplicationInv, ActiveIn
<1>13. ApplicationTypeOK'
  BY <1>1, <1>4, <1>12 DEF ApplicationInv, ApplicationTypeOK, j
<1> QED
  BY <1>1, <1>10, <1>11, <1>12, <1>13 DEF ApplicationInv, j

LEMMA NamedFailsKeeps == ASSUME ApplicationInv, NamedFails PROVE ApplicationInv'
BY DEF ApplicationInv, ApplicationTypeOK, NamedFails, ClicksIn

(* The drafts of some swimmers, in their order.                            *)
LEMMA SomeDrafts ==
    ASSUME ApplicationInv, NEW K
    PROVE  LET f == Filtered(drafts, K) IN
           /\ f \in Seq(AppDraft) /\ Drafted(f) \subseteq Drafted(drafts)
           /\ OnceIn(f, twice)
           /\ \A n \in DOMAIN f : \E k \in K \cap DOMAIN drafts : f[n] = drafts[k]
           /\ \A k \in K \cap DOMAIN drafts : \E n \in DOMAIN f : f[n] = drafts[k]
<1> DEFINE f == Filtered(drafts, K)
<1>1. /\ drafts \in Seq(AppDraft) /\ DOMAIN drafts = 1 .. Len(drafts)
  BY ApplicationTypes
<1>2. f \in Seq(AppDraft) /\ \E e : Selects(drafts, K, Len(drafts), f, e)
  BY <1>1, FilteredSays
<1> HIDE DEF f
<1>3. PICK e : Selects(drafts, K, Len(drafts), f, e)
  BY <1>2
<1>4. /\ DOMAIN f = 1 .. Len(f) /\ e \in [1 .. Len(f) -> 1 .. Len(drafts)]
      /\ \A n \in DOMAIN f : e[n] \in K /\ f[n] = drafts[e[n]]
      /\ \A k \in 1 .. Len(drafts) : k \in K => \E n \in DOMAIN f : e[n] = k
      /\ \A l, n \in DOMAIN f : l < n => e[l] < e[n]
  <2>1. DOMAIN f = 1 .. Len(f)
    BY <1>2
  <2> QED
    BY ONLY <1>3, <2>1 DEF Selects
<1>5. \A n \in DOMAIN f : \E k \in K \cap DOMAIN drafts : f[n] = drafts[k]
  BY <1>1, <1>4
<1>6. ASSUME NEW k \in K \cap DOMAIN drafts
      PROVE  \E n \in DOMAIN f : f[n] = drafts[k]
  BY <1>1, <1>4
<1>7. Drafted(f) \subseteq Drafted(drafts)
  BY <1>5 DEF Drafted, ToSet
<1>8. OnceIn(f, twice)
  <2> SUFFICES ASSUME NEW m \in DOMAIN f, NEW n \in DOMAIN f, f[m].of = f[n].of, m # n
               PROVE  f[m].of \in twice
    BY DEF OnceIn
  <2>1. m \in Nat /\ n \in Nat /\ e[m] \in DOMAIN drafts /\ e[n] \in DOMAIN drafts
        /\ e[m] \in Nat /\ e[n] \in Nat
    BY <1>1, <1>4
  <2>2. e[m] # e[n]
    BY <1>4, <2>1
  <2> QED
    BY <1>4, <2>1, <2>2 DEF ApplicationInv, OnceIn
<1> QED
  BY <1>2, <1>5, <1>6, <1>7, <1>8 DEF f

LEMMA RemoveAthleteKeeps == ASSUME ApplicationInv, RemoveAthlete PROVE ApplicationInv'
<1> DEFINE K    == {n \in DOMAIN drafts : drafts[n].of # active}
           rest == Filtered(drafts, K)
<1>1. /\ drafts' = rest /\ active' = FirstOf(rest) /\ UNCHANGED <<paper, adding, naming, twice>>
  BY DEF RemoveAthlete
<1>2. rest \in Seq(AppDraft) /\ Drafted(rest) \subseteq Drafted(drafts) /\ OnceIn(rest, twice)
  BY SomeDrafts
<1> HIDE DEF rest
<1>3. FirstOf(rest) \in Athletes \cup {NoAthlete} /\ ActiveIn(FirstOf(rest), rest)
  <2>1. CASE rest = <<>>
    BY <2>1 DEF FirstOf, ActiveIn
  <2>2. CASE rest # <<>>
    <3>1. 1 \in DOMAIN rest /\ rest[1] \in AppDraft
      BY <1>2, <2>2
    <3> QED
      BY <2>2, <3>1, DraftedSays DEF FirstOf, ActiveIn, AppDraft
  <2> QED
    BY <2>1, <2>2
<1>4. ClicksIn(adding, rest, twice, naming)
  BY <1>2 DEF ApplicationInv, ClicksIn
<1> QED
  BY <1>1, <1>2, <1>3, <1>4 DEF ApplicationInv, ApplicationTypeOK

(* A change of rows leaves who is in the application.                      *)
LEMMA SetRowsKeeps ==
    ASSUME ApplicationInv, NEW S, NEW f, SetRows(S, f),
           \A n \in DOMAIN drafts : drafts[n].of \in S => f[drafts[n].rows] \in Counts
    PROVE  ApplicationInv'
<1> DEFINE ds == [n \in DOMAIN drafts |->
                    IF drafts[n].of \in S
                    THEN [drafts[n] EXCEPT !.rows = f[@]] ELSE drafts[n]]
<1>1. drafts' = ds /\ UNCHANGED <<active, paper, adding, naming, twice>>
  BY DEF SetRows
<1>2. \A n \in DOMAIN drafts : ds[n] \in AppDraft /\ ds[n].of = drafts[n].of
  <2> SUFFICES ASSUME NEW n \in DOMAIN drafts
               PROVE  ds[n] \in AppDraft /\ ds[n].of = drafts[n].of
    OBVIOUS
  <2>1. drafts[n] \in AppDraft
    BY ApplicationTypes
  <2>2. drafts[n].of \in S => f[drafts[n].rows] \in Counts
    OBVIOUS
  <2>3. ds[n] = IF drafts[n].of \in S
                THEN [drafts[n] EXCEPT !.rows = f[drafts[n].rows]] ELSE drafts[n]
    BY <2>1 DEF AppDraft
  <2> HIDE DEF ds
  <2> QED
    BY <2>1, <2>2, <2>3 DEF AppDraft
<1>3. DOMAIN ds = DOMAIN drafts /\ DOMAIN drafts = 1 .. Len(drafts) /\ Len(drafts) \in Nat
  BY ApplicationTypes
<1>4. ds \in Seq(AppDraft)
  BY <1>2, <1>3
<1> HIDE DEF ds
<1>5. Drafted(ds) = Drafted(drafts)
  <2>1. \A a \in Drafted(ds) : a \in Drafted(drafts)
    BY <1>2, <1>3, DraftedSays
  <2>2. \A a \in Drafted(drafts) : a \in Drafted(ds)
    BY <1>2, <1>3, DraftedSays
  <2> QED
    BY <2>1, <2>2
<1>6. OnceIn(ds, twice)
  BY <1>2, <1>3 DEF ApplicationInv, OnceIn
<1>7. ClicksIn(adding, ds, twice, naming) /\ ActiveIn(active, ds)
  BY <1>5 DEF ApplicationInv, ClicksIn, ActiveIn
<1> QED
  BY <1>1, <1>4, <1>6, <1>7 DEF ApplicationInv, ApplicationTypeOK

(* The rows of the draft that is shown.                                    *)
LEMMA RowsSay ==
    ASSUME ApplicationInv, Active
    PROVE  /\ RowsOf(active) \in Counts /\ active \in Athletes
           /\ \A n \in DOMAIN drafts :
                drafts[n].of = active => drafts[n] \in ToSet(DraftsOf(active))
<1> DEFINE K == {n \in DOMAIN drafts : drafts[n].of = active}
           f == DraftsOf(active)
<1>1. /\ f \in Seq(AppDraft)
      /\ \A k \in K \cap DOMAIN drafts : \E n \in DOMAIN f : f[n] = drafts[k]
  BY SomeDrafts DEF DraftsOf
<1>2. PICK k \in DOMAIN drafts : drafts[k].of = active
  BY DraftedSays DEF Active
<1>3. k \in K \cap DOMAIN drafts
  BY <1>2
<1> HIDE DEF f
<1>4. f # <<>>
  BY <1>1, <1>3
<1>5. f[1] \in AppDraft
  BY <1>1, <1>4
<1>6. RowsOf(active) \in Counts
  BY <1>5 DEF RowsOf, AppDraft, f
<1>7. ASSUME NEW n \in DOMAIN drafts, drafts[n].of = active
      PROVE  drafts[n] \in ToSet(f)
  <2>1. n \in K \cap DOMAIN drafts
    BY <1>7
  <2> QED
    BY <1>1, <2>1 DEF ToSet
<1>8. active \in Athletes
  BY <1>2, ApplicationTypes DEF AppDraft
<1> QED
  BY <1>6, <1>7, <1>8 DEF f

LEMMA RowStepsKeep ==
    ASSUME ApplicationInv,
           \/ AddRow \/ CopyRows \/ ClearRows
           \/ \E row \in Counts : RemoveRow(row)
           \/ \E n \in UNION {DOMAIN Earlier[a] : a \in Athletes} : SelectHistory(n)
    PROVE  ApplicationInv'
<1>1. /\ MaxRows \in Nat /\ \A a \in Athletes : Earlier[a] \in Seq(Counts)
      /\ \A n \in DOMAIN drafts : drafts[n].of \in Athletes /\ drafts[n].rows \in Counts
  BY ApplicationAssumption, ApplicationTypes DEF AppDraft
<1>2. ASSUME NEW n, SelectHistory(n)
      PROVE  ApplicationInv'
  <2> DEFINE f == [r \in Counts |-> Earlier[active][n]]
  <2>1. SetRows({active}, f) /\ Active /\ n \in DOMAIN Earlier[active]
    BY <1>2 DEF SelectHistory
  <2>2. Earlier[active][n] \in Counts
    BY <1>1, <2>1, RowsSay
  <2>3. \A m \in DOMAIN drafts : drafts[m].of \in {active} => f[drafts[m].rows] \in Counts
    BY <1>1, <2>2
  <2> HIDE DEF f
  <2> QED
    BY <2>1, <2>3, SetRowsKeeps
<1>3. CASE AddRow
  <2> DEFINE f == [r \in Counts |-> r + 1]
  <2>1. SetRows({active}, f) /\ Active /\ \A d \in ToSet(DraftsOf(active)) : d.rows < MaxRows
    BY <1>3 DEF AddRow
  <2>2. ASSUME NEW m \in DOMAIN drafts, drafts[m].of \in {active}
        PROVE  f[drafts[m].rows] \in Counts
    <3>1. drafts[m].rows < MaxRows
      BY <2>1, <2>2, RowsSay
    <3> QED
      BY <1>1, <3>1, SMTT(60) DEF Counts
  <2> HIDE DEF f
  <2> QED
    BY <2>1, <2>2, SetRowsKeeps
<1>4. ASSUME NEW row \in Counts, RemoveRow(row)
      PROVE  ApplicationInv'
  <2> DEFINE f == [r \in Counts |-> IF row <= r THEN r - 1 ELSE r]
  <2>1. SetRows({active}, f) /\ row \in 1 .. RowsOf(active)
    BY <1>4 DEF RemoveRow
  <2>2. ASSUME NEW m \in DOMAIN drafts
        PROVE  f[drafts[m].rows] \in Counts
    <3> DEFINE r == drafts[m].rows
    <3>1. r \in Counts /\ row \in Nat /\ row >= 1
      BY <1>1, <1>4, <2>1 DEF Counts
    <3>2. f[r] = IF row <= r THEN r - 1 ELSE r
      BY <3>1
    <3> HIDE DEF r, f
    <3> QED
      BY <1>1, <3>1, <3>2 DEF Counts, r
  <2> HIDE DEF f
  <2> QED
    BY <2>1, <2>2, SetRowsKeeps
<1>5. CASE CopyRows
  <2> DEFINE f == [r \in Counts |-> RowsOf(active)]
  <2>1. SetRows(Athletes \ {active}, f) /\ Active
    BY <1>5 DEF CopyRows
  <2>2. \A m \in DOMAIN drafts : f[drafts[m].rows] \in Counts
    BY <1>1, <2>1, RowsSay
  <2> HIDE DEF f
  <2> QED
    BY <2>1, <2>2, SetRowsKeeps
<1>6. CASE ClearRows
  <2> DEFINE f == [r \in Counts |-> 0]
  <2>1. SetRows(Athletes, f)
    BY <1>6 DEF ClearRows
  <2>2. \A m \in DOMAIN drafts : f[drafts[m].rows] \in Counts
    BY <1>1 DEF Counts
  <2> HIDE DEF f
  <2> QED
    BY <2>1, <2>2, SetRowsKeeps
<1> QED
  BY <1>2, <1>3, <1>4, <1>5, <1>6

LEMMA ApplicationStarts == ApplicationInit => ApplicationInv
<1> SUFFICES ASSUME ApplicationInit PROVE ApplicationInv
  OBVIOUS
<1>1. ApplicationTypeOK
  BY DEF ApplicationInit, ApplicationTypeOK
<1>2. OnceIn(drafts, twice) /\ ActiveIn(active, drafts)
  BY DEF ApplicationInit, OnceIn, ActiveIn
<1>3. ClicksIn(adding, drafts, twice, naming)
  BY DEF ApplicationInit, ClicksIn
<1>4. naming => InAddress # <<>>
  BY DEF ApplicationInit
<1> QED
  BY <1>1, <1>2, <1>3, <1>4 DEF ApplicationInv

LEMMA ApplicationSteps == ApplicationInv /\ [ApplicationNext]_applicationVars => ApplicationInv'
<1> SUFFICES ASSUME ApplicationInv, [ApplicationNext]_applicationVars PROVE ApplicationInv'
  OBVIOUS
<1>1. CASE UNCHANGED applicationVars
  BY <1>1 DEF applicationVars, ApplicationInv, ApplicationTypeOK
<1>2. CASE ApplicationNext
  BY <1>2, SmallStepsKeep, AddAthleteKeeps, AddedKeeps, AddFailsKeeps, NamedLoadedKeeps,
     NamedFailsKeeps, RemoveAthleteKeeps, RowStepsKeep DEF ApplicationNext
<1> QED
  BY <1>1, <1>2

-----------------------------------------------------------------------------
(* The page of a competition.  A list of events is any in which each is at *)
(* most once: it has no more than there are.                               *)
LEMMA ListsSay ==
    ASSUME NEW s
    PROVE  s \in Lists <=> s \in Seq(Races) /\ IsInjective(s)
<1> DEFINE c == Cardinality(Races)
<1>1. IsFiniteSet(Races) /\ c \in Nat
  BY TabAssumption, FS_CardinalityType
<1>2. ASSUME s \in Lists
      PROVE  s \in Seq(Races) /\ IsInjective(s)
  <2>1. PICK m \in 0 .. c : s \in [1 .. m -> Races]
    BY <1>2 DEF Lists, SeqOf
  <2>2. m \in Nat
    BY <1>1
  <2>3. s \in Seq(Races)
    BY <2>1, <2>2
  <2> QED
    BY <1>2, <2>3 DEF Lists
<1>3. ASSUME s \in Seq(Races), IsInjective(s)
      PROVE  s \in Lists
  <2> DEFINE n == Len(s)
  <2>1. n \in Nat /\ s \in [1 .. n -> Races] /\ DOMAIN s = 1 .. n
    BY <1>3
  <2> HIDE DEF n
  <2>2. IsFiniteSet(1 .. n) /\ Cardinality(1 .. n) = n
    BY <2>1, FS_Interval
  <2>3. ~(c < n)
    <3> SUFFICES ASSUME c < n PROVE FALSE
      OBVIOUS
    <3>1. c < Cardinality(1 .. n)
      BY <2>2
    <3>2. \E x, y \in 1 .. n : x # y /\ s[x] = s[y]
      BY <1>1, <2>1, <2>2, <3>1, FS_PigeonHole
    <3> QED
      BY <1>3, <2>1, <3>2 DEF IsInjective
  <2>4. n \in 0 .. c
    BY <1>1, <2>1, <2>3
  <2>5. s \in SeqOf(Races, c)
    BY <2>1, <2>4 DEF SeqOf
  <2> QED
    BY <1>3, <2>5 DEF Lists
<1> QED
  BY <1>2, <1>3

(* What keeps a list a list: a member left out, put in, or moved.          *)
LEMMA ShorterList ==
    ASSUME NEW s \in Lists, NEW i \in DOMAIN s
    PROVE  /\ RemoveAt(s, i) \in Lists /\ Len(RemoveAt(s, i)) = Len(s) - 1
           /\ \A m \in DOMAIN RemoveAt(s, i) : RemoveAt(s, i)[m] # s[i]
<1> DEFINE r == RemoveAt(s, i)
           at(m) == IF m < i THEN m ELSE m + 1
<1>1. s \in Seq(Races) /\ IsInjective(s) /\ DOMAIN s = 1 .. Len(s) /\ Len(s) \in Nat
  BY ListsSay
<1>0. /\ r \in Seq(Races) /\ Len(r) = Len(s) - 1
      /\ \A m \in 1 .. Len(s) - 1 : r[m] = IF m < i THEN s[m] ELSE s[m + 1]
  BY <1>1, RemovedSays
<1> HIDE DEF r
<1>2. /\ r \in Seq(Races) /\ Len(r) = Len(s) - 1 /\ DOMAIN r = 1 .. Len(s) - 1
      /\ \A m \in 1 .. Len(s) - 1 : r[m] = IF m < i THEN s[m] ELSE s[m + 1]
  BY <1>0
<1>3. \A m \in DOMAIN r : at(m) \in DOMAIN s /\ at(m) # i /\ r[m] = s[at(m)]
  BY <1>1, <1>2
<1>4. \A m, n \in DOMAIN r : at(m) = at(n) => m = n
  BY <1>1, <1>2
<1> HIDE DEF at
<1>5. IsInjective(r)
  BY <1>1, <1>3, <1>4 DEF IsInjective
<1>6. \A m \in DOMAIN r : r[m] # s[i]
  BY <1>1, <1>3 DEF IsInjective
<1> QED
  BY <1>2, <1>5, <1>6, ListsSay DEF r

LEMMA LongerList ==
    ASSUME NEW s \in Lists, NEW k \in 1 .. Len(s) + 1, NEW e \in Races,
           \A m \in DOMAIN s : s[m] # e
    PROVE  InsertAt(s, k, e) \in Lists
<1>1. s \in Seq(Races) /\ IsInjective(s) /\ DOMAIN s = 1 .. Len(s) /\ Len(s) \in Nat
  BY ListsSay
<1>0. /\ InsertAt(s, k, e) \in Seq(Races) /\ Len(InsertAt(s, k, e)) = Len(s) + 1
      /\ \A m \in 1 .. Len(s) + 1 :
           InsertAt(s, k, e)[m] = IF m < k THEN s[m] ELSE IF m = k THEN e ELSE s[m - 1]
  <2>1. Inserted(Races, s, k, e, InsertAt(s, k, e))
    BY <1>1, InsertedIs, Zenon
  <2> QED
    BY <2>1 DEF Inserted
<1> DEFINE r == InsertAt(s, k, e)
           at(m) == IF m < k THEN m ELSE m - 1
<1> HIDE DEF r
<1>2. /\ r \in Seq(Races) /\ DOMAIN r = 1 .. Len(s) + 1
      /\ \A m \in 1 .. Len(s) + 1 :
           r[m] = IF m < k THEN s[m] ELSE IF m = k THEN e ELSE s[m - 1]
  BY <1>0 DEF r
<1>3. \A m \in DOMAIN r : \/ m = k /\ r[m] = e
                          \/ m # k /\ at(m) \in DOMAIN s /\ r[m] = s[at(m)]
  BY <1>1, <1>2
<1>4. \A m, n \in DOMAIN r : m # k /\ n # k /\ at(m) = at(n) => m = n
  BY <1>1, <1>2
<1> HIDE DEF at
<1>5. IsInjective(r)
  BY <1>1, <1>3, <1>4 DEF IsInjective
<1> QED
  BY <1>2, <1>5, ListsSay DEF r

LEMMA FilteredList ==
    ASSUME NEW s \in Lists, NEW K
    PROVE  Filtered(s, K) \in Lists
<1> DEFINE f == Filtered(s, K)
<1>1. s \in Seq(Races) /\ IsInjective(s) /\ DOMAIN s = 1 .. Len(s) /\ Len(s) \in Nat
  BY ListsSay
<1>2. f \in Seq(Races) /\ \E e : Selects(s, K, Len(s), f, e)
  BY <1>1, FilteredSays
<1> HIDE DEF f
<1>3. PICK e : Selects(s, K, Len(s), f, e)
  BY <1>2
<1>4. DOMAIN f = 1 .. Len(f)
  BY <1>2
<1>5. /\ \A n \in DOMAIN f : e[n] \in 1 .. Len(s) /\ f[n] = s[e[n]]
      /\ \A l, n \in DOMAIN f : l < n => e[l] < e[n]
  BY ONLY <1>3, <1>4 DEF Selects
<1>6. ASSUME NEW m \in DOMAIN f, NEW n \in DOMAIN f, f[m] = f[n]
      PROVE  m = n
  <2>1. e[m] = e[n]
    BY <1>1, <1>5, <1>6 DEF IsInjective
  <2>2. m \in Nat /\ n \in Nat /\ e[m] \in Nat /\ ~(m < n) /\ ~(n < m)
    BY <1>4, <1>5, <2>1
  <2> QED
    BY <2>2
<1>7. IsInjective(f)
  BY <1>6 DEF IsInjective
<1> QED
  BY <1>2, <1>7, ListsSay DEF f

(* An answer with entries that has not been overtaken, and a removal whose *)
(* answer has not.                                                         *)
Answered(c, ops) == c.op \in ops /\ c.step = "answer" /\ ~c.stale

(* Of a request in flight: whose it is, what it is about, and what its     *)
(* answer says of the events and entries there are.                        *)
TabCallOK(c) ==
    /\ c.op \in OfPage => c.own
    /\ c.step = "read" => c.op \in {"load", "entries", "create", "seed"}
    /\ c.op \in {"entries", "create", "seed", "remove"} => c.race \in Races
    /\ c.op = "remove" => c.start \in c.entries.all

SaysWhatIs(c, li, st) ==
    /\ Answered(c, {"load"}) => c.order = li
    /\ Answered(c, {"entries", "create", "seed"}) => c.entries = st[c.race]
    /\ Answered(c, {"remove"}) => \A e \in Races : c.start \notin st[e].all

CallsGood(cs, li, st) ==
    /\ cs \in Seq(TabCall)
    /\ \A n \in DOMAIN cs : TabCallOK(cs[n]) /\ SaysWhatIs(cs[n], li, st)
    /\ \A m, n \in DOMAIN cs :
         Answered(cs[m], {"remove"}) /\ Answered(cs[n], {"remove"}) => m = n

(* Will the page load again, or bring the tab entries, or take it away?    *)
Reloads(c) == c.op = "load" \/ (c.op \in {"addEvent", "removeEvent", "order"}
                                  /\ c.step = "answer")
Refreshes(c) == \/ c.op \in {"entries", "create", "seed"} /\ c.step # "write"
                \/ c.op \in {"remove", "removeEvent"} /\ c.step = "answer"

EventsGood(cs, pg, li, un) ==
    un.events \/ pg.events = li \/ \E n \in DOMAIN cs : Reloads(cs[n])

EntriesGood(cs, pg, vw, st, un) ==
    Mounted(pg) /\ pg.selected # NoRace /\ ~un.entries =>
      vw.entries = st[pg.selected] \/ \E n \in DOMAIN cs : Refreshes(cs[n])

(* The answer to a removal, shown in place of the entries of that time, is *)
(* right, or something else comes.                                         *)
RemovesGood(cs, pg, vw, st, un) ==
    Mounted(pg) /\ ~un.entries =>
      \A n \in DOMAIN cs :
        Answered(cs[n], {"remove"}) /\ cs[n].race = pg.selected
                                    /\ vw.entries = cs[n].entries =>
          \/ NoLonger(cs[n].entries, cs[n].start) = st[pg.selected]
          \/ \E m \in DOMAIN cs \ {n} : Refreshes(cs[m])

(* What makes TabCatchesUp hold, whatever answers come in which order.     *)
TabInv ==
    /\ TabTypeOK /\ CallsGood(tabCalls, listed, starts)
    /\ EventsGood(tabCalls, page, listed, unsure)
    /\ EntriesGood(tabCalls, page, view, starts, unsure)
    /\ RemovesGood(tabCalls, page, view, starts, unsure)

LEMMA TabSays == TabInv => TabTypeOK /\ TabCatchesUp
BY DEF TabInv, TabCatchesUp, EventsGood, EntriesGood

LEMMA TabTypes ==
    TabInv => /\ listed \in Lists /\ starts \in [Races -> Drawing]
              /\ page \in Page /\ view \in View /\ tabCalls \in Seq(TabCall)
              /\ unsure \in [events : BOOLEAN, entries : BOOLEAN]
              /\ Len(tabCalls) \in Nat /\ DOMAIN tabCalls = 1 .. Len(tabCalls)
              /\ \A n \in DOMAIN tabCalls : tabCalls[n] \in TabCall
BY DEF TabInv, TabTypeOK

LEMMA NoStartsFit == NoStarts \in Drawing /\ <<>> \in Lists
<1>1. <<>> \in Seq(Races) /\ IsInjective(<<>>)
  BY DEF IsInjective
<1> QED
  BY <1>1, ListsSay DEF NoStarts, Drawing

(* What the tab and the page ask for.                                      *)
LEMMA AsksSay ==
    ASSUME NEW op \in {"load", "entries", "create", "seed", "seedAll", "remove",
                       "addEvent", "removeEvent", "order"},
           NEW race \in Races \cup {NoRace}, NEW step \in {"write", "read", "answer"}
    PROVE  LET c == TabAsks(op, race, step) IN
           /\ c \in TabCall /\ c.op = op /\ c.race = race /\ c.step = step /\ c.own
           /\ c.start \in Starters
<1>1. (CHOOSE s \in Starters : TRUE) \in Starters
  BY TabAssumption
<1> QED
  BY <1>1, NoStartsFit DEF TabAsks, TabCall

(* Requests made stale, requests of a tab that is gone, one request less.  *)
LEMMA StaleSays ==
    ASSUME NEW cs \in Seq(TabCall)
    PROVE  /\ Stale(cs) \in Seq(TabCall) /\ DOMAIN Stale(cs) = DOMAIN cs
           /\ Len(Stale(cs)) = Len(cs)
           /\ \A n \in DOMAIN cs :
                /\ Stale(cs)[n] = [cs[n] EXCEPT !.stale =
                     @ \/ (cs[n].op \in Brings /\ cs[n].step = "answer")]
                /\ Stale(cs)[n] \in TabCall
                /\ Stale(cs)[n].op = cs[n].op /\ Stale(cs)[n].step = cs[n].step
                /\ Stale(cs)[n].race = cs[n].race /\ Stale(cs)[n].own = cs[n].own
                /\ Stale(cs)[n].start = cs[n].start /\ Stale(cs)[n].order = cs[n].order
                /\ Stale(cs)[n].entries = cs[n].entries
                /\ cs[n].op \in Brings /\ cs[n].step = "answer" => Stale(cs)[n].stale
<1>1. /\ DOMAIN cs = 1 .. Len(cs) /\ Len(cs) \in Nat
      /\ \A n \in DOMAIN cs : cs[n] \in TabCall
  OBVIOUS
<1>2. DOMAIN Stale(cs) = DOMAIN cs
  BY DEF Stale
<1>3. ASSUME NEW n \in DOMAIN cs
      PROVE  /\ Stale(cs)[n] = [cs[n] EXCEPT !.stale =
                  @ \/ (cs[n].op \in Brings /\ cs[n].step = "answer")]
             /\ Stale(cs)[n] \in TabCall
             /\ Stale(cs)[n].op = cs[n].op /\ Stale(cs)[n].step = cs[n].step
             /\ Stale(cs)[n].race = cs[n].race /\ Stale(cs)[n].own = cs[n].own
             /\ Stale(cs)[n].start = cs[n].start /\ Stale(cs)[n].order = cs[n].order
             /\ Stale(cs)[n].entries = cs[n].entries
             /\ cs[n].op \in Brings /\ cs[n].step = "answer" => Stale(cs)[n].stale
  <2> DEFINE c == cs[n]
             b == c.stale \/ (c.op \in Brings /\ c.step = "answer")
             d == [c EXCEPT !.stale = b]
  <2>1. c \in TabCall
    BY <1>1
  <2>2. Stale(cs)[n] = d
    BY <2>1 DEF Stale, TabCall
  <2>3. b \in BOOLEAN /\ (c.op \in Brings /\ c.step = "answer" => b)
    BY <2>1 DEF TabCall
  <2>4. Stale(cs)[n] = [c EXCEPT !.stale = @ \/ (c.op \in Brings /\ c.step = "answer")]
    BY DEF Stale
  <2> HIDE DEF b, c
  <2>5. /\ d \in TabCall /\ d.op = c.op /\ d.step = c.step /\ d.race = c.race
        /\ d.own = c.own /\ d.start = c.start /\ d.order = c.order /\ d.entries = c.entries
        /\ d.stale = b
    BY <2>1, <2>3 DEF TabCall
  <2> HIDE DEF d
  <2> QED
    BY <2>2, <2>3, <2>4, <2>5 DEF c
<1>4. Stale(cs) \in Seq(TabCall)
  <2>1. Stale(cs) = [n \in 1 .. Len(cs) |-> Stale(cs)[n]]
    BY <1>1 DEF Stale
  <2>2. \A n \in 1 .. Len(cs) : Stale(cs)[n] \in TabCall
    BY <1>1, <1>3
  <2> HIDE <1>3
  <2> QED
    BY <1>1, <2>1, <2>2
<1>5. Len(Stale(cs)) = Len(cs)
  BY <1>1, <1>2, <1>4
<1> QED
  BY <1>2, <1>3, <1>4, <1>5

LEMMA OrphanedSays ==
    ASSUME NEW cs \in Seq(TabCall)
    PROVE  LET o == Orphaned(cs) IN
           /\ o \in Seq(TabCall)
           /\ \E e \in [DOMAIN o -> DOMAIN cs] :
                /\ \A m, n \in DOMAIN o : e[m] = e[n] => m = n
                /\ \A n \in DOMAIN o :
                     /\ o[n] \in TabCall
                     /\ o[n].op = cs[e[n]].op /\ o[n].step = cs[e[n]].step
                     /\ o[n].race = cs[e[n]].race /\ o[n].stale = cs[e[n]].stale
                     /\ o[n].start = cs[e[n]].start /\ o[n].order = cs[e[n]].order
                     /\ o[n].entries = cs[e[n]].entries
                     /\ o[n].op \in OfPage => o[n].own = cs[e[n]].own
                /\ \A k \in DOMAIN cs :
                     cs[k].op \in OfPage \cup {"order"} => \E n \in DOMAIN o : e[n] = k
<1> DEFINE K    == {n \in DOMAIN cs : cs[n].op \in OfPage \cup {"order"} \/ cs[n].step = "write"}
           left == Filtered(cs, K)
           o    == Orphaned(cs)
<1>1. o = [n \in DOMAIN left |-> [left[n] EXCEPT !.own = @ /\ left[n].op \in OfPage]]
  BY DEF Orphaned
<1>2. left \in Seq(TabCall) /\ \E e : Selects(cs, K, Len(cs), left, e)
  BY FilteredSays
<1> HIDE DEF left, o
<1>3. PICK e : Selects(cs, K, Len(cs), left, e)
  BY <1>2
<1>4. /\ DOMAIN left = 1 .. Len(left) /\ Len(left) \in Nat /\ DOMAIN cs = 1 .. Len(cs)
      /\ \A n \in DOMAIN left : left[n] \in TabCall
  BY <1>2
<1>5. /\ e \in [DOMAIN left -> DOMAIN cs]
      /\ \A n \in DOMAIN left : left[n] = cs[e[n]]
      /\ \A k \in DOMAIN cs : k \in K => \E n \in DOMAIN left : e[n] = k
      /\ \A l, n \in DOMAIN left : l < n => e[l] < e[n]
  BY ONLY <1>3, <1>4 DEF Selects
<1>6. \A m, n \in DOMAIN left : e[m] = e[n] => m = n
  <2> SUFFICES ASSUME NEW m \in DOMAIN left, NEW n \in DOMAIN left, e[m] = e[n]
               PROVE  m = n
    OBVIOUS
  <2>1. m \in Nat /\ n \in Nat /\ e[m] \in Nat /\ ~(m < n) /\ ~(n < m)
    BY <1>4, <1>5
  <2> QED
    BY <2>1
<1>7. DOMAIN o = DOMAIN left
  BY <1>1
<1>8. ASSUME NEW n \in DOMAIN o
      PROVE  /\ o[n] \in TabCall
             /\ o[n].op = cs[e[n]].op /\ o[n].step = cs[e[n]].step
             /\ o[n].race = cs[e[n]].race /\ o[n].stale = cs[e[n]].stale
             /\ o[n].start = cs[e[n]].start /\ o[n].order = cs[e[n]].order
             /\ o[n].entries = cs[e[n]].entries
             /\ o[n].op \in OfPage => o[n].own = cs[e[n]].own
  <2> DEFINE c == left[n]
             b == c.own /\ c.op \in OfPage
             d == [c EXCEPT !.own = b]
  <2>1. c \in TabCall /\ c = cs[e[n]]
    BY <1>4, <1>5, <1>7
  <2>2. o[n] = d
    BY <1>1, <1>7, <2>1 DEF TabCall
  <2>3. b \in BOOLEAN /\ (c.op \in OfPage => b = c.own)
    BY <2>1 DEF TabCall
  <2> HIDE DEF b, c
  <2>4. /\ d \in TabCall /\ d.op = c.op /\ d.step = c.step /\ d.race = c.race
        /\ d.own = b /\ d.start = c.start /\ d.order = c.order /\ d.entries = c.entries
        /\ d.stale = c.stale
    BY <2>1, <2>3 DEF TabCall
  <2> HIDE DEF d
  <2> QED
    BY <2>1, <2>2, <2>3, <2>4
<1>9. o \in Seq(TabCall)
  <2>1. o = [n \in 1 .. Len(left) |-> o[n]]
    BY <1>1, <1>4
  <2>2. \A n \in 1 .. Len(left) : o[n] \in TabCall
    BY <1>4, <1>7, <1>8
  <2> QED
    BY <1>4, <2>1, <2>2
<1>10. \A k \in DOMAIN cs :
         cs[k].op \in OfPage \cup {"order"} => \E n \in DOMAIN o : e[n] = k
  BY <1>5, <1>7
<1>11. /\ e \in [DOMAIN o -> DOMAIN cs]
       /\ \A m, n \in DOMAIN o : e[m] = e[n] => m = n
  BY <1>5, <1>6, <1>7
<1> QED
  BY <1>8, <1>9, <1>10, <1>11 DEF o

(* What is good of the requests stays so for some of them, and with one    *)
(* more that has not been answered.                                        *)
LEMMA OrphansGood ==
    ASSUME NEW cs, NEW li, NEW st, CallsGood(cs, li, st)
    PROVE  /\ CallsGood(Orphaned(cs), li, st)
           /\ (\E n \in DOMAIN cs : Reloads(cs[n])) =>
                \E n \in DOMAIN Orphaned(cs) : Reloads(Orphaned(cs)[n])
<1> DEFINE o == Orphaned(cs)
<1>1. cs \in Seq(TabCall)
  BY DEF CallsGood
<1>2. o \in Seq(TabCall)
  BY <1>1, OrphanedSays
<1>3. PICK e \in [DOMAIN o -> DOMAIN cs] :
        /\ \A m, n \in DOMAIN o : e[m] = e[n] => m = n
        /\ \A n \in DOMAIN o :
             /\ o[n] \in TabCall
             /\ o[n].op = cs[e[n]].op /\ o[n].step = cs[e[n]].step
             /\ o[n].race = cs[e[n]].race /\ o[n].stale = cs[e[n]].stale
             /\ o[n].start = cs[e[n]].start /\ o[n].order = cs[e[n]].order
             /\ o[n].entries = cs[e[n]].entries
             /\ o[n].op \in OfPage => o[n].own = cs[e[n]].own
        /\ \A k \in DOMAIN cs :
             cs[k].op \in OfPage \cup {"order"} => \E n \in DOMAIN o : e[n] = k
  BY <1>1, OrphanedSays
<1> HIDE DEF o
<1>4. ASSUME NEW n \in DOMAIN o
      PROVE  TabCallOK(o[n]) /\ SaysWhatIs(o[n], li, st)
  <2>1. e[n] \in DOMAIN cs /\ TabCallOK(cs[e[n]]) /\ SaysWhatIs(cs[e[n]], li, st)
    BY DEF CallsGood
  <2>2. TabCallOK(o[n])
    BY <1>3, <2>1 DEF TabCallOK
  <2>3. SaysWhatIs(o[n], li, st)
    BY <1>3, <2>1 DEF SaysWhatIs, Answered
  <2> QED
    BY <2>2, <2>3
<1>5. \A m, n \in DOMAIN o :
        Answered(o[m], {"remove"}) /\ Answered(o[n], {"remove"}) => m = n
  <2> SUFFICES ASSUME NEW m \in DOMAIN o, NEW n \in DOMAIN o,
                      Answered(o[m], {"remove"}), Answered(o[n], {"remove"})
               PROVE  m = n
    OBVIOUS
  <2>1. /\ e[m] \in DOMAIN cs /\ Answered(cs[e[m]], {"remove"})
        /\ e[n] \in DOMAIN cs /\ Answered(cs[e[n]], {"remove"})
    BY <1>3 DEF Answered
  <2>2. e[m] = e[n]
    BY <2>1 DEF CallsGood
  <2> QED
    BY <1>3, <2>2
<1>6. CallsGood(o, li, st)
  BY <1>2, <1>4, <1>5 DEF CallsGood
<1>7. ASSUME NEW k \in DOMAIN cs, Reloads(cs[k])
      PROVE  \E n \in DOMAIN o : Reloads(o[n])
  <2>1. cs[k].op \in OfPage \cup {"order"}
    BY <1>7 DEF Reloads, OfPage
  <2>2. PICK n \in DOMAIN o : e[n] = k
    BY <1>3, <2>1
  <2>3. Reloads(o[n])
    BY <1>3, <1>7, <2>2 DEF Reloads
  <2> QED
    BY <2>3
<1> QED
  BY <1>6, <1>7 DEF o

LEMMA OneMoreCall ==
    ASSUME NEW cs, NEW li, NEW st, CallsGood(cs, li, st),
           NEW c \in TabCall, TabCallOK(c), c.step # "answer"
    PROVE  /\ CallsGood(Append(cs, c), li, st)
           /\ DOMAIN cs \subseteq DOMAIN Append(cs, c)
           /\ \A n \in DOMAIN cs : Append(cs, c)[n] = cs[n]
           /\ \A n \in DOMAIN Append(cs, c) \ DOMAIN cs : Append(cs, c)[n] = c
           /\ \E n \in DOMAIN Append(cs, c) : n \notin DOMAIN cs
<1> DEFINE a == Append(cs, c)
<1>1. cs \in Seq(TabCall) /\ DOMAIN cs = 1 .. Len(cs) /\ Len(cs) \in Nat
  BY DEF CallsGood
<1>2. /\ a \in Seq(TabCall) /\ DOMAIN a = 1 .. Len(cs) + 1
      /\ \A n \in 1 .. Len(cs) + 1 : a[n] = IF n <= Len(cs) THEN cs[n] ELSE c
  BY <1>1
<1> HIDE DEF a
<1>3. \A n \in DOMAIN cs : n \in DOMAIN a /\ a[n] = cs[n]
  BY <1>1, <1>2
<1>4. \A n \in DOMAIN a \ DOMAIN cs : a[n] = c
  BY <1>1, <1>2
<1>5. Len(cs) + 1 \in DOMAIN a /\ Len(cs) + 1 \notin DOMAIN cs
  BY <1>1, <1>2
<1>6. \A n \in DOMAIN a : TabCallOK(a[n]) /\ SaysWhatIs(a[n], li, st)
  <2>1. \A n \in DOMAIN cs : TabCallOK(cs[n]) /\ SaysWhatIs(cs[n], li, st)
    BY DEF CallsGood
  <2>2. SaysWhatIs(c, li, st)
    BY DEF SaysWhatIs, Answered
  <2> QED
    BY <1>3, <1>4, <2>1, <2>2
<1>7. \A m, n \in DOMAIN a :
        Answered(a[m], {"remove"}) /\ Answered(a[n], {"remove"}) => m = n
  <2>1. ~Answered(c, {"remove"})
    BY DEF Answered
  <2>2. \A n \in DOMAIN a : Answered(a[n], {"remove"}) => n \in DOMAIN cs
    BY <1>4, <2>1
  <2> QED
    BY <1>3, <2>2 DEF CallsGood
<1>8. CallsGood(a, li, st)
  BY <1>2, <1>6, <1>7 DEF CallsGood
<1> QED
  BY <1>3, <1>4, <1>5, <1>8 DEF a

(* What is good of the page and its tab stays so while more is asked.      *)
LEMMA MoreIsGood ==
    ASSUME NEW cs, NEW cs2, NEW pg, NEW vw, NEW st, NEW un, NEW li,
           DOMAIN cs \subseteq DOMAIN cs2, \A n \in DOMAIN cs : cs2[n] = cs[n],
           \A n \in DOMAIN cs2 \ DOMAIN cs : cs2[n].step # "answer"
    PROVE  /\ EventsGood(cs, pg, li, un) => EventsGood(cs2, pg, li, un)
           /\ EntriesGood(cs, pg, vw, st, un) => EntriesGood(cs2, pg, vw, st, un)
           /\ RemovesGood(cs, pg, vw, st, un) => RemovesGood(cs2, pg, vw, st, un)
<1>1. (\E n \in DOMAIN cs : Reloads(cs[n])) => \E n \in DOMAIN cs2 : Reloads(cs2[n])
  OBVIOUS
<1>2. (\E n \in DOMAIN cs : Refreshes(cs[n])) => \E n \in DOMAIN cs2 : Refreshes(cs2[n])
  OBVIOUS
<1>3. ASSUME RemovesGood(cs, pg, vw, st, un), Mounted(pg), ~un.entries,
             NEW n \in DOMAIN cs2, Answered(cs2[n], {"remove"}),
             cs2[n].race = pg.selected, vw.entries = cs2[n].entries
      PROVE  \/ NoLonger(cs2[n].entries, cs2[n].start) = st[pg.selected]
             \/ \E m \in DOMAIN cs2 \ {n} : Refreshes(cs2[m])
  <2>1. n \in DOMAIN cs /\ cs2[n] = cs[n]
    BY <1>3 DEF Answered
  <2>2. \/ NoLonger(cs[n].entries, cs[n].start) = st[pg.selected]
        \/ \E m \in DOMAIN cs \ {n} : Refreshes(cs[m])
    BY <1>3, <2>1 DEF RemovesGood
  <2>3. ASSUME NEW m \in DOMAIN cs \ {n}, Refreshes(cs[m])
        PROVE  m \in DOMAIN cs2 \ {n} /\ Refreshes(cs2[m])
    BY <2>3
  <2> QED
    BY <2>1, <2>2, <2>3
<1>4. RemovesGood(cs, pg, vw, st, un) => RemovesGood(cs2, pg, vw, st, un)
  BY <1>3 DEF RemovesGood
<1> QED
  BY <1>1, <1>2, <1>4 DEF EventsGood, EntriesGood

(* The page becomes p: the tab that is on the screen then is as good as it *)
(* was, or asks for entries.                                               *)
LEMMA PageIsGood ==
    ASSUME NEW cs, NEW p \in Page, NEW un, page \in Page, view \in View,
           CallsGood(cs, listed, starts), PageBecomes(p, cs),
           Mounted(p) => /\ EntriesGood(cs, page, view, starts, un)
                         /\ RemovesGood(cs, page, view, starts, un)
    PROVE  /\ page' = p /\ view' \in View
           /\ CallsGood(tabCalls', listed, starts)
           /\ EntriesGood(tabCalls', p, view', starts, un)
           /\ RemovesGood(tabCalls', p, view', starts, un)
           /\ (\E n \in DOMAIN cs : Reloads(cs[n])) =>
                \E n \in DOMAIN tabCalls' : Reloads(tabCalls'[n])
<1> DEFINE new  == Mounted(p) /\ ~Mounted(page)
           gone == Mounted(page) /\ ~Mounted(p)
           wants == Mounted(p) /\ (new \/ p.selected # page.selected)
           v    == IF new \/ gone THEN NewView ELSE view
           kept == IF gone THEN Orphaned(cs) ELSE cs
           ask  == TabAsks("entries", p.selected, "read")
<1>1. /\ page' = p
      /\ ~wants => view' = v /\ tabCalls' = kept
      /\ wants /\ p.selected = NoRace =>
           view' = [v EXCEPT !.entries = NoStarts] /\ tabCalls' = kept
      /\ wants /\ p.selected # NoRace =>
           view' = [v EXCEPT !.loading = TRUE] /\ tabCalls' = Append(kept, ask)
  BY DEF PageBecomes
<1>2. v \in View
  BY NoStartsFit DEF NewView, View
<1>3. CASE ~Mounted(p)
  <2>1. view' = v /\ tabCalls' = kept
    BY <1>1, <1>3
  <2>2. CallsGood(tabCalls', listed, starts)
    BY <2>1, OrphansGood
  <2>3. (\E n \in DOMAIN cs : Reloads(cs[n])) =>
          \E n \in DOMAIN tabCalls' : Reloads(tabCalls'[n])
    BY <2>1, OrphansGood
  <2>4. /\ EntriesGood(tabCalls', p, view', starts, un)
        /\ RemovesGood(tabCalls', p, view', starts, un)
    BY <1>3 DEF EntriesGood, RemovesGood
  <2> QED
    BY <1>1, <1>2, <2>1, <2>2, <2>3, <2>4
<1>4. CASE Mounted(p) /\ ~wants
  <2>1. view' = view /\ tabCalls' = cs /\ p.selected = page.selected /\ Mounted(page)
    BY <1>1, <1>4
  <2>2. EntriesGood(cs, p, view, starts, un)
    BY <1>4, <2>1 DEF EntriesGood
  <2>3. RemovesGood(cs, p, view, starts, un)
    BY <1>4, <2>1 DEF RemovesGood
  <2> HIDE DEF wants, v, kept, new, gone
  <2> QED
    BY <1>1, <2>1, <2>2, <2>3
<1>5. CASE wants /\ p.selected = NoRace
  <2>1. view' = [v EXCEPT !.entries = NoStarts] /\ tabCalls' = cs
    BY <1>1, <1>5
  <2>2. view' \in View
    BY <1>2, <2>1, NoStartsFit DEF View
  <2>3. EntriesGood(cs, p, view', starts, un)
    BY <1>5 DEF EntriesGood
  <2>4. \A n \in DOMAIN cs : Answered(cs[n], {"remove"}) => cs[n].race # NoRace
    BY TabAssumption DEF CallsGood, TabCallOK, Answered
  <2>5. RemovesGood(cs, p, view', starts, un)
    BY <1>5, <2>4 DEF RemovesGood
  <2> QED
    BY <1>1, <2>1, <2>2, <2>3, <2>5
<1>6. CASE wants /\ p.selected # NoRace
  <2>1. view' = [v EXCEPT !.loading = TRUE] /\ tabCalls' = Append(cs, ask)
    BY <1>1, <1>6
  <2>2. view' \in View
    BY <1>2, <2>1 DEF View
  <2>3. p.selected \in Races
    BY <1>6 DEF Page
  <2>4. /\ ask \in TabCall /\ ask.op = "entries" /\ ask.race = p.selected
        /\ ask.step = "read" /\ ask.own
    BY <2>3, AsksSay
  <2> HIDE DEF wants, v, kept, new, gone, ask
  <2>5. TabCallOK(ask)
    BY <2>3, <2>4 DEF TabCallOK, OfPage
  <2> DEFINE a == Append(cs, ask)
  <2>6. /\ CallsGood(a, listed, starts) /\ DOMAIN cs \subseteq DOMAIN a
        /\ \A n \in DOMAIN cs : a[n] = cs[n]
        /\ \A n \in DOMAIN a \ DOMAIN cs : a[n] = ask
        /\ \E n \in DOMAIN a : n \notin DOMAIN cs
    BY <2>4, <2>5, OneMoreCall
  <2> HIDE DEF a
  <2>7. PICK k \in DOMAIN a : k \notin DOMAIN cs /\ a[k] = ask
    BY <2>6
  <2>8. Refreshes(a[k]) /\ ~Answered(a[k], {"remove"})
    BY <2>4, <2>7 DEF Refreshes, Answered
  <2>9. EntriesGood(a, p, view', starts, un)
    BY <2>7, <2>8 DEF EntriesGood
  <2>10. \A n \in DOMAIN a : Answered(a[n], {"remove"}) =>
           \E m \in DOMAIN a \ {n} : Refreshes(a[m])
    BY <2>7, <2>8
  <2>11. RemovesGood(a, p, view', starts, un)
    BY <2>10 DEF RemovesGood
  <2>12. (\E n \in DOMAIN cs : Reloads(cs[n])) => \E n \in DOMAIN a : Reloads(a[n])
    BY <2>6
  <2>13. tabCalls' = a
    BY <2>1 DEF a
  <2> QED
    BY <1>1, <2>2, <2>6, <2>9, <2>11, <2>12, <2>13
<1> QED
  BY <1>3, <1>4, <1>5, <1>6

(* The page becomes p while events and entries stay.                       *)
LEMMA PageKeeps ==
    ASSUME TabInv, NEW cs, NEW p \in Page, PageBecomes(p, cs),
           CallsGood(cs, listed, starts), UNCHANGED <<listed, starts>>,
           unsure' \in [events : BOOLEAN, entries : BOOLEAN],
           Mounted(p) => /\ EntriesGood(cs, page, view, starts, unsure')
                         /\ RemovesGood(cs, page, view, starts, unsure'),
           \/ unsure'.events \/ p.events = listed
           \/ \E n \in DOMAIN cs : Reloads(cs[n])
    PROVE  TabInv'
<1> DEFINE un == unsure'
<1>1. Mounted(p) => /\ EntriesGood(cs, page, view, starts, un)
                    /\ RemovesGood(cs, page, view, starts, un)
  OBVIOUS
<1> HIDE DEF un
<1>2. /\ page' = p /\ view' \in View /\ CallsGood(tabCalls', listed, starts)
      /\ EntriesGood(tabCalls', p, view', starts, un)
      /\ RemovesGood(tabCalls', p, view', starts, un)
      /\ (\E n \in DOMAIN cs : Reloads(cs[n])) =>
           \E n \in DOMAIN tabCalls' : Reloads(tabCalls'[n])
  BY <1>1, TabTypes, PageIsGood
<1>3. EventsGood(tabCalls', p, listed, unsure')
  BY <1>2 DEF EventsGood
<1>4. listed' = listed /\ starts' = starts
  OBVIOUS
<1>5. TabTypeOK'
  <2>1. tabCalls' \in Seq(TabCall)
    BY <1>2 DEF CallsGood
  <2> QED
    BY <1>2, <1>4, <2>1, TabTypes DEF TabTypeOK
<1>6. /\ CallsGood(tabCalls', listed', starts')
      /\ EventsGood(tabCalls', page', listed', unsure')
      /\ EntriesGood(tabCalls', page', view', starts', unsure')
      /\ RemovesGood(tabCalls', page', view', starts', unsure')
  BY <1>2, <1>3, <1>4 DEF un
<1> QED
  BY <1>5, <1>6 DEF TabInv

LEMMA SelectKeeps == ASSUME TabInv, NEW e \in Races, Select(e) PROVE TabInv'
<1> DEFINE p == [page EXCEPT !.selected = e]
<1>1. PageBecomes(p, tabCalls) /\ UNCHANGED <<listed, starts, unsure>>
  BY DEF Select
<1>2. p \in Page /\ p.events = page.events
  BY TabTypes DEF Page
<1> HIDE DEF p
<1>3. \/ unsure.events \/ p.events = listed \/ \E n \in DOMAIN tabCalls : Reloads(tabCalls[n])
  BY <1>2 DEF TabInv, EventsGood
<1>4. unsure' = unsure /\ unsure' \in [events : BOOLEAN, entries : BOOLEAN]
  BY <1>1, TabTypes
<1>5. /\ CallsGood(tabCalls, listed, starts)
      /\ EntriesGood(tabCalls, page, view, starts, unsure')
      /\ RemovesGood(tabCalls, page, view, starts, unsure')
  BY <1>4 DEF TabInv
<1> QED
  BY <1>1, <1>2, <1>3, <1>4, <1>5, PageKeeps

LEMMA SwitchTabKeeps == ASSUME TabInv, SwitchTab PROVE TabInv'
<1> DEFINE p == [page EXCEPT !.tab = ~@]
<1>1. PageBecomes(p, tabCalls) /\ UNCHANGED <<listed, starts, unsure>>
  BY DEF SwitchTab
<1>2. p \in Page /\ p.events = page.events
  BY TabTypes DEF Page
<1> HIDE DEF p
<1>3. \/ unsure.events \/ p.events = listed \/ \E n \in DOMAIN tabCalls : Reloads(tabCalls[n])
  BY <1>2 DEF TabInv, EventsGood
<1>4. unsure' = unsure /\ unsure' \in [events : BOOLEAN, entries : BOOLEAN]
  BY <1>1, TabTypes
<1>5. /\ CallsGood(tabCalls, listed, starts)
      /\ EntriesGood(tabCalls, page, view, starts, unsure')
      /\ RemovesGood(tabCalls, page, view, starts, unsure')
  BY <1>4 DEF TabInv
<1> QED
  BY <1>1, <1>2, <1>3, <1>4, <1>5, PageKeeps

(* A request is sent, and the entries shown stay.                          *)
LEMMA SendKeeps ==
    ASSUME TabInv, NEW c \in TabCall, TabCallOK(c), c.step = "write", Send(c),
           view' \in View, view'.entries = view.entries
    PROVE  TabInv'
<1> DEFINE a == Append(tabCalls, c)
<1>1. tabCalls' = a /\ UNCHANGED <<listed, starts, page, unsure>>
  BY DEF Send
<1>2. CallsGood(tabCalls, listed, starts) /\ c.step # "answer"
  BY DEF TabInv
<1>3. /\ CallsGood(a, listed, starts)
      /\ DOMAIN tabCalls \subseteq DOMAIN a
      /\ \A n \in DOMAIN tabCalls : a[n] = tabCalls[n]
      /\ \A n \in DOMAIN a \ DOMAIN tabCalls : a[n] = c
  BY <1>2, OneMoreCall
<1> HIDE DEF a
<1>4. /\ EventsGood(a, page, listed, unsure)
      /\ EntriesGood(a, page, view, starts, unsure)
      /\ RemovesGood(a, page, view, starts, unsure)
  BY <1>2, <1>3, MoreIsGood DEF TabInv
<1>5. /\ EntriesGood(a, page, view', starts, unsure)
      /\ RemovesGood(a, page, view', starts, unsure)
  BY <1>4 DEF EntriesGood, RemovesGood
<1>6. TabTypeOK'
  <2>1. a \in Seq(TabCall)
    BY <1>3 DEF CallsGood
  <2> QED
    BY <1>1, <2>1, TabTypes DEF TabTypeOK
<1> QED
  BY <1>1, <1>3, <1>4, <1>5, <1>6 DEF TabInv

LEMMA ButtonsKeep ==
    ASSUME TabInv,
           \/ AddEvent \/ CreateEntry \/ Seed \/ SeedAll \/ SaveOrder
           \/ \E e \in Races : RemoveEvent(e)
           \/ \E s \in Starters : RemoveEntry(s)
    PROVE  TabInv'
<1>1. /\ page \in Page /\ view \in View /\ page.selected \in Races \cup {NoRace}
      /\ \A n \in DOMAIN page.events : page.events[n] \in Races
  <2>1. page \in Page /\ view \in View
    BY TabTypes
  <2>2. page.events \in Seq(Races)
    BY <2>1, ListsSay DEF Page
  <2> QED
    BY <2>1, <2>2 DEF Page
<1>2. OnRace => page.selected \in Races
  BY <1>1 DEF OnRace, ToSet
<1>3. ASSUME NEW op \in {"addEvent", "removeEvent", "order"}, NEW race \in Races \cup {NoRace}
      PROVE  LET c == PageAsks(op, race) IN
             /\ c \in TabCall /\ TabCallOK(c) /\ c.step = "write"
  <2> DEFINE a == TabAsks(op, race, "write")
             c == [a EXCEPT !.was = page.selected]
  <2>1. a \in TabCall /\ a.op = op /\ a.race = race /\ a.step = "write" /\ a.own
    BY AsksSay
  <2> HIDE DEF a
  <2>2. /\ c \in TabCall /\ c.op = op /\ c.step = "write" /\ c.own
    BY <1>1, <2>1 DEF TabCall
  <2>3. c = PageAsks(op, race)
    BY DEF PageAsks, a
  <2> HIDE DEF c
  <2>4. TabCallOK(c)
    BY <2>2 DEF TabCallOK
  <2> QED
    BY <2>2, <2>3, <2>4
<1>4. ASSUME NEW op \in {"create", "seed", "seedAll"}, NEW race \in Races \cup {NoRace},
             op # "seedAll" => race \in Races
      PROVE  LET c == TabAsks(op, race, "write") IN
             /\ c \in TabCall /\ TabCallOK(c) /\ c.step = "write"
  <2> DEFINE c == TabAsks(op, race, "write")
  <2>1. c \in TabCall /\ c.op = op /\ c.race = race /\ c.step = "write" /\ c.own
    BY AsksSay
  <2> HIDE DEF c
  <2>2. TabCallOK(c)
    BY <1>4, <2>1 DEF TabCallOK
  <2> QED
    BY <2>1, <2>2 DEF c
<1>5. CASE AddEvent
  <2> DEFINE c == PageAsks("addEvent", NoRace)
  <2>1. c \in TabCall /\ TabCallOK(c) /\ c.step = "write"
    BY <1>3
  <2>2. Send(c) /\ view' = view
    BY <1>5 DEF AddEvent
  <2> HIDE DEF c
  <2> QED
    BY <1>1, <2>1, <2>2, SendKeeps
<1>6. ASSUME NEW e \in Races, RemoveEvent(e)
      PROVE  TabInv'
  <2> DEFINE c == PageAsks("removeEvent", e)
  <2>1. c \in TabCall /\ TabCallOK(c) /\ c.step = "write"
    BY <1>3
  <2>2. Send(c) /\ view' = view
    BY <1>6 DEF RemoveEvent
  <2> HIDE DEF c
  <2> QED
    BY <1>1, <2>1, <2>2, SendKeeps
<1>7. CASE CreateEntry
  <2> DEFINE c == TabAsks("create", page.selected, "write")
  <2>1. c \in TabCall /\ TabCallOK(c) /\ c.step = "write"
    BY <1>1, <1>2, <1>4, <1>7 DEF CreateEntry
  <2>2. Send(c) /\ view' = view
    BY <1>7 DEF CreateEntry
  <2> HIDE DEF c
  <2> QED
    BY <1>1, <2>1, <2>2, SendKeeps
<1>8. CASE Seed
  <2> DEFINE c == TabAsks("seed", page.selected, "write")
  <2>1. c \in TabCall /\ TabCallOK(c) /\ c.step = "write"
    BY <1>1, <1>2, <1>4, <1>8 DEF Seed
  <2>2. Send(c) /\ view' = view
    BY <1>8 DEF Seed
  <2> HIDE DEF c
  <2> QED
    BY <1>1, <2>1, <2>2, SendKeeps
<1>9. CASE SeedAll
  <2> DEFINE c == TabAsks("seedAll", NoRace, "write")
  <2>1. c \in TabCall /\ TabCallOK(c) /\ c.step = "write"
    BY <1>4
  <2>2. Send(c) /\ view' = view
    BY <1>9 DEF SeedAll
  <2> HIDE DEF c
  <2> QED
    BY <1>1, <2>1, <2>2, SendKeeps
<1>10. CASE SaveOrder
  <2> DEFINE a == PageAsks("order", NoRace)
             c == [a EXCEPT !.order = view.order]
  <2>1. a \in TabCall /\ TabCallOK(a) /\ a.step = "write"
    BY <1>3
  <2>2. Send(c) /\ view' = [view EXCEPT !.saving = TRUE]
    BY <1>10 DEF SaveOrder
  <2> HIDE DEF a
  <2>3. c \in TabCall /\ TabCallOK(c) /\ c.step = "write"
    BY <1>1, <2>1 DEF TabCall, View, TabCallOK
  <2>4. view' \in View /\ view'.entries = view.entries
    BY <1>1, <2>2 DEF View
  <2> HIDE DEF c
  <2> QED
    BY <2>2, <2>3, <2>4, SendKeeps
<1>11. ASSUME NEW s \in Starters, RemoveEntry(s)
       PROVE  TabInv'
  <2> DEFINE a == TabAsks("remove", page.selected, "write")
             c == [a EXCEPT !.start = s, !.entries = view.entries]
  <2>1. /\ a \in TabCall /\ a.op = "remove" /\ a.race = page.selected
        /\ a.step = "write" /\ a.own
    BY <1>1, AsksSay
  <2>2. Send(c) /\ view' = view /\ s \in view.entries.all /\ page.selected \in Races
    BY <1>2, <1>11 DEF RemoveEntry
  <2> HIDE DEF a
  <2>3. /\ c \in TabCall /\ c.op = "remove" /\ c.race = page.selected /\ c.step = "write"
        /\ c.start = s /\ c.entries = view.entries
    BY <1>1, <2>1 DEF TabCall, View
  <2> HIDE DEF c
  <2>4. TabCallOK(c)
    BY <2>2, <2>3 DEF TabCallOK, OfPage
  <2> QED
    BY <1>1, <2>2, <2>3, <2>4, SendKeeps
<1> QED
  BY <1>5, <1>6, <1>7, <1>8, <1>9, <1>10, <1>11

(* The mode of reordering has its own list.                                *)
LEMMA OrderingKeeps ==
    ASSUME TabInv,
           Reorder \/ \E i, j \in DOMAIN view.order : Move(i, j)
    PROVE  TabInv'
<1>1. page \in Page /\ view \in View
  BY TabTypes
<1>2. ASSUME view' \in View, view'.entries = view.entries,
             UNCHANGED <<listed, starts, page, tabCalls, unsure>>
      PROVE  TabInv'
  <2>1. /\ EntriesGood(tabCalls, page, view', starts, unsure)
        /\ RemovesGood(tabCalls, page, view', starts, unsure)
    BY <1>2 DEF TabInv, EntriesGood, RemovesGood
  <2> QED
    BY <1>2, <2>1 DEF TabInv, TabTypeOK
<1>3. CASE Reorder
  <2> DEFINE o == IF view.sorting THEN <<>> ELSE page.events
             b == ~view.sorting
  <2>1. o \in Lists /\ b \in BOOLEAN
    BY <1>1, NoStartsFit DEF Page, View
  <2>2. view' = [view EXCEPT !.sorting = b, !.order = o]
    BY <1>1, <1>3 DEF Reorder, View
  <2> HIDE DEF o, b
  <2>3. view' \in View /\ view'.entries = view.entries
    BY <1>1, <2>1, <2>2 DEF View
  <2> QED
    BY <1>2, <1>3, <2>3 DEF Reorder
<1>4. ASSUME NEW i \in DOMAIN view.order, NEW j \in DOMAIN view.order, Move(i, j)
      PROVE  TabInv'
  <2> DEFINE s == view.order
             r == RemoveAt(s, i)
             o == InsertAt(r, j, s[i])
  <2>1. s \in Lists
    BY <1>1 DEF View
  <2>2. s[i] \in Races /\ j \in 1 .. Len(s) /\ Len(s) \in Nat
    BY <2>1, ListsSay
  <2> HIDE DEF s
  <2>3. i \in DOMAIN s
    BY DEF s
  <2>4. r \in Lists /\ Len(r) = Len(s) - 1 /\ \A m \in DOMAIN r : r[m] # s[i]
    BY <2>1, <2>3, ShorterList
  <2> HIDE DEF r
  <2>5. o \in Lists
    BY <2>2, <2>4, LongerList
  <2>6. view' = [view EXCEPT !.order = o]
    BY <1>1, <1>4 DEF Move, View, o, r, s
  <2> HIDE DEF o
  <2>7. view' \in View /\ view'.entries = view.entries
    BY <1>1, <2>5, <2>6 DEF View
  <2> QED
    BY <1>2, <1>4, <2>7 DEF Move
<1> QED
  BY <1>3, <1>4

(* Once all that is answered is stale, nothing is said of what there is.   *)
LEMMA StaleGood ==
    ASSUME NEW cs, NEW li, NEW st, CallsGood(cs, li, st), NEW li2, NEW st2
    PROVE  /\ CallsGood(Stale(cs), li2, st2)
           /\ \A n \in DOMAIN Stale(cs) : ~Answered(Stale(cs)[n], {"remove"})
<1> DEFINE s == Stale(cs)
<1>1. /\ s \in Seq(TabCall) /\ DOMAIN s = DOMAIN cs
      /\ \A n \in DOMAIN cs :
           /\ s[n].op = cs[n].op /\ s[n].step = cs[n].step /\ s[n].race = cs[n].race
           /\ s[n].own = cs[n].own /\ s[n].start = cs[n].start
           /\ s[n].entries = cs[n].entries
           /\ cs[n].op \in Brings /\ cs[n].step = "answer" => s[n].stale
  BY StaleSays, ZenonT(60) DEF CallsGood
<1> HIDE DEF s
<1>2. ASSUME NEW n \in DOMAIN s
      PROVE  TabCallOK(s[n]) /\ ~Answered(s[n], Brings)
  <2>1. TabCallOK(cs[n])
    BY <1>1 DEF CallsGood
  <2> QED
    BY <1>1, <2>1 DEF TabCallOK, Answered
<1>3. \A n \in DOMAIN s : SaysWhatIs(s[n], li2, st2) /\ ~Answered(s[n], {"remove"})
  BY <1>2 DEF SaysWhatIs, Answered, Brings
<1> QED
  BY <1>1, <1>2, <1>3 DEF CallsGood, s

(* One request becomes another.                                            *)
LEMMA ChangedGood ==
    ASSUME NEW cs, NEW li, NEW st, CallsGood(cs, li, st),
           NEW i \in DOMAIN cs, NEW d \in TabCall, TabCallOK(d), SaysWhatIs(d, li, st),
           Answered(d, {"remove"}) => \A n \in DOMAIN cs : ~Answered(cs[n], {"remove"})
    PROVE  LET c2 == [cs EXCEPT ![i] = d] IN
           /\ CallsGood(c2, li, st) /\ DOMAIN c2 = DOMAIN cs
           /\ c2[i] = d /\ \A n \in DOMAIN cs \ {i} : c2[n] = cs[n]
<1> DEFINE c2 == [cs EXCEPT ![i] = d]
<1>1. cs \in Seq(TabCall)
  BY DEF CallsGood
<1>2. /\ c2 \in Seq(TabCall) /\ DOMAIN c2 = DOMAIN cs
      /\ c2[i] = d /\ \A n \in DOMAIN cs \ {i} : c2[n] = cs[n]
  BY <1>1
<1> HIDE DEF c2
<1>3. \A n \in DOMAIN c2 : TabCallOK(c2[n]) /\ SaysWhatIs(c2[n], li, st)
  BY <1>2 DEF CallsGood
<1>4. ASSUME NEW m \in DOMAIN c2, NEW n \in DOMAIN c2,
             Answered(c2[m], {"remove"}), Answered(c2[n], {"remove"})
      PROVE  m = n
  <2>1. CASE Answered(d, {"remove"})
    BY <1>2, <1>4, <2>1
  <2>2. CASE ~Answered(d, {"remove"})
    <3>1. m # i /\ n # i
      BY <1>2, <1>4, <2>2
    <3> QED
      BY <1>2, <1>4, <3>1 DEF CallsGood
  <2> QED
    BY <2>1, <2>2
<1> QED
  BY <1>2, <1>3, <1>4 DEF CallsGood, c2

(* One request less: the others are where e says.                          *)
Without1(cs, i, r, e) ==
    /\ r \in Seq(TabCall) /\ e \in [DOMAIN r -> DOMAIN cs \ {i}]
    /\ \A n \in DOMAIN r : r[n] = cs[e[n]]
    /\ \A m, n \in DOMAIN r : e[m] = e[n] => m = n
    /\ \A k \in DOMAIN cs \ {i} : \E n \in DOMAIN r : e[n] = k

LEMMA FewerCalls ==
    ASSUME NEW cs \in Seq(TabCall), NEW i \in DOMAIN cs
    PROVE  \E e : Without1(cs, i, RemoveAt(cs, i), e)
<1> DEFINE r == RemoveAt(cs, i)
           e == [m \in DOMAIN r |-> IF m < i THEN m ELSE m + 1]
<1>1. DOMAIN cs = 1 .. Len(cs) /\ Len(cs) \in Nat
  OBVIOUS
<1>0. /\ r \in Seq(TabCall) /\ Len(r) = Len(cs) - 1
      /\ \A m \in 1 .. Len(cs) - 1 : r[m] = IF m < i THEN cs[m] ELSE cs[m + 1]
  BY RemovedSays
<1>2. DOMAIN r = 1 .. Len(cs) - 1
  <2> HIDE DEF r
  <2> QED
    BY <1>0
<1> HIDE DEF r
<1>3. /\ e \in [DOMAIN r -> DOMAIN cs \ {i}]
      /\ \A n \in DOMAIN r : r[n] = cs[e[n]]
      /\ \A m, n \in DOMAIN r : e[m] = e[n] => m = n
  BY <1>0, <1>1, <1>2
<1>4. ASSUME NEW k \in DOMAIN cs \ {i}
      PROVE  \E n \in DOMAIN r : e[n] = k
  <2> DEFINE n == IF k < i THEN k ELSE k - 1
  <2>1. n \in DOMAIN r /\ e[n] = k
    BY <1>1, <1>2
  <2> QED
    BY <2>1
<1> HIDE DEF e
<1>5. Without1(cs, i, r, e)
  BY <1>0, <1>3, <1>4 DEF Without1
<1> QED
  BY <1>5 DEF r

LEMMA FewerGood ==
    ASSUME NEW cs, NEW li, NEW st, CallsGood(cs, li, st), NEW i \in DOMAIN cs
    PROVE  /\ CallsGood(RemoveAt(cs, i), li, st)
           /\ \A k \in DOMAIN cs \ {i} :
                \E n \in DOMAIN RemoveAt(cs, i) : RemoveAt(cs, i)[n] = cs[k]
           /\ \A n \in DOMAIN RemoveAt(cs, i) :
                \E k \in DOMAIN cs \ {i} : RemoveAt(cs, i)[n] = cs[k]
<1> DEFINE r == RemoveAt(cs, i)
<1>1. \E e : Without1(cs, i, r, e)
  BY FewerCalls DEF CallsGood
<1> HIDE DEF r
<1>2. PICK e : Without1(cs, i, r, e)
  BY <1>1
<1>3. \A n \in DOMAIN r : TabCallOK(r[n]) /\ SaysWhatIs(r[n], li, st)
  BY <1>2 DEF Without1, CallsGood
<1>4. ASSUME NEW m \in DOMAIN r, NEW n \in DOMAIN r,
             Answered(r[m], {"remove"}), Answered(r[n], {"remove"})
      PROVE  m = n
  <2>1. e[m] = e[n]
    BY <1>2, <1>4 DEF Without1, CallsGood
  <2> QED
    BY <1>2, <2>1 DEF Without1
<1>5. CallsGood(r, li, st)
  BY <1>2, <1>3, <1>4 DEF CallsGood, Without1
<1>6. /\ \A k \in DOMAIN cs \ {i} : \E n \in DOMAIN r : r[n] = cs[k]
      /\ \A n \in DOMAIN r : \E k \in DOMAIN cs \ {i} : r[n] = cs[k]
  BY <1>2 DEF Without1
<1> QED
  BY <1>5, <1>6 DEF r

(* A request less that brought nothing to the tab.                         *)
LEMMA FewerTabGood ==
    ASSUME NEW cs \in Seq(TabCall), NEW i \in DOMAIN cs, ~Refreshes(cs[i]),
           NEW pg, NEW vw, NEW st, NEW un
    PROVE  /\ EntriesGood(cs, pg, vw, st, un) =>
                EntriesGood(RemoveAt(cs, i), pg, vw, st, un)
           /\ RemovesGood(cs, pg, vw, st, un) =>
                RemovesGood(RemoveAt(cs, i), pg, vw, st, un)
<1> DEFINE r == RemoveAt(cs, i)
<1>1. \E e : Without1(cs, i, r, e)
  BY FewerCalls
<1> HIDE DEF r
<1>2. PICK e : Without1(cs, i, r, e)
  BY <1>1
<1>3. (\E n \in DOMAIN cs : Refreshes(cs[n])) => \E n \in DOMAIN r : Refreshes(r[n])
  BY <1>2 DEF Without1
<1>4. ASSUME RemovesGood(cs, pg, vw, st, un), Mounted(pg), ~un.entries,
             NEW n \in DOMAIN r, Answered(r[n], {"remove"}),
             r[n].race = pg.selected, vw.entries = r[n].entries
      PROVE  \/ NoLonger(r[n].entries, r[n].start) = st[pg.selected]
             \/ \E m \in DOMAIN r \ {n} : Refreshes(r[m])
  <2>1. e[n] \in DOMAIN cs /\ r[n] = cs[e[n]]
    BY <1>2 DEF Without1
  <2>2. \/ NoLonger(r[n].entries, r[n].start) = st[pg.selected]
        \/ \E m \in DOMAIN cs \ {e[n]} : Refreshes(cs[m])
    BY <1>4, <2>1 DEF RemovesGood
  <2>3. ASSUME NEW m \in DOMAIN cs \ {e[n]}, Refreshes(cs[m])
        PROVE  \E k \in DOMAIN r \ {n} : Refreshes(r[k])
    <3>1. PICK k \in DOMAIN r : e[k] = m
      BY <1>2, <2>3 DEF Without1
    <3>2. k # n /\ r[k] = cs[m]
      BY <1>2, <2>3, <3>1 DEF Without1
    <3> QED
      BY <2>3, <3>1, <3>2
  <2> QED
    BY <2>2, <2>3
<1>5. RemovesGood(cs, pg, vw, st, un) => RemovesGood(r, pg, vw, st, un)
  BY <1>4 DEF RemovesGood
<1> QED
  BY <1>3, <1>5 DEF EntriesGood, r

(* What the service writes keeps the lists lists, and the drawings         *)
(* drawings; what it leaves alone depends on the request.                  *)
LEMMA WriteCallSays ==
    ASSUME TabInv, NEW c \in TabCall, TabCallOK(c), WriteCall(c)
    PROVE  /\ listed' \in Lists /\ starts' \in [Races -> Drawing]
           /\ c.op \in {"create", "seed", "seedAll", "remove", "addEvent",
                        "removeEvent", "order"}
           /\ c.op \in {"create", "seed", "seedAll", "remove"} => listed' = listed
           /\ c.op \in {"addEvent", "order"} => starts' = starts
           /\ c.op = "remove" =>
                \A e \in Races : /\ starts'[e] = NoLonger(starts[e], c.start)
                                 /\ c.start \notin starts'[e].all
<1>1. /\ listed \in Lists /\ starts \in [Races -> Drawing]
      /\ listed \in Seq(Races) /\ DOMAIN listed = 1 .. Len(listed)
      /\ \A e \in Races : /\ starts[e].all \subseteq Starters
                          /\ starts[e].drawn \subseteq starts[e].all
  BY TabTypes, ListsSay DEF Drawing
<1>2. ASSUME c.op = "create", c.race \in ToSet(listed), NEW s \in Starters,
             starts' = [starts EXCEPT ![c.race].all = @ \cup {s}], listed' = listed
      PROVE  starts' \in [Races -> Drawing]
  <2>1. c.race \in Races
    BY <1>2 DEF TabCallOK
  <2> DEFINE d == [starts[c.race] EXCEPT !.all = @ \cup {s}]
  <2>2. d \in Drawing
    BY <1>1, <2>1 DEF Drawing
  <2>3. starts' = [starts EXCEPT ![c.race] = d]
    BY <1>2
  <2> HIDE DEF d
  <2> QED
    BY <1>1, <2>1, <2>2, <2>3
<1>3. \A e \in Races : Drawn(starts[e]) \in Drawing
  BY <1>1 DEF Drawn, Drawing
<1>4. CASE /\ c.op = "create" /\ c.race \in ToSet(listed)
           /\ \E s \in Starters :
                /\ \A e \in Races : s \notin starts[e].all
                /\ starts' = [starts EXCEPT ![c.race].all = @ \cup {s}]
           /\ UNCHANGED listed
  BY <1>1, <1>2, <1>4
<1>5. CASE /\ c.op = "seed" /\ c.race \in ToSet(listed)
           /\ starts' = [starts EXCEPT ![c.race] = Drawn(@)]
           /\ UNCHANGED listed
  <2>1. c.race \in Races
    BY <1>5 DEF TabCallOK
  <2> QED
    BY <1>1, <1>3, <1>5, <2>1
<1>6. CASE /\ c.op = "seedAll" /\ starts' = [e \in Races |-> Drawn(starts[e])]
           /\ UNCHANGED listed
  BY <1>1, <1>3, <1>6
<1>7. CASE /\ c.op = "remove" /\ \E e \in Races : c.start \in starts[e].all
           /\ starts' = [e \in Races |-> [all |-> starts[e].all \ {c.start},
                                          drawn |-> starts[e].drawn \ {c.start}]]
           /\ UNCHANGED listed
  <2>1. \A e \in Races : NoLonger(starts[e], c.start) \in Drawing
    BY <1>1 DEF Drawing, NoLonger
  <2>2. starts' = [e \in Races |-> NoLonger(starts[e], c.start)]
    BY <1>7 DEF NoLonger
  <2>3. \A e \in Races : c.start \notin NoLonger(starts[e], c.start).all
    BY DEF NoLonger
  <2> QED
    BY <1>1, <1>7, <2>1, <2>2, <2>3, ZenonT(60)
<1>8. CASE /\ c.op = "addEvent"
           /\ \E e \in Races \ ToSet(listed), k \in 1 .. Len(listed) + 1 :
                listed' = InsertAt(listed, k, e)
           /\ UNCHANGED starts
  <2>1. PICK e \in Races \ ToSet(listed), k \in 1 .. Len(listed) + 1 :
          listed' = InsertAt(listed, k, e)
    BY <1>8
  <2>2. \A m \in DOMAIN listed : listed[m] # e
    BY DEF ToSet
  <2>3. listed' \in Lists
    BY <1>1, <2>1, <2>2, LongerList
  <2> QED
    BY <1>1, <1>8, <2>3
<1>9. CASE /\ c.op = "removeEvent" /\ c.race \in ToSet(listed)
           /\ listed' = Filtered(listed, {n \in DOMAIN listed : listed[n] # c.race})
           /\ starts' = [starts EXCEPT ![c.race] = NoStarts]
  <2>1. listed' \in Lists
    BY <1>1, <1>9, FilteredList
  <2>2. starts' \in [Races -> Drawing]
    BY <1>1, <1>9, NoStartsFit
  <2> QED
    BY <1>9, <2>1, <2>2
<1>10. CASE /\ c.op = "order" /\ ToSet(c.order) \subseteq ToSet(listed)
            /\ listed' \in Lists /\ ToSet(listed') = ToSet(listed)
            /\ Filtered(listed', {n \in DOMAIN listed' : listed'[n] \in ToSet(c.order)})
                 = c.order
            /\ UNCHANGED starts
  BY <1>1, <1>10
<1> QED
  BY <1>4, <1>5, <1>6, <1>7, <1>8, <1>9, <1>10 DEF WriteCall

(* The service has written, and the requests are those of cs from then on. *)
LEMMA WrittenKeeps ==
    ASSUME TabInv, NEW cs, CallsGood(cs, listed', starts'), tabCalls' = cs,
           listed' \in Lists, starts' \in [Races -> Drawing],
           UNCHANGED <<page, view>>,
           unsure' \in [events : BOOLEAN, entries : BOOLEAN],
           EventsGood(cs, page, listed', unsure'),
           EntriesGood(cs, page, view, starts', unsure'),
           RemovesGood(cs, page, view, starts', unsure')
    PROVE  TabInv'
<1>1. TabTypeOK'
  BY TabTypes DEF TabTypeOK, CallsGood
<1>2. page' = page /\ view' = view
  OBVIOUS
<1> QED
  BY <1>1, <1>2 DEF TabInv

LEMMA UnwatchedKeeps ==
    ASSUME TabInv, NEW i \in DOMAIN tabCalls, Serves(i), Unwatched(tabCalls[i])
    PROVE  TabInv'
<1> DEFINE c  == tabCalls[i]
           r  == RemoveAt(tabCalls, i)
           cs == Stale(r)
<1>1. /\ c.step = "write" /\ WriteCall(c) /\ tabCalls' = cs
      /\ unsure' = [unsure EXCEPT !.entries = TRUE] /\ UNCHANGED <<page, view>>
  BY TabTypes DEF Serves
<1>2. c \in TabCall /\ TabCallOK(c) /\ CallsGood(tabCalls, listed, starts)
  BY TabTypes DEF TabInv, CallsGood
<1>3. /\ unsure' \in [events : BOOLEAN, entries : BOOLEAN]
      /\ unsure'.entries /\ unsure'.events = unsure.events
  BY <1>1, TabTypes
<1>4. ~Reloads(c) /\ c.op \in {"create", "seed", "seedAll", "remove"}
  <2>1. c.op \in {"create", "seed", "seedAll", "remove", "addEvent", "removeEvent", "order"}
    BY <1>1, <1>2, WriteCallSays
  <2> QED
    BY <1>1, <1>2, <2>1 DEF Unwatched, TabCallOK, OfPage, Reloads
<1>5. listed' = listed /\ listed' \in Lists /\ starts' \in [Races -> Drawing]
  BY <1>1, <1>2, <1>4, WriteCallSays
<1>6. /\ CallsGood(r, listed, starts)
      /\ \A k \in DOMAIN tabCalls \ {i} : \E n \in DOMAIN r : r[n] = tabCalls[k]
  BY <1>2, FewerGood
<1> HIDE DEF c, r
<1>7. CallsGood(cs, listed', starts')
  BY <1>6, StaleGood
<1>8. /\ DOMAIN cs = DOMAIN r
      /\ \A n \in DOMAIN r : cs[n].op = r[n].op /\ cs[n].step = r[n].step
  BY <1>6, StaleSays DEF CallsGood
<1> HIDE DEF cs
<1>9. ASSUME NEW k \in DOMAIN tabCalls, Reloads(tabCalls[k])
      PROVE  \E n \in DOMAIN cs : Reloads(cs[n])
  <2>1. k # i
    BY <1>4, <1>9 DEF c
  <2>2. PICK n \in DOMAIN r : r[n] = tabCalls[k]
    BY <1>6, <2>1
  <2>3. Reloads(cs[n])
    BY <1>8, <1>9, <2>2 DEF Reloads
  <2> QED
    BY <1>8, <2>3
<1>10. EventsGood(cs, page, listed', unsure')
  BY <1>3, <1>5, <1>9 DEF TabInv, EventsGood
<1>11. /\ EntriesGood(cs, page, view, starts', unsure')
       /\ RemovesGood(cs, page, view, starts', unsure')
  BY <1>3 DEF EntriesGood, RemovesGood
<1> QED
  BY <1>1, <1>3, <1>5, <1>7, <1>10, <1>11, WrittenKeeps

(* An entry is made, or the heats of an event: the tab asks for entries.   *)
LEMMA RefreshKeeps ==
    ASSUME TabInv, NEW i \in DOMAIN tabCalls, Serves(i), ~Unwatched(tabCalls[i]),
           tabCalls[i].op \in {"create", "seed"}
    PROVE  TabInv'
<1> DEFINE c  == tabCalls[i]
           d  == [c EXCEPT !.step = "read"]
           c2 == [tabCalls EXCEPT ![i] = d]
           cs == Stale(c2)
<1>1. /\ c.step = "write" /\ WriteCall(c) /\ tabCalls' = cs
      /\ unsure' = unsure /\ UNCHANGED <<page, view>>
  BY TabTypes DEF Serves
<1>2. c \in TabCall /\ TabCallOK(c) /\ CallsGood(tabCalls, listed, starts)
  BY TabTypes DEF TabInv, CallsGood
<1>3. unsure' \in [events : BOOLEAN, entries : BOOLEAN]
  BY <1>1, TabTypes
<1>4. listed' = listed /\ listed' \in Lists /\ starts' \in [Races -> Drawing]
  BY <1>1, <1>2, WriteCallSays
<1>5. d \in TabCall /\ d.op = c.op /\ d.step = "read" /\ d.race = c.race /\ d.own = c.own
  <2> HIDE DEF c
  <2> QED
    BY <1>2 DEF TabCall
<1>6. c.op \in {"create", "seed"}
  OBVIOUS
<1> HIDE DEF d
<1>7. TabCallOK(d) /\ SaysWhatIs(d, listed, starts) /\ ~Answered(d, {"remove"})
  BY <1>2, <1>5, <1>6 DEF TabCallOK, SaysWhatIs, Answered, OfPage
<1>8. /\ CallsGood(c2, listed, starts) /\ DOMAIN c2 = DOMAIN tabCalls
      /\ c2[i] = d /\ \A n \in DOMAIN tabCalls \ {i} : c2[n] = tabCalls[n]
  BY <1>2, <1>5, <1>7, ChangedGood
<1> HIDE DEF c2
<1>9. /\ CallsGood(cs, listed', starts')
      /\ \A n \in DOMAIN cs : ~Answered(cs[n], {"remove"})
  BY <1>8, StaleGood
<1>10. /\ DOMAIN cs = DOMAIN c2
       /\ \A n \in DOMAIN c2 : cs[n].op = c2[n].op /\ cs[n].step = c2[n].step
  BY <1>8, StaleSays DEF CallsGood
<1> HIDE DEF cs
<1>11. ASSUME NEW k \in DOMAIN tabCalls, Reloads(tabCalls[k])
       PROVE  \E n \in DOMAIN cs : Reloads(cs[n])
  <2>1. k # i
    BY <1>1, <1>6, <1>11 DEF Reloads, c
  <2>2. Reloads(cs[k]) /\ k \in DOMAIN cs
    BY <1>8, <1>10, <1>11, <2>1 DEF Reloads
  <2> QED
    BY <2>2
<1>12. EventsGood(cs, page, listed', unsure')
  BY <1>1, <1>4, <1>11 DEF TabInv, EventsGood
<1>13. i \in DOMAIN cs /\ Refreshes(cs[i])
  BY <1>5, <1>6, <1>8, <1>10 DEF Refreshes
<1>14. /\ EntriesGood(cs, page, view, starts', unsure')
       /\ RemovesGood(cs, page, view, starts', unsure')
  BY <1>9, <1>13 DEF EntriesGood, RemovesGood
<1> QED
  BY <1>1, <1>3, <1>4, <1>9, <1>12, <1>14, WrittenKeeps

(* The others are answered at once: the page, or the tab, is told.         *)
LEMMA ToldKeeps ==
    ASSUME TabInv, NEW i \in DOMAIN tabCalls, Serves(i), ~Unwatched(tabCalls[i]),
           tabCalls[i].op \notin {"create", "seed"}
    PROVE  TabInv'
<1> DEFINE c  == tabCalls[i]
           s  == Stale(tabCalls)
           d  == [s[i] EXCEPT !.step = "answer", !.order = <<>>]
           cs == [s EXCEPT ![i] = d]
<1>1. /\ c.step = "write" /\ WriteCall(c) /\ UNCHANGED <<page, view>>
      /\ tabCalls' = [Stale(tabCalls) EXCEPT ![i].step = "answer", ![i].order = <<>>]
      /\ unsure' = unsure
  BY TabTypes DEF Serves
<1>2. /\ c \in TabCall /\ TabCallOK(c) /\ CallsGood(tabCalls, listed, starts)
      /\ tabCalls \in Seq(TabCall)
  BY TabTypes DEF TabInv, CallsGood
<1>3. unsure' \in [events : BOOLEAN, entries : BOOLEAN]
  BY <1>1, TabTypes
<1>4. /\ listed' \in Lists /\ starts' \in [Races -> Drawing]
      /\ c.op \in {"remove", "addEvent", "removeEvent", "order"}
      /\ c.op = "remove" => listed' = listed
      /\ c.op \in {"addEvent", "order"} => starts' = starts
      /\ c.op = "remove" =>
           \A e \in Races : /\ starts'[e] = NoLonger(starts[e], c.start)
                            /\ c.start \notin starts'[e].all
  BY <1>1, <1>2, WriteCallSays DEF Unwatched
<1>5. /\ s \in Seq(TabCall) /\ DOMAIN s = DOMAIN tabCalls
      /\ \A n \in DOMAIN tabCalls :
           /\ s[n].op = tabCalls[n].op /\ s[n].step = tabCalls[n].step
      /\ s[i] \in TabCall /\ s[i].op = c.op /\ s[i].race = c.race /\ s[i].own = c.own
      /\ s[i].start = c.start /\ s[i].entries = c.entries
  BY <1>2, StaleSays, ZenonT(60)
<1>6. /\ CallsGood(s, listed', starts')
      /\ \A n \in DOMAIN s : ~Answered(s[n], {"remove"})
  BY <1>2, StaleGood
<1>7. tabCalls' = cs
  <2>1. i \in DOMAIN Stale(tabCalls)
    BY <1>5
  <2> QED
    BY <1>1, <2>1
<1> HIDE DEF s, c
<1>8. /\ d \in TabCall /\ d.op = c.op /\ d.step = "answer" /\ d.race = c.race
      /\ d.own = c.own /\ d.start = c.start /\ d.entries = c.entries
  BY <1>5, NoStartsFit DEF TabCall
<1> HIDE DEF d
<1>9. TabCallOK(d) /\ SaysWhatIs(d, listed', starts')
  <2>1. TabCallOK(d)
    BY <1>2, <1>8 DEF TabCallOK
  <2>2. Answered(d, {"remove"}) => \A e \in Races : d.start \notin starts'[e].all
    BY <1>4, <1>8 DEF Answered
  <2>3. d.op \in {"remove", "addEvent", "removeEvent", "order"}
    BY <1>4, <1>8
  <2> QED
    BY <2>1, <2>2, <2>3 DEF SaysWhatIs, Answered
<1> DEFINE li2 == listed'
           st2 == starts'
<1>10. CallsGood(s, li2, st2) /\ SaysWhatIs(d, li2, st2)
  BY <1>6, <1>9
<1> HIDE DEF li2, st2
<1>11. /\ CallsGood(cs, li2, st2) /\ DOMAIN cs = DOMAIN s
       /\ cs[i] = d /\ \A n \in DOMAIN s \ {i} : cs[n] = s[n]
  BY <1>5, <1>6, <1>8, <1>9, <1>10, ChangedGood
<1>12. CallsGood(cs, listed', starts')
  BY <1>11 DEF li2, st2
<1> HIDE DEF cs
<1>13. /\ DOMAIN cs = DOMAIN tabCalls
       /\ \A n \in DOMAIN tabCalls \ {i} :
            /\ cs[n].op = tabCalls[n].op /\ cs[n].step = tabCalls[n].step
            /\ ~Answered(cs[n], {"remove"})
  BY <1>5, <1>6, <1>11
<1>14. EventsGood(cs, page, listed', unsure')
  <2>1. CASE c.op = "remove"
    <3>1. ASSUME NEW k \in DOMAIN tabCalls, Reloads(tabCalls[k])
          PROVE  k \in DOMAIN cs /\ Reloads(cs[k])
      <4>1. k # i
        BY <2>1, <3>1 DEF Reloads, c
      <4> QED
        BY <1>13, <3>1, <4>1 DEF Reloads
    <3> QED
      BY <1>1, <1>4, <2>1, <3>1 DEF TabInv, EventsGood
  <2>2. CASE c.op \in {"addEvent", "removeEvent", "order"}
    <3>1. Reloads(cs[i]) /\ i \in DOMAIN cs
      BY <1>8, <1>11, <1>13, <2>2 DEF Reloads
    <3> QED
      BY <3>1 DEF EventsGood
  <2> QED
    BY <1>4, <2>1, <2>2
<1>15. ASSUME NEW k \in DOMAIN tabCalls, Refreshes(tabCalls[k])
       PROVE  k \in DOMAIN cs /\ k # i /\ Refreshes(cs[k])
  <2>1. k # i
    BY <1>1, <1>4, <1>15 DEF Refreshes, c
  <2> QED
    BY <1>13, <1>15, <2>1 DEF Refreshes
<1>16. EntriesGood(cs, page, view, starts', unsure')
  <2>1. CASE c.op \in {"remove", "removeEvent"}
    <3>1. Refreshes(cs[i]) /\ i \in DOMAIN cs
      BY <1>8, <1>11, <1>13, <2>1 DEF Refreshes
    <3> QED
      BY <3>1 DEF EntriesGood
  <2>2. CASE c.op \in {"addEvent", "order"}
    BY <1>1, <1>4, <1>15, <2>2 DEF TabInv, EntriesGood
  <2> QED
    BY <1>4, <2>1, <2>2
<1>17. RemovesGood(cs, page, view, starts', unsure')
  <2> SUFFICES ASSUME Mounted(page), ~unsure.entries, NEW n \in DOMAIN cs,
                      Answered(cs[n], {"remove"}), cs[n].race = page.selected,
                      view.entries = cs[n].entries
               PROVE  \/ NoLonger(cs[n].entries, cs[n].start) = starts'[page.selected]
                      \/ \E m \in DOMAIN cs \ {n} : Refreshes(cs[m])
    BY <1>1 DEF RemovesGood
  <2>1. n = i /\ c.op = "remove" /\ cs[n] = d
    BY <1>8, <1>11, <1>13 DEF Answered
  <2>2. page.selected \in Races /\ page.selected # NoRace
    BY <1>2, <1>8, <2>1, TabAssumption DEF TabCallOK
  <2>3. \/ view.entries = starts[page.selected]
        \/ \E m \in DOMAIN tabCalls : Refreshes(tabCalls[m])
    BY <2>2 DEF TabInv, EntriesGood
  <2>4. CASE view.entries = starts[page.selected]
    <3>1. starts'[page.selected] = NoLonger(starts[page.selected], c.start)
      BY <1>4, <2>1, <2>2
    <3> QED
      BY <1>8, <2>1, <2>4, <3>1
  <2>5. CASE \E m \in DOMAIN tabCalls : Refreshes(tabCalls[m])
    BY <1>15, <2>1, <2>5
  <2> QED
    BY <2>3, <2>4, <2>5
<1> QED
  BY <1>1, <1>3, <1>4, <1>7, <1>12, <1>14, <1>16, <1>17, WrittenKeeps

(* The answer is read: it says what is there, unless it was stale already. *)
LEMMA QueriesKeeps == ASSUME TabInv, NEW i \in DOMAIN tabCalls, Queries(i) PROVE TabInv'
<1> DEFINE c  == tabCalls[i]
           o  == IF c.op = "load" THEN listed ELSE <<>>
           en == IF c.op = "load" THEN NoStarts ELSE starts[c.race]
           d  == [c EXCEPT !.step = "answer", !.order = o, !.entries = en]
           cs == [tabCalls EXCEPT ![i] = d]
<1>1. /\ c.step = "read" /\ UNCHANGED <<listed, starts, page, view, unsure>>
      /\ tabCalls' = cs
  BY DEF Queries
<1>2. /\ c \in TabCall /\ TabCallOK(c) /\ CallsGood(tabCalls, listed, starts)
      /\ listed \in Lists /\ starts \in [Races -> Drawing]
  BY TabTypes DEF TabInv, CallsGood
<1>3. /\ c.op \in {"load", "entries", "create", "seed"}
      /\ c.op # "load" => c.race \in Races
  BY <1>1, <1>2 DEF TabCallOK
<1>4. /\ o \in Lists /\ en \in Drawing
      /\ c.op = "load" => o = listed
      /\ c.op # "load" => en = starts[c.race]
  BY <1>2, <1>3, NoStartsFit
<1> HIDE DEF c, o, en
<1>5. /\ d \in TabCall /\ d.op = c.op /\ d.step = "answer" /\ d.race = c.race
      /\ d.own = c.own /\ d.order = o /\ d.entries = en
  BY <1>2, <1>4 DEF TabCall
<1> HIDE DEF d
<1>6. TabCallOK(d) /\ SaysWhatIs(d, listed, starts) /\ ~Answered(d, {"remove"})
  <2>1. TabCallOK(d)
    BY <1>2, <1>3, <1>5 DEF TabCallOK
  <2>2. SaysWhatIs(d, listed, starts)
    BY <1>3, <1>4, <1>5 DEF SaysWhatIs, Answered
  <2> QED
    BY <1>3, <1>5, <2>1, <2>2 DEF Answered
<1>7. /\ CallsGood(cs, listed, starts) /\ DOMAIN cs = DOMAIN tabCalls
      /\ cs[i] = d /\ \A n \in DOMAIN tabCalls \ {i} : cs[n] = tabCalls[n]
  BY <1>2, <1>5, <1>6, ChangedGood
<1> HIDE DEF cs
<1>8. \A n \in DOMAIN tabCalls :
        /\ Reloads(tabCalls[n]) => Reloads(cs[n])
        /\ Refreshes(tabCalls[n]) => Refreshes(cs[n])
        /\ Answered(cs[n], {"remove"}) => cs[n] = tabCalls[n]
  <2>1. c.op = "load" => Reloads(d)
    BY <1>5 DEF Reloads
  <2>2. c.op # "load" => Refreshes(d)
    BY <1>3, <1>5 DEF Refreshes
  <2>3. (Reloads(c) => c.op = "load") /\ (Refreshes(c) => c.op # "load")
    BY <1>3 DEF Reloads, Refreshes
  <2> QED
    BY <1>6, <1>7, <2>1, <2>2, <2>3 DEF c
<1>9. EventsGood(cs, page, listed, unsure)
  BY <1>7, <1>8 DEF TabInv, EventsGood
<1>10. EntriesGood(cs, page, view, starts, unsure)
  BY <1>7, <1>8 DEF TabInv, EntriesGood
<1>11. RemovesGood(cs, page, view, starts, unsure)
  <2> SUFFICES ASSUME Mounted(page), ~unsure.entries, NEW n \in DOMAIN cs,
                      Answered(cs[n], {"remove"}), cs[n].race = page.selected,
                      view.entries = cs[n].entries
               PROVE  \/ NoLonger(cs[n].entries, cs[n].start) = starts[page.selected]
                      \/ \E m \in DOMAIN cs \ {n} : Refreshes(cs[m])
    BY DEF RemovesGood
  <2>1. cs[n] = tabCalls[n] /\ n \in DOMAIN tabCalls
    BY <1>7, <1>8
  <2>2. \/ NoLonger(cs[n].entries, cs[n].start) = starts[page.selected]
        \/ \E m \in DOMAIN tabCalls \ {n} : Refreshes(tabCalls[m])
    BY <2>1 DEF TabInv, RemovesGood
  <2> QED
    BY <1>7, <1>8, <2>2
<1>12. /\ CallsGood(cs, listed', starts') /\ listed' \in Lists /\ starts' \in [Races -> Drawing]
       /\ EventsGood(cs, page, listed', unsure')
       /\ EntriesGood(cs, page, view, starts', unsure')
       /\ RemovesGood(cs, page, view, starts', unsure')
  BY <1>1, <1>2, <1>7, <1>9, <1>10, <1>11
<1>13. unsure' \in [events : BOOLEAN, entries : BOOLEAN]
  BY <1>1, TabTypes
<1> QED
  BY <1>1, <1>12, <1>13, WrittenKeeps

(* An answer with entries is shown: they are those of the event selected,  *)
(* or the page cannot know.                                                *)
LEMMA ShownKeeps ==
    ASSUME TabInv, NEW i \in DOMAIN tabCalls, ~Reloads(tabCalls[i]),
           tabCalls' = RemoveAt(tabCalls, i), UNCHANGED <<listed, starts, page>>,
           view' \in View, unsure' \in [events : BOOLEAN, entries : BOOLEAN],
           unsure'.events = unsure.events,
           EntriesGood(tabCalls', page, view', starts, unsure'),
           RemovesGood(tabCalls', page, view', starts, unsure')
    PROVE  TabInv'
<1> DEFINE r == RemoveAt(tabCalls, i)
<1>1. CallsGood(tabCalls, listed, starts)
  BY DEF TabInv
<1>2. /\ CallsGood(r, listed, starts)
      /\ \A k \in DOMAIN tabCalls \ {i} : \E n \in DOMAIN r : r[n] = tabCalls[k]
  BY <1>1, FewerGood
<1>3. tabCalls' = r
  OBVIOUS
<1> HIDE DEF r
<1>4. EventsGood(r, page, listed, unsure')
  <2>1. ASSUME NEW k \in DOMAIN tabCalls, Reloads(tabCalls[k])
        PROVE  \E n \in DOMAIN r : Reloads(r[n])
    <3>1. PICK n \in DOMAIN r : r[n] = tabCalls[k]
      BY <1>2, <2>1
    <3> QED
      BY <2>1, <3>1
  <2> QED
    BY <2>1 DEF TabInv, EventsGood
<1>5. TabTypeOK'
  BY <1>2, <1>3, TabTypes DEF TabTypeOK, CallsGood
<1>6. listed' = listed /\ starts' = starts /\ page' = page
  OBVIOUS
<1> QED
  BY <1>2, <1>3, <1>4, <1>5, <1>6 DEF TabInv

LEMMA ShowEntriesKeeps ==
    ASSUME TabInv, NEW i \in DOMAIN tabCalls, ShowEntries(i) PROVE TabInv'
<1> DEFINE c == tabCalls[i]
           b == view.loading /\ c.op # "entries"
           u == c.stale \/ c.race # page.selected
           r == RemoveAt(tabCalls, i)
<1>1. /\ c.step = "answer" /\ c.op \in {"entries", "create", "seed"}
      /\ tabCalls' = r /\ UNCHANGED <<listed, starts, page>>
      /\ view' = [view EXCEPT !.entries = c.entries, !.loading = b]
      /\ unsure' = [unsure EXCEPT !.entries = u]
  BY DEF ShowEntries
<1>2. /\ c \in TabCall /\ TabCallOK(c) /\ SaysWhatIs(c, listed, starts)
      /\ view \in View /\ unsure \in [events : BOOLEAN, entries : BOOLEAN]
      /\ CallsGood(tabCalls, listed, starts)
  BY TabTypes DEF TabInv, CallsGood
<1>3. c.entries \in Drawing /\ b \in BOOLEAN /\ u \in BOOLEAN
  BY <1>2 DEF TabCall, View
<1>4. ~u => c.entries = starts[page.selected]
  BY <1>1, <1>2 DEF SaysWhatIs, Answered
<1>5. ~Reloads(c)
  BY <1>1 DEF Reloads
<1> HIDE DEF c, b, u
<1>6. view' \in View /\ view'.entries = c.entries
  BY <1>1, <1>2, <1>3 DEF View
<1>7. /\ unsure' \in [events : BOOLEAN, entries : BOOLEAN]
      /\ unsure'.events = unsure.events /\ unsure'.entries = u
  BY <1>1, <1>2, <1>3
<1>8. CallsGood(r, listed, starts)
  BY <1>2, FewerGood
<1> HIDE DEF r
<1>9. EntriesGood(r, page, view', starts, unsure')
  BY <1>4, <1>6, <1>7 DEF EntriesGood
<1>10. RemovesGood(r, page, view', starts, unsure')
  <2> SUFFICES ASSUME ~unsure'.entries, NEW n \in DOMAIN r, Answered(r[n], {"remove"}),
                      r[n].race = page.selected, view'.entries = r[n].entries
               PROVE  FALSE
    BY DEF RemovesGood
  <2>1. TabCallOK(r[n]) /\ SaysWhatIs(r[n], listed, starts)
    BY <1>8 DEF CallsGood
  <2>2. page.selected \in Races /\ r[n].start \in r[n].entries.all
    BY <2>1 DEF TabCallOK, Answered
  <2>3. r[n].start \notin starts[page.selected].all
    BY <2>1, <2>2 DEF SaysWhatIs
  <2> QED
    BY <1>4, <1>6, <1>7, <2>2, <2>3
<1>11. /\ tabCalls' = RemoveAt(tabCalls, i) /\ ~Reloads(tabCalls[i])
       /\ EntriesGood(tabCalls', page, view', starts, unsure')
       /\ RemovesGood(tabCalls', page, view', starts, unsure')
  BY <1>1, <1>5, <1>9, <1>10 DEF r, c
<1> QED
  BY <1>1, <1>6, <1>7, <1>11, ShownKeeps

LEMMA EntryRemovedKeeps ==
    ASSUME TabInv, NEW i \in DOMAIN tabCalls, EntryRemoved(i) PROVE TabInv'
<1> DEFINE c == tabCalls[i]
           d == NoLonger(c.entries, c.start)
           u == unsure.entries \/ c.stale \/ c.race # page.selected \/ view.entries # c.entries
           r == RemoveAt(tabCalls, i)
<1>1. /\ c.step = "answer" /\ c.op = "remove"
      /\ tabCalls' = r /\ UNCHANGED <<listed, starts, page>>
      /\ view' = [view EXCEPT !.entries = d]
      /\ unsure' = [unsure EXCEPT !.entries = u]
  BY DEF EntryRemoved
<1>2. /\ c \in TabCall /\ view \in View /\ unsure \in [events : BOOLEAN, entries : BOOLEAN]
      /\ CallsGood(tabCalls, listed, starts)
  BY TabTypes DEF TabInv, CallsGood
<1>3. d \in Drawing /\ u \in BOOLEAN
  BY <1>2 DEF TabCall, NoLonger, Drawing
<1>4. ~u => /\ Answered(c, {"remove"}) /\ c.race = page.selected
            /\ view.entries = c.entries /\ ~unsure.entries
  BY <1>1 DEF Answered
<1>5. ~Reloads(c)
  BY <1>1 DEF Reloads
<1>6. ASSUME ~u, Mounted(page)
      PROVE  d = starts[page.selected] \/ \E m \in DOMAIN tabCalls \ {i} : Refreshes(tabCalls[m])
  BY <1>4, <1>6 DEF TabInv, RemovesGood
<1>7. ASSUME ~u, NEW k \in DOMAIN tabCalls \ {i}
      PROVE  ~Answered(tabCalls[k], {"remove"})
  BY <1>2, <1>4, <1>7 DEF CallsGood
<1> HIDE DEF c, d, u
<1>8. view' \in View /\ view'.entries = d
  BY <1>1, <1>2, <1>3 DEF View
<1>9. /\ unsure' \in [events : BOOLEAN, entries : BOOLEAN]
      /\ unsure'.events = unsure.events /\ unsure'.entries = u
  BY <1>1, <1>2, <1>3
<1>10. /\ \A k \in DOMAIN tabCalls \ {i} : \E n \in DOMAIN r : r[n] = tabCalls[k]
       /\ \A n \in DOMAIN r : \E k \in DOMAIN tabCalls \ {i} : r[n] = tabCalls[k]
  BY <1>2, FewerGood
<1> HIDE DEF r
<1>11. EntriesGood(r, page, view', starts, unsure')
  <2> SUFFICES ASSUME ~u, Mounted(page)
               PROVE  d = starts[page.selected] \/ \E n \in DOMAIN r : Refreshes(r[n])
    BY <1>8, <1>9 DEF EntriesGood
  <2>1. ASSUME NEW m \in DOMAIN tabCalls \ {i}, Refreshes(tabCalls[m])
        PROVE  \E n \in DOMAIN r : Refreshes(r[n])
    <3>1. PICK n \in DOMAIN r : r[n] = tabCalls[m]
      BY <1>10
    <3> QED
      BY <2>1, <3>1
  <2> QED
    BY <1>6, <2>1
<1>12. ASSUME ~u, NEW n \in DOMAIN r PROVE ~Answered(r[n], {"remove"})
  <2>1. PICK k \in DOMAIN tabCalls \ {i} : r[n] = tabCalls[k]
    BY <1>10
  <2> QED
    BY <1>7, <1>12, <2>1
<1>13. RemovesGood(r, page, view', starts, unsure')
  BY <1>9, <1>12 DEF RemovesGood
<1>14. /\ tabCalls' = RemoveAt(tabCalls, i) /\ ~Reloads(tabCalls[i])
       /\ EntriesGood(tabCalls', page, view', starts, unsure')
       /\ RemovesGood(tabCalls', page, view', starts, unsure')
  BY <1>1, <1>5, <1>11, <1>13 DEF r, c
<1> QED
  BY <1>1, <1>8, <1>9, <1>14, ShownKeeps

(* The page is on its way again: there is no tab meanwhile.                *)
LEMMA ReloadKeeps == ASSUME TabInv, NEW i \in DOMAIN tabCalls, Reload(i) PROVE TabInv'
<1> DEFINE c  == tabCalls[i]
           e  == IF c.op = "removeEvent" /\ c.was = c.race THEN NoRace ELSE page.selected
           p  == [page EXCEPT !.loading = TRUE, !.selected = e]
           a  == TabAsks("load", NoRace, "read")
           d  == [a EXCEPT !.was = c.was]
           cs == [tabCalls EXCEPT ![i] = d]
<1>1. PageBecomes(p, cs) /\ UNCHANGED <<listed, starts, unsure>>
  BY DEF Reload
<1>2. /\ c \in TabCall /\ page \in Page /\ CallsGood(tabCalls, listed, starts)
      /\ a \in TabCall /\ a.op = "load" /\ a.step = "read" /\ a.own
  BY TabTypes, AsksSay DEF TabInv
<1>3. e \in Races \cup {NoRace} /\ c.was \in Races \cup {NoRace}
  BY <1>2 DEF TabCall, Page
<1> HIDE DEF c, e, a
<1>4. p \in Page /\ p.loading
  BY <1>2, <1>3 DEF Page
<1>5. d \in TabCall /\ d.op = "load" /\ d.step = "read" /\ d.own
  BY <1>2, <1>3 DEF TabCall
<1> HIDE DEF p, d
<1>6. TabCallOK(d) /\ SaysWhatIs(d, listed, starts) /\ ~Answered(d, {"remove"}) /\ Reloads(d)
  BY <1>5 DEF TabCallOK, SaysWhatIs, Answered, Reloads
<1>7. CallsGood(cs, listed, starts) /\ DOMAIN cs = DOMAIN tabCalls /\ cs[i] = d
  BY <1>2, <1>5, <1>6, ChangedGood
<1> HIDE DEF cs
<1>8. \E n \in DOMAIN cs : Reloads(cs[n])
  BY <1>6, <1>7
<1>9. unsure' \in [events : BOOLEAN, entries : BOOLEAN] /\ ~Mounted(p)
  BY <1>1, <1>4, TabTypes DEF Mounted
<1> QED
  BY <1>1, <1>4, <1>7, <1>8, <1>9, PageKeeps

LEMMA LoadedKeeps == ASSUME TabInv, NEW i \in DOMAIN tabCalls, Loaded(i) PROVE TabInv'
<1> DEFINE c == tabCalls[i]
           e == IF c.was = NoRace /\ c.order # <<>> THEN c.order[1] ELSE page.selected
           p == [page EXCEPT !.loading = FALSE, !.failed = FALSE, !.events = c.order,
                             !.selected = e]
           r == RemoveAt(tabCalls, i)
<1>1. /\ PageBecomes(p, r) /\ UNCHANGED <<listed, starts>>
      /\ unsure' = [unsure EXCEPT !.events = c.stale]
      /\ c.step = "answer" /\ c.op = "load"
  BY DEF Loaded
<1>2. /\ c \in TabCall /\ page \in Page /\ CallsGood(tabCalls, listed, starts)
      /\ tabCalls \in Seq(TabCall) /\ SaysWhatIs(c, listed, starts)
      /\ unsure \in [events : BOOLEAN, entries : BOOLEAN]
  BY TabTypes DEF TabInv, CallsGood
<1>3. c.order \in Lists /\ e \in Races \cup {NoRace}
  <2>1. c.order \in Lists
    BY <1>2 DEF TabCall
  <2>2. c.order \in Seq(Races)
    BY <2>1, ListsSay
  <2>3. c.order # <<>> => c.order[1] \in Races
    BY <2>2
  <2> QED
    BY <1>2, <2>1, <2>3 DEF Page
<1>4. c.stale \in BOOLEAN /\ (~c.stale => c.order = listed)
  BY <1>1, <1>2 DEF TabCall, SaysWhatIs, Answered
<1>5. ~Refreshes(c)
  BY <1>1 DEF Refreshes
<1> HIDE DEF c, e
<1>6. p \in Page /\ p.events = c.order
  BY <1>2, <1>3 DEF Page
<1> HIDE DEF p
<1>7. /\ unsure' \in [events : BOOLEAN, entries : BOOLEAN]
      /\ unsure'.events = c.stale /\ unsure'.entries = unsure.entries
  BY <1>1, <1>2, <1>4
<1>8. CallsGood(r, listed, starts)
  BY <1>2, FewerGood
<1>9. /\ EntriesGood(tabCalls, page, view, starts, unsure')
      /\ RemovesGood(tabCalls, page, view, starts, unsure')
  BY <1>7 DEF TabInv, EntriesGood, RemovesGood
<1> DEFINE un == unsure'
<1>10. /\ EntriesGood(tabCalls, page, view, starts, un)
       /\ RemovesGood(tabCalls, page, view, starts, un)
  BY <1>9
<1> HIDE DEF un
<1>11. EntriesGood(r, page, view, starts, un) /\ RemovesGood(r, page, view, starts, un)
  BY <1>2, <1>5, <1>10, FewerTabGood DEF c
<1> HIDE DEF r
<1>12. /\ EntriesGood(r, page, view, starts, unsure')
       /\ RemovesGood(r, page, view, starts, unsure')
  BY <1>11 DEF un
<1>13. unsure'.events \/ p.events = listed
  BY <1>4, <1>6, <1>7
<1> QED
  BY <1>1, <1>6, <1>7, <1>8, <1>12, <1>13, PageKeeps

(* Whatever was not done, the page and its tab cannot know.                *)
LEMMA CallFailsKeeps == ASSUME TabInv, NEW i \in DOMAIN tabCalls, CallFails(i) PROVE TabInv'
<1> DEFINE c  == tabCalls[i]
           r  == RemoveAt(tabCalls, i)
           cs == Stale(r)
<1>1. /\ c \in TabCall /\ TabCallOK(c) /\ page \in Page /\ view \in View
      /\ CallsGood(tabCalls, listed, starts)
      /\ listed \in Lists /\ starts \in [Races -> Drawing]
  BY TabTypes DEF TabInv, CallsGood
<1>2. /\ (c.step = "write" /\ WriteCall(c)) \/ UNCHANGED <<listed, starts>>
      /\ unsure' = [events |-> TRUE, entries |-> TRUE]
  BY DEF CallFails
<1>3. /\ unsure' \in [events : BOOLEAN, entries : BOOLEAN]
      /\ unsure'.events /\ unsure'.entries
  BY <1>2
<1>4. CallsGood(r, listed, starts)
  BY <1>1, FewerGood
<1> HIDE DEF r
<1>5. CallsGood(cs, listed, starts) /\ CallsGood(cs, listed', starts')
  BY <1>4, StaleGood
<1>6. CASE c.op = "load"
  <2> DEFINE p == [page EXCEPT !.failed = TRUE, !.loading = FALSE, !.events = <<>>]
  <2>1. PageBecomes(p, cs)
    BY <1>6 DEF CallFails, r
  <2>2. UNCHANGED <<listed, starts>>
    BY <1>2, <1>6 DEF WriteCall
  <2>3. p \in Page /\ p.failed
    BY <1>1, NoStartsFit DEF Page
  <2> HIDE DEF p, cs
  <2>4. ~Mounted(p)
    BY <2>3 DEF Mounted
  <2> QED
    BY <1>3, <1>5, <2>1, <2>2, <2>3, <2>4, PageKeeps
<1>7. CASE c.op # "load"
  <2> DEFINE b1 == view.loading /\ ~(c.own /\ c.op = "entries")
             b2 == view.saving /\ ~(c.own /\ c.op = "order")
  <2>1. /\ tabCalls' = cs /\ page' = page
        /\ view' = [view EXCEPT !.loading = b1, !.saving = b2]
    BY <1>7 DEF CallFails, r
  <2>2. b1 \in BOOLEAN /\ b2 \in BOOLEAN
    BY <1>1 DEF View, TabCall
  <2> HIDE DEF b1, b2, cs, c
  <2>3. view' \in View
    BY <1>1, <2>1, <2>2 DEF View
  <2>4. listed' \in Lists /\ starts' \in [Races -> Drawing]
    BY <1>1, <1>2, WriteCallSays
  <2>5. TabTypeOK'
    BY <1>1, <1>3, <1>5, <2>1, <2>3, <2>4 DEF TabTypeOK, CallsGood
  <2>6. /\ EventsGood(cs, page, listed', unsure')
        /\ EntriesGood(cs, page, view', starts', unsure')
        /\ RemovesGood(cs, page, view', starts', unsure')
    BY <1>3 DEF EventsGood, EntriesGood, RemovesGood
  <2> QED
    BY <1>5, <2>1, <2>5, <2>6 DEF TabInv
<1> QED
  BY <1>6, <1>7

(* At first the page is asked for.                                         *)
LEMMA TabStarts == TabInit => TabInv
<1> SUFFICES ASSUME TabInit PROVE TabInv
  OBVIOUS
<1> DEFINE a == TabAsks("load", NoRace, "read")
<1>1. a \in TabCall /\ a.op = "load" /\ a.step = "read" /\ a.own
  BY AsksSay
<1> HIDE DEF a
<1>2. tabCalls = <<a>> /\ tabCalls \in Seq(TabCall) /\ DOMAIN tabCalls = {1} /\ tabCalls[1] = a
  BY <1>1 DEF TabInit, a
<1>3. TabTypeOK
  BY <1>2, NoStartsFit DEF TabInit, TabTypeOK, Page, View, NewView
<1>4. TabCallOK(a) /\ SaysWhatIs(a, listed, starts) /\ Reloads(a)
  BY <1>1 DEF TabCallOK, SaysWhatIs, Answered, Reloads
<1>5. CallsGood(tabCalls, listed, starts) /\ EventsGood(tabCalls, page, listed, unsure)
  BY <1>2, <1>4 DEF CallsGood, EventsGood
<1>6. ~Mounted(page)
  BY DEF TabInit, Mounted
<1> QED
  BY <1>3, <1>5, <1>6 DEF TabInv, EntriesGood, RemovesGood

LEMMA TabSteps == TabInv /\ [TabNext]_tabVars => TabInv'
<1> SUFFICES ASSUME TabInv, [TabNext]_tabVars PROVE TabInv'
  OBVIOUS
<1>1. CASE UNCHANGED tabVars
  BY <1>1 DEF tabVars, TabInv, TabTypeOK
<1>2. ASSUME NEW e \in Races, Select(e) PROVE TabInv'
  BY <1>2, SelectKeeps
<1>3. CASE SwitchTab
  BY <1>3, SwitchTabKeeps
<1>4. CASE \/ AddEvent \/ CreateEntry \/ Seed \/ SeedAll \/ SaveOrder
           \/ \E e \in Races : RemoveEvent(e)
           \/ \E s \in Starters : RemoveEntry(s)
  BY <1>4, ButtonsKeep
<1>5. CASE Reorder \/ \E i, j \in DOMAIN view.order : Move(i, j)
  BY <1>5, OrderingKeeps
<1>6. ASSUME NEW i \in DOMAIN tabCalls, Serves(i) PROVE TabInv'
  BY <1>6, UnwatchedKeeps, RefreshKeeps, ToldKeeps
<1>7. ASSUME NEW i \in DOMAIN tabCalls,
             \/ Queries(i) \/ CallFails(i) \/ ShowEntries(i)
             \/ EntryRemoved(i) \/ Reload(i) \/ Loaded(i)
      PROVE  TabInv'
  BY <1>7, QueriesKeeps, CallFailsKeeps, ShowEntriesKeeps, EntryRemovedKeeps, ReloadKeeps,
     LoadedKeeps
<1> QED
  BY <1>1, <1>2, <1>3, <1>4, <1>5, <1>6, <1>7 DEF TabNext

-----------------------------------------------------------------------------
(* The parts side by side: each goes by its own next-state relation.       *)
LEMMA SetupIsItsParts ==
    /\ SetupInit => Init /\ TabInit /\ WizardInit /\ ApplicationInit /\ NormInit
    /\ [SetupNext]_setupVars =>
         /\ [Next]_vars /\ [TabNext]_tabVars /\ [WizardNext]_wizardVars
         /\ [ApplicationNext]_applicationVars /\ [NormNext]_normVars
         /\ UNCHANGED part
<1>1. SetupInit => Init /\ TabInit /\ WizardInit /\ ApplicationInit /\ NormInit
  BY DEF SetupInit
<1>2. ASSUME SetupNext
      PROVE  /\ [Next]_vars /\ [TabNext]_tabVars /\ [WizardNext]_wizardVars
             /\ [ApplicationNext]_applicationVars /\ [NormNext]_normVars
             /\ UNCHANGED part
  BY <1>2 DEF SetupNext, Frozen
<1>3. ASSUME UNCHANGED setupVars
      PROVE  /\ [Next]_vars /\ [TabNext]_tabVars /\ [WizardNext]_wizardVars
             /\ [ApplicationNext]_applicationVars /\ [NormNext]_normVars
             /\ UNCHANGED part
  BY <1>3 DEF setupVars
<1> QED
  BY <1>1, <1>2, <1>3

(* The invariants of all five, and the part that was chosen.               *)
SetupInv ==
    ImportInv /\ TabInv /\ WizardInv /\ ApplicationInv /\ NormInv /\ part \in Parts

LEMMA SetupStarts == SetupInit => SetupInv
<1>1. SetupInit => part \in Parts
  BY DEF SetupInit
<1> QED
  BY <1>1, SetupIsItsParts, ImportStarts, TabStarts, WizardStarts, ApplicationStarts,
     NormStarts DEF SetupInv

LEMMA SetupSteps == SetupInv /\ [SetupNext]_setupVars => SetupInv'
BY SetupIsItsParts, ImportSteps, TabSteps, WizardSteps, ApplicationSteps, NormSteps
   DEF SetupInv

(* The invariant of what fills a competition is kept by every step of its  *)
(* parts (athletes.service.ts, EventsTab.tsx, import/page.tsx,             *)
(* applications/new/page.tsx, normatives/page.tsx).                        *)
THEOREM SetupInvariance == SetupSpec => []SetupInv
BY SetupStarts, SetupSteps, PTL DEF SetupSpec

(* Rows, requests, forms and pages stay in their types.                    *)
THEOREM SetupTypesCorrect == SetupSpec => []SetupTypeOK
<1>1. SetupInv => SetupTypeOK
  BY TabSays, ApplicationSays
  DEF SetupInv, ImportInv, WizardInv, NormInv, Parts, SetupTypeOK
<1> QED
  BY <1>1, SetupInvariance, PTL

(* With no request in flight the tab of events and the table of the norms  *)
(* show what there is, unless something they cannot know has come between, *)
(* in whatever order requests were sent, served, refused and answered      *)
(* (EventsTab.tsx:78-181, normatives/page.tsx).                            *)
THEOREM ListsFollow == SetupSpec => []ListsCatchUp
<1>1. NormInv => TableCatchesUp
  BY NormCatchesUp
<1>2. SetupInv => ListsCatchUp
  BY <1>1, TabSays DEF SetupInv, ListsCatchUp
<1> QED
  BY <1>2, SetupInvariance, PTL

(* A norm is saved under the row its form was filled from, a file as it    *)
(* was reviewed, and an application has a swimmer once unless clicked for  *)
(* twice (normatives/page.tsx, import/page.tsx, applications/new/page.tsx).*)
THEOREM PagesSendIt == SetupSpec => []PagesSendWhatTheyShow
<1>1. SetupInv => PagesSendWhatTheyShow
  BY ReviewedIsSaved, ApplicationSays DEF SetupInv, NormInv, PagesSendWhatTheyShow
<1> QED
  BY <1>1, SetupInvariance, PTL

(* Importing a file again adds no athlete, event or entry, unless rows     *)
(* were deleted or two answer to one name (athletes.service.ts:565-644).   *)
THEOREM ReimportsAddNothing == SetupSpec => ReimportAddsNothing
<1>1. SetupInv /\ [SetupNext]_setupVars =>
        [\A i \in again : Ends(i) =>
           UNCHANGED <<athlete, event, entries>> \/ Ambiguous(i)]_vars
  BY SetupIsItsParts, ReimportStep DEF SetupInv
<1> QED
  BY <1>1, SetupInvariance, PTL DEF SetupSpec, ReimportAddsNothing

(* An import that nobody disturbs creates no second athlete or event of a  *)
(* name and is not rolled back (athletes.service.ts:565-708).              *)
THEOREM ImportsAreClean == SetupSpec => CleanUnlessRaced
<1>1. SetupInv /\ [SetupNext]_setupVars =>
        [\A i \in Imports \ clash :
           /\ ~RollBack(i)
           /\ Ends(i) =>
                /\ \A a \in DOMAIN athlete' \ DOMAIN athlete :
                     Matching(imp[i].user, athlete'[a].swimmer) = {}
                /\ \A e \in DOMAIN event' \ DOMAIN event : Named(event'[e]) = {}]_vars
  BY SetupIsItsParts, CleanStep DEF SetupInv
<1> QED
  BY <1>1, SetupInvariance, PTL DEF SetupSpec, CleanUnlessRaced
=============================================================================
