------------------------------ MODULE Normatives ------------------------------
(***************************************************************************)
(* The page of the norms (normatives/page.tsx) over its tables             *)
(* (wa-base-times, ua-sport-ranks).  Each section, WA or UA, has a table   *)
(* of its own that the page shows, and one form that makes a new row or    *)
(* changes the one being edited; they have nothing to do with each other,  *)
(* so a behaviour is about one of them.  A request writes, loads the table *)
(* again and only then answers, and nothing keeps the next from being made *)
(* before that.                                                            *)
(***************************************************************************)
EXTENDS Naturals, Sequences, SequencesExt

CONSTANTS
    NormRow,    \* rows: a key (pool, gender, distance, style, year or rank)
                \* and a time
    FirstRow,   \* the row a new form holds
    MaxNorms,   \* bound: rows ever created
    MaxAsks     \* bound: requests in flight at the same time

ASSUME NormAssumption == FirstRow \in NormRow /\ {MaxNorms, MaxAsks} \subseteq Nat

VARIABLES
    section,    \* "wa" or "ua"
    norms,      \* the rows in the database, by id
    created,    \* the last id given to a row
    table,      \* the rows the page shows
    desk,       \* the form: its row, the id being edited, and of which row it is
    asks,       \* requests in flight, those that have read last, in that order
    lag         \* may the page show less than there is, unknown to it?

normVars == <<section, norms, created, table, desk, asks, lag>>

-----------------------------------------------------------------------------
Tables  == UNION {[ids -> NormRow] : ids \in SUBSET (1 .. MaxNorms)}
Ids     == 0 .. MaxNorms    \* 0: none
Desk    == [row : NormRow, id : Ids, filled : Ids, card : BOOLEAN]
Ask     == [op : {"save", "remove", "load"}, id : Ids, row : NormRow,
            closes : BOOLEAN, step : {"write", "read", "answer"},
            rows : Tables, late : BOOLEAN]

(* Types of the tables, the form and the requests in flight.               *)
NormTypeOK ==
    /\ section \in {"wa", "ua"}
    /\ norms \in Tables /\ table \in Tables /\ created \in 0 .. MaxNorms
    /\ desk \in Desk /\ asks \in Seq(Ask) /\ lag \in BOOLEAN

NoRows   == [n \in {} |-> FirstRow]
NewForm  == [row |-> FirstRow, id |-> 0, filled |-> 0, card |-> FALSE]
Asking(op, id, row, closes, step) ==
    [op |-> op, id |-> id, row |-> row, closes |-> closes, step |-> step,
     rows |-> NoRows, late |-> FALSE]

(* What the page has read until now it shows, if at all, too late.         *)
AllLate(s) == [n \in DOMAIN s |-> [s[n] EXCEPT !.late = @ \/ s[n].step = "answer"]]

-----------------------------------------------------------------------------
(* The pencil of a row, in the table or on a card.  On a card of the WA    *)
(* section it fills the form, and leaves the id being edited.              *)
Edit(id) ==
    /\ id \in DOMAIN table
    /\ desk' = [row |-> table[id], id |-> id, filled |-> id, card |-> FALSE]
    /\ UNCHANGED <<section, norms, created, table, asks, lag>>

EditCard(id) ==
    /\ section = "wa" /\ id \in DOMAIN table
    /\ desk' = [desk EXCEPT !.row = table[id], !.filled = id, !.card = TRUE]
    /\ UNCHANGED <<section, norms, created, table, asks, lag>>

(* Mutant: the id being edited is not forgotten.                           *)
CleanedHalf(d) == [d EXCEPT !.row = FirstRow, !.filled = 0, !.card = FALSE]

(* The form after its row was saved or removed, or the edit was given up.  *)
Cleaned(d) == NewForm

CancelEdit ==
    /\ desk.id # 0
    /\ desk' = Cleaned(desk)
    /\ UNCHANGED <<section, norms, created, table, asks, lag>>

Fill(row) ==
    /\ row # desk.row
    /\ desk' = [desk EXCEPT !.row = row]
    /\ UNCHANGED <<section, norms, created, table, asks, lag>>

Submit ==
    /\ Len(asks) < MaxAsks
    /\ asks' = <<Asking("save", desk.id, desk.row, TRUE, "write")>> \o asks
    /\ UNCHANGED <<section, norms, created, table, desk, lag>>

(* A row is removed, once that is confirmed.  Whether it is the one being  *)
(* edited is asked of the form as it was then.                             *)
RemoveNorm(id) ==
    /\ id \in DOMAIN table /\ Len(asks) < MaxAsks
    /\ asks' = <<Asking("remove", id, FirstRow, desk.id = id, "write")>> \o asks
    /\ UNCHANGED <<section, norms, created, table, desk, lag>>

-----------------------------------------------------------------------------
OfKey(key) == {n \in DOMAIN norms : norms[n].key = key}

(* What the tables make of a request: a new row of WA takes the place of   *)
(* the one with its key, and one of UA is refused then, as is any change   *)
(* that would give two rows the same key or that finds no row to change.   *)
WriteRow(c) ==
    \/ /\ c.op = "remove" /\ c.id \in DOMAIN norms
       /\ norms' = [n \in DOMAIN norms \ {c.id} |-> norms[n]]
       /\ UNCHANGED created
    \/ /\ c.op = "save" /\ c.id \in DOMAIN norms
       /\ OfKey(c.row.key) \subseteq {c.id}
       /\ norms' = [norms EXCEPT ![c.id] = c.row]
       /\ UNCHANGED created
    \/ /\ c.op = "save" /\ c.id = 0 /\ section = "wa" /\ OfKey(c.row.key) # {}
       /\ norms' = [n \in DOMAIN norms |->
                      IF norms[n].key = c.row.key THEN c.row ELSE norms[n]]
       /\ UNCHANGED created
    \/ /\ c.op = "save" /\ c.id = 0 /\ OfKey(c.row.key) = {}
       /\ created < MaxNorms /\ created' = created + 1
       /\ norms' = [n \in DOMAIN norms \cup {created'} |->
                      IF n = created' THEN c.row ELSE norms[n]]

Writes(i) ==
    /\ asks[i].step = "write" /\ WriteRow(asks[i])
    /\ asks' = [asks EXCEPT ![i] = Asking("load", 0, FirstRow, @.closes, "read")]
    /\ UNCHANGED <<section, table, desk, lag>>

Reads(i) ==
    /\ asks[i].step = "read"
    /\ asks' = Append(RemoveAt(asks, i),
                      [asks[i] EXCEPT !.step = "answer", !.rows = norms])
    /\ UNCHANGED <<section, norms, created, table, desk, lag>>

(* The page shows the rows, and begins a new form.                         *)
Answers(i) ==
    LET c == asks[i] IN
    /\ c.step = "answer"
    /\ table' = c.rows
    /\ desk' = IF c.closes THEN Cleaned(desk) ELSE desk
    /\ lag' = c.late
    /\ asks' = AllLate(SubSeq(asks, 1, i - 1)) \o SubSeq(asks, i + 1, Len(asks))
    /\ UNCHANGED <<section, norms, created>>

(* A request is refused, lost, or lost after it has written; the form      *)
(* stays as it is.                                                         *)
Fails(i) ==
    /\ \/ asks[i].step = "write" /\ asks' = RemoveAt(asks, i)
          /\ UNCHANGED <<norms, created, lag>>
       \/ /\ lag' = TRUE /\ asks' = AllLate(RemoveAt(asks, i))
          /\ \/ asks[i].step = "write" /\ WriteRow(asks[i])
             \/ asks[i].step # "write" /\ UNCHANGED <<norms, created>>
    /\ UNCHANGED <<section, table, desk>>

(* Another administrator changes the rows.  Bound: only by removing one.   *)
ChangeElsewhere(id) ==
    /\ WriteRow(Asking("remove", id, FirstRow, FALSE, "write"))
    /\ lag' = TRUE /\ asks' = AllLate(asks)
    /\ UNCHANGED <<section, table, desk>>

-----------------------------------------------------------------------------
(* The tables hold what earlier sessions left; the page has asked for them. *)
NormInit ==
    /\ section \in {"wa", "ua"}
    /\ created \in 0 .. MaxNorms
    /\ norms \in [1 .. created -> NormRow]
    /\ \A m, n \in DOMAIN norms : norms[m].key = norms[n].key => m = n
    /\ table = NoRows /\ desk = NewForm /\ lag = FALSE
    /\ asks = <<Asking("load", 0, FirstRow, FALSE, "read")>>

NormNext ==
    \/ \E id \in 1 .. MaxNorms : Edit(id) \/ EditCard(id) \/ RemoveNorm(id)
    \/ CancelEdit \/ Submit
    \/ \E row \in NormRow : Fill(row)
    \/ \E i \in DOMAIN asks : Writes(i) \/ Reads(i) \/ Answers(i) \/ Fails(i)
    \/ \E id \in DOMAIN norms : ChangeElsewhere(id)

NormSpec == NormInit /\ [][NormNext]_normVars

-----------------------------------------------------------------------------
(* A form with values of a row changes that row, and no new form carries   *)
(* the id of an old one, however answers and edits come in between; except *)
(* for values from a card of WA, that are saved as a new row or over the   *)
(* row that was being edited (normatives/page.tsx:301-390, 772-781).       *)
FormIsOfItsRow == ~desk.card => desk.id = desk.filled

(* With no request in flight the page shows the rows there are, unless an  *)
(* answer was overtaken by a later one or lost, or another administrator   *)
(* has changed them since (normatives/page.tsx:140-148, 307-385).          *)
TableCatchesUp == asks = <<>> /\ ~lag => table = norms
=============================================================================
