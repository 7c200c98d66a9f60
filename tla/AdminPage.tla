------------------------------- MODULE AdminPage -------------------------------
(***************************************************************************)
(* The users on the page of the administrator (admin/page.tsx) and the     *)
(* panel with the sessions of the one selected.  A click starts a chain of *)
(* requests, and the page goes by two flags that all chains set and clear: *)
(* while the users are loading none of them is shown, while sessions are   *)
(* loading the panel is empty.  What the requests do to accounts and       *)
(* sessions is in AuthSessions; here each is one step.                     *)
(***************************************************************************)
EXTENDS Naturals, Sequences, SequencesExt

CONSTANTS
    People,
    Logins,      \* sessions, over all time
    Holder,      \* Holder[s]: whose session s is
    NoUser,      \* nobody is selected
    MaxChains    \* bound: chains of requests at the same time

ASSUME AdminAssumption == NoUser \notin People

VARIABLES
    open,        \* the sessions in force
    panel,       \* the user selected, the sessions shown, the flags
    chains,      \* requests in flight, those that have read last, in that order
    odd          \* may the panel differ from the sessions, unknown to it?

adminVars == <<open, panel, chains, odd>>

-----------------------------------------------------------------------------
Panel  == [user : People \cup {NoUser}, shown : SUBSET Logins,
           busy : BOOLEAN, hidden : BOOLEAN]
Chain  == [op : {"look", "revoke", "change", "close", "reset"}, user : People,
           login : Logins, was : People \cup {NoUser},
           step : {"act", "read", "answer", "list"},
           shown : SUBSET Logins, late : BOOLEAN]

(* Types of the sessions, the panel and the requests in flight.            *)
AdminTypeOK ==
    /\ open \in SUBSET Logins /\ panel \in Panel
    /\ chains \in Seq(Chain) /\ odd \in BOOLEAN

LoginsOf(u) == {s \in open : Holder[s] = u}
AnyLogin == CHOOSE s \in Logins : TRUE

(* Answers that are on their way do not tell any longer what there is.     *)
Outdated(cs) == [n \in DOMAIN cs |-> [cs[n] EXCEPT !.late = @ \/ cs[n].step = "answer"]]
Surprise ==
    /\ odd' = TRUE
    /\ chains' = [n \in DOMAIN chains |->
                    [chains[n] EXCEPT !.late =
                       @ \/ chains[n].step \in {"answer", "list"}]]

(* The i-th chain goes on as c, or ends.                                   *)
GoesOn(i, c)   == chains' = [chains EXCEPT ![i] = c]
ChainEnds(i)   == chains' = RemoveAt(chains, i)

-----------------------------------------------------------------------------
(* A button in the row of u, or one in its panel.  Whose panel is open is  *)
(* remembered as of the click.                                             *)
Click(op, u, s) ==
    /\ ~panel.hidden /\ Len(chains) < MaxChains
    /\ op = "revoke" => panel.user = u /\ ~panel.busy /\ s \in panel.shown
    /\ op # "revoke" => s = AnyLogin
    /\ panel' = CASE op = "look"   -> [panel EXCEPT !.user = u, !.busy = TRUE]
                  [] op = "revoke" -> [panel EXCEPT !.busy = TRUE]
                  [] OTHER         -> [panel EXCEPT !.hidden = TRUE]
    /\ chains' = <<[op |-> op, user |-> u, login |-> s, was |-> panel.user,
                    step |-> IF op = "look" THEN "read" ELSE "act",
                    shown |-> {}, late |-> FALSE]>> \o chains
    /\ UNCHANGED <<open, odd>>

(* A session is revoked if it is one of the user.                          *)
Revocable(c) == {c.login} \cap LoginsOf(c.user)

(* The sessions an operation revokes: approval and activation none,        *)
(* deactivation and a new password all of the user's.                      *)
Revokes(c) ==
    CASE c.op = "revoke" -> Revocable(c)
      [] c.op \in {"close", "reset"} -> LoginsOf(c.user)
      [] OTHER -> {}

(* A revocation of nothing ends with a message; another one looks again.   *)
Act(i) ==
    LET c == chains[i] IN
    /\ c.step = "act"
    /\ open' = open \ Revokes(c)
    /\ IF c.op # "revoke"
         THEN GoesOn(i, [c EXCEPT !.step = "list"]) /\ UNCHANGED panel
       ELSE IF Revokes(c) = {}
         THEN ChainEnds(i) /\ panel' = [panel EXCEPT !.busy = FALSE]
       ELSE /\ GoesOn(i, [c EXCEPT !.step = "read"])
            /\ panel' = [panel EXCEPT !.user = c.user, !.busy = TRUE]
    /\ UNCHANGED odd

(* The sessions of the user are read, and shown in whatever panel is open. *)
Look(i) ==
    /\ chains[i].step = "read"
    /\ chains' = Append(RemoveAt(chains, i),
          [chains[i] EXCEPT !.step = "answer", !.late = FALSE,
                            !.shown = LoginsOf(chains[i].user)])
    /\ UNCHANGED <<open, panel, odd>>

ShowLogins(i) ==
    LET c      == chains[i]
        before == Outdated(SubSeq(chains, 1, i - 1))
        after  == SubSeq(chains, i + 1, Len(chains))
    IN
    /\ c.step = "answer"
    /\ panel' = [panel EXCEPT !.shown = c.shown, !.busy = FALSE,
                   !.hidden = (c.op = "revoke") \/ (c.op # "reset" /\ @)]
    /\ chains' = IF c.op = "revoke"
                   THEN before \o <<[c EXCEPT !.step = "list"]>> \o after
                   ELSE before \o after
    /\ odd' = (c.late \/ c.user # panel.user)
    /\ UNCHANGED open

(* The list of the users has come, or not.  Then the end of a deactivation *)
(* empties the panel, and that of a new password loads it again, if it was *)
(* the user's when the button was clicked.                                 *)
List(i) ==
    LET c    == chains[i]
        mine == c.was = c.user
        rest == Outdated(RemoveAt(chains, i))
        page == [panel EXCEPT !.hidden = FALSE]
    IN
    /\ c.step = "list"
    /\ CASE c.op = "reset" /\ mine ->
              /\ panel' = [page EXCEPT !.user = c.user, !.busy = TRUE]
              /\ GoesOn(i, [c EXCEPT !.step = "read"])
         [] c.op = "close" /\ mine ->
              panel' = [page EXCEPT !.shown = {}] /\ chains' = rest
         [] c.op = "revoke" ->
              panel' = [page EXCEPT !.busy = FALSE] /\ ChainEnds(i)
         [] OTHER ->
              panel' = page /\ chains' = rest
    /\ odd' = (odd \/ (c.op \in {"close", "reset"} /\ (c.late \/ c.was # panel.user)))
    /\ UNCHANGED open

(* A request fails, perhaps only its answer: the flags are cleared, and    *)
(* what the panel shows stays.                                             *)
ChainFails(i) ==
    LET c == chains[i] IN
    /\ \/ /\ c.step = "act" /\ open' \in {open, open \ Revokes(c)}
          /\ panel' = IF c.op = "revoke" THEN [panel EXCEPT !.busy = FALSE]
                      ELSE [panel EXCEPT !.hidden = FALSE]
          /\ chains' = Outdated(RemoveAt(chains, i))
       \/ /\ c.step = "read" /\ UNCHANGED open
          /\ panel' = [panel EXCEPT !.busy = FALSE,
                         !.hidden = c.op = "revoke" \/ (c.op = "look" /\ @)]
          /\ chains' = Outdated(IF c.op = "revoke" THEN [chains EXCEPT ![i].step = "list"]
                                ELSE RemoveAt(chains, i))
    /\ odd' = TRUE

(* Somebody logs in or out.                                                *)
LogIn(s) ==
    /\ s \notin open /\ open' = open \cup {s}
    /\ Surprise /\ UNCHANGED panel

LogOut(s) ==
    /\ s \in open /\ open' = open \ {s}
    /\ Surprise /\ UNCHANGED panel

-----------------------------------------------------------------------------
AdminInit ==
    /\ open \in SUBSET Logins
    /\ panel = [user |-> NoUser, shown |-> {}, busy |-> FALSE, hidden |-> FALSE]
    /\ chains = <<>> /\ odd = FALSE

AdminNext ==
    \/ \E op \in {"look", "revoke", "change", "close", "reset"} :
         \E u \in People, s \in Logins : Click(op, u, s)
    \/ \E i \in DOMAIN chains : Act(i) \/ Look(i) \/ ShowLogins(i) \/ List(i) \/ ChainFails(i)
    \/ \E s \in Logins : LogIn(s) \/ LogOut(s)

AdminSpec == AdminInit /\ [][AdminNext]_adminVars

-----------------------------------------------------------------------------
(* With no request in flight the panel shows the sessions of its user,     *)
(* unless somebody has logged in or out, a request has failed, or an       *)
(* answer or the end of an operation came after another panel was opened   *)
(* (admin/page.tsx:232-304).                                               *)
PanelCatchesUp ==
    chains = <<>> /\ ~odd /\ panel.user # NoUser => panel.shown = LoginsOf(panel.user)
=============================================================================
