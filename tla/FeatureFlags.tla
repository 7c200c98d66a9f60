----------------------------- MODULE FeatureFlags -----------------------------
(***************************************************************************)
(* A feature flag: its row (FeatureFlagsService), the page of the          *)
(* administrator with the list of flags it caches for a while              *)
(* (useFeatureFlags.ts), and the page of results, which asks once whether  *)
(* to keep drafts.  Lists and updates are answered in any order.           *)
(***************************************************************************)
EXTENDS Naturals, Sequences, SequencesExt

CONSTANT MaxFlagCalls   \* bound: requests of the page at the same time

VARIABLES
    enabled,    \* the value of the flag: of its row, or the default
    cache,      \* the flag as the browser holds it: known, young, value
    flagPage,   \* the page: mounted, its list loading or there, the value shown
    flagCalls,  \* its requests in flight, those that have read last, in that order
    blind,      \* may the page, or the cache, hold another value, unknown to it?
    autosave    \* does a page of results keep drafts, per role?

flagVars == <<enabled, cache, flagPage, flagCalls, blind, autosave>>

-----------------------------------------------------------------------------
FlagCall == [op : {"list", "update"}, to : BOOLEAN, read : BOOLEAN,
             value : BOOLEAN, late : BOOLEAN, own : BOOLEAN]
FlagPage == [mounted : BOOLEAN, loading : BOOLEAN, listed : BOOLEAN,
             updating : BOOLEAN, shown : BOOLEAN]
Cache    == [known : BOOLEAN, young : BOOLEAN, value : BOOLEAN]
Roles    == {"admin", "secretary"}

(* Types of the flag, the cache, the pages and the requests.               *)
FlagTypeOK ==
    /\ enabled \in BOOLEAN /\ cache \in Cache /\ flagPage \in FlagPage
    /\ blind \in [page : BOOLEAN, cache : BOOLEAN]
    /\ flagCalls \in Seq(FlagCall) /\ autosave \in [Roles -> BOOLEAN]

Overtaken(cs) == [n \in DOMAIN cs |-> [cs[n] EXCEPT !.late = @ \/ cs[n].read]]
Calls(op, to) ==
    /\ Len(flagCalls) < MaxFlagCalls
    /\ flagCalls' = <<[op |-> op, to |-> to, read |-> FALSE, value |-> TRUE,
                       late |-> FALSE, own |-> TRUE]>> \o flagCalls

PageClosed == [mounted |-> FALSE, loading |-> FALSE, listed |-> FALSE,
               updating |-> FALSE, shown |-> TRUE]

-----------------------------------------------------------------------------
(* The page opens, and takes the list from the cache while it is young.    *)
Mount ==
    LET young == cache.known /\ cache.young IN
    /\ ~flagPage.mounted
    /\ flagPage' = [mounted |-> TRUE, loading |-> ~young, listed |-> young,
                    updating |-> FALSE, shown |-> cache.value]
    /\ IF young THEN blind' = [blind EXCEPT !.page = blind.cache] /\ UNCHANGED flagCalls
       ELSE Calls("list", TRUE) /\ UNCHANGED blind
    /\ UNCHANGED <<enabled, cache, autosave>>

(* What it has asked for is answered to the cache only.                    *)
Leave ==
    /\ flagPage.mounted
    /\ flagPage' = PageClosed
    /\ flagCalls' = [n \in DOMAIN flagCalls |-> [flagCalls[n] EXCEPT !.own = FALSE]]
    /\ UNCHANGED <<enabled, cache, blind, autosave>>

CacheAges ==
    /\ cache.known /\ cache.young
    /\ cache' = [cache EXCEPT !.young = FALSE]
    /\ UNCHANGED <<enabled, flagPage, flagCalls, blind, autosave>>

ReloadFlags ==
    /\ flagPage.mounted /\ ~flagPage.loading /\ Calls("list", TRUE)
    /\ flagPage' = [flagPage EXCEPT !.loading = TRUE]
    /\ UNCHANGED <<enabled, cache, blind, autosave>>

(* The button asks for the opposite of what is shown.                      *)
Toggle ==
    /\ flagPage.listed /\ ~flagPage.loading /\ ~flagPage.updating
    /\ Calls("update", ~flagPage.shown)
    /\ flagPage' = [flagPage EXCEPT !.updating = TRUE]
    /\ UNCHANGED <<enabled, cache, blind, autosave>>

(* The list is read; an update is written and read again.                  *)
Serve(i) ==
    LET c == flagCalls[i] IN
    /\ ~c.read
    /\ enabled' = IF c.op = "update" THEN c.to ELSE enabled
    /\ flagCalls' = Append(RemoveAt(flagCalls, i),
                           [c EXCEPT !.read = TRUE, !.value = enabled'])
    /\ UNCHANGED <<cache, flagPage, blind, autosave>>

(* A list starts the time of the cache again; an update changes the flag   *)
(* in the cache there is.                                                  *)
Cached(c) ==
    IF c.op = "list" THEN [known |-> TRUE, young |-> TRUE, value |-> c.value]
    ELSE [cache EXCEPT !.value = IF cache.known THEN c.value ELSE @]

(* The page without the request that has ended.                            *)
Settled(c) == [flagPage EXCEPT !.loading = @ /\ ~(c.own /\ c.op = "list"),
                               !.updating = @ /\ ~(c.own /\ c.op = "update")]

(* The cache takes the answer also of a page that is gone.                 *)
FlagTold(i) ==
    LET c == flagCalls[i] IN
    /\ c.read
    /\ cache' = Cached(c)
    /\ flagPage' = IF ~c.own THEN flagPage
                   ELSE [Settled(c) EXCEPT !.shown = c.value,
                                           !.listed = @ \/ c.op = "list"]
    /\ flagCalls' = Overtaken(SubSeq(flagCalls, 1, i - 1))
                      \o SubSeq(flagCalls, i + 1, Len(flagCalls))
    /\ blind' = [cache |-> c.late,
                 page |-> IF c.own THEN c.late ELSE blind.page \/ c.op = "update"]
    /\ UNCHANGED <<enabled, autosave>>

(* A request is refused or lost, perhaps after the write.                  *)
FlagFails(i) ==
    LET c == flagCalls[i] IN
    /\ flagCalls' = Overtaken(RemoveAt(flagCalls, i))
    /\ flagPage' = Settled(c)
    /\ enabled' \in {enabled, IF c.op = "update" /\ ~c.read THEN c.to ELSE enabled}
    /\ blind' = [page |-> TRUE, cache |-> TRUE]
    /\ UNCHANGED <<cache, autosave>>

(* Another administrator changes the flag.                                 *)
FlagElsewhere ==
    /\ enabled' = ~enabled
    /\ flagCalls' = Overtaken(flagCalls)
    /\ blind' = [page |-> TRUE, cache |-> TRUE]
    /\ UNCHANGED <<cache, flagPage, autosave>>

(* A page of results opens and asks for the flags in force.  They are for  *)
(* administrators only: a secretary is refused, and a page that is refused *)
(* or gets no answer keeps drafts.                                         *)
OpenResults(role) ==
    /\ \E kept \in {TRUE, IF role = "admin" THEN enabled ELSE TRUE} :
         autosave' = [autosave EXCEPT ![role] = kept]
    /\ UNCHANGED <<enabled, cache, flagPage, flagCalls, blind>>

-----------------------------------------------------------------------------
(* No page has asked for flags; the pages of results keep drafts at first. *)
FlagInit ==
    /\ enabled \in BOOLEAN
    /\ cache = [known |-> FALSE, young |-> FALSE, value |-> TRUE]
    /\ flagPage = PageClosed
    /\ flagCalls = <<>> /\ blind = [page |-> FALSE, cache |-> FALSE]
    /\ autosave = [r \in Roles |-> TRUE]

FlagNext ==
    \/ Mount \/ Leave \/ CacheAges \/ ReloadFlags \/ Toggle \/ FlagElsewhere
    \/ \E i \in DOMAIN flagCalls : Serve(i) \/ FlagTold(i) \/ FlagFails(i)
    \/ \E role \in Roles : OpenResults(role)

FlagSpec == FlagInit /\ [][FlagNext]_flagVars

-----------------------------------------------------------------------------
(* With no request in flight the page shows the flag as it is, also one    *)
(* that has just come back and takes it from the cache, unless another     *)
(* administrator has changed it since, a request failed, or a list read    *)
(* before an update was shown, and cached, after it                        *)
(* (useFeatureFlags.ts:16-50).                                             *)
FlagsCatchUp ==
    flagCalls = <<>> /\ ~blind.page /\ flagPage.listed => flagPage.shown = enabled
=============================================================================
