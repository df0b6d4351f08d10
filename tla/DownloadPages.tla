--------------------------- MODULE DownloadPages ---------------------------
(***************************************************************************)
(* The table of user downloads of the admin page (frontend/index.html      *)
(* 896-944) and the two queries behind it (get_user_downloads of           *)
(* backend/logs.py), while the tailer stores rows and the pruning deletes  *)
(* old ones.  The table of anonymous downloads is the same code.           *)
(*                                                                         *)
(* A call is counted and then read, in two statements, and its answer may  *)
(* be overtaken by that of a later call.  A walk begins when the panel is  *)
(* opened or a filter changed, and goes on by the two buttons.             *)
(***************************************************************************)
EXTENDS Integers, FiniteSets

CONSTANTS Rows,        \* rows that match the filter
          Times,       \* values of logged_at
          Limit,       \* rows on a page
          MaxCalls     \* bound: calls of one page of the browser

ASSUME PagesAssumption ==
    Limit \in Nat \ {0} /\ MaxCalls \in Nat /\ Times \subseteq Nat /\ IsFiniteSet(Rows)

VARIABLES
    table,          \* logged_at of the stored rows, 0 for the others
    gone,           \* rows that were pruned
    \* the page
    page, pages,    \* udlPage_, udlPages_
    prevOff, nextOff,   \* the buttons are disabled
    \* the calls
    made, calls,
    \* history, since the walk began; empty once it is rushed, as nothing is
    \* said of such a walk
    there,          \* the rows that have been stored all the while
    seen,           \* the rows that were shown
    rushed,         \* a button was pressed before the last answer, or a call failed
    grown           \* a row was stored between the count and the page of the last answer

pagesVars == <<table, gone, page, pages, prevOff, nextOff, made, calls, there, seen, rushed, grown>>

Stored == {r \in Rows : table[r] # 0}

CallStates == {"none", "sent", "counted", "answered"}
NoCall == [state |-> "none", page |-> 0, total |-> 0, rows |-> {}, grown |-> FALSE]
Quiet  == \A k \in 1..MaxCalls : calls[k].state = "none"

PagesInit ==
    /\ table = [r \in Rows |-> 0] /\ gone = {}
    /\ page = 1 /\ pages = 1 /\ prevOff = TRUE /\ nextOff = TRUE
    /\ made = 0 /\ calls = [k \in 1..MaxCalls |-> NoCall]
    /\ there = {} /\ seen = {} /\ rushed = FALSE /\ grown = FALSE

-----------------------------------------------------------------------------
\* ORDER BY logged_at DESC: rows of the same time come in any order, which
\* need not be the same for two queries.  What can be the first n rows:
First(n) == {S \in SUBSET Stored : /\ Cardinality(S) <= n
                                   /\ Cardinality(S) = n \/ S = Stored
                                   /\ \A r \in S, q \in Stored \ S : table[r] >= table[q]}

\* LIMIT and OFFSET: what can be on page p.
Page(p) == {T \in SUBSET Stored : \E A \in First((p - 1) * Limit), B \in First(p * Limit) :
                                     A \subseteq B /\ T = B \ A}

\* Mutant of PagesOf: no pages when there are no rows.
PagesOfNone(total) == (total + Limit - 1) \div Limit

\* max(1, -(-total // limit))
PagesOf(total) == IF total = 0 THEN 1 ELSE (total + Limit - 1) \div Limit

\* What the history keeps of a set of rows.
Judged(S) == IF rushed' THEN {} ELSE S

\* loadUserDl(n)
Load(n) ==
    /\ made < MaxCalls /\ made' = made + 1
    /\ page' = n
    /\ calls' = [calls EXCEPT ![made + 1] = [NoCall EXCEPT !.state = "sent", !.page = n]]

\* The panel is opened, or a filter is changed: a new walk.
Open ==
    /\ Load(1)
    /\ rushed' = ~Quiet /\ there' = Judged(Stored) /\ seen' = {} /\ grown' = FALSE
    /\ UNCHANGED <<table, gone, pages, prevOff, nextOff>>

\* udlPage(d)
Turn(d) ==
    /\ ~(IF d = 1 THEN nextOff ELSE prevOff)
    /\ page + d \in 1..pages
    /\ Load(page + d)
    /\ rushed' = (rushed \/ ~Quiet)
    /\ there' = Judged(there) /\ seen' = Judged(seen) /\ grown' = (grown /\ ~rushed')
    /\ UNCHANGED <<table, gone, pages, prevOff, nextOff>>

-----------------------------------------------------------------------------
\* get_user_downloads: SELECT COUNT(*), then SELECT ... LIMIT OFFSET.
Count(k) ==
    /\ calls[k].state = "sent"
    /\ calls' = [calls EXCEPT ![k] = [@ EXCEPT !.state = "counted", !.total = Cardinality(Stored)]]
    /\ UNCHANGED <<table, gone, page, pages, prevOff, nextOff, made, there, seen, rushed, grown>>

Select(k) ==
    /\ calls[k].state = "counted"
    /\ \E rows \in Page(calls[k].page) :
         calls' = [calls EXCEPT ![k] = [@ EXCEPT !.state = "answered", !.rows = rows]]
    /\ UNCHANGED <<table, gone, page, pages, prevOff, nextOff, made, there, seen, rushed, grown>>

\* The answer is shown, whatever the pager says by now.
Show(k) ==
    /\ calls[k].state = "answered"
    /\ pages' = PagesOf(calls[k].total)
    /\ prevOff' = (calls[k].page <= 1)
    /\ nextOff' = (calls[k].page >= pages')
    /\ UNCHANGED rushed
    /\ seen' = Judged(seen \cup calls[k].rows)
    /\ grown' = (calls[k].grown /\ ~rushed')
    /\ calls' = [calls EXCEPT ![k] = NoCall]
    /\ UNCHANGED <<table, gone, page, made, there>>

\* Status 503, or no answer: the table says so, the buttons stay.
Fail(k) ==
    /\ calls[k].state # "none"
    /\ calls' = [calls EXCEPT ![k] = NoCall]
    /\ rushed' = TRUE
    /\ there' = {} /\ seen' = {} /\ grown' = FALSE
    /\ UNCHANGED <<table, gone, page, pages, prevOff, nextOff, made>>

-----------------------------------------------------------------------------
\* The tailer stores a row, of any time.
Insert(r, t) ==
    /\ table[r] = 0 /\ r \notin gone
    /\ table' = [table EXCEPT ![r] = t]
    /\ calls' = [k \in 1..MaxCalls |-> [calls[k] EXCEPT !.grown = @ \/ calls[k].state = "counted"]]
    /\ UNCHANGED <<gone, page, pages, prevOff, nextOff, made, there, seen, rushed, grown>>

\* Mutant of Prune: the newest rows go.
PruneNewest(t) ==
    LET old == {r \in Stored : table[r] > t} IN
    /\ old # {}
    /\ table' = [r \in Rows |-> IF r \in old THEN 0 ELSE table[r]]
    /\ gone' = gone \cup old /\ there' = there \ old
    /\ UNCHANGED <<page, pages, prevOff, nextOff, made, calls, seen, rushed, grown>>

\* prune_old_records: every row before some time.
Prune(t) ==
    LET old == {r \in Stored : table[r] < t} IN
    /\ old # {}
    /\ table' = [r \in Rows |-> IF r \in old THEN 0 ELSE table[r]]
    /\ gone' = gone \cup old /\ there' = there \ old
    /\ UNCHANGED <<page, pages, prevOff, nextOff, made, calls, seen, rushed, grown>>

PagesNext ==
    \/ Open \/ \E d \in {1, -1} : Turn(d)
    \/ \E k \in 1..MaxCalls : Count(k) \/ Select(k) \/ Show(k) \/ Fail(k)
    \/ \E t \in Times : Prune(t) \/ \E r \in Rows : Insert(r, t)

PagesSpec == PagesInit /\ [][PagesNext]_pagesVars

-----------------------------------------------------------------------------
PagesTypeOK ==
    /\ table \in [Rows -> Times \cup {0}] /\ gone \subseteq Rows /\ gone \cap Stored = {}
    /\ pages \in Nat \ {0} /\ page \in Nat \ {0}
    /\ prevOff \in BOOLEAN /\ nextOff \in BOOLEAN
    /\ made \in 0..MaxCalls
    /\ calls \in [1..MaxCalls -> [state : CallStates, page : Nat, total : Nat,
                                  rows : SUBSET Rows, grown : BOOLEAN]]
    /\ \A k \in 1..MaxCalls : Cardinality(calls[k].rows) <= Limit
    /\ there \subseteq Stored /\ seen \subseteq Rows
    /\ rushed \in BOOLEAN /\ grown \in BOOLEAN

DistinctTimes == \A r, q \in Stored : r # q => table[r] # table[q]

(***************************************************************************)
(* Whoever walks from the first page to the last has seen every row that   *)
(* was stored all the while, although rows are stored and pruned between   *)
(* the pages and between the count and the page of a call: new rows move   *)
(* others to later pages only, and the pruning takes rows from the end.    *)
(* This needs an answer to every call before the next, rows of different   *)
(* times, and no row stored between the last count and its page.           *)
(***************************************************************************)
NothingMissed ==
    Quiet /\ made > 0 /\ nextOff /\ ~rushed /\ ~grown /\ DistinctTimes => there \subseteq seen
=============================================================================
