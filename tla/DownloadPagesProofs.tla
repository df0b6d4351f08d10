------------------------ MODULE DownloadPagesProofs ------------------------
(***************************************************************************)
(* What DownloadPages.tla guarantees for any number of rows and calls and  *)
(* any size of a page.                                                     *)
(***************************************************************************)
EXTENDS DownloadPages, FiniteSetTheorems, TLAPS

-----------------------------------------------------------------------------
\* The stored rows that come before row r, whatever the order of ties.
Above(r) == {q \in Stored : table[q] > table[r]}

\* No other stored row has the time of row r.
Sole(r) == \A q \in Stored \ {r} : table[q] # table[r]

\* The rows that the walk still owes to whoever has seen those of S.
Owed(S) == {r \in there \ S : Sole(r)}

\* They all come after the first n pages.
Deep(n, S) == \A r \in Owed(S) : Cardinality(Above(r)) >= n * Limit

(***************************************************************************)
(* The one call of an unhurried walk is that of the page in the pager:     *)
(* before its page is read the walk owes no row of the pages before, and   *)
(* after it none of the page either.                                       *)
(***************************************************************************)
CallInv(k) ==
    /\ calls[k].state # "none" => k = made /\ calls[k].page = page
    /\ calls[k].state \in {"sent", "counted"} => Deep(page - 1, seen)
    /\ calls[k].state = "counted" /\ ~calls[k].grown => Cardinality(Stored) <= calls[k].total
    /\ calls[k].state = "answered" =>
         /\ Deep(page, seen \cup calls[k].rows)
         /\ page >= PagesOf(calls[k].total) /\ ~calls[k].grown => Owed(seen \cup calls[k].rows) = {}

WalkInv ==
    ~rushed => /\ \A k \in 1..MaxCalls : CallInv(k)
               /\ Quiet => Deep(page, seen) /\ (nextOff /\ ~grown => Owed(seen) = {})

-----------------------------------------------------------------------------
\* Sets of stored rows are finite.
LEMMA StoredFinite ==
    ASSUME NEW S \in SUBSET Stored
    PROVE  IsFiniteSet(S) /\ Cardinality(S) \in Nat
<1>1. S \subseteq Rows /\ IsFiniteSet(Rows)
  BY PagesAssumption DEF Stored
<1>2. IsFiniteSet(S)
  BY <1>1, FS_Subset
<1> QED
  BY <1>2, FS_CardinalityType

\* A part of a set of stored rows is no larger, and as large only if it is
\* the whole.
LEMMA StoredParts ==
    ASSUME NEW S \in SUBSET Stored, NEW T \in SUBSET S
    PROVE  /\ Cardinality(T) \in Nat /\ Cardinality(S) \in Nat /\ Cardinality(T) <= Cardinality(S)
           /\ Cardinality(T) = Cardinality(S) => S = T
<1>1. IsFiniteSet(S) /\ Cardinality(S) \in Nat
  BY StoredFinite
<1>2. T \in SUBSET Stored
  OBVIOUS
<1>3. Cardinality(T) \in Nat
  BY <1>2, StoredFinite
<1> QED
  BY <1>1, <1>3, FS_Subset

\* The pages are enough for the rows that were counted.
LEMMA PagesEnough ==
    ASSUME NEW total \in Nat
    PROVE  PagesOf(total) \in Nat \ {0} /\ total <= PagesOf(total) * Limit
<1>lim. Limit \in Nat /\ Limit >= 1
  BY PagesAssumption
<1>1. CASE total = 0
  BY <1>1, <1>lim DEF PagesOf
<1>2. CASE total # 0
  <2> DEFINE m == total + Limit - 1
  <2>1. m \in Nat /\ m >= Limit
    BY <1>2, <1>lim
  <2>2. m \div Limit \in Nat /\ m % Limit \in 0..(Limit - 1) /\ m = Limit * (m \div Limit) + (m % Limit)
    BY <2>1, <1>lim
  <2> QED
    BY <1>2, <1>lim, <2>1, <2>2 DEF PagesOf
<1> QED
  BY <1>1, <1>2

\* A row of a time of its own is among the first n rows if fewer than n
\* come before it, and only then.
LEMMA AmongFirst ==
    ASSUME NEW n \in Nat, NEW S \in First(n), NEW r \in Stored, Sole(r), PagesTypeOK
    PROVE  r \in S <=> Cardinality(Above(r)) < n
<1>time. \A q \in Stored : table[q] \in Nat
  BY PagesAssumption DEF PagesTypeOK, Stored
<1>first. /\ S \subseteq Stored /\ Cardinality(S) <= n
          /\ Cardinality(S) = n \/ S = Stored
          /\ \A q \in S, p \in Stored \ S : table[q] >= table[p]
  BY DEF First
<1>above. Above(r) \subseteq Stored /\ r \notin Above(r) /\ Cardinality(Above(r)) \in Nat
  BY <1>time, StoredFinite DEF Above
<1>1. ASSUME r \in S PROVE Cardinality(Above(r)) < n
  <2>1. Above(r) \subseteq S
    BY <1>time, <1>first, <1>1 DEF Above
  <2>2. Above(r) # S /\ Cardinality(Above(r)) <= Cardinality(S) /\ Cardinality(S) \in Nat
    BY <2>1, <1>1, <1>first, <1>above, StoredParts
  <2>3. Cardinality(Above(r)) # Cardinality(S)
    BY <2>1, <2>2, <1>first, StoredParts
  <2> QED
    BY <2>2, <2>3, <1>first, <1>above
<1>2. ASSUME r \notin S PROVE ~(Cardinality(Above(r)) < n)
  <2>1. S \subseteq Above(r)
    <3> SUFFICES ASSUME NEW q \in S PROVE table[q] > table[r]
      BY <1>first DEF Above
    <3>1. table[q] >= table[r] /\ table[q] # table[r]
      BY <1>first, <1>2 DEF Sole
    <3> QED
      BY <3>1, <1>time, <1>first
  <2>2. Cardinality(S) = n
    BY <1>first, <1>2
  <2> QED
    BY <2>1, <2>2, <1>above, StoredParts
<1> QED
  BY <1>1, <1>2

\* A page has no more rows than its size.
LEMMA PageSize ==
    ASSUME NEW p \in Nat, NEW shown \in Page(p)
    PROVE  shown \subseteq Stored /\ Cardinality(shown) <= Limit
<1>1. PICK S \in First((p - 1) * Limit), T \in First(p * Limit) : shown = T \ S /\ S \subseteq T
  BY DEF Page
<1>0. p # 0
  <2>1. Cardinality(S) \in Nat /\ Cardinality(S) <= (p - 1) * Limit
    BY <1>1, StoredFinite DEF First
  <2> QED
    BY <2>1, PagesAssumption
<1>lim. Limit \in Nat /\ (p - 1) * Limit \in Nat /\ p * Limit \in Nat /\ p * Limit = (p - 1) * Limit + Limit
  BY <1>0, PagesAssumption
<1>2. /\ S \subseteq Stored /\ T \subseteq Stored /\ shown \subseteq Stored
      /\ Cardinality(S) = (p - 1) * Limit \/ S = Stored
      /\ Cardinality(T) <= p * Limit
  BY <1>1 DEF First
<1>3. CASE S = Stored
  <2>1. shown = {} /\ Cardinality({}) = 0
    BY <1>1, <1>2, <1>3, FS_EmptySet
  <2> QED
    BY <1>2, <1>lim, <2>1
<1>4. CASE Cardinality(S) = (p - 1) * Limit
  <2>1. IsFiniteSet(S) /\ IsFiniteSet(shown) /\ Cardinality(shown) \in Nat
    BY <1>2, StoredFinite
  <2>2. S \cup shown = T /\ S \cap shown = {}
    BY <1>1
  <2>3. Cardinality(T) = Cardinality(S) + Cardinality(shown) - 0
    BY <2>1, <2>2, FS_Union, FS_EmptySet
  <2> QED
    BY <1>2, <1>4, <1>lim, <2>1, <2>3
<1> QED
  BY <1>2, <1>3, <1>4

\* After page p a walk owes no row of it.
LEMMA PageShown ==
    ASSUME PagesTypeOK, NEW p \in Nat \ {0}, NEW shown \in Page(p), NEW S, Deep(p - 1, S)
    PROVE  Deep(p, S \cup shown)
<1> SUFFICES ASSUME NEW r \in Owed(S \cup shown) PROVE Cardinality(Above(r)) >= p * Limit
  BY DEF Deep
<1>lim. (p - 1) * Limit \in Nat /\ p * Limit \in Nat
  BY PagesAssumption
<1>1. r \in Owed(S) /\ r \notin shown /\ Sole(r) /\ r \in Stored
  BY DEF Owed, PagesTypeOK
<1>2. Cardinality(Above(r)) >= (p - 1) * Limit /\ Cardinality(Above(r)) \in Nat
  BY <1>1, StoredFinite DEF Deep, Above
<1>3. PICK A \in First((p - 1) * Limit), B \in First(p * Limit) : shown = B \ A
  BY DEF Page
<1>4. r \notin A
  BY <1>1, <1>2, <1>3, <1>lim, AmongFirst
<1>5. r \notin B
  BY <1>1, <1>3, <1>4
<1>6. ~(Cardinality(Above(r)) < p * Limit)
  BY <1>1, <1>3, <1>5, <1>lim, AmongFirst
<1> QED
  BY <1>2, <1>6, <1>lim

\* And after the last page, if all rows were counted, it owes none.
LEMMA LastShown ==
    ASSUME PagesTypeOK, NEW p \in Nat \ {0}, NEW S, Deep(p, S),
           NEW total \in Nat, p >= PagesOf(total), Cardinality(Stored) <= total
    PROVE  Owed(S) = {}
<1> SUFFICES ASSUME NEW r \in Owed(S) PROVE FALSE
  OBVIOUS
<1>1. r \in Stored /\ Cardinality(Above(r)) >= p * Limit
  BY DEF Owed, Deep, PagesTypeOK
<1>2. Above(r) \subseteq Stored /\ Above(r) # Stored
  <2>1. table[r] \in Nat
    BY <1>1, PagesAssumption DEF Stored, PagesTypeOK
  <2>2. Above(r) \subseteq Stored /\ r \notin Above(r)
    BY <2>1 DEF Above
  <2> QED
    BY <1>1, <2>2
<1>3. Cardinality(Above(r)) < Cardinality(Stored) /\ Cardinality(Above(r)) \in Nat /\ Cardinality(Stored) \in Nat
  BY <1>2, StoredParts
<1>4. PagesOf(total) \in Nat \ {0} /\ total <= PagesOf(total) * Limit
  BY PagesEnough
<1>5. PagesOf(total) * Limit <= p * Limit
  BY <1>4, PagesAssumption
<1>6. p * Limit \in Nat /\ PagesOf(total) * Limit \in Nat
  BY <1>4, PagesAssumption
<1> QED
  BY <1>1, <1>3, <1>4, <1>5, <1>6

-----------------------------------------------------------------------------
Call == [state : CallStates, page : Nat, total : Nat, rows : SUBSET Rows, grown : BOOLEAN]

USE DEF Call

\* The types hold at the start.
LEMMA PagesTypeInit ==
    ASSUME PagesInit PROVE PagesTypeOK
<1>1. Cardinality({}) = 0
  BY FS_EmptySet
<1>2. Stored = {}
  BY DEF PagesInit, Stored
<1>3. /\ calls \in [1..MaxCalls -> Call]
      /\ \A k \in 1..MaxCalls : calls[k].rows = {}
  BY DEF PagesInit, NoCall, CallStates
<1>4. \A k \in 1..MaxCalls : Cardinality(calls[k].rows) <= Limit
  <2> SUFFICES ASSUME NEW k \in 1..MaxCalls PROVE Cardinality(calls[k].rows) <= Limit
    OBVIOUS
  <2>1. calls[k].rows = {}
    BY <1>3
  <2>2. Cardinality(calls[k].rows) = 0
    BY <1>1, <2>1, Zenon
  <2> QED
    BY <2>2, PagesAssumption
<1>5. /\ table \in [Rows -> Times \cup {0}] /\ gone = {} /\ there = {} /\ seen = {}
      /\ made \in 0..MaxCalls /\ page = 1 /\ pages = 1
      /\ prevOff = TRUE /\ nextOff = TRUE /\ rushed = FALSE /\ grown = FALSE
  BY PagesAssumption DEF PagesInit
<1>6. gone \subseteq Rows /\ gone \cap Stored = {} /\ there \subseteq Stored /\ seen \subseteq Rows
  BY <1>5, Zenon
<1>7. page \in Nat \ {0} /\ pages \in Nat \ {0}
  BY <1>5
<1>8. prevOff \in BOOLEAN /\ nextOff \in BOOLEAN /\ rushed \in BOOLEAN /\ grown \in BOOLEAN
  BY <1>5, Zenon
<1> QED
  BY <1>3, <1>4, <1>5, <1>6, <1>7, <1>8, Zenon DEF PagesTypeOK

\* A call of page n has the types of a call.
LEMMA LoadTypes ==
    ASSUME PagesTypeOK, NEW n \in Nat \ {0}, Load(n)
    PROVE  /\ page' \in Nat \ {0} /\ made' \in 0..MaxCalls
           /\ calls' \in [1..MaxCalls -> Call]
           /\ \A k \in 1..MaxCalls : Cardinality(calls'[k].rows) <= Limit
<1>1. Cardinality({}) = 0
  BY FS_EmptySet
<1>2. made + 1 \in 1..MaxCalls /\ MaxCalls \in Nat /\ Limit \in Nat
  BY PagesAssumption DEF Load, PagesTypeOK
<1>3. DEFINE new == [NoCall EXCEPT !.state = "sent", !.page = n]
<1>4. new \in Call /\ new.rows = {}
  BY DEF NoCall, CallStates
<1>5. calls' = [calls EXCEPT ![made + 1] = new]
  BY DEF Load
<1>6. \A k \in 1..MaxCalls : Cardinality(calls'[k].rows) <= Limit
  <2> SUFFICES ASSUME NEW k \in 1..MaxCalls PROVE Cardinality(calls'[k].rows) <= Limit
    OBVIOUS
  <2>1. CASE k = made + 1
    <3>1. calls'[k] = new
      BY <1>2, <1>5, <2>1 DEF PagesTypeOK
    <3> QED
      BY <1>1, <1>2, <1>4, <3>1
  <2>2. CASE k # made + 1
    BY <1>5, <2>2 DEF PagesTypeOK
  <2> QED
    BY <2>1, <2>2
<1> QED
  BY <1>2, <1>4, <1>5, <1>6 DEF Load, PagesTypeOK

\* And after every step.
LEMMA PagesTypeStep ==
    ASSUME PagesTypeOK, [PagesNext]_pagesVars PROVE PagesTypeOK'
<1> USE DEF PagesTypeOK
<1>empty. Cardinality({}) = 0 /\ Limit \in Nat \ {0} /\ MaxCalls \in Nat
  BY FS_EmptySet, PagesAssumption
<1>1. CASE Open
  <2>1. Load(1) /\ there' \in {{}, Stored} /\ UNCHANGED table
    BY <1>1 DEF Open, Judged
  <2>2. Stored' = Stored /\ Stored \subseteq Rows
    BY <2>1 DEF Stored
  <2>3. /\ page' \in Nat \ {0} /\ made' \in 0..MaxCalls
        /\ calls' \in [1..MaxCalls -> Call]
        /\ \A k \in 1..MaxCalls : Cardinality(calls'[k].rows) <= Limit
    BY <2>1, LoadTypes
  <2>4. rushed' \in BOOLEAN
    BY <1>1 DEF Open, Quiet
  <2>5. UNCHANGED <<table, gone, pages, prevOff, nextOff>> /\ seen' = {} /\ grown' = FALSE
    BY <1>1 DEF Open
  <2> QED
    BY <2>1, <2>2, <2>3, <2>4, <2>5
<1>2. ASSUME NEW d \in {1, -1}, Turn(d) PROVE PagesTypeOK'
  <2>1. Load(page + d) /\ page + d \in 1..pages /\ Stored' = Stored
    BY <1>2 DEF Turn, Stored
  <2>2. page + d \in Nat \ {0}
    BY <2>1
  <2>3. /\ page' \in Nat \ {0} /\ made' \in 0..MaxCalls
        /\ calls' \in [1..MaxCalls -> Call]
        /\ \A k \in 1..MaxCalls : Cardinality(calls'[k].rows) <= Limit
    BY <2>1, <2>2, LoadTypes
  <2>4. rushed' \in BOOLEAN
    BY <1>2 DEF Turn, Quiet
  <2>5. there' \subseteq there /\ seen' \subseteq seen /\ grown' \in BOOLEAN
    BY <1>2 DEF Turn, Judged
  <2>6. UNCHANGED <<table, gone, pages, prevOff, nextOff>>
    BY <1>2 DEF Turn
  <2> QED
    BY <2>1, <2>3, <2>4, <2>5, <2>6
<1>3. ASSUME NEW k \in 1..MaxCalls, Count(k) PROVE PagesTypeOK'
  <2>1. Stored' = Stored /\ Cardinality(Stored) \in Nat
    BY <1>3, StoredFinite DEF Count, Stored
  <2>2. /\ calls' \in [1..MaxCalls -> Call]
        /\ \A j \in 1..MaxCalls : calls'[j].rows = calls[j].rows
    <3> DEFINE new == [calls[k] EXCEPT !.state = "counted", !.total = Cardinality(Stored)]
    <3>1. new \in Call /\ new.rows = calls[k].rows
      BY <2>1 DEF CallStates
    <3>2. calls' = [calls EXCEPT ![k] = new]
      BY <1>3 DEF Count
    <3> HIDE DEF new
    <3> QED
      BY <3>1, <3>2
  <2> QED
    BY <1>3, <2>1, <2>2 DEF Count
<1>4. ASSUME NEW k \in 1..MaxCalls, Select(k) PROVE PagesTypeOK'
  <2>1. PICK rows \in Page(calls[k].page) : calls' = [calls EXCEPT ![k] = [@ EXCEPT !.state = "answered", !.rows = rows]]
    BY <1>4 DEF Select
  <2>2. Stored' = Stored /\ rows \subseteq Rows
    BY <1>4, <2>1 DEF Select, Stored, Page
  <2>3. Cardinality(rows) <= Limit
    BY <2>1, PageSize
  <2>4. calls' \in [1..MaxCalls -> Call]
    <3> DEFINE new == [calls[k] EXCEPT !.state = "answered", !.rows = rows]
    <3>1. new \in Call
      BY <2>2 DEF CallStates
    <3>2. calls' = [calls EXCEPT ![k] = new]
      BY <2>1
    <3> HIDE DEF new
    <3> QED
      BY <3>1, <3>2
  <2>5. \A j \in 1..MaxCalls : Cardinality(calls'[j].rows) <= Limit
    BY <2>1, <2>3
  <2> QED
    BY <1>4, <2>2, <2>4, <2>5 DEF Select
<1>5. ASSUME NEW k \in 1..MaxCalls, Show(k) PROVE PagesTypeOK'
  <2>1. PagesOf(calls[k].total) \in Nat \ {0} /\ Stored' = Stored
    BY <1>5, PagesEnough DEF Show, Stored
  <2>2. calls' \in [1..MaxCalls -> Call]
    BY <1>5 DEF Show, NoCall, CallStates
  <2>3. \A j \in 1..MaxCalls : Cardinality(calls'[j].rows) <= Limit
    BY <1>5, <1>empty DEF Show, NoCall
  <2>4. calls[k].rows \subseteq Rows /\ calls[k].grown \in BOOLEAN
    OBVIOUS
  <2>5. seen' \subseteq Rows
    BY <1>5, <2>4 DEF Show, Judged
  <2>6. grown' \in BOOLEAN
    BY <1>5, <2>4 DEF Show
  <2>7. prevOff' \in BOOLEAN /\ nextOff' \in BOOLEAN
    BY <1>5 DEF Show
  <2>8. /\ pages' = PagesOf(calls[k].total)
        /\ UNCHANGED <<table, gone, page, made, there, rushed>>
    BY <1>5 DEF Show
  <2> QED
    BY <2>1, <2>2, <2>3, <2>5, <2>6, <2>7, <2>8
<1>6. ASSUME NEW k \in 1..MaxCalls, Fail(k) PROVE PagesTypeOK'
  <2>1. Stored' = Stored
    BY <1>6 DEF Fail, Stored
  <2>2. calls' \in [1..MaxCalls -> Call]
    BY <1>6 DEF Fail, NoCall, CallStates
  <2>3. \A j \in 1..MaxCalls : Cardinality(calls'[j].rows) <= Limit
    BY <1>6, <1>empty DEF Fail, NoCall
  <2> QED
    BY <1>6, <2>1, <2>2, <2>3 DEF Fail
<1>7. ASSUME NEW t \in Times, Prune(t) PROVE PagesTypeOK'
  <2> DEFINE old == {r \in Stored : table[r] < t}
  <2>1. table' \in [Rows -> Times \cup {0}] /\ Stored' = Stored \ old /\ old \subseteq Rows
    BY <1>7 DEF Prune, Stored
  <2> QED
    BY <1>7, <2>1 DEF Prune
<1>8. ASSUME NEW t \in Times, NEW r \in Rows, Insert(r, t) PROVE PagesTypeOK'
  <2>1. table' \in [Rows -> Times \cup {0}] /\ Stored \subseteq Stored' /\ Stored' \subseteq Stored \cup {r}
    BY <1>8 DEF Insert, Stored
  <2>2. /\ calls' \in [1..MaxCalls -> Call]
        /\ \A j \in 1..MaxCalls : calls'[j].rows = calls[j].rows
    <3>1. \A j \in 1..MaxCalls, b \in BOOLEAN :
             [calls[j] EXCEPT !.grown = b] \in Call /\ [calls[j] EXCEPT !.grown = b].rows = calls[j].rows
      OBVIOUS
    <3>2. calls' = [j \in 1..MaxCalls |->
                      [calls[j] EXCEPT !.grown = calls[j].grown \/ calls[j].state = "counted"]]
      BY <1>8 DEF Insert
    <3>3. \A j \in 1..MaxCalls : (calls[j].grown \/ calls[j].state = "counted") \in BOOLEAN
      OBVIOUS
    <3> QED
      BY <3>1, <3>2, <3>3
  <2> QED
    BY <1>8, <2>1, <2>2 DEF Insert
<1>9. CASE UNCHANGED pagesVars
  BY <1>9 DEF pagesVars, Stored
<1> QED
  BY <1>1, <1>2, <1>3, <1>4, <1>5, <1>6, <1>7, <1>8, <1>9 DEF PagesNext

(***************************************************************************)
(* PagesTypeOK holds whatever is loaded, stored and pruned: the pager      *)
(* never goes below the first page, no answer has more rows than a page,   *)
(* and the rows a walk must show are still in the table.                   *)
(***************************************************************************)
THEOREM PagesTypesHold == PagesSpec => []PagesTypeOK
<1>1. PagesInit => PagesTypeOK
  BY PagesTypeInit
<1>2. PagesTypeOK /\ [PagesNext]_pagesVars => PagesTypeOK'
  BY PagesTypeStep
<1> QED
  BY <1>1, <1>2, PTL DEF PagesSpec

-----------------------------------------------------------------------------
\* What a walk owes after n pages comes after fewer pages as well.
LEMMA DeepBelow ==
    ASSUME PagesTypeOK, NEW m \in Nat, NEW n \in 0..m, NEW S, Deep(m, S)
    PROVE  Deep(n, S)
<1> SUFFICES ASSUME NEW r \in Owed(S) PROVE Cardinality(Above(r)) >= n * Limit
  BY DEF Deep
<1>1. Cardinality(Above(r)) >= m * Limit /\ Cardinality(Above(r)) \in Nat
  BY StoredFinite DEF Deep, Above
<1>2. n * Limit \in Nat /\ m * Limit \in Nat /\ n * Limit <= m * Limit
  <2>1. Limit \in Nat /\ m - n \in Nat /\ m * Limit = n * Limit + (m - n) * Limit
    BY PagesAssumption
  <2>2. (m - n) * Limit \in Nat
    BY <2>1
  <2> QED
    BY <2>1, <2>2
<1> QED
  BY <1>1, <1>2

(***************************************************************************)
(* A row that is stored and rows that are pruned leave the invariant as it *)
(* is: nothing that is owed comes to stand before a page that was shown.   *)
(***************************************************************************)
LEMMA TableChanges ==
    ASSUME PagesTypeOK, PagesTypeOK', WalkInv,
           UNCHANGED <<page, nextOff, made, seen, rushed, grown>>,
           there' \subseteq there,
           \A r \in there' : Sole(r)' => Sole(r) /\ Above(r) \subseteq Above(r)',
           \A k \in 1..MaxCalls :
              /\ calls'[k].state = calls[k].state /\ calls'[k].page = calls[k].page
              /\ calls'[k].total = calls[k].total /\ calls'[k].rows = calls[k].rows
              /\ ~calls'[k].grown => ~calls[k].grown,
           \A k \in 1..MaxCalls :
              calls[k].state = "counted" /\ ~calls'[k].grown => Cardinality(Stored') <= Cardinality(Stored)
    PROVE  WalkInv'
<1>lim. Limit \in Nat /\ page \in Nat /\ MaxCalls \in Nat
  BY PagesAssumption DEF PagesTypeOK
<1>1. \A S : \A r \in there' \ S :
         Sole(r)' => r \in Owed(S) /\ Cardinality(Above(r)') >= Cardinality(Above(r))
  <2> SUFFICES ASSUME NEW S, NEW r \in there' \ S, Sole(r)'
               PROVE  r \in Owed(S) /\ Cardinality(Above(r)') >= Cardinality(Above(r))
    OBVIOUS
  <2>1. r \in Owed(S) /\ Above(r) \subseteq Above(r)'
    BY DEF Owed
  <2>2. IsFiniteSet(Above(r)')
    BY FS_Subset, PagesAssumption DEF Above, Stored
  <2> QED
    BY <2>1, <2>2, FS_Subset, FS_CardinalityType
<1>2. \A S : \A n \in Nat : Deep(n, S) =>
         \A r \in there' \ S : Sole(r)' => Cardinality(Above(r)') >= n * Limit
  <2> SUFFICES ASSUME NEW S, NEW n \in Nat, Deep(n, S), NEW r \in there' \ S, Sole(r)'
               PROVE  Cardinality(Above(r)') >= n * Limit
    OBVIOUS
  <2>1. Cardinality(Above(r)) >= n * Limit /\ Cardinality(Above(r)') >= Cardinality(Above(r))
    BY <1>1 DEF Deep
  <2>2. n * Limit \in Nat /\ Cardinality(Above(r)) \in Nat
    BY <1>lim, StoredFinite DEF Above
  <2>3. Cardinality(Above(r)') \in Nat
    BY FS_Subset, FS_CardinalityType, PagesAssumption DEF Above, Stored
  <2> QED
    BY <2>1, <2>2, <2>3
<1>3. \A S : Owed(S) = {} => {r \in there' \ S : Sole(r)'} = {}
  BY <1>1
<1> SUFFICES ASSUME ~rushed PROVE WalkInv'
  BY DEF WalkInv
<1>4. ASSUME NEW k \in 1..MaxCalls PROVE CallInv(k)'
  <2>1. CallInv(k)
    BY <1>4 DEF WalkInv
  <2>2. calls'[k].state # "none" => k = made' /\ calls'[k].page = page'
    BY <2>1 DEF CallInv
  <2>3. ASSUME calls'[k].state \in {"sent", "counted"} PROVE Deep(page - 1, seen)'
    <3>1. Deep(page - 1, seen) /\ page - 1 \in Nat
      BY <2>1, <2>3 DEF CallInv, PagesTypeOK
    <3> QED
      BY <3>1, <1>2 DEF Deep, Owed
  <2>4. ASSUME calls'[k].state = "counted", ~calls'[k].grown
        PROVE  Cardinality(Stored') <= calls'[k].total
    <3>1. Cardinality(Stored) <= calls[k].total /\ Cardinality(Stored') <= Cardinality(Stored)
      BY <2>1, <2>4 DEF CallInv
    <3>2. Cardinality(Stored) \in Nat /\ calls[k].total \in Nat
      BY StoredFinite DEF PagesTypeOK
    <3>3. Cardinality(Stored') \in Nat
      BY FS_Subset, FS_CardinalityType, PagesAssumption DEF Stored
    <3> QED
      BY <3>1, <3>2, <3>3
  <2>5. ASSUME calls'[k].state = "answered"
        PROVE  /\ Deep(page, seen \cup calls[k].rows)'
               /\ page' >= PagesOf(calls'[k].total) /\ ~calls'[k].grown =>
                    Owed(seen \cup calls[k].rows)' = {}
    <3>1. /\ Deep(page, seen \cup calls[k].rows)
          /\ page >= PagesOf(calls[k].total) /\ ~calls[k].grown => Owed(seen \cup calls[k].rows) = {}
      BY <2>1, <2>5 DEF CallInv
    <3>2. Deep(page, seen \cup calls[k].rows)'
      BY <3>1, <1>2, <1>lim DEF Deep, Owed
    <3>3. page' >= PagesOf(calls'[k].total) /\ ~calls'[k].grown => Owed(seen \cup calls[k].rows) = {}
      BY <3>1 DEF PagesOf
    <3> QED
      BY <3>2, <3>3, <1>3 DEF Owed
  <2> QED
    BY <2>2, <2>3, <2>4, <2>5 DEF CallInv
<1>5. ASSUME Quiet' PROVE Deep(page, seen)' /\ (nextOff' /\ ~grown' => Owed(seen)' = {})
  <2>1. Quiet
    BY <1>5 DEF Quiet
  <2>2. Deep(page, seen) /\ (nextOff /\ ~grown => Owed(seen) = {})
    BY <2>1 DEF WalkInv
  <2>3. Deep(page, seen)'
    BY <2>2, <1>2, <1>lim DEF Deep, Owed
  <2> QED
    BY <2>2, <2>3, <1>3 DEF Owed
<1> QED
  BY <1>4, <1>5 DEF WalkInv

\* At the start nothing is owed.
LEMMA WalkInit ==
    ASSUME PagesInit PROVE WalkInv
<1>1. \A S : Owed(S) = {}
  BY DEF PagesInit, Owed
<1>2. \A k \in 1..MaxCalls : calls[k].state = "none"
  BY DEF PagesInit, NoCall
<1> QED
  BY <1>1, <1>2 DEF WalkInv, CallInv, Deep

\* A call made when no other is under way is the only one.
LEMMA LoadOne ==
    ASSUME PagesTypeOK, Quiet, NEW n \in Nat \ {0}, Load(n)
    PROVE  /\ page' = n /\ ~Quiet'
           /\ \A k \in 1..MaxCalls : calls'[k].state # "none" => k = made' /\ calls'[k].page = n
                                                                 /\ calls'[k].state = "sent"
<1>1. made + 1 \in 1..MaxCalls
  BY PagesAssumption DEF Load, PagesTypeOK
<1>2. calls'[made + 1] = [NoCall EXCEPT !.state = "sent", !.page = n]
  BY <1>1 DEF Load, PagesTypeOK
<1>3. \A k \in 1..MaxCalls : k # made + 1 => calls'[k].state = "none"
  BY DEF Load, PagesTypeOK, Quiet
<1>4. calls'[made + 1].state = "sent" /\ calls'[made + 1].page = n
  BY <1>2 DEF NoCall
<1>5. page' = n /\ made' = made + 1
  BY DEF Load
<1>6. ~Quiet'
  BY <1>1, <1>4 DEF Quiet
<1> QED
  BY <1>3, <1>4, <1>5, <1>6

\* The walk goes on as the invariant says.
LEMMA WalkStep ==
    ASSUME PagesTypeOK, PagesTypeOK', WalkInv, [PagesNext]_pagesVars
    PROVE  WalkInv'
<1>types. page \in Nat \ {0} /\ Limit \in Nat \ {0}
  BY PagesAssumption DEF PagesTypeOK
<1>1. CASE Open
  <2> SUFFICES ASSUME ~rushed' PROVE WalkInv'
    BY DEF WalkInv
  <2>1. Load(1) /\ Quiet /\ UNCHANGED table
    BY <1>1 DEF Open
  <2>2. \A S : Deep(0, S)'
    <3>1. \A r \in Rows : Cardinality(Above(r)') \in Nat
      BY FS_Subset, FS_CardinalityType, PagesAssumption DEF Above, Stored
    <3>2. there' \subseteq Rows
      BY DEF PagesTypeOK, Stored
    <3>3. 0 * Limit = 0
      BY <1>types
    <3> QED
      BY <3>1, <3>2, <3>3 DEF Deep, Owed
  <2>3. ASSUME NEW k \in 1..MaxCalls PROVE CallInv(k)'
    <3>1. calls'[k].state # "none" => k = made' /\ calls'[k].page = page' /\ calls'[k].state = "sent"
      BY <2>1, LoadOne
    <3>2. Deep(page - 1, seen)'
      <4>1. page' - 1 = 0
        BY <2>1, LoadOne
      <4> QED
        BY <2>2, <4>1 DEF Deep, Owed
    <3> QED
      BY <3>1, <3>2 DEF CallInv
  <2> QED
    BY <2>1, <2>3, LoadOne DEF WalkInv
<1>2. ASSUME NEW d \in {1, -1}, Turn(d) PROVE WalkInv'
  <2> SUFFICES ASSUME ~rushed' PROVE WalkInv'
    BY DEF WalkInv
  <2>1. Load(page + d) /\ Quiet /\ ~rushed /\ page + d \in 1..pages /\ UNCHANGED <<table, there, seen>>
    BY <1>2 DEF Turn, Judged
  <2>2. page + d \in Nat \ {0} /\ page + d - 1 \in 0..page
    BY <2>1, <1>types
  <2>3. Deep(page + d - 1, seen)
    BY <2>1, <2>2, <1>types, DeepBelow DEF WalkInv
  <2>4. page' = page + d
    BY <2>1, <2>2, LoadOne
  <2>5. Deep(page - 1, seen)'
    <3>1. page' - 1 = page + d - 1
      BY <1>types, <2>4
    <3>2. \A r \in Owed(seen) : Cardinality(Above(r)) >= (page' - 1) * Limit
      BY <2>3, <3>1 DEF Deep
    <3> QED
      BY <2>1, <3>2 DEF Deep, Owed, Above, Sole, Stored
  <2>6. ASSUME NEW k \in 1..MaxCalls PROVE CallInv(k)'
    <3>1. calls'[k].state # "none" => k = made' /\ calls'[k].page = page' /\ calls'[k].state = "sent"
      BY <2>1, <2>2, LoadOne
    <3> QED
      BY <3>1, <2>5 DEF CallInv
  <2>7. ~Quiet'
    BY <2>1, <2>2, LoadOne
  <2> QED
    BY <2>6, <2>7 DEF WalkInv
<1>3. ASSUME NEW k \in 1..MaxCalls, Count(k) PROVE WalkInv'
  <2> SUFFICES ASSUME ~rushed' PROVE WalkInv'
    BY DEF WalkInv
  <2>1. ~rushed /\ UNCHANGED <<table, page, made, there, seen>>
    BY <1>3 DEF Count
  <2>2. CallInv(k) /\ calls[k].state = "sent" /\ \A j \in 1..MaxCalls \ {k} : calls[j].state = "none"
    BY <1>3, <2>1 DEF WalkInv, CallInv, Count
  <2>3. /\ calls'[k].state = "counted" /\ calls'[k].page = calls[k].page
        /\ calls'[k].total = Cardinality(Stored)
        /\ \A j \in 1..MaxCalls \ {k} : calls'[j].state = "none"
    BY <1>3, <2>2 DEF Count, PagesTypeOK
  <2>4. k = made' /\ calls'[k].page = page' /\ Deep(page - 1, seen)
    BY <2>1, <2>2, <2>3 DEF CallInv
  <2>5. Deep(page - 1, seen)' /\ Stored' = Stored /\ Cardinality(Stored) \in Nat
    BY <2>1, <2>4, StoredFinite DEF Deep, Owed, Above, Sole, Stored
  <2>6. CallInv(k)'
    BY <2>3, <2>4, <2>5 DEF CallInv
  <2> QED
    BY <2>3, <2>6 DEF WalkInv, CallInv, Quiet
<1>4. ASSUME NEW k \in 1..MaxCalls, Select(k) PROVE WalkInv'
  <2> SUFFICES ASSUME ~rushed' PROVE WalkInv'
    BY DEF WalkInv
  <2>1. PICK shown \in Page(calls[k].page) : calls' = [calls EXCEPT ![k] = [@ EXCEPT !.state = "answered", !.rows = shown]]
    BY <1>4 DEF Select
  <2>2. ~rushed /\ calls[k].state = "counted" /\ UNCHANGED <<table, page, made, there, seen>>
    BY <1>4 DEF Select
  <2>3. CallInv(k) /\ \A j \in 1..MaxCalls \ {k} : calls[j].state = "none"
    BY <2>2 DEF WalkInv, CallInv
  <2>4. /\ calls'[k].state = "answered" /\ calls'[k].page = page /\ calls'[k].rows = shown
        /\ calls'[k].total = calls[k].total /\ calls'[k].grown = calls[k].grown /\ k = made
        /\ \A j \in 1..MaxCalls \ {k} : calls'[j].state = "none"
    BY <2>1, <2>2, <2>3 DEF CallInv, PagesTypeOK
  <2>5. shown \in Page(page) /\ Deep(page - 1, seen) /\ calls[k].total \in Nat
    BY <2>1, <2>2, <2>3 DEF CallInv, PagesTypeOK
  <2>6. Deep(page, seen \cup shown)
    BY <2>5, <1>types, PageShown
  <2>7. page >= PagesOf(calls[k].total) /\ ~calls[k].grown => Owed(seen \cup shown) = {}
    <3> SUFFICES ASSUME page >= PagesOf(calls[k].total), ~calls[k].grown
                 PROVE  Owed(seen \cup shown) = {}
      OBVIOUS
    <3>1. Cardinality(Stored) <= calls[k].total
      BY <2>2, <2>3 DEF CallInv
    <3> QED
      BY <3>1, <2>5, <2>6, <1>types, LastShown
  <2>8. Deep(page, seen \cup calls[k].rows)'
    BY <2>2, <2>4, <2>6 DEF Deep, Owed, Above, Sole, Stored
  <2>9. (page >= PagesOf(calls[k].total) /\ ~calls[k].grown => Owed(seen \cup calls[k].rows) = {})'
    BY <2>2, <2>4, <2>7 DEF Owed, Sole, Stored, PagesOf
  <2>10. CallInv(k)'
    BY <2>2, <2>4, <2>8, <2>9 DEF CallInv
  <2> QED
    BY <2>4, <2>10 DEF WalkInv, CallInv, Quiet
<1>5. ASSUME NEW k \in 1..MaxCalls, Show(k) PROVE WalkInv'
  <2> SUFFICES ASSUME ~rushed' PROVE WalkInv'
    BY DEF WalkInv
  <2>1. ~rushed /\ calls[k].state = "answered" /\ UNCHANGED <<table, page, made, there>>
    BY <1>5 DEF Show
  <2>2. CallInv(k) /\ \A j \in 1..MaxCalls \ {k} : calls[j].state = "none"
    BY <2>1 DEF WalkInv, CallInv
  <2>3. calls[k].page = page /\ seen' = seen \cup calls[k].rows /\ (~grown' => ~calls[k].grown)
        /\ nextOff' = (page >= PagesOf(calls[k].total))
    BY <1>5, <2>1, <2>2 DEF Show, CallInv, Judged
  <2>4. \A j \in 1..MaxCalls : calls'[j].state = "none"
    BY <1>5, <2>2 DEF Show, NoCall, PagesTypeOK
  <2>5. /\ Deep(page, seen \cup calls[k].rows)
        /\ page >= PagesOf(calls[k].total) /\ ~calls[k].grown => Owed(seen \cup calls[k].rows) = {}
    BY <2>1, <2>2 DEF CallInv
  <2>6. Deep(page, seen)'
    BY <2>1, <2>3, <2>5 DEF Deep, Owed, Above, Sole, Stored
  <2>7. nextOff' /\ ~grown' => Owed(seen)' = {}
    BY <2>1, <2>3, <2>5 DEF Owed, Sole, Stored
  <2> QED
    BY <2>4, <2>6, <2>7 DEF WalkInv, CallInv
<1>6. ASSUME NEW k \in 1..MaxCalls, Fail(k) PROVE WalkInv'
  BY <1>6 DEF Fail, WalkInv
<1>7. ASSUME NEW t \in Times, Prune(t) PROVE WalkInv'
  <2> DEFINE old == {r \in Stored : table[r] < t}
  <2>1. Stored' = Stored \ old /\ there' = there \ old /\ \A q \in Stored' : table'[q] = table[q]
    BY <1>7 DEF Prune, Stored, PagesTypeOK
  <2>2. \A q \in Stored : table[q] \in Nat /\ t \in Nat
    BY PagesAssumption DEF PagesTypeOK, Stored
  <2>3. ASSUME NEW r \in there', Sole(r)' PROVE Sole(r) /\ Above(r) \subseteq Above(r)'
    <3>1. r \in Stored' /\ r \in Stored /\ ~(table[r] < t) /\ table'[r] = table[r]
      BY <2>1, <2>3 DEF PagesTypeOK
    <3>2. Sole(r)
      BY <2>1, <2>2, <2>3, <3>1 DEF Sole
    <3>3. Above(r) \subseteq Above(r)'
      BY <2>1, <2>2, <3>1 DEF Above
    <3> QED
      BY <3>2, <3>3
  <2>4. Cardinality(Stored') <= Cardinality(Stored)
    BY <2>1, StoredParts
  <2>5. UNCHANGED <<page, nextOff, made, calls, seen, rushed, grown>>
    BY <1>7 DEF Prune
  <2> QED
    BY <2>1, <2>3, <2>4, <2>5, TableChanges
<1>8. ASSUME NEW t \in Times, NEW r \in Rows, Insert(r, t) PROVE WalkInv'
  <2>1. Stored \subseteq Stored' /\ \A q \in Stored : table'[q] = table[q]
    BY <1>8 DEF Insert, Stored, PagesTypeOK
  <2>2. ASSUME NEW q \in there', Sole(q)' PROVE Sole(q) /\ Above(q) \subseteq Above(q)'
    <3>1. q \in Stored
      BY <1>8, <2>2 DEF Insert, PagesTypeOK
    <3> QED
      BY <2>1, <2>2, <3>1 DEF Sole, Above
  <2>3. UNCHANGED <<page, nextOff, made, there, seen, rushed, grown>>
    BY <1>8 DEF Insert
  <2>4. \A k \in 1..MaxCalls :
           /\ calls'[k].state = calls[k].state /\ calls'[k].page = calls[k].page
           /\ calls'[k].total = calls[k].total /\ calls'[k].rows = calls[k].rows
           /\ ~calls'[k].grown => ~calls[k].grown /\ calls[k].state # "counted"
    BY <1>8 DEF Insert, PagesTypeOK
  <2> QED
    BY <2>2, <2>3, <2>4, TableChanges
<1>9. CASE UNCHANGED pagesVars
  <2>1. UNCHANGED <<page, nextOff, made, there, seen, rushed, grown, table, calls>>
    BY <1>9 DEF pagesVars
  <2>2. Stored' = Stored /\ \A r : Sole(r)' = Sole(r) /\ Above(r)' = Above(r)
    BY <2>1 DEF Stored, Sole, Above
  <2>3. Cardinality(Stored') <= Cardinality(Stored)
    BY <2>2, StoredFinite
  <2> QED
    BY <2>1, <2>2, <2>3, TableChanges
<1> QED
  BY <1>1, <1>2, <1>3, <1>4, <1>5, <1>6, <1>7, <1>8, <1>9 DEF PagesNext

(***************************************************************************)
(* NothingMissed holds for any number of rows, any size of a page and any  *)
(* number of calls: whoever walks to the last page has seen every row that *)
(* was stored all the while.                                               *)
(***************************************************************************)
THEOREM NothingIsMissed == PagesSpec => []NothingMissed
<1>1. PagesInit => PagesTypeOK /\ WalkInv
  BY PagesTypeInit, WalkInit
<1>2. PagesTypeOK /\ WalkInv /\ [PagesNext]_pagesVars => (PagesTypeOK /\ WalkInv)'
  BY PagesTypeStep, WalkStep
<1>3. PagesTypeOK /\ WalkInv => NothingMissed
  <2> SUFFICES ASSUME PagesTypeOK, WalkInv, Quiet, nextOff, ~rushed, ~grown, DistinctTimes,
                      NEW r \in there
               PROVE  r \in seen
    BY DEF NothingMissed
  <2>1. Owed(seen) = {}
    BY DEF WalkInv
  <2>2. Sole(r)
    BY DEF DistinctTimes, Sole, PagesTypeOK
  <2> QED
    BY <2>1, <2>2 DEF Owed
<1> QED
  BY <1>1, <1>2, <1>3, PTL DEF PagesSpec
=============================================================================
