-------------------------- MODULE AdminPageProofs --------------------------
(***************************************************************************)
(* Theorems about the admin page, for any accounts and addresses, and any  *)
(* number of pressed buttons, calls under way and faults.                  *)
(***************************************************************************)
EXTENDS AdminPage, SequenceTheorems, TLAPS

USE DEF serverVars, pageVars, networkVars, historyVars

-----------------------------------------------------------------------------
(***************************************************************************)
(* What a call makes of the users, and what the list was before an answer. *)
(***************************************************************************)
New(c, user) ==
    IF c.op = "create" THEN [on |-> TRUE, email |-> Normal[c.email]]
    ELSE IF c.op \in {"quickToggle", "toggle"} THEN [user EXCEPT !.on = ~@]
    ELSE IF c.op = "email" THEN [user EXCEPT !.email = Normal[c.email]]
    ELSE IF c.op = "delete" THEN NoUser ELSE user

Effect(c, table) == [u \in Ids |-> IF u = c.id THEN New(c, table[u]) ELSE table[u]]
After(a)  == IF a.ok /\ a.call.op \in Changes THEN Effect(a.call, a.users) ELSE a.users
Before(k) == IF k \in DOMAIN answers THEN answers[k].users ELSE server

\* A table of the backend: all addresses as EmailStr has them.
Plain(table) == SpelledAll(table) = table

Back  == {a.call : a \in Range(answers)}
Under == Range(sent) \cup Back

Toggles   == {"quickToggle", "toggle"}
FromTable == {"create", "quickToggle"}
FromPanel == {"toggle", "email", "delete"}

\* Calls that will be answered.
Awaited(ops) == \E c \in Under : c.op \in ops

\* Answers after which the page loads the list again.
Reloading(ops) == \E a \in Range(answers) : a.ok /\ a.call.op \in ops

-----------------------------------------------------------------------------
(***************************************************************************)
(* The inductive invariant.                                                *)
(***************************************************************************)
CallOK(c) ==
    /\ c.op \in Changes => c.id \in Ids
    /\ c.op \in {"create", "email"} => c.email \in Emails

AnswerOK(a) ==
    /\ a.call.op \in Loads => a.ok
    /\ a.ok /\ a.call.op \in Toggles \cup {"email"} => Present(a.users, a.call.id)
    /\ Plain(a.users)

CallsInv == /\ \A c \in Under : CallOK(c)
            /\ \A a \in Range(answers) : AnswerOK(a)
            /\ Plain(server)

\* The panel a change was sent from.
PanelInv ==
    steady => \A c \in Under : c.op \in Changes =>
                IF panel = "user-detail" THEN c.op \in FromPanel /\ c.id = detail.id
                ELSE c.op \in FromTable

\* The answers follow each other: each was made where the one before it had led.
ChainInv == ~doubtful => \A k \in DOMAIN answers : Before(k + 1) = After(answers[k])

\* After the last change, all answers say what the backend has.
SettledInv ==
    ~doubtful => \A k \in DOMAIN answers :
        (\A m \in DOMAIN answers : m >= k => answers[m].call.op \in Loads) => answers[k].users = server

\* The list will be loaded, or the answers lead from it to the backend.
ListInv ==
    ~doubtful => \/ Awaited(Loads)
                 \/ Reloading(Changes \ {"email"})
                 \/ SpelledAll(allUsers) = Before(1)

DetailInv == panel = "user-detail" /\ steady /\ ~doubtful => Spelled(detail.user) = Before(1)[detail.id]

RowsInv ==
    panel \in Loads /\ steady /\ ~doubtful =>
        \/ Awaited({panel})
        \/ Reloading(FromTable)
        \/ (SpelledAll(allUsers) = Before(1) /\ SpelledAll(rows[panel]) = Before(1))

\* A load that was sent in quiet: the list it brings is the list there is.
FreshLoadInv ==
    (\E c \in Under : c.op \in Loads /\ c.fresh) =>
        /\ \A c \in Under : c.op \in Loads
        /\ \A a \in Range(answers) : a.users = server
        /\ panel \in Loads => \/ Awaited({panel})
                           \/ (SpelledAll(rows[panel]) = server /\ SpelledAll(allUsers) = server)
        /\ panel = "user-detail" => ~steady

\* A change that was sent in quiet: there is no other.
FreshChangeInv ==
    \A i \in DOMAIN sent : sent[i].fresh /\ sent[i].op \in Changes =>
        /\ \A j \in DOMAIN sent : j # i => sent[j].op \in Loads
        /\ \A c \in Back : c.op \in Loads
        /\ sent[i].op \in Toggles =>
             /\ Present(server, sent[i].id) /\ server[sent[i].id].on = ~sent[i].wants
             /\ sent[i].seen \in {NoUser, server[sent[i].id]}

-----------------------------------------------------------------------------
(***************************************************************************)
(* Sequences of calls and of answers.                                      *)
(***************************************************************************)
\* The elements of a sequence.
LEMMA InRange ==
    ASSUME NEW S, NEW s \in Seq(S)
    PROVE  /\ Len(s) \in Nat /\ DOMAIN s = 1..Len(s) /\ \A i \in DOMAIN s : s[i] \in S
           /\ Range(s) \subseteq S
           /\ \A x : x \in Range(s) <=> \E i \in DOMAIN s : s[i] = x
           /\ s = <<>> <=> DOMAIN s = {}
           /\ s = <<>> <=> Range(s) = {}
           /\ s # <<>> => 1 \in DOMAIN s
<1>1. Len(s) \in Nat /\ DOMAIN s = 1..Len(s) /\ \A i \in DOMAIN s : s[i] \in S
  OBVIOUS
<1>2. \A x : x \in Range(s) <=> \E i \in DOMAIN s : s[i] = x
  BY DEF Range
<1>3. s # <<>> => 1 \in DOMAIN s
  BY <1>1, EmptySeq
<1>4. s = <<>> => DOMAIN s = {}
  BY <1>1
<1> QED
  BY <1>1, <1>2, <1>3, <1>4, Zenon

\* One more at the end.
LEMMA Appended ==
    ASSUME NEW S, NEW s \in Seq(S), NEW x \in S
    PROVE  /\ Append(s, x) \in Seq(S) /\ Len(Append(s, x)) = Len(s) + 1
           /\ DOMAIN Append(s, x) = 1..(Len(s) + 1)
           /\ \A i \in DOMAIN s : i \in DOMAIN Append(s, x) /\ Append(s, x)[i] = s[i]
           /\ Append(s, x)[Len(s) + 1] = x
           /\ Range(Append(s, x)) = Range(s) \cup {x}
<1>1. /\ Append(s, x) \in Seq(S) /\ Len(Append(s, x)) = Len(s) + 1
      /\ \A i \in 1..Len(s) : Append(s, x)[i] = s[i]
      /\ Append(s, x)[Len(s) + 1] = x
  BY AppendProperties
<1>2. DOMAIN Append(s, x) = 1..(Len(s) + 1) /\ DOMAIN s = 1..Len(s) /\ Len(s) \in Nat
  BY <1>1, InRange
<1>3. \A i : i \in 1..(Len(s) + 1) <=> i \in 1..Len(s) \/ i = Len(s) + 1
  BY <1>2
<1>4. \A y : y \in Range(Append(s, x)) <=> \E i \in 1..(Len(s) + 1) : Append(s, x)[i] = y
  BY <1>1, <1>2, InRange
<1>5. \A y : y \in Range(s) <=> \E i \in 1..Len(s) : s[i] = y
  BY <1>2, InRange
<1>6. \A y : y \in Range(Append(s, x)) <=> y \in Range(s) \/ y = x
  BY <1>1, <1>3, <1>4, <1>5, Zenon
<1>7. \A i \in DOMAIN s : i \in DOMAIN Append(s, x) /\ Append(s, x)[i] = s[i]
  BY <1>1, <1>2, <1>3, Zenon
<1> QED
  BY <1>1, <1>2, <1>6, <1>7

\* Where the k-th element is found in a sequence that still has the i-th.
Past(i, k) == IF k < i THEN k ELSE k + 1

\* One less.
LEMMA Removed ==
    ASSUME NEW S, NEW s \in Seq(S), NEW i \in DOMAIN s
    PROVE  /\ RemoveAt(s, i) \in Seq(S) /\ Len(RemoveAt(s, i)) = Len(s) - 1
           /\ DOMAIN RemoveAt(s, i) = 1..(Len(s) - 1)
           /\ \A k \in DOMAIN RemoveAt(s, i) : RemoveAt(s, i)[k] = s[Past(i, k)]
           /\ \A k \in DOMAIN RemoveAt(s, i) : k \in DOMAIN s /\ k + 1 \in DOMAIN s
           /\ Range(RemoveAt(s, i)) \subseteq Range(s)
           /\ Range(s) \subseteq Range(RemoveAt(s, i)) \cup {s[i]}
<1> DEFINE r == RemoveAt(s, i)
<1>1. Len(s) \in Nat /\ DOMAIN s = 1..Len(s) /\ i \in 1..Len(s) /\ \A k \in 1..Len(s) : s[k] \in S
  BY InRange
<1>2. /\ SubSeq(s, 1, i - 1) \in Seq(S) /\ Len(SubSeq(s, 1, i - 1)) = i - 1
      /\ \A k \in 1..(i - 1) : SubSeq(s, 1, i - 1)[k] = s[k]
  <2>1. /\ SubSeq(s, 1, i - 1) \in Seq(S)
        /\ Len(SubSeq(s, 1, i - 1)) = IF 1 <= i - 1 THEN i - 1 - 1 + 1 ELSE 0
        /\ \A k \in 1..(i - 1 - 1 + 1) : SubSeq(s, 1, i - 1)[k] = s[1 + k - 1]
    <3>1. 1 \in Int /\ i - 1 \in Int /\ \A k \in 1..(i - 1) : s[k] \in S
      BY <1>1
    <3> QED
      BY <3>1, SubSeqProperties
  <2>2. i - 1 - 1 + 1 = i - 1 /\ (IF 1 <= i - 1 THEN i - 1 - 1 + 1 ELSE 0) = i - 1
    BY <1>1
  <2>3. \A k \in 1..(i - 1) : 1 + k - 1 = k
    BY <1>1
  <2> QED
    BY <2>1, <2>2, <2>3
<1>3. /\ SubSeq(s, i + 1, Len(s)) \in Seq(S) /\ Len(SubSeq(s, i + 1, Len(s))) = Len(s) - i
      /\ \A k \in 1..(Len(s) - i) : SubSeq(s, i + 1, Len(s))[k] = s[i + k]
  <2>1. /\ SubSeq(s, i + 1, Len(s)) \in Seq(S)
        /\ Len(SubSeq(s, i + 1, Len(s))) = IF i + 1 <= Len(s) THEN Len(s) - (i + 1) + 1 ELSE 0
        /\ \A k \in 1..(Len(s) - (i + 1) + 1) : SubSeq(s, i + 1, Len(s))[k] = s[i + 1 + k - 1]
    <3>1. i + 1 \in Int /\ Len(s) \in Int /\ \A k \in (i + 1)..Len(s) : s[k] \in S
      BY <1>1
    <3> QED
      BY <3>1, SubSeqProperties
  <2>2. /\ Len(s) - (i + 1) + 1 = Len(s) - i
        /\ (IF i + 1 <= Len(s) THEN Len(s) - (i + 1) + 1 ELSE 0) = Len(s) - i
    BY <1>1
  <2>3. \A k \in 1..(Len(s) - i) : i + 1 + k - 1 = i + k
    BY <1>1
  <2> QED
    BY <2>1, <2>2, <2>3
<1>4. /\ r \in Seq(S) /\ Len(r) = i - 1 + (Len(s) - i)
      /\ \A k \in 1..(i - 1 + (Len(s) - i)) :
            r[k] = IF k <= i - 1 THEN SubSeq(s, 1, i - 1)[k] ELSE SubSeq(s, i + 1, Len(s))[k - (i - 1)]
  <2> DEFINE a == SubSeq(s, 1, i - 1)
             b == SubSeq(s, i + 1, Len(s))
  <2>1. a \in Seq(S) /\ b \in Seq(S) /\ Len(a) = i - 1 /\ Len(b) = Len(s) - i
    BY <1>2, <1>3
  <2>2. r = a \o b
    BY DEF RemoveAt
  <2> HIDE DEF a, b, r
  <2>3. /\ a \o b \in Seq(S) /\ Len(a \o b) = Len(a) + Len(b)
        /\ \A k \in 1..(Len(a) + Len(b)) : (a \o b)[k] = IF k <= Len(a) THEN a[k] ELSE b[k - Len(a)]
    BY <2>1, ConcatProperties
  <2>4. /\ r \in Seq(S) /\ Len(r) = i - 1 + (Len(s) - i)
        /\ \A k \in 1..(i - 1 + (Len(s) - i)) : r[k] = IF k <= i - 1 THEN a[k] ELSE b[k - (i - 1)]
    BY <2>1, <2>2, <2>3
  <2> QED
    BY <2>4 DEF a, b
<1> HIDE DEF r
<1>5. r \in Seq(S) /\ Len(r) = Len(s) - 1 /\ DOMAIN r = 1..(Len(s) - 1)
  BY <1>1, <1>4
<1>6. ASSUME NEW k \in 1..(Len(s) - 1)
      PROVE  r[k] = s[Past(i, k)] /\ k \in 1..Len(s) /\ k + 1 \in 1..Len(s)
  <2>1. k \in 1..(i - 1 + (Len(s) - i)) /\ k \in 1..Len(s) /\ k + 1 \in 1..Len(s)
    BY <1>1
  <2>2. CASE k < i
    <3>1. k <= i - 1 /\ k \in 1..(i - 1)
      BY <1>1, <2>2
    <3> QED
      BY <1>2, <1>4, <2>1, <2>2, <3>1 DEF Past
  <2>3. CASE ~(k < i)
    <3>1. ~(k <= i - 1) /\ k - (i - 1) \in 1..(Len(s) - i) /\ i + (k - (i - 1)) = k + 1
      BY <1>1, <2>1, <2>3
    <3> QED
      BY <1>3, <1>4, <2>1, <2>3, <3>1 DEF Past
  <2> QED
    BY <2>2, <2>3
<1>7. Range(r) \subseteq Range(s)
  <2>1. \A k \in 1..(Len(s) - 1) : Past(i, k) \in 1..Len(s)
    BY <1>1, <1>6 DEF Past
  <2> QED
    BY <1>1, <1>5, <1>6, <2>1, InRange
<1>8. ASSUME NEW j \in 1..Len(s), j # i PROVE s[j] \in Range(r)
  <2>1. CASE j < i
    <3>1. j \in 1..(Len(s) - 1) /\ Past(i, j) = j
      BY <1>1, <2>1 DEF Past
    <3> QED
      BY <1>5, <1>6, <2>1, <3>1, InRange
  <2>2. CASE i < j
    <3>1. j - 1 \in 1..(Len(s) - 1) /\ Past(i, j - 1) = j
      BY <1>1, <2>2 DEF Past
    <3>2. r[j - 1] = s[j]
      BY <1>6, <3>1
    <3> QED
      BY <1>5, <3>1, <3>2, InRange
  <2> QED
    BY <1>1, <1>8, <2>1, <2>2
<1>9. Range(s) \subseteq Range(r) \cup {s[i]}
  BY <1>1, <1>8, InRange
<1> QED
  BY <1>1, <1>5, <1>6, <1>7, <1>9 DEF r

LEMMA RemovedAt ==
    ASSUME NEW S, NEW s \in Seq(S), NEW i \in DOMAIN s, NEW k \in DOMAIN RemoveAt(s, i)
    PROVE  RemoveAt(s, i)[k] = s[Past(i, k)] /\ k \in DOMAIN s /\ k + 1 \in DOMAIN s
BY Removed

\* More calls at the end.
LEMMA Concatenated ==
    ASSUME NEW S, NEW s \in Seq(S), NEW t \in Seq(S)
    PROVE  /\ s \o t \in Seq(S) /\ Range(s \o t) = Range(s) \cup Range(t)
           /\ \A i \in DOMAIN s : i \in DOMAIN (s \o t) /\ (s \o t)[i] = s[i]
           /\ \A i \in DOMAIN (s \o t) : i \in DOMAIN s \/ (s \o t)[i] \in Range(t)
<1>1. s \o t \in Seq(S) /\ Range(s \o t) = Range(s) \cup Range(t)
  BY ConcatProperties, RangeConcatenation
<1>2. /\ DOMAIN s = 1..Len(s) /\ Len(s) \in Nat /\ DOMAIN t = 1..Len(t) /\ Len(t) \in Nat
      /\ DOMAIN (s \o t) = 1..(Len(s) + Len(t))
      /\ \A i \in 1..(Len(s) + Len(t)) : (s \o t)[i] = IF i <= Len(s) THEN s[i] ELSE t[i - Len(s)]
  BY ConcatProperties, InRange
<1>3. \A i \in 1..Len(s) : i \in 1..(Len(s) + Len(t)) /\ i <= Len(s)
  BY <1>2
<1>4. \A i \in 1..(Len(s) + Len(t)) : i \in 1..Len(s) \/ (~(i <= Len(s)) /\ i - Len(s) \in 1..Len(t))
  BY <1>2
<1>5. \A i \in 1..(Len(s) + Len(t)) : i \in 1..Len(s) \/ (s \o t)[i] \in Range(t)
  BY <1>2, <1>4, InRange
<1> QED
  BY <1>1, <1>2, <1>3, <1>5

-----------------------------------------------------------------------------
(***************************************************************************)
(* Calls under way.                                                        *)
(***************************************************************************)
\* What a call or an answer is.
LEMMA CallFields ==
    ASSUME NEW c \in Calls
    PROVE  /\ c.op \in Loads \cup Changes /\ c.id \in Ids \cup {NoUser} /\ c.email \in Emails \cup {NoUser}
           /\ c.wants \in BOOLEAN /\ c.fresh \in BOOLEAN /\ c.seen \in User \cup {NoUser}
           /\ (c.op \in Loads) = (c.op \notin Changes)
BY DEF Calls, Loads, Changes

LEMMA AnswerFields ==
    ASSUME NEW a \in Answers
    PROVE  a.call \in Calls /\ a.ok \in BOOLEAN /\ a.users \in Table
BY DEF Answers

\* The calls that are sent, and those that are answered.
LEMMA NetworkTyped ==
    ASSUME TypeOK
    PROVE  /\ sent \in Seq(Calls) /\ answers \in Seq(Answers)
           /\ DOMAIN sent = 1..Len(sent) /\ Len(sent) \in Nat
           /\ DOMAIN answers = 1..Len(answers) /\ Len(answers) \in Nat
           /\ \A i \in DOMAIN sent : sent[i] \in Calls /\ sent[i] \in Under
           /\ \A i \in DOMAIN answers : /\ answers[i] \in Answers /\ answers[i] \in Range(answers)
                                        /\ answers[i].call \in Back /\ answers[i].call \in Under
           /\ Range(answers) \subseteq Answers /\ Under \subseteq Calls /\ Back \subseteq Under
<1>1. sent \in Seq(Calls) /\ answers \in Seq(Answers)
  BY DEF TypeOK
<1>2. Range(sent) \subseteq Calls /\ Range(answers) \subseteq Answers
  BY <1>1, InRange
<1>3. Back \subseteq Calls
  BY <1>2, AnswerFields DEF Back
<1>4. \A i \in DOMAIN answers : /\ answers[i] \in Answers /\ answers[i] \in Range(answers)
                                /\ answers[i].call \in Back
  BY <1>1, InRange DEF Back
<1>5. \A i \in DOMAIN sent : sent[i] \in Calls /\ sent[i] \in Range(sent)
  BY <1>1, InRange
<1>6. /\ DOMAIN sent = 1..Len(sent) /\ Len(sent) \in Nat
      /\ DOMAIN answers = 1..Len(answers) /\ Len(answers) \in Nat
  BY <1>1, InRange
<1> QED
  BY <1>1, <1>2, <1>3, <1>4, <1>5, <1>6 DEF Under

\* The calls under way are those that the sequences hold.
LEMMA UnderWayIs ==
    ASSUME TypeOK
    PROVE  /\ \A ops : UnderWay(ops) <=> \E c \in Under : c.op \in ops
           /\ NoChanges <=> \A c \in Under : c.op \in Loads
           /\ Quiet <=> Under = {}
           /\ \A c \in Under : c \in Range(sent) \/ \E a \in Range(answers) : a.call = c
           /\ \A a \in Range(answers) : a.call \in Under /\ a.call \in Back
           /\ \A c \in Range(sent) : c \in Under
           /\ \A c : c \in Range(sent) <=> \E i \in DOMAIN sent : sent[i] = c
           /\ \A a : a \in Range(answers) <=> \E i \in DOMAIN answers : answers[i] = a
<1>1. sent \in Seq(Calls) /\ answers \in Seq(Answers) /\ Under \subseteq Calls
  BY NetworkTyped
<1>2. /\ \A c : c \in Range(sent) <=> \E i \in DOMAIN sent : sent[i] = c
      /\ \A a : a \in Range(answers) <=> \E i \in DOMAIN answers : answers[i] = a
      /\ sent = <<>> <=> Range(sent) = {}
      /\ answers = <<>> <=> Range(answers) = {}
  BY <1>1, InRange
<1>3. /\ \A c \in Under : c \in Range(sent) \/ \E a \in Range(answers) : a.call = c
      /\ \A a \in Range(answers) : a.call \in Under /\ a.call \in Back
      /\ \A c \in Range(sent) : c \in Under
  BY DEF Under, Back
<1>4. \A ops : UnderWay(ops) <=> \E c \in Under : c.op \in ops
  BY <1>2, <1>3 DEF UnderWay
<1>5. NoChanges <=> \A c \in Under : c.op \in Loads
  BY <1>1, <1>4, CallFields DEF NoChanges
<1>6. Quiet <=> Under = {}
  BY <1>2, <1>3 DEF Quiet
<1> QED
  BY <1>2, <1>3, <1>4, <1>5, <1>6

\* A call that has become stale, and its answer, differ in that only.
SameCall(c, d)   == c.op = d.op /\ c.id = d.id /\ c.email = d.email /\ c.wants = d.wants
SameAnswer(a, b) == SameCall(a.call, b.call) /\ a.ok = b.ok /\ a.users = b.users

LEMMA Staled ==
    ASSUME NEW s \in Seq(Calls)
    PROVE  /\ Stale(s) \in Seq(Calls) /\ Len(Stale(s)) = Len(s) /\ DOMAIN Stale(s) = DOMAIN s
           /\ \A i \in DOMAIN s : SameCall(Stale(s)[i], s[i]) /\ ~Stale(s)[i].fresh
           /\ \A d \in Range(Stale(s)) : ~d.fresh /\ \E c \in Range(s) : SameCall(d, c)
           /\ \A c \in Range(s) : \E d \in Range(Stale(s)) : SameCall(d, c)
<1>1. DOMAIN s = 1..Len(s) /\ Len(s) \in Nat /\ \A i \in DOMAIN s : s[i] \in Calls
  BY InRange
<1>2. \A c \in Calls : /\ [c EXCEPT !.fresh = FALSE] \in Calls
                       /\ SameCall([c EXCEPT !.fresh = FALSE], c)
                       /\ ~[c EXCEPT !.fresh = FALSE].fresh
  BY DEF Calls, SameCall
<1>3. /\ DOMAIN Stale(s) = 1..Len(s)
      /\ \A i \in 1..Len(s) : Stale(s)[i] = [s[i] EXCEPT !.fresh = FALSE]
  BY <1>1 DEF Stale
<1>4. Stale(s) \in [1..Len(s) -> Calls]
  BY <1>1, <1>2 DEF Stale
<1>5. Stale(s) \in Seq(Calls) /\ Len(Stale(s)) = Len(s)
  BY <1>1, <1>3, <1>4, SeqDef
<1>6. ASSUME NEW i \in DOMAIN s PROVE SameCall(Stale(s)[i], s[i]) /\ ~Stale(s)[i].fresh
  <2>1. s[i] \in Calls /\ Stale(s)[i] = [s[i] EXCEPT !.fresh = FALSE]
    BY <1>1, <1>3
  <2> QED
    BY <1>2, <2>1
<1>7. /\ \A c : c \in Range(s) <=> \E i \in DOMAIN s : s[i] = c
      /\ \A c : c \in Range(Stale(s)) <=> \E i \in DOMAIN s : Stale(s)[i] = c
  BY <1>1, <1>3, <1>5, InRange
<1>8. /\ \A d \in Range(Stale(s)) : ~d.fresh /\ \E c \in Range(s) : SameCall(d, c)
      /\ \A c \in Range(s) : \E d \in Range(Stale(s)) : SameCall(d, c)
  BY <1>6, <1>7
<1> QED
  BY <1>1, <1>3, <1>5, <1>6, <1>8

LEMMA StaledAnswers ==
    ASSUME NEW s \in Seq(Answers)
    PROVE  /\ StaleAnswers(s) \in Seq(Answers) /\ Len(StaleAnswers(s)) = Len(s)
           /\ DOMAIN StaleAnswers(s) = DOMAIN s
           /\ \A i \in DOMAIN s : SameAnswer(StaleAnswers(s)[i], s[i]) /\ ~StaleAnswers(s)[i].call.fresh
           /\ \A b \in Range(StaleAnswers(s)) : ~b.call.fresh /\ \E a \in Range(s) : SameAnswer(b, a)
           /\ \A a \in Range(s) : \E b \in Range(StaleAnswers(s)) : SameAnswer(b, a)
<1>1. DOMAIN s = 1..Len(s) /\ Len(s) \in Nat /\ \A i \in DOMAIN s : s[i] \in Answers
  BY InRange
<1>2. \A a \in Answers : /\ [a EXCEPT !.call.fresh = FALSE] \in Answers
                         /\ SameAnswer([a EXCEPT !.call.fresh = FALSE], a)
                         /\ ~[a EXCEPT !.call.fresh = FALSE].call.fresh
  <2> SUFFICES ASSUME NEW a \in Answers
               PROVE  LET b == [a EXCEPT !.call.fresh = FALSE]
                      IN  b \in Answers /\ SameAnswer(b, a) /\ ~b.call.fresh
    OBVIOUS
  <2> DEFINE d == [a.call EXCEPT !.fresh = FALSE]
             b == [a EXCEPT !.call.fresh = FALSE]
  <2>1. d \in Calls /\ SameCall(d, a.call) /\ ~d.fresh
    BY DEF Answers, Calls, SameCall
  <2>2. b = [a EXCEPT !.call = d]
    OBVIOUS
  <2> HIDE DEF d
  <2> QED
    BY <2>1, <2>2 DEF Answers, SameAnswer
<1>3. /\ DOMAIN StaleAnswers(s) = 1..Len(s)
      /\ \A i \in 1..Len(s) : StaleAnswers(s)[i] = [s[i] EXCEPT !.call.fresh = FALSE]
  BY <1>1 DEF StaleAnswers
<1>4. StaleAnswers(s) \in [1..Len(s) -> Answers]
  BY <1>1, <1>2 DEF StaleAnswers
<1>5. StaleAnswers(s) \in Seq(Answers) /\ Len(StaleAnswers(s)) = Len(s)
  BY <1>1, <1>3, <1>4, SeqDef
<1>6. ASSUME NEW i \in DOMAIN s
      PROVE  SameAnswer(StaleAnswers(s)[i], s[i]) /\ ~StaleAnswers(s)[i].call.fresh
  <2>1. s[i] \in Answers /\ StaleAnswers(s)[i] = [s[i] EXCEPT !.call.fresh = FALSE]
    BY <1>1, <1>3
  <2> QED
    BY <1>2, <2>1
<1>7. /\ \A c : c \in Range(s) <=> \E i \in DOMAIN s : s[i] = c
      /\ \A c : c \in Range(StaleAnswers(s)) <=> \E i \in DOMAIN s : StaleAnswers(s)[i] = c
  BY <1>1, <1>3, <1>5, InRange
<1>8. /\ \A b \in Range(StaleAnswers(s)) : ~b.call.fresh /\ \E a \in Range(s) : SameAnswer(b, a)
      /\ \A a \in Range(s) : \E b \in Range(StaleAnswers(s)) : SameAnswer(b, a)
  BY <1>6, <1>7
<1> QED
  BY <1>1, <1>3, <1>5, <1>6, <1>8

-----------------------------------------------------------------------------
(***************************************************************************)
(* What the backend makes of the users.                                    *)
(***************************************************************************)
LEMMA UsersTyped ==
    ASSUME NEW t \in Table, NEW u \in Ids
    PROVE  /\ DOMAIN t = Ids /\ t[u] \in User \cup {NoUser} /\ Present(t, u) = (t[u] \in User)
           /\ Present(t, u) => t[u].on \in BOOLEAN /\ t[u].email \in Emails
BY ConstantsAssumption DEF Table, Present, User

\* How EmailStr spells an account, and a table.
LEMMA SpelledIs ==
    /\ \A e \in Emails : Normal[e] \in Emails /\ Normal[Normal[e]] = Normal[e]
    /\ Spelled(NoUser) = NoUser
    /\ \A x \in User : /\ Spelled(x) = [x EXCEPT !.email = Normal[x.email]]
                       /\ Spelled(x) \in User /\ Spelled(x).on = x.on /\ Spelled(x).email = Normal[x.email]
    /\ \A x \in User : Spelled(x) # NoUser
<1>1. \A e \in Emails : Normal[e] \in Emails /\ Normal[Normal[e]] = Normal[e]
  BY NormalAssumption
<1>2. NoUser \notin User
  BY ConstantsAssumption
<1>3. ASSUME NEW x \in User
      PROVE  /\ Spelled(x) = [x EXCEPT !.email = Normal[x.email]]
             /\ Spelled(x) \in User /\ Spelled(x).on = x.on /\ Spelled(x).email = Normal[x.email]
  <2>1. Spelled(x) = [x EXCEPT !.email = Normal[x.email]]
    BY <1>2 DEF Spelled
  <2> QED
    BY <1>1, <2>1 DEF User
<1> QED
  BY <1>1, <1>2, <1>3 DEF Spelled

LEMMA SpelledTable ==
    ASSUME NEW t \in Table
    PROVE  /\ SpelledAll(t) \in Table /\ \A u \in Ids : SpelledAll(t)[u] = Spelled(t[u])
           /\ \A u \in Ids : Present(SpelledAll(t), u) = Present(t, u)
           /\ Plain(t) => \A u \in Ids : /\ Spelled(t[u]) = t[u]
                                         /\ Present(t, u) => Normal[t[u].email] = t[u].email
           /\ (\A u \in Ids : Spelled(t[u]) = t[u]) => Plain(t)
<1>1. \A u \in Ids : SpelledAll(t)[u] = Spelled(t[u])
  BY DEF SpelledAll
<1>2. \A u \in Ids : Spelled(t[u]) \in User \cup {NoUser}
  BY SpelledIs, UsersTyped
<1>3. SpelledAll(t) \in Table
  BY <1>2 DEF SpelledAll, Table
<1>4. \A u \in Ids : Present(SpelledAll(t), u) = Present(t, u)
  BY <1>1, <1>3, SpelledIs, UsersTyped DEF Present
<1>5. ASSUME Plain(t), NEW u \in Ids
      PROVE  Spelled(t[u]) = t[u] /\ (Present(t, u) => Normal[t[u].email] = t[u].email)
  <2>1. Spelled(t[u]) = t[u]
    BY <1>1, <1>5 DEF Plain
  <2>2. ASSUME Present(t, u) PROVE Normal[t[u].email] = t[u].email
    <3>1. t[u] \in User
      BY <2>2, UsersTyped
    <3> QED
      BY <2>1, <3>1, SpelledIs
  <2> QED
    BY <2>1, <2>2
<1>6. ASSUME \A u \in Ids : Spelled(t[u]) = t[u] PROVE Plain(t)
  <2>1. t = [u \in Ids |-> t[u]]
    BY DEF Table
  <2> QED
    BY <1>6, <2>1 DEF Plain, SpelledAll
<1> QED
  BY <1>1, <1>3, <1>4, <1>5, <1>6

LEMMA ChangedIs ==
    ASSUME server \in Table, Plain(server), NEW c, c.op \in Changes, CallOK(c),
           c.op = "create" \/ c.seen \in User, NEW t \in Changed(c)
    PROVE  /\ t \in Table /\ Plain(t)
           /\ ~Outdated(c) => t = Effect(c, server)
           /\ c.op \in Toggles \cup {"email"} => Present(server, c.id)
<1>1. c.id \in Ids /\ (c.op \in {"create", "email"} => c.email \in Emails)
  BY DEF CallOK
<1>2. \A u \in Ids : server[u] \in User \cup {NoUser} /\ Present(server, u) = (server[u] \in User)
  BY UsersTyped
<1>3. DOMAIN server = Ids
  BY DEF Table
<1>4. ASSUME NEW x \in User \cup {NoUser}, Spelled(x) = x
      PROVE  /\ [server EXCEPT ![c.id] = x] \in Table /\ Plain([server EXCEPT ![c.id] = x])
             /\ New(c, server[c.id]) = x => [server EXCEPT ![c.id] = x] = Effect(c, server)
  <2>1. [server EXCEPT ![c.id] = x] \in Table
    BY <1>1, <1>3 DEF Table
  <2>2. ASSUME New(c, server[c.id]) = x PROVE [server EXCEPT ![c.id] = x] = Effect(c, server)
    <3>1. \A u \in Ids : [server EXCEPT ![c.id] = x][u] = Effect(c, server)[u]
      BY <1>1, <1>3, <2>2 DEF Effect
    <3>2. Effect(c, server) = [u \in Ids |-> Effect(c, server)[u]]
      BY DEF Effect
    <3>3. [server EXCEPT ![c.id] = x] = [u \in Ids |-> [server EXCEPT ![c.id] = x][u]]
      BY <1>3
    <3> QED
      BY <3>1, <3>2, <3>3
  <2>3. \A u \in Ids : Spelled([server EXCEPT ![c.id] = x][u]) = [server EXCEPT ![c.id] = x][u]
    BY <1>1, <1>3, <1>4, SpelledTable
  <2> QED
    BY <2>1, <2>2, <2>3, SpelledTable
<1>5. CASE c.op = "create"
  <2> DEFINE x == [on |-> TRUE, email |-> Normal[c.email]]
  <2>1. t = [server EXCEPT ![c.id] = x]
    BY <1>5 DEF Changed
  <2>2. x \in User /\ x.email = Normal[c.email]
    BY <1>1, <1>5, SpelledIs DEF User
  <2>3. New(c, server[c.id]) = x
    BY <1>5 DEF New
  <2>4. Spelled(x) = x
    <3>1. Normal[x.email] = x.email
      BY <1>1, <1>5, <2>2, SpelledIs
    <3>2. Spelled(x) = [x EXCEPT !.email = x.email]
      BY <2>2, <3>1, SpelledIs
    <3> QED
      BY <3>2
  <2> HIDE DEF x
  <2> QED
    BY <1>4, <1>5, <2>1, <2>2, <2>3, <2>4 DEF Toggles
<1>6. CASE c.op \in Toggles
  <2> DEFINE x == [server[c.id] EXCEPT !.on = ~c.seen.on]
  <2>1. t = [server EXCEPT ![c.id].on = ~c.seen.on] /\ Present(server, c.id)
    BY <1>6 DEF Changed, Toggles
  <2>2. t = [server EXCEPT ![c.id] = x]
    BY <2>1
  <2>3. server[c.id] \in User /\ Normal[server[c.id].email] = server[c.id].email
    BY <1>1, <1>2, <2>1, SpelledTable
  <2>4. c.seen \in User /\ c.seen.on \in BOOLEAN
    BY <1>6 DEF Toggles, User
  <2>5. x \in User /\ x.email = server[c.id].email
    BY <2>3, <2>4 DEF User
  <2>6. Spelled(x) = x
    <3>1. Normal[x.email] = x.email
      BY <2>3, <2>5
    <3> HIDE DEF x
    <3>2. Spelled(x) = [x EXCEPT !.email = Normal[x.email]]
      BY <2>5, SpelledIs
    <3>3. x = [x EXCEPT !.email = x.email]
      BY <2>5 DEF User
    <3> QED
      BY <3>1, <3>2, <3>3
  <2>7. ~Outdated(c) => New(c, server[c.id]) = x
    BY <1>6 DEF New, Toggles, Outdated
  <2> HIDE DEF x
  <2>8. /\ t \in Table /\ Plain(t)
        /\ New(c, server[c.id]) = x => t = Effect(c, server)
    BY <1>4, <2>2, <2>5, <2>6
  <2> QED
    BY <2>1, <2>7, <2>8
<1>7. CASE c.op = "email" /\ c.seen.email = Normal[c.email]
  <2>1. t = server /\ Present(server, c.id)
    BY <1>7 DEF Changed
  <2>2. server[c.id] \in User /\ Spelled(server[c.id]) = server[c.id]
    BY <1>1, <1>2, <2>1, SpelledTable
  <2>3. t = [server EXCEPT ![c.id] = server[c.id]]
    BY <1>3, <2>1 DEF Table
  <2>4. ~Outdated(c) => New(c, server[c.id]) = server[c.id]
    BY <1>7, <2>2 DEF New, Outdated, User
  <2> QED
    BY <1>4, <2>1, <2>2, <2>3, <2>4
<1>8. CASE c.op = "email" /\ c.seen.email # Normal[c.email]
  <2> DEFINE x == [server[c.id] EXCEPT !.email = Normal[c.email]]
  <2>1. t = [server EXCEPT ![c.id].email = Normal[c.email]] /\ Present(server, c.id)
    BY <1>8 DEF Changed, Unfit
  <2>2. t = [server EXCEPT ![c.id] = x]
    BY <2>1
  <2>3. server[c.id] \in User
    BY <1>1, <1>2, <2>1
  <2>4. x \in User /\ x.email = Normal[c.email]
    BY <1>1, <1>8, <2>3, SpelledIs DEF User
  <2>5. Spelled(x) = x
    <3>1. Normal[x.email] = x.email
      BY <1>1, <1>8, <2>4, SpelledIs
    <3>2. Spelled(x) = [x EXCEPT !.email = x.email]
      BY <2>4, <3>1, SpelledIs
    <3> QED
      BY <3>2
  <2>6. New(c, server[c.id]) = x
    BY <1>8 DEF New
  <2> HIDE DEF x
  <2> QED
    BY <1>4, <2>1, <2>2, <2>4, <2>5, <2>6
<1>9. CASE c.op = "delete"
  <2>1. t = [server EXCEPT ![c.id] = NoUser]
    BY <1>9 DEF Changed
  <2>2. New(c, server[c.id]) = NoUser
    BY <1>9 DEF New
  <2> QED
    BY <1>4, <1>9, <2>1, <2>2, SpelledIs DEF Toggles
<1> QED
  BY <1>5, <1>6, <1>7, <1>8, <1>9 DEF Changes, Toggles

-----------------------------------------------------------------------------
(***************************************************************************)
(* What a step does to the calls under way.                                *)
(***************************************************************************)
\* A load is sent.
LEMMA Sends ==
    ASSUME TypeOK, NEW c \in Calls, sent' = Append(sent, c), answers' = answers
    PROVE  /\ sent' \in Seq(Calls) /\ answers' \in Seq(Answers)
           /\ Under' = Under \cup {c} /\ Back' = Back /\ Range(answers)' = Range(answers)
           /\ DOMAIN sent' = 1..(Len(sent) + 1)
           /\ \A i \in DOMAIN sent : i \in DOMAIN sent' /\ sent'[i] = sent[i]
           /\ sent'[Len(sent) + 1] = c
<1>1. sent \in Seq(Calls) /\ answers \in Seq(Answers)
  BY NetworkTyped
<1>2. Range(sent)' = Range(sent) \cup {c} /\ Range(answers)' = Range(answers)
  BY <1>1, Appended
<1>3. Back' = Back
  BY <1>2 DEF Back
<1> QED
  BY <1>1, <1>2, <1>3, Appended DEF Under

\* A button is pressed: the rest becomes stale.
LEMMA Presses ==
    ASSUME TypeOK, NEW c \in Calls, sent' = Append(Stale(sent), c), answers' = StaleAnswers(answers)
    PROVE  /\ sent' \in Seq(Calls) /\ answers' \in Seq(Answers) /\ c \in Under'
           /\ \A d \in Under' : d = c \/ (~d.fresh /\ \E b \in Under : SameCall(d, b))
           /\ \A b \in Under : \E d \in Under' : SameCall(d, b)
           /\ \A d \in Back' : \E b \in Back : SameCall(d, b)
           /\ \A b \in Range(answers)' : \E a \in Range(answers) : SameAnswer(b, a)
           /\ \A a \in Range(answers) : \E b \in Range(answers)' : SameAnswer(b, a)
           /\ DOMAIN answers' = DOMAIN answers
           /\ \A k \in DOMAIN answers : SameAnswer(answers'[k], answers[k])
           /\ DOMAIN sent' = 1..(Len(sent) + 1)
           /\ \A i \in DOMAIN sent : ~sent'[i].fresh /\ SameCall(sent'[i], sent[i])
           /\ sent'[Len(sent) + 1] = c
<1>1. sent \in Seq(Calls) /\ answers \in Seq(Answers)
  BY NetworkTyped
<1>2. /\ Stale(sent) \in Seq(Calls) /\ Len(Stale(sent)) = Len(sent) /\ DOMAIN Stale(sent) = DOMAIN sent
      /\ \A i \in DOMAIN sent : SameCall(Stale(sent)[i], sent[i]) /\ ~Stale(sent)[i].fresh
      /\ \A d \in Range(Stale(sent)) : ~d.fresh /\ \E b \in Range(sent) : SameCall(d, b)
      /\ \A b \in Range(sent) : \E d \in Range(Stale(sent)) : SameCall(d, b)
  BY <1>1, Staled
<1>3. /\ answers' \in Seq(Answers) /\ DOMAIN answers' = DOMAIN answers
      /\ \A k \in DOMAIN answers : SameAnswer(answers'[k], answers[k])
      /\ \A b \in Range(answers)' : ~b.call.fresh /\ \E a \in Range(answers) : SameAnswer(b, a)
      /\ \A a \in Range(answers) : \E b \in Range(answers)' : SameAnswer(b, a)
  BY <1>1, StaledAnswers
<1>4. /\ sent' \in Seq(Calls) /\ DOMAIN sent' = 1..(Len(sent) + 1)
      /\ \A i \in DOMAIN sent : sent'[i] = Stale(sent)[i]
      /\ sent'[Len(sent) + 1] = c /\ Range(sent)' = Range(Stale(sent)) \cup {c}
  BY <1>1, <1>2, Appended
<1>5. /\ \A d \in Back' : ~d.fresh /\ \E b \in Back : SameCall(d, b)
      /\ \A b \in Back : \E d \in Back' : SameCall(d, b)
  BY <1>3 DEF Back, SameAnswer
<1>6. \A i \in DOMAIN sent : ~sent'[i].fresh /\ SameCall(sent'[i], sent[i])
  BY <1>2, <1>4
<1>7. /\ \A d \in Under' : d = c \/ (~d.fresh /\ \E b \in Under : SameCall(d, b))
      /\ \A b \in Under : \E d \in Under' : SameCall(d, b)
  BY <1>2, <1>4, <1>5 DEF Under
<1> QED
  BY <1>3, <1>4, <1>5, <1>6, <1>7 DEF Under

\* The row of a call is loaded.
LEMMA Looks ==
    ASSUME TypeOK, CallsInv, NEW i \in DOMAIN sent, Look(i)
    PROVE  /\ sent' \in Seq(Calls) /\ DOMAIN sent' = DOMAIN sent
           /\ UNCHANGED <<serverVars, pageVars, answers, historyVars>>
           /\ \A k \in DOMAIN sent : /\ SameCall(sent'[k], sent[k]) /\ sent'[k].fresh = sent[k].fresh
                                     /\ sent'[k].seen \in {sent[k].seen, server[sent[k].id]}
           /\ \A d \in Under' : \E b \in Under : SameCall(d, b) /\ d.fresh = b.fresh
           /\ \A b \in Under : \E d \in Under' : SameCall(d, b)
           /\ Back' = Back /\ sent[i].op \in Changes
<1> DEFINE c == [sent[i] EXCEPT !.seen = server[sent[i].id]]
<1>1. /\ sent \in Seq(Calls) /\ DOMAIN sent = 1..Len(sent) /\ Len(sent) \in Nat /\ sent[i] \in Calls
      /\ \A k \in DOMAIN sent : sent[k] \in Calls
  BY NetworkTyped
<1>2. /\ UNCHANGED <<serverVars, pageVars, answers, historyVars>> /\ sent[i].op \in Changes
      /\ Present(server, sent[i].id)
      /\ sent' = [sent EXCEPT ![i] = c]
  BY DEF Look, Unfit
<1>3. server[sent[i].id] \in User
  <2>1. CallOK(sent[i]) /\ server \in Table
    BY NetworkTyped DEF CallsInv, TypeOK
  <2>2. sent[i].id \in Ids
    BY <1>2, <2>1 DEF CallOK
  <2> QED
    BY <1>2, <2>1, <2>2, UsersTyped
<1>4. /\ c \in Calls /\ SameCall(c, sent[i]) /\ c.fresh = sent[i].fresh
      /\ c.seen = server[sent[i].id]
  BY <1>1, <1>3 DEF Calls, SameCall
<1> HIDE DEF c
<1>5. /\ sent' \in Seq(Calls) /\ DOMAIN sent' = DOMAIN sent
      /\ \A k \in DOMAIN sent : sent'[k] = IF k = i THEN c ELSE sent[k]
  BY <1>1, <1>2, <1>4
<1>6. \A k \in DOMAIN sent : /\ SameCall(sent'[k], sent[k]) /\ sent'[k].fresh = sent[k].fresh
                            /\ sent'[k].seen \in {sent[k].seen, server[sent[k].id]}
  BY <1>4, <1>5 DEF SameCall
<1>7. /\ \A d : d \in Range(sent)' <=> \E k \in DOMAIN sent : sent'[k] = d
      /\ \A d : d \in Range(sent) <=> \E k \in DOMAIN sent : sent[k] = d
  BY <1>1, <1>5, InRange
<1>8. Back' = Back
  BY <1>2 DEF Back
<1>9. /\ \A d \in Under' : \E b \in Under : SameCall(d, b) /\ d.fresh = b.fresh
      /\ \A b \in Under : \E d \in Under' : SameCall(d, b)
  BY <1>6, <1>7, <1>8 DEF Under, SameCall
<1> QED
  BY <1>2, <1>5, <1>6, <1>8, <1>9

\* A call is handled and answered: it stays under way.
LEMMA Handles ==
    ASSUME TypeOK, NEW i \in DOMAIN sent, NEW ok \in BOOLEAN, NEW users \in Table, Answer(i, ok, users)
    PROVE  /\ sent' \in Seq(Calls) /\ answers' \in Seq(Answers)
           /\ Under' = Under /\ Back' = Back \cup {sent[i]}
           /\ Range(answers)' = Range(answers) \cup {[call |-> sent[i], ok |-> ok, users |-> users]}
           /\ DOMAIN answers' = 1..(Len(answers) + 1)
           /\ \A k \in DOMAIN answers : answers'[k] = answers[k]
           /\ answers'[Len(answers) + 1] = [call |-> sent[i], ok |-> ok, users |-> users]
           /\ \A k \in DOMAIN sent' : sent'[k] = sent[Past(i, k)]
           /\ \A k \in DOMAIN sent' : k \in DOMAIN sent /\ k + 1 \in DOMAIN sent
           /\ Len(answers') = Len(answers) + 1
<1> DEFINE a == [call |-> sent[i], ok |-> ok, users |-> users]
<1>1. sent \in Seq(Calls) /\ answers \in Seq(Answers) /\ sent[i] \in Calls
  BY NetworkTyped
<1>2. a \in Answers /\ a.call = sent[i]
  BY <1>1 DEF Answers
<1>3. /\ sent' \in Seq(Calls) /\ Range(sent)' \subseteq Range(sent)
      /\ Range(sent) \subseteq Range(sent)' \cup {sent[i]}
      /\ \A k \in DOMAIN sent' : sent'[k] = sent[Past(i, k)]
      /\ \A k \in DOMAIN sent' : k \in DOMAIN sent /\ k + 1 \in DOMAIN sent
  <2>1. sent' = RemoveAt(sent, i)
    BY DEF Answer
  <2>2. /\ RemoveAt(sent, i) \in Seq(Calls) /\ Range(RemoveAt(sent, i)) \subseteq Range(sent)
        /\ Range(sent) \subseteq Range(RemoveAt(sent, i)) \cup {sent[i]}
    BY <1>1, Removed
  <2>3. ASSUME NEW k \in DOMAIN RemoveAt(sent, i)
        PROVE  RemoveAt(sent, i)[k] = sent[Past(i, k)] /\ k \in DOMAIN sent /\ k + 1 \in DOMAIN sent
    BY <1>1, RemovedAt
  <2> QED
    BY <2>1, <2>2, <2>3
<1>4. /\ answers' \in Seq(Answers) /\ Range(answers)' = Range(answers) \cup {a}
      /\ DOMAIN answers' = 1..(Len(answers) + 1) /\ Len(answers') = Len(answers) + 1
      /\ \A k \in DOMAIN answers : answers'[k] = answers[k]
      /\ answers'[Len(answers) + 1] = a
  <2>1. answers' = Append(answers, a)
    BY DEF Answer
  <2> HIDE DEF a
  <2> QED
    BY <1>1, <1>2, <2>1, Appended
<1>5. Back' = Back \cup {sent[i]}
  BY <1>2, <1>4 DEF Back
<1>6. sent[i] \in Range(sent)
  BY <1>1, InRange
<1>7. Under' = Under
  BY <1>3, <1>5, <1>6 DEF Under
<1> QED
  BY <1>3, <1>4, <1>5, <1>7

\* An answer arrives, and loads are sent.
LEMMA Arrives ==
    ASSUME TypeOK, NEW i \in DOMAIN answers, NEW loads \in Seq(Calls), Then(i, loads)
    PROVE  /\ sent' \in Seq(Calls) /\ answers' \in Seq(Answers)
           /\ Range(answers)' \subseteq Range(answers)
           /\ Range(answers) \subseteq Range(answers)' \cup {answers[i]}
           /\ Back' \subseteq Back /\ Range(loads) \subseteq Under'
           /\ Under' \subseteq Under \cup Range(loads) /\ Under \subseteq Under' \cup {answers[i].call}
           /\ DOMAIN answers' = 1..(Len(answers) - 1)
           /\ \A k \in DOMAIN answers' : k \in DOMAIN answers /\ k + 1 \in DOMAIN answers
           /\ i = 1 => \A k \in DOMAIN answers' : answers'[k] = answers[k + 1]
           /\ \A k \in DOMAIN sent : k \in DOMAIN sent' /\ sent'[k] = sent[k]
           /\ \A k \in DOMAIN sent' : k \in DOMAIN sent \/ sent'[k] \in Range(loads)
<1>1. /\ sent \in Seq(Calls) /\ answers \in Seq(Answers)
      /\ DOMAIN answers = 1..Len(answers) /\ Len(answers) \in Nat
  BY NetworkTyped
<1>2. /\ answers' \in Seq(Answers) /\ Range(answers)' \subseteq Range(answers)
      /\ Range(answers) \subseteq Range(answers)' \cup {answers[i]}
      /\ DOMAIN answers' = 1..(Len(answers) - 1)
      /\ \A k \in DOMAIN answers' : answers'[k] = answers[Past(i, k)]
      /\ \A k \in DOMAIN answers' : k \in DOMAIN answers /\ k + 1 \in DOMAIN answers
  <2>1. answers' = RemoveAt(answers, i)
    BY DEF Then
  <2>2. /\ RemoveAt(answers, i) \in Seq(Answers) /\ Range(RemoveAt(answers, i)) \subseteq Range(answers)
        /\ Range(answers) \subseteq Range(RemoveAt(answers, i)) \cup {answers[i]}
        /\ DOMAIN RemoveAt(answers, i) = 1..(Len(answers) - 1)
    BY <1>1, Removed
  <2>3. ASSUME NEW k \in DOMAIN RemoveAt(answers, i)
        PROVE  RemoveAt(answers, i)[k] = answers[Past(i, k)] /\ k \in DOMAIN answers /\ k + 1 \in DOMAIN answers
    BY <1>1, RemovedAt
  <2> QED
    BY <2>1, <2>2, <2>3
<1>3. /\ sent' \in Seq(Calls) /\ Range(sent)' = Range(sent) \cup Range(loads)
      /\ \A k \in DOMAIN sent : k \in DOMAIN sent' /\ sent'[k] = sent[k]
      /\ \A k \in DOMAIN sent' : k \in DOMAIN sent \/ sent'[k] \in Range(loads)
  BY <1>1, Concatenated DEF Then
<1>4. Back' \subseteq Back /\ Back \subseteq Back' \cup {answers[i].call}
  BY <1>2 DEF Back
<1>5. i = 1 => \A k \in DOMAIN answers' : answers'[k] = answers[k + 1]
  <2>1. \A k \in DOMAIN answers' : ~(k < 1)
    BY <1>1, <1>2
  <2> QED
    BY <1>2, <2>1 DEF Past
<1> QED
  BY <1>2, <1>3, <1>4, <1>5 DEF Under

\* A fault: what is left is stale.
LEMMA Loses ==
    ASSUME TypeOK, \/ \E i \in DOMAIN sent : LoseCall(i)
                   \/ \E i \in DOMAIN answers : LoseAnswer(i)
                   \/ OtherAdmin
    PROVE  /\ sent' \in Seq(Calls) /\ answers' \in Seq(Answers) /\ doubtful'
           /\ \A d \in Under' : ~d.fresh /\ \E b \in Under : SameCall(d, b)
           /\ \A b \in Range(answers)' : \E a \in Range(answers) : SameAnswer(b, a)
           /\ \A k \in DOMAIN sent' : ~sent'[k].fresh
           /\ UNCHANGED <<pageVars, steady, clicks>> /\ faults' \in 0..MaxFaults
<1>1. sent \in Seq(Calls) /\ answers \in Seq(Answers)
  BY NetworkTyped
<1>2. PICK s \in Seq(Calls), t \in Seq(Answers) :
        /\ sent' = Stale(s) /\ Range(s) \subseteq Range(sent)
        /\ answers' = StaleAnswers(t) /\ Range(t) \subseteq Range(answers)
  <2>1. CASE \E i \in DOMAIN sent : LoseCall(i)
    BY <1>1, <2>1, Removed DEF LoseCall
  <2>2. CASE \E i \in DOMAIN answers : LoseAnswer(i)
    BY <1>1, <2>2, Removed DEF LoseAnswer
  <2>3. CASE OtherAdmin
    BY <1>1, <2>3 DEF OtherAdmin
  <2> QED
    BY <2>1, <2>2, <2>3
<1>3. /\ sent' \in Seq(Calls) /\ \A d \in Range(sent)' : ~d.fresh /\ \E b \in Range(sent) : SameCall(d, b)
      /\ \A k \in DOMAIN sent' : ~sent'[k].fresh
  BY <1>2, Staled
<1>4. /\ answers' \in Seq(Answers)
      /\ \A b \in Range(answers)' : ~b.call.fresh /\ \E a \in Range(answers) : SameAnswer(b, a)
  BY <1>2, StaledAnswers
<1>5. \A d \in Under' : ~d.fresh /\ \E b \in Under : SameCall(d, b)
  BY <1>3, <1>4 DEF Under, Back, SameAnswer
<1>6. doubtful' /\ UNCHANGED <<pageVars, steady, clicks>> /\ faults' \in 0..MaxFaults
  <2>1. faults \in 0..MaxFaults /\ MaxFaults \in Nat
    BY ConstantsAssumption DEF TypeOK
  <2> QED
    BY <2>1 DEF LoseCall, LoseAnswer, OtherAdmin
<1> QED
  BY <1>3, <1>4, <1>5, <1>6

-----------------------------------------------------------------------------
(***************************************************************************)
(* Types.                                                                  *)
(***************************************************************************)
\* The loads that the page sends.
LEMMA LoadsTyped ==
    ASSUME NEW op \in Loads, NEW fresh \in BOOLEAN
    PROVE  /\ Load(op, fresh) \in Calls /\ Load(op, fresh).op = op /\ Load(op, fresh).fresh = fresh
           /\ CallOK(Load(op, fresh))
BY DEF Load, Calls, CallOK, Loads, Changes

LEMMA LoadLists ==
    /\ <<>> \in Seq(Calls) /\ Range(<<>>) = {}
    /\ \A op \in Loads : /\ <<Load(op, FALSE)>> \in Seq(Calls)
                         /\ Range(<<Load(op, FALSE)>>) = {Load(op, FALSE)}
    /\ <<Load("users", FALSE), Load("dashboard", FALSE)>> \in Seq(Calls)
    /\ Range(<<Load("users", FALSE), Load("dashboard", FALSE)>>)
         = {Load("users", FALSE), Load("dashboard", FALSE)}
<1>1. \A op \in Loads : Load(op, FALSE) \in Calls
  BY LoadsTyped
<1>2. "users" \in Loads /\ "dashboard" \in Loads
  BY DEF Loads
<1>3. ASSUME NEW x \in Calls PROVE <<x>> \in Seq(Calls) /\ Range(<<x>>) = {x}
  BY DEF Range
<1>4. ASSUME NEW x \in Calls, NEW y \in Calls PROVE <<x, y>> \in Seq(Calls) /\ Range(<<x, y>>) = {x, y}
  <2>1. <<x, y>> \in Seq(Calls) /\ DOMAIN <<x, y>> = 1..2 /\ <<x, y>>[1] = x /\ <<x, y>>[2] = y
    OBVIOUS
  <2>2. \A z : z \in Range(<<x, y>>) <=> \E i \in {1, 2} : <<x, y>>[i] = z
    <3>1. 1..2 = {1, 2}
      OBVIOUS
    <3> QED
      BY <2>1, <3>1, InRange
  <2> QED
    BY <2>1, <2>2
<1>5. <<>> \in Seq(Calls) /\ Range(<<>>) = {}
  BY DEF Range
<1> QED
  BY <1>1, <1>2, <1>3, <1>4, <1>5

\* The loads that an answer can make the page send.
Followups == {<<>>, <<Load("dashboard", FALSE)>>, <<Load("users", FALSE), Load("dashboard", FALSE)>>}

LEMMA FollowupsTyped ==
    ASSUME NEW loads \in Followups
    PROVE  /\ loads \in Seq(Calls)
           /\ \A c \in Range(loads) : c \in Calls /\ c.op \in Loads /\ ~c.fresh /\ CallOK(c)
           /\ loads # <<>> => \E c \in Range(loads) : c.op \in Loads
<1>1. "dashboard" \in Loads /\ "users" \in Loads
  BY DEF Loads
<1>2. loads \in Seq(Calls) /\ Range(loads) \subseteq {Load("users", FALSE), Load("dashboard", FALSE)}
  BY <1>1, LoadLists DEF Followups
<1>3. \A c \in Range(loads) : c \in Calls /\ c.op \in Loads /\ ~c.fresh /\ CallOK(c)
  BY <1>1, <1>2, LoadsTyped
<1>4. loads # <<>> => Range(loads) # {}
  BY <1>2, InRange
<1> QED
  BY <1>2, <1>3, <1>4

\* Every arrival takes one answer, and sends loads.
LEMMA ArrivalIsThen ==
    ASSUME NEW i \in DOMAIN answers, Arrive(i)
    PROVE  /\ \E loads \in Followups : Then(i, loads)
           /\ UNCHANGED <<server, used, clicks, faults>>
           /\ doubtful' => doubtful \/ i # 1 \/ Misapplied(i)
           /\ i # 1 => doubtful'
<1>1. CASE Loaded(i)
  BY <1>1 DEF Loaded, Arrived, Followups
<1>2. CASE Refused(i)
  BY <1>2 DEF Refused, Nothing, Arrived, Followups
<1>3. CASE Reload(i)
  BY <1>3 DEF Reload, Arrived, Followups
<1>4. CASE NoDetail(i)
  BY <1>4 DEF NoDetail, Nothing, Arrived, Followups, Misapplied
<1>5. CASE Toggled(i)
  BY <1>5 DEF Toggled, Arrived, Followups
<1>6. CASE EmailSaved(i)
  BY <1>6 DEF EmailSaved, Arrived, Followups
<1>7. CASE Deleted(i)
  BY <1>7 DEF Deleted, Arrived, Followups
<1> QED
  BY <1>1, <1>2, <1>3, <1>4, <1>5, <1>6, <1>7 DEF Arrive

\* A pressed button sends one call, which says what it is about.
LEMMA PressIsCall ==
    ASSUME TypeOK, (\E u \in Ids : QuickToggle(u)) \/ DetailButton \/ AddUser
    PROVE  /\ \E c \in Calls :
                /\ sent' = Append(Stale(sent), c) /\ answers' = StaleAnswers(answers)
                /\ c.op \in Changes /\ CallOK(c)
                /\ c.fresh = (Quiet /\ steady /\ ~doubtful) /\ c.seen = NoUser
                /\ IF panel = "user-detail" THEN c.op \in FromPanel /\ c.id = detail.id
                   ELSE panel = "users" /\ c.op \in FromTable
                /\ c.op = "quickToggle" => Present(rows["users"], c.id) /\ c.wants = ~rows["users"][c.id].on
                /\ c.op = "toggle" => c.wants = ~detail.user.on
           /\ clicks < MaxClicks /\ clicks' = clicks + 1
           /\ UNCHANGED <<serverVars, pageVars, faults, doubtful, steady>>
<1> DEFINE Call(op, u, e, wants) == [op |-> op, id |-> u, email |-> e, seen |-> NoUser, wants |-> wants,
                                     fresh |-> Quiet /\ steady /\ ~doubtful]
<1>1. (Quiet /\ steady /\ ~doubtful) \in BOOLEAN /\ rows["users"] \in Table
  BY DEF Quiet, TypeOK, Loads
<1>2. CASE \E u \in Ids : QuickToggle(u)
  <2>1. PICK u \in Ids : QuickToggle(u)
    BY <1>2
  <2>2. rows["users"][u].on \in BOOLEAN
    BY <1>1, <2>1, UsersTyped DEF QuickToggle
  <2>3. Call("quickToggle", u, NoUser, ~rows["users"][u].on) \in Calls
    BY <1>1, <2>2 DEF Calls, Changes
  <2> QED
    BY <2>1, <2>3 DEF QuickToggle, Press, CallOK, FromTable, Changes
<1>3. CASE DetailButton
  <2>1. detail \in [id : Ids, user : User] /\ panel = "user-detail"
    BY <1>3 DEF DetailButton, TypeOK
  <2>2. detail.id \in Ids /\ detail.user.on \in BOOLEAN
    BY <2>1 DEF User
  <2>3. CASE Press("toggle", detail.id, NoUser, ~detail.user.on)
    <3>1. Call("toggle", detail.id, NoUser, ~detail.user.on) \in Calls
      BY <1>1, <2>2 DEF Calls, Changes
    <3> QED
      BY <2>1, <2>2, <2>3, <3>1 DEF Press, CallOK, FromPanel, Changes
  <2>4. CASE \E e \in Emails : Press("email", detail.id, e, FALSE)
    <3>1. PICK e \in Emails : Press("email", detail.id, e, FALSE)
      BY <2>4
    <3>2. Call("email", detail.id, e, FALSE) \in Calls
      BY <1>1, <2>2 DEF Calls, Changes
    <3> QED
      BY <2>1, <2>2, <3>1, <3>2 DEF Press, CallOK, FromPanel, Changes
  <2>5. CASE Press("delete", detail.id, NoUser, FALSE)
    <3>1. Call("delete", detail.id, NoUser, FALSE) \in Calls
      BY <1>1, <2>2 DEF Calls, Changes
    <3> QED
      BY <2>1, <2>2, <2>5, <3>1 DEF Press, CallOK, FromPanel, Changes
  <2> QED
    BY <1>3, <2>3, <2>4, <2>5 DEF DetailButton
<1>4. CASE AddUser
  <2>1. PICK u \in Ids \ used, e \in Emails : Press("create", u, e, FALSE)
    BY <1>4 DEF AddUser
  <2>2. Call("create", u, e, FALSE) \in Calls
    BY <1>1 DEF Calls, Changes
  <2> QED
    BY <1>4, <2>1, <2>2 DEF AddUser, Press, CallOK, FromTable, Changes
<1> QED
  BY <1>2, <1>3, <1>4

\* What is known of a call does not depend on whether it is stale.
LEMMA SameIsOK ==
    /\ \A c, d : SameCall(d, c) /\ CallOK(c) => CallOK(d)
    /\ \A a, b : SameAnswer(b, a) /\ AnswerOK(a) => AnswerOK(b)
BY DEF SameCall, SameAnswer, CallOK, AnswerOK

\* A call that is handled, and its answer.
LEMMA HandledIs ==
    ASSUME TypeOK, CallsInv, NEW i \in DOMAIN sent, Handle(i)
    PROVE  \E ok \in BOOLEAN :
             /\ Answer(i, ok, server)
             /\ AnswerOK([call |-> sent[i], ok |-> ok, users |-> server])
             /\ server' \in Table /\ Plain(server') /\ used' \subseteq Ids
             /\ ~doubtful' => /\ ~doubtful
                              /\ server' = After([call |-> sent[i], ok |-> ok, users |-> server])
             /\ sent[i].op \in Loads => UNCHANGED <<server, doubtful>>
             /\ ~(ok /\ sent[i].op \in Changes) => server' = server
             /\ doubtful' \in BOOLEAN /\ UNCHANGED <<pageVars, clicks, faults, steady>>
<1>1. /\ sent[i] \in Calls /\ CallOK(sent[i]) /\ server \in Table /\ used \subseteq Ids
      /\ Plain(server) /\ doubtful \in BOOLEAN
  BY NetworkTyped DEF CallsInv, TypeOK
<1>2. (sent[i].op \in Loads) = (sent[i].op \notin Changes)
  BY <1>1, CallFields
<1>3. CASE HandleLoad(i)
  <2> DEFINE a == [call |-> sent[i], ok |-> TRUE, users |-> server]
  <2>1. /\ Answer(i, TRUE, server) /\ UNCHANGED <<serverVars, pageVars, historyVars>>
        /\ sent[i].op \notin Changes
    BY <1>2, <1>3 DEF HandleLoad
  <2>2. AnswerOK(a) /\ After(a) = server
    BY <1>1, <2>1 DEF AnswerOK, After, Toggles, Changes
  <2> HIDE DEF a
  <2> QED
    BY <1>1, <2>1, <2>2 DEF a
<1>4. CASE Accept(i)
  <2> DEFINE a == [call |-> sent[i], ok |-> TRUE, users |-> server]
  <2>1. /\ sent[i].op \in Changes /\ Ready(sent[i]) /\ server' \in Changed(sent[i])
        /\ doubtful' = (doubtful \/ Outdated(sent[i])) /\ used' = used \cup {sent[i].id}
        /\ Answer(i, TRUE, server) /\ UNCHANGED <<pageVars, clicks, faults, steady>>
    BY <1>4 DEF Accept
  <2>2. sent[i].op = "create" \/ sent[i].seen \in User
    BY <1>1, <2>1, CallFields DEF Ready
  <2>3. /\ server' \in Table /\ Plain(server')
        /\ ~Outdated(sent[i]) => server' = Effect(sent[i], server)
        /\ sent[i].op \in Toggles \cup {"email"} => Present(server, sent[i].id)
    <3>1. ASSUME NEW t \in Changed(sent[i])
          PROVE  /\ t \in Table /\ Plain(t)
                 /\ ~Outdated(sent[i]) => t = Effect(sent[i], server)
                 /\ sent[i].op \in Toggles \cup {"email"} => Present(server, sent[i].id)
      BY <1>1, <2>1, <2>2, ChangedIs
    <3> QED
      BY <2>1, <3>1
  <2>4. sent[i].id \in Ids
    BY <1>1, <2>1 DEF CallOK
  <2>5. AnswerOK(a)
    BY <1>1, <1>2, <2>1, <2>3 DEF AnswerOK
  <2>6. After(a) = Effect(sent[i], server)
    BY <2>1 DEF After
  <2>7. doubtful' \in BOOLEAN /\ used' \subseteq Ids /\ sent[i].op \notin Loads
    BY <1>1, <1>2, <2>1, <2>4 DEF Outdated
  <2> HIDE DEF a
  <2> QED
    BY <2>1, <2>3, <2>5, <2>6, <2>7 DEF a
<1>5. CASE Reject(i)
  <2> DEFINE a == [call |-> sent[i], ok |-> FALSE, users |-> server]
  <2>1. /\ Answer(i, FALSE, server) /\ UNCHANGED <<serverVars, pageVars, historyVars>>
        /\ sent[i].op \notin Loads
    BY <1>2, <1>5 DEF Reject
  <2>2. AnswerOK(a) /\ After(a) = server
    BY <1>1, <2>1 DEF AnswerOK, After
  <2> HIDE DEF a
  <2> QED
    BY <1>1, <2>1, <2>2 DEF a
<1> QED
  BY <1>3, <1>4, <1>5 DEF Handle

\* A field of the account of the panel is written.
LEMMA WritesTyped ==
    ASSUME TypeOK, detail # NoUser
    PROVE  /\ \A on \in BOOLEAN : WriteOn(on) =>
                /\ detail' \in [id : Ids, user : User] /\ detail'.id = detail.id
                /\ detail'.user = [detail.user EXCEPT !.on = on]
                /\ allUsers' \in Table
                /\ allUsers' = IF Present(allUsers, detail.id)
                               THEN [allUsers EXCEPT ![detail.id] = [allUsers[detail.id] EXCEPT !.on = on]]
                               ELSE allUsers
           /\ \A e \in Emails : WriteEmail(e) =>
                /\ detail' \in [id : Ids, user : User] /\ detail'.id = detail.id
                /\ detail'.user = [detail.user EXCEPT !.email = e]
                /\ allUsers' \in Table
                /\ allUsers' = IF Present(allUsers, detail.id)
                               THEN [allUsers EXCEPT ![detail.id] = [allUsers[detail.id] EXCEPT !.email = e]]
                               ELSE allUsers
<1>1. detail \in [id : Ids, user : User] /\ allUsers \in Table
  BY DEF TypeOK
<1>2. detail.id \in Ids /\ detail.user \in User
  BY <1>1
<1>3. Present(allUsers, detail.id) => allUsers[detail.id] \in User
  BY <1>1, <1>2, UsersTyped
<1>4. ASSUME NEW x \in User
      PROVE  /\ \A on \in BOOLEAN : [x EXCEPT !.on = on] \in User
             /\ \A e \in Emails : [x EXCEPT !.email = e] \in User
  BY DEF User
<1>5. ASSUME NEW x \in User PROVE [allUsers EXCEPT ![detail.id] = x] \in Table
  BY <1>1, <1>2 DEF Table
<1>6. ASSUME NEW on \in BOOLEAN, WriteOn(on)
      PROVE  /\ detail' \in [id : Ids, user : User] /\ detail'.id = detail.id
             /\ detail'.user = [detail.user EXCEPT !.on = on]
             /\ allUsers' \in Table
             /\ allUsers' = IF Present(allUsers, detail.id)
                            THEN [allUsers EXCEPT ![detail.id] = [allUsers[detail.id] EXCEPT !.on = on]]
                            ELSE allUsers
  <2>1. detail' = [detail EXCEPT !.user = [detail.user EXCEPT !.on = on]]
    BY <1>6 DEF WriteOn
  <2>2. allUsers' = IF Present(allUsers, detail.id)
                    THEN [allUsers EXCEPT ![detail.id] = [allUsers[detail.id] EXCEPT !.on = on]]
                    ELSE allUsers
    BY <1>6 DEF WriteOn
  <2> QED
    BY <1>1, <1>2, <1>3, <1>4, <1>5, <2>1, <2>2
<1>7. ASSUME NEW e \in Emails, WriteEmail(e)
      PROVE  /\ detail' \in [id : Ids, user : User] /\ detail'.id = detail.id
             /\ detail'.user = [detail.user EXCEPT !.email = e]
             /\ allUsers' \in Table
             /\ allUsers' = IF Present(allUsers, detail.id)
                            THEN [allUsers EXCEPT ![detail.id] = [allUsers[detail.id] EXCEPT !.email = e]]
                            ELSE allUsers
  <2>1. detail' = [detail EXCEPT !.user = [detail.user EXCEPT !.email = e]]
    BY <1>7 DEF WriteEmail
  <2>2. allUsers' = IF Present(allUsers, detail.id)
                    THEN [allUsers EXCEPT ![detail.id] = [allUsers[detail.id] EXCEPT !.email = e]]
                    ELSE allUsers
    BY <1>7 DEF WriteEmail
  <2> QED
    BY <1>1, <1>2, <1>3, <1>4, <1>5, <2>1, <2>2
<1> QED
  BY <1>6, <1>7

\* What an arrival leaves of the page is of its types.
PageTyped ==
    /\ allUsers \in Table /\ rows \in [Loads -> Table]
    /\ detail \in [id : Ids, user : User] \cup {NoUser}
    /\ panel \in Loads \cup {"user-detail"}
    /\ panel = "user-detail" => detail # NoUser
    /\ doubtful \in BOOLEAN /\ steady \in BOOLEAN

LEMMA ArrivalTyped ==
    ASSUME TypeOK, CallsInv, NEW i \in DOMAIN answers, Arrive(i) PROVE PageTyped'
<1>1. answers[i] \in Answers /\ answers[i].call \in Calls /\ CallOK(answers[i].call)
  BY NetworkTyped, AnswerFields DEF CallsInv
<1>2. PageTyped
  BY DEF TypeOK, PageTyped
<1>3. \A on \in BOOLEAN : Arrived(i, on) => doubtful' \in BOOLEAN
  BY DEF Arrived
<1>4. Misapplied(i) \in BOOLEAN /\ FALSE \in BOOLEAN /\ TRUE \in BOOLEAN
  BY DEF Misapplied
<1>5. CASE Loaded(i)
  <2>1. answers[i].users \in Table
    BY <1>1, AnswerFields
  <2>2. doubtful' \in BOOLEAN
    BY <1>3, <1>4, <1>5 DEF Loaded
  <2>3. UNCHANGED <<detail, panel, steady>> /\ allUsers' \in Table /\ rows' \in [Loads -> Table]
    BY <1>2, <1>5, <2>1 DEF Loaded, PageTyped
  <2> QED
    BY <1>2, <2>2, <2>3 DEF PageTyped
<1>6. CASE Refused(i)
  <2>1. doubtful' \in BOOLEAN
    BY <1>3, <1>4, <1>6 DEF Refused
  <2> QED
    BY <1>2, <1>6, <2>1 DEF Refused, Nothing, PageTyped
<1>7. CASE Reload(i)
  <2>1. doubtful' \in BOOLEAN
    BY <1>3, <1>4, <1>7 DEF Reload
  <2> QED
    BY <1>2, <1>7, <2>1 DEF Reload, PageTyped
<1>8. CASE NoDetail(i)
  <2>1. doubtful' \in BOOLEAN
    BY <1>3, <1>4, <1>8 DEF NoDetail
  <2> QED
    BY <1>2, <1>8, <2>1 DEF NoDetail, Nothing, PageTyped
<1>9. CASE Toggled(i)
  <2>1. doubtful' \in BOOLEAN
    BY <1>3, <1>4, <1>9 DEF Toggled
  <2>2. detail # NoUser /\ WriteOn(~detail.user.on) /\ (~detail.user.on) \in BOOLEAN
    BY <1>9 DEF Toggled
  <2>3. detail' \in [id : Ids, user : User] /\ allUsers' \in Table
    BY <2>2, WritesTyped
  <2>4. detail' # NoUser
    BY <2>3, ConstantsAssumption
  <2> QED
    BY <1>2, <1>9, <2>1, <2>3, <2>4 DEF Toggled, PageTyped
<1>10. CASE EmailSaved(i)
  <2>1. doubtful' \in BOOLEAN
    BY <1>3, <1>4, <1>10 DEF EmailSaved
  <2>2. detail # NoUser /\ WriteEmail(answers[i].call.email) /\ answers[i].call.email \in Emails
    BY <1>1, <1>10 DEF EmailSaved, CallOK
  <2>3. detail' \in [id : Ids, user : User] /\ allUsers' \in Table
    BY <2>2, WritesTyped
  <2>4. detail' # NoUser
    BY <2>3, ConstantsAssumption
  <2> QED
    BY <1>2, <1>10, <2>1, <2>3, <2>4 DEF EmailSaved, PageTyped
<1>11. CASE Deleted(i)
  <2>1. doubtful' \in BOOLEAN
    BY <1>3, <1>4, <1>11 DEF Deleted
  <2>2. allUsers' \in Table
    BY <1>2, <1>11 DEF Deleted, AllBut, PageTyped, Table
  <2>3. steady' \in BOOLEAN /\ panel' \in Loads /\ panel' # "user-detail" /\ detail' = NoUser /\ rows' = rows
    BY <1>11 DEF Deleted, Loads
  <2> QED
    BY <1>2, <2>1, <2>2, <2>3 DEF PageTyped
<1> QED
  BY <1>5, <1>6, <1>7, <1>8, <1>9, <1>10, <1>11 DEF Arrive

\* TypeOK and what is known of the calls are kept.
LEMMA TypesStep ==
    ASSUME TypeOK, CallsInv, [Next]_vars PROVE TypeOK' /\ CallsInv'
<1>1. /\ sent \in Seq(Calls) /\ answers \in Seq(Answers) /\ server \in Table /\ used \subseteq Ids
      /\ clicks \in 0..MaxClicks /\ faults \in 0..MaxFaults /\ PageTyped
      /\ MaxClicks \in Nat /\ MaxFaults \in Nat
  BY ConstantsAssumption DEF TypeOK, PageTyped
<1>2. \A c \in Under : CallOK(c)
  BY DEF CallsInv
<1>3. (\A a \in Range(answers) : AnswerOK(a)) /\ Plain(server)
  BY DEF CallsInv
<1>4. ASSUME UNCHANGED vars PROVE TypeOK' /\ CallsInv'
  BY <1>4 DEF vars, TypeOK, CallsInv, Under, Back, Plain
<1>5. ASSUME NEW where \in Loads, Navigate(where) PROVE TypeOK' /\ CallsInv'
  <2>1. Quiet \in BOOLEAN /\ NoChanges \in BOOLEAN
    BY DEF Quiet, NoChanges
  <2>2. Load(where, Quiet) \in Calls /\ CallOK(Load(where, Quiet))
    BY <2>1, LoadsTyped
  <2>3. /\ sent' \in Seq(Calls) /\ answers' = answers
        /\ Under' = Under \cup {Load(where, Quiet)} /\ Range(answers)' = Range(answers)
    BY <1>5, <2>2, Sends DEF Navigate
  <2>4. CallsInv'
    <3>1. (\A c \in Under' : CallOK(c)) /\ \A a \in Range(answers)' : AnswerOK(a)
      BY <1>2, <1>3, <2>2, <2>3
    <3>2. server' = server
      BY <1>5 DEF Navigate
    <3> QED
      BY <1>3, <3>1, <3>2 DEF CallsInv
  <2>5. clicks' \in 0..MaxClicks
    BY <1>1, <1>5 DEF Navigate
  <2>6. panel' \in Loads /\ panel' # "user-detail" /\ steady' \in BOOLEAN
    BY <1>5, <2>1 DEF Navigate, Loads
  <2> QED
    BY <1>1, <1>5, <2>3, <2>4, <2>5, <2>6 DEF Navigate, TypeOK, PageTyped
<1>6. ASSUME NEW u \in Ids, OpenDetail(u) PROVE TypeOK' /\ CallsInv'
  <2>1. CallsInv'
    BY <1>2, <1>3, <1>6 DEF OpenDetail, CallsInv, Under, Back
  <2>2. CASE Present(allUsers, u)
    <3>1. allUsers[u] \in User
      BY <1>1, <2>2, UsersTyped DEF PageTyped
    <3>2. detail' = [id |-> u, user |-> allUsers[u]] /\ panel' = "user-detail"
      BY <1>6, <2>2 DEF OpenDetail
    <3>3. detail' \in [id : Ids, user : User]
      BY <3>1, <3>2
    <3>4. detail' # NoUser
      BY <3>3, ConstantsAssumption
    <3>5. steady' \in BOOLEAN
      BY <1>6, <2>2 DEF OpenDetail, Quiet
    <3> QED
      BY <1>1, <1>6, <2>1, <3>2, <3>3, <3>4, <3>5 DEF OpenDetail, TypeOK, PageTyped
  <2>3. CASE ~Present(allUsers, u)
    <3>1. detail' = NoUser /\ panel' = panel /\ steady' = steady /\ panel # "user-detail"
      BY <1>6, <2>3 DEF OpenDetail, Loads
    <3> QED
      BY <1>1, <1>6, <2>1, <3>1 DEF OpenDetail, TypeOK, PageTyped
  <2> QED
    BY <2>2, <2>3
<1>7. ASSUME Search PROVE TypeOK' /\ CallsInv'
  BY <1>1, <1>2, <1>3, <1>7 DEF Search, TypeOK, CallsInv, Under, Back, PageTyped
<1>8. ASSUME (\E u \in Ids : QuickToggle(u)) \/ DetailButton \/ AddUser PROVE TypeOK' /\ CallsInv'
  <2>1. PICK c \in Calls : /\ sent' = Append(Stale(sent), c) /\ answers' = StaleAnswers(answers)
                           /\ CallOK(c)
    BY <1>8, PressIsCall
  <2>2. UNCHANGED <<serverVars, pageVars, faults, doubtful, steady>> /\ clicks' \in 0..MaxClicks
    <3>1. clicks < MaxClicks /\ clicks' = clicks + 1
      BY <1>8, PressIsCall
    <3>2. UNCHANGED <<serverVars, pageVars, faults, doubtful, steady>>
      BY <1>8, PressIsCall
    <3> QED
      BY <1>1, <3>1, <3>2
  <2>3. /\ sent' \in Seq(Calls) /\ answers' \in Seq(Answers)
        /\ \A d \in Under' : d = c \/ \E b \in Under : SameCall(d, b)
        /\ \A b \in Range(answers)' : \E a \in Range(answers) : SameAnswer(b, a)
    BY <2>1, Presses
  <2>4. CallsInv'
    <3>1. (\A d \in Under' : CallOK(d)) /\ \A a \in Range(answers)' : AnswerOK(a)
      BY <1>2, <1>3, <2>1, <2>3, SameIsOK
    <3> QED
      BY <1>3, <2>2, <3>1 DEF CallsInv
  <2> QED
    BY <1>1, <2>2, <2>3, <2>4 DEF TypeOK, PageTyped
<1>9. ASSUME NEW i \in DOMAIN sent, Handle(i) PROVE TypeOK' /\ CallsInv'
  <2>1. PICK ok \in BOOLEAN :
          /\ Answer(i, ok, server) /\ AnswerOK([call |-> sent[i], ok |-> ok, users |-> server])
          /\ server' \in Table /\ Plain(server') /\ used' \subseteq Ids
          /\ doubtful' \in BOOLEAN /\ UNCHANGED <<pageVars, clicks, faults, steady>>
    BY <1>9, HandledIs
  <2>2. /\ sent' \in Seq(Calls) /\ answers' \in Seq(Answers) /\ Under' = Under
        /\ Range(answers)' = Range(answers) \cup {[call |-> sent[i], ok |-> ok, users |-> server]}
    BY <1>1, <2>1, Handles
  <2>3. CallsInv'
    BY <1>2, <1>3, <2>1, <2>2 DEF CallsInv
  <2> QED
    BY <1>1, <2>1, <2>2, <2>3 DEF TypeOK, PageTyped
<1>10. ASSUME NEW i \in DOMAIN answers, Arrive(i) PROVE TypeOK' /\ CallsInv'
  <2>1. PICK loads \in Followups : Then(i, loads)
    BY <1>10, ArrivalIsThen
  <2>2. /\ sent' \in Seq(Calls) /\ answers' \in Seq(Answers)
        /\ Range(answers)' \subseteq Range(answers) /\ Under' \subseteq Under \cup Range(loads)
    BY <2>1, FollowupsTyped, Arrives
  <2>3. UNCHANGED <<server, used, clicks, faults>>
    BY <1>10, ArrivalIsThen
  <2>4. CallsInv'
    BY <1>2, <1>3, <2>2, <2>3, FollowupsTyped DEF CallsInv
  <2>5. PageTyped'
    BY <1>10, ArrivalTyped
  <2> QED
    BY <1>1, <2>2, <2>3, <2>4, <2>5 DEF TypeOK, PageTyped
<1>11. ASSUME \/ \E i \in DOMAIN sent : LoseCall(i)
              \/ \E i \in DOMAIN answers : LoseAnswer(i)
              \/ OtherAdmin
       PROVE  TypeOK' /\ CallsInv'
  <2>1. /\ sent' \in Seq(Calls) /\ answers' \in Seq(Answers)
        /\ \A d \in Under' : \E b \in Under : SameCall(d, b)
        /\ \A b \in Range(answers)' : \E a \in Range(answers) : SameAnswer(b, a)
        /\ UNCHANGED <<pageVars, steady, clicks>> /\ faults' \in 0..MaxFaults
    BY <1>11, Loses
  <2>3. doubtful' \in BOOLEAN
    BY <1>11 DEF LoseCall, LoseAnswer, OtherAdmin
  <2>4. server' \in Table /\ Plain(server') /\ used' \subseteq Ids
    <3>1. CASE OtherAdmin
      <4>1. PICK op \in Changes, u \in Ids, e \in Emails :
              /\ op = "create" \/ Present(server, u)
              /\ server' \in Changed([op |-> op, id |-> u, email |-> e, seen |-> server[u]])
              /\ used' = used \cup {u}
        BY <3>1 DEF OtherAdmin
      <4> DEFINE c == [op |-> op, id |-> u, email |-> e, seen |-> server[u]]
      <4>2. CallOK(c) /\ c.op \in Changes /\ (c.op = "create" \/ c.seen \in User)
        BY <1>1, <4>1, UsersTyped DEF CallOK
      <4> HIDE DEF c
      <4>3. \A t \in Changed(c) : t \in Table /\ Plain(t)
        BY <1>1, <1>3, <4>2, ChangedIs
      <4> QED
        BY <1>1, <4>1, <4>3 DEF c
    <3> QED
      BY <1>1, <1>3, <1>11, <3>1 DEF LoseCall, LoseAnswer
  <2>5. CallsInv'
    BY <1>2, <1>3, <2>1, <2>4, SameIsOK DEF CallsInv
  <2> QED
    BY <1>1, <2>1, <2>3, <2>4, <2>5 DEF TypeOK, PageTyped
<1>12. ASSUME NEW i \in DOMAIN sent, Look(i) PROVE TypeOK' /\ CallsInv'
  <2>1. /\ sent' \in Seq(Calls) /\ UNCHANGED <<serverVars, pageVars, answers, historyVars>>
        /\ \A d \in Under' : \E b \in Under : SameCall(d, b)
    BY <1>12, Looks
  <2>2. CallsInv'
    <3>1. \A c \in Under' : CallOK(c)
      BY <1>2, <2>1, SameIsOK
    <3>2. (\A a \in Range(answers)' : AnswerOK(a)) /\ Plain(server')
      BY <1>3, <2>1
    <3> QED
      BY <3>1, <3>2 DEF CallsInv
  <2> QED
    BY <1>1, <2>1, <2>2 DEF TypeOK, PageTyped
<1> QED
  BY <1>4, <1>5, <1>6, <1>7, <1>8, <1>9, <1>10, <1>11, <1>12 DEF Next, Browse

-----------------------------------------------------------------------------
(***************************************************************************)
(* The panel that the calls under way were sent from.                      *)
(***************************************************************************)
LEMMA PanelStep ==
    ASSUME TypeOK, CallsInv, PanelInv, [Next]_vars PROVE PanelInv'
<1>1. \A c \in Under : (c.op \in Loads) = (c.op \notin Changes)
  BY NetworkTyped, CallFields
<1>2. "user-detail" \notin Loads
  BY DEF Loads
<1>3. ASSUME UNCHANGED vars PROVE PanelInv'
  BY <1>3 DEF vars, PanelInv, Under, Back
<1>4. ASSUME NEW where \in Loads, Navigate(where) PROVE PanelInv'
  <2>1. Quiet \in BOOLEAN
    BY DEF Quiet
  <2>2. Load(where, Quiet) \in Calls /\ Load(where, Quiet).op \in Loads
    BY <2>1, LoadsTyped
  <2>3. Under' = Under \cup {Load(where, Quiet)}
    BY <1>4, <2>2, Sends DEF Navigate
  <2>4. steady' => \A c \in Under' : c.op \in Loads
    BY <1>4, <2>2, <2>3, UnderWayIs DEF Navigate
  <2>5. \A c \in Under' : c.op \in Loads => c.op \notin Changes
    BY DEF Loads, Changes
  <2> QED
    BY <2>4, <2>5 DEF PanelInv
<1>5. ASSUME NEW u \in Ids, OpenDetail(u) PROVE PanelInv'
  <2>1. Under' = Under
    BY <1>5 DEF OpenDetail, Under, Back
  <2>2. CASE steady' => Quiet
    BY <2>1, <2>2, UnderWayIs DEF PanelInv
  <2>3. CASE UNCHANGED <<panel, steady>>
    BY <1>2, <1>5, <2>1, <2>3 DEF OpenDetail, PanelInv
  <2> QED
    BY <1>5, <2>2, <2>3 DEF OpenDetail
<1>6. ASSUME Search PROVE PanelInv'
  BY <1>6 DEF Search, PanelInv, Under, Back
<1>7. ASSUME (\E u \in Ids : QuickToggle(u)) \/ DetailButton \/ AddUser PROVE PanelInv'
  <2>1. PICK c \in Calls :
          /\ sent' = Append(Stale(sent), c) /\ answers' = StaleAnswers(answers)
          /\ IF panel = "user-detail" THEN c.op \in FromPanel /\ c.id = detail.id
             ELSE panel = "users" /\ c.op \in FromTable
    BY <1>7, PressIsCall
  <2>2. UNCHANGED <<panel, detail, steady>>
    BY <1>7, PressIsCall
  <2>3. \A d \in Under' : d = c \/ \E b \in Under : SameCall(d, b)
    BY <2>1, Presses
  <2> QED
    BY <2>1, <2>2, <2>3 DEF PanelInv, SameCall
<1>8. ASSUME NEW i \in DOMAIN sent, Handle(i) PROVE PanelInv'
  <2>1. PICK ok \in BOOLEAN : Answer(i, ok, server) /\ UNCHANGED <<pageVars, steady>>
    BY <1>8, HandledIs
  <2>2. Under' = Under
    BY <2>1, Handles DEF TypeOK
  <2> QED
    BY <2>1, <2>2 DEF PanelInv
<1>9. ASSUME NEW i \in DOMAIN answers, Arrive(i) PROVE PanelInv'
  <2>1. PICK loads \in Followups : Then(i, loads)
    BY <1>9, ArrivalIsThen
  <2>2. Under' \subseteq Under \cup Range(loads) /\ \A c \in Range(loads) : c.op \in Loads
    BY <2>1, FollowupsTyped, Arrives
  <2>3. \A c \in Under' : c.op \in Changes => c \in Under
    BY <2>2 DEF Loads, Changes
  <2>4. CASE UNCHANGED <<panel, steady>> /\ (panel = "user-detail" => detail'.id = detail.id)
    BY <2>3, <2>4 DEF PanelInv
  <2>5. CASE Deleted(i)
    <3>1. panel' = "users" /\ panel' # "user-detail"
      BY <2>5 DEF Deleted
    <3>2. steady' => \A c \in Range(sent) \cup {answers[j].call : j \in DOMAIN answers \ {i}} : c.op \in Loads
      BY <2>5 DEF Deleted
    <3>3. Under' \subseteq Range(sent) \cup {answers[j].call : j \in DOMAIN answers \ {i}} \cup Range(loads)
      <4>1. /\ sent \in Seq(Calls) /\ answers \in Seq(Answers) /\ DOMAIN answers = 1..Len(answers)
            /\ i \in Nat /\ DOMAIN answers \subseteq Nat
        BY NetworkTyped
      <4>2. loads \in Seq(Calls) /\ sent' = sent \o loads /\ answers' = RemoveAt(answers, i)
        BY <2>1, FollowupsTyped DEF Then
      <4>3. Range(sent)' = Range(sent) \cup Range(loads)
        BY <4>1, <4>2, Concatenated
      <4>4. answers' \in Seq(Answers)
        BY <4>1, <4>2, Removed
      <4>5. ASSUME NEW a \in Range(answers)' PROVE \E j \in DOMAIN answers \ {i} : a = answers[j]
        <5>1. PICK k \in DOMAIN answers' : answers'[k] = a
          BY <4>4, <4>5, InRange
        <5>2. /\ answers'[k] = answers[Past(i, k)]
              /\ k \in DOMAIN answers /\ k + 1 \in DOMAIN answers
          BY <4>1, <4>2, RemovedAt
        <5>3. Past(i, k) \in DOMAIN answers \ {i}
          BY <4>1, <5>2 DEF Past
        <5> QED
          BY <5>1, <5>2, <5>3
      <4> QED
        BY <4>3, <4>5 DEF Under, Back
    <3>4. steady' => \A c \in Under' : c.op \in Loads
      BY <2>2, <3>2, <3>3
    <3>5. \A c \in Under' : c.op \in Loads => c.op \notin Changes
      BY DEF Loads, Changes
    <3> QED
      BY <3>4, <3>5 DEF PanelInv
  <2>6. CASE Toggled(i)
    <3>1. UNCHANGED <<panel, steady>> /\ detail # NoUser /\ WriteOn(~detail.user.on)
          /\ (~detail.user.on) \in BOOLEAN
      BY <2>6 DEF Toggled
    <3> QED
      BY <2>4, <3>1, WritesTyped
  <2>7. CASE EmailSaved(i)
    <3>1. CallOK(answers[i].call)
      BY NetworkTyped DEF CallsInv
    <3>2. UNCHANGED <<panel, steady>> /\ detail # NoUser /\ WriteEmail(answers[i].call.email)
          /\ answers[i].call.email \in Emails
      BY <2>7, <3>1 DEF EmailSaved, CallOK
    <3> QED
      BY <2>4, <3>2, WritesTyped
  <2>8. CASE Loaded(i) \/ Refused(i) \/ Reload(i) \/ NoDetail(i)
    BY <2>4, <2>8 DEF Loaded, Refused, Reload, NoDetail, Nothing
  <2> QED
    BY <1>9, <2>5, <2>6, <2>7, <2>8 DEF Arrive
<1>10. ASSUME \/ \E i \in DOMAIN sent : LoseCall(i)
              \/ \E i \in DOMAIN answers : LoseAnswer(i)
              \/ OtherAdmin
       PROVE  PanelInv'
  <2>1. UNCHANGED <<pageVars, steady>> /\ \A d \in Under' : \E b \in Under : SameCall(d, b)
    BY <1>10, Loses
  <2> QED
    BY <2>1 DEF PanelInv, SameCall
<1>11. ASSUME NEW i \in DOMAIN sent, Look(i) PROVE PanelInv'
  <2>1. UNCHANGED <<pageVars, steady>> /\ \A d \in Under' : \E b \in Under : SameCall(d, b)
    BY <1>11, Looks
  <2> QED
    BY <2>1 DEF PanelInv, SameCall
<1> QED
  BY <1>3, <1>4, <1>5, <1>6, <1>7, <1>8, <1>9, <1>10, <1>11 DEF Next, Browse

-----------------------------------------------------------------------------
(***************************************************************************)
(* The answers under way, one after the other.                             *)
(***************************************************************************)
\* Without a call handled or an answer taken, they lead where they led.
SameAnswers ==
    /\ server' = server /\ DOMAIN answers' = DOMAIN answers
    /\ \A k \in DOMAIN answers : SameAnswer(answers'[k], answers[k])

LEMMA SameAfter == \A a, b : SameAnswer(a, b) => After(a) = After(b)
<1>1. ASSUME NEW c, NEW d, SameCall(c, d), NEW table PROVE Effect(c, table) = Effect(d, table)
  <2>1. \A user : New(c, user) = New(d, user)
    BY <1>1 DEF New, SameCall
  <2> QED
    BY <1>1, <2>1 DEF Effect, SameCall
<1> QED
  BY <1>1 DEF After, SameAnswer, SameCall

LEMMA SameAnswersLead ==
    ASSUME SameAnswers
    PROVE  /\ \A k : Before(k)' = Before(k)
           /\ \A k \in DOMAIN answers : After(answers'[k]) = After(answers[k])
<1>1. \A k \in DOMAIN answers : answers'[k].users = answers[k].users
  BY DEF SameAnswers, SameAnswer
<1>2. \A k : Before(k)' = Before(k)
  BY <1>1 DEF SameAnswers, Before
<1>3. \A k \in DOMAIN answers : After(answers'[k]) = After(answers[k])
  BY SameAfter DEF SameAnswers
<1> QED
  BY <1>2, <1>3

LEMMA UnchangedAnswers ==
    ASSUME UNCHANGED <<server, answers>> PROVE SameAnswers
BY DEF SameAnswers, SameAnswer, SameCall

\* A handled call adds an answer, which was made where the others lead.
LEMMA HandledLeads ==
    ASSUME TypeOK, CallsInv, NEW i \in DOMAIN sent, Handle(i)
    PROVE  /\ Before(1)' = Before(1)
           /\ \A k \in DOMAIN answers : Before(k + 1)' = Before(k + 1) /\ answers'[k] = answers[k]
           /\ DOMAIN answers' = 1..(Len(answers) + 1)
           /\ ~doubtful' => \A n : n = Len(answers) + 2 => Before(n)' = After(answers'[Len(answers) + 1])
           /\ answers'[Len(answers) + 1].call = sent[i] /\ answers'[Len(answers) + 1].users = server
           /\ sent[i].op \in Loads => server' = server
<1>1. PICK ok \in BOOLEAN :
        /\ Answer(i, ok, server)
        /\ ~doubtful' => server' = After([call |-> sent[i], ok |-> ok, users |-> server])
        /\ ~(ok /\ sent[i].op \in Changes) => server' = server
  BY HandledIs
<1>2. /\ DOMAIN answers' = 1..(Len(answers) + 1)
      /\ \A k \in DOMAIN answers : answers'[k] = answers[k]
      /\ answers'[Len(answers) + 1] = [call |-> sent[i], ok |-> ok, users |-> server]
  BY <1>1, Handles DEF TypeOK
<1>3. DOMAIN answers = 1..Len(answers) /\ Len(answers) \in Nat
  BY NetworkTyped
<1>4. \A k \in 1..(Len(answers) + 1) : Before(k)' = Before(k)
  <2> SUFFICES ASSUME NEW k \in 1..(Len(answers) + 1) PROVE Before(k)' = Before(k)
    OBVIOUS
  <2>1. Before(k)' = answers'[k].users
    BY <1>2 DEF Before
  <2>2. CASE k \in 1..Len(answers)
    BY <1>2, <1>3, <2>1, <2>2 DEF Before
  <2>3. CASE k = Len(answers) + 1
    <3>1. k \notin 1..Len(answers)
      BY <1>3, <2>3
    <3> QED
      BY <1>2, <1>3, <2>1, <2>3, <3>1 DEF Before
  <2> QED
    BY <1>3, <2>2, <2>3
<1>5. 1 \in 1..(Len(answers) + 1) /\ \A k \in DOMAIN answers : k + 1 \in 1..(Len(answers) + 1)
  BY <1>3
<1>6. ASSUME NEW n, n = Len(answers) + 2 PROVE Before(n)' = server'
  <2>1. n \notin 1..(Len(answers) + 1)
    BY <1>3, <1>6
  <2> QED
    BY <1>2, <2>1 DEF Before
<1>7. sent[i].op \in Loads => sent[i].op \notin Changes
  BY DEF Loads, Changes
<1> QED
  BY <1>1, <1>2, <1>4, <1>5, <1>6, <1>7

\* The first answer that arrives leaves the others.
LEMMA ArrivedLeads ==
    ASSUME TypeOK, 1 \in DOMAIN answers, Arrive(1)
    PROVE  /\ \A k \in Nat \ {0} : Before(k)' = Before(k + 1)
           /\ \A k \in DOMAIN answers' : /\ k \in Nat \ {0} /\ k + 1 \in DOMAIN answers
                                         /\ answers'[k] = answers[k + 1]
           /\ \A k \in DOMAIN answers : k # 1 => k - 1 \in DOMAIN answers'
           /\ server' = server
<1>1. PICK loads \in Followups : Then(1, loads)
  BY ArrivalIsThen
<1>2. server' = server
  BY ArrivalIsThen
<1>3. DOMAIN answers = 1..Len(answers) /\ Len(answers) \in Nat
  BY NetworkTyped
<1>4. /\ DOMAIN answers' = 1..(Len(answers) - 1)
      /\ \A k \in DOMAIN answers' : answers'[k] = answers[k + 1]
  BY <1>1, FollowupsTyped, Arrives
<1>5. \A k \in Nat \ {0} : k \in DOMAIN answers' <=> k + 1 \in DOMAIN answers
  BY <1>3, <1>4
<1>6. \A k \in Nat \ {0} : Before(k)' = Before(k + 1)
  BY <1>2, <1>4, <1>5 DEF Before
<1>7. \A k \in DOMAIN answers' : k \in Nat \ {0} /\ k + 1 \in DOMAIN answers
  BY <1>3, <1>4
<1>8. \A k \in DOMAIN answers : k # 1 => k - 1 \in DOMAIN answers'
  BY <1>3, <1>4
<1> QED
  BY <1>2, <1>4, <1>6, <1>7, <1>8

\* The list is in doubt no more when a load arrives that was sent in quiet:
\* then all that is under way are loads, and all answers say the same.
LEMMA Cleared ==
    ASSUME TypeOK, CallsInv, FreshLoadInv, NEW i \in DOMAIN answers, Arrive(i), doubtful, ~doubtful'
    PROVE  /\ i = 1 /\ Loaded(1)
           /\ \A c \in Under : c.op \in Loads
           /\ \A k \in DOMAIN answers : /\ answers[k].users = server /\ answers[k].call.op \in Loads
                                        /\ After(answers[k]) = server
           /\ \A k : Before(k) = server
           /\ panel \in Loads => \/ Awaited({panel})
                                 \/ (SpelledAll(rows[panel]) = server /\ SpelledAll(allUsers) = server)
           /\ panel = "user-detail" => ~steady
<1>1. answers[i].call.op \in Loads /\ answers[i].call.fresh /\ i = 1
  <2>1. \E misapplied \in {FALSE, TRUE, Misapplied(i)} : Arrived(i, misapplied)
    BY DEF Arrive, Loaded, Refused, Reload, NoDetail, Toggled, EmailSaved, Deleted
  <2> QED
    BY <2>1 DEF Arrived
<1>2. Loaded(1)
  <2>1. answers[1] \in Range(answers) /\ AnswerOK(answers[1])
    BY <1>1, NetworkTyped DEF CallsInv
  <2>2. answers[1].ok /\ answers[1].call.op \notin Changes
    BY <1>1, <2>1 DEF AnswerOK, Loads, Changes
  <2> QED
    BY <1>1, <2>2 DEF Arrive, Refused, Reload, NoDetail, Toggled, EmailSaved, Deleted, Changes
<1>3. /\ \A c \in Under : c.op \in Loads
      /\ \A a \in Range(answers) : a.users = server
      /\ panel \in Loads => \/ Awaited({panel})
                            \/ (SpelledAll(rows[panel]) = server /\ SpelledAll(allUsers) = server)
      /\ panel = "user-detail" => ~steady
  BY <1>1, NetworkTyped DEF FreshLoadInv
<1>4. \A k \in DOMAIN answers : answers[k].users = server /\ answers[k].call.op \in Loads
  BY <1>3, NetworkTyped
<1>5. \A k \in DOMAIN answers : After(answers[k]) = server
  BY <1>4 DEF After, Loads, Changes
<1>6. \A k : Before(k) = server
  BY <1>4 DEF Before
<1> QED
  BY <1>1, <1>2, <1>3, <1>4, <1>5, <1>6

\* How a step can change the answers.
LEMMA StepAnswers ==
    ASSUME TypeOK, CallsInv, [Next]_vars
    PROVE  \/ SameAnswers /\ doubtful' = doubtful
           \/ (\E i \in DOMAIN sent : Handle(i))
           \/ (\E i \in DOMAIN answers : Arrive(i))
           \/ doubtful'
<1>1. CASE UNCHANGED vars
  BY <1>1, UnchangedAnswers DEF vars
<1>2. CASE \E where \in Loads : Navigate(where)
  BY <1>2, UnchangedAnswers DEF Navigate
<1>3. CASE \E u \in Ids : OpenDetail(u)
  BY <1>3, UnchangedAnswers DEF OpenDetail
<1>4. CASE Search
  BY <1>4, UnchangedAnswers DEF Search
<1>5. CASE (\E u \in Ids : QuickToggle(u)) \/ DetailButton \/ AddUser
  BY <1>5, PressIsCall, Presses DEF SameAnswers
<1>6. CASE \/ \E i \in DOMAIN sent : LoseCall(i)
           \/ \E i \in DOMAIN answers : LoseAnswer(i)
           \/ OtherAdmin
  BY <1>6, Loses
<1>7. CASE \E i \in DOMAIN sent : Look(i)
  BY <1>7, Looks, UnchangedAnswers
<1> QED
  BY <1>1, <1>2, <1>3, <1>4, <1>5, <1>6, <1>7 DEF Next, Browse

\* The answers stay a chain, and the last of them stay up to date.
LEMMA ChainStep ==
    ASSUME TypeOK, CallsInv, ChainInv, SettledInv, FreshLoadInv, [Next]_vars
    PROVE  ChainInv' /\ SettledInv'
<1>1. DOMAIN answers = 1..Len(answers) /\ Len(answers) \in Nat
  BY NetworkTyped
<1>2. ASSUME SameAnswers, doubtful' = doubtful PROVE ChainInv' /\ SettledInv'
  <2>1. /\ \A k : Before(k)' = Before(k)
        /\ \A k \in DOMAIN answers : After(answers'[k]) = After(answers[k])
    BY <1>2, SameAnswersLead
  <2>2. ChainInv'
    BY <1>2, <2>1 DEF ChainInv, SameAnswers, After, Effect, New
  <2>3. \A k \in DOMAIN answers : /\ answers'[k].users = answers[k].users
                                 /\ answers'[k].call.op = answers[k].call.op
    BY <1>2 DEF SameAnswers, SameAnswer, SameCall
  <2>4. SettledInv'
    BY <1>2, <2>3 DEF SettledInv, SameAnswers
  <2> QED
    BY <2>2, <2>4
<1>3. ASSUME NEW i \in DOMAIN sent, Handle(i) PROVE ChainInv' /\ SettledInv'
  <2> PICK n : n = Len(answers)
    OBVIOUS
  <2>1. /\ \A k \in DOMAIN answers : Before(k + 1)' = Before(k + 1) /\ answers'[k] = answers[k]
        /\ DOMAIN answers' = 1..(n + 1)
        /\ ~doubtful' => \A m : m = n + 2 => Before(m)' = After(answers'[n + 1])
        /\ answers'[n + 1].call = sent[i] /\ answers'[n + 1].users = server
        /\ sent[i].op \in Loads => server' = server
    BY <1>3, HandledLeads
  <2>2. ~doubtful' => ~doubtful
    BY <1>3, HandledIs
  <2>3. ASSUME ~doubtful', NEW k \in DOMAIN answers' PROVE Before(k + 1)' = After(answers'[k])
    <3>1. CASE k \in DOMAIN answers
      BY <2>1, <2>2, <2>3, <3>1 DEF ChainInv
    <3>2. CASE k \notin DOMAIN answers
      <4>1. k = n + 1 /\ k + 1 = n + 2
        BY <1>1, <2>1, <3>2
      <4> QED
        BY <2>1, <2>3, <4>1
    <3> QED
      BY <3>1, <3>2
  <2>4. ASSUME ~doubtful', NEW k \in DOMAIN answers',
               \A m \in DOMAIN answers' : m >= k => answers'[m].call.op \in Loads
        PROVE  answers'[k].users = server'
    <3>1. n + 1 \in DOMAIN answers' /\ n + 1 >= k
      BY <1>1, <2>1
    <3>2. server' = server
      BY <2>1, <2>4, <3>1
    <3>3. CASE k \in DOMAIN answers
      <4>1. \A m \in DOMAIN answers : m >= k => answers[m].call.op \in Loads
        BY <1>1, <2>1, <2>4
      <4> QED
        BY <2>1, <2>2, <2>4, <3>2, <3>3, <4>1 DEF SettledInv
    <3>4. CASE k \notin DOMAIN answers
      <4>1. k = n + 1
        BY <1>1, <2>1, <3>4
      <4> QED
        BY <2>1, <3>2, <4>1
    <3> QED
      BY <3>3, <3>4
  <2> QED
    BY <2>3, <2>4 DEF ChainInv, SettledInv, After, Effect, New
<1>4. ASSUME NEW i \in DOMAIN answers, Arrive(i) PROVE ChainInv' /\ SettledInv'
  <2>1. CASE doubtful'
    BY <2>1 DEF ChainInv, SettledInv
  <2>2. ASSUME ~doubtful'
        PROVE  /\ i = 1
               /\ \A k \in DOMAIN answers : Before(k + 1) = After(answers[k])
               /\ \A k \in DOMAIN answers :
                    (\A m \in DOMAIN answers : m >= k => answers[m].call.op \in Loads)
                      => answers[k].users = server
    <3>1. i = 1
      BY <1>4, <2>2, ArrivalIsThen
    <3>2. CASE doubtful
      BY <1>4, <2>2, <3>1, <3>2, Cleared
    <3>3. CASE ~doubtful
      BY <3>1, <3>3 DEF ChainInv, SettledInv
    <3> QED
      BY <3>2, <3>3
  <2>3. ASSUME ~doubtful' PROVE ChainInv' /\ SettledInv'
    <3>1. i = 1 /\ Arrive(1) /\ 1 \in DOMAIN answers
      BY <1>4, <2>2, <2>3
    <3>2. /\ \A k \in Nat \ {0} : Before(k)' = Before(k + 1)
          /\ \A k \in DOMAIN answers' : /\ k \in Nat \ {0} /\ k + 1 \in DOMAIN answers
                                        /\ answers'[k] = answers[k + 1]
          /\ \A k \in DOMAIN answers : k # 1 => k - 1 \in DOMAIN answers'
          /\ server' = server
      BY <3>1, ArrivedLeads
    <3>3. ASSUME NEW k \in DOMAIN answers' PROVE Before(k + 1)' = After(answers'[k])
      <4>1. k + 1 \in Nat \ {0}
        BY <3>2
      <4> QED
        BY <2>2, <2>3, <3>2, <4>1
    <3>4. ASSUME NEW k \in DOMAIN answers',
                 \A m \in DOMAIN answers' : m >= k => answers'[m].call.op \in Loads
          PROVE  answers'[k].users = server'
      <4>1. ASSUME NEW m \in DOMAIN answers, m >= k + 1 PROVE answers[m].call.op \in Loads
        <5>1. m \in Nat /\ k \in Nat \ {0}
          BY <1>1, <3>2
        <5>2. m # 1 /\ m - 1 >= k /\ m - 1 + 1 = m
          BY <4>1, <5>1
        <5> QED
          BY <3>2, <3>4, <5>2
      <4> QED
        BY <2>2, <2>3, <3>2, <4>1
    <3> QED
      BY <3>3, <3>4 DEF ChainInv, SettledInv, After, Effect, New
  <2> QED
    BY <2>1, <2>3
<1>5. ASSUME doubtful' PROVE ChainInv' /\ SettledInv'
  BY <1>5 DEF ChainInv, SettledInv
<1> QED
  BY <1>2, <1>3, <1>4, <1>5, StepAnswers

-----------------------------------------------------------------------------
(***************************************************************************)
(* The list, the panel and the tables.                                     *)
(***************************************************************************)
\* What the first answer does when it leaves no doubt.
LEMMA InOrder ==
    ASSUME TypeOK, CallsInv, ChainInv, FreshLoadInv, NEW i \in DOMAIN answers, Arrive(i), ~doubtful'
    PROVE  /\ i = 1 /\ answers[1] \in Answers /\ AnswerOK(answers[1]) /\ CallOK(answers[1].call)
           /\ Before(1) = answers[1].users /\ Before(1)' = After(answers[1])
           /\ \E loads \in Followups : Then(1, loads)
           /\ doubtful => Loaded(1)
           /\ ~NoDetail(1)
           /\ Toggled(1) \/ EmailSaved(1) \/ Deleted(1) => ~Misapplied(1) \/ doubtful
           /\ server' = server
<1>1. i = 1
  BY ArrivalIsThen
<1>2. /\ answers[1] \in Answers /\ AnswerOK(answers[1]) /\ CallOK(answers[1].call)
      /\ Before(1) = answers[1].users
  BY <1>1, NetworkTyped DEF CallsInv, Before
<1>3. (\E loads \in Followups : Then(1, loads)) /\ server' = server
  BY <1>1, ArrivalIsThen
<1>4. Before(1)' = Before(2)
  <2>1. \A k \in Nat \ {0} : Before(k)' = Before(k + 1)
    BY <1>1, ArrivedLeads
  <2>2. Before(1)' = Before(1 + 1)
    BY <2>1
  <2>3. 1 + 1 = 2
    OBVIOUS
  <2> QED
    BY <2>2, <2>3
<1>5. Before(2) = After(answers[1])
  <2>1. CASE doubtful
    BY <1>1, <2>1, Cleared
  <2>2. CASE ~doubtful
    <3>1. Before(1 + 1) = After(answers[1])
      BY <1>1, <2>2 DEF ChainInv
    <3>2. 1 + 1 = 2
      OBVIOUS
    <3> QED
      BY <3>1, <3>2
  <2> QED
    BY <2>1, <2>2
<1>6. doubtful => Loaded(1)
  BY <1>1, Cleared
<1>7. ~NoDetail(1)
  <2> SUFFICES ASSUME NoDetail(1) PROVE FALSE
    OBVIOUS
  <2>1. Arrived(1, TRUE)
    BY DEF NoDetail
  <2> QED
    BY <2>1 DEF Arrived
<1>8. Toggled(1) \/ EmailSaved(1) \/ Deleted(1) => ~Misapplied(1)
  <2> SUFFICES ASSUME Toggled(1) \/ EmailSaved(1) \/ Deleted(1), Misapplied(1) PROVE FALSE
    OBVIOUS
  <2>1. Arrived(1, Misapplied(1))
    BY DEF Toggled, EmailSaved, Deleted
  <2> QED
    BY <2>1 DEF Arrived
<1> QED
  BY <1>1, <1>2, <1>3, <1>4, <1>5, <1>6, <1>7, <1>8

\* A field that is written to the list, as the backend had written it.
LEMMA EmailFollows ==
    ASSUME TypeOK, CallsInv, 1 \in DOMAIN answers, EmailSaved(1), ~Misapplied(1)
    PROVE  /\ detail'.id = detail.id /\ detail.id = answers[1].call.id
           /\ SpelledAll(allUsers) = answers[1].users => SpelledAll(allUsers)' = After(answers[1])
           /\ Spelled(detail.user) = answers[1].users[detail.id] =>
                Spelled(detail.user)' = After(answers[1])[detail.id]
<1> DEFINE c == answers[1].call
<1>1. /\ answers[1] \in Answers /\ AnswerOK(answers[1]) /\ CallOK(c) /\ answers[1].users \in Table
      /\ detail # NoUser /\ detail.id = c.id /\ c.op = "email" /\ answers[1].ok
  BY NetworkTyped, AnswerFields DEF CallsInv, EmailSaved, Misapplied
<1>2. c.id \in Ids /\ c.email \in Emails /\ Present(answers[1].users, c.id)
  BY <1>1 DEF CallOK, AnswerOK, Changes
<1>3. WriteEmail(c.email)
  BY DEF EmailSaved
<1>4. /\ detail'.id = detail.id /\ detail'.user = [detail.user EXCEPT !.email = c.email]
      /\ allUsers' = IF Present(allUsers, detail.id)
                     THEN [allUsers EXCEPT ![detail.id] = [allUsers[detail.id] EXCEPT !.email = c.email]]
                     ELSE allUsers
  BY <1>1, <1>2, <1>3, WritesTyped
<1>5. After(answers[1]) = Effect(c, answers[1].users)
  BY <1>1 DEF After, Changes
<1>6. \A user : New(c, user) = [user EXCEPT !.email = Normal[c.email]]
  BY <1>1 DEF New
<1>7. ASSUME NEW x \in User, NEW y \in User, Spelled(x) = y
      PROVE  Spelled([x EXCEPT !.email = c.email]) = New(c, y)
  <2> DEFINE z == [x EXCEPT !.email = c.email]
  <2>1. z \in User /\ z.email = c.email /\ z.on = x.on
    BY <1>2 DEF User
  <2> HIDE DEF z
  <2>2. Spelled(z) \in User /\ Spelled(z).on = x.on /\ Spelled(z).email = Normal[c.email]
    BY <2>1, SpelledIs
  <2>3. y.on = x.on
    BY <1>7, SpelledIs
  <2>4. New(c, y) \in User /\ New(c, y).on = x.on /\ New(c, y).email = Normal[c.email]
    <3>1. New(c, y) = [y EXCEPT !.email = Normal[c.email]] /\ Normal[c.email] \in Emails
      BY <1>2, <1>6, SpelledIs
    <3>2. \A e \in Emails : /\ [y EXCEPT !.email = e] \in User /\ [y EXCEPT !.email = e].on = y.on
                            /\ [y EXCEPT !.email = e].email = e
      BY DEF User
    <3> QED
      BY <2>3, <3>1, <3>2
  <2>5. \A v, w \in User : v.on = w.on /\ v.email = w.email => v = w
    BY DEF User
  <2>6. Spelled(z) = New(c, y)
    BY <2>2, <2>4, <2>5
  <2> QED
    BY <2>6 DEF z
<1>8. ASSUME SpelledAll(allUsers) = answers[1].users
      PROVE  SpelledAll(allUsers)' = After(answers[1])
  <2>1. /\ allUsers \in Table /\ \A u \in Ids : answers[1].users[u] = Spelled(allUsers[u])
        /\ Present(allUsers, detail.id)
    BY <1>1, <1>2, <1>8, SpelledTable DEF TypeOK
  <2>2. /\ allUsers[c.id] \in User /\ answers[1].users[c.id] \in User
        /\ Spelled(allUsers[c.id]) = answers[1].users[c.id]
    <3>1. \A t \in Table : Present(t, c.id) => t[c.id] \in User
      BY <1>2, UsersTyped
    <3> QED
      BY <1>1, <1>2, <2>1, <3>1
  <2>3. allUsers' = [allUsers EXCEPT ![c.id] = [allUsers[c.id] EXCEPT !.email = c.email]]
    BY <1>1, <1>4, <2>1
  <2>4. Spelled([allUsers[c.id] EXCEPT !.email = c.email]) = New(c, answers[1].users[c.id])
    BY <1>7, <2>2
  <2>5. \A u \in Ids : Spelled(allUsers'[u]) = IF u = c.id THEN New(c, answers[1].users[u])
                                               ELSE answers[1].users[u]
    <3>1. \A u \in Ids : allUsers'[u] = IF u = c.id THEN [allUsers[c.id] EXCEPT !.email = c.email]
                                        ELSE allUsers[u]
      BY <1>2, <2>1, <2>3 DEF Table
    <3> QED
      BY <2>1, <2>4, <3>1
  <2>6. SpelledAll(allUsers)' = [u \in Ids |-> Spelled(allUsers'[u])]
    BY DEF SpelledAll
  <2> QED
    BY <1>5, <2>5, <2>6 DEF Effect
<1>9. ASSUME Spelled(detail.user) = answers[1].users[detail.id]
      PROVE  Spelled(detail.user)' = After(answers[1])[detail.id]
  <2>1. detail.user \in User /\ answers[1].users[c.id] \in User
    <3>1. \A t \in Table : Present(t, c.id) => t[c.id] \in User
      BY <1>2, UsersTyped
    <3>2. detail \in [id : Ids, user : User]
      BY <1>1 DEF TypeOK
    <3> QED
      BY <1>1, <1>2, <3>1, <3>2
  <2>2. Spelled([detail.user EXCEPT !.email = c.email]) = New(c, answers[1].users[c.id])
    BY <1>1, <1>7, <1>9, <2>1
  <2>3. After(answers[1])[c.id] = New(c, answers[1].users[c.id])
    BY <1>2, <1>5 DEF Effect
  <2>4. detail'.user = [detail.user EXCEPT !.email = c.email]
    BY <1>4
  <2> QED
    BY <1>1, <2>2, <2>3, <2>4
<1> QED
  BY <1>1, <1>4, <1>8, <1>9

LEMMA ToggleFollows ==
    ASSUME TypeOK, CallsInv, 1 \in DOMAIN answers, Toggled(1), ~Misapplied(1)
    PROVE  /\ detail'.id = detail.id
           /\ Spelled(detail.user) = answers[1].users[detail.id] =>
                Spelled(detail.user)' = After(answers[1])[detail.id]
<1> DEFINE c == answers[1].call
<1>1. /\ answers[1] \in Answers /\ CallOK(c) /\ detail # NoUser /\ detail.id = c.id
      /\ c.op = "toggle" /\ answers[1].ok /\ detail \in [id : Ids, user : User]
  BY NetworkTyped DEF CallsInv, Toggled, Misapplied, TypeOK
<1>2. c.id \in Ids
  BY <1>1 DEF CallOK, Changes
<1>3. WriteOn(~detail.user.on) /\ (~detail.user.on) \in BOOLEAN
  BY DEF Toggled
<1>4. detail'.id = detail.id /\ detail'.user = [detail.user EXCEPT !.on = ~detail.user.on]
  BY <1>1, <1>3, WritesTyped
<1>5. After(answers[1]) = Effect(c, answers[1].users)
  BY <1>1 DEF After, Changes
<1>6. \A user : New(c, user) = [user EXCEPT !.on = ~@]
  BY <1>1 DEF New
<1>7. Effect(c, answers[1].users)[c.id] = [answers[1].users[c.id] EXCEPT !.on = ~@]
  BY <1>2, <1>6 DEF Effect
<1>8. ASSUME Spelled(detail.user) = answers[1].users[detail.id]
      PROVE  Spelled(detail.user)' = After(answers[1])[detail.id]
  <2> DEFINE x == detail.user
             z == [x EXCEPT !.on = ~x.on]
             y == Spelled(x)
  <2>1. x \in User
    BY <1>1
  <2> HIDE DEF x
  <2>2. z \in User /\ z.email = x.email /\ z.on = ~x.on
    BY <2>1 DEF User
  <2>3. y \in User /\ y.on = x.on /\ y.email = Normal[x.email]
    BY <2>1, SpelledIs
  <2>4. Spelled(z) \in User /\ Spelled(z).on = ~x.on /\ Spelled(z).email = Normal[x.email]
    <3> HIDE DEF z
    <3> QED
      BY <2>2, SpelledIs
  <2>5. [y EXCEPT !.on = ~@] \in User /\ [y EXCEPT !.on = ~@].on = ~x.on
        /\ [y EXCEPT !.on = ~@].email = Normal[x.email]
    <3> HIDE DEF y
    <3> QED
      BY <2>3 DEF User
  <2>6. \A v, w \in User : v.on = w.on /\ v.email = w.email => v = w
    BY DEF User
  <2>7. Spelled(z) = [y EXCEPT !.on = ~@]
    <3> HIDE DEF y, z
    <3> QED
      BY <2>4, <2>5, <2>6
  <2>8. y = answers[1].users[c.id] /\ detail'.user = z
    BY <1>1, <1>4, <1>8 DEF x
  <2> HIDE DEF y, z
  <2> QED
    BY <1>1, <1>5, <1>7, <2>7, <2>8
<1> QED
  BY <1>4, <1>8

\* An answer that changes nothing.
LEMMA NothingFollows ==
    ASSUME NEW a, AnswerOK(a), ~a.ok \/ a.call.op \in Loads PROVE After(a) = a.users
BY DEF After, Loads, Changes

\* What is under way stays so, but for the answer that arrives.
LEMMA ArrivalLeaves ==
    ASSUME TypeOK, 1 \in DOMAIN answers, \E loads \in Followups : Then(1, loads)
    PROVE  /\ \A ops : Awaited(ops) /\ answers[1].call.op \notin ops => Awaited(ops)'
           /\ \A ops : Reloading(ops) /\ ~(answers[1].ok /\ answers[1].call.op \in ops) => Reloading(ops)'
<1> PICK loads \in Followups : Then(1, loads)
  OBVIOUS
<1>1. /\ Range(answers) \subseteq Range(answers)' \cup {answers[1]}
      /\ Under \subseteq Under' \cup {answers[1].call}
  BY FollowupsTyped, Arrives
<1> QED
  BY <1>1 DEF Awaited, Reloading

\* Loads that are sent are under way.
LEMMA LoadsFollow ==
    ASSUME TypeOK, NEW i \in DOMAIN answers
    PROVE  /\ Then(i, <<Load("dashboard", FALSE)>>) => Awaited({"dashboard"})' /\ Awaited(Loads)'
           /\ Then(i, <<Load("users", FALSE), Load("dashboard", FALSE)>>) =>
                Awaited({"users"})' /\ Awaited({"dashboard"})' /\ Awaited(Loads)'
<1>1. "users" \in Loads /\ "dashboard" \in Loads
  BY DEF Loads
<1>2. Load("users", FALSE).op = "users" /\ Load("dashboard", FALSE).op = "dashboard"
  BY <1>1, LoadsTyped
<1>3. ASSUME Then(i, <<Load("dashboard", FALSE)>>) PROVE Load("dashboard", FALSE) \in Under'
  <2>1. /\ <<Load("dashboard", FALSE)>> \in Seq(Calls)
        /\ Load("dashboard", FALSE) \in Range(<<Load("dashboard", FALSE)>>)
    BY <1>1, LoadLists
  <2>2. Range(<<Load("dashboard", FALSE)>>) \subseteq Under'
    BY <1>3, <2>1, Arrives
  <2> QED
    BY <2>1, <2>2
<1>4. ASSUME Then(i, <<Load("users", FALSE), Load("dashboard", FALSE)>>)
      PROVE  Load("dashboard", FALSE) \in Under' /\ Load("users", FALSE) \in Under'
  BY <1>4, LoadLists, Arrives
<1> QED
  BY <1>1, <1>2, <1>3, <1>4 DEF Awaited

\* A press keeps what is awaited.
LEMMA PressKeeps ==
    ASSUME TypeOK, (\E u \in Ids : QuickToggle(u)) \/ DetailButton \/ AddUser
    PROVE  /\ \A ops : Awaited(ops) => Awaited(ops)'
           /\ \A ops : Reloading(ops) => Reloading(ops)'
           /\ \A k : Before(k)' = Before(k)
           /\ UNCHANGED <<serverVars, pageVars, faults, doubtful, steady>>
<1>1. PICK c \in Calls : sent' = Append(Stale(sent), c) /\ answers' = StaleAnswers(answers)
  BY PressIsCall
<1>2. UNCHANGED <<serverVars, pageVars, faults, doubtful, steady>>
  BY PressIsCall
<1>3. /\ \A b \in Under : \E d \in Under' : SameCall(d, b)
      /\ \A a \in Range(answers) : \E b \in Range(answers)' : SameAnswer(b, a)
      /\ DOMAIN answers' = DOMAIN answers
      /\ \A k \in DOMAIN answers : SameAnswer(answers'[k], answers[k])
  BY <1>1, Presses
<1>4. \A k : Before(k)' = Before(k)
  BY <1>2, <1>3, SameAnswersLead DEF SameAnswers
<1>5. \A ops : Awaited(ops) => Awaited(ops)'
  BY <1>3 DEF Awaited, SameCall
<1>6. \A ops : Reloading(ops) => Reloading(ops)'
  BY <1>3 DEF Reloading, SameAnswer, SameCall
<1> QED
  BY <1>2, <1>4, <1>5, <1>6

\* A handled call keeps what is awaited, and the page.
LEMMA HandleKeeps ==
    ASSUME TypeOK, CallsInv, NEW i \in DOMAIN sent, Handle(i)
    PROVE  /\ Under' = Under /\ \A ops : Awaited(ops) => Awaited(ops)'
           /\ \A ops : Reloading(ops) => Reloading(ops)'
           /\ Before(1)' = Before(1)
           /\ (~doubtful' => ~doubtful) /\ UNCHANGED <<pageVars, steady>>
<1>1. PICK ok \in BOOLEAN : /\ Answer(i, ok, server)
                            /\ (~doubtful' => ~doubtful) /\ UNCHANGED <<pageVars, steady>>
  BY HandledIs
<1>2. Under' = Under /\ Range(answers) \subseteq Range(answers)'
  <2>1. server \in Table /\ ok \in BOOLEAN /\ Answer(i, ok, server)
    BY <1>1 DEF TypeOK
  <2>2. Range(answers) \subseteq Range(answers)'
    <3>1. /\ answers \in Seq(Answers) /\ answers' \in Seq(Answers)
          /\ DOMAIN answers' = 1..(Len(answers) + 1)
          /\ \A k \in DOMAIN answers : answers'[k] = answers[k]
      BY <2>1, Handles, NetworkTyped
    <3>2. \A k \in DOMAIN answers : k \in DOMAIN answers'
      BY <3>1
    <3> QED
      BY <3>1, <3>2, InRange
  <2>3. Under' = Under
    BY <2>1, Handles
  <2> QED
    BY <2>2, <2>3
<1> QED
  BY <1>1, <1>2, HandledLeads DEF Awaited, Reloading

LEMMA LookKeeps ==
    ASSUME TypeOK, CallsInv, NEW i \in DOMAIN sent, Look(i)
    PROVE  /\ \A ops : Awaited(ops) => Awaited(ops)'
           /\ \A ops : Reloading(ops) => Reloading(ops)'
           /\ \A k : Before(k)' = Before(k)
           /\ UNCHANGED <<serverVars, pageVars, answers, historyVars>>
<1>1. /\ \A b \in Under : \E d \in Under' : SameCall(d, b)
      /\ UNCHANGED <<serverVars, pageVars, answers, historyVars>>
  BY Looks
<1> QED
  BY <1>1 DEF Awaited, Reloading, Before, SameCall

\* The list is right, or will be.
LEMMA ListStep ==
    ASSUME TypeOK, CallsInv, ChainInv, FreshLoadInv, ListInv, [Next]_vars PROVE ListInv'
<1>1. ASSUME UNCHANGED <<server, allUsers, networkVars, doubtful>> PROVE ListInv'
  BY <1>1 DEF ListInv, Awaited, Reloading, Under, Back, Before
<1>2. CASE UNCHANGED vars
  BY <1>1, <1>2 DEF vars
<1>3. ASSUME NEW where \in Loads, Navigate(where) PROVE ListInv'
  <2>1. Load(where, Quiet) \in Calls /\ Load(where, Quiet).op \in Loads
    BY LoadsTyped DEF Quiet
  <2>2. Load(where, Quiet) \in Under'
    BY <1>3, <2>1, Sends DEF Navigate
  <2> QED
    BY <2>1, <2>2 DEF ListInv, Awaited
<1>4. ASSUME NEW u \in Ids, OpenDetail(u) PROVE ListInv'
  BY <1>1, <1>4 DEF OpenDetail
<1>5. ASSUME Search PROVE ListInv'
  BY <1>1, <1>5 DEF Search
<1>6. ASSUME (\E u \in Ids : QuickToggle(u)) \/ DetailButton \/ AddUser PROVE ListInv'
  BY <1>6, PressKeeps DEF ListInv
<1>7. ASSUME NEW i \in DOMAIN sent, Handle(i) PROVE ListInv'
  BY <1>7, HandleKeeps DEF ListInv
<1>8. ASSUME NEW i \in DOMAIN answers, Arrive(i) PROVE ListInv'
  <2> SUFFICES ASSUME ~doubtful' PROVE ListInv'
    BY DEF ListInv
  <2>1. /\ i = 1 /\ 1 \in DOMAIN answers /\ answers[1] \in Answers /\ AnswerOK(answers[1])
        /\ Before(1) = answers[1].users /\ Before(1)' = After(answers[1])
        /\ \E loads \in Followups : Then(1, loads)
        /\ doubtful => Loaded(1)
        /\ ~NoDetail(1)
        /\ Toggled(1) \/ EmailSaved(1) \/ Deleted(1) => ~Misapplied(1) \/ doubtful
    BY <1>8, InOrder
  <2>2. CASE Loaded(1)
    <3>1. SpelledAll(allUsers)' = answers[1].users /\ After(answers[1]) = answers[1].users
      BY <2>1, <2>2, NothingFollows DEF Loaded, AnswerOK, Plain
    <3> QED
      BY <2>1, <3>1 DEF ListInv
  <2>3. CASE Refused(1) /\ ~doubtful
    <3>1. ~answers[1].ok /\ allUsers' = allUsers
      BY <2>3 DEF Refused, Nothing
    <3>2. After(answers[1]) = answers[1].users /\ answers[1].call.op \notin Loads
      BY <2>1, <3>1, NothingFollows DEF AnswerOK
    <3> QED
      BY <2>1, <2>3, <3>1, <3>2, ArrivalLeaves DEF ListInv
  <2>4. CASE Reload(1) \/ Toggled(1) \/ Deleted(1)
    <3>1. Awaited(Loads)'
      BY <2>1, <2>4, LoadsFollow DEF Reload, Toggled, Deleted
    <3> QED
      BY <3>1 DEF ListInv
  <2>5. CASE EmailSaved(1) /\ ~doubtful
    <3>1. answers[1].call.op \notin Loads /\ answers[1].call.op \notin Changes \ {"email"}
      BY <2>5 DEF EmailSaved, Loads
    <3>2. SpelledAll(allUsers) = answers[1].users => SpelledAll(allUsers)' = After(answers[1])
      BY <2>1, <2>5, EmailFollows
    <3> QED
      BY <2>1, <2>5, <3>1, <3>2, ArrivalLeaves DEF ListInv
  <2> QED
    BY <1>8, <2>1, <2>2, <2>3, <2>4, <2>5 DEF Arrive
<1>9. ASSUME doubtful' PROVE ListInv'
  BY <1>9 DEF ListInv
<1>10. ASSUME NEW i \in DOMAIN sent, Look(i) PROVE ListInv'
  BY <1>10, LookKeeps DEF ListInv
<1> QED
  BY <1>2, <1>3, <1>4, <1>5, <1>6, <1>7, <1>8, <1>9, <1>10, Loses DEF Next, Browse

\* What the page of an arrival is like, by the answer.
LEMMA ArrivalPage ==
    ASSUME NEW i \in DOMAIN answers
    PROVE  /\ Loaded(i) => /\ UNCHANGED <<detail, panel, steady>> /\ allUsers' = answers[i].users
                           /\ answers[i].call.op \in Loads
                           /\ rows' = [rows EXCEPT ![answers[i].call.op] = answers[i].users]
           /\ Refused(i) => UNCHANGED <<pageVars, steady>> /\ ~answers[i].ok
           /\ Reload(i)  => UNCHANGED <<pageVars, steady>> /\ answers[i].call.op \in FromTable
           /\ NoDetail(i) => UNCHANGED <<pageVars, steady>>
           /\ Toggled(i) => UNCHANGED <<rows, panel, steady>> /\ answers[i].call.op = "toggle"
           /\ EmailSaved(i) => UNCHANGED <<rows, panel, steady>> /\ answers[i].call.op = "email"
           /\ Deleted(i) => panel' = "users" /\ UNCHANGED rows /\ answers[i].call.op = "delete"
BY DEF Loaded, Refused, Reload, NoDetail, Toggled, EmailSaved, Deleted, Nothing, FromTable

\* The panel shows what its answers start from.
LEMMA DetailStep ==
    ASSUME TypeOK, CallsInv, PanelInv, ChainInv, FreshLoadInv, ListInv, DetailInv, [Next]_vars
    PROVE  DetailInv'
<1>1. ASSUME UNCHANGED <<server, answers, detail, panel, doubtful, steady>> PROVE DetailInv'
  BY <1>1 DEF DetailInv, Before
<1>2. CASE UNCHANGED vars
  BY <1>1, <1>2 DEF vars
<1>3. ASSUME panel' # "user-detail" \/ ~steady' \/ doubtful' PROVE DetailInv'
  BY <1>3 DEF DetailInv
<1>4. ASSUME NEW where \in Loads, Navigate(where) PROVE DetailInv'
  BY <1>3, <1>4 DEF Navigate, Loads
<1>5. ASSUME NEW u \in Ids, OpenDetail(u) PROVE DetailInv'
  <2>1. CASE Present(allUsers, u)
    <3> SUFFICES ASSUME steady', ~doubtful' PROVE DetailInv'
      BY <1>3
    <3>1. detail' = [id |-> u, user |-> allUsers[u]] /\ Quiet /\ ~doubtful
          /\ UNCHANGED <<server, networkVars>>
      BY <1>5, <2>1 DEF OpenDetail
    <3>2. Under = {} /\ answers = <<>> /\ \A a : a \notin Range(answers)
      BY <3>1, UnderWayIs DEF Quiet
    <3>3. SpelledAll(allUsers) = Before(1)
      BY <3>1, <3>2 DEF ListInv, Awaited, Reloading
    <3>4. Before(1)' = Before(1)
      BY <3>1 DEF Before
    <3>5. detail'.id = u /\ detail'.user = allUsers[u] /\ Before(1)[u] = Spelled(allUsers[u])
      BY <3>1, <3>3, SpelledTable DEF TypeOK
    <3> QED
      BY <3>4, <3>5 DEF DetailInv
  <2>2. CASE ~Present(allUsers, u)
    <3>1. panel \in Loads /\ panel' = panel
      BY <1>5, <2>2 DEF OpenDetail
    <3> QED
      BY <1>3, <3>1 DEF Loads
  <2> QED
    BY <2>1, <2>2
<1>6. ASSUME Search PROVE DetailInv'
  BY <1>1, <1>6 DEF Search
<1>7. ASSUME (\E u \in Ids : QuickToggle(u)) \/ DetailButton \/ AddUser PROVE DetailInv'
  BY <1>7, PressKeeps DEF DetailInv
<1>8. ASSUME NEW i \in DOMAIN sent, Handle(i) PROVE DetailInv'
  BY <1>8, HandleKeeps DEF DetailInv
<1>9. ASSUME NEW i \in DOMAIN answers, Arrive(i) PROVE DetailInv'
  <2> SUFFICES ASSUME ~doubtful', panel' = "user-detail", steady' PROVE DetailInv'
    BY <1>3
  <2>1. /\ i = 1 /\ 1 \in DOMAIN answers /\ answers[1] \in Answers /\ AnswerOK(answers[1])
        /\ Before(1) = answers[1].users /\ Before(1)' = After(answers[1])
        /\ ~NoDetail(1)
        /\ Toggled(1) \/ EmailSaved(1) \/ Deleted(1) => ~Misapplied(1) \/ doubtful
        /\ doubtful => Loaded(1)
    BY <1>9, InOrder
  <2>2. CASE Deleted(1)
    BY <2>1, <2>2, ArrivalPage
  <2>3. ASSUME ~Deleted(1) PROVE panel = "user-detail" /\ steady
    BY <1>9, <2>1, <2>3, ArrivalPage DEF Arrive
  <2>4. ASSUME doubtful PROVE FALSE
    <3>1. ~steady \/ panel # "user-detail"
      BY <1>9, <2>4, Cleared
    <3>2. UNCHANGED <<panel, steady>>
      BY <2>1, <2>4, ArrivalPage
    <3> QED
      BY <3>1, <3>2
  <2>5. ASSUME ~Deleted(1) PROVE Spelled(detail.user) = answers[1].users[detail.id]
    BY <2>1, <2>3, <2>4, <2>5 DEF DetailInv
  <2>6. ~Reload(1) \/ ~answers[1].ok
    <3> SUFFICES ASSUME Reload(1) PROVE FALSE
      OBVIOUS
    <3>1. answers[1].call.op \in FromTable /\ UNCHANGED <<panel, steady>>
      BY <2>1, ArrivalPage
    <3>2. answers[1].call \in Under /\ answers[1].call.op \in Changes
      BY <2>1, <3>1, NetworkTyped DEF FromTable, Changes
    <3>3. answers[1].call.op \in FromPanel
      BY <3>1, <3>2 DEF PanelInv
    <3> QED
      BY <3>1, <3>3 DEF FromTable, FromPanel
  <2>7. CASE Loaded(1) \/ Refused(1)
    <3>1. After(answers[1]) = answers[1].users
      BY <2>1, <2>7, ArrivalPage, NothingFollows
    <3>2. UNCHANGED <<detail, panel, steady>>
      BY <2>1, <2>7, ArrivalPage
    <3>3. ~Deleted(1)
      BY <2>1, <3>2, ArrivalPage
    <3> QED
      BY <2>1, <2>5, <3>1, <3>2, <3>3 DEF DetailInv
  <2>8. CASE Toggled(1)
    <3>1. ~Deleted(1)
      BY <2>1, <2>8, ArrivalPage
    <3>2. detail'.id = detail.id /\ Spelled(detail.user)' = After(answers[1])[detail.id]
      BY <2>1, <2>4, <2>5, <2>8, <3>1, ToggleFollows
    <3> QED
      BY <2>1, <3>2 DEF DetailInv
  <2>9. CASE EmailSaved(1)
    <3>1. ~Deleted(1)
      BY <2>1, <2>9, ArrivalPage
    <3>2. detail'.id = detail.id /\ Spelled(detail.user)' = After(answers[1])[detail.id]
      BY <2>1, <2>4, <2>5, <2>9, <3>1, EmailFollows
    <3> QED
      BY <2>1, <3>2 DEF DetailInv
  <2>10. Reload(1) => answers[1].ok
    BY DEF Reload
  <2> QED
    BY <1>9, <2>1, <2>2, <2>6, <2>7, <2>8, <2>9, <2>10 DEF Arrive
<1>10. ASSUME doubtful' PROVE DetailInv'
  BY <1>3, <1>10
<1>11. ASSUME NEW i \in DOMAIN sent, Look(i) PROVE DetailInv'
  BY <1>11, LookKeeps DEF DetailInv
<1> QED
  BY <1>2, <1>4, <1>5, <1>6, <1>7, <1>8, <1>9, <1>10, <1>11, Loses DEF Next, Browse

\* The table on the screen is right, or will be.
LEMMA RowsStep ==
    ASSUME TypeOK, CallsInv, PanelInv, ChainInv, FreshLoadInv, RowsInv, [Next]_vars
    PROVE  RowsInv'
<1>1. ASSUME UNCHANGED <<server, networkVars, allUsers, rows, panel, doubtful, steady>> PROVE RowsInv'
  BY <1>1 DEF RowsInv, Awaited, Reloading, Under, Back, Before
<1>2. CASE UNCHANGED vars
  BY <1>1, <1>2 DEF vars
<1>3. ASSUME panel' \notin Loads \/ ~steady' \/ doubtful' \/ Awaited({panel})' PROVE RowsInv'
  BY <1>3 DEF RowsInv
<1>4. ASSUME NEW where \in Loads, Navigate(where) PROVE RowsInv'
  <2>1. Load(where, Quiet) \in Calls /\ Load(where, Quiet).op = where
    BY LoadsTyped DEF Quiet
  <2>2. Load(where, Quiet) \in Under' /\ panel' = where
    BY <1>4, <2>1, Sends DEF Navigate
  <2>3. Awaited({panel})'
    BY <2>1, <2>2 DEF Awaited
  <2> QED
    BY <1>3, <2>3
<1>5. ASSUME NEW u \in Ids, OpenDetail(u) PROVE RowsInv'
  <2>1. CASE Present(allUsers, u)
    BY <1>3, <1>5, <2>1 DEF OpenDetail, Loads
  <2>2. CASE ~Present(allUsers, u)
    BY <1>1, <1>5, <2>2 DEF OpenDetail
  <2> QED
    BY <2>1, <2>2
<1>6. ASSUME Search PROVE RowsInv'
  <2>1. /\ rows' = [rows EXCEPT !["users"] = allUsers] /\ panel = "users"
        /\ UNCHANGED <<server, networkVars, allUsers, panel, doubtful, steady>>
    BY <1>6 DEF Search
  <2>2. rows'["users"] = allUsers
    BY <2>1 DEF TypeOK, Loads
  <2> QED
    BY <2>1, <2>2 DEF RowsInv, Awaited, Reloading, Under, Back, Before
<1>7. ASSUME (\E u \in Ids : QuickToggle(u)) \/ DetailButton \/ AddUser PROVE RowsInv'
  BY <1>7, PressKeeps DEF RowsInv
<1>8. ASSUME NEW i \in DOMAIN sent, Handle(i) PROVE RowsInv'
  BY <1>8, HandleKeeps DEF RowsInv
<1>9. ASSUME NEW i \in DOMAIN answers, Arrive(i) PROVE RowsInv'
  <2> SUFFICES ASSUME ~doubtful', panel' \in Loads, steady' PROVE RowsInv'
    BY <1>3
  <2>1. /\ i = 1 /\ 1 \in DOMAIN answers /\ answers[1] \in Answers /\ AnswerOK(answers[1])
        /\ Before(1) = answers[1].users /\ Before(1)' = After(answers[1])
        /\ \E loads \in Followups : Then(1, loads)
        /\ ~NoDetail(1)
        /\ doubtful => Loaded(1)
    BY <1>9, InOrder
  <2>2. CASE Deleted(1)
    <3>1. panel' = "users" /\ Then(1, <<Load("users", FALSE), Load("dashboard", FALSE)>>)
      BY <2>2 DEF Deleted
    <3>2. Awaited({"users"})'
      BY <2>1, <3>1, LoadsFollow
    <3> QED
      BY <1>3, <3>1, <3>2
  <2>3. CASE Reload(1)
    <3>1. Awaited({"users"})' /\ Awaited({"dashboard"})'
      BY <2>1, <2>3, LoadsFollow DEF Reload
    <3> QED
      BY <1>3, <3>1 DEF Loads
  <2>4. ASSUME Toggled(1) \/ EmailSaved(1) PROVE FALSE
    <3>1. panel \in Loads /\ steady /\ answers[1].call.op \in {"toggle", "email"}
      BY <2>1, <2>4, ArrivalPage
    <3>2. answers[1].call \in Under /\ answers[1].call.op \in Changes /\ panel # "user-detail"
      BY <2>1, <3>1, NetworkTyped DEF Changes, Loads
    <3>3. answers[1].call.op \in FromTable
      BY <3>1, <3>2 DEF PanelInv
    <3> QED
      BY <3>1, <3>3 DEF FromTable
  <2>5. CASE Refused(1) /\ ~doubtful
    <3>1. UNCHANGED <<pageVars, steady>> /\ ~answers[1].ok
      BY <2>1, <2>5, ArrivalPage
    <3>2. After(answers[1]) = answers[1].users /\ answers[1].call.op \notin Loads
      BY <2>1, <3>1, NothingFollows DEF AnswerOK
    <3> QED
      BY <2>1, <2>5, <3>1, <3>2, ArrivalLeaves DEF RowsInv
  <2>6. CASE Loaded(1)
    <3>1. /\ UNCHANGED <<detail, panel, steady>> /\ allUsers' = answers[1].users
          /\ answers[1].call.op \in Loads
          /\ rows' = [rows EXCEPT ![answers[1].call.op] = answers[1].users]
          /\ SpelledAll(answers[1].users) = answers[1].users
      BY <2>1, <2>6, ArrivalPage DEF AnswerOK, Plain
    <3>2. After(answers[1]) = answers[1].users /\ answers[1].call.op \notin FromTable
      BY <2>1, <3>1, NothingFollows DEF Loads, FromTable
    <3>3. DOMAIN rows = Loads
      BY DEF TypeOK
    <3>4. CASE answers[1].call.op = panel
      <4>1. rows'[panel] = answers[1].users
        BY <3>1, <3>3, <3>4
      <4> QED
        BY <2>1, <3>1, <3>2, <4>1 DEF RowsInv
    <3>5. CASE answers[1].call.op # panel
      <4>1. rows'[panel] = rows[panel]
        BY <3>1, <3>3, <3>5
      <4>2. Awaited({panel}) => Awaited({panel})'
        BY <2>1, <3>1, <3>5, ArrivalLeaves
      <4>3. CASE doubtful
        <5>1. /\ Awaited({panel}) \/ (SpelledAll(rows[panel]) = server /\ SpelledAll(allUsers) = server)
              /\ After(answers[1]) = server
          BY <1>9, <2>1, <3>1, <4>3, Cleared
        <5> QED
          BY <2>1, <3>1, <3>2, <4>1, <4>2, <5>1 DEF RowsInv
      <4>4. CASE ~doubtful
        <5>1. Reloading(FromTable) => Reloading(FromTable)'
          BY <2>1, <3>2, ArrivalLeaves
        <5> QED
          BY <2>1, <3>1, <3>2, <4>1, <4>2, <4>4, <5>1 DEF RowsInv
      <4> QED
        BY <4>3, <4>4
    <3> QED
      BY <3>4, <3>5
  <2> QED
    BY <1>9, <2>1, <2>2, <2>3, <2>4, <2>5, <2>6 DEF Arrive
<1>10. ASSUME doubtful' PROVE RowsInv'
  BY <1>3, <1>10
<1>11. ASSUME NEW i \in DOMAIN sent, Look(i) PROVE RowsInv'
  BY <1>11, LookKeeps DEF RowsInv
<1> QED
  BY <1>2, <1>4, <1>5, <1>6, <1>7, <1>8, <1>9, <1>10, <1>11, Loses DEF Next, Browse

-----------------------------------------------------------------------------
(***************************************************************************)
(* What is sent in quiet.                                                  *)
(***************************************************************************)
FreshLoads == \E c \in Under : c.op \in Loads /\ c.fresh

\* In quiet, the table on the screen and the list are what the backend has, or
\* known not to be.
LEMMA FreshLoadStep ==
    ASSUME TypeOK, CallsInv, FreshLoadInv, [Next]_vars PROVE FreshLoadInv'
<1>1. \A c \in Under : (c.op \in Loads) = (c.op \notin Changes)
  BY NetworkTyped, CallFields
<1>2. "user-detail" \notin Loads
  BY DEF Loads
<1>3. ASSUME ~FreshLoads' PROVE FreshLoadInv'
  BY <1>3 DEF FreshLoadInv, FreshLoads
<1>4. ASSUME FreshLoads
      PROVE  /\ \A c \in Under : c.op \in Loads
             /\ \A a \in Range(answers) : a.users = server
             /\ panel \in Loads => \/ Awaited({panel})
                                   \/ (SpelledAll(rows[panel]) = server /\ SpelledAll(allUsers) = server)
             /\ panel = "user-detail" => ~steady
             /\ ~Quiet
  <2>1. Under # {}
    BY <1>4 DEF FreshLoads
  <2> QED
    BY <1>4, <2>1, UnderWayIs DEF FreshLoadInv, FreshLoads
<1>5. CASE UNCHANGED vars
  BY <1>5 DEF vars, FreshLoadInv, Awaited, Under, Back
<1>6. ASSUME NEW where \in Loads, Navigate(where) PROVE FreshLoadInv'
  <2> DEFINE c == Load(where, Quiet)
  <2>1. Quiet \in BOOLEAN
    BY DEF Quiet
  <2>2. c \in Calls /\ c.op = where /\ c.fresh = Quiet
    BY <2>1, LoadsTyped
  <2> HIDE DEF c
  <2>3. Under' = Under \cup {c} /\ Range(answers)' = Range(answers) /\ server' = server /\ panel' = where
    BY <1>6, <2>2, Sends DEF Navigate, c
  <2>4. Awaited({panel})' /\ panel' # "user-detail"
    BY <1>2, <2>2, <2>3 DEF Awaited
  <2>5. CASE Quiet
    <3>1. Under = {} /\ \A a \in Range(answers) : FALSE
      BY <2>5, UnderWayIs
    <3> QED
      BY <2>2, <2>3, <2>4, <3>1 DEF FreshLoadInv
  <2>6. CASE ~Quiet
    <3> SUFFICES ASSUME FreshLoads' PROVE FreshLoadInv'
      BY <1>3
    <3>1. FreshLoads
      BY <2>2, <2>3, <2>6 DEF FreshLoads
    <3> QED
      BY <1>4, <2>2, <2>3, <2>4, <3>1 DEF FreshLoadInv
  <2> QED
    BY <2>5, <2>6
<1>7. ASSUME NEW u \in Ids, OpenDetail(u) PROVE FreshLoadInv'
  <2>1. UNCHANGED <<server, rows, allUsers, networkVars>> /\ panel \in Loads
    BY <1>7 DEF OpenDetail
  <2>2. (panel' = "user-detail" /\ steady' = (Quiet /\ ~doubtful)) \/ panel' = panel
    BY <1>7 DEF OpenDetail
  <2>3. FreshLoads' = FreshLoads
    BY <2>1 DEF FreshLoads, Under, Back
  <2> SUFFICES ASSUME FreshLoads PROVE FreshLoadInv'
    BY <1>3, <2>3
  <2>4. CASE panel' = "user-detail" /\ steady' = (Quiet /\ ~doubtful)
    BY <1>2, <1>4, <2>1, <2>4 DEF FreshLoadInv, Under, Back
  <2>5. CASE panel' = panel
    BY <1>2, <1>4, <2>1, <2>5 DEF FreshLoadInv, Awaited, Under, Back
  <2> QED
    BY <2>2, <2>4, <2>5
<1>8. ASSUME Search PROVE FreshLoadInv'
  <2>1. /\ rows' = [rows EXCEPT !["users"] = allUsers] /\ panel = "users"
        /\ UNCHANGED <<server, networkVars, allUsers, panel, steady>>
    BY <1>8 DEF Search
  <2>2. rows'["users"] = allUsers
    BY <2>1 DEF TypeOK, Loads
  <2> QED
    BY <2>1, <2>2 DEF FreshLoadInv, Awaited, Under, Back
<1>9. ASSUME (\E u \in Ids : QuickToggle(u)) \/ DetailButton \/ AddUser PROVE FreshLoadInv'
  <2>1. PICK c \in Calls : sent' = Append(Stale(sent), c) /\ answers' = StaleAnswers(answers) /\ c.op \in Changes
    BY <1>9, PressIsCall
  <2>2. \A d \in Under' : d = c \/ ~d.fresh
    BY <2>1, Presses
  <2>3. c.op \notin Loads
    BY <2>1, CallFields
  <2> QED
    BY <1>3, <2>2, <2>3 DEF FreshLoads
<1>10. ASSUME NEW i \in DOMAIN sent, Handle(i) PROVE FreshLoadInv'
  <2> SUFFICES ASSUME FreshLoads' PROVE FreshLoadInv'
    BY <1>3
  <2>1. Under' = Under /\ UNCHANGED <<pageVars, steady>>
    BY <1>10, HandleKeeps
  <2>2. FreshLoads
    BY <2>1 DEF FreshLoads
  <2>3. sent[i].op \notin Changes
    BY <1>1, <1>4, <2>2, NetworkTyped
  <2>4. Answer(i, TRUE, server) /\ server' = server
    BY <1>10, <2>3 DEF Handle, HandleLoad, Accept, Reject
  <2>5. Range(answers)' = Range(answers) \cup {[call |-> sent[i], ok |-> TRUE, users |-> server]}
    <3>1. server \in Table
      BY DEF TypeOK
    <3> QED
      BY <2>4, <3>1, Handles
  <2>6. \A a \in Range(answers)' : a.users = server'
    BY <1>4, <2>2, <2>4, <2>5
  <2>7. \A ops : Awaited(ops) => Awaited(ops)'
    BY <2>1 DEF Awaited
  <2> QED
    BY <1>4, <2>1, <2>2, <2>4, <2>6, <2>7 DEF FreshLoadInv
<1>11. ASSUME NEW i \in DOMAIN answers, Arrive(i) PROVE FreshLoadInv'
  <2> SUFFICES ASSUME FreshLoads' PROVE FreshLoadInv'
    BY <1>3
  <2>1. PICK loads \in Followups : Then(i, loads) /\ server' = server
    BY <1>11, ArrivalIsThen
  <2>2. loads \in Seq(Calls) /\ \A c \in Range(loads) : c.op \in Loads /\ ~c.fresh
    BY FollowupsTyped
  <2>3. /\ Under' \subseteq Under \cup Range(loads) /\ Under \subseteq Under' \cup {answers[i].call}
        /\ Range(answers)' \subseteq Range(answers)
    BY <2>1, <2>2, Arrives
  <2>4. FreshLoads
    BY <2>2, <2>3 DEF FreshLoads
  <2>5. /\ answers[i].call \in Under /\ answers[i] \in Range(answers) /\ answers[i].call.op \in Loads
        /\ answers[i].ok
    BY <1>4, <2>4, NetworkTyped DEF CallsInv, AnswerOK
  <2>6. Loaded(i)
    BY <1>11, <2>5 DEF Arrive, Refused, Reload, NoDetail, Toggled, EmailSaved, Deleted, Loads
  <2>7. /\ UNCHANGED <<detail, panel, steady>> /\ allUsers' = server
        /\ rows' = [rows EXCEPT ![answers[i].call.op] = server]
    BY <1>4, <2>4, <2>5, <2>6, ArrivalPage
  <2>8. \A c \in Under' : c.op \in Loads
    BY <1>4, <2>2, <2>3, <2>4
  <2>9. \A a \in Range(answers)' : a.users = server'
    BY <1>4, <2>1, <2>3, <2>4
  <2>10. SpelledAll(server) = server
    BY DEF CallsInv, Plain
  <2>11. ASSUME panel \in Loads PROVE Awaited({panel})' \/ SpelledAll(rows'[panel]) = server
    <3>1. DOMAIN rows = Loads
      BY DEF TypeOK
    <3>2. CASE answers[i].call.op = panel
      BY <2>7, <2>10, <2>11, <3>1, <3>2
    <3>3. CASE answers[i].call.op # panel
      <4>1. rows'[panel] = rows[panel]
        BY <2>7, <2>11, <3>1, <3>3
      <4>2. Awaited({panel}) => Awaited({panel})'
        BY <2>3, <2>7, <3>3 DEF Awaited
      <4> QED
        BY <1>4, <2>4, <2>11, <4>1, <4>2
    <3> QED
      BY <3>2, <3>3
  <2> QED
    BY <1>4, <2>1, <2>4, <2>7, <2>8, <2>9, <2>10, <2>11 DEF FreshLoadInv
<1>12. ASSUME \/ \E i \in DOMAIN sent : LoseCall(i)
              \/ \E i \in DOMAIN answers : LoseAnswer(i)
              \/ OtherAdmin
       PROVE  FreshLoadInv'
  BY <1>3, <1>12, Loses DEF FreshLoads
<1>13. ASSUME NEW i \in DOMAIN sent, Look(i) PROVE FreshLoadInv'
  <2> SUFFICES ASSUME FreshLoads' PROVE FreshLoadInv'
    BY <1>3
  <2>1. /\ \A d \in Under' : \E b \in Under : SameCall(d, b) /\ d.fresh = b.fresh
        /\ sent[i].op \in Changes
    BY <1>13, Looks
  <2>2. FreshLoads
    BY <2>1 DEF FreshLoads, SameCall
  <2> QED
    BY <1>1, <1>4, <2>1, <2>2, NetworkTyped
<1> QED
  BY <1>5, <1>6, <1>7, <1>8, <1>9, <1>10, <1>11, <1>12, <1>13 DEF Next, Browse

\* A change that was pressed in quiet stays alone until it is handled, and the
\* account is as the button said.
LEMMA FreshChangeStep ==
    ASSUME TypeOK, CallsInv, FreshChangeInv, DetailInv, RowsInv, [Next]_vars PROVE FreshChangeInv'
<1>1. /\ DOMAIN sent = 1..Len(sent) /\ Len(sent) \in Nat
      /\ \A i \in DOMAIN sent : sent[i] \in Under /\ (sent[i].op \in Loads) = (sent[i].op \notin Changes)
  BY NetworkTyped, CallFields
<1>2. ASSUME \A k \in DOMAIN sent' : ~sent'[k].fresh \/ sent'[k].op \notin Changes PROVE FreshChangeInv'
  BY <1>2 DEF FreshChangeInv
<1>3. ASSUME UNCHANGED <<server, networkVars>> PROVE FreshChangeInv'
  BY <1>3 DEF FreshChangeInv, Back
<1>4. CASE UNCHANGED vars
  BY <1>3, <1>4 DEF vars
<1>5. ASSUME NEW where \in Loads, Navigate(where) PROVE FreshChangeInv'
  <2> DEFINE c == Load(where, Quiet)
  <2>1. c \in Calls /\ c.op \in Loads
    BY LoadsTyped DEF Quiet
  <2>2. c.op \notin Changes
    BY <2>1, CallFields
  <2>3. sent' = Append(sent, c) /\ answers' = answers /\ server' = server
    BY <1>5 DEF Navigate
  <2> HIDE DEF c
  <2>4. /\ DOMAIN sent' = 1..(Len(sent) + 1) /\ sent'[Len(sent) + 1] = c
        /\ \A i \in DOMAIN sent : sent'[i] = sent[i]
        /\ Back' = Back
    BY <2>1, <2>3, Sends
  <2>5. \A k \in DOMAIN sent' : k \in DOMAIN sent \/ sent'[k] = c
    BY <1>1, <2>4
  <2> QED
    BY <2>1, <2>2, <2>3, <2>4, <2>5 DEF FreshChangeInv
<1>6. ASSUME NEW u \in Ids, OpenDetail(u) PROVE FreshChangeInv'
  BY <1>3, <1>6 DEF OpenDetail
<1>7. ASSUME Search PROVE FreshChangeInv'
  BY <1>3, <1>7 DEF Search
<1>8. ASSUME (\E u \in Ids : QuickToggle(u)) \/ DetailButton \/ AddUser PROVE FreshChangeInv'
  <2>1. PICK c \in Calls :
          /\ sent' = Append(Stale(sent), c) /\ answers' = StaleAnswers(answers)
          /\ c.op \in Changes /\ CallOK(c) /\ c.fresh = (Quiet /\ steady /\ ~doubtful) /\ c.seen = NoUser
          /\ IF panel = "user-detail" THEN c.op \in FromPanel /\ c.id = detail.id
             ELSE panel = "users" /\ c.op \in FromTable
          /\ c.op = "quickToggle" => Present(rows["users"], c.id) /\ c.wants = ~rows["users"][c.id].on
          /\ c.op = "toggle" => c.wants = ~detail.user.on
    BY <1>8, PressIsCall
  <2>2. server' = server
    BY <1>8, PressIsCall
  <2>3. /\ DOMAIN sent' = 1..(Len(sent) + 1) /\ sent'[Len(sent) + 1] = c
        /\ \A i \in DOMAIN sent : ~sent'[i].fresh
        /\ \A d \in Back' : \E b \in Back : SameCall(d, b)
    BY <2>1, Presses
  <2>4. CASE ~c.fresh
    <3>1. \A k \in DOMAIN sent' : ~sent'[k].fresh
      BY <1>1, <2>3, <2>4
    <3> QED
      BY <1>2, <3>1
  <2>5. CASE c.fresh
    <3>1. Quiet /\ steady /\ ~doubtful
      BY <2>1, <2>5
    <3>2. /\ Under = {} /\ \A a \in Range(answers) : FALSE
          /\ Before(1) = server /\ Len(sent) = 0 /\ Back = {}
      BY <3>1, UnderWayIs DEF Quiet, Before, Under
    <3>3. DOMAIN sent' = {1} /\ sent'[1] = c /\ Back' = {}
      BY <2>3, <3>2
    <3>4. ASSUME c.op = "quickToggle"
          PROVE  Present(server, c.id) /\ server[c.id].on = ~c.wants
      <4>1. panel = "users" /\ panel \in Loads
        BY <2>1, <3>4 DEF FromPanel, Loads
      <4>2. SpelledAll(rows["users"]) = server
        BY <3>1, <3>2, <4>1 DEF RowsInv, Awaited, Reloading
      <4>3. /\ c.id \in Ids /\ rows["users"] \in Table /\ Present(rows["users"], c.id)
            /\ c.wants = ~rows["users"][c.id].on
        BY <2>1, <3>4, <4>1 DEF CallOK, TypeOK
      <4>4. rows["users"][c.id] \in User /\ server[c.id] = Spelled(rows["users"][c.id])
            /\ Present(server, c.id)
        <5>1. /\ SpelledAll(rows["users"])[c.id] = Spelled(rows["users"][c.id])
              /\ Present(SpelledAll(rows["users"]), c.id)
          BY <4>3, SpelledTable
        <5>2. rows["users"][c.id] \in User
          BY <4>3, UsersTyped
        <5> QED
          BY <4>2, <5>1, <5>2
      <4>5. server[c.id].on = rows["users"][c.id].on /\ rows["users"][c.id].on \in BOOLEAN
        BY <4>4, SpelledIs DEF User
      <4> QED
        BY <4>3, <4>4, <4>5
    <3>5. ASSUME c.op = "toggle"
          PROVE  Present(server, c.id) /\ server[c.id].on = ~c.wants
      <4>1. panel = "user-detail" /\ c.id = detail.id /\ c.wants = ~detail.user.on
        BY <2>1, <3>5 DEF FromTable
      <4>2. detail \in [id : Ids, user : User] /\ server \in Table
        BY <4>1 DEF TypeOK
      <4>3. Spelled(detail.user) = server[detail.id] /\ detail.user \in User /\ detail.id \in Ids
        BY <3>1, <3>2, <4>1, <4>2 DEF DetailInv
      <4>4. server[detail.id].on = detail.user.on /\ detail.user.on \in BOOLEAN /\ server[detail.id] \in User
        BY <4>3, SpelledIs DEF User
      <4>5. Present(server, detail.id)
        BY <4>4, ConstantsAssumption DEF Present
      <4> QED
        BY <4>1, <4>4, <4>5
    <3> QED
      BY <2>1, <2>2, <3>3, <3>4, <3>5 DEF FreshChangeInv, Toggles
  <2> QED
    BY <2>4, <2>5
<1>9. ASSUME NEW i \in DOMAIN sent, Handle(i) PROVE FreshChangeInv'
  <2>1. PICK ok \in BOOLEAN : /\ Answer(i, ok, server)
                              /\ ~(ok /\ sent[i].op \in Changes) => server' = server
    BY <1>9, HandledIs
  <2>2. server \in Table /\ ok \in BOOLEAN /\ Answer(i, ok, server)
    BY <2>1 DEF TypeOK
  <2>3. /\ Back' = Back \cup {sent[i]}
        /\ \A k \in DOMAIN sent' : sent'[k] = sent[Past(i, k)]
        /\ \A k \in DOMAIN sent' : k \in DOMAIN sent /\ k + 1 \in DOMAIN sent
        /\ sent' \in Seq(Calls)
    <3>1. Back' = Back \cup {sent[i]}
      <4> DEFINE a == [call |-> sent[i], ok |-> ok, users |-> server]
      <4>1. sent[i] \in Calls /\ answers \in Seq(Answers) /\ ok \in BOOLEAN
        BY <2>2, NetworkTyped
      <4>2. a \in Answers /\ a.call = sent[i]
        BY <2>2, <4>1 DEF Answers
      <4>3. answers' = Append(answers, a)
        BY <2>2 DEF Answer
      <4> HIDE DEF a
      <4>4. Range(answers)' = Range(answers) \cup {a}
        BY <4>1, <4>2, <4>3, Appended
      <4> QED
        BY <4>2, <4>4 DEF Back
    <3>2. sent' = RemoveAt(sent, i) /\ sent \in Seq(Calls) /\ RemoveAt(sent, i) \in Seq(Calls)
      BY <2>2, NetworkTyped, Removed DEF Answer
    <3>3. ASSUME NEW k \in DOMAIN RemoveAt(sent, i)
          PROVE  RemoveAt(sent, i)[k] = sent[Past(i, k)] /\ k \in DOMAIN sent /\ k + 1 \in DOMAIN sent
      BY <3>2, RemovedAt
    <3> QED
      BY <3>1, <3>2, <3>3
  <2>4. \A k \in DOMAIN sent' : Past(i, k) \in DOMAIN sent /\ Past(i, k) # i /\ sent'[k] = sent[Past(i, k)]
    BY <1>1, <2>3 DEF Past
  <2>5. \A j, k \in DOMAIN sent' : j # k => Past(i, j) # Past(i, k)
    BY <1>1, <2>3 DEF Past
  <2> SUFFICES ASSUME NEW k \in DOMAIN sent', sent'[k].fresh, sent'[k].op \in Changes
               PROVE  /\ \A j \in DOMAIN sent' : j # k => sent'[j].op \in Loads
                      /\ \A c \in Back' : c.op \in Loads
                      /\ sent'[k].op \in Toggles =>
                           /\ Present(server', sent'[k].id) /\ server'[sent'[k].id].on = ~sent'[k].wants
                           /\ sent'[k].seen \in {NoUser, server'[sent'[k].id]}
    BY DEF FreshChangeInv, Present
  <2>6. /\ \A j \in DOMAIN sent : j # Past(i, k) => sent[j].op \in Loads
        /\ \A c \in Back : c.op \in Loads
        /\ sent[Past(i, k)].op \in Toggles =>
             /\ Present(server, sent[Past(i, k)].id) /\ server[sent[Past(i, k)].id].on = ~sent[Past(i, k)].wants
             /\ sent[Past(i, k)].seen \in {NoUser, server[sent[Past(i, k)].id]}
    BY <2>4 DEF FreshChangeInv
  <2>7. sent[i].op \in Loads /\ server' = server
    BY <1>1, <2>1, <2>4, <2>6
  <2>8. \A j \in DOMAIN sent' : j # k => sent'[j].op \in Loads
    BY <2>4, <2>5, <2>6
  <2> QED
    BY <2>3, <2>4, <2>6, <2>7, <2>8
<1>10. ASSUME NEW i \in DOMAIN answers, Arrive(i) PROVE FreshChangeInv'
  <2>1. PICK loads \in Followups : Then(i, loads) /\ server' = server
    BY <1>10, ArrivalIsThen
  <2>2. loads \in Seq(Calls) /\ \A c \in Range(loads) : c \in Calls /\ c.op \in Loads
    BY FollowupsTyped
  <2>3. /\ Back' \subseteq Back
        /\ \A k \in DOMAIN sent : k \in DOMAIN sent' /\ sent'[k] = sent[k]
        /\ \A k \in DOMAIN sent' : k \in DOMAIN sent \/ sent'[k] \in Range(loads)
    BY <2>1, <2>2, Arrives
  <2>4. \A c \in Range(loads) : c.op \notin Changes
    BY <2>2, CallFields
  <2> QED
    BY <2>1, <2>2, <2>3, <2>4 DEF FreshChangeInv
<1>11. ASSUME \/ \E i \in DOMAIN sent : LoseCall(i)
              \/ \E i \in DOMAIN answers : LoseAnswer(i)
              \/ OtherAdmin
       PROVE  FreshChangeInv'
  BY <1>2, <1>11, Loses
<1>12. ASSUME NEW i \in DOMAIN sent, Look(i) PROVE FreshChangeInv'
  <2>1. /\ DOMAIN sent' = DOMAIN sent /\ server' = server /\ Back' = Back
        /\ \A k \in DOMAIN sent : /\ SameCall(sent'[k], sent[k]) /\ sent'[k].fresh = sent[k].fresh
                                  /\ sent'[k].seen \in {sent[k].seen, server[sent[k].id]}
    BY <1>12, Looks
  <2> QED
    BY <2>1 DEF FreshChangeInv, SameCall
<1> QED
  BY <1>4, <1>5, <1>6, <1>7, <1>8, <1>9, <1>10, <1>11, <1>12 DEF Next, Browse

-----------------------------------------------------------------------------
(***************************************************************************)
(* The theorems.                                                           *)
(***************************************************************************)
PageInv == /\ TypeOK /\ CallsInv /\ PanelInv /\ ChainInv /\ SettledInv
           /\ ListInv /\ DetailInv /\ RowsInv /\ FreshLoadInv /\ FreshChangeInv

LEMMA PageInit == ASSUME Init PROVE PageInv
<1> DEFINE c == Load("dashboard", TRUE)
<1>1. c \in Calls /\ c.op = "dashboard" /\ CallOK(c) /\ "dashboard" \in Loads
  BY LoadsTyped DEF Loads
<1> HIDE DEF c
<1>2. /\ server \in Table /\ used \subseteq Ids /\ sent = <<c>> /\ answers = <<>>
      /\ detail = NoUser /\ panel = "dashboard" /\ clicks = 0 /\ faults = 0
      /\ doubtful = FALSE /\ steady = TRUE
      /\ allUsers = [u \in Ids |-> NoUser] /\ rows = [t \in Loads |-> allUsers]
  BY DEF Init, c
<1>3. Range(sent) = {c} /\ Range(answers) = {} /\ DOMAIN answers = {} /\ DOMAIN sent = {1} /\ sent[1] = c
  BY <1>2 DEF Range
<1>4. Under = {c} /\ Back = {}
  BY <1>3 DEF Under, Back
<1>5. c.op \in Loads /\ c.op \notin Changes /\ panel # "user-detail" /\ c.op \in {panel}
  BY <1>1, <1>2 DEF Loads, Changes
<1>6. TypeOK
  <2>1. sent \in Seq(Calls) /\ answers \in Seq(Answers)
    BY <1>1, <1>2
  <2>2. clicks \in 0..MaxClicks /\ faults \in 0..MaxFaults
    BY <1>2, ConstantsAssumption
  <2>3. allUsers \in Table /\ rows \in [Loads -> Table]
    BY <1>2 DEF Table
  <2> QED
    BY <1>1, <1>2, <1>5, <2>1, <2>2, <2>3 DEF TypeOK
<1>7. CallsInv /\ PanelInv
  <2>1. Plain(server)
    BY DEF Init, Plain
  <2> QED
    BY <1>1, <1>3, <1>4, <1>5, <2>1 DEF CallsInv, PanelInv
<1>8. ChainInv /\ SettledInv
  BY <1>3 DEF ChainInv, SettledInv
<1>9. ListInv /\ DetailInv /\ RowsInv
  BY <1>4, <1>5 DEF ListInv, DetailInv, RowsInv, Awaited
<1>10. FreshLoadInv
  BY <1>3, <1>4, <1>5 DEF FreshLoadInv, Awaited
<1>11. FreshChangeInv
  BY <1>3, <1>5 DEF FreshChangeInv
<1> QED
  BY <1>6, <1>7, <1>8, <1>9, <1>10, <1>11 DEF PageInv

LEMMA PageStep == ASSUME PageInv, [Next]_vars PROVE PageInv'
<1> USE DEF PageInv
<1>1. TypeOK' /\ CallsInv'
  BY TypesStep
<1>2. PanelInv'
  BY PanelStep
<1>3. ChainInv' /\ SettledInv'
  BY ChainStep
<1>4. ListInv' /\ DetailInv' /\ RowsInv'
  BY ListStep, DetailStep, RowsStep
<1>5. FreshLoadInv' /\ FreshChangeInv'
  BY FreshLoadStep, FreshChangeStep
<1> QED
  BY <1>1, <1>2, <1>3, <1>4, <1>5

LEMMA PageInvariant == Spec => []PageInv
BY PageInit, PageStep, PTL DEF Spec

\* The page keeps accounts, the list of them and a panel, and the network calls
\* and answers of the forms the handlers know (index.html, main.py).
THEOREM PageTypesHold == Spec => []TypeOK
<1>1. PageInv => TypeOK
  BY DEF PageInv
<1> QED
  BY <1>1, PageInvariant, PTL

\* Once all is answered, the list the page keeps is the list of the backend, but
\* for the spelling of typed addresses: no button forgets to load it, or to write
\* to it what it has changed.
THEOREM ListIsRight == Spec => []ListRight
<1>1. ASSUME PageInv PROVE ListRight
  <2> SUFFICES ASSUME Quiet, ~doubtful PROVE SpelledAll(allUsers) = server
    BY DEF ListRight
  <2>1. Under = {} /\ answers = <<>> /\ \A a \in Range(answers) : FALSE
    BY <1>1, UnderWayIs DEF PageInv, Quiet
  <2> QED
    BY <1>1, <2>1 DEF PageInv, ListInv, Awaited, Reloading, Before
<1> QED
  BY <1>1, PageInvariant, PTL

\* Once its changes are answered, the detail panel shows the account as the
\* backend has it, although it loads nothing: it inverts and writes its own copy.
THEOREM DetailIsRight == Spec => []DetailRight
<1>1. ASSUME PageInv PROVE DetailRight
  <2> SUFFICES ASSUME panel = "user-detail", steady, NoChanges, ~doubtful
               PROVE  server[detail.id] = Spelled(detail.user)
    BY DEF DetailRight
  <2>1. TypeOK /\ SettledInv /\ DetailInv
    BY <1>1 DEF PageInv
  <2>2. \A m \in DOMAIN answers : answers[m].call.op \in Loads
    BY <2>1, UnderWayIs, NetworkTyped
  <2>3. Before(1) = server
    BY <2>1, <2>2 DEF SettledInv, Before
  <2> QED
    BY <2>1, <2>3 DEF DetailInv
<1> QED
  BY <1>1, PageInvariant, PTL

\* In quiet, the table on the screen is what the backend has, although it is
\* drawn from a load only.
THEOREM RowsAreRight == Spec => []RowsRight
<1>1. ASSUME PageInv PROVE RowsRight
  <2> SUFFICES ASSUME panel \in Loads, steady, Quiet, ~doubtful PROVE SpelledAll(rows[panel]) = server
    BY DEF RowsRight
  <2>1. Under = {} /\ answers = <<>> /\ \A a \in Range(answers) : FALSE
    BY <1>1, UnderWayIs DEF PageInv, Quiet
  <2> QED
    BY <1>1, <2>1 DEF PageInv, RowsInv, Awaited, Reloading, Before
<1> QED
  BY <1>1, PageInvariant, PTL

\* Only a handled call adds an answer.
LEMMA AnsweredIsHandled ==
    ASSUME TypeOK, CallsInv, [Next]_vars, Len(answers') > Len(answers)
    PROVE  \E i \in DOMAIN sent : Handle(i)
<1>1. answers \in Seq(Answers) /\ Len(answers) \in Nat
  BY NetworkTyped
<1>2. ASSUME NEW n \in Nat, n <= Len(answers), Len(answers') = n PROVE FALSE
  BY <1>1, <1>2
<1>3. ASSUME answers' = answers PROVE FALSE
  BY <1>1, <1>3
<1>4. ASSUME NEW s \in Seq(Answers), Len(s) <= Len(answers), answers' = StaleAnswers(s) PROVE FALSE
  <2>1. Len(answers') = Len(s) /\ Len(s) \in Nat
    BY <1>4, StaledAnswers
  <2> QED
    BY <1>2, <1>4, <2>1
<1>5. \A i \in DOMAIN answers : /\ RemoveAt(answers, i) \in Seq(Answers)
                                /\ Len(RemoveAt(answers, i)) = Len(answers) - 1
                                /\ Len(RemoveAt(answers, i)) <= Len(answers)
  <2>1. \A i \in DOMAIN answers : /\ RemoveAt(answers, i) \in Seq(Answers)
                                  /\ Len(RemoveAt(answers, i)) = Len(answers) - 1
    BY <1>1, Removed
  <2> QED
    BY <1>1, <2>1
<1>6. CASE UNCHANGED vars
  BY <1>3, <1>6 DEF vars
<1>7. ASSUME \/ \E where \in Loads : Navigate(where)
             \/ \E u \in Ids : OpenDetail(u)
             \/ Search
      PROVE  FALSE
  BY <1>3, <1>7 DEF Navigate, OpenDetail, Search
<1>8. ASSUME (\E u \in Ids : QuickToggle(u)) \/ DetailButton \/ AddUser PROVE FALSE
  <2>1. answers' = StaleAnswers(answers)
    BY <1>8, PressIsCall
  <2> QED
    BY <1>1, <1>4, <2>1
<1>9. ASSUME NEW i \in DOMAIN answers, Arrive(i) PROVE FALSE
  <2>1. answers' = RemoveAt(answers, i)
    BY <1>9, ArrivalIsThen DEF Then
  <2> QED
    BY <1>1, <1>5, <2>1
<1>10. ASSUME (\E i \in DOMAIN sent : LoseCall(i)) \/ OtherAdmin PROVE FALSE
  <2>1. answers' = StaleAnswers(answers)
    BY <1>10 DEF LoseCall, OtherAdmin
  <2> QED
    BY <1>1, <1>4, <2>1
<1>11. ASSUME NEW i \in DOMAIN answers, LoseAnswer(i) PROVE FALSE
  <2>1. answers' = StaleAnswers(RemoveAt(answers, i))
    BY <1>11 DEF LoseAnswer
  <2> QED
    BY <1>4, <1>5, <2>1
<1>12. ASSUME NEW i \in DOMAIN sent, Look(i) PROVE FALSE
  BY <1>3, <1>12 DEF Look
<1> QED
  BY <1>6, <1>7, <1>8, <1>9, <1>10, <1>11, <1>12 DEF Next, Browse

\* A change that was sent in quiet is one of a kind, so that what is left of the
\* calls tells which was handled.
LEMMA OnlyOne ==
    ASSUME TypeOK, FreshChangeInv, NEW i \in DOMAIN sent, NEW j \in DOMAIN sent,
           RemoveAt(sent, i) = RemoveAt(sent, j), sent[i].fresh, sent[i].op \in Changes
    PROVE  i = j
<1>1. /\ sent \in Seq(Calls) /\ DOMAIN sent = 1..Len(sent) /\ Len(sent) \in Nat
      /\ sent[i].op \notin Loads
  BY NetworkTyped, CallFields
<1>2. \A k \in DOMAIN sent : k # i => sent[k] # sent[i]
  BY <1>1 DEF FreshChangeInv
<1>3. \A k \in 1..(Len(sent) - 1) :
        sent[Past(i, k)] = sent[Past(j, k)]
  <2>1. DOMAIN RemoveAt(sent, i) = 1..(Len(sent) - 1)
    BY <1>1, Removed
  <2>2. ASSUME NEW k \in DOMAIN RemoveAt(sent, i) PROVE sent[Past(i, k)] = sent[Past(j, k)]
    <3>1. RemoveAt(sent, i)[k] = sent[Past(i, k)]
      BY <1>1, RemovedAt
    <3>2. RemoveAt(sent, j)[k] = sent[Past(j, k)]
      BY <1>1, RemovedAt
    <3> QED
      BY <3>1, <3>2
  <2> QED
    BY <2>1, <2>2
<1>4. ASSUME i < j PROVE FALSE
  <2>1. /\ i \in 1..(Len(sent) - 1) /\ i + 1 \in DOMAIN sent /\ i + 1 # i
        /\ Past(i, i) = i + 1 /\ Past(j, i) = i
    BY <1>1, <1>4 DEF Past
  <2>2. sent[i + 1] = sent[i]
    BY <1>3, <2>1
  <2> QED
    BY <1>2, <2>1, <2>2
<1>5. ASSUME j < i PROVE FALSE
  <2>1. /\ i - 1 \in 1..(Len(sent) - 1) /\ i - 1 \in DOMAIN sent /\ i - 1 # i
        /\ Past(i, i - 1) = i - 1 /\ Past(j, i - 1) = i
    BY <1>1, <1>5 DEF Past
  <2>2. sent[i - 1] = sent[i]
    BY <1>3, <2>1
  <2> QED
    BY <1>2, <2>1, <2>2
<1> QED
  BY <1>1, <1>4, <1>5

\* A button that says Disable disables, and one that says Enable enables, if it
\* was pressed in quiet and nobody came before it: what it says is what it was
\* drawn from, and that is what the backend inverts.
THEOREM ButtonsAreHonest == Spec => ButtonHonest
<1>1. ASSUME PageInv, [Next]_vars PROVE [HonestStep]_vars
  <2> SUFFICES ASSUME NEW i \in DOMAIN sent, Len(answers') > Len(answers), sent' = RemoveAt(sent, i),
                      sent[i].op \in Toggles, sent[i].fresh
               PROVE  Present(server, sent[i].id) /\ server'[sent[i].id].on = sent[i].wants
    BY DEF HonestStep, Toggles
  <2> DEFINE c == sent[i]
  <2>1. TypeOK /\ CallsInv /\ FreshChangeInv
    BY <1>1 DEF PageInv
  <2>2. c \in Calls /\ CallOK(c) /\ c.op \in Changes /\ c.op \notin Loads /\ c.wants \in BOOLEAN
    BY <2>1, NetworkTyped, CallFields DEF CallsInv, Toggles, Changes
  <2>3. /\ Present(server, c.id) /\ server[c.id].on = ~c.wants /\ c.id \in Ids
        /\ c.seen \in {NoUser, server[c.id]}
    BY <2>1, <2>2 DEF FreshChangeInv, CallOK
  <2>4. Handle(i)
    <3>1. PICK j \in DOMAIN sent : Handle(j)
      BY <1>1, <2>1, AnsweredIsHandled
    <3>2. sent' = RemoveAt(sent, j)
      BY <3>1 DEF Handle, HandleLoad, Accept, Reject, Answer
    <3>3. i = j
      BY <2>1, <2>2, <3>2, OnlyOne
    <3> QED
      BY <3>1, <3>3
  <2>5. Changed(c) = {[server EXCEPT ![c.id].on = ~c.seen.on]} /\ ~Unfit(c) /\ c.op # "create"
    BY <2>3 DEF Changed, Toggles, Unfit
  <2>6. server' = [server EXCEPT ![c.id].on = ~c.seen.on] /\ c.seen = server[c.id]
    <3>1. Accept(i) \/ Reject(i)
      BY <2>2, <2>4 DEF Handle, HandleLoad
    <3>2. CASE Accept(i)
      BY <2>3, <2>5, <3>2 DEF Accept, Ready
    <3>3. CASE Reject(i)
      BY <2>5, <3>3 DEF Reject
    <3> QED
      BY <3>1, <3>2, <3>3
  <2>7. server \in Table /\ server[c.id] \in User
    BY <2>1, <2>3 DEF TypeOK, Table, Present
  <2>8. server'[c.id].on = ~server[c.id].on
    BY <2>3, <2>6, <2>7 DEF Table, User
  <2> QED
    BY <2>2, <2>3, <2>8
<1> QED
  BY <1>1, PageInvariant, PTL DEF Spec, ButtonHonest

=============================================================================
