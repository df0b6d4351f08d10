--------------------------- MODULE LogsPoolProofs ---------------------------
(***************************************************************************)
(* Theorems about the pool of connections, for any number of threads,      *)
(* connections, requests and faults.                                       *)
(***************************************************************************)
EXTENDS LogsPool, FiniteSetTheorems, SequenceTheorems, TLAPS

USE DEF poolVars, clientVars, eventVars, countVars, historyVars

-----------------------------------------------------------------------------
(***************************************************************************)
(* Lists of connections.                                                   *)
(***************************************************************************)
\* What is in a list of idle connections.
LEMMA RangeTyped ==
    ASSUME NEW s \in Seq(Conns)
    PROVE  Range(s) \subseteq Conns /\ \A k : k \in Range(s) <=> \E i \in 1..Len(s) : s[i] = k
BY DEF Range

\* A list and one more.
LEMMA WithOneMore ==
    ASSUME NEW s \in Seq(Conns), NEW k \in Conns
    PROVE  /\ Append(s, k) \in Seq(Conns) /\ Len(Append(s, k)) = Len(s) + 1 /\ Len(s) \in Nat
           /\ \A i \in 1..Len(s) : Append(s, k)[i] = s[i]
           /\ Append(s, k)[Len(s) + 1] = k
           /\ Range(Append(s, k)) = Range(s) \cup {k}
<1>1. /\ Append(s, k) \in Seq(Conns) /\ Len(Append(s, k)) = Len(s) + 1 /\ Len(s) \in Nat
      /\ \A i \in 1..Len(s) : Append(s, k)[i] = s[i]
      /\ Append(s, k)[Len(s) + 1] = k
  OBVIOUS
<1>2. \A j : j \in Range(Append(s, k)) <=> \E i \in 1..(Len(s) + 1) : Append(s, k)[i] = j
  <2>1. \A j : j \in Range(Append(s, k)) <=> \E i \in 1..Len(Append(s, k)) : Append(s, k)[i] = j
    BY <1>1, RangeTyped
  <2> QED
    BY <1>1, <2>1
<1>3. \A j : j \in Range(s) <=> \E i \in 1..Len(s) : s[i] = j
  BY RangeTyped
<1>4. \A i : i \in 1..(Len(s) + 1) <=> i \in 1..Len(s) \/ i = Len(s) + 1
  BY <1>1
<1>5. \A j : j \in Range(Append(s, k)) <=> j \in Range(s) \/ j = k
  BY <1>1, <1>2, <1>3, <1>4, Zenon
<1> QED
  BY <1>1, <1>5

NoDup(s) == \A i, j \in 1..Len(s) : s[i] = s[j] => i = j

\* A list without its last.
LEMMA WithoutLast ==
    ASSUME NEW s \in Seq(Conns), s # <<>>
    PROVE  /\ Last(s) \in Conns /\ Front(s) \in Seq(Conns) /\ Last(s) \in Range(s)
           /\ Range(Front(s)) \subseteq Range(s)
           /\ NoDup(s) => NoDup(Front(s)) /\ Range(Front(s)) = Range(s) \ {Last(s)}
<1>1. Len(s) \in Nat \ {0} /\ Last(s) = s[Len(s)] /\ s[Len(s)] \in Conns
  BY DEF Last
<1>2. /\ Front(s) \in Seq(Conns) /\ Len(Front(s)) = Len(s) - 1
      /\ \A i \in 1..(Len(s) - 1) : Front(s)[i] = s[i]
  <2> DEFINE n == Len(s) - 1
  <2>1. n \in Nat /\ \A i \in 1..n : s[i] \in Conns
    BY <1>1
  <2>2. /\ SubSeq(s, 1, n) \in Seq(Conns)
        /\ Len(SubSeq(s, 1, n)) = IF 1 <= n THEN n - 1 + 1 ELSE 0
        /\ \A i \in 1..(n - 1 + 1) : SubSeq(s, 1, n)[i] = s[1 + i - 1]
    BY <2>1, SubSeqProperties
  <2> HIDE DEF n
  <2>3. n - 1 + 1 = n /\ \A i \in 1..n : 1 + i - 1 = i
    BY <2>1
  <2>4. (IF 1 <= n THEN n - 1 + 1 ELSE 0) = n
    BY <2>1
  <2>5. /\ SubSeq(s, 1, n) \in Seq(Conns) /\ Len(SubSeq(s, 1, n)) = n
        /\ \A i \in 1..n : SubSeq(s, 1, n)[i] = s[i]
    BY <2>2, <2>3, <2>4, Zenon
  <2> QED
    BY <2>5 DEF Front, n
<1>3. \A k : k \in Range(s) <=> \E i \in 1..Len(s) : s[i] = k
  BY RangeTyped
<1>4. \A k : k \in Range(Front(s)) <=> \E i \in 1..(Len(s) - 1) : s[i] = k
  BY <1>2, RangeTyped
<1>5. Len(s) \in 1..Len(s) /\ \A i : i \in 1..(Len(s) - 1) <=> i \in 1..Len(s) /\ i # Len(s)
  BY <1>1
<1>6. Last(s) \in Range(s) /\ Range(Front(s)) \subseteq Range(s)
  BY <1>1, <1>3, <1>4, <1>5
<1>7. ASSUME NoDup(s) PROVE NoDup(Front(s)) /\ Range(Front(s)) = Range(s) \ {Last(s)}
  <2>1. NoDup(Front(s))
    BY <1>2, <1>5, <1>7 DEF NoDup
  <2>2. \A i \in 1..Len(s) : s[i] = s[Len(s)] <=> i = Len(s)
    BY <1>5, <1>7 DEF NoDup
  <2>3. \A k : k \in Range(Front(s)) <=> k \in Range(s) /\ k # s[Len(s)]
    <3>1. \A k : k \in Range(Front(s)) <=> \E i \in 1..Len(s) : i # Len(s) /\ s[i] = k
      BY <1>4, <1>5
    <3>2. \A i \in 1..Len(s) : i # Len(s) <=> s[i] # s[Len(s)]
      BY <2>2
    <3> QED
      BY <1>3, <3>1, <3>2
  <2> QED
    BY <1>1, <2>1, <2>3
<1> QED
  BY <1>1, <1>2, <1>6, <1>7

-----------------------------------------------------------------------------
(***************************************************************************)
(* The types of the pools, and where a client holds a connection.          *)
(***************************************************************************)
PoolShape ==
    /\ pool \in Clients \cup {NoOne} /\ idle \in [Clients -> Seq(Conns)]
    /\ used \in [Clients -> Int] /\ keyed \in [Clients -> SUBSET Conns]

PointShape ==
    /\ pc \in [Clients -> Points] /\ mine \in [Clients -> Clients \cup {NoOne}]
    /\ conn \in [Clients -> Conns \cup {NoOne}]

Holding == \A c \in Clients : conn[c] = NoOne <=> pc[c] \notin InUse \cup {"forget"}

\* A client that goes on in a pool knows it, and a client gives back a
\* connection to a pool that there is.
Rooted ==
    /\ \A c \in Clients : pc[c] \in {"get", "connect", "book", "keep", "forget"} => mine[c] \in Clients
    /\ \A c \in Clients : pc[c] \in {"get", "connect"} \cup InUse \cup {"forget"} => pool \in Clients

\* What the constants are.
LEMMA Constants ==
    /\ Loop \in Clients /\ NoOne \notin Clients \cup Conns /\ Threads \subseteq Clients
    /\ IsFiniteSet(Clients) /\ IsFiniteSet(Conns) /\ MaxConn \in Nat \ {0}
    /\ InUse \subseteq Points /\ "forget" \notin InUse /\ "off" \notin InUse
<1>1. Loop \in Clients /\ NoOne \notin Clients \cup Conns /\ Threads \subseteq Clients
  BY ConstantsAssumption DEF Clients
<1>2. IsFiniteSet(Clients) /\ IsFiniteSet(Conns)
  BY ConstantsAssumption, FS_AddElement DEF Clients
<1>3. MaxConn \in Nat \ {0}
  BY ConstantsAssumption
<1>4. InUse \subseteq Points /\ "forget" \notin InUse /\ "off" \notin InUse
  BY DEF InUse, Points
<1> QED
  BY <1>1, <1>2, <1>3, <1>4

\* A step keeps the types of the pools.
LEMMA PoolShapeStep ==
    ASSUME PoolShape, PointShape, Holding, Rooted, [Next]_vars PROVE PoolShape'
<1>1. ASSUME NEW t \in Threads, Start(t) PROVE PoolShape'
  BY <1>1 DEF PoolShape, Start, Begin, Goto
<1>2. CASE Prune
  BY <1>2 DEF PoolShape, Prune, Begin, Goto
<1>3. ASSUME NEW c \in Clients, NoPool(c) PROVE PoolShape'
  BY <1>3 DEF PoolShape, NoPool, Goto
<1>4. ASSUME NEW c \in Clients, MakePool(c) PROVE PoolShape'
  <2>1. PICK k \in Conns : idle' = [idle EXCEPT ![c] = <<k>>]
    BY <1>4 DEF MakePool
  <2>2. <<k>> \in Seq(Conns)
    OBVIOUS
  <2> QED
    BY <1>4, <2>1, <2>2 DEF PoolShape, MakePool
<1>5. ASSUME NEW c \in Clients, GetIdle(c) PROVE PoolShape'
  <2>1. PICK p \in Clients : idle[p] # <<>> /\ idle' = [idle EXCEPT ![p] = Front(@)]
    BY <1>5 DEF GetIdle
  <2>2. Front(idle[p]) \in Seq(Conns)
    BY <2>1, WithoutLast DEF PoolShape
  <2>3. UNCHANGED <<pool, used, keyed>>
    BY <1>5 DEF GetIdle
  <2> QED
    BY <2>1, <2>2, <2>3 DEF PoolShape
<1>6. ASSUME NEW c \in Clients, Exhausted(c) PROVE PoolShape'
  BY <1>6 DEF PoolShape, Exhausted, Fail, Goto
<1>7. ASSUME NEW c \in Clients, Connect(c) PROVE PoolShape'
  BY <1>7 DEF PoolShape, Connect, Goto
<1>8. ASSUME NEW c \in Clients, Connected(c) PROVE PoolShape'
  <2>1. PICK k \in Conns : Take(c, mine[c], k)
    BY <1>8 DEF Connected
  <2>2. UNCHANGED <<pool, idle>> /\ mine[c] \in Clients
    BY <1>8 DEF Connected, Rooted
  <2>3. used' \in [Clients -> Int] /\ keyed' \in [Clients -> SUBSET Conns]
    BY <2>1, <2>2 DEF PoolShape, Take
  <2> QED
    BY <2>2, <2>3 DEF PoolShape
<1>9. ASSUME NEW c \in Clients, ConnectFails(c) PROVE PoolShape'
  BY <1>9 DEF PoolShape, ConnectFails, Fail, Goto
<1>10. ASSUME NEW c \in Clients, Work(c) PROVE PoolShape'
  BY <1>10 DEF PoolShape, Work, Goto
<1>11. ASSUME NEW c \in Clients, WorkFails(c) PROVE PoolShape'
  BY <1>11 DEF PoolShape, WorkFails, Goto
<1>12. ASSUME NEW c \in Clients, Unkeyed(c) PROVE PoolShape'
  BY <1>12 DEF PoolShape, Unkeyed, Fail, Goto
<1>13. ASSUME NEW c \in Clients, PutClosed(c) PROVE PoolShape'
  BY <1>13 DEF PoolShape, PutClosed, Goto
<1>14. ASSUME NEW c \in Clients, Book(c) PROVE PoolShape'
  <2>1. Take(c, mine[c], conn[c]) /\ conn[c] \in Conns
    BY <1>14 DEF Book, PointShape, Holding, InUse
  <2>2. UNCHANGED <<pool, idle>> /\ mine[c] \in Clients
    BY <1>14 DEF Book, Rooted
  <2>3. used' \in [Clients -> Int] /\ keyed' \in [Clients -> SUBSET Conns]
    BY <2>1, <2>2 DEF PoolShape, Take
  <2> QED
    BY <2>2, <2>3 DEF PoolShape
<1>15. ASSUME NEW c \in Clients, Keep(c) PROVE PoolShape'
  BY <1>15 DEF PoolShape, Keep, Goto
<1>16. ASSUME NEW c \in Clients, PutIdle(c) PROVE PoolShape'
  <2>1. conn[c] \in Conns /\ mine[c] \in Clients
    BY <1>16 DEF PointShape, Holding, Rooted, PutIdle, InUse
  <2>2. Append(idle[mine[c]], conn[c]) \in Seq(Conns)
    BY <2>1 DEF PoolShape
  <2> QED
    BY <1>16, <2>1, <2>2 DEF PoolShape, PutIdle, GiveBack
<1>17. ASSUME NEW c \in Clients, RollbackFails(c) PROVE PoolShape'
  BY <1>17 DEF PoolShape, RollbackFails, Fail, Goto
<1>18. ASSUME NEW c \in Clients, Forget(c) PROVE PoolShape'
  <2>1. UNCHANGED <<pool, idle>> /\ Unbook(c)
    BY <1>18 DEF Forget, Unbook
  <2>2. mine[c] \in Clients
    BY <1>18 DEF Forget, Rooted
  <2>3. used' \in [Clients -> Int] /\ keyed' \in [Clients -> SUBSET Conns]
    BY <2>1, <2>2 DEF PoolShape, Unbook
  <2> QED
    BY <2>1, <2>3 DEF PoolShape
<1>19. ASSUME NEW c \in Clients, ForgetFails(c) PROVE PoolShape'
  <2>1. UNCHANGED <<pool, idle>> /\ Unbook(c)
    BY <1>19 DEF ForgetFails, Unbook
  <2>2. mine[c] \in Clients
    BY <1>19 DEF ForgetFails, Rooted
  <2>3. used' \in [Clients -> Int] /\ keyed' \in [Clients -> SUBSET Conns]
    BY <2>1, <2>2 DEF PoolShape, Unbook
  <2> QED
    BY <2>1, <2>3 DEF PoolShape
<1>20. CASE DbRestart
  BY <1>20 DEF PoolShape, DbRestart
<1>21. CASE UNCHANGED vars
  BY <1>21 DEF PoolShape, vars
<1>22. ASSUME NEW c \in Clients, StatementFails(c) PROVE PoolShape'
  BY <1>22 DEF PoolShape, StatementFails, Goto
<1> QED
  BY <1>1, <1>2, <1>3, <1>4, <1>5, <1>6, <1>7, <1>8, <1>9, <1>10, <1>11,
     <1>12, <1>13, <1>14, <1>15, <1>16, <1>17, <1>18, <1>19, <1>20, <1>21, <1>22
     DEF Next, Enter, Do, Exit

\* A step keeps the points of the clients.
LEMMA PointShapeStep ==
    ASSUME PoolShape, PointShape, [Next]_vars PROVE PointShape'
<1>1. ASSUME NEW t \in Threads, Start(t) PROVE PointShape'
  BY <1>1 DEF PoolShape, PointShape, Points, InUse, Start, Begin, Goto
<1>2. CASE Prune
  BY <1>2 DEF PoolShape, PointShape, Points, InUse, Prune, Begin, Goto
<1>3. ASSUME NEW c \in Clients, NoPool(c) PROVE PointShape'
  BY <1>3 DEF PoolShape, PointShape, Points, InUse, NoPool, Goto
<1>4. ASSUME NEW c \in Clients, MakePool(c) PROVE PointShape'
  BY <1>4 DEF PoolShape, PointShape, Points, InUse, MakePool, Goto
<1>5. ASSUME NEW c \in Clients, GetIdle(c) PROVE PointShape'
  <2>1. PICK p \in Clients : /\ idle[p] # <<>> /\ conn' = [conn EXCEPT ![c] = Last(idle[p])]
                              /\ mine' = [mine EXCEPT ![c] = p] /\ pc' = [pc EXCEPT ![c] = "book"]
    BY <1>5 DEF GetIdle, Goto
  <2>2. Last(idle[p]) \in Conns
    BY <2>1, WithoutLast DEF PoolShape
  <2> QED
    BY <2>1, <2>2 DEF PointShape, Points, InUse
<1>6. ASSUME NEW c \in Clients, Exhausted(c) PROVE PointShape'
  BY <1>6 DEF PoolShape, PointShape, Points, InUse, Exhausted, Fail, Goto
<1>7. ASSUME NEW c \in Clients, Connect(c) PROVE PointShape'
  BY <1>7 DEF PoolShape, PointShape, Points, InUse, Connect, Goto
<1>8. ASSUME NEW c \in Clients, Connected(c) PROVE PointShape'
  BY <1>8 DEF PoolShape, PointShape, Points, InUse, Connected, Take, Goto
<1>9. ASSUME NEW c \in Clients, ConnectFails(c) PROVE PointShape'
  BY <1>9 DEF PoolShape, PointShape, Points, InUse, ConnectFails, Fail, Goto
<1>10. ASSUME NEW c \in Clients, Work(c) PROVE PointShape'
  BY <1>10 DEF PoolShape, PointShape, Points, InUse, Work, Goto
<1>11. ASSUME NEW c \in Clients, WorkFails(c) PROVE PointShape'
  BY <1>11 DEF PoolShape, PointShape, Points, InUse, WorkFails, Goto
<1>12. ASSUME NEW c \in Clients, Unkeyed(c) PROVE PointShape'
  BY <1>12 DEF PoolShape, PointShape, Points, InUse, Unkeyed, Fail, Goto
<1>13. ASSUME NEW c \in Clients, PutClosed(c) PROVE PointShape'
  BY <1>13 DEF PoolShape, PointShape, Points, InUse, PutClosed, Goto
<1>14. ASSUME NEW c \in Clients, Book(c) PROVE PointShape'
  BY <1>14 DEF PoolShape, PointShape, Points, InUse, Book, Take, Goto
<1>15. ASSUME NEW c \in Clients, Keep(c) PROVE PointShape'
  BY <1>15 DEF PoolShape, PointShape, Points, InUse, Keep, Goto
<1>16. ASSUME NEW c \in Clients, PutIdle(c) PROVE PointShape'
  BY <1>16 DEF PoolShape, PointShape, Points, InUse, PutIdle, GiveBack, Goto
<1>17. ASSUME NEW c \in Clients, RollbackFails(c) PROVE PointShape'
  BY <1>17 DEF PoolShape, PointShape, Points, InUse, RollbackFails, Fail, Goto
<1>18. ASSUME NEW c \in Clients, Forget(c) PROVE PointShape'
  BY <1>18 DEF PoolShape, PointShape, Points, InUse, Forget, Unbook, Goto
<1>19. ASSUME NEW c \in Clients, ForgetFails(c) PROVE PointShape'
  BY <1>19 DEF PoolShape, PointShape, Points, InUse, ForgetFails, Unbook, Fail, Goto
<1>20. CASE DbRestart
  BY <1>20 DEF PoolShape, PointShape, Points, InUse, DbRestart
<1>21. CASE UNCHANGED vars
  BY <1>21 DEF PoolShape, PointShape, Points, InUse, vars
<1>22. ASSUME NEW c \in Clients, StatementFails(c) PROVE PointShape'
  BY <1>22 DEF PoolShape, PointShape, Points, InUse, StatementFails, Goto
<1> QED
  BY <1>1, <1>2, <1>3, <1>4, <1>5, <1>6, <1>7, <1>8, <1>9, <1>10, <1>11,
     <1>12, <1>13, <1>14, <1>15, <1>16, <1>17, <1>18, <1>19, <1>20, <1>21, <1>22
     DEF Next, Enter, Do, Exit

\* A client has a connection from the get to the end of the put.
LEMMA HoldingStep ==
    ASSUME PoolShape, PointShape, Holding, [Next]_vars PROVE Holding'
<1>1. ASSUME NEW t \in Threads, Start(t) PROVE Holding'
  BY <1>1, Constants DEF PointShape, Holding, InUse, Start, Begin, Goto
<1>2. CASE Prune
  BY <1>2, Constants DEF PointShape, Holding, InUse, Prune, Begin, Goto
<1>3. ASSUME NEW c \in Clients, NoPool(c) PROVE Holding'
  BY <1>3, Constants DEF PointShape, Holding, InUse, NoPool, Goto
<1>4. ASSUME NEW c \in Clients, MakePool(c) PROVE Holding'
  BY <1>4, Constants DEF PointShape, Holding, InUse, MakePool, Goto
<1>5. ASSUME NEW c \in Clients, GetIdle(c) PROVE Holding'
  <2>1. PICK p \in Clients : /\ idle[p] # <<>> /\ conn' = [conn EXCEPT ![c] = Last(idle[p])]
                              /\ pc' = [pc EXCEPT ![c] = "book"]
    BY <1>5 DEF GetIdle, Goto
  <2>2. Last(idle[p]) \in Conns
    BY <2>1, WithoutLast DEF PoolShape
  <2> QED
    BY <2>1, <2>2, Constants DEF PointShape, Holding, InUse
<1>6. ASSUME NEW c \in Clients, Exhausted(c) PROVE Holding'
  BY <1>6, Constants DEF PointShape, Holding, InUse, Exhausted, Fail, Goto
<1>7. ASSUME NEW c \in Clients, Connect(c) PROVE Holding'
  BY <1>7, Constants DEF PointShape, Holding, InUse, Connect, GetFrom, Goto
<1>8. ASSUME NEW c \in Clients, Connected(c) PROVE Holding'
  BY <1>8, Constants DEF PointShape, Holding, InUse, Connected, Take, Goto
<1>9. ASSUME NEW c \in Clients, ConnectFails(c) PROVE Holding'
  BY <1>9, Constants DEF PointShape, Holding, InUse, ConnectFails, Fail, Goto
<1>10. ASSUME NEW c \in Clients, Work(c) PROVE Holding'
  BY <1>10, Constants DEF PointShape, Holding, InUse, Work, Goto
<1>11. ASSUME NEW c \in Clients, WorkFails(c) PROVE Holding'
  BY <1>11, Constants DEF PointShape, Holding, InUse, WorkFails, Goto
<1>12. ASSUME NEW c \in Clients, Unkeyed(c) PROVE Holding'
  BY <1>12, Constants DEF PointShape, Holding, InUse, Unkeyed, Fail, Goto
<1>13. ASSUME NEW c \in Clients, PutClosed(c) PROVE Holding'
  BY <1>13, Constants DEF PointShape, Holding, InUse, PutClosed, Goto
<1>14. ASSUME NEW c \in Clients, Book(c) PROVE Holding'
  BY <1>14, Constants DEF PointShape, Holding, InUse, Book, Take, Goto
<1>15. ASSUME NEW c \in Clients, Keep(c) PROVE Holding'
  BY <1>15, Constants DEF PointShape, Holding, InUse, Keep, Goto
<1>16. ASSUME NEW c \in Clients, PutIdle(c) PROVE Holding'
  BY <1>16, Constants DEF PointShape, Holding, InUse, PutIdle, GiveBack, Goto
<1>17. ASSUME NEW c \in Clients, RollbackFails(c) PROVE Holding'
  BY <1>17, Constants DEF PointShape, Holding, InUse, RollbackFails, Fail, Goto
<1>18. ASSUME NEW c \in Clients, Forget(c) PROVE Holding'
  BY <1>18, Constants DEF PointShape, Holding, InUse, Forget, Unbook, Goto
<1>19. ASSUME NEW c \in Clients, ForgetFails(c) PROVE Holding'
  BY <1>19, Constants DEF PointShape, Holding, InUse, ForgetFails, Unbook, Fail, Goto
<1>20. CASE DbRestart
  BY <1>20, Constants DEF PointShape, Holding, InUse, DbRestart
<1>21. CASE UNCHANGED vars
  BY <1>21, Constants DEF PointShape, Holding, InUse, vars
<1>22. ASSUME NEW c \in Clients, StatementFails(c) PROVE Holding'
  BY <1>22, Constants DEF PointShape, Holding, InUse, StatementFails, Goto
<1> QED
  BY <1>1, <1>2, <1>3, <1>4, <1>5, <1>6, <1>7, <1>8, <1>9, <1>10, <1>11,
     <1>12, <1>13, <1>14, <1>15, <1>16, <1>17, <1>18, <1>19, <1>20, <1>21, <1>22
     DEF Next, Enter, Do, Exit

\* A client that goes on in a pool keeps it, and the pool stays.
LEMMA RootedStep ==
    ASSUME PoolShape, PointShape, Rooted, [Next]_vars PROVE Rooted'
<1>1. ASSUME NEW t \in Threads, Start(t) PROVE Rooted'
  BY <1>1, Constants DEF PoolShape, PointShape, Rooted, InUse, GetFrom, Start, Begin, Goto
<1>2. CASE Prune
  BY <1>2, Constants DEF PoolShape, PointShape, Rooted, InUse, GetFrom, Prune, Begin, Goto
<1>3. ASSUME NEW c \in Clients, NoPool(c) PROVE Rooted'
  BY <1>3, Constants DEF PoolShape, PointShape, Rooted, InUse, GetFrom, NoPool, Goto
<1>4. ASSUME NEW c \in Clients, MakePool(c) PROVE Rooted'
  BY <1>4, Constants DEF PoolShape, PointShape, Rooted, InUse, GetFrom, MakePool, Goto
<1>5. ASSUME NEW c \in Clients, GetIdle(c) PROVE Rooted'
  BY <1>5, Constants DEF PoolShape, PointShape, Rooted, InUse, GetFrom, GetIdle, Goto
<1>6. ASSUME NEW c \in Clients, Exhausted(c) PROVE Rooted'
  BY <1>6, Constants DEF PoolShape, PointShape, Rooted, InUse, GetFrom, Exhausted, Fail, Goto
<1>7. ASSUME NEW c \in Clients, Connect(c) PROVE Rooted'
  BY <1>7, Constants DEF PoolShape, PointShape, Rooted, InUse, GetFrom, Connect, Goto
<1>8. ASSUME NEW c \in Clients, Connected(c) PROVE Rooted'
  BY <1>8, Constants DEF PoolShape, PointShape, Rooted, InUse, GetFrom, Connected, Take, Goto
<1>9. ASSUME NEW c \in Clients, ConnectFails(c) PROVE Rooted'
  BY <1>9, Constants DEF PoolShape, PointShape, Rooted, InUse, GetFrom, ConnectFails, Fail, Goto
<1>10. ASSUME NEW c \in Clients, Work(c) PROVE Rooted'
  BY <1>10, Constants DEF PoolShape, PointShape, Rooted, InUse, GetFrom, Work, Goto
<1>11. ASSUME NEW c \in Clients, WorkFails(c) PROVE Rooted'
  BY <1>11, Constants DEF PoolShape, PointShape, Rooted, InUse, GetFrom, WorkFails, Goto
<1>12. ASSUME NEW c \in Clients, Unkeyed(c) PROVE Rooted'
  BY <1>12, Constants DEF PoolShape, PointShape, Rooted, InUse, GetFrom, Unkeyed, Fail, Goto
<1>13. ASSUME NEW c \in Clients, PutClosed(c) PROVE Rooted'
  BY <1>13, Constants DEF PoolShape, PointShape, Rooted, InUse, GetFrom, PutClosed, Goto
<1>14. ASSUME NEW c \in Clients, Book(c) PROVE Rooted'
  BY <1>14, Constants DEF PoolShape, PointShape, Rooted, InUse, GetFrom, Book, Take, Goto
<1>15. ASSUME NEW c \in Clients, Keep(c) PROVE Rooted'
  BY <1>15, Constants DEF PoolShape, PointShape, Rooted, InUse, GetFrom, Keep, Goto
<1>16. ASSUME NEW c \in Clients, PutIdle(c) PROVE Rooted'
  BY <1>16, Constants DEF PoolShape, PointShape, Rooted, InUse, GetFrom, PutIdle, GiveBack, Goto
<1>17. ASSUME NEW c \in Clients, RollbackFails(c) PROVE Rooted'
  BY <1>17, Constants DEF PoolShape, PointShape, Rooted, InUse, GetFrom, RollbackFails, Fail, Goto
<1>18. ASSUME NEW c \in Clients, Forget(c) PROVE Rooted'
  BY <1>18, Constants DEF PoolShape, PointShape, Rooted, InUse, GetFrom, Forget, Unbook, Goto
<1>19. ASSUME NEW c \in Clients, ForgetFails(c) PROVE Rooted'
  BY <1>19, Constants DEF PoolShape, PointShape, Rooted, InUse, GetFrom, ForgetFails, Unbook, Fail, Goto
<1>20. CASE DbRestart
  BY <1>20, Constants DEF PoolShape, PointShape, Rooted, InUse, GetFrom, DbRestart
<1>21. CASE UNCHANGED vars
  BY <1>21, Constants DEF PoolShape, PointShape, Rooted, InUse, GetFrom, vars
<1>22. ASSUME NEW c \in Clients, StatementFails(c) PROVE Rooted'
  BY <1>22, Constants DEF PoolShape, PointShape, Rooted, InUse, GetFrom, StatementFails, Goto
<1> QED
  BY <1>1, <1>2, <1>3, <1>4, <1>5, <1>6, <1>7, <1>8, <1>9, <1>10, <1>11,
     <1>12, <1>13, <1>14, <1>15, <1>16, <1>17, <1>18, <1>19, <1>20, <1>21, <1>22
     DEF Next, Enter, Do, Exit

-----------------------------------------------------------------------------
(***************************************************************************)
(* What makes Exclusive inductive: a connection is idle once.              *)
(***************************************************************************)
Shape == PoolShape /\ PointShape /\ Holding /\ Rooted

IdleOnce ==
    /\ \A p \in Clients : NoDup(idle[p])
    /\ \A p, q \in Clients : p # q => Range(idle[p]) \cap Range(idle[q]) = {}

Owners == Exclusive /\ IdleOnce

\* Nobody takes a connection and none is given back.
LEMMA NoneTaken ==
    ASSUME Owners, idle' = idle,
           \A d \in Clients : pc'[d] \in InUse => pc[d] \in InUse /\ conn'[d] = conn[d]
    PROVE  Owners'
<1>1. Exclusive'
  BY DEF Owners, Exclusive
<1>2. IdleOnce'
  BY DEF Owners, IdleOnce
<1> QED
  BY <1>1, <1>2 DEF Owners

\* A client takes a connection that nobody has and that becomes offered by
\* no pool.
LEMMA OneTaken ==
    ASSUME Owners, Shape, IdleOnce', NEW c \in Clients, NEW k \in Conns, NEW x,
           conn' = [conn EXCEPT ![c] = k], pc' = [pc EXCEPT ![c] = x],
           \A d \in Clients : pc[d] \in InUse => conn[d] # k,
           \A p \in Clients : Range(idle'[p]) \subseteq Range(idle[p]) /\ k \notin Range(idle'[p])
    PROVE  Owners'
<1>1. /\ conn'[c] = k
      /\ \A d \in Clients \ {c} : conn'[d] = conn[d] /\ pc'[d] = pc[d]
  BY DEF Shape, PointShape
<1>2. Exclusive'
  BY <1>1 DEF Owners, Exclusive
<1> QED
  BY <1>2 DEF Owners

\* A client gives its connection back.
LEMMA OneGiven ==
    ASSUME Owners, Shape, NEW c \in Clients, NEW p \in Clients, pc[c] \in InUse,
           idle' = [idle EXCEPT ![p] = Append(@, conn[c])],
           conn' = conn, pc' = [pc EXCEPT ![c] = "forget"]
    PROVE  Owners'
<1>1. conn[c] \in Conns /\ idle[p] \in Seq(Conns)
  BY DEF Shape, PointShape, Holding, PoolShape
<1>2. /\ idle'[p] = Append(idle[p], conn[c])
      /\ \A q \in Clients \ {p} : idle'[q] = idle[q]
      /\ Range(idle'[p]) = Range(idle[p]) \cup {conn[c]}
  BY <1>1, WithOneMore DEF Shape, PoolShape
<1>3. /\ \A d \in Clients : pc'[d] \in InUse => pc[d] \in InUse /\ d # c
      /\ \A q \in Clients : conn[c] \notin Range(idle[q])
  BY DEF Shape, PointShape, InUse, Owners, Exclusive
<1>4. Exclusive'
  BY <1>2, <1>3 DEF Owners, Exclusive
<1>5. NoDup(idle'[p])
  <2>1. NoDup(idle[p]) /\ \A i \in 1..Len(idle[p]) : idle[p][i] # conn[c]
    BY <1>1, <1>3, RangeTyped DEF Owners, IdleOnce
  <2>2. /\ Len(idle'[p]) = Len(idle[p]) + 1 /\ Len(idle[p]) \in Nat
        /\ \A i \in 1..Len(idle[p]) : idle'[p][i] = idle[p][i]
        /\ idle'[p][Len(idle[p]) + 1] = conn[c]
    BY <1>1, <1>2, WithOneMore
  <2>3. \A i : i \in 1..(Len(idle[p]) + 1) <=> i \in 1..Len(idle[p]) \/ i = Len(idle[p]) + 1
    BY <2>2
  <2> QED
    BY <2>1, <2>2, <2>3 DEF NoDup
<1>6. IdleOnce'
  <2>1. \A q \in Clients : NoDup(idle'[q])
    BY <1>2, <1>5 DEF Owners, IdleOnce
  <2>2. \A q, r \in Clients : q # r => Range(idle'[q]) \cap Range(idle'[r]) = {}
    BY <1>2, <1>3 DEF Owners, IdleOnce
  <2> QED
    BY <2>1, <2>2 DEF IdleOnce
<1> QED
  BY <1>4, <1>6 DEF Owners

\* A connection keeps one owner, or one place where it is idle.
LEMMA OwnersStep ==
    ASSUME Shape, Owners, [Next]_vars PROVE Owners'
<1>1. ASSUME NEW t \in Threads, Start(t) PROVE Owners'
  <2>1. idle' = idle /\ \A d \in Clients : pc'[d] \in InUse => pc[d] \in InUse /\ conn'[d] = conn[d]
    BY <1>1 DEF Shape, PoolShape, PointShape, InUse, Start, Begin, Goto
  <2> QED
    BY <2>1, NoneTaken
<1>2. CASE Prune
  <2>1. idle' = idle /\ \A d \in Clients : pc'[d] \in InUse => pc[d] \in InUse /\ conn'[d] = conn[d]
    BY <1>2 DEF Shape, PoolShape, PointShape, InUse, Prune, Begin, Goto
  <2> QED
    BY <2>1, NoneTaken
<1>3. ASSUME NEW c \in Clients, NoPool(c) PROVE Owners'
  <2>1. idle' = idle /\ \A d \in Clients : pc'[d] \in InUse => pc[d] \in InUse /\ conn'[d] = conn[d]
    BY <1>3 DEF Shape, PoolShape, PointShape, InUse, NoPool, Goto
  <2> QED
    BY <2>1, NoneTaken
<1>4. ASSUME NEW c \in Clients, MakePool(c) PROVE Owners'
  <2>1. PICK k \in Conns : Free(k) /\ idle' = [idle EXCEPT ![c] = <<k>>]
    BY <1>4 DEF MakePool
  <2>2. idle'[c] = <<k>> /\ \A q \in Clients \ {c} : idle'[q] = idle[q]
    BY <2>1 DEF Shape, PoolShape
  <2>3. NoDup(<<k>>) /\ Range(<<k>>) = {k}
    BY DEF NoDup, Range
  <2>4. conn' = conn /\ \A d \in Clients : pc'[d] \in InUse => pc[d] \in InUse /\ conn[d] # k
    BY <1>4, <2>1 DEF MakePool, Goto, Shape, PointShape, InUse, Free
  <2>5. Exclusive'
    BY <2>2, <2>3, <2>4 DEF Owners, Exclusive
  <2>6. \A q \in Clients : k \notin Range(idle[q])
    BY <2>1 DEF Free
  <2>7. IdleOnce'
    BY <2>2, <2>3, <2>6 DEF Owners, IdleOnce
  <2> QED
    BY <2>5, <2>7 DEF Owners
<1>5. ASSUME NEW c \in Clients, GetIdle(c) PROVE Owners'
  <2>1. PICK p \in Clients : /\ idle[p] # <<>> /\ conn' = [conn EXCEPT ![c] = Last(idle[p])]
                              /\ idle' = [idle EXCEPT ![p] = Front(@)]
    BY <1>5 DEF GetIdle
  <2> DEFINE k == Last(idle[p])
  <2>2. /\ NoDup(Front(idle[p])) /\ Range(Front(idle[p])) = Range(idle[p]) \ {k}
        /\ k \in Conns /\ k \in Range(idle[p])
    BY <2>1, WithoutLast DEF Shape, PoolShape, Owners, IdleOnce
  <2>3. idle'[p] = Front(idle[p]) /\ \A q \in Clients \ {p} : idle'[q] = idle[q]
    BY <2>1 DEF Shape, PoolShape
  <2>4. conn' = [conn EXCEPT ![c] = k] /\ pc' = [pc EXCEPT ![c] = "book"]
    BY <1>5, <2>1 DEF GetIdle, Goto
  <2> HIDE DEF k
  <2>5. /\ \A d \in Clients : pc[d] \in InUse => conn[d] # k
        /\ \A q \in Clients : Range(idle'[q]) \subseteq Range(idle[q]) /\ k \notin Range(idle'[q])
    BY <2>2, <2>3 DEF Owners, Exclusive, IdleOnce
  <2>6. IdleOnce'
    BY <2>2, <2>3, <2>5 DEF Owners, IdleOnce
  <2> QED
    BY <2>2, <2>4, <2>5, <2>6, OneTaken
<1>6. ASSUME NEW c \in Clients, Exhausted(c) PROVE Owners'
  <2>1. idle' = idle /\ \A d \in Clients : pc'[d] \in InUse => pc[d] \in InUse /\ conn'[d] = conn[d]
    BY <1>6 DEF Shape, PoolShape, PointShape, InUse, Exhausted, Fail, Goto
  <2> QED
    BY <2>1, NoneTaken
<1>7. ASSUME NEW c \in Clients, Connect(c) PROVE Owners'
  <2>1. idle' = idle /\ \A d \in Clients : pc'[d] \in InUse => pc[d] \in InUse /\ conn'[d] = conn[d]
    BY <1>7 DEF Shape, PoolShape, PointShape, InUse, Connect, Goto
  <2> QED
    BY <2>1, NoneTaken
<1>8. ASSUME NEW c \in Clients, Connected(c) PROVE Owners'
  <2>1. PICK k \in Conns : Free(k) /\ Take(c, mine[c], k)
    BY <1>8 DEF Connected
  <2>2. idle' = idle /\ IdleOnce'
    BY <1>8 DEF Connected, Owners, IdleOnce
  <2>3. /\ \A d \in Clients : conn[d] # k
        /\ \A p \in Clients : Range(idle'[p]) \subseteq Range(idle[p]) /\ k \notin Range(idle'[p])
    BY <2>1, <2>2 DEF Free
  <2>4. conn' = [conn EXCEPT ![c] = k] /\ pc' = [pc EXCEPT ![c] = "block"]
    BY <2>1 DEF Take, Goto
  <2> QED
    BY <2>2, <2>3, <2>4, OneTaken
<1>9. ASSUME NEW c \in Clients, ConnectFails(c) PROVE Owners'
  <2>1. idle' = idle /\ \A d \in Clients : pc'[d] \in InUse => pc[d] \in InUse /\ conn'[d] = conn[d]
    BY <1>9 DEF Shape, PoolShape, PointShape, InUse, ConnectFails, Fail, Goto
  <2> QED
    BY <2>1, NoneTaken
<1>10. ASSUME NEW c \in Clients, Work(c) PROVE Owners'
  <2>1. idle' = idle /\ \A d \in Clients : pc'[d] \in InUse => pc[d] \in InUse /\ conn'[d] = conn[d]
    BY <1>10 DEF Shape, PoolShape, PointShape, InUse, Work, Goto
  <2> QED
    BY <2>1, NoneTaken
<1>11. ASSUME NEW c \in Clients, WorkFails(c) PROVE Owners'
  <2>1. idle' = idle /\ \A d \in Clients : pc'[d] \in InUse => pc[d] \in InUse /\ conn'[d] = conn[d]
    BY <1>11 DEF Shape, PoolShape, PointShape, InUse, WorkFails, Goto
  <2> QED
    BY <2>1, NoneTaken
<1>12. ASSUME NEW c \in Clients, Unkeyed(c) PROVE Owners'
  <2>1. idle' = idle /\ \A d \in Clients : pc'[d] \in InUse => pc[d] \in InUse /\ conn'[d] = conn[d]
    BY <1>12 DEF Shape, PoolShape, PointShape, InUse, Unkeyed, Fail, Goto
  <2> QED
    BY <2>1, NoneTaken
<1>13. ASSUME NEW c \in Clients, PutClosed(c) PROVE Owners'
  <2>1. idle' = idle /\ \A d \in Clients : pc'[d] \in InUse => pc[d] \in InUse /\ conn'[d] = conn[d]
    BY <1>13 DEF Shape, PoolShape, PointShape, InUse, PutClosed, Goto
  <2> QED
    BY <2>1, NoneTaken
<1>14. ASSUME NEW c \in Clients, Book(c) PROVE Owners'
  <2>1. idle' = idle /\ \A d \in Clients : pc'[d] \in InUse => pc[d] \in InUse /\ conn'[d] = conn[d]
    BY <1>14 DEF Shape, PoolShape, PointShape, InUse, Book, Take, Goto
  <2> QED
    BY <2>1, NoneTaken
<1>15. ASSUME NEW c \in Clients, Keep(c) PROVE Owners'
  <2>1. idle' = idle /\ \A d \in Clients : pc'[d] \in InUse => pc[d] \in InUse /\ conn'[d] = conn[d]
    BY <1>15 DEF Shape, PoolShape, PointShape, InUse, Keep, Goto
  <2> QED
    BY <2>1, NoneTaken
<1>16. ASSUME NEW c \in Clients, PutIdle(c) PROVE Owners'
  <2>1. /\ mine[c] \in Clients /\ pc[c] \in InUse /\ idle' = [idle EXCEPT ![mine[c]] = Append(@, conn[c])]
        /\ conn' = conn /\ pc' = [pc EXCEPT ![c] = "forget"]
    BY <1>16 DEF Shape, Rooted, InUse, PutIdle, GiveBack, Goto
  <2> QED
    BY <2>1, OneGiven
<1>17. ASSUME NEW c \in Clients, RollbackFails(c) PROVE Owners'
  <2>1. idle' = idle /\ \A d \in Clients : pc'[d] \in InUse => pc[d] \in InUse /\ conn'[d] = conn[d]
    BY <1>17 DEF Shape, PoolShape, PointShape, InUse, RollbackFails, Fail, Goto
  <2> QED
    BY <2>1, NoneTaken
<1>18. ASSUME NEW c \in Clients, Forget(c) PROVE Owners'
  <2>1. idle' = idle /\ \A d \in Clients : pc'[d] \in InUse => pc[d] \in InUse /\ conn'[d] = conn[d]
    BY <1>18 DEF Shape, PoolShape, PointShape, InUse, Forget, Unbook, Goto
  <2> QED
    BY <2>1, NoneTaken
<1>19. ASSUME NEW c \in Clients, ForgetFails(c) PROVE Owners'
  <2>1. idle' = idle /\ \A d \in Clients : pc'[d] \in InUse => pc[d] \in InUse /\ conn'[d] = conn[d]
    BY <1>19 DEF Shape, PoolShape, PointShape, InUse, ForgetFails, Unbook, Fail, Goto
  <2> QED
    BY <2>1, NoneTaken
<1>20. CASE DbRestart
  <2>1. idle' = idle /\ \A d \in Clients : pc'[d] \in InUse => pc[d] \in InUse /\ conn'[d] = conn[d]
    BY <1>20 DEF Shape, PoolShape, PointShape, InUse, DbRestart
  <2> QED
    BY <2>1, NoneTaken
<1>21. CASE UNCHANGED vars
  <2>1. idle' = idle /\ \A d \in Clients : pc'[d] \in InUse => pc[d] \in InUse /\ conn'[d] = conn[d]
    BY <1>21 DEF Shape, PoolShape, PointShape, InUse, vars
  <2> QED
    BY <2>1, NoneTaken
<1>22. ASSUME NEW c \in Clients, StatementFails(c) PROVE Owners'
  <2>1. idle' = idle /\ \A d \in Clients : pc'[d] \in InUse => pc[d] \in InUse /\ conn'[d] = conn[d]
    BY <1>22 DEF Shape, PoolShape, PointShape, InUse, StatementFails, Goto
  <2> QED
    BY <2>1, NoneTaken
<1> QED
  BY <1>1, <1>2, <1>3, <1>4, <1>5, <1>6, <1>7, <1>8, <1>9, <1>10, <1>11,
     <1>12, <1>13, <1>14, <1>15, <1>16, <1>17, <1>18, <1>19, <1>20, <1>21, <1>22
     DEF Next, Enter, Do, Exit

-----------------------------------------------------------------------------
(***************************************************************************)
(* No connection belongs to two pools.                                     *)
(***************************************************************************)
Where(p) == keyed[p] \cup Range(idle[p])
Bound    == {"book", "keep"}

Home ==
    /\ \A p, q \in Clients : p # q => Where(p) \cap Where(q) = {}
    /\ \A c, q \in Clients : pc[c] \in Bound /\ q # mine[c] => conn[c] \notin Where(q)

\* A step that brings no connection to a pool.
LEMMA NoneBrought ==
    ASSUME Home, \A q \in Clients : Where(q)' \subseteq Where(q),
           \A d \in Clients : pc'[d] \in Bound =>
             pc[d] \in Bound /\ conn'[d] = conn[d] /\ mine'[d] = mine[d]
    PROVE  Home'
<1>1. \A p, q \in Clients : p # q => Where(p)' \cap Where(q)' = {}
  BY DEF Home
<1>2. \A c, q \in Clients : pc'[c] \in Bound /\ q # mine'[c] => conn'[c] \notin Where(q)'
  BY DEF Home
<1> QED
  BY <1>1, <1>2 DEF Home

\* A step that brings a connection to one.
LEMMA OneBrought ==
    ASSUME Home, NEW p \in Clients, NEW k,
           \A q \in Clients : Where(q)' \subseteq Where(q) \cup (IF q = p THEN {k} ELSE {}),
           \A q \in Clients \ {p} : k \notin Where(q),
           \A d \in Clients : pc'[d] \in Bound => /\ pc[d] \in Bound /\ conn'[d] = conn[d] /\ mine'[d] = mine[d]
                                                     /\ conn[d] # k
    PROVE  Home'
<1>1. \A q, r \in Clients : q # r => Where(q)' \cap Where(r)' = {}
  BY DEF Home
<1>2. \A c, q \in Clients : pc'[c] \in Bound /\ q # mine'[c] => conn'[c] \notin Where(q)'
  BY DEF Home
<1> QED
  BY <1>1, <1>2 DEF Home

\* A connection keeps its pool.
LEMMA HomeStep ==
    ASSUME Shape, Owners, Home, [Next]_vars PROVE Home'
<1>1. ASSUME NEW t \in Threads, Start(t) PROVE Home'
  <2>1. \A d \in Clients : pc'[d] \in Bound =>
          pc[d] \in Bound /\ conn'[d] = conn[d] /\ mine'[d] = mine[d]
    BY <1>1 DEF Bound, Shape, PointShape, Start, Begin, Goto
  <2>2. \A q \in Clients : Where(q)' \subseteq Where(q)
    BY <1>1 DEF Shape, PoolShape, Where, Start, Begin, Goto
  <2> QED
    BY <2>1, <2>2, NoneBrought
<1>2. CASE Prune
  <2>1. \A d \in Clients : pc'[d] \in Bound =>
          pc[d] \in Bound /\ conn'[d] = conn[d] /\ mine'[d] = mine[d]
    BY <1>2 DEF Bound, Shape, PointShape, Prune, Begin, Goto
  <2>2. \A q \in Clients : Where(q)' \subseteq Where(q)
    BY <1>2 DEF Shape, PoolShape, Where, Prune, Begin, Goto
  <2> QED
    BY <2>1, <2>2, NoneBrought
<1>3. ASSUME NEW c \in Clients, NoPool(c) PROVE Home'
  <2>1. \A d \in Clients : pc'[d] \in Bound =>
          pc[d] \in Bound /\ conn'[d] = conn[d] /\ mine'[d] = mine[d]
    BY <1>3 DEF Bound, Shape, PointShape, NoPool, Goto
  <2>2. \A q \in Clients : Where(q)' \subseteq Where(q)
    BY <1>3 DEF Shape, PoolShape, Where, NoPool, Goto
  <2> QED
    BY <2>1, <2>2, NoneBrought
<1>4. ASSUME NEW c \in Clients, MakePool(c) PROVE Home'
  <2>1. PICK k \in Conns : Free(k) /\ idle' = [idle EXCEPT ![c] = <<k>>]
    BY <1>4 DEF MakePool
  <2>2. keyed' = keyed /\ Range(idle'[c]) = {k} /\ \A q \in Clients \ {c} : idle'[q] = idle[q]
    BY <1>4, <2>1 DEF Shape, PoolShape, MakePool, Range
  <2>3. \A q \in Clients : Where(q)' \subseteq Where(q) \cup (IF q = c THEN {k} ELSE {})
    BY <2>2 DEF Where
  <2>4. \A q \in Clients \ {c} : k \notin Where(q)
    BY <2>1 DEF Free, Where
  <2>5. \A d \in Clients : pc'[d] \in Bound => /\ pc[d] \in Bound /\ conn'[d] = conn[d] /\ mine'[d] = mine[d]
                                                  /\ conn[d] # k
    BY <1>4, <2>1 DEF Free, MakePool, Goto, Bound, Shape, PointShape
  <2> QED
    BY <2>3, <2>4, <2>5, OneBrought
<1>5. ASSUME NEW c \in Clients, GetIdle(c) PROVE Home'
  <2>1. PICK p \in Clients : /\ idle[p] # <<>> /\ conn' = [conn EXCEPT ![c] = Last(idle[p])]
                              /\ idle' = [idle EXCEPT ![p] = Front(@)]
                              /\ mine' = [mine EXCEPT ![c] = p]
    BY <1>5 DEF GetIdle
  <2>2. Range(Front(idle[p])) \subseteq Range(idle[p]) /\ Last(idle[p]) \in Range(idle[p])
    BY <2>1, WithoutLast DEF Shape, PoolShape
  <2>3. \A q \in Clients : Where(q)' \subseteq Where(q)
    BY <1>5, <2>1, <2>2 DEF GetIdle, Where, Shape, PoolShape
  <2>4. conn'[c] = Last(idle[p]) /\ mine'[c] = p /\ Last(idle[p]) \in Where(p)
    BY <2>1, <2>2 DEF Shape, PointShape, Where
  <2>5. \A d \in Clients \ {c} : pc'[d] = pc[d] /\ conn'[d] = conn[d] /\ mine'[d] = mine[d]
    BY <1>5, <2>1 DEF GetIdle, Goto, Shape, PointShape
  <2>6. \A q, r \in Clients : q # r => Where(q)' \cap Where(r)' = {}
    BY <2>3 DEF Home
  <2>7. ASSUME NEW d \in Clients, NEW q \in Clients, pc'[d] \in Bound, q # mine'[d] PROVE conn'[d] \notin Where(q)'
    <3>1. CASE d = c
      BY <2>3, <2>4, <2>7, <3>1 DEF Home
    <3>2. CASE d # c
      BY <2>3, <2>5, <2>7, <3>2 DEF Home
    <3> QED
      BY <3>1, <3>2
  <2> QED
    BY <2>6, <2>7 DEF Home
<1>6. ASSUME NEW c \in Clients, Exhausted(c) PROVE Home'
  <2>1. \A d \in Clients : pc'[d] \in Bound =>
          pc[d] \in Bound /\ conn'[d] = conn[d] /\ mine'[d] = mine[d]
    BY <1>6 DEF Bound, Shape, PointShape, Exhausted, Fail, Goto
  <2>2. \A q \in Clients : Where(q)' \subseteq Where(q)
    BY <1>6 DEF Shape, PoolShape, Where, Exhausted, Fail, Goto
  <2> QED
    BY <2>1, <2>2, NoneBrought
<1>7. ASSUME NEW c \in Clients, Connect(c) PROVE Home'
  <2>1. \A d \in Clients : pc'[d] \in Bound =>
          pc[d] \in Bound /\ conn'[d] = conn[d] /\ mine'[d] = mine[d]
    BY <1>7 DEF Bound, Shape, PointShape, Connect, Goto
  <2>2. \A q \in Clients : Where(q)' \subseteq Where(q)
    BY <1>7 DEF Shape, PoolShape, Where, Connect, Goto
  <2> QED
    BY <2>1, <2>2, NoneBrought
<1>8. ASSUME NEW c \in Clients, Connected(c) PROVE Home'
  <2>1. PICK k \in Conns : Free(k) /\ Take(c, mine[c], k)
    BY <1>8 DEF Connected
  <2>2. PICK p \in Clients : p = mine[c]
    BY <1>8 DEF Connected, Shape, Rooted
  <2>3. idle' = idle /\ mine' = mine
    BY <1>8 DEF Connected
  <2>4. \A q \in Clients : Where(q)' \subseteq Where(q) \cup (IF q = p THEN {k} ELSE {})
    BY <2>1, <2>2, <2>3 DEF Where, Take, Shape, PoolShape
  <2>5. \A q \in Clients \ {p} : k \notin Where(q)
    BY <2>1 DEF Free, Where
  <2>6. \A d \in Clients : pc'[d] \in Bound => /\ pc[d] \in Bound /\ conn'[d] = conn[d] /\ mine'[d] = mine[d]
                                                  /\ conn[d] # k
    BY <2>1, <2>3 DEF Free, Take, Goto, Bound, Shape, PointShape
  <2> QED
    BY <2>4, <2>5, <2>6, OneBrought
<1>9. ASSUME NEW c \in Clients, ConnectFails(c) PROVE Home'
  <2>1. \A d \in Clients : pc'[d] \in Bound =>
          pc[d] \in Bound /\ conn'[d] = conn[d] /\ mine'[d] = mine[d]
    BY <1>9 DEF Bound, Shape, PointShape, ConnectFails, Fail, Goto
  <2>2. \A q \in Clients : Where(q)' \subseteq Where(q)
    BY <1>9 DEF Shape, PoolShape, Where, ConnectFails, Fail, Goto
  <2> QED
    BY <2>1, <2>2, NoneBrought
<1>10. ASSUME NEW c \in Clients, Work(c) PROVE Home'
  <2>1. \A d \in Clients : pc'[d] \in Bound =>
          pc[d] \in Bound /\ conn'[d] = conn[d] /\ mine'[d] = mine[d]
    BY <1>10 DEF Bound, Shape, PointShape, Work, Goto
  <2>2. \A q \in Clients : Where(q)' \subseteq Where(q)
    BY <1>10 DEF Shape, PoolShape, Where, Work, Goto
  <2> QED
    BY <2>1, <2>2, NoneBrought
<1>11. ASSUME NEW c \in Clients, WorkFails(c) PROVE Home'
  <2>1. \A d \in Clients : pc'[d] \in Bound =>
          pc[d] \in Bound /\ conn'[d] = conn[d] /\ mine'[d] = mine[d]
    BY <1>11 DEF Bound, Shape, PointShape, WorkFails, Goto
  <2>2. \A q \in Clients : Where(q)' \subseteq Where(q)
    BY <1>11 DEF Shape, PoolShape, Where, WorkFails, Goto
  <2> QED
    BY <2>1, <2>2, NoneBrought
<1>12. ASSUME NEW c \in Clients, Unkeyed(c) PROVE Home'
  <2>1. \A d \in Clients : pc'[d] \in Bound =>
          pc[d] \in Bound /\ conn'[d] = conn[d] /\ mine'[d] = mine[d]
    BY <1>12 DEF Bound, Shape, PointShape, Unkeyed, Fail, Goto
  <2>2. \A q \in Clients : Where(q)' \subseteq Where(q)
    BY <1>12 DEF Shape, PoolShape, Where, Unkeyed, Fail, Goto
  <2> QED
    BY <2>1, <2>2, NoneBrought
<1>13. ASSUME NEW c \in Clients, PutClosed(c) PROVE Home'
  <2>1. \A d \in Clients : pc'[d] \in Bound =>
          pc[d] \in Bound /\ conn'[d] = conn[d] /\ mine'[d] = mine[d]
    BY <1>13 DEF Bound, Shape, PointShape, PutClosed, Goto
  <2>2. \A q \in Clients : Where(q)' \subseteq Where(q)
    BY <1>13 DEF Shape, PoolShape, Where, PutClosed, Goto
  <2> QED
    BY <2>1, <2>2, NoneBrought
<1>14. ASSUME NEW c \in Clients, Book(c) PROVE Home'
  <2>1. mine[c] \in Clients /\ conn[c] \in Conns /\ pc[c] = "book" /\ Take(c, mine[c], conn[c])
    BY <1>14 DEF Book, Shape, Rooted, PointShape, Holding, InUse
  <2>2. idle' = idle /\ mine' = mine
    BY <1>14 DEF Book
  <2>3. \A q \in Clients : Where(q)' \subseteq Where(q) \cup (IF q = mine[c] THEN {conn[c]} ELSE {})
    BY <2>1, <2>2 DEF Where, Take, Shape, PoolShape
  <2>4. \A q \in Clients \ {mine[c]} : conn[c] \notin Where(q)
    BY <2>1 DEF Home, Bound
  <2>5. \A d \in Clients : pc'[d] \in Bound =>
          d # c /\ pc[d] \in Bound /\ conn'[d] = conn[d] /\ mine'[d] = mine[d]
    BY <2>1, <2>2 DEF Take, Goto, Bound, Shape, PointShape
  <2>6. \A d \in Clients \ {c} : pc[d] \in Bound => conn[d] # conn[c]
    BY <2>1 DEF Owners, Exclusive, InUse, Bound
  <2> QED
    BY <2>1, <2>3, <2>4, <2>5, <2>6, OneBrought
<1>15. ASSUME NEW c \in Clients, Keep(c) PROVE Home'
  <2>1. pool \in Clients /\ conn[c] \in keyed[pool]
    BY <1>15 DEF Keep, Shape, Rooted, InUse
  <2>2. \A q \in Clients : Where(q)' = Where(q)
    BY <1>15 DEF Keep, Where
  <2>3. /\ \A d \in Clients \ {c} : pc'[d] = pc[d] /\ conn'[d] = conn[d] /\ mine'[d] = mine[d]
        /\ conn'[c] = conn[c] /\ mine'[c] = pool
    BY <1>15 DEF Keep, Goto, Bound, Shape, PointShape
  <2>4. \A q \in Clients : q # pool => conn[c] \notin Where(q)
    BY <2>1 DEF Home, Where
  <2> QED
    BY <2>2, <2>3, <2>4 DEF Home
<1>16. ASSUME NEW c \in Clients, PutIdle(c) PROVE Home'
  <2>1. mine[c] \in Clients /\ conn[c] \in Conns /\ pc[c] = "keep"
    BY <1>16 DEF PutIdle, Shape, Rooted, PointShape, Holding, InUse
  <2>2. Range(idle'[mine[c]]) = Range(idle[mine[c]]) \cup {conn[c]} /\ \A q \in Clients \ {mine[c]} : idle'[q] = idle[q]
    BY <1>16, <2>1, WithOneMore DEF PutIdle, GiveBack, Shape, PoolShape
  <2>3. keyed' = keyed
    BY <1>16 DEF PutIdle
  <2>4. \A q \in Clients : Where(q)' \subseteq Where(q) \cup (IF q = mine[c] THEN {conn[c]} ELSE {})
    BY <2>1, <2>2, <2>3 DEF Where
  <2>5. \A q \in Clients \ {mine[c]} : conn[c] \notin Where(q)
    BY <2>1 DEF Home, Bound
  <2>6. \A d \in Clients : pc'[d] \in Bound =>
          d # c /\ pc[d] \in Bound /\ conn'[d] = conn[d] /\ mine'[d] = mine[d]
    BY <1>16 DEF PutIdle, Goto, Bound, Shape, PointShape
  <2>7. \A d \in Clients \ {c} : pc[d] \in Bound => conn[d] # conn[c]
    BY <2>1 DEF Owners, Exclusive, InUse, Bound
  <2>8. \A d \in Clients : pc'[d] \in Bound => /\ pc[d] \in Bound /\ conn'[d] = conn[d] /\ mine'[d] = mine[d]
                                                  /\ conn[d] # conn[c]
    BY <2>6, <2>7
  <2> QED
    BY <2>1, <2>4, <2>5, <2>8, OneBrought
<1>17. ASSUME NEW c \in Clients, RollbackFails(c) PROVE Home'
  <2>1. \A d \in Clients : pc'[d] \in Bound =>
          pc[d] \in Bound /\ conn'[d] = conn[d] /\ mine'[d] = mine[d]
    BY <1>17 DEF Bound, Shape, PointShape, RollbackFails, Fail, Goto
  <2>2. \A q \in Clients : Where(q)' \subseteq Where(q)
    BY <1>17 DEF Shape, PoolShape, Where, RollbackFails, Fail, Goto
  <2> QED
    BY <2>1, <2>2, NoneBrought
<1>18. ASSUME NEW c \in Clients, Forget(c) PROVE Home'
  <2>1. \A d \in Clients : pc'[d] \in Bound =>
          pc[d] \in Bound /\ conn'[d] = conn[d] /\ mine'[d] = mine[d]
    BY <1>18 DEF Bound, Shape, PointShape, Forget, Unbook, Goto
  <2>2. \A q \in Clients : Where(q)' \subseteq Where(q)
    BY <1>18 DEF Shape, PoolShape, Where, Forget, Unbook, Goto
  <2> QED
    BY <2>1, <2>2, NoneBrought
<1>19. ASSUME NEW c \in Clients, ForgetFails(c) PROVE Home'
  <2>1. \A d \in Clients : pc'[d] \in Bound =>
          pc[d] \in Bound /\ conn'[d] = conn[d] /\ mine'[d] = mine[d]
    BY <1>19 DEF Bound, Shape, PointShape, ForgetFails, Unbook, Fail, Goto
  <2>2. \A q \in Clients : Where(q)' \subseteq Where(q)
    BY <1>19 DEF Shape, PoolShape, Where, ForgetFails, Unbook, Fail, Goto
  <2> QED
    BY <2>1, <2>2, NoneBrought
<1>20. CASE DbRestart
  <2>1. \A d \in Clients : pc'[d] \in Bound =>
          pc[d] \in Bound /\ conn'[d] = conn[d] /\ mine'[d] = mine[d]
    BY <1>20 DEF Bound, Shape, PointShape, DbRestart
  <2>2. \A q \in Clients : Where(q)' \subseteq Where(q)
    BY <1>20 DEF Shape, PoolShape, Where, DbRestart
  <2> QED
    BY <2>1, <2>2, NoneBrought
<1>21. CASE UNCHANGED vars
  <2>1. \A d \in Clients : pc'[d] \in Bound =>
          pc[d] \in Bound /\ conn'[d] = conn[d] /\ mine'[d] = mine[d]
    BY <1>21 DEF Bound, Shape, PointShape, vars
  <2>2. \A q \in Clients : Where(q)' \subseteq Where(q)
    BY <1>21 DEF Shape, PoolShape, Where, vars
  <2> QED
    BY <2>1, <2>2, NoneBrought
<1>22. ASSUME NEW c \in Clients, StatementFails(c) PROVE Home'
  <2>1. \A d \in Clients : pc'[d] \in Bound =>
          pc[d] \in Bound /\ conn'[d] = conn[d] /\ mine'[d] = mine[d]
    BY <1>22 DEF Bound, Shape, PointShape, StatementFails, Goto
  <2>2. \A q \in Clients : Where(q)' \subseteq Where(q)
    BY <1>22 DEF Shape, PoolShape, Where, StatementFails, Goto
  <2> QED
    BY <2>1, <2>2, NoneBrought
<1> QED
  BY <1>1, <1>2, <1>3, <1>4, <1>5, <1>6, <1>7, <1>8, <1>9, <1>10, <1>11,
     <1>12, <1>13, <1>14, <1>15, <1>16, <1>17, <1>18, <1>19, <1>20, <1>21, <1>22
     DEF Next, Enter, Do, Exit

-----------------------------------------------------------------------------
(***************************************************************************)
(* Until a client takes a connection whose return is not over, the books   *)
(* are right about every connection that is being returned.                *)
(***************************************************************************)
Holders == InUse \cup {"forget"}

Apart == ~met =>
    /\ \A c \in Clients : pc[c] \in {"keep", "forget"} => conn[c] \in keyed[mine[c]]
    /\ \A c, d \in Clients : c # d /\ pc[c] \in Holders /\ pc[d] \in Holders => conn[c] # conn[d]
    /\ \A c, q \in Clients : pc[c] = "book" => conn[c] \notin keyed[q]

\* A step that brings no connection to a client and strikes none out.
LEMMA NoneHeld ==
    ASSUME Apart, met => met', \A q \in Clients : keyed'[q] = keyed[q],
           \A d \in Clients : pc'[d] \in Holders => pc[d] \in Holders /\ conn'[d] = conn[d] /\ (pc'[d] = "book" => pc[d] = "book"),
           \A d \in Clients : pc'[d] \in {"keep", "forget"} =>
             mine'[d] \in Clients /\ (conn'[d] \in keyed[mine'[d]] \/ ((pc[d] = pc'[d] \/ pc[d] = "keep") /\ mine'[d] = mine[d]))
    PROVE  Apart'
<1>1. ASSUME ~met', NEW d \in Clients, pc'[d] \in {"keep", "forget"} PROVE conn'[d] \in keyed'[mine'[d]]
  BY <1>1 DEF Apart, Holders, InUse
<1>2. ~met' => \A c, d \in Clients : c # d /\ pc'[c] \in Holders /\ pc'[d] \in Holders => conn'[c] # conn'[d]
  BY DEF Apart
<1>3. ~met' => \A c, q \in Clients : pc'[c] = "book" => conn'[c] \notin keyed'[q]
  BY DEF Apart, Holders, InUse
<1> QED
  BY <1>1, <1>2, <1>3 DEF Apart

\* A client takes a connection that nobody has.
LEMMA OneHeld ==
    ASSUME Apart, Shape, met => met', NEW c \in Clients, NEW k \in Conns, NEW x \in {"book", "block"},
           conn' = [conn EXCEPT ![c] = k], pc' = [pc EXCEPT ![c] = x],
           \A d \in Clients \ {c} : mine'[d] = mine[d],
           \A q \in Clients : keyed[q] \subseteq keyed'[q] /\ keyed'[q] \subseteq keyed[q] \cup {k},
           ~met' => \A d \in Clients \ {c} : pc[d] \in Holders => conn[d] # k,
           ~met' /\ x = "book" => \A q \in Clients : k \notin keyed'[q]
    PROVE  Apart'
<1>1. conn'[c] = k /\ pc'[c] = x /\ \A d \in Clients \ {c} : conn'[d] = conn[d] /\ pc'[d] = pc[d]
  BY DEF Shape, PointShape
<1>2. ASSUME ~met', NEW d \in Clients, pc'[d] \in {"keep", "forget"} PROVE conn'[d] \in keyed'[mine'[d]]
  <2>1. d # c /\ pc[d] \in {"keep", "forget"} /\ conn'[d] = conn[d] /\ mine'[d] = mine[d]
    BY <1>1, <1>2
  <2>2. mine[d] \in Clients
    BY <2>1 DEF Shape, Rooted
  <2> QED
    BY <1>2, <2>1, <2>2 DEF Apart
<1>3. ~met' => \A d, e \in Clients : d # e /\ pc'[d] \in Holders /\ pc'[e] \in Holders => conn'[d] # conn'[e]
  BY <1>1 DEF Apart
<1>4. ASSUME ~met', NEW d \in Clients, NEW q \in Clients, pc'[d] = "book" PROVE conn'[d] \notin keyed'[q]
  <2>1. CASE d = c
    BY <1>1, <1>4, <2>1
  <2>2. CASE d # c
    <3>1. pc[d] = "book" /\ conn'[d] = conn[d] /\ pc[d] \in Holders
      BY <1>1, <1>4, <2>2 DEF Holders, InUse
    <3> QED
      BY <1>4, <2>2, <3>1 DEF Apart
  <2> QED
    BY <2>1, <2>2
<1> QED
  BY <1>2, <1>3, <1>4 DEF Apart

\* A client ends its return.
LEMMA OneLess ==
    ASSUME Apart, Shape, NEW c \in Clients, pc[c] = "forget", met' = met,
           keyed' = [keyed EXCEPT ![mine[c]] = @ \ {conn[c]}], pc'[c] \notin Holders,
           \A d \in Clients \ {c} : pc'[d] = pc[d] /\ conn'[d] = conn[d] /\ mine'[d] = mine[d]
    PROVE  Apart'
<1>1. ASSUME ~met, NEW d \in Clients, pc'[d] \in {"keep", "forget"} PROVE conn'[d] \in keyed'[mine'[d]]
  <2>1. d # c /\ pc[d] \in {"keep", "forget"} /\ conn'[d] = conn[d] /\ mine'[d] = mine[d]
    BY <1>1 DEF Holders, InUse
  <2>2. mine[d] \in Clients /\ mine[c] \in Clients /\ conn[d] \in keyed[mine[d]] /\ conn[d] # conn[c]
    BY <1>1, <2>1 DEF Shape, Rooted, Apart, Holders, InUse
  <2> QED
    BY <2>1, <2>2 DEF Shape, PoolShape
<1>2. ~met => \A d, e \in Clients : d # e /\ pc'[d] \in Holders /\ pc'[e] \in Holders => conn'[d] # conn'[e]
  BY DEF Apart
<1>3. \A q \in Clients : keyed'[q] \subseteq keyed[q]
  BY DEF Shape, PoolShape
<1>4. ~met => \A d, q \in Clients : pc'[d] = "book" => conn'[d] \notin keyed'[q]
  BY <1>3 DEF Apart, Holders, InUse
<1> QED
  BY <1>1, <1>2, <1>4 DEF Apart

\* Two clients hold two connections.
LEMMA ApartStep ==
    ASSUME Shape, Owners, Home, Apart, [Next]_vars PROVE Apart'
<1>1. ASSUME NEW t \in Threads, Start(t) PROVE Apart'
  <2>1. met' = met /\ keyed' = keyed
    BY <1>1 DEF Start, Begin, Goto
  <2>2. \A d \in Clients : pc'[d] \in Holders => pc[d] \in Holders /\ conn'[d] = conn[d] /\ (pc'[d] = "book" => pc[d] = "book")
    BY <1>1 DEF Shape, PointShape, Holders, InUse, Start, Begin, Goto
  <2>3. \A d \in Clients : pc'[d] \in {"keep", "forget"} =>
          mine'[d] \in Clients /\ (conn'[d] \in keyed[mine'[d]] \/ ((pc[d] = pc'[d] \/ pc[d] = "keep") /\ mine'[d] = mine[d]))
    BY <1>1 DEF Shape, PoolShape, PointShape, Rooted, InUse, Start, Begin, Goto
  <2> QED
    BY <2>1, <2>2, <2>3, NoneHeld
<1>2. CASE Prune
  <2>1. met' = met /\ keyed' = keyed
    BY <1>2 DEF Prune, Begin, Goto
  <2>2. \A d \in Clients : pc'[d] \in Holders => pc[d] \in Holders /\ conn'[d] = conn[d] /\ (pc'[d] = "book" => pc[d] = "book")
    BY <1>2 DEF Shape, PointShape, Holders, InUse, Prune, Begin, Goto
  <2>3. \A d \in Clients : pc'[d] \in {"keep", "forget"} =>
          mine'[d] \in Clients /\ (conn'[d] \in keyed[mine'[d]] \/ ((pc[d] = pc'[d] \/ pc[d] = "keep") /\ mine'[d] = mine[d]))
    BY <1>2 DEF Shape, PoolShape, PointShape, Rooted, InUse, Prune, Begin, Goto
  <2> QED
    BY <2>1, <2>2, <2>3, NoneHeld
<1>3. ASSUME NEW c \in Clients, NoPool(c) PROVE Apart'
  <2>1. met' = met /\ keyed' = keyed
    BY <1>3 DEF NoPool, Goto
  <2>2. \A d \in Clients : pc'[d] \in Holders => pc[d] \in Holders /\ conn'[d] = conn[d] /\ (pc'[d] = "book" => pc[d] = "book")
    BY <1>3 DEF Shape, PointShape, Holders, InUse, NoPool, Goto
  <2>3. \A d \in Clients : pc'[d] \in {"keep", "forget"} =>
          mine'[d] \in Clients /\ (conn'[d] \in keyed[mine'[d]] \/ ((pc[d] = pc'[d] \/ pc[d] = "keep") /\ mine'[d] = mine[d]))
    BY <1>3 DEF Shape, PoolShape, PointShape, Rooted, InUse, NoPool, Goto
  <2> QED
    BY <2>1, <2>2, <2>3, NoneHeld
<1>4. ASSUME NEW c \in Clients, MakePool(c) PROVE Apart'
  <2>1. met' = met /\ keyed' = keyed
    BY <1>4 DEF MakePool, Goto
  <2>2. \A d \in Clients : pc'[d] \in Holders => pc[d] \in Holders /\ conn'[d] = conn[d] /\ (pc'[d] = "book" => pc[d] = "book")
    BY <1>4 DEF Shape, PointShape, Holders, InUse, MakePool, Goto
  <2>3. \A d \in Clients : pc'[d] \in {"keep", "forget"} =>
          mine'[d] \in Clients /\ (conn'[d] \in keyed[mine'[d]] \/ ((pc[d] = pc'[d] \/ pc[d] = "keep") /\ mine'[d] = mine[d]))
    BY <1>4 DEF Shape, PoolShape, PointShape, Rooted, InUse, MakePool, Goto
  <2> QED
    BY <2>1, <2>2, <2>3, NoneHeld
<1>5. ASSUME NEW c \in Clients, GetIdle(c) PROVE Apart'
  <2>1. PICK p \in Clients : /\ idle[p] # <<>> /\ conn' = [conn EXCEPT ![c] = Last(idle[p])]
                              /\ mine' = [mine EXCEPT ![c] = p]
                              /\ met' = (met \/ Last(idle[p]) \in keyed[p])
    BY <1>5 DEF GetIdle
  <2> DEFINE k == Last(idle[p])
  <2>2. k \in Conns /\ k \in Range(idle[p])
    BY <2>1, WithoutLast DEF Shape, PoolShape
  <2>3. conn' = [conn EXCEPT ![c] = k] /\ pc' = [pc EXCEPT ![c] = "book"] /\ keyed' = keyed
    BY <1>5, <2>1 DEF GetIdle, Goto
  <2>4. ~met' => ~met /\ k \notin keyed[p]
    BY <2>1
  <2>5. \A d \in Clients \ {c} : mine'[d] = mine[d]
    BY <2>1 DEF Shape, PointShape
  <2> HIDE DEF k
  <2>6. ASSUME ~met', NEW d \in Clients, pc[d] \in Holders PROVE conn[d] # k
    <3>1. CASE pc[d] \in InUse
      BY <2>2, <3>1 DEF Owners, Exclusive
    <3>2. CASE pc[d] = "forget"
      <4>1. mine[d] \in Clients /\ conn[d] \in keyed[mine[d]]
        BY <2>4, <2>6, <3>2 DEF Shape, Rooted, Apart
      <4>2. k \in Where(p) /\ conn[d] \in Where(mine[d])
        BY <2>2, <4>1 DEF Where
      <4>3. p # mine[d] => Where(p) \cap Where(mine[d]) = {}
        BY <4>1 DEF Home
      <4> QED
        BY <2>4, <2>6, <4>1, <4>2, <4>3
    <3> QED
      BY <2>6, <3>1, <3>2 DEF Holders
  <2>7. ~met' => \A q \in Clients : k \notin keyed[q]
    BY <2>2, <2>4 DEF Home, Where
  <2>8. "book" \in {"book", "block"} /\ (met => met')
    BY <2>1
  <2> QED
    BY <2>2, <2>3, <2>5, <2>6, <2>7, <2>8, OneHeld
<1>6. ASSUME NEW c \in Clients, Exhausted(c) PROVE Apart'
  <2>1. met' = met /\ keyed' = keyed
    BY <1>6 DEF Exhausted, Fail, Goto
  <2>2. \A d \in Clients : pc'[d] \in Holders => pc[d] \in Holders /\ conn'[d] = conn[d] /\ (pc'[d] = "book" => pc[d] = "book")
    BY <1>6 DEF Shape, PointShape, Holders, InUse, Exhausted, Fail, Goto
  <2>3. \A d \in Clients : pc'[d] \in {"keep", "forget"} =>
          mine'[d] \in Clients /\ (conn'[d] \in keyed[mine'[d]] \/ ((pc[d] = pc'[d] \/ pc[d] = "keep") /\ mine'[d] = mine[d]))
    BY <1>6 DEF Shape, PoolShape, PointShape, Rooted, InUse, Exhausted, Fail, Goto
  <2> QED
    BY <2>1, <2>2, <2>3, NoneHeld
<1>7. ASSUME NEW c \in Clients, Connect(c) PROVE Apart'
  <2>1. met' = met /\ keyed' = keyed
    BY <1>7 DEF Connect, Goto
  <2>2. \A d \in Clients : pc'[d] \in Holders => pc[d] \in Holders /\ conn'[d] = conn[d] /\ (pc'[d] = "book" => pc[d] = "book")
    BY <1>7 DEF Shape, PointShape, Holders, InUse, Connect, Goto
  <2>3. \A d \in Clients : pc'[d] \in {"keep", "forget"} =>
          mine'[d] \in Clients /\ (conn'[d] \in keyed[mine'[d]] \/ ((pc[d] = pc'[d] \/ pc[d] = "keep") /\ mine'[d] = mine[d]))
    BY <1>7 DEF Shape, PoolShape, PointShape, Rooted, InUse, Connect, Goto
  <2> QED
    BY <2>1, <2>2, <2>3, NoneHeld
<1>8. ASSUME NEW c \in Clients, Connected(c) PROVE Apart'
  <2>1. PICK k \in Conns : Free(k) /\ Take(c, mine[c], k)
    BY <1>8 DEF Connected
  <2>2. met' = met /\ mine' = mine /\ mine[c] \in Clients
    BY <1>8 DEF Connected, Shape, Rooted
  <2>3. conn' = [conn EXCEPT ![c] = k] /\ pc' = [pc EXCEPT ![c] = "block"]
    BY <2>1 DEF Take, Goto
  <2>4. \A q \in Clients : keyed[q] \subseteq keyed'[q] /\ keyed'[q] \subseteq keyed[q] \cup {k}
    BY <2>1, <2>2 DEF Take, Shape, PoolShape
  <2>5. \A d \in Clients : conn[d] # k
    BY <2>1 DEF Free
  <2>6. "block" \in {"book", "block"} /\ "block" # "book"
    OBVIOUS
  <2> QED
    BY <2>2, <2>3, <2>4, <2>5, <2>6, OneHeld
<1>9. ASSUME NEW c \in Clients, ConnectFails(c) PROVE Apart'
  <2>1. met' = met /\ keyed' = keyed
    BY <1>9 DEF ConnectFails, Fail, Goto
  <2>2. \A d \in Clients : pc'[d] \in Holders => pc[d] \in Holders /\ conn'[d] = conn[d] /\ (pc'[d] = "book" => pc[d] = "book")
    BY <1>9 DEF Shape, PointShape, Holders, InUse, ConnectFails, Fail, Goto
  <2>3. \A d \in Clients : pc'[d] \in {"keep", "forget"} =>
          mine'[d] \in Clients /\ (conn'[d] \in keyed[mine'[d]] \/ ((pc[d] = pc'[d] \/ pc[d] = "keep") /\ mine'[d] = mine[d]))
    BY <1>9 DEF Shape, PoolShape, PointShape, Rooted, InUse, ConnectFails, Fail, Goto
  <2> QED
    BY <2>1, <2>2, <2>3, NoneHeld
<1>10. ASSUME NEW c \in Clients, Work(c) PROVE Apart'
  <2>1. met' = met /\ keyed' = keyed
    BY <1>10 DEF Work, Goto
  <2>2. \A d \in Clients : pc'[d] \in Holders => pc[d] \in Holders /\ conn'[d] = conn[d] /\ (pc'[d] = "book" => pc[d] = "book")
    BY <1>10 DEF Shape, PointShape, Holders, InUse, Work, Goto
  <2>3. \A d \in Clients : pc'[d] \in {"keep", "forget"} =>
          mine'[d] \in Clients /\ (conn'[d] \in keyed[mine'[d]] \/ ((pc[d] = pc'[d] \/ pc[d] = "keep") /\ mine'[d] = mine[d]))
    BY <1>10 DEF Shape, PoolShape, PointShape, Rooted, InUse, Work, Goto
  <2> QED
    BY <2>1, <2>2, <2>3, NoneHeld
<1>11. ASSUME NEW c \in Clients, WorkFails(c) PROVE Apart'
  <2>1. met' = met /\ keyed' = keyed
    BY <1>11 DEF WorkFails, Goto
  <2>2. \A d \in Clients : pc'[d] \in Holders => pc[d] \in Holders /\ conn'[d] = conn[d] /\ (pc'[d] = "book" => pc[d] = "book")
    BY <1>11 DEF Shape, PointShape, Holders, InUse, WorkFails, Goto
  <2>3. \A d \in Clients : pc'[d] \in {"keep", "forget"} =>
          mine'[d] \in Clients /\ (conn'[d] \in keyed[mine'[d]] \/ ((pc[d] = pc'[d] \/ pc[d] = "keep") /\ mine'[d] = mine[d]))
    BY <1>11 DEF Shape, PoolShape, PointShape, Rooted, InUse, WorkFails, Goto
  <2> QED
    BY <2>1, <2>2, <2>3, NoneHeld
<1>12. ASSUME NEW c \in Clients, Unkeyed(c) PROVE Apart'
  <2>1. met' = met /\ keyed' = keyed
    BY <1>12 DEF Unkeyed, Fail, Goto
  <2>2. \A d \in Clients : pc'[d] \in Holders => pc[d] \in Holders /\ conn'[d] = conn[d] /\ (pc'[d] = "book" => pc[d] = "book")
    BY <1>12 DEF Shape, PointShape, Holders, InUse, Unkeyed, Fail, Goto
  <2>3. \A d \in Clients : pc'[d] \in {"keep", "forget"} =>
          mine'[d] \in Clients /\ (conn'[d] \in keyed[mine'[d]] \/ ((pc[d] = pc'[d] \/ pc[d] = "keep") /\ mine'[d] = mine[d]))
    BY <1>12 DEF Shape, PoolShape, PointShape, Rooted, InUse, Unkeyed, Fail, Goto
  <2> QED
    BY <2>1, <2>2, <2>3, NoneHeld
<1>13. ASSUME NEW c \in Clients, PutClosed(c) PROVE Apart'
  <2>1. /\ met' = met /\ keyed' = keyed /\ conn' = conn
        /\ pool \in Clients /\ conn[c] \in keyed[pool] /\ pc[c] \in Holders
    BY <1>13 DEF PutClosed, Shape, Rooted, Holders, InUse
  <2>2. mine'[c] = pool /\ pc'[c] = "forget" /\ \A d \in Clients \ {c} : mine'[d] = mine[d] /\ pc'[d] = pc[d]
    BY <1>13 DEF PutClosed, Goto, Shape, PointShape
  <2>3. \A d \in Clients : pc'[d] \in Holders => pc[d] \in Holders /\ conn'[d] = conn[d] /\ (pc'[d] = "book" => pc[d] = "book")
    BY <2>1, <2>2
  <2>4. ASSUME NEW d \in Clients, pc'[d] \in {"keep", "forget"}
        PROVE  mine'[d] \in Clients /\ (conn'[d] \in keyed[mine'[d]] \/ ((pc[d] = pc'[d] \/ pc[d] = "keep") /\ mine'[d] = mine[d]))
    <3>1. CASE d = c
      BY <2>1, <2>2, <3>1
    <3>2. CASE d # c
      <4>1. mine'[d] = mine[d] /\ pc'[d] = pc[d]
        BY <2>2, <3>2
      <4>2. mine[d] \in Clients
        BY <2>4, <4>1 DEF Shape, Rooted
      <4> QED
        BY <4>1, <4>2
    <3> QED
      BY <3>1, <3>2
  <2> QED
    BY <2>1, <2>3, <2>4, NoneHeld
<1>14. ASSUME NEW c \in Clients, Book(c) PROVE Apart'
  <2>1. /\ Take(c, mine[c], conn[c]) /\ mine[c] \in Clients /\ conn[c] \in Conns
        /\ met' = met /\ mine' = mine /\ pc[c] = "book"
    BY <1>14 DEF Book, Shape, Rooted, PointShape, Holding, InUse
  <2>2. conn' = [conn EXCEPT ![c] = conn[c]] /\ pc' = [pc EXCEPT ![c] = "block"]
    BY <2>1 DEF Take, Goto
  <2>3. \A q \in Clients : keyed[q] \subseteq keyed'[q] /\ keyed'[q] \subseteq keyed[q] \cup {conn[c]}
    BY <2>1 DEF Take, Shape, PoolShape
  <2>4. ~met' => \A d \in Clients \ {c} : pc[d] \in Holders => conn[d] # conn[c]
    BY <2>1 DEF Apart, Holders, InUse
  <2>5. "block" \in {"book", "block"} /\ "block" # "book"
    OBVIOUS
  <2> QED
    BY <2>1, <2>2, <2>3, <2>4, <2>5, OneHeld
<1>15. ASSUME NEW c \in Clients, Keep(c) PROVE Apart'
  <2>1. /\ met' = met /\ keyed' = keyed /\ conn' = conn
        /\ pool \in Clients /\ conn[c] \in keyed[pool] /\ pc[c] \in Holders
    BY <1>15 DEF Keep, Shape, Rooted, Holders, InUse
  <2>2. mine'[c] = pool /\ pc'[c] = "keep" /\ \A d \in Clients \ {c} : mine'[d] = mine[d] /\ pc'[d] = pc[d]
    BY <1>15 DEF Keep, Goto, Shape, PointShape
  <2>3. \A d \in Clients : pc'[d] \in Holders => pc[d] \in Holders /\ conn'[d] = conn[d] /\ (pc'[d] = "book" => pc[d] = "book")
    BY <2>1, <2>2
  <2>4. ASSUME NEW d \in Clients, pc'[d] \in {"keep", "forget"}
        PROVE  mine'[d] \in Clients /\ (conn'[d] \in keyed[mine'[d]] \/ ((pc[d] = pc'[d] \/ pc[d] = "keep") /\ mine'[d] = mine[d]))
    <3>1. CASE d = c
      BY <2>1, <2>2, <3>1
    <3>2. CASE d # c
      <4>1. mine'[d] = mine[d] /\ pc'[d] = pc[d]
        BY <2>2, <3>2
      <4>2. mine[d] \in Clients
        BY <2>4, <4>1 DEF Shape, Rooted
      <4> QED
        BY <4>1, <4>2
    <3> QED
      BY <3>1, <3>2
  <2> QED
    BY <2>1, <2>3, <2>4, NoneHeld
<1>16. ASSUME NEW c \in Clients, PutIdle(c) PROVE Apart'
  <2>1. met' = met /\ keyed' = keyed
    BY <1>16 DEF PutIdle, GiveBack, Goto
  <2>2. \A d \in Clients : pc'[d] \in Holders => pc[d] \in Holders /\ conn'[d] = conn[d] /\ (pc'[d] = "book" => pc[d] = "book")
    BY <1>16 DEF Shape, PointShape, Holders, InUse, PutIdle, GiveBack, Goto
  <2>3. \A d \in Clients : pc'[d] \in {"keep", "forget"} =>
          mine'[d] \in Clients /\ (conn'[d] \in keyed[mine'[d]] \/ ((pc[d] = pc'[d] \/ pc[d] = "keep") /\ mine'[d] = mine[d]))
    BY <1>16 DEF Shape, PoolShape, PointShape, Rooted, InUse, PutIdle, GiveBack, Goto
  <2> QED
    BY <2>1, <2>2, <2>3, NoneHeld
<1>17. ASSUME NEW c \in Clients, RollbackFails(c) PROVE Apart'
  <2>1. met' = met /\ keyed' = keyed
    BY <1>17 DEF RollbackFails, Fail, Goto
  <2>2. \A d \in Clients : pc'[d] \in Holders => pc[d] \in Holders /\ conn'[d] = conn[d] /\ (pc'[d] = "book" => pc[d] = "book")
    BY <1>17 DEF Shape, PointShape, Holders, InUse, RollbackFails, Fail, Goto
  <2>3. \A d \in Clients : pc'[d] \in {"keep", "forget"} =>
          mine'[d] \in Clients /\ (conn'[d] \in keyed[mine'[d]] \/ ((pc[d] = pc'[d] \/ pc[d] = "keep") /\ mine'[d] = mine[d]))
    BY <1>17 DEF Shape, PoolShape, PointShape, Rooted, InUse, RollbackFails, Fail, Goto
  <2> QED
    BY <2>1, <2>2, <2>3, NoneHeld
<1>18. ASSUME NEW c \in Clients, Forget(c) PROVE Apart'
  <2>1. pc[c] = "forget" /\ met' = met /\ keyed' = [keyed EXCEPT ![mine[c]] = @ \ {conn[c]}] /\ pc'[c] \notin Holders
    BY <1>18 DEF Forget, Unbook, Goto, Shape, PointShape, Holders, InUse
  <2>2. \A d \in Clients \ {c} : pc'[d] = pc[d] /\ conn'[d] = conn[d] /\ mine'[d] = mine[d]
    BY <1>18 DEF Forget, Goto, Shape, PointShape
  <2> QED
    BY <2>1, <2>2, OneLess
<1>19. ASSUME NEW c \in Clients, ForgetFails(c) PROVE Apart'
  <2>1. pc[c] = "forget" /\ met' = met /\ keyed' = [keyed EXCEPT ![mine[c]] = @ \ {conn[c]}] /\ pc'[c] \notin Holders
    BY <1>19 DEF ForgetFails, Fail, Unbook, Goto, Shape, PointShape, Holders, InUse
  <2>2. \A d \in Clients \ {c} : pc'[d] = pc[d] /\ conn'[d] = conn[d] /\ mine'[d] = mine[d]
    BY <1>19 DEF ForgetFails, Fail, Goto, Shape, PointShape
  <2> QED
    BY <2>1, <2>2, OneLess
<1>20. CASE DbRestart
  <2>1. met' = met /\ keyed' = keyed
    BY <1>20 DEF DbRestart
  <2>2. \A d \in Clients : pc'[d] \in Holders => pc[d] \in Holders /\ conn'[d] = conn[d] /\ (pc'[d] = "book" => pc[d] = "book")
    BY <1>20 DEF Shape, PointShape, Holders, InUse, DbRestart
  <2>3. \A d \in Clients : pc'[d] \in {"keep", "forget"} =>
          mine'[d] \in Clients /\ (conn'[d] \in keyed[mine'[d]] \/ ((pc[d] = pc'[d] \/ pc[d] = "keep") /\ mine'[d] = mine[d]))
    BY <1>20 DEF Shape, PoolShape, PointShape, Rooted, InUse, DbRestart
  <2> QED
    BY <2>1, <2>2, <2>3, NoneHeld
<1>21. CASE UNCHANGED vars
  <2>1. met' = met /\ keyed' = keyed
    BY <1>21 DEF vars
  <2>2. \A d \in Clients : pc'[d] \in Holders => pc[d] \in Holders /\ conn'[d] = conn[d] /\ (pc'[d] = "book" => pc[d] = "book")
    BY <1>21 DEF Shape, PointShape, Holders, InUse, vars
  <2>3. \A d \in Clients : pc'[d] \in {"keep", "forget"} =>
          mine'[d] \in Clients /\ (conn'[d] \in keyed[mine'[d]] \/ ((pc[d] = pc'[d] \/ pc[d] = "keep") /\ mine'[d] = mine[d]))
    BY <1>21 DEF Shape, PoolShape, PointShape, Rooted, InUse, vars
  <2> QED
    BY <2>1, <2>2, <2>3, NoneHeld
<1>22. ASSUME NEW c \in Clients, StatementFails(c) PROVE Apart'
  <2>1. met' = met /\ keyed' = keyed
    BY <1>22 DEF StatementFails, Goto
  <2>2. \A d \in Clients : pc'[d] \in Holders => pc[d] \in Holders /\ conn'[d] = conn[d] /\ (pc'[d] = "book" => pc[d] = "book")
    BY <1>22 DEF Shape, PointShape, Holders, InUse, StatementFails, Goto
  <2>3. \A d \in Clients : pc'[d] \in {"keep", "forget"} =>
          mine'[d] \in Clients /\ (conn'[d] \in keyed[mine'[d]] \/ ((pc[d] = pc'[d] \/ pc[d] = "keep") /\ mine'[d] = mine[d]))
    BY <1>22 DEF Shape, PoolShape, PointShape, Rooted, InUse, StatementFails, Goto
  <2> QED
    BY <2>1, <2>2, <2>3, NoneHeld
<1> QED
  BY <1>1, <1>2, <1>3, <1>4, <1>5, <1>6, <1>7, <1>8, <1>9, <1>10, <1>11,
     <1>12, <1>13, <1>14, <1>15, <1>16, <1>17, <1>18, <1>19, <1>20, <1>21, <1>22
     DEF Next, Enter, Do, Exit

-----------------------------------------------------------------------------
(***************************************************************************)
(* A pool that is not yet made is not used.                                *)
(***************************************************************************)
Fresh(c) == used[c] = 0 /\ keyed[c] = {} /\ pool # c /\ \A d \in Clients : mine[d] # c

Unmade == \A c \in Clients : pc[c] = "making" \/ pool = NoOne => Fresh(c)

\* Nobody uses a pool before it is made.
LEMMA UnmadeStep ==
    ASSUME Shape, Unmade, [Next]_vars PROVE Unmade'
<1>1. ASSUME NEW t \in Threads, Start(t) PROVE Unmade'
  <2>1. UNCHANGED <<pool, used, keyed, mine>> /\ pc' = [pc EXCEPT ![t] = "enter"]
    BY <1>1 DEF Start, Begin, Goto
  <2>2. \A d \in Clients : pc'[d] = "making" => pc[d] = "making"
    BY <2>1 DEF Shape, PointShape
  <2> QED
    BY <2>1, <2>2 DEF Unmade, Fresh
<1>2. CASE Prune
  <2>1. UNCHANGED <<pool, used, keyed, mine>> /\ pc' = [pc EXCEPT ![Loop] = "enter"]
    BY <1>2 DEF Prune, Begin, Goto
  <2>2. \A d \in Clients : pc'[d] = "making" => pc[d] = "making"
    BY <2>1 DEF Shape, PointShape
  <2> QED
    BY <2>1, <2>2 DEF Unmade, Fresh
<1>3. ASSUME NEW c \in Clients, NoPool(c) PROVE Unmade'
  BY <1>3, Constants DEF Shape, PoolShape, PointShape, Rooted, Unmade, Fresh, InUse, NoPool, Goto
<1>4. ASSUME NEW c \in Clients, MakePool(c) PROVE Unmade'
  <2>1. pool' = c /\ UNCHANGED <<used, keyed>> /\ c # NoOne
    BY <1>4, Constants DEF MakePool
  <2>2. \A d \in Clients : pc'[d] = "making" => d # c /\ pc[d] = "making"
    BY <1>4 DEF MakePool, Goto, Shape, PointShape
  <2>3. \A d, e \in Clients : mine'[e] = d => mine[e] = d \/ d = c
    BY <1>4 DEF MakePool, Shape, PointShape
  <2> QED
    BY <2>1, <2>2, <2>3 DEF Unmade, Fresh
<1>5. ASSUME NEW c \in Clients, GetIdle(c) PROVE Unmade'
  <2>1. PICK p \in Clients : GetFrom(c, p) /\ mine' = [mine EXCEPT ![c] = p]
    BY <1>5 DEF GetIdle
  <2>2. UNCHANGED <<pool, used, keyed>> /\ pc' = [pc EXCEPT ![c] = "book"]
    BY <1>5 DEF GetIdle, Goto
  <2>3. \A d \in Clients : pc'[d] = "making" => pc[d] = "making"
    BY <2>2 DEF Shape, PointShape
  <2>4. \A d \in Clients : Fresh(d) => d # p
    BY <2>1 DEF GetFrom, Fresh
  <2>5. \A d \in Clients : Fresh(d) => Fresh(d)'
    BY <2>1, <2>2, <2>4 DEF Fresh, Shape, PointShape
  <2> QED
    BY <2>2, <2>3, <2>5 DEF Unmade
<1>6. ASSUME NEW c \in Clients, Exhausted(c) PROVE Unmade'
  BY <1>6, Constants DEF Shape, PoolShape, PointShape, Rooted, Unmade, Fresh, InUse, Exhausted, Fail, Goto
<1>7. ASSUME NEW c \in Clients, Connect(c) PROVE Unmade'
  <2>1. PICK p \in Clients : GetFrom(c, p) /\ mine' = [mine EXCEPT ![c] = p]
    BY <1>7 DEF Connect
  <2>2. UNCHANGED <<pool, used, keyed>> /\ \A d \in Clients : pc'[d] = "making" => pc[d] = "making"
    BY <1>7 DEF Connect, Goto, Shape, PointShape
  <2>3. \A d \in Clients : Fresh(d) => d # p
    BY <2>1 DEF GetFrom, Fresh
  <2>4. \A d \in Clients : Fresh(d) => Fresh(d)'
    BY <2>1, <2>2, <2>3 DEF Fresh, Shape, PointShape
  <2> QED
    BY <2>2, <2>4 DEF Unmade
<1>8. ASSUME NEW c \in Clients, Connected(c) PROVE Unmade'
  <2>1. PICK k \in Conns : Take(c, mine[c], k)
    BY <1>8 DEF Connected
  <2>2. mine' = mine /\ pool' = pool
    BY <1>8 DEF Connected
  <2>3. \A d \in Clients : pc'[d] = "making" => pc[d] = "making"
    BY <2>1 DEF Take, Goto, Shape, PointShape
  <2>4. \A d \in Clients : Fresh(d) => Fresh(d)'
    BY <2>1, <2>2 DEF Fresh, Take, Shape, PoolShape
  <2> QED
    BY <2>2, <2>3, <2>4 DEF Unmade
<1>9. ASSUME NEW c \in Clients, ConnectFails(c) PROVE Unmade'
  BY <1>9, Constants DEF Shape, PoolShape, PointShape, Rooted, Unmade, Fresh, InUse, ConnectFails, Fail, Goto
<1>10. ASSUME NEW c \in Clients, Work(c) PROVE Unmade'
  BY <1>10, Constants DEF Shape, PoolShape, PointShape, Rooted, Unmade, Fresh, InUse, Work, Goto
<1>11. ASSUME NEW c \in Clients, WorkFails(c) PROVE Unmade'
  BY <1>11, Constants DEF Shape, PoolShape, PointShape, Rooted, Unmade, Fresh, InUse, WorkFails, Goto
<1>12. ASSUME NEW c \in Clients, Unkeyed(c) PROVE Unmade'
  BY <1>12, Constants DEF Shape, PoolShape, PointShape, Rooted, Unmade, Fresh, InUse, Unkeyed, Fail, Goto
<1>13. ASSUME NEW c \in Clients, PutClosed(c) PROVE Unmade'
  BY <1>13, Constants DEF Shape, PoolShape, PointShape, Rooted, Unmade, Fresh, InUse, PutClosed, Goto
<1>14. ASSUME NEW c \in Clients, Book(c) PROVE Unmade'
  <2>1. Take(c, mine[c], conn[c]) /\ mine' = mine /\ pool' = pool
    BY <1>14 DEF Book
  <2>2. \A d \in Clients : pc'[d] = "making" => pc[d] = "making"
    BY <2>1 DEF Take, Goto, Shape, PointShape
  <2>3. \A d \in Clients : Fresh(d) => Fresh(d)'
    BY <2>1 DEF Fresh, Take, Shape, PoolShape
  <2> QED
    BY <2>1, <2>2, <2>3 DEF Unmade
<1>15. ASSUME NEW c \in Clients, Keep(c) PROVE Unmade'
  BY <1>15, Constants DEF Shape, PoolShape, PointShape, Rooted, Unmade, Fresh, InUse, Keep, Goto
<1>16. ASSUME NEW c \in Clients, PutIdle(c) PROVE Unmade'
  BY <1>16, Constants DEF Shape, PoolShape, PointShape, Rooted, Unmade, Fresh, InUse, PutIdle, GiveBack, Goto
<1>17. ASSUME NEW c \in Clients, RollbackFails(c) PROVE Unmade'
  BY <1>17, Constants DEF Shape, PoolShape, PointShape, Rooted, Unmade, Fresh, InUse, RollbackFails, Fail, Goto
<1>18. ASSUME NEW c \in Clients, Forget(c) PROVE Unmade'
  <2>1. /\ pool' = pool /\ used' = [used EXCEPT ![mine[c]] = @ - 1]
        /\ keyed' = [keyed EXCEPT ![mine[c]] = @ \ {conn[c]}] /\ \A d \in Clients : pc'[d] = "making" => pc[d] = "making"
    BY <1>18 DEF Forget, Unbook, Goto, Shape, PointShape
  <2>2. mine' = [mine EXCEPT ![c] = NoOne]
    BY <1>18 DEF Forget
  <2>3. \A d \in Clients : Fresh(d) => Fresh(d)'
    BY <2>1, <2>2, Constants DEF Fresh, Shape, PoolShape, PointShape
  <2> QED
    BY <2>1, <2>3 DEF Unmade
<1>19. ASSUME NEW c \in Clients, ForgetFails(c) PROVE Unmade'
  <2>1. /\ pool' = pool /\ used' = [used EXCEPT ![mine[c]] = @ - 1]
        /\ keyed' = [keyed EXCEPT ![mine[c]] = @ \ {conn[c]}] /\ \A d \in Clients : pc'[d] = "making" => pc[d] = "making"
    BY <1>19 DEF ForgetFails, Fail, Unbook, Goto, Shape, PointShape
  <2>2. mine' = [mine EXCEPT ![c] = NoOne]
    BY <1>19 DEF ForgetFails, Fail
  <2>3. \A d \in Clients : Fresh(d) => Fresh(d)'
    BY <2>1, <2>2, Constants DEF Fresh, Shape, PoolShape, PointShape
  <2> QED
    BY <2>1, <2>3 DEF Unmade
<1>20. CASE DbRestart
  BY <1>20, Constants DEF Shape, PoolShape, PointShape, Rooted, Unmade, Fresh, InUse, DbRestart
<1>21. CASE UNCHANGED vars
  BY <1>21, Constants DEF Shape, PoolShape, PointShape, Rooted, Unmade, Fresh, InUse, vars
<1>22. ASSUME NEW c \in Clients, StatementFails(c) PROVE Unmade'
  BY <1>22, Constants DEF Shape, PoolShape, PointShape, Rooted, Unmade, Fresh, InUse, StatementFails, Goto
<1> QED
  BY <1>1, <1>2, <1>3, <1>4, <1>5, <1>6, <1>7, <1>8, <1>9, <1>10, <1>11,
     <1>12, <1>13, <1>14, <1>15, <1>16, <1>17, <1>18, <1>19, <1>20, <1>21, <1>22
     DEF Next, Enter, Do, Exit

-----------------------------------------------------------------------------
(***************************************************************************)
(* The connections in use, the one that is being made or put on the books  *)
(* and the idle ones that are not on them make up at most a pool.          *)
(***************************************************************************)
Coming(p) == IF \E d \in Clients : pc[d] \in Taking /\ mine[d] = p THEN 1 ELSE 0
Spare(p)  == Range(idle[p]) \ keyed[p]
Load(p)   == used[p] + Coming(p) + Cardinality(Spare(p))

Limit == ~together /\ ~met =>
    /\ \A c, d \in Clients : pc[c] \in Taking /\ pc[d] \in Taking => c = d
    /\ \A p \in Clients : Load(p) <= MaxConn

\* The spare connections of a pool can be counted.
LEMMA SpareCounts ==
    ASSUME Shape, NEW p \in Clients
    PROVE  IsFiniteSet(Spare(p)) /\ Cardinality(Spare(p)) \in Nat /\ Coming(p) \in {0, 1} /\ Load(p) \in Int
           /\ used[p] \in Int /\ used[p] <= Load(p)
<1>1. Spare(p) \subseteq Conns
  BY RangeTyped DEF Spare, Shape, PoolShape
<1>2. IsFiniteSet(Spare(p)) /\ Cardinality(Spare(p)) \in Nat
  BY <1>1, Constants, FS_Subset, FS_CardinalityType
<1>3. Coming(p) \in {0, 1} /\ used[p] \in Int
  BY DEF Coming, Shape, PoolShape
<1>4. Load(p) = used[p] + Coming(p) + Cardinality(Spare(p))
  BY DEF Load
<1> QED
  BY <1>2, <1>3, <1>4

\* A step that puts no load on a pool.
LEMMA NoLoad ==
    ASSUME Shape, Limit, met' = met, together' = together,
           \A q \in Clients : used'[q] = used[q] /\ Spare(q)' = Spare(q),
           \A d \in Clients : pc'[d] \in Taking => pc[d] \in Taking /\ mine'[d] = mine[d]
    PROVE  Limit'
<1>1. ASSUME NEW p \in Clients, Load(p) <= MaxConn PROVE Load(p)' <= MaxConn
  <2>1. Coming(p)' \in {0, 1} /\ Coming(p)' <= Coming(p)
    BY DEF Coming
  <2>2. Load(p)' = used[p] + Coming(p)' + Cardinality(Spare(p))
    BY DEF Load
  <2> QED
    BY <1>1, <2>1, <2>2, SpareCounts, Constants DEF Load
<1>2. (\A c, d \in Clients : pc[c] \in Taking /\ pc[d] \in Taking => c = d)
        => \A c, d \in Clients : pc'[c] \in Taking /\ pc'[d] \in Taking => c = d
  OBVIOUS
<1> QED
  BY <1>1, <1>2 DEF Limit

\* A step that moves load within a pool, or takes some from it.
LEMMA LoadMoved ==
    ASSUME Shape, Limit, Shape', NEW p \in Clients, met => met', together' = together,
           ~met' /\ ~together' => used'[p] + Coming(p)' + Cardinality(Spare(p)') <= Load(p),
           \A q \in Clients \ {p} : used'[q] = used[q] /\ Spare(q)' = Spare(q),
           \A d \in Clients : pc'[d] \in Taking => pc[d] \in Taking /\ mine'[d] = mine[d]
    PROVE  Limit'
<1>1. ASSUME NEW q \in Clients \ {p}, Load(q) <= MaxConn PROVE Load(q)' <= MaxConn
  <2>1. Coming(q)' \in {0, 1} /\ Coming(q)' <= Coming(q)
    BY DEF Coming
  <2>2. Load(q)' = used[q] + Coming(q)' + Cardinality(Spare(q))
    BY DEF Load
  <2> QED
    BY <1>1, <2>1, <2>2, SpareCounts, Constants DEF Load
<1>2. ASSUME ~met', ~together', Load(p) <= MaxConn PROVE Load(p)' <= MaxConn
  <2>1. Load(p)' <= Load(p)
    BY <1>2 DEF Load
  <2>2. Load(p)' \in Int
    <3>1. Spare(p)' \subseteq Conns
      BY RangeTyped DEF Spare, Shape, PoolShape
    <3>2. Cardinality(Spare(p)') \in Nat
      BY <3>1, Constants, FS_Subset, FS_CardinalityType
    <3>3. Coming(p)' \in {0, 1} /\ used'[p] \in Int
      BY DEF Coming, Shape, PoolShape
    <3> QED
      BY <3>2, <3>3 DEF Load
  <2> QED
    BY <1>2, <2>1, <2>2, SpareCounts, Constants
<1>3. (\A c, d \in Clients : pc[c] \in Taking /\ pc[d] \in Taking => c = d)
        => \A c, d \in Clients : pc'[c] \in Taking /\ pc'[d] \in Taking => c = d
  OBVIOUS
<1> QED
  BY <1>1, <1>2, <1>3 DEF Limit

\* No step puts more on a pool than it may have.
LEMMA LimitStep ==
    ASSUME Shape, Shape', Owners, Apart, Unmade, Limit, [Next]_vars PROVE Limit'
<1>1. ASSUME NEW t \in Threads, Start(t) PROVE Limit'
  <2>1. met' = met /\ together' = together /\ \A q \in Clients : used'[q] = used[q] /\ Spare(q)' = Spare(q)
    BY <1>1 DEF Spare, Start, Begin, Goto
  <2>2. \A d \in Clients : pc'[d] \in Taking => pc[d] \in Taking /\ mine'[d] = mine[d]
    BY <1>1 DEF Taking, Shape, PointShape, Start, Begin, Goto
  <2> QED
    BY <2>1, <2>2, NoLoad
<1>2. CASE Prune
  <2>1. met' = met /\ together' = together /\ \A q \in Clients : used'[q] = used[q] /\ Spare(q)' = Spare(q)
    BY <1>2 DEF Spare, Prune, Begin, Goto
  <2>2. \A d \in Clients : pc'[d] \in Taking => pc[d] \in Taking /\ mine'[d] = mine[d]
    BY <1>2 DEF Taking, Shape, PointShape, Prune, Begin, Goto
  <2> QED
    BY <2>1, <2>2, NoLoad
<1>3. ASSUME NEW c \in Clients, NoPool(c) PROVE Limit'
  <2>1. met' = met /\ together' = together /\ \A q \in Clients : used'[q] = used[q] /\ Spare(q)' = Spare(q)
    BY <1>3 DEF Spare, NoPool, Goto
  <2>2. \A d \in Clients : pc'[d] \in Taking => pc[d] \in Taking /\ mine'[d] = mine[d]
    BY <1>3 DEF Taking, Shape, PointShape, NoPool, Goto
  <2> QED
    BY <2>1, <2>2, NoLoad
<1>4. ASSUME NEW c \in Clients, MakePool(c) PROVE Limit'
  <2>1. PICK k \in Conns : Free(k) /\ idle' = [idle EXCEPT ![c] = <<k>>]
    BY <1>4 DEF MakePool
  <2>2. /\ UNCHANGED <<used, keyed, met, together>> /\ mine' = [mine EXCEPT ![c] = c]
        /\ pc[c] = "making" /\ pc' = [pc EXCEPT ![c] = "get"]
    BY <1>4 DEF MakePool, Goto
  <2>3. Range(idle'[c]) = {k} /\ \A q \in Clients \ {c} : Spare(q)' = Spare(q)
    BY <2>1, <2>2 DEF Spare, Shape, PoolShape, Range
  <2>4. k \notin keyed[c]
    BY <2>1 DEF Free
  <2>5. Spare(c)' = {k} /\ Cardinality({k}) = 1
    <3>1. Spare(c)' = Range(idle'[c]) \ keyed[c]
      BY <2>2 DEF Spare
    <3>2. Cardinality({k}) = 1
      BY FS_Singleton
    <3> QED
      BY <2>3, <2>4, <3>1, <3>2
  <2>6. \A d \in Clients : pc'[d] \in Taking => pc[d] \in Taking /\ mine'[d] = mine[d]
    BY <2>2 DEF Taking, Shape, PointShape
  <2>7. used[c] = 0 /\ Coming(c)' = 0
    BY <2>2, <2>6 DEF Unmade, Fresh, Coming
  <2>8. Load(c)' = 1
    BY <2>2, <2>5, <2>7 DEF Load
  <2>9. ASSUME NEW q \in Clients \ {c}, Load(q) <= MaxConn PROVE Load(q)' <= MaxConn
    <3>1. Coming(q)' \in {0, 1} /\ Coming(q)' <= Coming(q)
      BY <2>6 DEF Coming
    <3>2. Load(q)' = used[q] + Coming(q)' + Cardinality(Spare(q))
      BY <2>2, <2>3 DEF Load
    <3> QED
      BY <2>9, <3>1, <3>2, SpareCounts, Constants DEF Load
  <2>10. 1 <= MaxConn
    BY Constants
  <2> QED
    BY <2>2, <2>6, <2>8, <2>9, <2>10 DEF Limit
<1>5. ASSUME NEW c \in Clients, GetIdle(c) PROVE Limit'
  <2>1. PICK p \in Clients : /\ idle[p] # <<>> /\ mine' = [mine EXCEPT ![c] = p]
                              /\ idle' = [idle EXCEPT ![p] = Front(@)]
                              /\ met' = (met \/ Last(idle[p]) \in keyed[p])
    BY <1>5 DEF GetIdle
  <2> DEFINE k == Last(idle[p])
  <2>2. k \in Range(idle[p]) /\ Range(Front(idle[p])) = Range(idle[p]) \ {k}
    BY <2>1, WithoutLast DEF Shape, PoolShape, Owners, IdleOnce
  <2>3. /\ UNCHANGED <<used, keyed>> /\ pc' = [pc EXCEPT ![c] = "book"]
        /\ together' = (together \/ \E d \in Clients : pc[d] \in Taking)
    BY <1>5 DEF GetIdle, Goto, OthersTake
  <2>4. SUFFICES ASSUME ~met', ~together' PROVE Limit'
    BY DEF Limit
  <2>5. ~met /\ ~together /\ k \notin keyed[p] /\ \A d \in Clients : pc[d] \notin Taking
    BY <2>1, <2>3, <2>4
  <2>6. \A d \in Clients : pc'[d] \in Taking => d = c /\ mine'[d] = p
    BY <2>1, <2>3, <2>5 DEF Shape, PointShape
  <2>7. \A q \in Clients : Load(q) <= MaxConn /\ Coming(q) = 0
    BY <2>4, <2>5 DEF Limit, Coming
  <2>8. (\A q \in Clients \ {p} : Spare(q)' = Spare(q)) /\ Spare(p)' = Spare(p) \ {k} /\ k \in Spare(p)
    BY <2>1, <2>2, <2>3, <2>5 DEF Spare, Shape, PoolShape
  <2> HIDE DEF k
  <2>9. Cardinality(Spare(p)') = Cardinality(Spare(p)) - 1
    BY <2>8, SpareCounts, FS_RemoveElement
  <2>10. (\A q \in Clients \ {p} : Coming(q)' = 0) /\ Coming(p)' \in {0, 1}
    BY <2>6 DEF Coming
  <2>11. \A q \in Clients \ {p} : Load(q)' = Load(q)
    BY <2>3, <2>7, <2>8, <2>10 DEF Load
  <2>12. Load(p)' <= MaxConn
    <3>1. Load(p) = used[p] + 0 + Cardinality(Spare(p)) /\ Load(p)' = used[p] + Coming(p)' + Cardinality(Spare(p)')
      BY <2>3, <2>7 DEF Load
    <3> QED
      BY <2>7, <2>9, <2>10, <3>1, SpareCounts, Constants
  <2> QED
    BY <2>6, <2>7, <2>11, <2>12 DEF Limit
<1>6. ASSUME NEW c \in Clients, Exhausted(c) PROVE Limit'
  <2>1. met' = met /\ together' = together /\ \A q \in Clients : used'[q] = used[q] /\ Spare(q)' = Spare(q)
    BY <1>6 DEF Spare, Exhausted, Fail, Goto
  <2>2. \A d \in Clients : pc'[d] \in Taking => pc[d] \in Taking /\ mine'[d] = mine[d]
    BY <1>6 DEF Taking, Shape, PointShape, Exhausted, Fail, Goto
  <2> QED
    BY <2>1, <2>2, NoLoad
<1>7. ASSUME NEW c \in Clients, Connect(c) PROVE Limit'
  <2>1. PICK p \in Clients : /\ idle[p] = <<>> /\ used[p] # MaxConn /\ mine' = [mine EXCEPT ![c] = p]
                              /\ Goto(c, "connect") /\ together' = (together \/ \E d \in Clients : pc[d] \in Taking)
                              /\ UNCHANGED <<used, keyed, idle, met>>
    BY <1>7 DEF Connect, OthersTake
  <2>2. SUFFICES ASSUME ~met', ~together' PROVE Limit'
    BY DEF Limit
  <2>3. ~met /\ ~together /\ \A d \in Clients : pc[d] \notin Taking
    BY <2>1, <2>2
  <2>4. \A d \in Clients : pc'[d] \in Taking => d = c /\ mine'[d] = p
    BY <2>1, <2>3 DEF Goto, Taking, Shape, PointShape
  <2>5. \A q \in Clients : Load(q) <= MaxConn /\ Coming(q) = 0
    BY <2>2, <2>3 DEF Limit, Coming
  <2>6. \A q \in Clients : Spare(q)' = Spare(q) /\ used'[q] = used[q]
    BY <2>1 DEF Spare
  <2>7. Spare(p) = {} /\ Cardinality(Spare(p)) = 0
    <3>1. Range(idle[p]) = {}
      BY <2>1 DEF Range
    <3>2. Cardinality({}) = 0
      BY FS_EmptySet
    <3> QED
      BY <3>1, <3>2 DEF Spare
  <2>8. \A q \in Clients \ {p} : Coming(q)' = 0
    BY <2>4 DEF Coming
  <2>9. Coming(p)' \in {0, 1}
    BY DEF Coming
  <2>10. \A q \in Clients \ {p} : Load(q)' = Load(q)
    BY <2>5, <2>6, <2>8 DEF Load
  <2>11. Load(p) = used[p] + 0 + 0 /\ Load(p)' = used[p] + Coming(p)' + 0
    BY <2>5, <2>6, <2>7 DEF Load
  <2>12. Load(p)' <= MaxConn
    BY <2>1, <2>5, <2>9, <2>11, SpareCounts, Constants
  <2> QED
    BY <2>4, <2>5, <2>10, <2>12 DEF Limit
<1>8. ASSUME NEW c \in Clients, Connected(c) PROVE Limit'
  <2>1. PICK k \in Conns : Free(k) /\ Take(c, mine[c], k)
    BY <1>8 DEF Connected
  <2>2. PICK p \in Clients : p = mine[c] /\ UNCHANGED <<idle, mine, met, together>> /\ pc[c] \in Taking
    BY <1>8 DEF Connected, Shape, Rooted, Taking
  <2>3. \A d \in Clients : pc'[d] \in Taking => d # c /\ pc[d] \in Taking /\ mine'[d] = mine[d]
    BY <2>1, <2>2 DEF Take, Goto, Taking, Shape, PointShape
  <2>4. used'[p] = used[p] + 1 /\ \A q \in Clients \ {p} : used'[q] = used[q] /\ keyed'[q] = keyed[q]
    BY <2>1, <2>2 DEF Take, Shape, PoolShape
  <2>5. keyed'[p] = keyed[p] \cup {k} /\ k \notin Range(idle[p])
    BY <2>1, <2>2 DEF Take, Shape, PoolShape, Free
  <2>6. Spare(p)' = Spare(p) /\ \A q \in Clients \ {p} : Spare(q)' = Spare(q)
    BY <2>2, <2>4, <2>5 DEF Spare
  <2>7. Coming(p) = 1
    BY <2>2 DEF Coming, Taking
  <2>8. ~met /\ ~together => Coming(p)' = 0
    BY <2>2, <2>3 DEF Coming, Limit, Taking
  <2>9. ~met /\ ~together => used'[p] + Coming(p)' + Cardinality(Spare(p)') <= Load(p)
    BY <2>2, <2>4, <2>6, <2>7, <2>8, SpareCounts DEF Load
  <2> QED
    BY <2>2, <2>3, <2>4, <2>6, <2>9, LoadMoved
<1>9. ASSUME NEW c \in Clients, ConnectFails(c) PROVE Limit'
  <2>1. met' = met /\ together' = together /\ \A q \in Clients : used'[q] = used[q] /\ Spare(q)' = Spare(q)
    BY <1>9 DEF Spare, ConnectFails, Fail, Goto
  <2>2. \A d \in Clients : pc'[d] \in Taking => pc[d] \in Taking /\ mine'[d] = mine[d]
    BY <1>9 DEF Taking, Shape, PointShape, ConnectFails, Fail, Goto
  <2> QED
    BY <2>1, <2>2, NoLoad
<1>10. ASSUME NEW c \in Clients, Work(c) PROVE Limit'
  <2>1. met' = met /\ together' = together /\ \A q \in Clients : used'[q] = used[q] /\ Spare(q)' = Spare(q)
    BY <1>10 DEF Spare, Work, Goto
  <2>2. \A d \in Clients : pc'[d] \in Taking => pc[d] \in Taking /\ mine'[d] = mine[d]
    BY <1>10 DEF Taking, Shape, PointShape, Work, Goto
  <2> QED
    BY <2>1, <2>2, NoLoad
<1>11. ASSUME NEW c \in Clients, WorkFails(c) PROVE Limit'
  <2>1. met' = met /\ together' = together /\ \A q \in Clients : used'[q] = used[q] /\ Spare(q)' = Spare(q)
    BY <1>11 DEF Spare, WorkFails, Goto
  <2>2. \A d \in Clients : pc'[d] \in Taking => pc[d] \in Taking /\ mine'[d] = mine[d]
    BY <1>11 DEF Taking, Shape, PointShape, WorkFails, Goto
  <2> QED
    BY <2>1, <2>2, NoLoad
<1>12. ASSUME NEW c \in Clients, Unkeyed(c) PROVE Limit'
  <2>1. met' = met /\ together' = together /\ \A q \in Clients : used'[q] = used[q] /\ Spare(q)' = Spare(q)
    BY <1>12 DEF Spare, Unkeyed, Fail, Goto
  <2>2. \A d \in Clients : pc'[d] \in Taking => pc[d] \in Taking /\ mine'[d] = mine[d]
    BY <1>12 DEF Taking, Shape, PointShape, Unkeyed, Fail, Goto
  <2> QED
    BY <2>1, <2>2, NoLoad
<1>13. ASSUME NEW c \in Clients, PutClosed(c) PROVE Limit'
  <2>1. met' = met /\ together' = together /\ \A q \in Clients : used'[q] = used[q] /\ Spare(q)' = Spare(q)
    BY <1>13 DEF Spare, PutClosed, Goto
  <2>2. \A d \in Clients : pc'[d] \in Taking => pc[d] \in Taking /\ mine'[d] = mine[d]
    BY <1>13 DEF Taking, Shape, PointShape, PutClosed, Goto
  <2> QED
    BY <2>1, <2>2, NoLoad
<1>14. ASSUME NEW c \in Clients, Book(c) PROVE Limit'
  <2>1. Take(c, mine[c], conn[c]) /\ UNCHANGED <<idle, mine, met, together>> /\ pc[c] = "book"
    BY <1>14 DEF Book
  <2>2. PICK p \in Clients : p = mine[c]
    BY <2>1 DEF Shape, Rooted
  <2>3. \A d \in Clients : pc'[d] \in Taking => d # c /\ pc[d] \in Taking /\ mine'[d] = mine[d]
    BY <2>1, <2>2 DEF Take, Goto, Taking, Shape, PointShape
  <2>4. used'[p] = used[p] + 1 /\ \A q \in Clients \ {p} : used'[q] = used[q] /\ keyed'[q] = keyed[q]
    BY <2>1, <2>2 DEF Take, Shape, PoolShape
  <2>5. keyed'[p] = keyed[p] \cup {conn[c]} /\ conn[c] \notin Range(idle[p])
    BY <2>1, <2>2 DEF Take, Shape, PoolShape, Owners, Exclusive, InUse
  <2>6. Spare(p)' = Spare(p) /\ \A q \in Clients \ {p} : Spare(q)' = Spare(q)
    BY <2>1, <2>4, <2>5 DEF Spare
  <2>7. Coming(p) = 1
    BY <2>1, <2>2 DEF Coming, Taking
  <2>8. ~met /\ ~together => Coming(p)' = 0
    BY <2>1, <2>3 DEF Coming, Limit, Taking
  <2>9. ~met /\ ~together => used'[p] + Coming(p)' + Cardinality(Spare(p)') <= Load(p)
    BY <2>1, <2>4, <2>6, <2>7, <2>8, SpareCounts DEF Load
  <2> QED
    BY <2>1, <2>3, <2>4, <2>6, <2>9, LoadMoved
<1>15. ASSUME NEW c \in Clients, Keep(c) PROVE Limit'
  <2>1. met' = met /\ together' = together /\ \A q \in Clients : used'[q] = used[q] /\ Spare(q)' = Spare(q)
    BY <1>15 DEF Spare, Keep, Goto
  <2>2. \A d \in Clients : pc'[d] \in Taking => pc[d] \in Taking /\ mine'[d] = mine[d]
    BY <1>15 DEF Taking, Shape, PointShape, Keep, Goto
  <2> QED
    BY <2>1, <2>2, NoLoad
<1>16. ASSUME NEW c \in Clients, PutIdle(c) PROVE Limit'
  <2>1. /\ mine[c] \in Clients /\ conn[c] \in Conns /\ UNCHANGED <<keyed, used, met, together>>
        /\ pc[c] = "keep" /\ pc' = [pc EXCEPT ![c] = "forget"] /\ idle' = [idle EXCEPT ![mine[c]] = Append(@, conn[c])]
    BY <1>16 DEF PutIdle, GiveBack, Goto, Shape, Rooted, PointShape, Holding, InUse
  <2>2. Range(idle'[mine[c]]) = Range(idle[mine[c]]) \cup {conn[c]} /\ \A q \in Clients \ {mine[c]} : idle'[q] = idle[q]
    BY <2>1, WithOneMore DEF Shape, PoolShape
  <2>3. ~met => conn[c] \in keyed[mine[c]]
    BY <1>16 DEF PutIdle, Apart
  <2>4. \A d \in Clients : pc'[d] \in Taking => pc[d] \in Taking /\ d # c
    BY <2>1 DEF Taking, Shape, PointShape
  <2>5. \A d \in Clients \ {c} : mine'[d] = mine[d]
    BY <1>16 DEF PutIdle, Shape, PointShape
  <2>6. SUFFICES ASSUME ~met PROVE Limit'
    BY <2>1 DEF Limit
  <2>7. \A q \in Clients : used'[q] = used[q] /\ Spare(q)' = Spare(q)
    BY <2>1, <2>2, <2>3, <2>6 DEF Spare
  <2> QED
    BY <2>1, <2>4, <2>5, <2>7, NoLoad
<1>17. ASSUME NEW c \in Clients, RollbackFails(c) PROVE Limit'
  <2>1. met' = met /\ together' = together /\ \A q \in Clients : used'[q] = used[q] /\ Spare(q)' = Spare(q)
    BY <1>17 DEF Spare, RollbackFails, Fail, Goto
  <2>2. \A d \in Clients : pc'[d] \in Taking => pc[d] \in Taking /\ mine'[d] = mine[d]
    BY <1>17 DEF Taking, Shape, PointShape, RollbackFails, Fail, Goto
  <2> QED
    BY <2>1, <2>2, NoLoad
<1>18. ASSUME NEW c \in Clients, Forget(c) PROVE Limit'
  <2>1. /\ pc[c] = "forget" /\ UNCHANGED <<idle, met, together>>
        /\ used' = [used EXCEPT ![mine[c]] = @ - 1] /\ keyed' = [keyed EXCEPT ![mine[c]] = @ \ {conn[c]}]
    BY <1>18 DEF Forget, Unbook
  <2>2. PICK p \in Clients : p = mine[c]
    BY <2>1 DEF Shape, Rooted
  <2>3. \A d \in Clients : pc'[d] \in Taking => pc[d] \in Taking /\ mine'[d] = mine[d]
    BY <1>18 DEF Forget, Goto, Taking, Shape, PointShape
  <2>4. used'[p] = used[p] - 1 /\ \A q \in Clients \ {p} : used'[q] = used[q] /\ keyed'[q] = keyed[q]
    BY <2>1, <2>2 DEF Shape, PoolShape
  <2>5. keyed'[p] = keyed[p] \ {conn[c]}
    BY <2>1, <2>2 DEF Shape, PoolShape
  <2>6. \A q \in Clients \ {p} : Spare(q)' = Spare(q)
    BY <2>1, <2>4 DEF Spare
  <2>7. Spare(p)' \subseteq Spare(p) \cup {conn[c]}
    BY <2>1, <2>5 DEF Spare
  <2>8. Coming(p)' \in {0, 1} /\ Coming(p)' <= Coming(p)
    BY <2>3 DEF Coming
  <2>9. used'[p] + Coming(p)' + Cardinality(Spare(p)') <= Load(p)
    <3>1. IsFiniteSet(Spare(p) \cup {conn[c]})
      BY SpareCounts, FS_AddElement
    <3>2. /\ Cardinality(Spare(p) \cup {conn[c]}) \in {Cardinality(Spare(p)), Cardinality(Spare(p)) + 1}
          /\ Cardinality(Spare(p)) \in Nat
      <4>1. conn[c] \in Spare(p) => Spare(p) \cup {conn[c]} = Spare(p)
        OBVIOUS
      <4> QED
        BY <4>1, SpareCounts, FS_AddElement
    <3>3. Cardinality(Spare(p)') \in Nat /\ Cardinality(Spare(p)') <= Cardinality(Spare(p) \cup {conn[c]})
      BY <2>7, <3>1, FS_Subset, FS_CardinalityType
    <3> QED
      BY <2>4, <2>8, <3>2, <3>3, SpareCounts DEF Load
  <2> QED
    BY <2>1, <2>2, <2>3, <2>4, <2>6, <2>9, LoadMoved
<1>19. ASSUME NEW c \in Clients, ForgetFails(c) PROVE Limit'
  <2>1. /\ pc[c] = "forget" /\ UNCHANGED <<idle, met, together>>
        /\ used' = [used EXCEPT ![mine[c]] = @ - 1] /\ keyed' = [keyed EXCEPT ![mine[c]] = @ \ {conn[c]}]
    BY <1>19 DEF ForgetFails, Unbook
  <2>2. PICK p \in Clients : p = mine[c]
    BY <2>1 DEF Shape, Rooted
  <2>3. \A d \in Clients : pc'[d] \in Taking => pc[d] \in Taking /\ mine'[d] = mine[d]
    BY <1>19 DEF ForgetFails, Fail, Goto, Taking, Shape, PointShape
  <2>4. used'[p] = used[p] - 1 /\ \A q \in Clients \ {p} : used'[q] = used[q] /\ keyed'[q] = keyed[q]
    BY <2>1, <2>2 DEF Shape, PoolShape
  <2>5. keyed'[p] = keyed[p] \ {conn[c]}
    BY <2>1, <2>2 DEF Shape, PoolShape
  <2>6. \A q \in Clients \ {p} : Spare(q)' = Spare(q)
    BY <2>1, <2>4 DEF Spare
  <2>7. Spare(p)' \subseteq Spare(p) \cup {conn[c]}
    BY <2>1, <2>5 DEF Spare
  <2>8. Coming(p)' \in {0, 1} /\ Coming(p)' <= Coming(p)
    BY <2>3 DEF Coming
  <2>9. used'[p] + Coming(p)' + Cardinality(Spare(p)') <= Load(p)
    <3>1. IsFiniteSet(Spare(p) \cup {conn[c]})
      BY SpareCounts, FS_AddElement
    <3>2. /\ Cardinality(Spare(p) \cup {conn[c]}) \in {Cardinality(Spare(p)), Cardinality(Spare(p)) + 1}
          /\ Cardinality(Spare(p)) \in Nat
      <4>1. conn[c] \in Spare(p) => Spare(p) \cup {conn[c]} = Spare(p)
        OBVIOUS
      <4> QED
        BY <4>1, SpareCounts, FS_AddElement
    <3>3. Cardinality(Spare(p)') \in Nat /\ Cardinality(Spare(p)') <= Cardinality(Spare(p) \cup {conn[c]})
      BY <2>7, <3>1, FS_Subset, FS_CardinalityType
    <3> QED
      BY <2>4, <2>8, <3>2, <3>3, SpareCounts DEF Load
  <2> QED
    BY <2>1, <2>2, <2>3, <2>4, <2>6, <2>9, LoadMoved
<1>20. CASE DbRestart
  <2>1. met' = met /\ together' = together /\ \A q \in Clients : used'[q] = used[q] /\ Spare(q)' = Spare(q)
    BY <1>20 DEF Spare, DbRestart
  <2>2. \A d \in Clients : pc'[d] \in Taking => pc[d] \in Taking /\ mine'[d] = mine[d]
    BY <1>20 DEF Taking, Shape, PointShape, DbRestart
  <2> QED
    BY <2>1, <2>2, NoLoad
<1>21. CASE UNCHANGED vars
  <2>1. met' = met /\ together' = together /\ \A q \in Clients : used'[q] = used[q] /\ Spare(q)' = Spare(q)
    BY <1>21 DEF Spare, vars
  <2>2. \A d \in Clients : pc'[d] \in Taking => pc[d] \in Taking /\ mine'[d] = mine[d]
    BY <1>21 DEF Taking, Shape, PointShape, vars
  <2> QED
    BY <2>1, <2>2, NoLoad
<1>22. ASSUME NEW c \in Clients, StatementFails(c) PROVE Limit'
  <2>1. met' = met /\ together' = together /\ \A q \in Clients : used'[q] = used[q] /\ Spare(q)' = Spare(q)
    BY <1>22 DEF Spare, StatementFails, Goto
  <2>2. \A d \in Clients : pc'[d] \in Taking => pc[d] \in Taking /\ mine'[d] = mine[d]
    BY <1>22 DEF Taking, Shape, PointShape, StatementFails, Goto
  <2> QED
    BY <2>1, <2>2, NoLoad
<1> QED
  BY <1>1, <1>2, <1>3, <1>4, <1>5, <1>6, <1>7, <1>8, <1>9, <1>10, <1>11,
     <1>12, <1>13, <1>14, <1>15, <1>16, <1>17, <1>18, <1>19, <1>20, <1>21, <1>22
     DEF Next, Enter, Do, Exit

-----------------------------------------------------------------------------
(***************************************************************************)
(* A transaction is open from the statement to the rollback, and unless    *)
(* the database restarted meanwhile, its connection is alive.              *)
(***************************************************************************)
Begun ==
    /\ open \in [Clients -> BOOLEAN]
    /\ \A c \in Clients : open[c] => pc[c] \in {"put", "keep"}
    /\ ~torn => \A c \in Clients : open[c] => conn[c] \notin dead

\* A transaction is begun by the statement and ended before the client goes on.
LEMMA BegunStep ==
    ASSUME Shape, Begun, [Next]_vars PROVE Begun'
<1>1. ASSUME NEW t \in Threads, Start(t) PROVE Begun'
  BY <1>1 DEF Begun, Shape, PointShape, InUse, GetFrom, Start, Begin, Goto
<1>2. CASE Prune
  <2>1. UNCHANGED <<open, conn, dead, torn>> /\ pc' = [pc EXCEPT ![Loop] = "enter"] /\ pc[Loop] = "off"
    BY <1>2 DEF Prune, Begin, Goto
  <2> QED
    BY <2>1, Constants DEF Begun, Shape, PointShape
<1>3. ASSUME NEW c \in Clients, NoPool(c) PROVE Begun'
  BY <1>3 DEF Begun, Shape, PointShape, InUse, GetFrom, NoPool, Goto
<1>4. ASSUME NEW c \in Clients, MakePool(c) PROVE Begun'
  BY <1>4 DEF Begun, Shape, PointShape, InUse, GetFrom, MakePool, Goto
<1>5. ASSUME NEW c \in Clients, GetIdle(c) PROVE Begun'
  <2>1. PICK k : conn' = [conn EXCEPT ![c] = k] /\ pc' = [pc EXCEPT ![c] = "book"]
    BY <1>5 DEF GetIdle, Goto
  <2>2. UNCHANGED <<open, dead, torn>> /\ pc[c] \in {"enter", "get"}
    BY <1>5 DEF GetIdle, GetFrom
  <2> QED
    BY <2>1, <2>2 DEF Begun, Shape, PointShape
<1>6. ASSUME NEW c \in Clients, Exhausted(c) PROVE Begun'
  BY <1>6 DEF Begun, Shape, PointShape, InUse, GetFrom, Exhausted, Fail, Goto
<1>7. ASSUME NEW c \in Clients, Connect(c) PROVE Begun'
  BY <1>7 DEF Begun, Shape, PointShape, InUse, GetFrom, Connect, Goto
<1>8. ASSUME NEW c \in Clients, Connected(c) PROVE Begun'
  BY <1>8 DEF Begun, Shape, PointShape, InUse, GetFrom, Connected, Take, Goto
<1>9. ASSUME NEW c \in Clients, ConnectFails(c) PROVE Begun'
  BY <1>9 DEF Begun, Shape, PointShape, InUse, GetFrom, ConnectFails, Fail, Goto
<1>10. ASSUME NEW c \in Clients, Work(c) PROVE Begun'
  BY <1>10 DEF Begun, Shape, PointShape, InUse, GetFrom, Work, Goto
<1>11. ASSUME NEW c \in Clients, WorkFails(c) PROVE Begun'
  BY <1>11 DEF Begun, Shape, PointShape, InUse, GetFrom, WorkFails, Goto
<1>12. ASSUME NEW c \in Clients, Unkeyed(c) PROVE Begun'
  BY <1>12 DEF Begun, Shape, PointShape, InUse, GetFrom, Unkeyed, Fail, Goto
<1>13. ASSUME NEW c \in Clients, PutClosed(c) PROVE Begun'
  BY <1>13 DEF Begun, Shape, PointShape, InUse, GetFrom, PutClosed, Goto
<1>14. ASSUME NEW c \in Clients, Book(c) PROVE Begun'
  BY <1>14 DEF Begun, Shape, PointShape, InUse, GetFrom, Book, Take, Goto
<1>15. ASSUME NEW c \in Clients, Keep(c) PROVE Begun'
  BY <1>15 DEF Begun, Shape, PointShape, InUse, GetFrom, Keep, Goto
<1>16. ASSUME NEW c \in Clients, PutIdle(c) PROVE Begun'
  BY <1>16 DEF Begun, Shape, PointShape, InUse, GetFrom, PutIdle, GiveBack, Goto
<1>17. ASSUME NEW c \in Clients, RollbackFails(c) PROVE Begun'
  BY <1>17 DEF Begun, Shape, PointShape, InUse, GetFrom, RollbackFails, Fail, Goto
<1>18. ASSUME NEW c \in Clients, Forget(c) PROVE Begun'
  BY <1>18 DEF Begun, Shape, PointShape, InUse, GetFrom, Forget, Unbook, Goto
<1>19. ASSUME NEW c \in Clients, ForgetFails(c) PROVE Begun'
  BY <1>19 DEF Begun, Shape, PointShape, InUse, GetFrom, ForgetFails, Unbook, Fail, Goto
<1>20. CASE DbRestart
  <2>1. UNCHANGED <<open, pc, conn>> /\ torn' = (torn \/ \E c \in Clients : open[c])
    BY <1>20 DEF DbRestart
  <2> QED
    BY <2>1 DEF Begun
<1>21. CASE UNCHANGED vars
  BY <1>21 DEF Begun, Shape, PointShape, InUse, GetFrom, vars
<1>22. ASSUME NEW c \in Clients, StatementFails(c) PROVE Begun'
  BY <1>22 DEF Begun, Shape, PointShape, InUse, GetFrom, StatementFails, Goto
<1> QED
  BY <1>1, <1>2, <1>3, <1>4, <1>5, <1>6, <1>7, <1>8, <1>9, <1>10, <1>11,
     <1>12, <1>13, <1>14, <1>15, <1>16, <1>17, <1>18, <1>19, <1>20, <1>21, <1>22
     DEF Next, Enter, Do, Exit

-----------------------------------------------------------------------------
(***************************************************************************)
(* Until then, and until a connection is lost in a transaction, the books  *)
(* of the pool count the clients that hold its connections.                *)
(***************************************************************************)
Booked == {c \in Clients : pc[c] \in Holders /\ conn[c] \in keyed[pool]}

Counted == ~met /\ ~torn /\ pool # NoOne => used[pool] = Cardinality(Booked)

\* The clients can be counted.
LEMMA BookedCounts == IsFiniteSet(Booked) /\ Cardinality(Booked) \in Nat
<1>1. Booked \subseteq Clients
  BY DEF Booked
<1> QED
  BY <1>1, Constants, FS_Subset, FS_CardinalityType

\* A step that leaves the books and their clients.
LEMMA SameBooked ==
    ASSUME Counted, UNCHANGED <<pool, used, keyed>>, met' = met, torn => torn',
           ~met' /\ ~torn' /\ pool # NoOne =>
             \A d \in Clients : pc'[d] \in Holders /\ conn'[d] \in keyed[pool] <=> pc[d] \in Holders /\ conn[d] \in keyed[pool]
    PROVE  Counted'
<1>1. ~met' /\ ~torn' /\ pool # NoOne => Booked' = Booked
  BY DEF Booked
<1> QED
  BY <1>1 DEF Counted

\* A client takes a connection and is written down.
LEMMA OneMoreBooked ==
    ASSUME Counted, Shape, NEW c \in Clients, NEW p \in Clients, NEW k \in Conns,
           pool' = pool, torn' = torn, met => met', Take(c, p, k),
           ~met' /\ pool \in Clients => c \notin Booked,
           ~met' => \A d \in Clients \ {c} : pc[d] \in Holders => conn[d] # k,
           pool \in Clients \ {p} => k \notin keyed[pool]
    PROVE  Counted'
<1>1. SUFFICES ASSUME ~met', ~torn', pool # NoOne PROVE used'[pool] = Cardinality(Booked')
  BY DEF Counted
<1>2. /\ pc'[c] = "block" /\ conn'[c] = k
      /\ \A d \in Clients \ {c} : pc'[d] = pc[d] /\ conn'[d] = conn[d]
      /\ used'[p] = used[p] + 1 /\ keyed'[p] = keyed[p] \cup {k}
      /\ \A q \in Clients \ {p} : used'[q] = used[q] /\ keyed'[q] = keyed[q]
  BY DEF Take, Goto, Shape, PointShape, PoolShape
<1>3. pool \in Clients /\ used[pool] = Cardinality(Booked)
  BY <1>1 DEF Counted, Shape, PoolShape
<1>4. c \notin Booked /\ \A d \in Clients \ {c} : pc[d] \in Holders => conn[d] # k
  BY <1>1, <1>3
<1>5. CASE pool = p
  <2>1. Booked' = Booked \cup {c}
    BY <1>2, <1>3, <1>4, <1>5 DEF Booked, Holders, InUse
  <2>2. Cardinality(Booked \cup {c}) = Cardinality(Booked) + 1
    BY <1>4, BookedCounts, FS_AddElement
  <2> QED
    BY <1>2, <1>3, <1>5, <2>1, <2>2
<1>6. CASE pool # p
  <2>1. Booked' = Booked
    BY <1>2, <1>3, <1>4, <1>6 DEF Booked
  <2> QED
    BY <1>2, <1>3, <1>6, <2>1
<1> QED
  BY <1>5, <1>6

\* A client gives a connection back and is struck out.
LEMMA OneLessBooked ==
    ASSUME Counted, Shape, Home, Apart, NEW c \in Clients, pc[c] = "forget", pc'[c] \notin Holders,
           UNCHANGED <<pool, met, torn>>, Unbook(c),
           \A d \in Clients \ {c} : pc'[d] = pc[d] /\ conn'[d] = conn[d]
    PROVE  Counted'
<1>1. SUFFICES ASSUME ~met, ~torn, pool # NoOne PROVE used'[pool] = Cardinality(Booked')
  BY DEF Counted
<1>2. pool \in Clients /\ used[pool] = Cardinality(Booked)
  BY <1>1 DEF Counted, Shape, PoolShape
<1>3. PICK p \in Clients : p = mine[c] /\ conn[c] \in keyed[p]
  BY <1>1 DEF Shape, Rooted, Apart
<1>4. /\ used'[p] = used[p] - 1 /\ keyed'[p] = keyed[p] \ {conn[c]}
      /\ \A q \in Clients \ {p} : used'[q] = used[q] /\ keyed'[q] = keyed[q]
  BY <1>3 DEF Unbook, Shape, PoolShape
<1>5. \A d \in Clients \ {c} : pc[d] \in Holders => conn[d] # conn[c]
  BY <1>1 DEF Apart, Holders
<1>6. CASE pool = p
  <2>1. Booked' = Booked \ {c}
    BY <1>2, <1>4, <1>5, <1>6 DEF Booked
  <2>2. c \in Booked
    BY <1>3, <1>6 DEF Booked, Holders
  <2> QED
    BY <1>2, <1>4, <1>6, <2>1, <2>2, BookedCounts, FS_RemoveElement
<1>7. CASE pool # p
  <2>1. conn[c] \notin keyed[pool]
    BY <1>2, <1>3, <1>7 DEF Home, Where
  <2>2. Booked' = Booked
    BY <1>2, <1>4, <1>7, <2>1 DEF Booked
  <2> QED
    BY <1>2, <1>4, <1>7, <2>2
<1> QED
  BY <1>6, <1>7

\* Every step keeps the count.
LEMMA CountedStep ==
    ASSUME Shape, Home, Apart, Apart', Unmade, Begun, Counted, [Next]_vars PROVE Counted'
<1>1. ASSUME NEW t \in Threads, Start(t) PROVE Counted'
  <2>1. UNCHANGED <<pool, used, keyed>> /\ met' = met /\ (torn => torn')
    BY <1>1 DEF Start, Begin, Goto
  <2>2. ~met' /\ ~torn' /\ pool # NoOne =>
          \A d \in Clients : pc'[d] \in Holders /\ conn'[d] \in keyed[pool] <=> pc[d] \in Holders /\ conn[d] \in keyed[pool]
    BY <1>1 DEF Shape, PointShape, Holders, InUse, Start, Begin, Goto
  <2> QED
    BY <2>1, <2>2, SameBooked
<1>2. CASE Prune
  <2>1. UNCHANGED <<pool, used, keyed>> /\ met' = met /\ (torn => torn')
    BY <1>2 DEF Prune, Begin, Goto
  <2>2. ~met' /\ ~torn' /\ pool # NoOne =>
          \A d \in Clients : pc'[d] \in Holders /\ conn'[d] \in keyed[pool] <=> pc[d] \in Holders /\ conn[d] \in keyed[pool]
    BY <1>2 DEF Shape, PointShape, Holders, InUse, Prune, Begin, Goto
  <2> QED
    BY <2>1, <2>2, SameBooked
<1>3. ASSUME NEW c \in Clients, NoPool(c) PROVE Counted'
  <2>1. UNCHANGED <<pool, used, keyed>> /\ met' = met /\ (torn => torn')
    BY <1>3 DEF NoPool, Goto
  <2>2. ~met' /\ ~torn' /\ pool # NoOne =>
          \A d \in Clients : pc'[d] \in Holders /\ conn'[d] \in keyed[pool] <=> pc[d] \in Holders /\ conn[d] \in keyed[pool]
    BY <1>3 DEF Shape, PointShape, Holders, InUse, NoPool, Goto
  <2> QED
    BY <2>1, <2>2, SameBooked
<1>4. ASSUME NEW c \in Clients, MakePool(c) PROVE Counted'
  <2>1. pool' = c /\ UNCHANGED <<used, keyed>> /\ pc[c] = "making"
    BY <1>4 DEF MakePool
  <2>2. used[c] = 0 /\ keyed[c] = {}
    BY <2>1 DEF Unmade, Fresh
  <2>3. Booked' = {}
    BY <2>1, <2>2 DEF Booked
  <2> QED
    BY <2>1, <2>2, <2>3, FS_EmptySet DEF Counted
<1>5. ASSUME NEW c \in Clients, GetIdle(c) PROVE Counted'
  <2>1. UNCHANGED <<pool, used, keyed, torn>> /\ pc' = [pc EXCEPT ![c] = "book"] /\ pc[c] \in {"enter", "get"}
    BY <1>5 DEF GetIdle, GetFrom, Goto
  <2>2. PICK p \in Clients : conn' = [conn EXCEPT ![c] = Last(idle[p])] /\ met' = (met \/ Last(idle[p]) \in keyed[p])
    BY <1>5 DEF GetIdle
  <2>3. ~met' => ~met
    BY <2>2
  <2>4. pc'[c] = "book" /\ \A d \in Clients \ {c} : pc'[d] = pc[d] /\ conn'[d] = conn[d]
    BY <2>1, <2>2 DEF Shape, PointShape
  <2>5. ASSUME ~met', ~torn', pool # NoOne PROVE Booked' = Booked
    <3>1. conn'[c] \notin keyed'[pool] /\ pool \in Clients
      BY <2>4, <2>5 DEF Apart, Shape, PoolShape
    <3>2. c \notin Booked' /\ c \notin Booked
      BY <2>1, <3>1 DEF Booked, Holders, InUse
    <3> QED
      BY <2>1, <2>4, <3>2 DEF Booked
  <2> QED
    BY <2>1, <2>3, <2>5 DEF Counted
<1>6. ASSUME NEW c \in Clients, Exhausted(c) PROVE Counted'
  <2>1. UNCHANGED <<pool, used, keyed>> /\ met' = met /\ (torn => torn')
    BY <1>6 DEF Exhausted, Fail, Goto
  <2>2. ~met' /\ ~torn' /\ pool # NoOne =>
          \A d \in Clients : pc'[d] \in Holders /\ conn'[d] \in keyed[pool] <=> pc[d] \in Holders /\ conn[d] \in keyed[pool]
    BY <1>6 DEF Shape, PointShape, Holders, InUse, Exhausted, Fail, Goto, GetFrom
  <2> QED
    BY <2>1, <2>2, SameBooked
<1>7. ASSUME NEW c \in Clients, Connect(c) PROVE Counted'
  <2>1. UNCHANGED <<pool, used, keyed>> /\ met' = met /\ (torn => torn')
    BY <1>7 DEF Connect, Goto
  <2>2. ~met' /\ ~torn' /\ pool # NoOne =>
          \A d \in Clients : pc'[d] \in Holders /\ conn'[d] \in keyed[pool] <=> pc[d] \in Holders /\ conn[d] \in keyed[pool]
    BY <1>7 DEF Shape, PointShape, Holders, InUse, Connect, Goto, GetFrom
  <2> QED
    BY <2>1, <2>2, SameBooked
<1>8. ASSUME NEW c \in Clients, Connected(c) PROVE Counted'
  <2>1. PICK k \in Conns : Free(k) /\ Take(c, mine[c], k)
    BY <1>8 DEF Connected
  <2>2. PICK p \in Clients : p = mine[c]
    BY <1>8 DEF Connected, Shape, Rooted
  <2>3. pool' = pool /\ torn' = torn /\ met' = met /\ pc[c] \notin Holders
    BY <1>8 DEF Connected, Holders, InUse
  <2>4. (\A d \in Clients : conn[d] # k) /\ \A q \in Clients : k \notin keyed[q]
    BY <2>1 DEF Free
  <2>5. c \notin Booked
    BY <2>3 DEF Booked
  <2> QED
    BY <2>1, <2>2, <2>3, <2>4, <2>5, OneMoreBooked
<1>9. ASSUME NEW c \in Clients, ConnectFails(c) PROVE Counted'
  <2>1. UNCHANGED <<pool, used, keyed>> /\ met' = met /\ (torn => torn')
    BY <1>9 DEF ConnectFails, Fail, Goto
  <2>2. ~met' /\ ~torn' /\ pool # NoOne =>
          \A d \in Clients : pc'[d] \in Holders /\ conn'[d] \in keyed[pool] <=> pc[d] \in Holders /\ conn[d] \in keyed[pool]
    BY <1>9 DEF Shape, PointShape, Holders, InUse, ConnectFails, Fail, Goto
  <2> QED
    BY <2>1, <2>2, SameBooked
<1>10. ASSUME NEW c \in Clients, Work(c) PROVE Counted'
  <2>1. UNCHANGED <<pool, used, keyed>> /\ met' = met /\ (torn => torn')
    BY <1>10 DEF Work, Goto
  <2>2. ~met' /\ ~torn' /\ pool # NoOne =>
          \A d \in Clients : pc'[d] \in Holders /\ conn'[d] \in keyed[pool] <=> pc[d] \in Holders /\ conn[d] \in keyed[pool]
    BY <1>10 DEF Shape, PointShape, Holders, InUse, Work, Goto
  <2> QED
    BY <2>1, <2>2, SameBooked
<1>11. ASSUME NEW c \in Clients, WorkFails(c) PROVE Counted'
  <2>1. UNCHANGED <<pool, used, keyed>> /\ met' = met /\ (torn => torn')
    BY <1>11 DEF WorkFails, Goto
  <2>2. ~met' /\ ~torn' /\ pool # NoOne =>
          \A d \in Clients : pc'[d] \in Holders /\ conn'[d] \in keyed[pool] <=> pc[d] \in Holders /\ conn[d] \in keyed[pool]
    BY <1>11 DEF Shape, PointShape, Holders, InUse, WorkFails, Goto
  <2> QED
    BY <2>1, <2>2, SameBooked
<1>12. ASSUME NEW c \in Clients, Unkeyed(c) PROVE Counted'
  <2>1. UNCHANGED <<pool, used, keyed>> /\ met' = met /\ (torn => torn')
    BY <1>12 DEF Unkeyed
  <2>2. conn[c] \notin keyed[pool] /\ pc'[c] = "off"
    BY <1>12 DEF Unkeyed, Fail, Goto, Shape, PointShape
  <2>3. \A d \in Clients \ {c} : pc'[d] = pc[d] /\ conn'[d] = conn[d]
    BY <1>12 DEF Unkeyed, Fail, Goto, Shape, PointShape
  <2> QED
    BY <2>1, <2>2, <2>3, SameBooked DEF Holders, InUse
<1>13. ASSUME NEW c \in Clients, PutClosed(c) PROVE Counted'
  <2>1. UNCHANGED <<pool, used, keyed>> /\ met' = met /\ (torn => torn')
    BY <1>13 DEF PutClosed, Goto
  <2>2. ~met' /\ ~torn' /\ pool # NoOne =>
          \A d \in Clients : pc'[d] \in Holders /\ conn'[d] \in keyed[pool] <=> pc[d] \in Holders /\ conn[d] \in keyed[pool]
    BY <1>13 DEF Shape, PointShape, Holders, InUse, PutClosed, Goto
  <2> QED
    BY <2>1, <2>2, SameBooked
<1>14. ASSUME NEW c \in Clients, Book(c) PROVE Counted'
  <2>1. /\ Take(c, mine[c], conn[c]) /\ UNCHANGED <<pool, torn, met>> /\ pc[c] = "book"
        /\ mine[c] \in Clients /\ conn[c] \in Conns
    BY <1>14 DEF Book, Shape, Rooted, PointShape, Holding, InUse
  <2>2. ~met' /\ pool \in Clients => c \notin Booked
    BY <2>1 DEF Apart, Booked
  <2>3. ~met' => \A d \in Clients \ {c} : pc[d] \in Holders => conn[d] # conn[c]
    BY <2>1 DEF Apart, Holders, InUse
  <2>4. pool \in Clients \ {mine[c]} => conn[c] \notin keyed[pool]
    BY <2>1 DEF Home, Where, Bound
  <2> QED
    BY <2>1, <2>2, <2>3, <2>4, OneMoreBooked
<1>15. ASSUME NEW c \in Clients, Keep(c) PROVE Counted'
  <2>1. UNCHANGED <<pool, used, keyed>> /\ met' = met /\ (torn => torn')
    BY <1>15 DEF Keep, Goto
  <2>2. ~met' /\ ~torn' /\ pool # NoOne =>
          \A d \in Clients : pc'[d] \in Holders /\ conn'[d] \in keyed[pool] <=> pc[d] \in Holders /\ conn[d] \in keyed[pool]
    BY <1>15 DEF Shape, PointShape, Holders, InUse, Keep, Goto
  <2> QED
    BY <2>1, <2>2, SameBooked
<1>16. ASSUME NEW c \in Clients, PutIdle(c) PROVE Counted'
  <2>1. UNCHANGED <<pool, used, keyed>> /\ met' = met /\ (torn => torn')
    BY <1>16 DEF PutIdle, GiveBack, Goto
  <2>2. ~met' /\ ~torn' /\ pool # NoOne =>
          \A d \in Clients : pc'[d] \in Holders /\ conn'[d] \in keyed[pool] <=> pc[d] \in Holders /\ conn[d] \in keyed[pool]
    BY <1>16 DEF Shape, PointShape, Holders, InUse, PutIdle, GiveBack, Goto
  <2> QED
    BY <2>1, <2>2, SameBooked
<1>17. ASSUME NEW c \in Clients, RollbackFails(c) PROVE Counted'
  <2>1. torn
    BY <1>17 DEF RollbackFails, Begun
  <2>2. torn' = torn
    BY <1>17 DEF RollbackFails
  <2> QED
    BY <2>1, <2>2 DEF Counted
<1>18. ASSUME NEW c \in Clients, Forget(c) PROVE Counted'
  <2>1. pc[c] = "forget" /\ UNCHANGED <<pool, met, torn>> /\ Unbook(c) /\ pc'[c] \notin Holders
    BY <1>18 DEF Forget, Unbook, Goto, Shape, PointShape, Holders, InUse
  <2>2. \A d \in Clients \ {c} : pc'[d] = pc[d] /\ conn'[d] = conn[d]
    BY <1>18 DEF Forget, Goto, Shape, PointShape
  <2> QED
    BY <2>1, <2>2, OneLessBooked
<1>19. ASSUME NEW c \in Clients, ForgetFails(c) PROVE Counted'
  <2>1. pc[c] = "forget" /\ UNCHANGED <<pool, met, torn>> /\ Unbook(c) /\ pc'[c] \notin Holders
    BY <1>19 DEF ForgetFails, Fail, Unbook, Goto, Shape, PointShape, Holders, InUse
  <2>2. \A d \in Clients \ {c} : pc'[d] = pc[d] /\ conn'[d] = conn[d]
    BY <1>19 DEF ForgetFails, Fail, Goto, Shape, PointShape
  <2> QED
    BY <2>1, <2>2, OneLessBooked
<1>20. CASE DbRestart
  <2>1. UNCHANGED <<pool, used, keyed>> /\ met' = met /\ (torn => torn')
    BY <1>20 DEF DbRestart
  <2>2. ~met' /\ ~torn' /\ pool # NoOne =>
          \A d \in Clients : pc'[d] \in Holders /\ conn'[d] \in keyed[pool] <=> pc[d] \in Holders /\ conn[d] \in keyed[pool]
    BY <1>20 DEF Shape, PointShape, Holders, InUse, DbRestart
  <2> QED
    BY <2>1, <2>2, SameBooked
<1>21. CASE UNCHANGED vars
  <2>1. UNCHANGED <<pool, used, keyed>> /\ met' = met /\ (torn => torn')
    BY <1>21 DEF vars
  <2>2. ~met' /\ ~torn' /\ pool # NoOne =>
          \A d \in Clients : pc'[d] \in Holders /\ conn'[d] \in keyed[pool] <=> pc[d] \in Holders /\ conn[d] \in keyed[pool]
    BY <1>21 DEF Shape, PointShape, Holders, InUse, vars
  <2> QED
    BY <2>1, <2>2, SameBooked
<1>22. ASSUME NEW c \in Clients, StatementFails(c) PROVE Counted'
  <2>1. UNCHANGED <<pool, used, keyed>> /\ met' = met /\ (torn => torn')
    BY <1>22 DEF StatementFails, Goto
  <2>2. ~met' /\ ~torn' /\ pool # NoOne =>
          \A d \in Clients : pc'[d] \in Holders /\ conn'[d] \in keyed[pool] <=> pc[d] \in Holders /\ conn[d] \in keyed[pool]
    BY <1>22 DEF Shape, PointShape, Holders, InUse, StatementFails, Goto
  <2> QED
    BY <2>1, <2>2, SameBooked
<1> QED
  BY <1>1, <1>2, <1>3, <1>4, <1>5, <1>6, <1>7, <1>8, <1>9, <1>10, <1>11,
     <1>12, <1>13, <1>14, <1>15, <1>16, <1>17, <1>18, <1>19, <1>20, <1>21, <1>22
     DEF Next, Enter, Do, Exit

-----------------------------------------------------------------------------
(***************************************************************************)
(* While nothing of what explains a failure has happened, no more clients  *)
(* run than there are connections, there is one pool, and each client that *)
(* works has a live connection of it.                                      *)
(***************************************************************************)
Calm == ~crowded /\ ~replaced /\ ~met /\ faults = 0

FewRun == ~crowded => Cardinality(Running) <= MaxConn

OnePool ==
    /\ pool = NoOne => \A c \in Clients : mine[c] = NoOne
    /\ ~replaced => \A c \in Clients : mine[c] \in {NoOne, pool}

Lent == {"block", "put", "keep"}

\* The types of the histories, and of the errors.
CountShape ==
    /\ dead \subseteq Conns /\ error \in [Clients -> Errors]
    /\ requests \in 0..MaxEvents /\ faults \in 0..MaxEvents
    /\ crowded \in BOOLEAN /\ replaced \in BOOLEAN /\ met \in BOOLEAN
    /\ together \in BOOLEAN /\ torn \in BOOLEAN

AllWell ==
    /\ faults \in Nat /\ failures \in Nat
    /\ faults = 0 => dead = {} /\ ~torn
    /\ Calm => /\ failures = 0 /\ \A c \in Clients : error[c] \in {"none", "refused"}
               /\ \A c \in Clients : pc[c] \in Lent => conn[c] \in keyed[pool]

\* The clients that run can be counted.
LEMMA RunningCounts == IsFiniteSet(Running) /\ Cardinality(Running) \in Nat
<1>1. Running \subseteq Clients
  BY DEF Running
<1> QED
  BY <1>1, Constants, FS_Subset, FS_CardinalityType

\* A step with which no client begins.
LEMMA NoneBegins ==
    ASSUME FewRun, crowded' = crowded, \A d \in Clients : pc'[d] # "off" => pc[d] # "off"
    PROVE  FewRun'
<1>1. Running' \subseteq Running
  BY DEF Running
<1>2. Cardinality(Running') \in Nat /\ Cardinality(Running') <= Cardinality(Running)
  BY <1>1, RunningCounts, FS_Subset, FS_CardinalityType
<1> QED
  BY <1>2, RunningCounts, Constants DEF FewRun

\* A client begins.
LEMMA OneBegins ==
    ASSUME FewRun, Shape, NEW c \in Clients, pc[c] = "off", pc' = [pc EXCEPT ![c] = "enter"],
           crowded' = (crowded \/ Cardinality(Running) >= MaxConn)
    PROVE  FewRun' /\ Cardinality(Running') = Cardinality(Running) + 1
<1>1. Running' = Running \cup {c} /\ c \notin Running
  BY DEF Running, Shape, PointShape
<1>2. Cardinality(Running \cup {c}) = Cardinality(Running) + 1
  BY <1>1, RunningCounts, FS_AddElement
<1>3. Cardinality(Running') = Cardinality(Running) + 1
  BY <1>1, <1>2
<1>4. ~crowded' => ~crowded /\ ~(Cardinality(Running) >= MaxConn)
  BY Zenon
<1>5. FewRun'
  BY <1>3, <1>4, RunningCounts, Constants DEF FewRun
<1> QED
  BY <1>3, <1>5

\* Clients that begin are counted.
LEMMA FewRunStep ==
    ASSUME Shape, FewRun, [Next]_vars PROVE FewRun'
<1>1. ASSUME NEW t \in Threads, Start(t) PROVE FewRun'
  <2>1. /\ t \in Clients /\ pc[t] = "off" /\ pc' = [pc EXCEPT ![t] = "enter"]
        /\ crowded' = (crowded \/ Cardinality(Running) >= MaxConn)
    BY <1>1, Constants DEF Start, Begin, Goto
  <2> QED
    BY <2>1, OneBegins
<1>2. CASE Prune
  <2>1. /\ Loop \in Clients /\ pc[Loop] = "off" /\ pc' = [pc EXCEPT ![Loop] = "enter"]
        /\ crowded' = (crowded \/ Cardinality(Running) >= MaxConn)
    BY <1>2, Constants DEF Prune, Begin, Goto
  <2> QED
    BY <2>1, OneBegins
<1>3. ASSUME NEW c \in Clients, NoPool(c) PROVE FewRun'
  <2>1. crowded' = crowded /\ \A d \in Clients : pc'[d] # "off" => pc[d] # "off"
    BY <1>3 DEF Shape, PointShape, NoPool, Goto
  <2> QED
    BY <2>1, NoneBegins
<1>4. ASSUME NEW c \in Clients, MakePool(c) PROVE FewRun'
  <2>1. crowded' = crowded /\ \A d \in Clients : pc'[d] # "off" => pc[d] # "off"
    BY <1>4 DEF Shape, PointShape, MakePool, Goto
  <2> QED
    BY <2>1, NoneBegins
<1>5. ASSUME NEW c \in Clients, GetIdle(c) PROVE FewRun'
  <2>1. crowded' = crowded /\ \A d \in Clients : pc'[d] # "off" => pc[d] # "off"
    BY <1>5 DEF Shape, PointShape, GetIdle, Goto, GetFrom
  <2> QED
    BY <2>1, NoneBegins
<1>6. ASSUME NEW c \in Clients, Exhausted(c) PROVE FewRun'
  <2>1. crowded' = crowded /\ \A d \in Clients : pc'[d] # "off" => pc[d] # "off"
    BY <1>6 DEF Shape, PointShape, Exhausted, Fail, Goto, GetFrom
  <2> QED
    BY <2>1, NoneBegins
<1>7. ASSUME NEW c \in Clients, Connect(c) PROVE FewRun'
  <2>1. crowded' = crowded /\ \A d \in Clients : pc'[d] # "off" => pc[d] # "off"
    BY <1>7 DEF Shape, PointShape, Connect, Goto, GetFrom
  <2> QED
    BY <2>1, NoneBegins
<1>8. ASSUME NEW c \in Clients, Connected(c) PROVE FewRun'
  <2>1. crowded' = crowded /\ \A d \in Clients : pc'[d] # "off" => pc[d] # "off"
    BY <1>8 DEF Shape, PointShape, Connected, Take, Goto
  <2> QED
    BY <2>1, NoneBegins
<1>9. ASSUME NEW c \in Clients, ConnectFails(c) PROVE FewRun'
  <2>1. crowded' = crowded /\ \A d \in Clients : pc'[d] # "off" => pc[d] # "off"
    BY <1>9 DEF Shape, PointShape, ConnectFails, Fail, Goto
  <2> QED
    BY <2>1, NoneBegins
<1>10. ASSUME NEW c \in Clients, Work(c) PROVE FewRun'
  <2>1. crowded' = crowded /\ \A d \in Clients : pc'[d] # "off" => pc[d] # "off"
    BY <1>10 DEF Shape, PointShape, Work, Goto
  <2> QED
    BY <2>1, NoneBegins
<1>11. ASSUME NEW c \in Clients, WorkFails(c) PROVE FewRun'
  <2>1. crowded' = crowded /\ \A d \in Clients : pc'[d] # "off" => pc[d] # "off"
    BY <1>11 DEF Shape, PointShape, WorkFails, Goto
  <2> QED
    BY <2>1, NoneBegins
<1>12. ASSUME NEW c \in Clients, Unkeyed(c) PROVE FewRun'
  <2>1. crowded' = crowded /\ \A d \in Clients : pc'[d] # "off" => pc[d] # "off"
    BY <1>12 DEF Shape, PointShape, Unkeyed, Fail, Goto
  <2> QED
    BY <2>1, NoneBegins
<1>13. ASSUME NEW c \in Clients, PutClosed(c) PROVE FewRun'
  <2>1. crowded' = crowded /\ \A d \in Clients : pc'[d] # "off" => pc[d] # "off"
    BY <1>13 DEF Shape, PointShape, PutClosed, Goto
  <2> QED
    BY <2>1, NoneBegins
<1>14. ASSUME NEW c \in Clients, Book(c) PROVE FewRun'
  <2>1. crowded' = crowded /\ \A d \in Clients : pc'[d] # "off" => pc[d] # "off"
    BY <1>14 DEF Shape, PointShape, Book, Take, Goto
  <2> QED
    BY <2>1, NoneBegins
<1>15. ASSUME NEW c \in Clients, Keep(c) PROVE FewRun'
  <2>1. crowded' = crowded /\ \A d \in Clients : pc'[d] # "off" => pc[d] # "off"
    BY <1>15 DEF Shape, PointShape, Keep, Goto
  <2> QED
    BY <2>1, NoneBegins
<1>16. ASSUME NEW c \in Clients, PutIdle(c) PROVE FewRun'
  <2>1. crowded' = crowded /\ \A d \in Clients : pc'[d] # "off" => pc[d] # "off"
    BY <1>16 DEF Shape, PointShape, PutIdle, GiveBack, Goto
  <2> QED
    BY <2>1, NoneBegins
<1>17. ASSUME NEW c \in Clients, RollbackFails(c) PROVE FewRun'
  <2>1. crowded' = crowded /\ \A d \in Clients : pc'[d] # "off" => pc[d] # "off"
    BY <1>17 DEF Shape, PointShape, RollbackFails, Fail, Goto
  <2> QED
    BY <2>1, NoneBegins
<1>18. ASSUME NEW c \in Clients, Forget(c) PROVE FewRun'
  <2>1. crowded' = crowded /\ \A d \in Clients : pc'[d] # "off" => pc[d] # "off"
    BY <1>18 DEF Shape, PointShape, Forget, Unbook, Goto
  <2> QED
    BY <2>1, NoneBegins
<1>19. ASSUME NEW c \in Clients, ForgetFails(c) PROVE FewRun'
  <2>1. crowded' = crowded /\ \A d \in Clients : pc'[d] # "off" => pc[d] # "off"
    BY <1>19 DEF Shape, PointShape, ForgetFails, Unbook, Fail, Goto
  <2> QED
    BY <2>1, NoneBegins
<1>20. CASE DbRestart
  <2>1. crowded' = crowded /\ \A d \in Clients : pc'[d] # "off" => pc[d] # "off"
    BY <1>20 DEF Shape, PointShape, DbRestart
  <2> QED
    BY <2>1, NoneBegins
<1>21. CASE UNCHANGED vars
  <2>1. crowded' = crowded /\ \A d \in Clients : pc'[d] # "off" => pc[d] # "off"
    BY <1>21 DEF Shape, PointShape, vars
  <2> QED
    BY <2>1, NoneBegins
<1>22. ASSUME NEW c \in Clients, StatementFails(c) PROVE FewRun'
  <2>1. crowded' = crowded /\ \A d \in Clients : pc'[d] # "off" => pc[d] # "off"
    BY <1>22 DEF Shape, PointShape, StatementFails, Goto
  <2> QED
    BY <2>1, NoneBegins
<1> QED
  BY <1>1, <1>2, <1>3, <1>4, <1>5, <1>6, <1>7, <1>8, <1>9, <1>10, <1>11,
     <1>12, <1>13, <1>14, <1>15, <1>16, <1>17, <1>18, <1>19, <1>20, <1>21, <1>22
     DEF Next, Enter, Do, Exit

\* A client goes on in the one pool.
LEMMA OnePoolStep ==
    ASSUME Shape, OnePool, [Next]_vars PROVE OnePool'
<1>1. ASSUME NEW t \in Threads, Start(t) PROVE OnePool'
  BY <1>1, Constants DEF Shape, PointShape, OnePool, Start, Begin, Goto
<1>2. CASE Prune
  BY <1>2, Constants DEF Shape, PointShape, OnePool, Prune, Begin, Goto
<1>3. ASSUME NEW c \in Clients, NoPool(c) PROVE OnePool'
  BY <1>3, Constants DEF Shape, PointShape, OnePool, NoPool, Goto
<1>4. ASSUME NEW c \in Clients, MakePool(c) PROVE OnePool'
  <2>1. pool' = c /\ c # NoOne /\ mine' = [mine EXCEPT ![c] = c] /\ replaced' = (replaced \/ pool # NoOne)
    BY <1>4, Constants DEF MakePool
  <2>2. ~replaced' => \A d \in Clients : mine[d] = NoOne
    BY <2>1 DEF OnePool
  <2> QED
    BY <2>1, <2>2 DEF OnePool, Shape, PointShape
<1>5. ASSUME NEW c \in Clients, GetIdle(c) PROVE OnePool'
  <2>1. PICK p \in Clients : GetFrom(c, p) /\ mine' = [mine EXCEPT ![c] = p]
    BY <1>5 DEF GetIdle
  <2>2. UNCHANGED <<pool, replaced>>
    BY <1>5 DEF GetIdle
  <2>3. pool # NoOne /\ (p = pool \/ p = mine[c])
    BY <1>5, <2>1, Constants DEF GetFrom, Shape, Rooted
  <2>4. ~replaced => p = pool
    BY <2>1, <2>3, Constants DEF OnePool
  <2> QED
    BY <2>1, <2>2, <2>3, <2>4 DEF OnePool, Shape, PointShape
<1>6. ASSUME NEW c \in Clients, Exhausted(c) PROVE OnePool'
  BY <1>6, Constants DEF Shape, PointShape, OnePool, Exhausted, Fail, Goto
<1>7. ASSUME NEW c \in Clients, Connect(c) PROVE OnePool'
  <2>1. PICK p \in Clients : GetFrom(c, p) /\ mine' = [mine EXCEPT ![c] = p]
    BY <1>7 DEF Connect
  <2>2. UNCHANGED <<pool, replaced>>
    BY <1>7 DEF Connect
  <2>3. pool # NoOne /\ (p = pool \/ p = mine[c])
    BY <1>7, <2>1, Constants DEF GetFrom, Shape, Rooted
  <2>4. ~replaced => p = pool
    BY <2>1, <2>3, Constants DEF OnePool
  <2> QED
    BY <2>1, <2>2, <2>3, <2>4 DEF OnePool, Shape, PointShape
<1>8. ASSUME NEW c \in Clients, Connected(c) PROVE OnePool'
  <2>1. UNCHANGED <<pool, mine, replaced>>
    BY <1>8 DEF Connected
  <2> QED
    BY <2>1 DEF OnePool
<1>9. ASSUME NEW c \in Clients, ConnectFails(c) PROVE OnePool'
  BY <1>9, Constants DEF Shape, PointShape, OnePool, ConnectFails, Fail, Goto
<1>10. ASSUME NEW c \in Clients, Work(c) PROVE OnePool'
  BY <1>10, Constants DEF Shape, PointShape, OnePool, Work, Goto
<1>11. ASSUME NEW c \in Clients, WorkFails(c) PROVE OnePool'
  BY <1>11, Constants DEF Shape, PointShape, OnePool, WorkFails, Goto
<1>12. ASSUME NEW c \in Clients, Unkeyed(c) PROVE OnePool'
  BY <1>12, Constants DEF Shape, PointShape, OnePool, Unkeyed, Fail, Goto
<1>13. ASSUME NEW c \in Clients, PutClosed(c) PROVE OnePool'
  <2>1. UNCHANGED <<pool, replaced>> /\ mine' = [mine EXCEPT ![c] = pool] /\ pool # NoOne
    BY <1>13, Constants DEF PutClosed, Shape, Rooted, InUse
  <2> QED
    BY <2>1 DEF OnePool, Shape, PointShape
<1>14. ASSUME NEW c \in Clients, Book(c) PROVE OnePool'
  <2>1. UNCHANGED <<pool, mine, replaced>>
    BY <1>14 DEF Book
  <2> QED
    BY <2>1 DEF OnePool
<1>15. ASSUME NEW c \in Clients, Keep(c) PROVE OnePool'
  <2>1. UNCHANGED <<pool, replaced>> /\ mine' = [mine EXCEPT ![c] = pool] /\ pool # NoOne
    BY <1>15, Constants DEF Keep, Shape, Rooted, InUse
  <2> QED
    BY <2>1 DEF OnePool, Shape, PointShape
<1>16. ASSUME NEW c \in Clients, PutIdle(c) PROVE OnePool'
  BY <1>16, Constants DEF Shape, PointShape, OnePool, PutIdle, GiveBack, Goto
<1>17. ASSUME NEW c \in Clients, RollbackFails(c) PROVE OnePool'
  BY <1>17, Constants DEF Shape, PointShape, OnePool, RollbackFails, Fail, Goto
<1>18. ASSUME NEW c \in Clients, Forget(c) PROVE OnePool'
  BY <1>18, Constants DEF Shape, PointShape, OnePool, Forget, Unbook, Goto
<1>19. ASSUME NEW c \in Clients, ForgetFails(c) PROVE OnePool'
  BY <1>19, Constants DEF Shape, PointShape, OnePool, ForgetFails, Unbook, Fail, Goto
<1>20. CASE DbRestart
  BY <1>20, Constants DEF Shape, PointShape, OnePool, DbRestart
<1>21. CASE UNCHANGED vars
  BY <1>21, Constants DEF Shape, PointShape, OnePool, vars
<1>22. ASSUME NEW c \in Clients, StatementFails(c) PROVE OnePool'
  BY <1>22, Constants DEF Shape, PointShape, OnePool, StatementFails, Goto
<1> QED
  BY <1>1, <1>2, <1>3, <1>4, <1>5, <1>6, <1>7, <1>8, <1>9, <1>10, <1>11,
     <1>12, <1>13, <1>14, <1>15, <1>16, <1>17, <1>18, <1>19, <1>20, <1>21, <1>22
     DEF Next, Enter, Do, Exit

\* A step on which nothing fails.
LEMMA NothingFails ==
    ASSUME AllWell, UNCHANGED <<faults, failures, torn>>, dead' \subseteq dead, Calm' => Calm,
           Calm' => \A d \in Clients : error'[d] \in {"none", "refused"},
           Calm' => \A d \in Clients : pc'[d] \in Lent => conn'[d] \in keyed'[pool']
    PROVE  AllWell'
BY DEF AllWell

\* Without a reason nothing fails.
LEMMA AllWellStep ==
    ASSUME Shape, CountShape, Apart, Counted, FewRun, OnePool, AllWell, [Next]_vars PROVE AllWell'
<1>1. ASSUME NEW t \in Threads, Start(t) PROVE AllWell'
  <2>1. UNCHANGED <<faults, failures, torn, dead, pool, keyed, replaced, met>>
    BY <1>1 DEF Start, Begin
  <2>2. crowded' = (crowded \/ Cardinality(Running) >= MaxConn)
    BY <1>1 DEF Start, Begin
  <2>3. Calm' => Calm
    BY <2>1, <2>2, Zenon DEF Calm
  <2>4. \A d \in Clients : error'[d] = error[d]
    BY <1>1 DEF Start, Begin
  <2>5. \A d \in Clients : pc'[d] \in Lent => pc[d] \in Lent /\ conn'[d] = conn[d]
    BY <1>1 DEF Shape, PointShape, Lent, Start, Begin, Goto
  <2> QED
    BY <2>1, <2>3, <2>4, <2>5, NothingFails DEF AllWell
<1>2. CASE Prune
  <2>1. UNCHANGED <<faults, failures, torn, dead, pool, keyed, replaced, met>>
    BY <1>2 DEF Prune, Begin
  <2>2. crowded' = (crowded \/ Cardinality(Running) >= MaxConn)
    BY <1>2 DEF Prune, Begin
  <2>3. Calm' => Calm
    BY <2>1, <2>2, Zenon DEF Calm
  <2>4. \A d \in Clients : error'[d] = error[d]
    BY <1>2 DEF Prune, Begin
  <2>5. \A d \in Clients : pc'[d] \in Lent => pc[d] \in Lent /\ conn'[d] = conn[d]
    BY <1>2 DEF Shape, PointShape, Lent, Prune, Begin, Goto
  <2> QED
    BY <2>1, <2>3, <2>4, <2>5, NothingFails DEF AllWell
<1>3. ASSUME NEW c \in Clients, NoPool(c) PROVE AllWell'
  <2>1. UNCHANGED <<faults, failures, torn, dead, pool, keyed>> /\ (Calm' => Calm)
    BY <1>3 DEF Calm, NoPool, Goto
  <2>2. \A d \in Clients : error'[d] = error[d]
    BY <1>3 DEF NoPool, Goto
  <2>3. \A d \in Clients : pc'[d] \in Lent => pc[d] \in Lent /\ conn'[d] = conn[d]
    BY <1>3 DEF Shape, PointShape, Lent, NoPool, Goto
  <2> QED
    BY <2>1, <2>2, <2>3, NothingFails DEF AllWell
<1>4. ASSUME NEW c \in Clients, MakePool(c) PROVE AllWell'
  <2>1. UNCHANGED <<faults, failures, torn, error>> /\ dead' \subseteq dead /\ (Calm' => Calm /\ pool = NoOne)
    BY <1>4 DEF MakePool, Calm
  <2>2. \A d \in Clients : pc'[d] \in Lent => pc[d] \in Lent
    BY <1>4 DEF MakePool, Goto, Shape, PointShape, Lent
  <2>3. pool = NoOne => \A d \in Clients : pc[d] \notin Lent
    BY Constants DEF Shape, Rooted, InUse, Lent
  <2> QED
    BY <2>1, <2>2, <2>3, NothingFails DEF AllWell
<1>5. ASSUME NEW c \in Clients, GetIdle(c) PROVE AllWell'
  <2>1. UNCHANGED <<faults, failures, torn, error, dead, pool, keyed, crowded, replaced>> /\ (~met' => ~met)
    BY <1>5 DEF GetIdle
  <2>2. Calm' => Calm
    BY <2>1 DEF Calm
  <2>3. \A d \in Clients : pc'[d] \in Lent => pc[d] \in Lent /\ conn'[d] = conn[d]
    <3>1. PICK k : conn' = [conn EXCEPT ![c] = k] /\ pc' = [pc EXCEPT ![c] = "book"]
      BY <1>5 DEF GetIdle, Goto
    <3> QED
      BY <3>1 DEF Lent, Shape, PointShape
  <2> QED
    BY <2>1, <2>2, <2>3, NothingFails DEF AllWell
<1>6. ASSUME NEW c \in Clients, Exhausted(c) PROVE AllWell'
  <2>1. PICK p \in Clients : GetFrom(c, p) /\ used[p] = MaxConn
    BY <1>6 DEF Exhausted
  <2>2. pc[c] \in {"enter", "get"} /\ pool \in Clients
    BY <2>1 DEF GetFrom, Shape, Rooted, PoolShape
  <2>3. ~Calm
    <3>1. SUFFICES ASSUME Calm PROVE FALSE
      OBVIOUS
    <3>2. p = pool
      BY <2>1, <3>1, Constants DEF GetFrom, OnePool, Calm, Shape, Rooted
    <3>3. ~met /\ ~torn /\ pool # NoOne
      BY <2>2, <3>1, Constants DEF Calm, AllWell
    <3>4. Cardinality(Booked) = MaxConn
      BY <2>1, <3>2, <3>3 DEF Counted
    <3>5. Booked \subseteq Running \ {c} /\ c \in Running
      BY <2>2 DEF Booked, Running, Holders, InUse
    <3>6. IsFiniteSet(Running \ {c}) /\ Cardinality(Running \ {c}) = Cardinality(Running) - 1
      BY <3>5, RunningCounts, FS_RemoveElement
    <3>7. Cardinality(Booked) <= Cardinality(Running) - 1
      BY <3>5, <3>6, FS_Subset
    <3>8. Cardinality(Running) <= MaxConn
      BY <3>1 DEF FewRun, Calm
    <3> QED
      BY <3>4, <3>7, <3>8, RunningCounts, Constants
  <2>4. UNCHANGED <<faults, dead, torn>> /\ failures' \in {failures, failures + 1} /\ failures \in Nat /\ (Calm' => Calm)
    BY <1>6 DEF Exhausted, Fail, AllWell, Calm
  <2> QED
    BY <2>3, <2>4 DEF AllWell
<1>7. ASSUME NEW c \in Clients, Connect(c) PROVE AllWell'
  <2>1. UNCHANGED <<faults, failures, torn, dead, pool, keyed>> /\ (Calm' => Calm)
    BY <1>7 DEF Calm, Connect, Goto
  <2>2. \A d \in Clients : error'[d] = error[d]
    BY <1>7 DEF Connect, Goto
  <2>3. \A d \in Clients : pc'[d] \in Lent => pc[d] \in Lent /\ conn'[d] = conn[d]
    BY <1>7 DEF Shape, PointShape, Lent, Connect, Goto
  <2> QED
    BY <2>1, <2>2, <2>3, NothingFails DEF AllWell
<1>8. ASSUME NEW c \in Clients, Connected(c) PROVE AllWell'
  <2>1. PICK k \in Conns, p \in Clients : p = mine[c] /\ Take(c, p, k)
    BY <1>8 DEF Connected, Shape, Rooted
  <2>2. UNCHANGED <<faults, failures, torn, error, pool, mine>> /\ dead' \subseteq dead /\ (Calm' => Calm)
    BY <1>8 DEF Connected, Calm
  <2>3. /\ pc'[c] = "block" /\ conn'[c] = k /\ \A d \in Clients \ {c} : pc'[d] = pc[d] /\ conn'[d] = conn[d]
        /\ k \in keyed'[p] /\ \A q \in Clients : keyed[q] \subseteq keyed'[q]
    BY <2>1 DEF Take, Goto, Shape, PointShape, PoolShape
  <2>4. ASSUME Calm', NEW d \in Clients, pc'[d] \in Lent PROVE conn'[d] \in keyed'[pool']
    <3>1. p = pool
      BY <2>1, <2>2, <2>4, Constants DEF OnePool, Calm
    <3>2. CASE d = c
      BY <2>2, <2>3, <3>1, <3>2
    <3>3. CASE d # c
      BY <2>1, <2>2, <2>3, <2>4, <3>1, <3>3 DEF AllWell
    <3> QED
      BY <3>2, <3>3
  <2> QED
    BY <2>2, <2>4, NothingFails DEF AllWell
<1>9. ASSUME NEW c \in Clients, ConnectFails(c) PROVE AllWell'
  <2>1. faults' = faults + 1 /\ failures' \in {failures, failures + 1} /\ faults \in Nat /\ failures \in Nat
    BY <1>9 DEF ConnectFails, Fail, AllWell
  <2>2. faults' # 0 /\ faults' \in Nat /\ failures' \in Nat
    BY <2>1
  <2> QED
    BY <2>2 DEF AllWell, Calm
<1>10. ASSUME NEW c \in Clients, Work(c) PROVE AllWell'
  <2>1. UNCHANGED <<faults, failures, torn, dead, pool, keyed>> /\ (Calm' => Calm)
    BY <1>10 DEF Calm, Work, Goto
  <2>2. \A d \in Clients : error'[d] = error[d]
    BY <1>10 DEF Work, Goto
  <2>3. \A d \in Clients : pc'[d] \in Lent => pc[d] \in Lent /\ conn'[d] = conn[d]
    BY <1>10 DEF Shape, PointShape, Lent, Work, Goto
  <2> QED
    BY <2>1, <2>2, <2>3, NothingFails DEF AllWell
<1>11. ASSUME NEW c \in Clients, WorkFails(c) PROVE AllWell'
  <2>1. faults # 0
    BY <1>11 DEF WorkFails, AllWell
  <2>2. UNCHANGED <<faults, failures>>
    BY <1>11 DEF WorkFails
  <2> QED
    BY <2>1, <2>2 DEF AllWell, Calm
<1>12. ASSUME NEW c \in Clients, Unkeyed(c) PROVE AllWell'
  <2>1. ~Calm
    BY <1>12 DEF Unkeyed, AllWell, Lent
  <2>2. UNCHANGED <<faults, dead, torn>> /\ failures' \in {failures, failures + 1} /\ failures \in Nat /\ (Calm' => Calm)
    BY <1>12 DEF Unkeyed, Fail, AllWell, Calm
  <2> QED
    BY <2>1, <2>2 DEF AllWell
<1>13. ASSUME NEW c \in Clients, PutClosed(c) PROVE AllWell'
  <2>1. UNCHANGED <<faults, failures, torn, dead, pool, keyed>> /\ (Calm' => Calm)
    BY <1>13 DEF Calm, PutClosed, Goto
  <2>2. \A d \in Clients : error'[d] = error[d]
    BY <1>13 DEF PutClosed, Goto
  <2>3. \A d \in Clients : pc'[d] \in Lent => pc[d] \in Lent /\ conn'[d] = conn[d]
    BY <1>13 DEF Shape, PointShape, Lent, PutClosed, Goto
  <2> QED
    BY <2>1, <2>2, <2>3, NothingFails DEF AllWell
<1>14. ASSUME NEW c \in Clients, Book(c) PROVE AllWell'
  <2>1. PICK k \in Conns, p \in Clients : p = mine[c] /\ Take(c, p, k)
    BY <1>14 DEF Book, Shape, Rooted, PointShape, Holding, InUse
  <2>2. UNCHANGED <<faults, failures, torn, error, pool, mine>> /\ dead' \subseteq dead /\ (Calm' => Calm)
    BY <1>14 DEF Book, Calm
  <2>3. /\ pc'[c] = "block" /\ conn'[c] = k /\ \A d \in Clients \ {c} : pc'[d] = pc[d] /\ conn'[d] = conn[d]
        /\ k \in keyed'[p] /\ \A q \in Clients : keyed[q] \subseteq keyed'[q]
    BY <2>1 DEF Take, Goto, Shape, PointShape, PoolShape
  <2>4. ASSUME Calm', NEW d \in Clients, pc'[d] \in Lent PROVE conn'[d] \in keyed'[pool']
    <3>1. p = pool
      BY <2>1, <2>2, <2>4, Constants DEF OnePool, Calm
    <3>2. CASE d = c
      BY <2>2, <2>3, <3>1, <3>2
    <3>3. CASE d # c
      BY <2>1, <2>2, <2>3, <2>4, <3>1, <3>3 DEF AllWell
    <3> QED
      BY <3>2, <3>3
  <2> QED
    BY <2>2, <2>4, NothingFails DEF AllWell
<1>15. ASSUME NEW c \in Clients, Keep(c) PROVE AllWell'
  <2>1. UNCHANGED <<faults, failures, torn, dead, pool, keyed>> /\ (Calm' => Calm)
    BY <1>15 DEF Calm, Keep, Goto
  <2>2. \A d \in Clients : error'[d] = error[d]
    BY <1>15 DEF Keep, Goto
  <2>3. \A d \in Clients : pc'[d] \in Lent => pc[d] \in Lent /\ conn'[d] = conn[d]
    BY <1>15 DEF Shape, PointShape, Lent, Keep, Goto
  <2> QED
    BY <2>1, <2>2, <2>3, NothingFails DEF AllWell
<1>16. ASSUME NEW c \in Clients, PutIdle(c) PROVE AllWell'
  <2>1. UNCHANGED <<faults, failures, torn, dead, pool, keyed>> /\ (Calm' => Calm)
    BY <1>16 DEF Calm, PutIdle, Goto
  <2>2. \A d \in Clients : error'[d] = error[d]
    BY <1>16 DEF PutIdle, Goto
  <2>3. \A d \in Clients : pc'[d] \in Lent => pc[d] \in Lent /\ conn'[d] = conn[d]
    BY <1>16 DEF Shape, PointShape, Lent, PutIdle, Goto
  <2> QED
    BY <2>1, <2>2, <2>3, NothingFails DEF AllWell
<1>17. ASSUME NEW c \in Clients, RollbackFails(c) PROVE AllWell'
  <2>1. faults # 0
    BY <1>17 DEF RollbackFails, AllWell
  <2>2. faults' = faults /\ failures' \in {failures, failures + 1} /\ failures \in Nat
    BY <1>17 DEF RollbackFails, Fail, AllWell
  <2> QED
    BY <2>1, <2>2 DEF AllWell, Calm
<1>18. ASSUME NEW c \in Clients, Forget(c) PROVE AllWell'
  <2>1. UNCHANGED <<faults, failures, torn, dead, pool, error>> /\ (Calm' => Calm)
    BY <1>18 DEF Forget, Unbook, Calm
  <2>2. ASSUME Calm', NEW d \in Clients, pc'[d] \in Lent PROVE conn'[d] \in keyed'[pool']
    <3>1. d # c /\ pc[d] \in Lent /\ conn'[d] = conn[d] /\ pc[c] = "forget"
      BY <1>18, <2>2 DEF Forget, Goto, Shape, PointShape, Lent
    <3>2. conn[d] \in keyed[pool] /\ conn[d] # conn[c]
      BY <2>1, <2>2, <3>1 DEF AllWell, Apart, Holders, InUse, Lent, Calm
    <3>3. pool \in Clients /\ mine[c] \in Clients
      BY <3>1 DEF Shape, Rooted
    <3>4. keyed' = [keyed EXCEPT ![mine[c]] = @ \ {conn[c]}]
      BY <1>18 DEF Forget, Unbook
    <3> QED
      BY <2>1, <3>1, <3>2, <3>3, <3>4 DEF Shape, PoolShape
  <2> QED
    BY <2>1, <2>2, NothingFails DEF AllWell
<1>19. ASSUME NEW c \in Clients, ForgetFails(c) PROVE AllWell'
  <2>1. /\ UNCHANGED <<faults, dead, torn, pool>> /\ failures' \in {failures, failures + 1} /\ failures \in Nat /\ (Calm' => Calm)
        /\ (error[c] = "refused" => failures' = failures)
    BY <1>19 DEF ForgetFails, Unbook, Fail, AllWell, Calm
  <2>2. Calm => error[c] = "refused"
    BY <1>19 DEF ForgetFails, AllWell, Apart, Calm
  <2>3. Calm' => \A d \in Clients : error'[d] \in {"none", "refused"}
    BY <1>19, <2>1 DEF ForgetFails, Fail, AllWell, CountShape
  <2>4. ASSUME Calm', NEW d \in Clients, pc'[d] \in Lent PROVE conn'[d] \in keyed'[pool']
    <3>1. d # c /\ pc[d] \in Lent /\ conn'[d] = conn[d] /\ pc[c] = "forget"
      BY <1>19, <2>4 DEF ForgetFails, Fail, Goto, Shape, PointShape, Lent
    <3>2. conn[d] \in keyed[pool] /\ conn[d] # conn[c]
      BY <2>1, <2>4, <3>1 DEF AllWell, Apart, Holders, InUse, Lent, Calm
    <3>3. pool \in Clients /\ mine[c] \in Clients
      BY <3>1 DEF Shape, Rooted
    <3>4. keyed' = [keyed EXCEPT ![mine[c]] = @ \ {conn[c]}]
      BY <1>19 DEF ForgetFails, Unbook
    <3> QED
      BY <2>1, <3>1, <3>2, <3>3, <3>4 DEF Shape, PoolShape
  <2>5. failures' \in Nat /\ (Calm' => failures' = 0)
    BY <2>1, <2>2 DEF AllWell
  <2> QED
    BY <2>1, <2>3, <2>4, <2>5 DEF AllWell
<1>20. CASE DbRestart
  <2>1. faults' = faults + 1 /\ failures' = failures /\ faults \in Nat /\ failures \in Nat
    BY <1>20 DEF DbRestart, AllWell
  <2>2. faults' # 0 /\ faults' \in Nat
    BY <2>1
  <2> QED
    BY <2>1, <2>2 DEF AllWell, Calm
<1>21. CASE UNCHANGED vars
  <2>1. UNCHANGED <<faults, failures, torn, dead, pool, keyed>> /\ (Calm' => Calm)
    BY <1>21 DEF Calm, vars
  <2>2. \A d \in Clients : error'[d] = error[d]
    BY <1>21 DEF vars
  <2>3. \A d \in Clients : pc'[d] \in Lent => pc[d] \in Lent /\ conn'[d] = conn[d]
    BY <1>21 DEF Shape, PointShape, Lent, vars
  <2> QED
    BY <2>1, <2>2, <2>3, NothingFails DEF AllWell
<1>22. ASSUME NEW c \in Clients, StatementFails(c) PROVE AllWell'
  <2>1. UNCHANGED <<faults, failures, torn, dead, pool, keyed>> /\ (Calm' => Calm)
    BY <1>22 DEF Calm, StatementFails, Goto
  <2>2. \A d \in Clients : error'[d] = error[d] \/ error'[d] = "refused"
    BY <1>22 DEF StatementFails, CountShape
  <2>3. \A d \in Clients : pc'[d] \in Lent => pc[d] \in Lent /\ conn'[d] = conn[d]
    BY <1>22 DEF Shape, PointShape, Lent, StatementFails, Goto
  <2> QED
    BY <2>1, <2>2, <2>3, NothingFails DEF AllWell
<1> QED
  BY <1>1, <1>2, <1>3, <1>4, <1>5, <1>6, <1>7, <1>8, <1>9, <1>10, <1>11,
     <1>12, <1>13, <1>14, <1>15, <1>16, <1>17, <1>18, <1>19, <1>20, <1>21, <1>22
     DEF Next, Enter, Do, Exit

-----------------------------------------------------------------------------
(***************************************************************************)
(* The rest of the types: the work of a client.                            *)
(***************************************************************************)
WorkShape ==
    /\ op \in [Clients -> {"none", "query", "settings", "prune"}] /\ left \in [Clients -> 0..3]
    /\ \A c \in Clients : IF pc[c] = "off" THEN op[c] = "none" /\ left[c] = 0
                          ELSE op[c] \in DOMAIN Longest /\ left[c] \in 1..Longest[op[c]]

\* How many blocks there are.
LEMMA Blocks ==
    /\ DOMAIN Longest = {"query", "settings", "prune"} /\ MaxKeys \in 1..3
    /\ Longest["query"] = 1 /\ Longest["settings"] = MaxKeys /\ Longest["prune"] = 3
BY ConstantsAssumption DEF Longest

\* A client goes on with its work.
LEMMA SameWork ==
    ASSUME WorkShape, UNCHANGED <<op, left>>, \A d \in Clients : pc'[d] = "off" <=> pc[d] = "off"
    PROVE  WorkShape'
BY DEF WorkShape

\* A client has work to do.
LEMMA WorkBegins ==
    ASSUME WorkShape, Shape, NEW c \in Clients, pc' = [pc EXCEPT ![c] = "enter"],
           NEW w \in DOMAIN Longest, NEW n \in 1..Longest[w],
           op' = [op EXCEPT ![c] = w], left' = [left EXCEPT ![c] = n]
    PROVE  WorkShape'
<1>1. w \in {"none", "query", "settings", "prune"} /\ n \in 0..3
  BY Blocks
<1>2. /\ op'[c] = w /\ left'[c] = n /\ pc'[c] = "enter"
      /\ \A d \in Clients \ {c} : op'[d] = op[d] /\ left'[d] = left[d] /\ pc'[d] = pc[d]
      /\ op' \in [Clients -> {"none", "query", "settings", "prune"}] /\ left' \in [Clients -> 0..3]
  BY <1>1 DEF WorkShape, Shape, PointShape
<1>3. ASSUME NEW d \in Clients
      PROVE  IF pc'[d] = "off" THEN op'[d] = "none" /\ left'[d] = 0
                               ELSE op'[d] \in DOMAIN Longest /\ left'[d] \in 1..Longest[op'[d]]
  <2>1. CASE d = c
    BY <1>2, <2>1
  <2>2. CASE d # c
    BY <1>2, <2>2 DEF WorkShape
  <2> QED
    BY <2>1, <2>2
<1> QED
  BY <1>2, <1>3 DEF WorkShape

\* A client has done its work.
LEMMA WorkEnds ==
    ASSUME WorkShape, Shape, NEW c \in Clients, pc' = [pc EXCEPT ![c] = "off"],
           op' = [op EXCEPT ![c] = "none"], left' = [left EXCEPT ![c] = 0]
    PROVE  WorkShape'
<1>1. /\ op'[c] = "none" /\ left'[c] = 0 /\ pc'[c] = "off"
      /\ \A d \in Clients \ {c} : op'[d] = op[d] /\ left'[d] = left[d] /\ pc'[d] = pc[d]
      /\ op' \in [Clients -> {"none", "query", "settings", "prune"}] /\ left' \in [Clients -> 0..3]
  BY DEF WorkShape, Shape, PointShape
<1> QED
  BY <1>1 DEF WorkShape

\* A client works off its blocks.
LEMMA WorkShapeStep ==
    ASSUME Shape, WorkShape, [Next]_vars PROVE WorkShape'
<1>1. ASSUME NEW t \in Threads, Start(t) PROVE WorkShape'
  <2>1. t \in Clients /\ pc' = [pc EXCEPT ![t] = "enter"]
    BY <1>1, Constants DEF Start, Begin, Goto
  <2>2. \E w \in DOMAIN Longest : \E n \in 1..Longest[w] : op' = [op EXCEPT ![t] = w] /\ left' = [left EXCEPT ![t] = n]
    <3>1. CASE Begin(t, "query", 1)
      <4>1. "query" \in DOMAIN Longest /\ 1 \in 1..Longest["query"]
        BY Blocks
      <4>2. op' = [op EXCEPT ![t] = "query"] /\ left' = [left EXCEPT ![t] = 1]
        BY <3>1 DEF Begin
      <4> QED
        BY <4>1, <4>2
    <3>2. ASSUME NEW n \in 1..MaxKeys, Begin(t, "settings", n)
          PROVE  \E w \in DOMAIN Longest : \E m \in 1..Longest[w] : op' = [op EXCEPT ![t] = w] /\ left' = [left EXCEPT ![t] = m]
      BY <3>2, Blocks DEF Begin
    <3> QED
      BY <1>1, <3>1, <3>2 DEF Start
  <2> QED
    BY <2>1, <2>2, WorkBegins
<1>2. CASE Prune
  <2>1. Loop \in Clients /\ pc' = [pc EXCEPT ![Loop] = "enter"] /\ op' = [op EXCEPT ![Loop] = "prune"] /\ left' = [left EXCEPT ![Loop] = 3]
    BY <1>2, Constants DEF Prune, Begin, Goto
  <2>2. "prune" \in DOMAIN Longest /\ 3 \in 1..Longest["prune"]
    BY Blocks
  <2> QED
    BY <2>1, <2>2, WorkBegins
<1>3. ASSUME NEW c \in Clients, NoPool(c) PROVE WorkShape'
  <2>1. UNCHANGED <<op, left>> /\ \A d \in Clients : pc'[d] = "off" <=> pc[d] = "off"
    BY <1>3 DEF Shape, PointShape, NoPool, Goto
  <2> QED
    BY <2>1, SameWork
<1>4. ASSUME NEW c \in Clients, MakePool(c) PROVE WorkShape'
  <2>1. UNCHANGED <<op, left>> /\ \A d \in Clients : pc'[d] = "off" <=> pc[d] = "off"
    BY <1>4 DEF Shape, PointShape, MakePool, Goto
  <2> QED
    BY <2>1, SameWork
<1>5. ASSUME NEW c \in Clients, GetIdle(c) PROVE WorkShape'
  <2>1. UNCHANGED <<op, left>> /\ \A d \in Clients : pc'[d] = "off" <=> pc[d] = "off"
    BY <1>5 DEF Shape, PointShape, GetIdle, Goto, GetFrom
  <2> QED
    BY <2>1, SameWork
<1>6. ASSUME NEW c \in Clients, Exhausted(c) PROVE WorkShape'
  <2>1. pc' = [pc EXCEPT ![c] = "off"] /\ op' = [op EXCEPT ![c] = "none"] /\ left' = [left EXCEPT ![c] = 0]
    BY <1>6 DEF Exhausted, Fail, Goto
  <2> QED
    BY <2>1, WorkEnds
<1>7. ASSUME NEW c \in Clients, Connect(c) PROVE WorkShape'
  <2>1. UNCHANGED <<op, left>> /\ \A d \in Clients : pc'[d] = "off" <=> pc[d] = "off"
    BY <1>7 DEF Shape, PointShape, Connect, Goto, GetFrom
  <2> QED
    BY <2>1, SameWork
<1>8. ASSUME NEW c \in Clients, Connected(c) PROVE WorkShape'
  <2>1. UNCHANGED <<op, left>> /\ \A d \in Clients : pc'[d] = "off" <=> pc[d] = "off"
    BY <1>8 DEF Shape, PointShape, Connected, Take, Goto
  <2> QED
    BY <2>1, SameWork
<1>9. ASSUME NEW c \in Clients, ConnectFails(c) PROVE WorkShape'
  <2>1. pc' = [pc EXCEPT ![c] = "off"] /\ op' = [op EXCEPT ![c] = "none"] /\ left' = [left EXCEPT ![c] = 0]
    BY <1>9 DEF ConnectFails, Fail, Goto
  <2> QED
    BY <2>1, WorkEnds
<1>10. ASSUME NEW c \in Clients, Work(c) PROVE WorkShape'
  <2>1. UNCHANGED <<op, left>> /\ \A d \in Clients : pc'[d] = "off" <=> pc[d] = "off"
    BY <1>10 DEF Shape, PointShape, Work, Goto
  <2> QED
    BY <2>1, SameWork
<1>11. ASSUME NEW c \in Clients, WorkFails(c) PROVE WorkShape'
  <2>1. UNCHANGED <<op, left>> /\ \A d \in Clients : pc'[d] = "off" <=> pc[d] = "off"
    BY <1>11 DEF Shape, PointShape, WorkFails, Goto
  <2> QED
    BY <2>1, SameWork
<1>12. ASSUME NEW c \in Clients, Unkeyed(c) PROVE WorkShape'
  <2>1. pc' = [pc EXCEPT ![c] = "off"] /\ op' = [op EXCEPT ![c] = "none"] /\ left' = [left EXCEPT ![c] = 0]
    BY <1>12 DEF Unkeyed, Fail, Goto
  <2> QED
    BY <2>1, WorkEnds
<1>13. ASSUME NEW c \in Clients, PutClosed(c) PROVE WorkShape'
  <2>1. UNCHANGED <<op, left>> /\ \A d \in Clients : pc'[d] = "off" <=> pc[d] = "off"
    BY <1>13 DEF Shape, PointShape, PutClosed, Goto
  <2> QED
    BY <2>1, SameWork
<1>14. ASSUME NEW c \in Clients, Book(c) PROVE WorkShape'
  <2>1. UNCHANGED <<op, left>> /\ \A d \in Clients : pc'[d] = "off" <=> pc[d] = "off"
    BY <1>14 DEF Shape, PointShape, Book, Take, Goto
  <2> QED
    BY <2>1, SameWork
<1>15. ASSUME NEW c \in Clients, Keep(c) PROVE WorkShape'
  <2>1. UNCHANGED <<op, left>> /\ \A d \in Clients : pc'[d] = "off" <=> pc[d] = "off"
    BY <1>15 DEF Shape, PointShape, Keep, Goto
  <2> QED
    BY <2>1, SameWork
<1>16. ASSUME NEW c \in Clients, PutIdle(c) PROVE WorkShape'
  <2>1. UNCHANGED <<op, left>> /\ \A d \in Clients : pc'[d] = "off" <=> pc[d] = "off"
    BY <1>16 DEF Shape, PointShape, PutIdle, GiveBack, Goto
  <2> QED
    BY <2>1, SameWork
<1>17. ASSUME NEW c \in Clients, RollbackFails(c) PROVE WorkShape'
  <2>1. pc' = [pc EXCEPT ![c] = "off"] /\ op' = [op EXCEPT ![c] = "none"] /\ left' = [left EXCEPT ![c] = 0]
    BY <1>17 DEF RollbackFails, Fail, Goto
  <2> QED
    BY <2>1, WorkEnds
<1>18. ASSUME NEW c \in Clients, Forget(c) PROVE WorkShape'
  <2>1. CASE op' = [op EXCEPT ![c] = "none"] /\ left' = [left EXCEPT ![c] = 0] /\ Goto(c, "off")
    BY <2>1, WorkEnds DEF Goto
  <2>2. CASE left[c] > 1 /\ left' = [left EXCEPT ![c] = @ - 1] /\ Goto(c, "enter") /\ op' = op
    <3>1. pc[c] = "forget" /\ op[c] \in DOMAIN Longest /\ left[c] \in 1..Longest[op[c]]
      BY <1>18 DEF Forget, WorkShape
    <3>2. left[c] - 1 \in 1..Longest[op[c]]
      BY <2>2, <3>1, Blocks
    <3>3. op' = [op EXCEPT ![c] = op[c]] /\ left' = [left EXCEPT ![c] = left[c] - 1]
      BY <2>2 DEF WorkShape
    <3> QED
      BY <2>2, <3>1, <3>2, <3>3, WorkBegins DEF Goto
  <2> QED
    BY <1>18, <2>1, <2>2 DEF Forget
<1>19. ASSUME NEW c \in Clients, ForgetFails(c) PROVE WorkShape'
  <2>1. pc' = [pc EXCEPT ![c] = "off"] /\ op' = [op EXCEPT ![c] = "none"] /\ left' = [left EXCEPT ![c] = 0]
    BY <1>19 DEF ForgetFails, Fail, Goto
  <2> QED
    BY <2>1, WorkEnds
<1>20. CASE DbRestart
  <2>1. UNCHANGED <<op, left>> /\ \A d \in Clients : pc'[d] = "off" <=> pc[d] = "off"
    BY <1>20 DEF Shape, PointShape, DbRestart
  <2> QED
    BY <2>1, SameWork
<1>21. CASE UNCHANGED vars
  <2>1. UNCHANGED <<op, left>> /\ \A d \in Clients : pc'[d] = "off" <=> pc[d] = "off"
    BY <1>21 DEF Shape, PointShape, vars
  <2> QED
    BY <2>1, SameWork
<1>22. ASSUME NEW c \in Clients, StatementFails(c) PROVE WorkShape'
  <2>1. UNCHANGED <<op, left>> /\ \A d \in Clients : pc'[d] = "off" <=> pc[d] = "off"
    BY <1>22 DEF Shape, PointShape, StatementFails, Goto
  <2> QED
    BY <2>1, SameWork
<1> QED
  BY <1>1, <1>2, <1>3, <1>4, <1>5, <1>6, <1>7, <1>8, <1>9, <1>10, <1>11,
     <1>12, <1>13, <1>14, <1>15, <1>16, <1>17, <1>18, <1>19, <1>20, <1>21, <1>22
     DEF Next, Enter, Do, Exit

\* A step keeps the types of the histories.
LEMMA CountShapeStep ==
    ASSUME CountShape, [Next]_vars PROVE CountShape'
<1>1. ASSUME NEW t \in Threads, Start(t) PROVE CountShape'
  <2>1. UNCHANGED <<dead, error, faults, replaced, met, together, torn>> /\ crowded' \in BOOLEAN
    BY <1>1 DEF Start, Begin
  <2>2. requests' \in 0..MaxEvents
    BY <1>1, ConstantsAssumption DEF Start, Begin, CountShape
  <2> QED
    BY <2>1, <2>2 DEF CountShape
<1>2. CASE Prune
  <2>1. UNCHANGED <<dead, error, faults, replaced, met, together, torn>> /\ crowded' \in BOOLEAN
    BY <1>2 DEF Prune, Begin
  <2>2. requests' \in 0..MaxEvents
    BY <1>2, ConstantsAssumption DEF Prune, Begin, CountShape
  <2> QED
    BY <2>1, <2>2 DEF CountShape
<1>3. ASSUME NEW c \in Clients, NoPool(c) PROVE CountShape'
  BY <1>3, ConstantsAssumption DEF Errors, CountShape, NoPool, Goto
<1>4. ASSUME NEW c \in Clients, MakePool(c) PROVE CountShape'
  <2>1. dead' \subseteq dead /\ UNCHANGED <<error, requests, faults, crowded, met, together, torn>>
    BY <1>4 DEF MakePool
  <2>2. replaced' = (replaced \/ pool # NoOne)
    BY <1>4 DEF MakePool
  <2>3. replaced' \in BOOLEAN
    BY <2>2
  <2> QED
    BY <2>1, <2>3 DEF CountShape
<1>5. ASSUME NEW c \in Clients, GetIdle(c) PROVE CountShape'
  <2>1. UNCHANGED <<dead, error, requests, faults, crowded, replaced, torn>> /\ met' \in BOOLEAN /\ together' \in BOOLEAN
    BY <1>5 DEF GetIdle, OthersTake
  <2> QED
    BY <2>1 DEF CountShape
<1>6. ASSUME NEW c \in Clients, Exhausted(c) PROVE CountShape'
  BY <1>6, ConstantsAssumption DEF Errors, CountShape, Exhausted, Fail, Goto
<1>7. ASSUME NEW c \in Clients, Connect(c) PROVE CountShape'
  <2>1. UNCHANGED <<dead, error, requests, faults, crowded, replaced, met, torn>> /\ together' \in BOOLEAN
    BY <1>7 DEF Connect, OthersTake
  <2> QED
    BY <2>1 DEF CountShape
<1>8. ASSUME NEW c \in Clients, Connected(c) PROVE CountShape'
  BY <1>8, ConstantsAssumption DEF Errors, CountShape, Connected, Take, Goto
<1>9. ASSUME NEW c \in Clients, ConnectFails(c) PROVE CountShape'
  BY <1>9, ConstantsAssumption DEF Errors, CountShape, ConnectFails, Fail, Goto
<1>10. ASSUME NEW c \in Clients, Work(c) PROVE CountShape'
  BY <1>10, ConstantsAssumption DEF Errors, CountShape, Work, Goto
<1>11. ASSUME NEW c \in Clients, WorkFails(c) PROVE CountShape'
  BY <1>11, ConstantsAssumption DEF Errors, CountShape, WorkFails, Goto
<1>12. ASSUME NEW c \in Clients, Unkeyed(c) PROVE CountShape'
  BY <1>12, ConstantsAssumption DEF Errors, CountShape, Unkeyed, Fail, Goto
<1>13. ASSUME NEW c \in Clients, PutClosed(c) PROVE CountShape'
  BY <1>13, ConstantsAssumption DEF Errors, CountShape, PutClosed, Goto
<1>14. ASSUME NEW c \in Clients, Book(c) PROVE CountShape'
  BY <1>14, ConstantsAssumption DEF Errors, CountShape, Book, Take, Goto
<1>15. ASSUME NEW c \in Clients, Keep(c) PROVE CountShape'
  BY <1>15, ConstantsAssumption DEF Errors, CountShape, Keep, Goto
<1>16. ASSUME NEW c \in Clients, PutIdle(c) PROVE CountShape'
  BY <1>16, ConstantsAssumption DEF Errors, CountShape, PutIdle, GiveBack, Goto
<1>17. ASSUME NEW c \in Clients, RollbackFails(c) PROVE CountShape'
  BY <1>17, ConstantsAssumption DEF Errors, CountShape, RollbackFails, Fail, Goto
<1>18. ASSUME NEW c \in Clients, Forget(c) PROVE CountShape'
  BY <1>18, ConstantsAssumption DEF Errors, CountShape, Forget, Unbook, Goto
<1>19. ASSUME NEW c \in Clients, ForgetFails(c) PROVE CountShape'
  BY <1>19, ConstantsAssumption DEF Errors, CountShape, ForgetFails, Unbook, Fail, Goto
<1>20. CASE DbRestart
  <2>1. UNCHANGED <<error, requests, crowded, replaced, met, together>> /\ dead' \subseteq Conns
    BY <1>20 DEF DbRestart
  <2>2. torn' \in BOOLEAN
    BY <1>20 DEF DbRestart
  <2>3. faults' \in 0..MaxEvents
    BY <1>20, ConstantsAssumption DEF DbRestart, CountShape
  <2> QED
    BY <2>1, <2>2, <2>3 DEF CountShape
<1>21. CASE UNCHANGED vars
  BY <1>21, ConstantsAssumption DEF Errors, CountShape, vars
<1>22. ASSUME NEW c \in Clients, StatementFails(c) PROVE CountShape'
  BY <1>22, ConstantsAssumption DEF Errors, CountShape, StatementFails, Goto
<1> QED
  BY <1>1, <1>2, <1>3, <1>4, <1>5, <1>6, <1>7, <1>8, <1>9, <1>10, <1>11,
     <1>12, <1>13, <1>14, <1>15, <1>16, <1>17, <1>18, <1>19, <1>20, <1>21, <1>22
     DEF Next, Enter, Do, Exit

-----------------------------------------------------------------------------
(***************************************************************************)
(* The books of a pool have a place for each client that will strike its   *)
(* own out, so that their size does not fall below zero.                   *)
(***************************************************************************)
Attached(p) == {c \in Clients : \/ pc[c] \in {"block", "put"} /\ conn[c] \in keyed[p]
                                \/ pc[c] \in {"keep", "forget"} /\ mine[c] = p}

Books == \A p \in Clients : Cardinality(Attached(p)) <= used[p]

\* The clients of a pool can be counted.
LEMMA AttachedCounts ==
    ASSUME NEW p PROVE IsFiniteSet(Attached(p)) /\ Cardinality(Attached(p)) \in Nat
<1>1. Attached(p) \subseteq Clients
  BY DEF Attached
<1> QED
  BY <1>1, Constants, FS_Subset, FS_CardinalityType

\* A step that binds no client to a pool.
LEMMA NoneAttached ==
    ASSUME Books, Shape, used' = used, \A p \in Clients : Attached(p)' \subseteq Attached(p)
    PROVE  Books'
<1>1. ASSUME NEW p \in Clients PROVE Cardinality(Attached(p)') <= used[p]
  <2>1. Cardinality(Attached(p)') \in Nat /\ Cardinality(Attached(p)') <= Cardinality(Attached(p))
    BY AttachedCounts, FS_Subset, FS_CardinalityType
  <2> QED
    BY <2>1, AttachedCounts DEF Books, Shape, PoolShape
<1> QED
  BY <1>1 DEF Books

\* A client takes a connection and is bound to its pool.
LEMMA OneAttached ==
    ASSUME Books, Shape, NEW c \in Clients, NEW p \in Clients, NEW k \in Conns,
           Take(c, p, k), mine' = mine, \A d \in Clients \ {c} : pc[d] \in InUse => conn[d] # k,
           \A q \in Clients \ {p} : k \notin keyed[q]
    PROVE  Books'
<1>1. /\ pc'[c] = "block" /\ conn'[c] = k /\ \A d \in Clients \ {c} : pc'[d] = pc[d] /\ conn'[d] = conn[d]
      /\ used'[p] = used[p] + 1 /\ keyed'[p] = keyed[p] \cup {k}
      /\ \A q \in Clients \ {p} : used'[q] = used[q] /\ keyed'[q] = keyed[q]
  BY DEF Take, Goto, Shape, PointShape, PoolShape
<1>2. Attached(p)' \subseteq Attached(p) \cup {c}
  BY <1>1 DEF Attached, InUse
<1>3. \A q \in Clients \ {p} : Attached(q)' \subseteq Attached(q)
  BY <1>1 DEF Attached
<1>4. Cardinality(Attached(p)') <= used'[p]
  <2>1. Cardinality(Attached(p) \cup {c}) \in {Cardinality(Attached(p)), Cardinality(Attached(p)) + 1}
    BY AttachedCounts, FS_AddElement
  <2>2. IsFiniteSet(Attached(p) \cup {c})
    BY AttachedCounts, FS_AddElement
  <2>3. Cardinality(Attached(p)') \in Nat /\ Cardinality(Attached(p)') <= Cardinality(Attached(p) \cup {c})
    BY <1>2, <2>2, FS_Subset, FS_CardinalityType
  <2>4. Cardinality(Attached(p)) <= used[p] /\ used[p] \in Int
    BY DEF Books, Shape, PoolShape
  <2> QED
    BY <1>1, <2>1, <2>3, <2>4, AttachedCounts
<1>5. ASSUME NEW q \in Clients \ {p} PROVE Cardinality(Attached(q)') <= used'[q]
  <2>1. Cardinality(Attached(q)') \in Nat /\ Cardinality(Attached(q)') <= Cardinality(Attached(q))
    BY <1>3, AttachedCounts, FS_Subset, FS_CardinalityType
  <2> QED
    BY <1>1, <2>1, AttachedCounts DEF Books, Shape, PoolShape
<1> QED
  BY <1>4, <1>5 DEF Books

\* A client strikes its own out.
LEMMA OneDetached ==
    ASSUME Books, Shape, NEW c \in Clients, pc[c] = "forget", pc'[c] \in {"off", "enter"}, Unbook(c),
           \A d \in Clients \ {c} : pc'[d] = pc[d] /\ conn'[d] = conn[d] /\ mine'[d] = mine[d]
    PROVE  Books'
<1>1. PICK p \in Clients : p = mine[c]
  BY DEF Shape, Rooted
<1>2. /\ used'[p] = used[p] - 1 /\ keyed'[p] \subseteq keyed[p]
      /\ \A q \in Clients \ {p} : used'[q] = used[q] /\ keyed'[q] = keyed[q]
  BY <1>1 DEF Unbook, Shape, PoolShape
<1>3. c \in Attached(p) /\ Attached(p)' \subseteq Attached(p) \ {c}
  BY <1>1, <1>2 DEF Attached
<1>4. \A q \in Clients \ {p} : Attached(q)' \subseteq Attached(q)
  BY <1>2 DEF Attached
<1>5. Cardinality(Attached(p)') <= used'[p]
  <2>1. IsFiniteSet(Attached(p) \ {c}) /\ Cardinality(Attached(p) \ {c}) = Cardinality(Attached(p)) - 1
    BY <1>3, AttachedCounts, FS_RemoveElement
  <2>2. Cardinality(Attached(p)') \in Nat /\ Cardinality(Attached(p)') <= Cardinality(Attached(p) \ {c})
    BY <1>3, <2>1, FS_Subset, FS_CardinalityType
  <2>3. Cardinality(Attached(p)) <= used[p] /\ used[p] \in Int
    BY DEF Books, Shape, PoolShape
  <2> QED
    BY <1>2, <2>1, <2>2, <2>3, AttachedCounts
<1>6. ASSUME NEW q \in Clients \ {p} PROVE Cardinality(Attached(q)') <= used'[q]
  <2>1. Cardinality(Attached(q)') \in Nat /\ Cardinality(Attached(q)') <= Cardinality(Attached(q))
    BY <1>4, AttachedCounts, FS_Subset, FS_CardinalityType
  <2> QED
    BY <1>2, <2>1, AttachedCounts DEF Books, Shape, PoolShape
<1> QED
  BY <1>5, <1>6 DEF Books

\* A client is counted until it has struck its own out.
LEMMA BooksStep ==
    ASSUME Shape, Owners, Home, Books, [Next]_vars PROVE Books'
<1>1. ASSUME NEW t \in Threads, Start(t) PROVE Books'
  <2>1. used' = used
    BY <1>1 DEF Start, Begin, Goto
  <2>2. \A q \in Clients : Attached(q)' \subseteq Attached(q)
    BY <1>1 DEF Attached, Shape, PointShape, Start, Begin, Goto
  <2> QED
    BY <2>1, <2>2, NoneAttached
<1>2. CASE Prune
  <2>1. used' = used
    BY <1>2 DEF Prune, Begin, Goto
  <2>2. \A q \in Clients : Attached(q)' \subseteq Attached(q)
    BY <1>2 DEF Attached, Shape, PointShape, Prune, Begin, Goto
  <2> QED
    BY <2>1, <2>2, NoneAttached
<1>3. ASSUME NEW c \in Clients, NoPool(c) PROVE Books'
  <2>1. used' = used
    BY <1>3 DEF NoPool, Goto
  <2>2. \A q \in Clients : Attached(q)' \subseteq Attached(q)
    BY <1>3 DEF Attached, Shape, PointShape, NoPool, Goto
  <2> QED
    BY <2>1, <2>2, NoneAttached
<1>4. ASSUME NEW c \in Clients, MakePool(c) PROVE Books'
  <2>1. used' = used
    BY <1>4 DEF MakePool, Goto
  <2>2. \A q \in Clients : Attached(q)' \subseteq Attached(q)
    BY <1>4 DEF Attached, Shape, PointShape, MakePool, Goto
  <2> QED
    BY <2>1, <2>2, NoneAttached
<1>5. ASSUME NEW c \in Clients, GetIdle(c) PROVE Books'
  <2>1. UNCHANGED <<used, keyed>> /\ pc' = [pc EXCEPT ![c] = "book"]
    BY <1>5 DEF GetIdle, Goto
  <2>2. \A d \in Clients \ {c} : conn'[d] = conn[d] /\ mine'[d] = mine[d]
    BY <1>5 DEF GetIdle, Shape, PointShape
  <2>3. \A q \in Clients : Attached(q)' \subseteq Attached(q)
    BY <2>1, <2>2 DEF Attached, Shape, PointShape
  <2> QED
    BY <2>1, <2>3, NoneAttached
<1>6. ASSUME NEW c \in Clients, Exhausted(c) PROVE Books'
  <2>1. used' = used
    BY <1>6 DEF Exhausted, Fail, Goto
  <2>2. \A q \in Clients : Attached(q)' \subseteq Attached(q)
    BY <1>6 DEF Attached, Shape, PointShape, Exhausted, Fail, Goto
  <2> QED
    BY <2>1, <2>2, NoneAttached
<1>7. ASSUME NEW c \in Clients, Connect(c) PROVE Books'
  <2>1. used' = used
    BY <1>7 DEF Connect, Goto
  <2>2. \A q \in Clients : Attached(q)' \subseteq Attached(q)
    BY <1>7 DEF Attached, Shape, PointShape, Connect, Goto
  <2> QED
    BY <2>1, <2>2, NoneAttached
<1>8. ASSUME NEW c \in Clients, Connected(c) PROVE Books'
  <2>1. PICK k \in Conns : Free(k) /\ Take(c, mine[c], k)
    BY <1>8 DEF Connected
  <2>2. PICK p \in Clients : p = mine[c]
    BY <1>8 DEF Connected, Shape, Rooted
  <2>3. mine' = mine
    BY <1>8 DEF Connected
  <2>4. (\A d \in Clients : conn[d] # k) /\ \A q \in Clients : k \notin keyed[q]
    BY <2>1 DEF Free
  <2> QED
    BY <2>1, <2>2, <2>3, <2>4, OneAttached
<1>9. ASSUME NEW c \in Clients, ConnectFails(c) PROVE Books'
  <2>1. used' = used
    BY <1>9 DEF ConnectFails, Fail, Goto
  <2>2. \A q \in Clients : Attached(q)' \subseteq Attached(q)
    BY <1>9 DEF Attached, Shape, PointShape, ConnectFails, Fail, Goto
  <2> QED
    BY <2>1, <2>2, NoneAttached
<1>10. ASSUME NEW c \in Clients, Work(c) PROVE Books'
  <2>1. used' = used
    BY <1>10 DEF Work, Goto
  <2>2. \A q \in Clients : Attached(q)' \subseteq Attached(q)
    BY <1>10 DEF Attached, Shape, PointShape, Work, Goto
  <2> QED
    BY <2>1, <2>2, NoneAttached
<1>11. ASSUME NEW c \in Clients, WorkFails(c) PROVE Books'
  <2>1. used' = used
    BY <1>11 DEF WorkFails, Goto
  <2>2. \A q \in Clients : Attached(q)' \subseteq Attached(q)
    BY <1>11 DEF Attached, Shape, PointShape, WorkFails, Goto
  <2> QED
    BY <2>1, <2>2, NoneAttached
<1>12. ASSUME NEW c \in Clients, Unkeyed(c) PROVE Books'
  <2>1. used' = used
    BY <1>12 DEF Unkeyed, Fail, Goto
  <2>2. \A q \in Clients : Attached(q)' \subseteq Attached(q)
    BY <1>12 DEF Attached, Shape, PointShape, Unkeyed, Fail, Goto
  <2> QED
    BY <2>1, <2>2, NoneAttached
<1>13. ASSUME NEW c \in Clients, PutClosed(c) PROVE Books'
  <2>1. used' = used
    BY <1>13 DEF PutClosed, Goto
  <2>2. \A q \in Clients : Attached(q)' \subseteq Attached(q)
    BY <1>13 DEF Attached, Shape, PointShape, PutClosed, Goto
  <2> QED
    BY <2>1, <2>2, NoneAttached
<1>14. ASSUME NEW c \in Clients, Book(c) PROVE Books'
  <2>1. /\ Take(c, mine[c], conn[c]) /\ mine' = mine /\ pc[c] = "book"
        /\ mine[c] \in Clients /\ conn[c] \in Conns
    BY <1>14 DEF Book, Shape, Rooted, PointShape, Holding, InUse
  <2>2. \A d \in Clients \ {c} : pc[d] \in InUse => conn[d] # conn[c]
    BY <2>1 DEF Owners, Exclusive, InUse
  <2>3. \A q \in Clients \ {mine[c]} : conn[c] \notin keyed[q]
    BY <2>1 DEF Home, Where, Bound
  <2> QED
    BY <2>1, <2>2, <2>3, OneAttached
<1>15. ASSUME NEW c \in Clients, Keep(c) PROVE Books'
  <2>1. used' = used
    BY <1>15 DEF Keep, Goto
  <2>2. \A q \in Clients : Attached(q)' \subseteq Attached(q)
    BY <1>15 DEF Attached, Shape, PointShape, Keep, Goto
  <2> QED
    BY <2>1, <2>2, NoneAttached
<1>16. ASSUME NEW c \in Clients, PutIdle(c) PROVE Books'
  <2>1. used' = used
    BY <1>16 DEF PutIdle, GiveBack, Goto
  <2>2. \A q \in Clients : Attached(q)' \subseteq Attached(q)
    BY <1>16 DEF Attached, Shape, PointShape, PutIdle, GiveBack, Goto
  <2> QED
    BY <2>1, <2>2, NoneAttached
<1>17. ASSUME NEW c \in Clients, RollbackFails(c) PROVE Books'
  <2>1. used' = used
    BY <1>17 DEF RollbackFails, Fail, Goto
  <2>2. \A q \in Clients : Attached(q)' \subseteq Attached(q)
    BY <1>17 DEF Attached, Shape, PointShape, RollbackFails, Fail, Goto
  <2> QED
    BY <2>1, <2>2, NoneAttached
<1>18. ASSUME NEW c \in Clients, Forget(c) PROVE Books'
  <2>1. pc[c] = "forget" /\ pc'[c] \in {"off", "enter"} /\ Unbook(c)
    BY <1>18 DEF Forget, Unbook, Goto, Shape, PointShape
  <2>2. \A d \in Clients \ {c} : pc'[d] = pc[d] /\ conn'[d] = conn[d] /\ mine'[d] = mine[d]
    BY <1>18 DEF Forget, Goto, Shape, PointShape
  <2> QED
    BY <2>1, <2>2, OneDetached
<1>19. ASSUME NEW c \in Clients, ForgetFails(c) PROVE Books'
  <2>1. pc[c] = "forget" /\ pc'[c] \in {"off", "enter"} /\ Unbook(c)
    BY <1>19 DEF ForgetFails, Fail, Unbook, Goto, Shape, PointShape
  <2>2. \A d \in Clients \ {c} : pc'[d] = pc[d] /\ conn'[d] = conn[d] /\ mine'[d] = mine[d]
    BY <1>19 DEF ForgetFails, Fail, Goto, Shape, PointShape
  <2> QED
    BY <2>1, <2>2, OneDetached
<1>20. CASE DbRestart
  <2>1. used' = used
    BY <1>20 DEF DbRestart
  <2>2. \A q \in Clients : Attached(q)' \subseteq Attached(q)
    BY <1>20 DEF Attached, Shape, PointShape, DbRestart
  <2> QED
    BY <2>1, <2>2, NoneAttached
<1>21. CASE UNCHANGED vars
  <2>1. used' = used
    BY <1>21 DEF vars
  <2>2. \A q \in Clients : Attached(q)' \subseteq Attached(q)
    BY <1>21 DEF Attached, Shape, PointShape, vars
  <2> QED
    BY <2>1, <2>2, NoneAttached
<1>22. ASSUME NEW c \in Clients, StatementFails(c) PROVE Books'
  <2>1. used' = used
    BY <1>22 DEF StatementFails, Goto
  <2>2. \A q \in Clients : Attached(q)' \subseteq Attached(q)
    BY <1>22 DEF Attached, Shape, PointShape, StatementFails, Goto
  <2> QED
    BY <2>1, <2>2, NoneAttached
<1> QED
  BY <1>1, <1>2, <1>3, <1>4, <1>5, <1>6, <1>7, <1>8, <1>9, <1>10, <1>11,
     <1>12, <1>13, <1>14, <1>15, <1>16, <1>17, <1>18, <1>19, <1>20, <1>21, <1>22
     DEF Next, Enter, Do, Exit

-----------------------------------------------------------------------------
(***************************************************************************)
(* A request fails at most once.                                           *)
(***************************************************************************)
FailOnce == failures \in Nat /\ requests \in Nat /\ failures + Cardinality(Running) <= requests

\* A step with which no request begins or fails.
LEMMA NoneFails ==
    ASSUME FailOnce, UNCHANGED <<failures, requests>>, \A d \in Clients : pc'[d] # "off" => pc[d] # "off"
    PROVE  FailOnce'
<1>1. Running' \subseteq Running
  BY DEF Running
<1>2. Cardinality(Running') \in Nat /\ Cardinality(Running') <= Cardinality(Running)
  BY <1>1, RunningCounts, FS_Subset, FS_CardinalityType
<1> QED
  BY <1>2, RunningCounts DEF FailOnce

\* A request fails and has ended.
LEMMA OneFails ==
    ASSUME FailOnce, Shape, NEW c \in Clients, pc[c] # "off", Fail(c), requests' = requests
    PROVE  FailOnce'
<1>1. Running' = Running \ {c} /\ c \in Running
  BY DEF Running, Fail, Goto, Shape, PointShape
<1>2. Cardinality(Running \ {c}) = Cardinality(Running) - 1
  BY <1>1, RunningCounts, FS_RemoveElement
<1>3. Cardinality(Running') = Cardinality(Running) - 1 /\ failures' \in {failures, failures + 1}
  BY <1>1, <1>2 DEF Fail, FailOnce
<1> QED
  BY <1>3, RunningCounts DEF FailOnce

\* A request that fails ends.
LEMMA FailOnceStep ==
    ASSUME Shape, FewRun, FailOnce, [Next]_vars PROVE FailOnce'
<1>1. ASSUME NEW t \in Threads, Start(t) PROVE FailOnce'
  <2>1. /\ t \in Clients /\ pc[t] = "off" /\ pc' = [pc EXCEPT ![t] = "enter"]
        /\ crowded' = (crowded \/ Cardinality(Running) >= MaxConn)
    BY <1>1, Constants DEF Start, Begin, Goto
  <2>2. failures' = failures /\ requests' = requests + 1
    BY <1>1 DEF Start, Begin
  <2>3. Cardinality(Running') = Cardinality(Running) + 1
    BY <2>1, OneBegins
  <2> QED
    BY <2>2, <2>3, RunningCounts DEF FailOnce
<1>2. CASE Prune
  <2>1. /\ Loop \in Clients /\ pc[Loop] = "off" /\ pc' = [pc EXCEPT ![Loop] = "enter"]
        /\ crowded' = (crowded \/ Cardinality(Running) >= MaxConn)
    BY <1>2, Constants DEF Prune, Begin, Goto
  <2>2. failures' = failures /\ requests' = requests + 1
    BY <1>2 DEF Prune, Begin
  <2>3. Cardinality(Running') = Cardinality(Running) + 1
    BY <2>1, OneBegins
  <2> QED
    BY <2>2, <2>3, RunningCounts DEF FailOnce
<1>3. ASSUME NEW c \in Clients, NoPool(c) PROVE FailOnce'
  <2>1. UNCHANGED <<failures, requests>> /\ \A d \in Clients : pc'[d] # "off" => pc[d] # "off"
    BY <1>3 DEF Shape, PointShape, NoPool, Goto
  <2> QED
    BY <2>1, NoneFails
<1>4. ASSUME NEW c \in Clients, MakePool(c) PROVE FailOnce'
  <2>1. UNCHANGED <<failures, requests>> /\ \A d \in Clients : pc'[d] # "off" => pc[d] # "off"
    BY <1>4 DEF Shape, PointShape, MakePool, Goto
  <2> QED
    BY <2>1, NoneFails
<1>5. ASSUME NEW c \in Clients, GetIdle(c) PROVE FailOnce'
  <2>1. UNCHANGED <<failures, requests>> /\ \A d \in Clients : pc'[d] # "off" => pc[d] # "off"
    BY <1>5 DEF Shape, PointShape, GetIdle, Goto, GetFrom
  <2> QED
    BY <2>1, NoneFails
<1>6. ASSUME NEW c \in Clients, Exhausted(c) PROVE FailOnce'
  <2>1. pc[c] # "off" /\ Fail(c) /\ requests' = requests
    BY <1>6 DEF Exhausted, GetFrom
  <2> QED
    BY <2>1, OneFails
<1>7. ASSUME NEW c \in Clients, Connect(c) PROVE FailOnce'
  <2>1. UNCHANGED <<failures, requests>> /\ \A d \in Clients : pc'[d] # "off" => pc[d] # "off"
    BY <1>7 DEF Shape, PointShape, Connect, Goto, GetFrom
  <2> QED
    BY <2>1, NoneFails
<1>8. ASSUME NEW c \in Clients, Connected(c) PROVE FailOnce'
  <2>1. UNCHANGED <<failures, requests>> /\ \A d \in Clients : pc'[d] # "off" => pc[d] # "off"
    BY <1>8 DEF Shape, PointShape, Connected, Take, Goto
  <2> QED
    BY <2>1, NoneFails
<1>9. ASSUME NEW c \in Clients, ConnectFails(c) PROVE FailOnce'
  <2>1. pc[c] # "off" /\ Fail(c) /\ requests' = requests
    BY <1>9 DEF ConnectFails
  <2> QED
    BY <2>1, OneFails
<1>10. ASSUME NEW c \in Clients, Work(c) PROVE FailOnce'
  <2>1. UNCHANGED <<failures, requests>> /\ \A d \in Clients : pc'[d] # "off" => pc[d] # "off"
    BY <1>10 DEF Shape, PointShape, Work, Goto
  <2> QED
    BY <2>1, NoneFails
<1>11. ASSUME NEW c \in Clients, WorkFails(c) PROVE FailOnce'
  <2>1. UNCHANGED <<failures, requests>> /\ \A d \in Clients : pc'[d] # "off" => pc[d] # "off"
    BY <1>11 DEF Shape, PointShape, WorkFails, Goto
  <2> QED
    BY <2>1, NoneFails
<1>12. ASSUME NEW c \in Clients, Unkeyed(c) PROVE FailOnce'
  <2>1. pc[c] # "off" /\ Fail(c) /\ requests' = requests
    BY <1>12 DEF Unkeyed
  <2> QED
    BY <2>1, OneFails
<1>13. ASSUME NEW c \in Clients, PutClosed(c) PROVE FailOnce'
  <2>1. UNCHANGED <<failures, requests>> /\ \A d \in Clients : pc'[d] # "off" => pc[d] # "off"
    BY <1>13 DEF Shape, PointShape, PutClosed, Goto
  <2> QED
    BY <2>1, NoneFails
<1>14. ASSUME NEW c \in Clients, Book(c) PROVE FailOnce'
  <2>1. UNCHANGED <<failures, requests>> /\ \A d \in Clients : pc'[d] # "off" => pc[d] # "off"
    BY <1>14 DEF Shape, PointShape, Book, Take, Goto
  <2> QED
    BY <2>1, NoneFails
<1>15. ASSUME NEW c \in Clients, Keep(c) PROVE FailOnce'
  <2>1. UNCHANGED <<failures, requests>> /\ \A d \in Clients : pc'[d] # "off" => pc[d] # "off"
    BY <1>15 DEF Shape, PointShape, Keep, Goto
  <2> QED
    BY <2>1, NoneFails
<1>16. ASSUME NEW c \in Clients, PutIdle(c) PROVE FailOnce'
  <2>1. UNCHANGED <<failures, requests>> /\ \A d \in Clients : pc'[d] # "off" => pc[d] # "off"
    BY <1>16 DEF Shape, PointShape, PutIdle, GiveBack, Goto
  <2> QED
    BY <2>1, NoneFails
<1>17. ASSUME NEW c \in Clients, RollbackFails(c) PROVE FailOnce'
  <2>1. pc[c] # "off" /\ Fail(c) /\ requests' = requests
    BY <1>17 DEF RollbackFails
  <2> QED
    BY <2>1, OneFails
<1>18. ASSUME NEW c \in Clients, Forget(c) PROVE FailOnce'
  <2>1. UNCHANGED <<failures, requests>> /\ \A d \in Clients : pc'[d] # "off" => pc[d] # "off"
    BY <1>18 DEF Shape, PointShape, Forget, Unbook, Goto
  <2> QED
    BY <2>1, NoneFails
<1>19. ASSUME NEW c \in Clients, ForgetFails(c) PROVE FailOnce'
  <2>1. pc[c] # "off" /\ Fail(c) /\ requests' = requests
    BY <1>19 DEF ForgetFails, Unbook
  <2> QED
    BY <2>1, OneFails
<1>20. CASE DbRestart
  <2>1. UNCHANGED <<failures, requests>> /\ \A d \in Clients : pc'[d] # "off" => pc[d] # "off"
    BY <1>20 DEF Shape, PointShape, DbRestart
  <2> QED
    BY <2>1, NoneFails
<1>21. CASE UNCHANGED vars
  <2>1. UNCHANGED <<failures, requests>> /\ \A d \in Clients : pc'[d] # "off" => pc[d] # "off"
    BY <1>21 DEF Shape, PointShape, vars
  <2> QED
    BY <2>1, NoneFails
<1>22. ASSUME NEW c \in Clients, StatementFails(c) PROVE FailOnce'
  <2>1. UNCHANGED <<failures, requests>> /\ \A d \in Clients : pc'[d] # "off" => pc[d] # "off"
    BY <1>22 DEF Shape, PointShape, StatementFails, Goto
  <2> QED
    BY <2>1, NoneFails
<1> QED
  BY <1>1, <1>2, <1>3, <1>4, <1>5, <1>6, <1>7, <1>8, <1>9, <1>10, <1>11,
     <1>12, <1>13, <1>14, <1>15, <1>16, <1>17, <1>18, <1>19, <1>20, <1>21, <1>22
     DEF Next, Enter, Do, Exit

-----------------------------------------------------------------------------
(***************************************************************************)
(* The inductive invariant, and what follows from it.                      *)
(***************************************************************************)
Lists     == Shape /\ WorkShape /\ CountShape
Ownership == Owners /\ Home /\ Apart /\ Unmade /\ Begun
Counts    == Limit /\ Counted /\ FewRun /\ OnePool /\ AllWell /\ Books /\ FailOnce

PoolInv == Lists /\ Ownership /\ Counts

\* It holds at first.
LEMMA PoolInvInit ==
    ASSUME Init PROVE PoolInv
<1>1. Shape
  <2>1. <<>> \in Seq(Conns)
    OBVIOUS
  <2> QED
    BY <2>1, Constants DEF Init, Shape, PoolShape, PointShape, Holding, Rooted, Points, InUse
<1>2. WorkShape /\ CountShape
  <2>1. WorkShape
    BY DEF Init, WorkShape
  <2>2. 0 \in 0..MaxEvents /\ 0 \in 0..MaxEvents
    BY ConstantsAssumption
  <2>3. CountShape
    BY <2>2 DEF Init, CountShape, Errors
  <2> QED
    BY <2>1, <2>3
<1>3. Owners
  <2>1. Exclusive
    BY DEF Init, Exclusive, InUse
  <2>2. NoDup(<<>>) /\ Range(<<>>) = {}
    BY DEF NoDup, Range
  <2>3. IdleOnce
    BY <2>2 DEF Init, IdleOnce
  <2> QED
    BY <2>1, <2>3 DEF Owners
<1>4. \A p \in Clients : keyed[p] = {} /\ Range(idle[p]) = {} /\ used[p] = 0
  BY DEF Init, Range
<1>5. Home /\ Apart /\ Unmade /\ Begun
  BY <1>4, Constants DEF Init, Home, Where, Bound, Apart, Holders, InUse, Unmade, Fresh, Begun
<1>6. Limit
  <2>1. \A p \in Clients : Spare(p) = {} /\ Coming(p) = 0
    BY <1>4 DEF Init, Spare, Coming, Taking
  <2>2. \A p \in Clients : Load(p) = 0 + 0 + Cardinality({})
    BY <1>4, <2>1 DEF Load
  <2>3. \A p \in Clients : Load(p) <= MaxConn
    BY <2>2, FS_EmptySet, Constants
  <2> QED
    BY <2>3 DEF Init, Limit, Taking
<1>7. Counted /\ OnePool
  BY DEF Init, Counted, OnePool
<1>8. FewRun /\ FailOnce
  <2>1. Running = {} /\ Cardinality({}) = 0
    BY FS_EmptySet DEF Init, Running
  <2> QED
    BY <2>1, Constants DEF Init, FewRun, FailOnce
<1>9. AllWell
  BY DEF Init, AllWell, Lent
<1>10. Books
  <2>1. \A p \in Clients : Attached(p) = {} /\ Cardinality({}) = 0
    BY FS_EmptySet DEF Init, Attached
  <2> QED
    BY <1>4, <2>1 DEF Books
<1> QED
  BY <1>1, <1>2, <1>3, <1>5, <1>6, <1>7, <1>8, <1>9, <1>10 DEF PoolInv, Lists, Ownership, Counts

\* Every step keeps it.
LEMMA PoolInvStep ==
    ASSUME PoolInv, [Next]_vars PROVE PoolInv'
<1>1. Shape /\ WorkShape /\ CountShape /\ Owners /\ Home /\ Apart /\ Unmade /\ Begun
  BY DEF PoolInv, Lists, Ownership
<1>2. Limit /\ Counted /\ FewRun /\ OnePool /\ AllWell /\ Books /\ FailOnce
  BY DEF PoolInv, Counts
<1>3. Shape'
  BY <1>1, PoolShapeStep, PointShapeStep, HoldingStep, RootedStep DEF Shape
<1>4. Lists'
  BY <1>1, <1>3, WorkShapeStep, CountShapeStep DEF Lists
<1>5. Apart'
  BY <1>1, ApartStep
<1>6. Ownership'
  BY <1>1, <1>5, OwnersStep, HomeStep, UnmadeStep, BegunStep DEF Ownership
<1>7. Limit' /\ Counted'
  BY <1>1, <1>2, <1>3, <1>5, LimitStep, CountedStep
<1>8. FewRun' /\ OnePool' /\ AllWell'
  BY <1>1, <1>2, FewRunStep, OnePoolStep, AllWellStep
<1>9. Books' /\ FailOnce'
  BY <1>1, <1>2, BooksStep, FailOnceStep
<1> QED
  BY <1>4, <1>6, <1>7, <1>8, <1>9 DEF PoolInv, Counts

\* It is an invariant.
LEMMA PoolInvHolds == Spec => []PoolInv
BY PoolInvInit, PoolInvStep, PTL DEF Spec

(***************************************************************************)
(* The types of the pool hold: the books of a pool do not shrink below     *)
(* nothing, even while they are wrong, and a request fails at most once.   *)
(***************************************************************************)
THEOREM PoolTypesHold == Spec => []TypeOK
<1>1. ASSUME PoolInv PROVE TypeOK
  <2>1. Shape /\ WorkShape /\ CountShape /\ Begun /\ Books /\ FailOnce
    BY <1>1 DEF PoolInv, Lists, Ownership, Counts
  <2>2. used \in [Clients -> Nat]
    <3>1. \A p \in Clients : used[p] \in Nat
      BY <2>1, AttachedCounts DEF Books, Shape, PoolShape
    <3> QED
      BY <2>1, <3>1 DEF Shape, PoolShape
  <2>3. failures \in 0..requests
    BY <2>1, RunningCounts DEF FailOnce
  <2>4. /\ dead \subseteq Conns /\ open \in [Clients -> BOOLEAN] /\ error \in [Clients -> Errors]
        /\ {requests, faults} \subseteq 0..MaxEvents
        /\ {crowded, replaced, met, together, torn} \subseteq BOOLEAN
    BY <2>1 DEF CountShape, Begun
  <2>5. /\ pool \in Clients \cup {NoOne} /\ idle \in [Clients -> Seq(Conns)] /\ keyed \in [Clients -> SUBSET Conns]
        /\ pc \in [Clients -> Points] /\ mine \in [Clients -> Clients \cup {NoOne}]
        /\ conn \in [Clients -> Conns \cup {NoOne}]
        /\ \A c \in Clients : conn[c] = NoOne <=> pc[c] \notin InUse \cup {"forget"}
    BY <2>1 DEF Shape, PoolShape, PointShape, Holding
  <2>6. \A c \in Clients : IF pc[c] = "off" THEN op[c] = "none" /\ left[c] = 0
                           ELSE op[c] \in DOMAIN Longest /\ left[c] \in 1..Longest[op[c]]
    BY <2>1 DEF WorkShape
  <2> QED
    BY <2>2, <2>3, <2>4, <2>5, <2>6 DEF TypeOK
<1> QED
  BY PoolInvHolds, <1>1, PTL

(***************************************************************************)
(* No two clients work on one connection, and none on a connection that a  *)
(* pool offers, though the pool takes no lock.                             *)
(***************************************************************************)
THEOREM ConnectionsAreExclusive == Spec => []Exclusive
<1>1. PoolInv => Exclusive
  BY DEF PoolInv, Ownership, Owners
<1> QED
  BY PoolInvHolds, <1>1, PTL

(***************************************************************************)
(* A pool whose requests have all ended has all its places, but for what   *)
(* NoLeak names: the leak after a restart of the database is the only one. *)
(***************************************************************************)
THEOREM NoPlaceIsLost == Spec => []NoLeak
<1>1. ASSUME PoolInv PROVE NoLeak
  <2>1. SUFFICES ASSUME Running = {}, ~torn, ~met, pool # NoOne PROVE used[pool] = 0
    BY DEF NoLeak
  <2>2. used[pool] = Cardinality(Booked)
    BY <1>1, <2>1 DEF PoolInv, Counts, Counted
  <2>3. Booked = {}
    BY <2>1 DEF Booked, Running, Holders, InUse
  <2> QED
    BY <2>2, <2>3, FS_EmptySet
<1> QED
  BY PoolInvHolds, <1>1, PTL

(***************************************************************************)
(* A pool has at most MaxConn connections in use, but for what LimitKept   *)
(* names.                                                                  *)
(***************************************************************************)
THEOREM LimitIsKept == Spec => []LimitKept
<1>1. ASSUME PoolInv PROVE LimitKept
  <2>1. SUFFICES ASSUME ~together, ~met, NEW p \in Clients PROVE used[p] <= MaxConn
    BY DEF LimitKept
  <2>2. Load(p) <= MaxConn
    BY <1>1, <2>1 DEF PoolInv, Counts, Limit
  <2> QED
    BY <1>1, <2>2, SpareCounts, Constants DEF PoolInv, Lists
<1> QED
  BY PoolInvHolds, <1>1, PTL

(***************************************************************************)
(* No request fails without one of the reasons that FailuresExplained      *)
(* names.                                                                  *)
(***************************************************************************)
THEOREM FailuresHaveReasons == Spec => []FailuresExplained
<1>1. PoolInv => FailuresExplained
  BY DEF PoolInv, Counts, AllWell, Calm, FailuresExplained
<1> QED
  BY PoolInvHolds, <1>1, PTL

=============================================================================
