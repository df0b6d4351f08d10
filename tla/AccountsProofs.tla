--------------------------- MODULE AccountsProofs ---------------------------
(***************************************************************************)
(* Theorems about the account handlers, for any number of requests, users, *)
(* names and files.                                                        *)
(***************************************************************************)
EXTENDS Accounts, TLAPS

USE DEF dbVars, fileVars, localVars, historyVars

-----------------------------------------------------------------------------
(***************************************************************************)
(* Typing of the operators.                                                *)
(***************************************************************************)
\* The lines of ftpd.passwd are pairs of a name and a hash.
LEMMA EntriesTyped ==
    ASSUME users \in [Ids -> User \cup {NoUser}]
    PROVE  EnabledEntries \in SUBSET AllEntries /\ AllEntries \in SUBSET Entry
BY DEF EnabledEntries, AllEntries, Enabled, Line, Exists, User, Entry

\* So are those that a query gives.
LEMMA QueryTyped ==
    ASSUME TypeOK, NEW r \in Requests
    PROVE  QueryEntries(r) \in SUBSET Entry
<1>1. ASSUME NEW u \in Enabled PROVE InSession(r, u) \in User
  <2>1. users[u] \in User
    BY DEF Enabled, Exists, TypeOK
  <2>2. Kept(r) # {} => seen[r] \in User
    BY DEF Kept, TypeOK
  <2> QED
    BY <2>1, <2>2, Zenon DEF InSession
<1> QED
  BY <1>1 DEF QueryEntries, Line, User, Entry

\* Writing lines over a file leaves something a file can hold.
LEMMA OverlayTyped ==
    ASSUME NEW old \in Contents, NEW new \in SUBSET Entry, NEW d \in Overlay(old, new)
    PROVE  d \in Contents
<1>1. \A e \in SUBSET Entry : Whole(e) \in Contents /\ Torn(e) \in Contents
  BY DEF Whole, Torn, Contents
<1>2. old.entries \in SUBSET Entry
  BY DEF Contents
<1>3. d \in {Whole(new), Torn(old.entries), old}
  BY Zenon DEF Overlay
<1> QED
  BY <1>1, <1>2, <1>3, Zenon

\* What a request finds when it ends.
LEMMA FinishTyped ==
    ASSUME TypeOK, NEW r \in Requests, Finish(r)
    PROVE  /\ pc' \in [Requests -> Labels]
           /\ job' \in [Requests -> Job \cup {NoJob}]
           /\ seen' \in [Requests -> User \cup {NoUser}]
           /\ snap' \in [Requests -> SUBSET Entry]
           /\ pending' \in [Requests -> SUBSET Row]
           /\ known' \in [Requests -> BOOLEAN]
           /\ fd' \in [Requests -> Inodes \cup {None}]
           /\ \A q \in Requests : /\ pc'[q] # "idle" => job'[q] # NoJob
                                  /\ pc'[q] \in {"check_other", "commit"} => seen'[q] # NoUser
                                  /\ pc'[q] \in {"write", "rename"} => fd'[q] # None
<1>1. pc' \in [Requests -> Labels]
  BY DEF TypeOK, Finish, Labels
<1>2. job' \in [Requests -> Job \cup {NoJob}]
  BY DEF TypeOK, Finish
<1>3. seen' \in [Requests -> User \cup {NoUser}]
  BY DEF TypeOK, Finish
<1>4. snap' \in [Requests -> SUBSET Entry] /\ pending' \in [Requests -> SUBSET Row]
  BY DEF TypeOK, Finish
<1>5. known' \in [Requests -> BOOLEAN] /\ fd' \in [Requests -> Inodes \cup {None}]
  BY DEF TypeOK, Finish
<1>6. \A q \in Requests : /\ pc'[q] # "idle" => job'[q] # NoJob
                          /\ pc'[q] \in {"check_other", "commit"} => seen'[q] # NoUser
                          /\ pc'[q] \in {"write", "rename"} => fd'[q] # None
  BY DEF TypeOK, Finish
<1> QED
  BY <1>1, <1>2, <1>3, <1>4, <1>5, <1>6

\* What an audit entry and a committed change look like.
LEMMA LogTyped ==
    ASSUME TypeOK, NEW r \in Requests, pc[r] # "idle", NEW what \in Words
    PROVE  /\ Log(r, what) => audit' \subseteq [serial : Nat, said : Words, alone : BOOLEAN]
           /\ Committed(r, what) => committed' \subseteq [serial : Nat, did : Words]
<1>1. job[r].serial \in Nat /\ solo[r] \in BOOLEAN
  BY DEF TypeOK, Job
<1> QED
  BY <1>1 DEF TypeOK, Log, Committed

\* Entering a sync keeps the history typed.
LEMMA MeetTyped ==
    ASSUME TypeOK, NEW r \in Requests, Meet(r)
    PROVE  tainted' \in BOOLEAN /\ solo' \in [Requests -> BOOLEAN]
BY DEF TypeOK, Meet

\* A request that goes on leaves its local state as it is.
LEMMA ProceedTyped ==
    ASSUME TypeOK, NEW r \in Requests, pc[r] # "idle", NEW where \in Labels \ {"idle", "check_other", "write", "rename"},
           Proceed(r, where), where = "commit" => seen[r] # NoUser
    PROVE  /\ pc' \in [Requests -> Labels]
           /\ job' \in [Requests -> Job \cup {NoJob}]
           /\ seen' \in [Requests -> User \cup {NoUser}]
           /\ snap' \in [Requests -> SUBSET Entry]
           /\ pending' \in [Requests -> SUBSET Row]
           /\ known' \in [Requests -> BOOLEAN]
           /\ fd' \in [Requests -> Inodes \cup {None}]
           /\ \A q \in Requests : /\ pc'[q] # "idle" => job'[q] # NoJob
                                  /\ pc'[q] \in {"check_other", "commit"} => seen'[q] # NoUser
                                  /\ pc'[q] \in {"write", "rename"} => fd'[q] # None
BY DEF TypeOK, Proceed

-----------------------------------------------------------------------------
\* The initial states are typed.
LEMMA TypeInit == Init => TypeOK
<1> SUFFICES ASSUME Init PROVE TypeOK
  OBVIOUS
<1>1. users \in [Ids -> User \cup {NoUser}]
  BY DEF Init, User
<1>2. data \in [Inodes -> Contents]
  <2>1. Whole(EnabledEntries) \in Contents /\ Whole({}) \in Contents
    BY <1>1, EntriesTyped DEF Whole, Contents
  <2> QED
    BY <2>1 DEF Init
<1> QED
  BY <1>1, <1>2 DEF Init, TypeOK, Labels

\* Every step keeps the state typed.
LEMMA TypeStep == TypeOK /\ [Next]_vars => TypeOK'
<1> SUFFICES ASSUME TypeOK, [Next]_vars PROVE TypeOK'
  OBVIOUS
<1>1. CASE UNCHANGED vars
  BY <1>1 DEF TypeOK, vars
<1>2. ASSUME NEW r \in Requests, Start(r) PROVE TypeOK'
  <2>1. PICK op \in Operations, u \in Ids, n \in Names, e \in Emails :
          /\ job' = [job EXCEPT ![r] = [op |-> op, id |-> u, name |-> n, email |-> e, serial |-> started']]
          /\ pc' = [pc EXCEPT ![r] = First(op)]
          /\ solo' = [q \in Requests |-> IF q = r THEN NoSync ELSE solo[q] /\ op # "sync"]
          /\ tainted' = (tainted \/ (op = "sync" /\ ~NoSync))
    BY <1>2 DEF Start
  <2>2. started' \in Nat
    BY <1>2 DEF Start, TypeOK
  <2>3. [op |-> op, id |-> u, name |-> n, email |-> e, serial |-> started'] \in Job
    BY <2>2, ConstantsAssumption DEF Job
  <2>4. job' \in [Requests -> Job \cup {NoJob}]
    BY <2>1, <2>3 DEF TypeOK
  <2>5. First(op) \in {"check_name", "query", "rows", "load"}
    BY DEF First
  <2>6. pc' \in [Requests -> Labels]
    BY <2>1, <2>5 DEF TypeOK, Labels
  <2>7. solo' \in [Requests -> BOOLEAN] /\ tainted' \in BOOLEAN
    <3>1. NoSync \in BOOLEAN
      BY DEF NoSync
    <3> QED
      BY <2>1, <3>1 DEF TypeOK
  <2>8. \A q \in Requests : /\ pc'[q] # "idle" => job'[q] # NoJob
                            /\ pc'[q] \in {"check_other", "commit"} => seen'[q] # NoUser
                            /\ pc'[q] \in {"write", "rename"} => fd'[q] # None
    BY <1>2, <2>1, <2>3, <2>5, ConstantsAssumption DEF Start, TypeOK
  <2> QED
    BY <1>2, <2>2, <2>4, <2>6, <2>7, <2>8 DEF Start, TypeOK
<1>3. ASSUME NEW r \in Requests, CheckName(r) \/ CheckEmail(r) PROVE TypeOK'
  <2>1. audit' \subseteq [serial : Nat, said : Words, alone : BOOLEAN]
    BY <1>3, LogTyped DEF CheckName, CheckEmail, Refuse, TypeOK, Words
  <2>2. CASE Finish(r)
    BY <1>3, <2>1, <2>2, FinishTyped DEF CheckName, CheckEmail, TypeOK
  <2>3. CASE Proceed(r, "check_email") \/ Proceed(r, "insert")
    BY <1>3, <2>1, <2>3, ProceedTyped DEF CheckName, CheckEmail, TypeOK, Labels
  <2> QED
    BY <1>3, <2>2, <2>3 DEF CheckName, CheckEmail, Refuse
<1>4. ASSUME NEW r \in Requests, InsertRefused(r) \/ UpdateLost(r) \/ AuditFails(r) PROVE TypeOK'
  BY <1>4, FinishTyped DEF InsertRefused, UpdateLost, AuditFails, TypeOK
<1>5. ASSUME NEW r \in Requests, NEW u \in Ids, Insert(r, u) PROVE TypeOK'
  <2>1. job[r] \in Job /\ pc[r] = "insert"
    BY <1>5 DEF Insert, TypeOK
  <2>2. [name |-> job[r].name, email |-> job[r].email, hash |-> job[r].serial, enabled |-> TRUE] \in User
    BY <2>1 DEF Job, User
  <2>3. users' \in [Ids -> User \cup {NoUser}]
    BY <1>5, <2>2 DEF Insert, TypeOK
  <2>4. [job[r] EXCEPT !.id = u] \in Job
    BY <2>1 DEF Job
  <2>5. job' = [job EXCEPT ![r] = [job[r] EXCEPT !.id = u]]
    BY <1>5 DEF Insert, TypeOK
  <2>6. job' \in [Requests -> Job \cup {NoJob}] /\ \A q \in Requests : pc'[q] # "idle" => job'[q] # NoJob
    BY <1>5, <2>4, <2>5, ConstantsAssumption DEF Insert, TypeOK
  <2>7. committed' \subseteq [serial : Nat, did : Words]
    BY <1>5, <2>1, LogTyped DEF Insert, Job, Words
  <2>8. pc' \in [Requests -> Labels]
    BY <1>5 DEF Insert, TypeOK, Labels
  <2>9. tainted' \in BOOLEAN /\ solo' \in [Requests -> BOOLEAN]
    BY <1>5, MeetTyped DEF Insert
  <2> QED
    BY <1>5, <2>3, <2>6, <2>7, <2>8, <2>9 DEF Insert, TypeOK
<1>20. ASSUME NEW r \in Requests, Refresh(r) PROVE TypeOK'
  <2>1. CASE Finish(r)
    BY <1>20, <2>1, FinishTyped DEF Refresh, TypeOK
  <2>2. CASE ~Finish(r)
    <3>1. job[r] \in Job /\ pc[r] = "refresh"
      BY <1>20 DEF Refresh, TypeOK
    <3>2. job[r].id \in Ids
      BY <3>1 DEF Job
    <3>3. users[job[r].id] \in User /\ seen' = [seen EXCEPT ![r] = users[job[r].id]]
      BY <1>20, <2>2, <3>2 DEF Refresh, TypeOK, Exists
    <3>4. /\ pc' = [pc EXCEPT ![r] = "query"]
          /\ UNCHANGED <<job, snap, pending, known, fd, users, used, audit, tmp, passwd, data, started,
                         faults, committed, solo, tainted, contended>>
      BY <1>20, <2>2 DEF Refresh
    <3> QED
      BY <3>1, <3>3, <3>4, ConstantsAssumption DEF TypeOK, Labels
  <2> QED
    BY <2>1, <2>2
<1>6. ASSUME NEW r \in Requests, CheckOtherEmail(r) PROVE TypeOK'
  <2>1. CASE Finish(r)
    BY <1>6, <2>1, FinishTyped DEF CheckOtherEmail, TypeOK
  <2>2. CASE Proceed(r, "commit")
    <3>1. pc[r] = "check_other" /\ seen[r] # NoUser
      BY <1>6 DEF CheckOtherEmail, TypeOK
    <3>2. "commit" \in Labels \ {"idle", "check_other", "write", "rename"}
      BY DEF Labels
    <3> QED
      BY <1>6, <2>2, <3>1, <3>2, ProceedTyped DEF CheckOtherEmail, TypeOK
  <2> QED
    BY <1>6, <2>1, <2>2 DEF CheckOtherEmail
<1>7. ASSUME NEW r \in Requests, Load(r) PROVE TypeOK'
  <2>1. CASE Finish(r)
    BY <1>7, <2>1, FinishTyped DEF Load, TypeOK
  <2>2. CASE ~Finish(r)
    <3>1. job[r] \in Job /\ pc[r] = "load"
      BY <1>7 DEF Load, TypeOK
    <3>2. job[r].id \in Ids
      BY <3>1 DEF Job
    <3>3. users[job[r].id] \in User /\ seen' = [seen EXCEPT ![r] = users[job[r].id]]
      BY <1>7, <2>2, <3>2 DEF Load, TypeOK, Exists
    <3>4. /\ pc' = [pc EXCEPT ![r] = IF job[r].op = "email" THEN "check_other" ELSE "commit"]
          /\ UNCHANGED <<job, snap, pending, known, fd, users, used, audit, tmp, passwd, data, started,
                         faults, committed, solo, tainted, contended>>
      BY <1>7, <2>2 DEF Load
    <3> QED
      BY <3>1, <3>3, <3>4, ConstantsAssumption DEF TypeOK, Labels
  <2> QED
    BY <2>1, <2>2
<1>8. ASSUME NEW r \in Requests, Toggle(r) \/ ChangePassword(r) \/ Delete(r) PROVE TypeOK'
  <2>1. job[r] \in Job /\ seen[r] \in User /\ pc[r] = "commit"
    BY <1>8 DEF Toggle, ChangePassword, Delete, TypeOK
  <2>2. job[r].id \in Ids /\ job[r].serial \in Nat
    BY <2>1 DEF Job
  <2>3. CASE Toggle(r)
    <3>1. users[job[r].id] \in User /\ (~seen[r].enabled) \in BOOLEAN
      BY <2>1, <2>2, <2>3 DEF Toggle, Exists, TypeOK, User
    <3>2. [users[job[r].id] EXCEPT !.enabled = ~seen[r].enabled] \in User
      BY <3>1 DEF User
    <3>3. users' = [users EXCEPT ![job[r].id] = [users[job[r].id] EXCEPT !.enabled = ~seen[r].enabled]]
      BY <2>2, <2>3 DEF Toggle, TypeOK
    <3>4. users' \in [Ids -> User \cup {NoUser}]
      BY <2>2, <3>2, <3>3 DEF TypeOK
    <3>5. committed' \subseteq [serial : Nat, did : Words]
      BY <2>1, <2>3, LogTyped DEF Toggle, ToggleWord, Words
    <3>6. tainted' \in BOOLEAN /\ solo' \in [Requests -> BOOLEAN]
      BY <2>3, MeetTyped DEF Toggle
    <3> QED
      BY <2>1, <2>3, <3>4, <3>5, <3>6, ProceedTyped DEF Toggle, TypeOK, Labels
  <2>4. CASE ChangePassword(r)
    <3>1. users[job[r].id] \in User
      BY <2>2, <2>4 DEF ChangePassword, Exists, TypeOK
    <3>2. [users[job[r].id] EXCEPT !.hash = job[r].serial] \in User
      BY <2>2, <3>1 DEF User
    <3>3. users' = [users EXCEPT ![job[r].id] = [users[job[r].id] EXCEPT !.hash = job[r].serial]]
      BY <2>2, <2>4 DEF ChangePassword, TypeOK
    <3>4. users' \in [Ids -> User \cup {NoUser}]
      BY <2>2, <3>2, <3>3 DEF TypeOK
    <3>5. committed' \subseteq [serial : Nat, did : Words]
      BY <2>1, <2>4, LogTyped DEF ChangePassword, Words, AllOperations
    <3>6. tainted' \in BOOLEAN /\ solo' \in [Requests -> BOOLEAN]
      BY <2>4, MeetTyped DEF ChangePassword
    <3> QED
      BY <2>1, <2>4, <3>4, <3>5, <3>6, ProceedTyped DEF ChangePassword, TypeOK, Labels
  <2>5. CASE Delete(r)
    <3>1. users' \in [Ids -> User \cup {NoUser}]
      BY <2>2, <2>5 DEF Delete, TypeOK
    <3>2. committed' \subseteq [serial : Nat, did : Words]
      BY <2>1, <2>5, LogTyped DEF Delete, Words, AllOperations
    <3>3. tainted' \in BOOLEAN /\ solo' \in [Requests -> BOOLEAN]
      BY <2>5, MeetTyped DEF Delete
    <3> QED
      BY <2>1, <2>5, <3>1, <3>2, <3>3, ProceedTyped DEF Delete, TypeOK, Labels
  <2> QED
    BY <1>8, <2>3, <2>4, <2>5
<1>9. ASSUME NEW r \in Requests, ChangeEmail(r) \/ SameEmail(r) \/ ChangeNotes(r) PROVE TypeOK'
  <2>1. job[r] \in Job /\ seen[r] \in User /\ pc[r] = "commit"
    BY <1>9 DEF ChangeEmail, SameEmail, ChangeNotes, TypeOK
  <2>2. job[r].id \in Ids /\ job[r].email \in Emails
    BY <2>1 DEF Job
  <2>3. users' \in [Ids -> User \cup {NoUser}]
    <3>1. CASE ChangeEmail(r) /\ users' # users
      <4>1. users[job[r].id] \in User
        BY <2>2, <3>1 DEF ChangeEmail, Exists, TypeOK
      <4>2. [users[job[r].id] EXCEPT !.email = job[r].email] \in User
        BY <2>2, <4>1 DEF User
      <4>3. users' = [users EXCEPT ![job[r].id] = [users[job[r].id] EXCEPT !.email = job[r].email]]
        BY <2>2, <3>1 DEF ChangeEmail, TypeOK
      <4> QED
        BY <2>2, <4>2, <4>3 DEF TypeOK
    <3> QED
      BY <1>9, <3>1 DEF SameEmail, ChangeNotes, TypeOK
  <2>4. committed' \subseteq [serial : Nat, did : Words]
    BY <1>9, <2>1, LogTyped DEF ChangeEmail, SameEmail, ChangeNotes, Words, AllOperations, TypeOK
  <2>5. CASE Finish(r)
    BY <1>9, <2>3, <2>4, <2>5, FinishTyped DEF ChangeEmail, SameEmail, ChangeNotes, TypeOK
  <2>6. CASE Proceed(r, "audit")
    BY <1>9, <2>1, <2>3, <2>4, <2>6, ProceedTyped DEF ChangeEmail, SameEmail, ChangeNotes, TypeOK, Labels
  <2> QED
    BY <1>9, <2>5, <2>6 DEF ChangeEmail, SameEmail, ChangeNotes
<1>10. ASSUME NEW r \in Requests, Query(r) PROVE TypeOK'
  <2>1. snap' \in [Requests -> SUBSET Entry]
    BY <1>10, QueryTyped DEF Query, TypeOK
  <2>2. known' \in [Requests -> BOOLEAN]
    <3>1. (Exists(job[r].id) /\ users[job[r].id].enabled) \in BOOLEAN
      BY Zenon
    <3>2. known \in [Requests -> BOOLEAN]
      BY DEF TypeOK
    <3>3. known' = [known EXCEPT ![r] = Exists(job[r].id) /\ users[job[r].id].enabled]
      BY <1>10, Zenon DEF Query
    <3> QED
      BY <3>1, <3>2, <3>3, Zenon
  <2> QED
    BY <1>10, <2>1, <2>2 DEF Query, TypeOK, Labels
<1>11. ASSUME NEW r \in Requests, NEW i \in Inodes, Open(r, i) PROVE TypeOK'
  <2>1. Emptied(r) \in Contents
    BY DEF Emptied, Contents
  <2>2. data' \in [Inodes -> Contents]
    BY <1>11, <2>1 DEF Open, TypeOK
  <2>3. fd' \in [Requests -> Inodes \cup {None}] /\ pc' \in [Requests -> Labels]
    BY <1>11 DEF Open, TypeOK, Labels
  <2>4. \A q \in Requests : /\ pc'[q] # "idle" => job'[q] # NoJob
                            /\ pc'[q] \in {"check_other", "commit"} => seen'[q] # NoUser
                            /\ pc'[q] \in {"write", "rename"} => fd'[q] # None
    BY <1>11, ConstantsAssumption DEF Open, TypeOK
  <2>5. contended' \in BOOLEAN
    BY <1>11 DEF Open, TypeOK
  <2> QED
    BY <1>11, <2>2, <2>3, <2>4, <2>5 DEF Open, TypeOK
<1>12. ASSUME NEW r \in Requests, Write(r) PROVE TypeOK'
  <2>1. pc[r] = "write" /\ fd[r] \in Inodes
    BY <1>12 DEF Write, TypeOK
  <2>2. PICK d \in Overlay(data[fd[r]], snap[r]) : data' = [data EXCEPT ![fd[r]] = d]
    BY <1>12 DEF Write
  <2>3. d \in Contents
    BY <2>1, OverlayTyped DEF TypeOK
  <2>4. data' \in [Inodes -> Contents]
    BY <2>1, <2>2, <2>3 DEF TypeOK
  <2>5. pc' = [pc EXCEPT ![r] = "rename"]
    BY <1>12 DEF Write, Proceed
  <2> QED
    BY <1>12, <2>1, <2>4, <2>5 DEF Write, Proceed, TypeOK, Labels
<1>13. ASSUME NEW r \in Requests, Rename(r) PROVE TypeOK'
  <2>1. tainted' \in BOOLEAN
    BY <1>13 DEF Rename, TypeOK
  <2> QED
    BY <1>13, <2>1 DEF Rename, TypeOK, Labels
<1>14. ASSUME NEW r \in Requests, RenameFails(r) \/ IoFault(r) PROVE TypeOK'
  <2>1. /\ SyncFails(r)
        /\ UNCHANGED <<users, used, audit, tmp, passwd, data, started, committed, solo, contended>>
        /\ faults' \in Nat
        /\ pc[r] # "idle"
    BY <1>14 DEF RenameFails, IoFault, TypeOK
  <2>2. tainted' \in BOOLEAN
    BY <2>1 DEF SyncFails
  <2>3. CASE Finish(r)
    BY <2>1, <2>2, <2>3, FinishTyped DEF TypeOK
  <2>4. CASE ~Finish(r)
    BY <2>1, <2>2, <2>4 DEF SyncFails, TypeOK, Labels
  <2> QED
    BY <2>3, <2>4
<1>15. ASSUME NEW r \in Requests, AuditEntry(r) PROVE TypeOK'
  <2>1. job[r] \in Job /\ pc[r] = "audit"
    BY <1>15 DEF AuditEntry, TypeOK
  <2>2. (IF job[r].op = "toggle" THEN ToggleWord(known[r] \/ users[job[r].id].enabled) ELSE job[r].op) \in Words
    BY <2>1 DEF Job, Words, ToggleWord
  <2>3. audit' \subseteq [serial : Nat, said : Words, alone : BOOLEAN]
    BY <1>15, <2>1, <2>2, LogTyped DEF AuditEntry
  <2> QED
    BY <1>15, <2>3, FinishTyped DEF AuditEntry, TypeOK
<1>16. CASE Crash
  BY <1>16 DEF Crash, TypeOK, Labels
<1>17. ASSUME NEW r \in Requests, ImportRow(r) PROVE TypeOK'
  <2>1. PICK row \in Row : pending' = [pending EXCEPT ![r] = @ \cup {row}]
    BY <1>17 DEF ImportRow
  <2>2. pending' \in [Requests -> SUBSET Row]
    BY <2>1 DEF TypeOK
  <2> QED
    BY <1>17, <2>2 DEF ImportRow, TypeOK
<1>18. ASSUME NEW r \in Requests, ImportRefused(r) PROVE TypeOK'
  BY <1>18, FinishTyped DEF ImportRefused, TypeOK
<1>19. ASSUME NEW r \in Requests, ImportNothing(r) \/ ImportCommit(r) PROVE TypeOK'
  <2>1. job[r] \in Job /\ pc[r] = "rows" /\ pending[r] \subseteq Row
    BY <1>19 DEF ImportNothing, ImportCommit, TypeOK
  <2>2. committed' \subseteq [serial : Nat, did : Words]
    BY <1>19, <2>1, LogTyped DEF ImportNothing, ImportCommit, Words, AllOperations
  <2>3. CASE ImportNothing(r)
    BY <2>1, <2>2, <2>3, ProceedTyped DEF ImportNothing, TypeOK, Labels
  <2>4. CASE ImportCommit(r)
    <3>1. \A row \in pending[r] : ImportedUser(row, r) \in User
      BY <2>1 DEF ImportedUser, Row, Job, User
    <3>2. PICK new \in [pending[r] -> Ids \ used] :
            /\ users' = [u \in Ids |-> IF \E p \in pending[r] : new[p] = u
                                      THEN ImportedUser(CHOOSE p \in pending[r] : new[p] = u, r)
                                      ELSE users[u]]
            /\ used' = used \cup {new[p] : p \in pending[r]}
      BY <2>4 DEF ImportCommit
    <3>3. users' \in [Ids -> User \cup {NoUser}]
      BY <3>1, <3>2 DEF TypeOK
    <3>4. used' \subseteq Ids
      BY <3>2 DEF TypeOK
    <3>5. tainted' \in BOOLEAN /\ solo' \in [Requests -> BOOLEAN]
      BY <2>4, MeetTyped DEF ImportCommit
    <3> QED
      BY <2>1, <2>2, <2>4, <3>3, <3>4, <3>5, ProceedTyped DEF ImportCommit, TypeOK, Labels
  <2> QED
    BY <1>19, <2>3, <2>4
<1> QED
  BY <1>1, <1>2, <1>3, <1>4, <1>5, <1>6, <1>7, <1>8, <1>9, <1>10, <1>11, <1>12, <1>13, <1>14, <1>15, <1>16,
     <1>17, <1>18, <1>19, <1>20 DEF Next, CreateStep, ChangeStep, ImportStep, SyncStep, AuditStep

(***************************************************************************)
(* The accounts keep their types: no handler goes on without its row, and  *)
(* none writes without an open file.                                       *)
(***************************************************************************)
THEOREM TypeCorrect == Spec => []TypeOK
BY TypeInit, TypeStep, PTL DEF Spec

-----------------------------------------------------------------------------
(***************************************************************************)
(* The file under the name ftpd.passwd.                                    *)
(***************************************************************************)
\* The requests that hold the temporary file go on as they are, or let go.
Aside == \A r \in Requests : HoldsFile(r)' => /\ pc'[r] = pc[r]
                                              /\ fd'[r] = fd[r]
                                              /\ snap'[r] = snap[r]

\* A text written over a file that was emptied for it is whole.
LEMMA OverlayEmptied == ASSUME NEW r \in Requests PROVE Overlay(Emptied(r), snap[r]) = {Whole(snap[r])}
BY DEF Overlay, Emptied, NamesIn

\* Every action but Open, Write and Rename leaves the files alone.
LEMMA FilesAside ==
    ASSUME TypeOK, [Next]_vars
    PROVE  \/ UNCHANGED <<tmp, passwd, data, contended>> /\ Aside
           \/ \E r \in Requests : (\E i \in Inodes : Open(r, i)) \/ Write(r) \/ Rename(r)
<1>1. CASE UNCHANGED vars
  BY <1>1 DEF vars, Aside, HoldsFile
<1>2. ASSUME NEW r \in Requests, Start(r) PROVE UNCHANGED <<tmp, passwd, data, contended>> /\ Aside
  <2>1. PICK op \in Operations : pc' = [pc EXCEPT ![r] = First(op)]
    BY <1>2 DEF Start
  <2>2. First(op) \notin {"write", "rename"}
    BY DEF First
  <2> QED
    BY <1>2, <2>1, <2>2 DEF Start, TypeOK, Aside, HoldsFile
<1>3. ASSUME NEW r \in Requests, CreateStep(r) PROVE UNCHANGED <<tmp, passwd, data, contended>> /\ Aside
  BY <1>3 DEF CreateStep, CheckName, CheckEmail, Refuse, InsertRefused, Insert, Refresh, Finish, Proceed,
              TypeOK, Aside, HoldsFile
<1>4. ASSUME NEW r \in Requests, Load(r) \/ CheckOtherEmail(r) \/ UpdateLost(r)
      PROVE  UNCHANGED <<tmp, passwd, data, contended>> /\ Aside
  BY <1>4 DEF Load, CheckOtherEmail, UpdateLost, Finish, Proceed, TypeOK, Aside, HoldsFile
<1>5. ASSUME NEW r \in Requests, Toggle(r) \/ ChangePassword(r) \/ Delete(r)
      PROVE  UNCHANGED <<tmp, passwd, data, contended>> /\ Aside
  BY <1>5 DEF Toggle, ChangePassword, Delete, Proceed, TypeOK, Aside, HoldsFile
<1>6. ASSUME NEW r \in Requests, ChangeEmail(r) \/ SameEmail(r) \/ ChangeNotes(r)
      PROVE  UNCHANGED <<tmp, passwd, data, contended>> /\ Aside
  BY <1>6 DEF ChangeEmail, SameEmail, ChangeNotes, Finish, Proceed, TypeOK, Aside, HoldsFile
<1>7. ASSUME NEW r \in Requests, Query(r) PROVE UNCHANGED <<tmp, passwd, data, contended>> /\ Aside
  BY <1>7 DEF Query, TypeOK, Aside, HoldsFile
<1>8. ASSUME NEW r \in Requests, RenameFails(r) \/ IoFault(r)
      PROVE  UNCHANGED <<tmp, passwd, data, contended>> /\ Aside
  BY <1>8 DEF RenameFails, IoFault, SyncFails, Finish, TypeOK, Aside, HoldsFile
<1>9. ASSUME NEW r \in Requests, AuditStep(r) PROVE UNCHANGED <<tmp, passwd, data, contended>> /\ Aside
  BY <1>9 DEF AuditStep, AuditEntry, AuditFails, Finish, TypeOK, Aside, HoldsFile
<1>10. CASE Crash
  BY <1>10 DEF Crash, TypeOK, Aside, HoldsFile
<1>11. ASSUME NEW r \in Requests, ImportStep(r) PROVE UNCHANGED <<tmp, passwd, data, contended>> /\ Aside
  BY <1>11 DEF ImportStep, ImportRow, ImportRefused, ImportNothing, ImportCommit, Finish, Proceed,
               TypeOK, Aside, HoldsFile
<1> QED
  BY <1>1, <1>2, <1>3, <1>4, <1>5, <1>6, <1>7, <1>8, <1>9, <1>10, <1>11 DEF Next, ChangeStep, SyncStep

\* At first there is no temporary file.
LEMMA FileInit == Init => FileInv
<1> SUFFICES ASSUME Init PROVE FileInv
  OBVIOUS
<1>1. tmp # passwd
  BY ConstantsAssumption DEF Init
<1>2. data[passwd].whole
  BY DEF Init, Whole
<1>3. \A r \in Requests : ~HoldsFile(r)
  BY DEF Init, HoldsFile
<1> QED
  BY <1>1, <1>2, <1>3 DEF FileInv

\* A request that has the temporary file to itself renames a whole file.
LEMMA FileStep == TypeOK /\ FileInv /\ [Next]_vars => FileInv'
<1> SUFFICES ASSUME TypeOK, FileInv, [Next]_vars PROVE FileInv'
  OBVIOUS
<1>1. CASE UNCHANGED <<tmp, passwd, data, contended>> /\ Aside
  BY <1>1 DEF FileInv, Aside, HoldsFile, OwnFile, Emptied
<1>2. ASSUME NEW r \in Requests, NEW i \in Inodes, Open(r, i) PROVE FileInv'
  <2>1. i # passwd
    BY <1>2 DEF Open, FileInv
  <2>2. /\ tmp' = i /\ passwd' = passwd
        /\ data'[i] = Emptied(r) /\ data'[passwd] = data[passwd]
        /\ fd'[r] = i /\ pc'[r] = "write" /\ snap' = snap
        /\ \A q \in Requests \ {r} : pc'[q] = pc[q]
        /\ contended' = (contended \/ \E q \in Requests \ {r} : pc[q] \in {"write", "rename"})
    BY <1>2, <2>1 DEF Open, TypeOK
  <2>3. ASSUME ~contended', NEW q \in Requests, HoldsFile(q)' PROVE q = r
    BY <2>2, <2>3 DEF HoldsFile
  <2>4. ~contended' => ~contended
    BY <2>2
  <2>5. OwnFile(r)'
    BY <2>2 DEF OwnFile, Emptied
  <2>6. ~contended' => data'[passwd'].whole
    BY <2>2, <2>4 DEF FileInv
  <2> QED
    BY <2>1, <2>2, <2>3, <2>5, <2>6 DEF FileInv
<1>3. ASSUME NEW r \in Requests, Write(r) PROVE FileInv'
  <2>1. /\ pc[r] = "write" /\ fd[r] \in Inodes
        /\ pc' = [pc EXCEPT ![r] = "rename"]
        /\ UNCHANGED <<tmp, passwd, contended, fd, snap>>
    BY <1>3 DEF Write, Proceed, TypeOK
  <2>2. SUFFICES ASSUME ~contended
                 PROVE  /\ data'[passwd].whole
                        /\ \A p, q \in Requests : HoldsFile(p)' /\ HoldsFile(q)' => p = q
                        /\ \A q \in Requests : HoldsFile(q)' => OwnFile(q)'
    BY <2>1 DEF FileInv
  <2>3. \A q \in Requests : HoldsFile(q)' <=> HoldsFile(q)
    BY <2>1 DEF HoldsFile, TypeOK
  <2>4. \A q \in Requests : HoldsFile(q) => q = r
    BY <2>1, <2>2 DEF FileInv, HoldsFile
  <2>5. tmp = fd[r] /\ data[fd[r]] = Emptied(r)
    BY <2>1, <2>2 DEF FileInv, HoldsFile, OwnFile
  <2>6. PICK d \in Overlay(data[fd[r]], snap[r]) : data' = [data EXCEPT ![fd[r]] = d]
    BY <1>3 DEF Write
  <2>7. d = Whole(snap[r])
    BY <2>5, <2>6, OverlayEmptied
  <2>8. data'[fd[r]] = Whole(snap[r]) /\ data'[passwd] = data[passwd]
    BY <2>1, <2>5, <2>6, <2>7 DEF FileInv, TypeOK
  <2>9. OwnFile(r)'
    BY <2>1, <2>5, <2>8 DEF OwnFile, TypeOK
  <2>10. data[passwd].whole
    BY <2>2 DEF FileInv
  <2> QED
    BY <2>3, <2>4, <2>8, <2>9, <2>10
<1>4. ASSUME NEW r \in Requests, Rename(r) PROVE FileInv'
  <2>1. /\ pc[r] = "rename" /\ passwd' = tmp /\ tmp' = None /\ tmp \in Inodes
        /\ \A q \in Requests : HoldsFile(q)' => HoldsFile(q) /\ q # r
        /\ UNCHANGED <<data, contended>>
    BY <1>4 DEF Rename, TypeOK, HoldsFile
  <2>2. tmp' # passwd'
    BY <2>1, ConstantsAssumption
  <2>3. ASSUME ~contended PROVE data'[passwd'].whole /\ \A q \in Requests : ~HoldsFile(q)'
    <3>1. HoldsFile(r)
      BY <2>1 DEF HoldsFile
    <3>2. data[tmp] = Whole(snap[r])
      BY <2>1, <2>3, <3>1 DEF FileInv, OwnFile
    <3> QED
      BY <2>1, <2>3, <3>1, <3>2 DEF FileInv, Whole
  <2> QED
    BY <2>1, <2>2, <2>3 DEF FileInv
<1> QED
  BY <1>1, <1>2, <1>3, <1>4, FilesAside

(***************************************************************************)
(* Unless two requests had the temporary file open at once, ProFTPd finds  *)
(* a whole file at every moment, however many requests run, fail or die.   *)
(***************************************************************************)
THEOREM PasswdNeverPartial == Spec => []NeverPartial
<1>1. FileInv => NeverPartial
  BY DEF FileInv, NeverPartial
<1> QED
  BY <1>1, TypeInit, TypeStep, FileInit, FileStep, PTL DEF Spec

-----------------------------------------------------------------------------
(***************************************************************************)
(* The rows, their hashes and what sessions hold of them.                  *)
(***************************************************************************)
\* New rows get new ids, and the ids that were given out stay so.
NewRows == \A u \in Ids : \/ u \notin used /\ u \in used'
                          \/ users'[u] = users[u] /\ (u \in used => u \in used')

\* What a step can do to the table: nothing, new rows under new ids, or a
\* change of the row that a request loaded.
LEMMA TableStep ==
    ASSUME TypeOK, [Next]_vars
    PROVE  \/ users' = users /\ used' = used
           \/ NewRows
           \/ \E r \in Requests : /\ used' = used /\ job[r].id \in Ids /\ pc[r] = "commit"
                                  /\ \A u \in Ids \ {job[r].id} : users'[u] = users[u]
                                  /\ \/ users'[job[r].id] = NoUser
                                     \/ /\ Exists(job[r].id)
                                        /\ users'[job[r].id].name = users[job[r].id].name
                                        /\ \/ users'[job[r].id].hash = users[job[r].id].hash
                                           \/ job[r].op = "password" /\ users'[job[r].id].hash = job[r].serial
<1> DEFINE Changes(r) == /\ used' = used /\ job[r].id \in Ids /\ pc[r] = "commit"
                         /\ \A u \in Ids \ {job[r].id} : users'[u] = users[u]
                         /\ \/ users'[job[r].id] = NoUser
                            \/ /\ Exists(job[r].id)
                               /\ users'[job[r].id].name = users[job[r].id].name
                               /\ \/ users'[job[r].id].hash = users[job[r].id].hash
                                  \/ job[r].op = "password" /\ users'[job[r].id].hash = job[r].serial
<1>1. ASSUME NEW r \in Requests, Toggle(r) \/ ChangePassword(r) \/ Delete(r) \/ (ChangeEmail(r) /\ users' # users)
      PROVE  Changes(r)
  <2>1. pc[r] = "commit" /\ job[r] \in Job /\ used' = used
    BY <1>1 DEF Toggle, ChangePassword, Delete, ChangeEmail, TypeOK
  <2>2. job[r].id \in Ids
    BY <2>1 DEF Job
  <2>3. CASE Toggle(r)
    <3>1. users[job[r].id] \in User /\ Exists(job[r].id)
      BY <2>2, <2>3 DEF Toggle, Exists, TypeOK
    <3>2. users' = [users EXCEPT ![job[r].id] = [users[job[r].id] EXCEPT !.enabled = ~seen[r].enabled]]
      BY <2>2, <2>3 DEF Toggle, TypeOK
    <3>3. /\ [users[job[r].id] EXCEPT !.enabled = ~seen[r].enabled].hash = users[job[r].id].hash
          /\ [users[job[r].id] EXCEPT !.enabled = ~seen[r].enabled].name = users[job[r].id].name
      BY <3>1 DEF User
    <3> QED
      BY <2>1, <2>2, <3>1, <3>2, <3>3 DEF TypeOK
  <2>4. CASE ChangePassword(r)
    <3>1. users[job[r].id] \in User /\ Exists(job[r].id) /\ job[r].op = "password"
      BY <2>2, <2>4 DEF ChangePassword, Exists, TypeOK
    <3>2. users' = [users EXCEPT ![job[r].id] = [users[job[r].id] EXCEPT !.hash = job[r].serial]]
      BY <2>2, <2>4 DEF ChangePassword, TypeOK
    <3>3. /\ [users[job[r].id] EXCEPT !.hash = job[r].serial].hash = job[r].serial
          /\ [users[job[r].id] EXCEPT !.hash = job[r].serial].name = users[job[r].id].name
      BY <3>1 DEF User
    <3> QED
      BY <2>1, <2>2, <3>1, <3>2, <3>3 DEF TypeOK
  <2>5. CASE Delete(r)
    BY <2>1, <2>2, <2>5 DEF Delete, TypeOK
  <2>6. CASE ChangeEmail(r) /\ users' # users
    <3>1. users[job[r].id] \in User /\ Exists(job[r].id)
      BY <2>2, <2>6 DEF ChangeEmail, Exists, TypeOK
    <3>2. users' = [users EXCEPT ![job[r].id] = [users[job[r].id] EXCEPT !.email = job[r].email]]
      BY <2>2, <2>6 DEF ChangeEmail, TypeOK
    <3>3. /\ [users[job[r].id] EXCEPT !.email = job[r].email].hash = users[job[r].id].hash
          /\ [users[job[r].id] EXCEPT !.email = job[r].email].name = users[job[r].id].name
      BY <3>1 DEF User
    <3> QED
      BY <2>1, <2>2, <3>1, <3>2, <3>3 DEF TypeOK
  <2> QED
    BY <1>1, <2>3, <2>4, <2>5, <2>6
<1> HIDE DEF Changes
<1>2. ASSUME NEW r \in Requests, CreateStep(r) \/ ImportStep(r) \/ SyncStep(r) \/ AuditStep(r) \/ Start(r)
      PROVE  (users' = users /\ used' = used) \/ NewRows
  <2>1. ASSUME NEW u \in Ids, Insert(r, u) PROVE NewRows
    BY <2>1 DEF Insert, NewRows, TypeOK
  <2>2. CASE ImportCommit(r)
    <3>1. PICK new \in [pending[r] -> Ids \ used] :
            /\ users' = [u \in Ids |-> IF \E p \in pending[r] : new[p] = u
                                      THEN ImportedUser(CHOOSE p \in pending[r] : new[p] = u, r)
                                      ELSE users[u]]
            /\ used' = used \cup {new[p] : p \in pending[r]}
      BY <2>2 DEF ImportCommit
    <3> QED
      BY <3>1 DEF NewRows
  <2>3. CASE ~ImportCommit(r) /\ ~\E u \in Ids : Insert(r, u)
    BY <1>2, <2>3 DEF CreateStep, CheckName, CheckEmail, InsertRefused, Refresh, ImportStep, ImportRow,
                      ImportRefused, ImportNothing, SyncStep, Query, Open, Write, Rename,
                      RenameFails, IoFault, AuditStep, AuditEntry, AuditFails, Start
  <2> QED
    BY <2>1, <2>2, <2>3
<1>3. ASSUME NEW r \in Requests, ChangeStep(r) PROVE (users' = users /\ used' = used) \/ Changes(r)
  BY <1>1, <1>3 DEF ChangeStep, Load, CheckOtherEmail, UpdateLost, SameEmail, ChangeNotes, ChangeEmail
<1>4. ASSUME Crash \/ UNCHANGED vars PROVE users' = users /\ used' = used
  BY <1>4 DEF Crash, vars
<1>5. \/ users' = users /\ used' = used
      \/ NewRows
      \/ \E r \in Requests : Changes(r)
  <2>1. CASE \E r \in Requests : CreateStep(r) \/ ImportStep(r) \/ SyncStep(r) \/ AuditStep(r) \/ Start(r)
    BY <1>2, <2>1
  <2>2. CASE \E r \in Requests : ChangeStep(r)
    BY <1>3, <2>2
  <2>3. \/ \E r \in Requests : CreateStep(r) \/ ImportStep(r) \/ SyncStep(r) \/ AuditStep(r) \/ Start(r)
        \/ \E r \in Requests : ChangeStep(r)
        \/ Crash \/ UNCHANGED vars
    BY Zenon DEF Next
  <2> QED
    BY <1>4, <2>1, <2>2, <2>3, Zenon
<1> QED
  BY <1>5 DEF Changes

\* No row has an id that was not given out, so an insert replaces none.
LEMMA UsedKept == TypeOK /\ UsedInv /\ [Next]_vars => UsedInv' /\ [HashStep]_vars
<1> SUFFICES ASSUME TypeOK, UsedInv, [Next]_vars PROVE UsedInv' /\ HashStep
  OBVIOUS
<1>1. CASE users' = users /\ used' = used
  BY <1>1 DEF UsedInv, HashStep, Exists
<1>2. CASE NewRows
  BY <1>2 DEF NewRows, UsedInv, HashStep, Exists
<1>3. ASSUME NEW r \in Requests, used' = used, job[r].id \in Ids, pc[r] = "commit",
             \A u \in Ids \ {job[r].id} : users'[u] = users[u],
             \/ users'[job[r].id] = NoUser
             \/ /\ Exists(job[r].id)
                /\ \/ users'[job[r].id].hash = users[job[r].id].hash
                   \/ job[r].op = "password" /\ users'[job[r].id].hash = job[r].serial
      PROVE  UsedInv' /\ HashStep
  <2>1. UsedInv'
    BY <1>3 DEF UsedInv, Exists
  <2>2. HashStep
    BY <1>3 DEF HashStep
  <2> QED
    BY <2>1, <2>2
<1> QED
  BY <1>1, <1>2, <1>3, TableStep

(***************************************************************************)
(* No handler writes back a hash it read before: only a change of the      *)
(* password changes it.                                                    *)
(***************************************************************************)
THEOREM HashIsKept == Spec => HashKept
<1>1. Init => UsedInv
  BY DEF Init, UsedInv, Exists
<1> QED
  BY <1>1, TypeInit, TypeStep, UsedKept, PTL DEF Spec, HashKept

\* At first no session holds anything.
LEMMA SessionInit == Init => SessionInv
BY DEF Init, SessionInv, SessionOK

\* What a session holds of an account keeps its name, as the row does.
LEMMA SessionKept == TypeOK /\ SessionInv /\ [Next]_vars => SessionInv'
<1> SUFFICES ASSUME TypeOK, SessionInv, [Next]_vars PROVE SessionInv'
  OBVIOUS
<1>rows. \A u \in used : u \in used' /\ (Exists(u)' => Exists(u) /\ users'[u].name = users[u].name)
  <2>1. used \subseteq Ids
    BY DEF TypeOK
  <2>2. CASE users' = users /\ used' = used
    BY <2>2 DEF Exists
  <2>3. CASE NewRows
    BY <2>1, <2>3 DEF NewRows, Exists
  <2>4. ASSUME NEW r \in Requests, used' = used, job[r].id \in Ids,
               \A u \in Ids \ {job[r].id} : users'[u] = users[u],
               \/ users'[job[r].id] = NoUser
               \/ Exists(job[r].id) /\ users'[job[r].id].name = users[job[r].id].name
        PROVE  \A u \in used : u \in used' /\ (Exists(u)' => Exists(u) /\ users'[u].name = users[u].name)
    <3>2. ASSUME NEW u \in used PROVE Exists(u)' => Exists(u) /\ users'[u].name = users[u].name
      <4>1. CASE u = job[r].id
        BY <2>4, <4>1 DEF Exists
      <4>2. CASE u # job[r].id
        BY <2>1, <2>4, <4>2 DEF Exists
      <4> QED
        BY <4>1, <4>2
    <3> QED
      BY <2>4, <3>2
  <2> QED
    BY <2>2, <2>3, <2>4, TableStep
<1>stay. ASSUME NEW q \in Requests, pc'[q] = pc[q], job'[q] = job[q], seen'[q] = seen[q]
         PROVE  SessionOK(q)'
  <2>1. SessionOK(q)
    BY DEF SessionInv
  <2>2. pc'[q] \in {"refresh", "query"} /\ job'[q].op \in Creates => job'[q].id \in used'
    BY <1>stay, <1>rows, <2>1 DEF SessionOK
  <2>3. ASSUME pc'[q] = "query", Exists(job[q].id)', NEW user \in Kept(q)
        PROVE  user.name = users'[job[q].id].name
    <3>1. job[q].id \in used
      BY <1>stay, <2>1, <2>3 DEF SessionOK, Kept
    <3>2. Exists(job[q].id) /\ users'[job[q].id].name = users[job[q].id].name
      BY <1>stay, <1>rows, <2>3, <3>1 DEF Exists
    <3> QED
      BY <1>stay, <2>1, <2>3, <3>2 DEF SessionOK
  <2> QED
    BY <1>stay, <2>1, <2>2, <2>3 DEF SessionOK, Kept
<1>out. ASSUME NEW q \in Requests, pc'[q] \notin {"refresh", "query", "load", "check_other", "commit", "rows"}
        PROVE  SessionOK(q)'
  BY <1>out DEF SessionOK
<1>on. ASSUME NEW q \in Requests, pc'[q] # "refresh", job'[q].op \notin Creates PROVE SessionOK(q)'
  BY <1>on DEF SessionOK, Kept
<1>1. CASE UNCHANGED vars
  BY <1>1, <1>stay DEF vars, SessionInv
<1>2. ASSUME NEW r \in Requests, Start(r) PROVE SessionInv'
  <2>1. PICK op \in Operations, u \in Ids, n \in Names, e \in Emails :
          /\ job' = [job EXCEPT ![r] = [op |-> op, id |-> u, name |-> n, email |-> e, serial |-> started']]
          /\ pc' = [pc EXCEPT ![r] = First(op)]
          /\ solo' = [q \in Requests |-> IF q = r THEN NoSync ELSE solo[q] /\ op # "sync"]
          /\ tainted' = (tainted \/ (op = "sync" /\ ~NoSync))
    BY <1>2 DEF Start
  <2>2. /\ job'[r].op = op /\ pc'[r] = First(op) /\ seen' = seen
        /\ \A q \in Requests \ {r} : job'[q] = job[q] /\ pc'[q] = pc[q]
    BY <1>2, <2>1 DEF Start, TypeOK
  <2>3. SessionOK(r)'
    BY <1>out, <1>on, <2>2 DEF First, Creates
  <2> QED
    BY <1>stay, <2>2, <2>3 DEF SessionInv
<1>3. ASSUME NEW r \in Requests, CheckName(r) \/ CheckEmail(r) \/ InsertRefused(r) PROVE SessionInv'
  <2>1. /\ pc'[r] \in {"idle", "check_email", "insert"}
        /\ \A q \in Requests \ {r} : job'[q] = job[q] /\ pc'[q] = pc[q] /\ seen'[q] = seen[q]
    BY <1>3 DEF CheckName, CheckEmail, InsertRefused, Refuse, Finish, Proceed, TypeOK
  <2> QED
    BY <1>stay, <1>out, <2>1 DEF SessionInv
<1>4. ASSUME NEW r \in Requests, NEW u \in Ids, Insert(r, u) PROVE SessionInv'
  <2>1. /\ pc[r] = "insert" /\ pc'[r] = "refresh" /\ seen' = seen /\ used' = used \cup {u}
        /\ \A q \in Requests \ {r} : job'[q] = job[q] /\ pc'[q] = pc[q]
        /\ job' = [job EXCEPT ![r] = [job[r] EXCEPT !.id = u]] /\ job[r] \in Job
    BY <1>4 DEF Insert, TypeOK
  <2>2. job'[r].id = u
    BY <2>1 DEF Job, TypeOK
  <2>3. SessionOK(r)'
    BY <2>1, <2>2 DEF SessionOK
  <2> QED
    BY <1>stay, <2>1, <2>3 DEF SessionInv
<1>5. ASSUME NEW r \in Requests, Refresh(r) PROVE SessionInv'
  <2>1. /\ pc[r] = "refresh" /\ pc'[r] \in {"idle", "query"} /\ UNCHANGED <<users, used>>
        /\ \A q \in Requests \ {r} : job'[q] = job[q] /\ pc'[q] = pc[q] /\ seen'[q] = seen[q]
        /\ pc'[r] = "query" => seen'[r] = users[job[r].id] /\ job'[r] = job[r]
    BY <1>5 DEF Refresh, Finish, TypeOK
  <2>2. SessionOK(r)'
    <3>1. CASE pc'[r] = "query"
      <4>1. SessionOK(r)
        BY DEF SessionInv
      <4>2. job'[r].op \in Creates => job'[r].id \in used'
        BY <2>1, <3>1, <4>1 DEF SessionOK
      <4>3. \A user \in Kept(r)' : user.name = users'[job'[r].id].name
        BY <2>1, <3>1 DEF Kept
      <4> QED
        BY <3>1, <4>2, <4>3 DEF SessionOK
    <3> QED
      BY <1>out, <2>1, <3>1
  <2> QED
    BY <1>stay, <2>1, <2>2 DEF SessionInv
<1>6. ASSUME NEW r \in Requests, ChangeStep(r) \/ ImportStep(r) PROVE SessionInv'
  <2>1. pc[r] \in {"load", "check_other", "commit", "rows"}
    BY <1>6 DEF ChangeStep, Load, CheckOtherEmail, UpdateLost, Toggle, ChangePassword, Delete, ChangeEmail,
                SameEmail, ChangeNotes, ImportStep, ImportRow, ImportRefused, ImportNothing, ImportCommit
  <2>2. job[r].op \notin Creates
    BY <2>1 DEF SessionInv, SessionOK
  <2>3. /\ \A q \in Requests \ {r} : job'[q] = job[q] /\ pc'[q] = pc[q] /\ seen'[q] = seen[q]
        /\ pc'[r] = "idle" \/ (job'[r] = job[r] /\ pc'[r] # "refresh")
    <3>1. CASE Load(r) \/ CheckOtherEmail(r) \/ UpdateLost(r)
      BY <3>1 DEF Load, CheckOtherEmail, UpdateLost, Finish, Proceed, TypeOK
    <3>2. CASE Toggle(r) \/ ChangePassword(r) \/ Delete(r)
      BY <3>2 DEF Toggle, ChangePassword, Delete, Finish, Proceed, TypeOK
    <3>3. CASE ChangeEmail(r) \/ SameEmail(r) \/ ChangeNotes(r)
      BY <3>3 DEF ChangeEmail, SameEmail, ChangeNotes, Finish, Proceed, TypeOK
    <3>4. CASE ImportStep(r)
      BY <3>4 DEF ImportStep, ImportRow, ImportRefused, ImportNothing, ImportCommit, Finish, Proceed, TypeOK
    <3> QED
      BY <1>6, <3>1, <3>2, <3>3, <3>4 DEF ChangeStep
  <2>4. SessionOK(r)'
    BY <1>out, <1>on, <2>2, <2>3
  <2> QED
    BY <1>stay, <2>3, <2>4 DEF SessionInv
<1>7. ASSUME NEW r \in Requests, SyncStep(r) \/ AuditStep(r) PROVE SessionInv'
  <2>1. /\ \A q \in Requests \ {r} : job'[q] = job[q] /\ pc'[q] = pc[q] /\ seen'[q] = seen[q]
        /\ pc'[r] \in {"idle", "open", "write", "rename", "audit"}
    <3>1. CASE Query(r) \/ (\E i \in Inodes : Open(r, i)) \/ Write(r) \/ Rename(r)
      BY <3>1 DEF Query, Open, Write, Rename, Proceed, TypeOK
    <3>2. CASE RenameFails(r) \/ IoFault(r) \/ AuditStep(r)
      BY <3>2 DEF RenameFails, IoFault, SyncFails, AuditStep, AuditEntry, AuditFails, Finish, TypeOK
    <3> QED
      BY <1>7, <3>1, <3>2 DEF SyncStep
  <2> QED
    BY <1>stay, <1>out, <2>1 DEF SessionInv
<1>8. CASE Crash
  BY <1>8, <1>out DEF Crash, SessionInv
<1> QED
  BY <1>1, <1>2, <1>3, <1>4, <1>5, <1>6, <1>7, <1>8 DEF Next, CreateStep

-----------------------------------------------------------------------------
(***************************************************************************)
(* ftpd.passwd and the enabled users.                                      *)
(***************************************************************************)
\* The part of the table that ftpd.passwd shows.
LinesKept == /\ EnabledEntries' = EnabledEntries
             /\ \A u \in Ids : Exists(u)' <=> Exists(u)
             /\ \A u \in Ids : Exists(u) => Line(users'[u]) = Line(users[u])

LEMMA TableKept == users' = users => LinesKept
BY DEF LinesKept, EnabledEntries, Enabled, Line, Exists

\* A change of an address is not seen in it.
LEMMA EntriesKept ==
    ASSUME TypeOK, NEW r \in Requests, ChangeEmail(r)
    PROVE  /\ LinesKept
           /\ \A u \in Ids : Exists(u) => users'[u].enabled = users[u].enabled
<1>1. CASE users' = users
  BY <1>1, TableKept DEF Exists
<1>2. CASE users' # users
  <2>1. job[r] \in Job /\ Exists(job[r].id)
    BY <1>2 DEF ChangeEmail, TypeOK
  <2>2. job[r].id \in Ids /\ job[r].email \in Emails
    BY <2>1 DEF Job
  <2>3. users[job[r].id] \in User
    BY <2>1, <2>2 DEF Exists, TypeOK
  <2>4. users' = [users EXCEPT ![job[r].id] = [users[job[r].id] EXCEPT !.email = job[r].email]]
    BY <1>2, <2>2 DEF ChangeEmail, TypeOK
  <2>5. [users[job[r].id] EXCEPT !.email = job[r].email] \in User
    BY <2>2, <2>3 DEF User
  <2>6. /\ [users[job[r].id] EXCEPT !.email = job[r].email].name = users[job[r].id].name
        /\ [users[job[r].id] EXCEPT !.email = job[r].email].hash = users[job[r].id].hash
        /\ [users[job[r].id] EXCEPT !.email = job[r].email].enabled = users[job[r].id].enabled
    BY <2>3 DEF User
  <2>7. \A u \in Ids : /\ Exists(u)' <=> Exists(u)
                       /\ Exists(u) => /\ users'[u].name = users[u].name
                                       /\ users'[u].hash = users[u].hash
                                       /\ users'[u].enabled = users[u].enabled
    BY <2>1, <2>2, <2>4, <2>5, <2>6, ConstantsAssumption DEF Exists, TypeOK
  <2>8. \A u \in Ids : Exists(u) => Line(users'[u]) = Line(users[u])
    BY <2>7 DEF Line
  <2>9. Enabled' = Enabled
    BY <2>7 DEF Enabled
  <2>10. EnabledEntries' = EnabledEntries
    BY <2>8, <2>9 DEF EnabledEntries, Enabled
  <2> QED
    BY <2>7, <2>8, <2>10 DEF LinesKept
<1> QED
  BY <1>1, <1>2

\* With a session that is right a query gives the table.
LEMMA QueryFresh ==
    ASSUME NEW r \in Requests, pc[r] = "query", Fresh(r)
    PROVE  QueryEntries(r) = EnabledEntries
<1>1. ASSUME NEW u \in Enabled PROVE Line(InSession(r, u)) = Line(users[u])
  <2>1. CASE u = job[r].id /\ Kept(r) # {}
    <3>1. seen[r] \in Kept(r) /\ InSession(r, u) = seen[r]
      BY <2>1 DEF Kept, InSession
    <3>2. Exists(job[r].id)
      BY <2>1 DEF Enabled
    <3> QED
      BY <2>1, <3>1, <3>2 DEF Fresh
  <2>2. CASE ~(u = job[r].id /\ Kept(r) # {})
    BY <2>2 DEF InSession
  <2> QED
    BY <2>1, <2>2
<1> QED
  BY <1>1 DEF QueryEntries, EnabledEntries

\* What the session of a sync holds stays right with the lines.
LEMMA FreshKept ==
    ASSUME TypeOK, LinesKept, NEW q \in Requests, Fresh(q), InSync(q),
           pc'[q] = pc[q], job'[q] = job[q], seen'[q] = seen[q]
    PROVE  Fresh(q)'
<1>1. job[q].id \in Ids
  BY DEF InSync, TypeOK, Job
<1>2. SUFFICES ASSUME pc[q] = "query", Exists(job[q].id)'
               PROVE  \A user \in Kept(q) : Line(user) = Line(users'[job[q].id])
  BY DEF Fresh, Kept, Line
<1>3. Exists(job[q].id)
  BY <1>1, <1>2 DEF LinesKept, Exists
<1> QED
  BY <1>1, <1>2, <1>3 DEF LinesKept, Fresh

\* A step that neither enters nor leaves a sync and changes no line.
LEMMA Elsewhere ==
    ASSUME SyncInv, UNCHANGED <<tmp, passwd, data, solo, tainted>>, LinesKept, TypeOK,
           \A q \in Requests : /\ InSync(q)' <=> InSync(q)
                               /\ pc'[q] # "idle" => pc[q] # "idle"
                               /\ InSync(q) => /\ pc'[q] = pc[q] /\ job'[q] = job[q]
                                               /\ snap'[q] = snap[q] /\ fd'[q] = fd[q]
                                               /\ seen'[q] = seen[q]
    PROVE  SyncInv'
<1>1. \A q \in Requests : HoldsFile(q) => InSync(q)
  BY DEF HoldsFile, InSync
<1>2. \A q \in Requests : Clean(q)' <=> Clean(q)
  BY DEF Clean
<1>3. \A q \in Requests : HoldsFile(q)' => HoldsFile(q)
  BY DEF HoldsFile, InSync
<1>4. \A q \in Requests : HoldsFile(q)' /\ OwnFile(q) => OwnFile(q)'
  BY <1>1, <1>3 DEF OwnFile, Emptied, HoldsFile
<1>5. \A q \in Requests : pc'[q] = "refresh" => job'[q] = job[q] /\ pc[q] = "refresh" /\ job[q].id \in Ids
  BY DEF InSync, TypeOK, Job
<1>6. \A q \in Requests : pc'[q] \in {"open", "write", "rename"} => snap'[q] = snap[q] /\ pc[q] = pc'[q]
  BY DEF InSync
<1>7. SyncedWhenQuiet'
  BY DEF SyncInv, SyncedWhenQuiet, NoSync, Synced, LinesKept
<1>8. ASSUME NEW q \in Requests, Fresh(q), InSync(q) PROVE Fresh(q)'
  BY <1>8, FreshKept
<1>9. \A u \in Ids : Exists(u)' <=> Exists(u)
  BY DEF LinesKept
<1>10. EnabledEntries' = EnabledEntries
  BY DEF LinesKept
<1>11. ASSUME NEW q \in Requests, Clean(q)'
       PROVE  /\ \A p \in Requests \ {q} : ~InSync(p)'
              /\ pc'[q] = "refresh" => Exists(job[q].id)'
              /\ Fresh(q)'
              /\ pc'[q] \in {"open", "write", "rename"} => snap'[q] = EnabledEntries'
              /\ HoldsFile(q)' => OwnFile(q)'
  <2>1. Clean(q) /\ InSync(q)
    BY <1>2, <1>11 DEF Clean
  <2>2. \A p \in Requests \ {q} : ~InSync(p)'
    BY <2>1 DEF SyncInv
  <2>3. pc'[q] = "refresh" => Exists(job[q].id)'
    BY <1>5, <1>9, <2>1 DEF SyncInv, Exists
  <2>4. Fresh(q)'
    BY <1>8, <2>1 DEF SyncInv
  <2>5. pc'[q] \in {"open", "write", "rename"} => snap'[q] = EnabledEntries'
    BY <1>6, <1>10, <2>1 DEF SyncInv
  <2>6. HoldsFile(q)' => OwnFile(q)'
    BY <1>3, <1>4, <2>1 DEF SyncInv
  <2> QED
    BY <2>2, <2>3, <2>4, <2>5, <2>6
<1>12. \A q \in Requests : solo'[q] /\ pc'[q] # "idle" => \A p \in Requests \ {q} : ~InSync(p)'
  BY DEF SyncInv
<1>13. tmp' # passwd'
  BY DEF SyncInv
<1> QED
  BY <1>7, <1>11, <1>12, <1>13 DEF SyncInv

\* A commit of a change that ftpd.passwd shows, or a manual sync: it begins
\* a sync, and no other sync is clean any more.
LEMMA Enter ==
    ASSUME SyncInv, NEW r \in Requests, ~InSync(r), pc'[r] \in {"refresh", "query"},
           UNCHANGED <<tmp, passwd>>,
           \A q \in Requests \ {r} : pc'[q] = pc[q] /\ ~solo'[q],
           pc'[r] = "refresh" => Exists(job[r].id)', pc'[r] = "query" => job'[r].op \notin Creates,
           solo'[r] => \A q \in Requests \ {r} : ~InSync(q),
           ~tainted' => \A q \in Requests \ {r} : ~InSync(q)
    PROVE  SyncInv'
<1>1. InSync(r)'
  BY DEF InSync
<1>2. \A q \in Requests \ {r} : InSync(q)' <=> InSync(q)
  BY DEF InSync
<1>3. \A q \in Requests : Clean(q)' => q = r
  BY <1>2 DEF Clean
<1>4. ~HoldsFile(r)'
  BY DEF HoldsFile
<1>5. SyncedWhenQuiet'
  BY <1>1 DEF SyncedWhenQuiet, NoSync
<1>6. Clean(r)' => \A q \in Requests \ {r} : ~InSync(q)'
  BY <1>2 DEF Clean
<1>7. Fresh(r)'
  BY DEF Fresh, Kept
<1> QED
  BY <1>2, <1>3, <1>4, <1>5, <1>6, <1>7 DEF SyncInv

\* At first the file shows the table.
LEMMA SyncInit == Init => SyncInv
<1> SUFFICES ASSUME Init PROVE SyncInv
  OBVIOUS
<1>1. tmp # passwd
  BY ConstantsAssumption DEF Init
<1>2. Synced
  BY DEF Init, Synced
<1>3. \A r \in Requests : pc[r] = "idle" /\ ~InSync(r) /\ ~HoldsFile(r)
  BY DEF Init, InSync, HoldsFile
<1> QED
  BY <1>1, <1>2, <1>3 DEF SyncInv, Clean, SyncedWhenQuiet

\* A clean sync meets nobody, writes what the table holds at its rename, and
\* a sync that is not clean leaves a taint behind.
LEMMA SyncKept == TypeOK /\ SessionInv /\ SyncInv /\ [Next]_vars => SyncInv'
<1> SUFFICES ASSUME TypeOK, SessionInv, SyncInv, [Next]_vars PROVE SyncInv'
  OBVIOUS
<1>same. users' = users => LinesKept /\ EnabledEntries' = EnabledEntries /\ \A u \in Ids : Exists(u)' <=> Exists(u)
  BY TableKept DEF LinesKept
<1>1. CASE UNCHANGED vars
  BY <1>1, <1>same, Elsewhere DEF vars, InSync
<1>2. ASSUME NEW r \in Requests, Start(r) PROVE SyncInv'
  <2>1. PICK op \in Operations, u \in Ids, n \in Names, e \in Emails :
          /\ job' = [job EXCEPT ![r] = [op |-> op, id |-> u, name |-> n, email |-> e, serial |-> started']]
          /\ pc' = [pc EXCEPT ![r] = First(op)]
          /\ solo' = [q \in Requests |-> IF q = r THEN NoSync ELSE solo[q] /\ op # "sync"]
          /\ tainted' = (tainted \/ (op = "sync" /\ ~NoSync))
    BY <1>2 DEF Start
  <2>2. /\ pc[r] = "idle" /\ ~InSync(r)
        /\ UNCHANGED <<tmp, passwd, data, users, snap, fd, seen>>
        /\ \A q \in Requests \ {r} : job'[q] = job[q] /\ pc'[q] = pc[q]
        /\ pc'[r] = First(op)
    BY <1>2, <2>1 DEF Start, InSync, TypeOK
  <2>solo. (solo'[r] <=> NoSync) /\ \A q \in Requests \ {r} : solo'[q] <=> solo[q] /\ op # "sync"
    BY <2>1
  <2>3. CASE op = "sync"
    <3>1. pc'[r] = "query" /\ job'[r].op \notin Creates
      BY <1>2, <2>1, <2>2, <2>3 DEF First, Creates, Start, TypeOK
    <3> QED
      BY <2>1, <2>2, <2>solo, <2>3, <3>1, Enter DEF NoSync
  <2>4. CASE op # "sync"
    <3>1. pc'[r] \in {"check_name", "rows", "load"}
      BY <2>2, <2>4 DEF First
    <3>2. tainted' = tainted
      BY <2>1, <2>4 DEF TypeOK
    <3>3. \A q \in Requests : /\ InSync(q)' <=> InSync(q)
                              /\ InSync(q) => q # r /\ pc'[q] = pc[q] /\ job'[q] = job[q]
      BY <2>2, <3>1 DEF InSync
    <3>4. \A q \in Requests : Clean(q)' => Clean(q) /\ q # r
      BY <2>2, <2>solo, <3>2, <3>3 DEF Clean, NoSync
    <3>5. \A q \in Requests : solo'[q] /\ pc'[q] # "idle" => \A p \in Requests \ {q} : ~InSync(p)'
      <4>1. solo'[r] => \A p \in Requests \ {r} : ~InSync(p)'
        BY <2>solo, <3>3 DEF NoSync
      <4>2. \A q \in Requests \ {r} : solo'[q] /\ pc'[q] # "idle" => solo[q] /\ pc[q] # "idle"
        BY <2>2, <2>solo
      <4> QED
        BY <3>3, <4>1, <4>2 DEF SyncInv
    <3>6. SyncedWhenQuiet'
      BY <1>same, <2>2, <3>2, <3>3 DEF SyncInv, SyncedWhenQuiet, NoSync, Synced
    <3>7. EnabledEntries' = EnabledEntries
      BY <1>same, <2>2
    <3>8. \A q \in Requests \ {r} : pc[q] = "refresh" => job[q].id \in Ids
      BY DEF TypeOK, Job
    <3>9. ASSUME NEW q \in Requests, Clean(q)'
           PROVE  /\ \A p \in Requests \ {q} : ~InSync(p)'
                  /\ pc'[q] = "refresh" => Exists(job[q].id)'
                  /\ Fresh(q)'
                  /\ pc'[q] \in {"open", "write", "rename"} => snap'[q] = EnabledEntries'
                  /\ HoldsFile(q)' => OwnFile(q)'
      <4>1. Clean(q) /\ q # r
        BY <3>4, <3>9
      <4>2. pc'[q] = pc[q] /\ job'[q] = job[q] /\ snap'[q] = snap[q]
        BY <2>2, <4>1
      <4>3. \A p \in Requests \ {q} : ~InSync(p)'
        BY <3>3, <4>1 DEF SyncInv
      <4>4. pc'[q] = "refresh" => Exists(job[q].id)'
        BY <1>same, <2>2, <3>8, <4>1, <4>2 DEF SyncInv, Exists
      <4>5. pc'[q] \in {"open", "write", "rename"} => snap'[q] = EnabledEntries'
        BY <3>7, <4>1, <4>2 DEF SyncInv
      <4>6. HoldsFile(q)' => OwnFile(q)'
        <5>1. HoldsFile(q)' => HoldsFile(q)
          BY <4>2 DEF HoldsFile
        <5>2. HoldsFile(q) => OwnFile(q)
          BY <4>1 DEF SyncInv
        <5> QED
          BY <2>2, <4>2, <5>1, <5>2 DEF OwnFile, Emptied
      <4>7. Fresh(q)'
        BY <1>same, <2>2, <4>1, <4>2, FreshKept DEF SyncInv, Clean
      <4> QED
        BY <4>3, <4>4, <4>5, <4>6, <4>7
    <3>10. tmp' # passwd'
      BY <2>2 DEF SyncInv
    <3> QED
      BY <3>5, <3>6, <3>9, <3>10 DEF SyncInv
  <2> QED
    BY <2>3, <2>4
<1>3. ASSUME NEW r \in Requests, CheckName(r) \/ CheckEmail(r) \/ InsertRefused(r) PROVE SyncInv'
  BY <1>3, <1>same, Elsewhere DEF CheckName, CheckEmail, Refuse, InsertRefused, Finish, Proceed, InSync, TypeOK
<1>4. ASSUME NEW r \in Requests, NEW u \in Ids, Insert(r, u) PROVE SyncInv'
  <2>1. /\ pc[r] = "insert" /\ ~InSync(r)
        /\ UNCHANGED <<tmp, passwd>>
        /\ pc'[r] = "refresh" /\ \A q \in Requests \ {r} : pc'[q] = pc[q]
        /\ job' = [job EXCEPT ![r].id = u] /\ job[r] \in Job
        /\ users' = [users EXCEPT ![u] = [name |-> job[r].name, email |-> job[r].email,
                                          hash |-> job[r].serial, enabled |-> TRUE]]
    BY <1>4 DEF Insert, InSync, TypeOK
  <2>2. job'[r].id = u
    BY <2>1 DEF Job, TypeOK
  <2>3. [name |-> job[r].name, email |-> job[r].email, hash |-> job[r].serial, enabled |-> TRUE] \in User
    BY <2>1 DEF Job, User
  <2>4. Exists(job[r].id)'
    BY <2>1, <2>2, <2>3, ConstantsAssumption DEF Exists, TypeOK
  <2>5. Meet(r)
    BY <1>4 DEF Insert
  <2>6. /\ \A q \in Requests : solo'[q] <=> solo[q] /\ q = r
        /\ tainted' <=> tainted \/ \E q \in Requests \ {r} : InSync(q)
    BY <2>5 DEF Meet
  <2>7. solo[r] => \A q \in Requests \ {r} : ~InSync(q)
    BY <2>1 DEF SyncInv
  <2> QED
    BY <2>1, <2>4, <2>6, <2>7, Enter
<1>5. ASSUME NEW r \in Requests, Toggle(r) \/ ChangePassword(r) \/ Delete(r) PROVE SyncInv'
  <2>1. /\ pc[r] = "commit" /\ ~InSync(r)
        /\ UNCHANGED <<tmp, passwd>>
        /\ pc'[r] = "query" /\ \A q \in Requests \ {r} : pc'[q] = pc[q]
        /\ job'[r].op \notin Creates
    BY <1>5 DEF Toggle, ChangePassword, Delete, Proceed, InSync, TypeOK, Creates
  <2>2. Meet(r)
    BY <1>5 DEF Toggle, ChangePassword, Delete
  <2>3. /\ \A q \in Requests : solo'[q] <=> solo[q] /\ q = r
        /\ tainted' <=> tainted \/ \E q \in Requests \ {r} : InSync(q)
    BY <2>2 DEF Meet
  <2>4. solo[r] => \A q \in Requests \ {r} : ~InSync(q)
    BY <2>1 DEF SyncInv
  <2> QED
    BY <2>1, <2>3, <2>4, Enter
<1>6. ASSUME NEW r \in Requests, Load(r) \/ CheckOtherEmail(r) \/ UpdateLost(r) PROVE SyncInv'
  BY <1>6, <1>same, Elsewhere DEF Load, CheckOtherEmail, UpdateLost, Finish, Proceed, InSync, TypeOK
<1>7. ASSUME NEW r \in Requests, ChangeEmail(r) PROVE SyncInv'
  <2>1. LinesKept
    BY <1>7, EntriesKept
  <2> QED
    BY <1>7, <2>1, Elsewhere DEF ChangeEmail, Finish, Proceed, InSync, TypeOK
<1>8. ASSUME NEW r \in Requests, SameEmail(r) \/ ChangeNotes(r) PROVE SyncInv'
  BY <1>8, <1>same, Elsewhere DEF SameEmail, ChangeNotes, Finish, Proceed, InSync, TypeOK
<1>9. ASSUME NEW r \in Requests, Refresh(r) PROVE SyncInv'
  <2>1. /\ pc[r] = "refresh" /\ InSync(r) /\ pc'[r] \in {"query", "idle"}
        /\ pc'[r] = "idle" => ~Exists(job[r].id)
        /\ UNCHANGED <<tmp, passwd, data, users, solo, tainted>>
        /\ \A q \in Requests \ {r} : /\ pc'[q] = pc[q] /\ job'[q] = job[q]
                                     /\ snap'[q] = snap[q] /\ fd'[q] = fd[q] /\ seen'[q] = seen[q]
        /\ pc'[r] = "query" => seen'[r] = users[job[r].id] /\ job'[r] = job[r]
    BY <1>9 DEF Refresh, Finish, InSync, TypeOK
  <2>2. \A q \in Requests : InSync(q)' => InSync(q)
    BY <2>1 DEF InSync
  <2>3. \A q \in Requests : Clean(q)' => Clean(q)
    BY <2>1, <2>2 DEF Clean
  <2>4. \A q \in Requests : HoldsFile(q)' => q # r /\ HoldsFile(q) /\ (OwnFile(q) => OwnFile(q)')
    BY <2>1 DEF HoldsFile, OwnFile, Emptied
  <2>5. \A q \in Requests \ {r} : pc[q] = "refresh" => job[q].id \in Ids
    BY DEF TypeOK, Job
  <2>6. SyncedWhenQuiet'
    <3>1. CASE pc'[r] = "query"
      BY <2>1, <3>1 DEF SyncedWhenQuiet, NoSync, InSync
    <3>2. CASE pc'[r] = "idle"
      <4>1. ~Clean(r)
        BY <2>1, <3>2 DEF SyncInv
      <4> QED
        BY <2>1, <4>1 DEF Clean, SyncedWhenQuiet
    <3> QED
      BY <2>1, <3>1, <3>2
  <2>fresh. ASSUME NEW q \in Requests \ {r}, Clean(q)' PROVE Fresh(q)'
    BY <1>same, <2>1, <2>3, <2>fresh, FreshKept DEF SyncInv, Clean
  <2>7. Fresh(r)'
    BY <2>1 DEF Fresh, Kept, Exists
  <2> QED
    BY <1>same, <2>1, <2>2, <2>3, <2>4, <2>5, <2>6, <2>7, <2>fresh DEF SyncInv
<1>10. ASSUME NEW r \in Requests, Query(r) PROVE SyncInv'
  <2>1. /\ pc[r] = "query" /\ InSync(r) /\ pc'[r] = "open" /\ snap'[r] = QueryEntries(r)
        /\ UNCHANGED <<tmp, passwd, data, users, solo, tainted, job, fd, seen>>
        /\ \A q \in Requests \ {r} : pc'[q] = pc[q] /\ snap'[q] = snap[q]
    BY <1>10 DEF Query, InSync, TypeOK
  <2>2. \A q \in Requests : InSync(q)' <=> InSync(q)
    BY <2>1 DEF InSync
  <2>3. \A q \in Requests : Clean(q)' <=> Clean(q)
    BY <2>1, <2>2 DEF Clean
  <2>4. \A q \in Requests : HoldsFile(q)' => q # r /\ HoldsFile(q) /\ (OwnFile(q) => OwnFile(q)')
    BY <2>1 DEF HoldsFile, OwnFile, Emptied
  <2>5. \A q \in Requests \ {r} : pc[q] = "refresh" => job[q].id \in Ids
    BY DEF TypeOK, Job
  <2>6. SyncedWhenQuiet'
    BY <2>1, <2>2 DEF SyncedWhenQuiet, NoSync
  <2>fresh. ASSUME NEW q \in Requests \ {r}, Clean(q)' PROVE Fresh(q)'
    BY <1>same, <2>1, <2>3, <2>fresh, FreshKept DEF SyncInv, Clean
  <2>7. Fresh(r)'
    BY <2>1 DEF Fresh
  <2>8. Clean(r) => QueryEntries(r) = EnabledEntries
    BY <2>1, QueryFresh DEF SyncInv
  <2> QED
    BY <1>same, <2>1, <2>2, <2>3, <2>4, <2>5, <2>6, <2>7, <2>8, <2>fresh DEF SyncInv
<1>11. ASSUME NEW r \in Requests, NEW i \in Inodes, Open(r, i) PROVE SyncInv'
  <2>1. /\ pc[r] = "open" /\ InSync(r) /\ pc'[r] = "write" /\ i # passwd
        /\ tmp' = i /\ fd'[r] = i /\ data'[i] = Emptied(r)
        /\ UNCHANGED <<passwd, users, solo, tainted, job, snap>>
        /\ \A q \in Requests \ {r} : pc'[q] = pc[q] /\ fd'[q] = fd[q]
    BY <1>11 DEF Open, InSync, TypeOK, SyncInv
  <2>2. \A q \in Requests : InSync(q)' <=> InSync(q)
    BY <2>1 DEF InSync
  <2>3. \A q \in Requests : Clean(q)' <=> Clean(q)
    BY <2>1, <2>2 DEF Clean
  <2>4. \A q \in Requests \ {r} : ~Clean(q)
    BY <2>1 DEF SyncInv
  <2>5. OwnFile(r)'
    BY <2>1 DEF OwnFile, Emptied
  <2>6. SyncedWhenQuiet'
    BY <2>1, <2>2 DEF SyncedWhenQuiet, NoSync
  <2>7. \A q \in Requests : solo[q] /\ pc'[q] # "idle" => \A p \in Requests \ {q} : ~InSync(p)'
    BY <2>1, <2>2 DEF SyncInv
  <2>8. Fresh(r)'
    BY <2>1 DEF Fresh
  <2> QED
    BY <1>same, <2>1, <2>2, <2>3, <2>4, <2>5, <2>6, <2>7, <2>8 DEF SyncInv
<1>12. ASSUME NEW r \in Requests, Write(r) PROVE SyncInv'
  <2>1. /\ pc[r] = "write" /\ InSync(r) /\ HoldsFile(r) /\ pc'[r] = "rename" /\ fd[r] \in Inodes
        /\ UNCHANGED <<tmp, passwd, users, solo, tainted, job, snap, fd>>
        /\ \A q \in Requests \ {r} : pc'[q] = pc[q]
    BY <1>12 DEF Write, Proceed, InSync, HoldsFile, TypeOK
  <2>2. \A q \in Requests : InSync(q)' <=> InSync(q)
    BY <2>1 DEF InSync
  <2>3. \A q \in Requests : Clean(q)' <=> Clean(q)
    BY <2>1, <2>2 DEF Clean
  <2>4. \A q \in Requests \ {r} : ~Clean(q)
    BY <2>1 DEF SyncInv
  <2>5. Clean(r) => OwnFile(r)'
    <3>1. PICK d \in Overlay(data[fd[r]], snap[r]) : data' = [data EXCEPT ![fd[r]] = d]
      BY <1>12 DEF Write
    <3>2. Clean(r) => OwnFile(r)
      BY <2>1 DEF SyncInv
    <3>3. OwnFile(r) => data[fd[r]] = Emptied(r) /\ tmp = fd[r]
      BY <2>1 DEF OwnFile
    <3>4. OwnFile(r) => data'[fd[r]] = Whole(snap[r])
      BY <2>1, <3>1, <3>3, OverlayEmptied DEF TypeOK
    <3> QED
      BY <2>1, <3>2, <3>3, <3>4 DEF OwnFile
  <2>6. SyncedWhenQuiet'
    BY <2>1, <2>2 DEF SyncedWhenQuiet, NoSync
  <2>7. \A q \in Requests : solo[q] /\ pc'[q] # "idle" => \A p \in Requests \ {q} : ~InSync(p)'
    BY <2>1, <2>2 DEF SyncInv
  <2>8. Fresh(r)'
    BY <2>1 DEF Fresh
  <2> QED
    BY <1>same, <2>1, <2>2, <2>3, <2>4, <2>5, <2>6, <2>7, <2>8 DEF SyncInv
<1>13. ASSUME NEW r \in Requests, Rename(r) PROVE SyncInv'
  <2>1. /\ pc[r] = "rename" /\ InSync(r) /\ HoldsFile(r) /\ pc'[r] = "audit" /\ tmp \in Inodes
        /\ passwd' = tmp /\ tmp' = None
        /\ UNCHANGED <<data, users, solo, job, snap>>
        /\ tainted' <=> tainted /\ ~solo[r]
        /\ \A q \in Requests \ {r} : pc'[q] = pc[q] /\ fd'[q] = fd[q]
    BY <1>13 DEF Rename, InSync, HoldsFile, TypeOK
  <2>2. \A q \in Requests : InSync(q)' <=> InSync(q) /\ q # r
    BY <2>1 DEF InSync
  <2>3. Clean(r) => \A q \in Requests : ~InSync(q)'
    BY <2>2 DEF SyncInv
  <2>4. \A q \in Requests \ {r} : ~Clean(q)
    BY <2>1 DEF SyncInv
  <2>5. \A q \in Requests : ~Clean(q)'
    BY <2>1, <2>2, <2>3, <2>4 DEF Clean
  <2>6. SyncedWhenQuiet'
    <3>1. SUFFICES ASSUME ~tainted' PROVE Synced'
      BY DEF SyncedWhenQuiet
    <3>2. Clean(r)
      BY <2>1, <3>1 DEF Clean
    <3>3. data[tmp] = Whole(snap[r]) /\ snap[r] = EnabledEntries
      BY <2>1, <3>2 DEF SyncInv, OwnFile
    <3> QED
      BY <1>same, <2>1, <3>3 DEF Synced
  <2>7. \A q \in Requests : solo[q] /\ pc'[q] # "idle" => \A p \in Requests \ {q} : ~InSync(p)'
    BY <2>1, <2>2 DEF SyncInv
  <2>8. tmp' # passwd'
    BY <2>1, ConstantsAssumption
  <2> QED
    BY <2>1, <2>5, <2>6, <2>7, <2>8 DEF SyncInv
<1>14. ASSUME NEW r \in Requests, RenameFails(r) \/ IoFault(r) PROVE SyncInv'
  <2>1. /\ InSync(r) /\ pc'[r] \in {"audit", "idle"} /\ tainted'
        /\ UNCHANGED <<tmp, passwd, data, users, solo>>
        /\ \A q \in Requests \ {r} : /\ pc'[q] = pc[q] /\ job'[q] = job[q]
                                     /\ snap'[q] = snap[q] /\ fd'[q] = fd[q] /\ seen'[q] = seen[q]
    BY <1>14 DEF RenameFails, IoFault, SyncFails, Finish, InSync, TypeOK
  <2>2. \A q \in Requests : InSync(q)' <=> InSync(q) /\ q # r
    BY <2>1 DEF InSync
  <2>3. \A q \in Requests : Clean(q)' => Clean(q) /\ q # r
    BY <2>1, <2>2 DEF Clean
  <2>4. \A q \in Requests \ {r} : (HoldsFile(q)' => HoldsFile(q)) /\ (OwnFile(q) => OwnFile(q)')
    BY <2>1 DEF HoldsFile, OwnFile, Emptied
  <2>5. \A q \in Requests \ {r} : pc[q] = "refresh" => job[q].id \in Ids
    BY DEF TypeOK, Job
  <2>6. SyncedWhenQuiet'
    BY <2>1 DEF SyncedWhenQuiet
  <2>7. \A q \in Requests : solo[q] /\ pc'[q] # "idle" => \A p \in Requests \ {q} : ~InSync(p)'
    <3>1. pc[r] # "idle"
      BY <2>1 DEF InSync
    <3> QED
      BY <2>1, <2>2, <3>1 DEF SyncInv
  <2>fresh. ASSUME NEW q \in Requests \ {r}, Clean(q)' PROVE Fresh(q)'
    BY <1>same, <2>1, <2>3, <2>fresh, FreshKept DEF SyncInv, Clean
  <2> QED
    BY <1>same, <2>1, <2>2, <2>3, <2>4, <2>5, <2>6, <2>7, <2>fresh DEF SyncInv
<1>15. ASSUME NEW r \in Requests, AuditStep(r) PROVE SyncInv'
  BY <1>15, <1>same, Elsewhere DEF AuditStep, AuditEntry, AuditFails, Finish, InSync, TypeOK
<1>16. CASE Crash
  <2>1. /\ \A q \in Requests : pc'[q] = "idle"
        /\ UNCHANGED <<tmp, passwd, data, users, solo>>
        /\ tainted' <=> tainted \/ ~NoSync
    BY <1>16 DEF Crash, NoSync
  <2>2. \A q \in Requests : ~InSync(q)' /\ ~HoldsFile(q)' /\ ~Clean(q)'
    BY <2>1 DEF InSync, HoldsFile, Clean
  <2>3. SyncedWhenQuiet'
    BY <1>same, <2>1 DEF SyncInv, SyncedWhenQuiet, Synced
  <2> QED
    BY <2>1, <2>2, <2>3 DEF SyncInv
<1>17. ASSUME NEW r \in Requests, ImportRow(r) \/ ImportRefused(r) \/ ImportNothing(r) PROVE SyncInv'
  BY <1>17, <1>same, Elsewhere DEF ImportRow, ImportRefused, ImportNothing, Finish, Proceed, InSync, TypeOK
<1>18. ASSUME NEW r \in Requests, ImportCommit(r) PROVE SyncInv'
  <2>1. /\ pc[r] = "rows" /\ ~InSync(r)
        /\ UNCHANGED <<tmp, passwd>>
        /\ pc'[r] = "query" /\ \A q \in Requests \ {r} : pc'[q] = pc[q]
        /\ job'[r].op \notin Creates
    BY <1>18 DEF ImportCommit, Proceed, InSync, TypeOK, SessionInv, SessionOK
  <2>2. Meet(r)
    BY <1>18 DEF ImportCommit
  <2>3. /\ \A q \in Requests : solo'[q] <=> solo[q] /\ q = r
        /\ tainted' <=> tainted \/ \E q \in Requests \ {r} : InSync(q)
    BY <2>2 DEF Meet
  <2>4. solo[r] => \A q \in Requests \ {r} : ~InSync(q)
    BY <2>1 DEF SyncInv
  <2> QED
    BY <2>1, <2>3, <2>4, Enter
<1> QED
  BY <1>1, <1>2, <1>3, <1>4, <1>5, <1>6, <1>7, <1>8, <1>9, <1>10, <1>11, <1>12, <1>13, <1>14, <1>15, <1>16,
     <1>17, <1>18 DEF Next, CreateStep, ChangeStep, ImportStep, SyncStep

(***************************************************************************)
(* As long as no two syncs meet and none is cut short, ftpd.passwd lists   *)
(* exactly the enabled users whenever no sync is under way, and a sync     *)
(* that runs alone restores that after any failure.                        *)
(***************************************************************************)
THEOREM PasswdSynced == Spec => []SyncedWhenQuiet
<1>1. SyncInv => SyncedWhenQuiet
  BY DEF SyncInv
<1> QED
  BY <1>1, TypeInit, TypeStep, SessionInit, SessionKept, SyncInit, SyncKept, PTL DEF Spec

-----------------------------------------------------------------------------
(***************************************************************************)
(* The audit log and what was done.                                        *)
(***************************************************************************)
\* A step that commits nothing to ftpd.passwd and goes on, or ends a request.
LEMMA Onward ==
    ASSUME TypeOK, AuditInv, committed \subseteq committed', solo' = solo,
           \A u \in Ids : Exists(u) => Exists(u)' /\ users'[u].enabled = users[u].enabled,
           \A q \in Requests :
             /\ Changed(q)' => /\ Changed(q) /\ job'[q] = job[q]
                               /\ pc'[q] # "query" => pc[q] # "query" /\ known'[q] = known[q]
             /\ pc'[q] \in {"check_name", "check_email", "insert", "refresh"}
                  => job'[q] = job[q] /\ pc[q] \in {"check_name", "check_email", "insert", "refresh"}
             /\ pc'[q] = "rows" => job'[q] = job[q] /\ pc[q] = "rows"
    PROVE  AuditInv'
<1>1. \A q \in Requests : Changed(q) => job[q].id \in Ids
  BY DEF Changed, InSync, TypeOK, Job
<1>2. ASSUME NEW q \in Requests, Changed(q)', job'[q].op = "toggle", solo'[q]
      PROVE  /\ Exists(job[q].id)'
             /\ [serial |-> job'[q].serial, did |-> ToggleWord(users'[job'[q].id].enabled)] \in committed'
             /\ pc'[q] # "query" => (known'[q] <=> users'[job'[q].id].enabled)
  <2>1. /\ Changed(q) /\ job'[q] = job[q] /\ job[q].id \in Ids /\ job[q].op = "toggle" /\ solo[q]
        /\ pc'[q] # "query" => pc[q] # "query" /\ known'[q] = known[q]
    BY <1>1, <1>2
  <2>2. /\ Exists(job[q].id)
        /\ [serial |-> job[q].serial, did |-> ToggleWord(users[job[q].id].enabled)] \in committed
        /\ pc[q] # "query" => (known[q] <=> users[job[q].id].enabled)
    BY <2>1 DEF AuditInv
  <2>3. users'[job[q].id].enabled = users[job[q].id].enabled /\ users'[job[q].id] # NoUser
    BY <2>1, <2>2 DEF Exists
  <2>4. Exists(job[q].id)'
    BY <2>1, <2>3 DEF Exists
  <2> QED
    BY <2>1, <2>2, <2>3, <2>4
<1>3. \A q \in Requests : Changed(q)' /\ job'[q].op \notin {"toggle", "sync"}
        => [serial |-> job'[q].serial, did |-> job'[q].op] \in committed'
  BY DEF AuditInv
<1>4. \A q \in Requests : pc'[q] \in {"check_name", "check_email", "insert", "refresh"}
        => job'[q].op \in Creates
  BY DEF AuditInv
<1>5. \A q \in Requests : pc'[q] = "rows" => job'[q].op = "import"
  BY DEF AuditInv
<1> QED
  BY <1>2, <1>3, <1>4, <1>5 DEF AuditInv

\* A commit of request r that ftpd.passwd shows, or the start of a manual
\* sync: the others are not alone any more.
LEMMA Alone ==
    ASSUME AuditInv, NEW r \in Requests, committed \subseteq committed',
           \A q \in Requests \ {r} : pc'[q] = pc[q] /\ job'[q] = job[q] /\ ~solo'[q],
           pc'[r] = "refresh" => job'[r].op \in Creates,
           pc'[r] \in {"query", "refresh"},
           job'[r].op \notin {"toggle", "sync"} => [serial |-> job'[r].serial, did |-> job'[r].op] \in committed',
           job'[r].op = "toggle" =>
             /\ Exists(job[r].id)'
             /\ pc'[r] = "query"
             /\ [serial |-> job'[r].serial, did |-> ToggleWord(users'[job'[r].id].enabled)] \in committed'
    PROVE  AuditInv'
<1>1. \A q \in Requests \ {r} : Changed(q)' <=> Changed(q)
  BY DEF Changed, InSync
<1>2. ASSUME NEW q \in Requests \ {r}
      PROVE  /\ ~solo'[q]
             /\ Changed(q)' /\ job'[q].op \notin {"toggle", "sync"}
                  => [serial |-> job'[q].serial, did |-> job'[q].op] \in committed'
             /\ pc'[q] \in {"check_name", "check_email", "insert", "refresh"}
                  => job'[q].op \in Creates
             /\ pc'[q] = "rows" => job'[q].op = "import"
  BY <1>1, <1>2 DEF AuditInv
<1>3. \A q \in Requests : Changed(q)' /\ job'[q].op \notin {"toggle", "sync"}
        => [serial |-> job'[q].serial, did |-> job'[q].op] \in committed'
  BY <1>2
<1>4. \A q \in Requests : pc'[q] \in {"check_name", "check_email", "insert", "refresh"}
        => job'[q].op \in Creates
  BY <1>2
<1>5. \A q \in Requests : Changed(q)' /\ job'[q].op = "toggle" /\ solo'[q]
        => /\ Exists(job[q].id)'
           /\ [serial |-> job'[q].serial, did |-> ToggleWord(users'[job'[q].id].enabled)] \in committed'
           /\ pc'[q] # "query" => (known'[q] <=> users'[job'[q].id].enabled)
  BY <1>2 DEF Exists
<1>6. \A q \in Requests : pc'[q] = "rows" => job'[q].op = "import"
  BY <1>2
<1> QED
  BY <1>3, <1>4, <1>5, <1>6 DEF AuditInv

\* At first nobody is past a commit.
LEMMA AuditInit == Init => AuditInv /\ AuditTruthful
BY DEF Init, AuditInv, AuditTruthful, Changed, InSync

\* Whoever is past a commit is known to have done it.
LEMMA AuditKept == TypeOK /\ AuditInv /\ [Next]_vars => AuditInv'
<1> SUFFICES ASSUME TypeOK, AuditInv, [Next]_vars PROVE AuditInv'
  OBVIOUS
<1>same. users' = users => \A u \in Ids : Exists(u) => Exists(u)' /\ users'[u].enabled = users[u].enabled
  BY DEF Exists
<1>1. CASE UNCHANGED vars
  BY <1>1, <1>same, Onward DEF vars, Changed, InSync
<1>2. ASSUME NEW r \in Requests, Start(r) PROVE AuditInv'
  <2>1. PICK op \in Operations, u \in Ids, n \in Names, e \in Emails :
          /\ job' = [job EXCEPT ![r] = [op |-> op, id |-> u, name |-> n, email |-> e, serial |-> started']]
          /\ pc' = [pc EXCEPT ![r] = First(op)]
          /\ solo' = [q \in Requests |-> IF q = r THEN NoSync ELSE solo[q] /\ op # "sync"]
          /\ tainted' = (tainted \/ (op = "sync" /\ ~NoSync))
    BY <1>2 DEF Start
  <2>2. /\ job'[r].op = op /\ pc'[r] = First(op) /\ pc[r] = "idle"
        /\ UNCHANGED <<users, committed, known>>
        /\ \A q \in Requests \ {r} : job'[q] = job[q] /\ pc'[q] = pc[q]
    BY <1>2, <2>1 DEF Start, TypeOK
  <2>solo. \A q \in Requests \ {r} : solo'[q] <=> solo[q] /\ op # "sync"
    BY <2>1
  <2>3. CASE op = "sync"
    BY <2>2, <2>solo, <2>3, Alone DEF First, Creates
  <2>4. CASE op # "sync"
    <3>1. /\ pc'[r] \in {"check_name", "rows", "load"}
          /\ pc'[r] = "check_name" => op \in Creates
          /\ pc'[r] = "rows" => op = "import"
      BY <2>2, <2>4 DEF First
    <3>2. ASSUME NEW q \in Requests \ {r}
          PROVE  /\ job'[q] = job[q] /\ pc'[q] = pc[q] /\ known'[q] = known[q] /\ (solo'[q] => solo[q])
                 /\ Changed(q)' <=> Changed(q)
      BY <2>2, <2>solo DEF Changed, InSync
    <3>3. ~Changed(r)'
      BY <3>1 DEF Changed, InSync
    <3>4. \A q \in Requests : Changed(q)' /\ job'[q].op \notin {"toggle", "sync"}
            => [serial |-> job'[q].serial, did |-> job'[q].op] \in committed'
      BY <2>2, <3>2, <3>3 DEF AuditInv
    <3>5. \A q \in Requests : pc'[q] \in {"check_name", "check_email", "insert", "refresh"}
            => job'[q].op \in Creates
      BY <2>2, <3>1, <3>2 DEF AuditInv
    <3>6. ASSUME NEW q \in Requests, Changed(q)', job'[q].op = "toggle", solo'[q]
          PROVE  /\ Exists(job[q].id)'
                 /\ [serial |-> job'[q].serial, did |-> ToggleWord(users'[job'[q].id].enabled)] \in committed'
                 /\ pc'[q] # "query" => (known'[q] <=> users'[job'[q].id].enabled)
      <4>1. /\ q # r /\ Changed(q) /\ solo[q] /\ job[q].op = "toggle"
            /\ job'[q] = job[q] /\ pc'[q] = pc[q] /\ known'[q] = known[q]
        BY <3>2, <3>3, <3>6
      <4>2. /\ Exists(job[q].id)
            /\ [serial |-> job[q].serial, did |-> ToggleWord(users[job[q].id].enabled)] \in committed
            /\ pc[q] # "query" => (known[q] <=> users[job[q].id].enabled)
        BY <4>1 DEF AuditInv
      <4> QED
        BY <2>2, <4>1, <4>2 DEF Exists
    <3>7. \A q \in Requests : pc'[q] = "rows" => job'[q].op = "import"
      BY <2>2, <3>1, <3>2 DEF AuditInv
    <3> QED
      BY <3>4, <3>5, <3>6, <3>7 DEF AuditInv
  <2> QED
    BY <2>3, <2>4
<1>3. ASSUME NEW r \in Requests, CheckName(r) \/ CheckEmail(r) \/ InsertRefused(r) \/ Refresh(r) PROVE AuditInv'
  BY <1>3, <1>same, Onward
     DEF CheckName, CheckEmail, Refuse, InsertRefused, Refresh, Finish, Proceed, Changed, InSync, TypeOK
<1>4. ASSUME NEW r \in Requests, NEW u \in Ids, Insert(r, u) PROVE AuditInv'
  <2>1. /\ pc[r] = "insert" /\ job[r] \in Job
        /\ pc'[r] = "refresh" /\ \A q \in Requests \ {r} : pc'[q] = pc[q]
        /\ job' = [job EXCEPT ![r].id = u]
        /\ committed' = committed \cup {[serial |-> job[r].serial, did |-> job[r].op]}
    BY <1>4 DEF Insert, Committed, TypeOK
  <2>2. /\ job'[r].op = job[r].op /\ job'[r].serial = job[r].serial
        /\ \A q \in Requests \ {r} : job'[q] = job[q]
    BY <2>1 DEF Job, TypeOK
  <2>3. \A q \in Requests : solo'[q] <=> solo[q] /\ q = r
    BY <1>4 DEF Insert, Meet
  <2>4. job[r].op \in Creates
    BY <2>1 DEF AuditInv
  <2>5. committed \subseteq committed' /\ [serial |-> job'[r].serial, did |-> job'[r].op] \in committed'
    BY <2>1, <2>2
  <2>6. \A q \in Requests \ {r} : pc'[q] = pc[q] /\ job'[q] = job[q] /\ ~solo'[q]
    BY <2>1, <2>2, <2>3
  <2>7. job'[r].op \in Creates /\ pc'[r] = "refresh"
    BY <2>1, <2>2, <2>4
  <2> QED
    BY <2>5, <2>6, <2>7, Alone DEF Creates
<1>5. ASSUME NEW r \in Requests, Toggle(r) \/ ChangePassword(r) \/ Delete(r) PROVE AuditInv'
  <2>1. /\ pc[r] = "commit" /\ job[r] \in Job /\ seen[r] \in User /\ job' = job
        /\ pc'[r] = "query" /\ \A q \in Requests \ {r} : pc'[q] = pc[q]
    BY <1>5 DEF Toggle, ChangePassword, Delete, Proceed, TypeOK
  <2>2. \A q \in Requests : solo'[q] <=> solo[q] /\ q = r
    BY <1>5 DEF Toggle, ChangePassword, Delete, Meet
  <2>3. CASE Toggle(r)
    <3>1. job[r].id \in Ids /\ (~seen[r].enabled) \in BOOLEAN /\ job[r].op = "toggle"
      BY <2>1, <2>3 DEF Toggle, Job, User
    <3>2. users[job[r].id] \in User
      BY <2>3, <3>1 DEF Toggle, Exists, TypeOK
    <3>3. users' = [users EXCEPT ![job[r].id] = [users[job[r].id] EXCEPT !.enabled = ~seen[r].enabled]]
      BY <2>3, <3>1 DEF Toggle, TypeOK
    <3>4. [users[job[r].id] EXCEPT !.enabled = ~seen[r].enabled] \in User
      BY <3>1, <3>2 DEF User
    <3>5. [users[job[r].id] EXCEPT !.enabled = ~seen[r].enabled].enabled = (~seen[r].enabled)
      BY <3>1, <3>2 DEF User
    <3>6. users'[job[r].id] # NoUser /\ users'[job[r].id].enabled = (~seen[r].enabled)
      BY <3>1, <3>3, <3>4, <3>5, ConstantsAssumption DEF TypeOK
    <3>7. committed' = committed \cup {[serial |-> job[r].serial, did |-> ToggleWord(~seen[r].enabled)]}
      BY <2>3 DEF Toggle, Committed
    <3>8. Exists(job[r].id)'
      BY <2>1, <3>6 DEF Exists
    <3> QED
      BY <2>1, <2>2, <3>1, <3>6, <3>7, <3>8, Alone
  <2>4. CASE ChangePassword(r) \/ Delete(r)
    <3>1. job[r].op \in {"password", "delete"}
          /\ committed' = committed \cup {[serial |-> job[r].serial, did |-> job[r].op]}
      BY <2>4 DEF ChangePassword, Delete, Committed
    <3> QED
      BY <2>1, <2>2, <3>1, Alone
  <2> QED
    BY <1>5, <2>3, <2>4
<1>6. ASSUME NEW r \in Requests, Load(r) \/ CheckOtherEmail(r) \/ UpdateLost(r) PROVE AuditInv'
  BY <1>6, <1>same, Onward DEF Load, CheckOtherEmail, UpdateLost, Finish, Proceed, Changed, InSync, TypeOK
<1>7. ASSUME NEW r \in Requests, ChangeEmail(r) \/ SameEmail(r) \/ ChangeNotes(r) PROVE AuditInv'
  <2>1. \A u \in Ids : Exists(u) => Exists(u)' /\ users'[u].enabled = users[u].enabled
    <3>1. CASE ChangeEmail(r)
      BY <3>1, EntriesKept DEF LinesKept
    <3> QED
      BY <1>7, <1>same, <3>1 DEF SameEmail, ChangeNotes
  <2>2. committed \subseteq committed' /\ solo' = solo /\ pc[r] = "commit"
    BY <1>7 DEF ChangeEmail, SameEmail, ChangeNotes, Committed
  <2>3. CASE Finish(r)
    BY <2>1, <2>2, <2>3, Onward DEF Finish, Changed, InSync, TypeOK
  <2>4. CASE Proceed(r, "audit") /\ ~Finish(r)
    <3>1. job[r].op = "email" /\ committed' = committed \cup {[serial |-> job[r].serial, did |-> "email"]}
      BY <1>7, <2>4 DEF ChangeEmail, SameEmail, ChangeNotes, Committed
    <3>2. pc'[r] = "audit" /\ job' = job /\ known' = known /\ \A q \in Requests \ {r} : pc'[q] = pc[q]
      BY <2>4 DEF Proceed, TypeOK
    <3>3. \A q \in Requests \ {r} : Changed(q)' <=> Changed(q)
      BY <3>2 DEF Changed, InSync
    <3>4. \A q \in Requests : Changed(q)' /\ job'[q].op \notin {"toggle", "sync"}
            => [serial |-> job'[q].serial, did |-> job'[q].op] \in committed'
      BY <2>2, <3>1, <3>2, <3>3 DEF AuditInv
    <3>5. \A q \in Requests : pc'[q] \in {"check_name", "check_email", "insert", "refresh"}
            => job'[q].op \in Creates
      BY <3>2 DEF AuditInv
    <3>6. ASSUME NEW q \in Requests, Changed(q)', job'[q].op = "toggle", solo'[q]
          PROVE  /\ users'[job'[q].id] # NoUser
                 /\ [serial |-> job'[q].serial, did |-> ToggleWord(users'[job'[q].id].enabled)] \in committed'
                 /\ pc'[q] # "query" => (known'[q] <=> users'[job'[q].id].enabled)
      <4>1. q # r /\ Changed(q) /\ job'[q] = job[q] /\ pc'[q] = pc[q] /\ known'[q] = known[q] /\ solo[q]
        BY <2>2, <3>1, <3>2, <3>3, <3>6
      <4>2. job[q].id \in Ids
        BY <4>1 DEF Changed, InSync, TypeOK, Job
      <4>3. /\ Exists(job[q].id)
            /\ [serial |-> job[q].serial, did |-> ToggleWord(users[job[q].id].enabled)] \in committed
            /\ pc[q] # "query" => (known[q] <=> users[job[q].id].enabled)
        BY <3>6, <4>1 DEF AuditInv
      <4>4. users'[job[q].id] # NoUser /\ users'[job[q].id].enabled = users[job[q].id].enabled
        BY <2>1, <4>2, <4>3 DEF Exists
      <4> QED
        BY <2>2, <4>1, <4>3, <4>4
    <3>7. \A q \in Requests : Changed(q)' /\ job'[q].op = "toggle" /\ solo'[q] => Exists(job[q].id)'
      BY <3>6 DEF Exists
    <3>8. \A q \in Requests : pc'[q] = "rows" => job'[q].op = "import"
      BY <3>2 DEF AuditInv
    <3> QED
      BY <3>4, <3>5, <3>6, <3>7, <3>8 DEF AuditInv
  <2> QED
    BY <1>7, <2>3, <2>4 DEF ChangeEmail, SameEmail, ChangeNotes
<1>8. ASSUME NEW r \in Requests, Query(r) PROVE AuditInv'
  <2>1. /\ pc[r] = "query" /\ pc'[r] = "open"
        /\ UNCHANGED <<users, committed, solo, job>>
        /\ \A q \in Requests \ {r} : pc'[q] = pc[q] /\ known'[q] = known[q]
    BY <1>8 DEF Query, TypeOK
  <2>2. known'[r] <=> Exists(job[r].id) /\ users[job[r].id].enabled
    BY <1>8 DEF Query, TypeOK
  <2>3. \A q \in Requests : Changed(q)' <=> Changed(q)
    BY <2>1 DEF Changed, InSync
  <2>4. \A q \in Requests : Changed(q)' /\ job'[q].op \notin {"toggle", "sync"}
          => [serial |-> job'[q].serial, did |-> job'[q].op] \in committed'
    BY <2>1, <2>3 DEF AuditInv
  <2>5. \A q \in Requests : pc'[q] \in {"check_name", "check_email", "insert", "refresh"}
          => job'[q].op \in Creates
    BY <2>1 DEF AuditInv
  <2>6. ASSUME NEW q \in Requests, Changed(q)', job'[q].op = "toggle", solo'[q]
        PROVE  /\ users'[job'[q].id] # NoUser
               /\ [serial |-> job'[q].serial, did |-> ToggleWord(users'[job'[q].id].enabled)] \in committed'
               /\ pc'[q] # "query" => (known'[q] <=> users'[job'[q].id].enabled)
    BY <2>1, <2>2, <2>3, <2>6 DEF AuditInv, Exists
  <2>7. \A q \in Requests : Changed(q)' /\ job'[q].op = "toggle" /\ solo'[q] => Exists(job[q].id)'
    BY <2>6 DEF Exists
  <2>8. \A q \in Requests : pc'[q] = "rows" => job'[q].op = "import"
    BY <2>1 DEF AuditInv
  <2> QED
    BY <2>4, <2>5, <2>6, <2>7, <2>8 DEF AuditInv
<1>9. ASSUME NEW r \in Requests, (\E i \in Inodes : Open(r, i)) \/ Write(r) \/ Rename(r) PROVE AuditInv'
  BY <1>9, <1>same, Onward DEF Open, Write, Rename, Proceed, Changed, InSync, TypeOK
<1>10. ASSUME NEW r \in Requests, RenameFails(r) \/ IoFault(r) PROVE AuditInv'
  BY <1>10, <1>same, Onward DEF RenameFails, IoFault, SyncFails, Finish, Changed, InSync, TypeOK
<1>11. ASSUME NEW r \in Requests, AuditStep(r) PROVE AuditInv'
  BY <1>11, <1>same, Onward DEF AuditStep, AuditEntry, AuditFails, Finish, Changed, InSync, TypeOK
<1>12. CASE Crash
  BY <1>12, <1>same, Onward DEF Crash, Changed, InSync, TypeOK
<1>13. ASSUME NEW r \in Requests, ImportRow(r) \/ ImportRefused(r) PROVE AuditInv'
  BY <1>13, <1>same, Onward DEF ImportRow, ImportRefused, Finish, Changed, InSync, TypeOK
<1>14. ASSUME NEW r \in Requests, ImportNothing(r) PROVE AuditInv'
  <2>1. /\ pc[r] = "rows" /\ pc'[r] = "audit" /\ job[r].op = "import"
        /\ UNCHANGED <<users, solo, job, known>>
        /\ \A q \in Requests \ {r} : pc'[q] = pc[q]
        /\ committed' = committed \cup {[serial |-> job[r].serial, did |-> job[r].op]}
    BY <1>14 DEF ImportNothing, Proceed, Committed, TypeOK, AuditInv
  <2>2. \A q \in Requests \ {r} : Changed(q)' <=> Changed(q)
    BY <2>1 DEF Changed, InSync
  <2> QED
    BY <2>1, <2>2 DEF AuditInv, Exists
<1>15. ASSUME NEW r \in Requests, ImportCommit(r) PROVE AuditInv'
  <2>1. /\ pc[r] = "rows" /\ pc'[r] = "query" /\ job[r].op = "import" /\ job' = job
        /\ \A q \in Requests \ {r} : pc'[q] = pc[q]
        /\ committed' = committed \cup {[serial |-> job[r].serial, did |-> job[r].op]}
    BY <1>15 DEF ImportCommit, Proceed, Committed, TypeOK, AuditInv
  <2>2. \A q \in Requests : solo'[q] <=> solo[q] /\ q = r
    BY <1>15 DEF ImportCommit, Meet
  <2> QED
    BY <2>1, <2>2, Alone
<1> QED
  BY <1>1, <1>2, <1>3, <1>4, <1>5, <1>6, <1>7, <1>8, <1>9, <1>10, <1>11, <1>12, <1>13, <1>14, <1>15
     DEF Next, CreateStep, ChangeStep, ImportStep, SyncStep

\* A new entry says what the request did, if it was alone.
LEMMA AuditTrue == TypeOK /\ AuditInv /\ AuditTruthful /\ [Next]_vars => AuditTruthful'
<1> SUFFICES ASSUME TypeOK, AuditInv, AuditTruthful, [Next]_vars
             PROVE  \A e \in audit' : e.alone => Done(e)'
  BY DEF AuditTruthful
<1>more. ASSUME committed \subseteq committed', NEW e \in audit, e.alone PROVE Done(e)'
  BY <1>more DEF AuditTruthful, Done
<1>1. CASE audit' = audit /\ committed \subseteq committed'
  BY <1>1, <1>more
<1>2. ASSUME NEW r \in Requests, Log(r, "register_fail"), committed' = committed
      PROVE  \A e \in audit' : e.alone => Done(e)'
  BY <1>2, <1>more DEF Log, Done
<1>3. ASSUME NEW r \in Requests, AuditEntry(r) PROVE \A e \in audit' : e.alone => Done(e)'
  <2> DEFINE word == IF job[r].op = "toggle" THEN ToggleWord(known[r] \/ users[job[r].id].enabled)
                     ELSE job[r].op
  <2>1. pc[r] = "audit" /\ Changed(r) /\ committed' = committed
    BY <1>3 DEF AuditEntry, Changed
  <2>2. audit' = audit \cup {[serial |-> job[r].serial, said |-> word, alone |-> solo[r]]}
    BY <1>3 DEF AuditEntry, Log
  <2>3. ASSUME solo[r] PROVE word \in {"sync"} \/ [serial |-> job[r].serial, did |-> word] \in committed
    <3>1. CASE job[r].op = "toggle"
      <4>1. known[r] <=> users[job[r].id].enabled
        BY <2>1, <2>3, <3>1 DEF AuditInv
      <4>2. [serial |-> job[r].serial, did |-> ToggleWord(users[job[r].id].enabled)] \in committed
        BY <2>1, <2>3, <3>1 DEF AuditInv
      <4> QED
        BY <3>1, <4>1, <4>2 DEF ToggleWord
    <3>2. CASE job[r].op \notin {"toggle", "sync"}
      BY <2>1, <3>2 DEF AuditInv
    <3> QED
      BY <3>1, <3>2
  <2> HIDE DEF word
  <2> QED
    BY <1>more, <2>1, <2>2, <2>3 DEF Done
<1>4. ASSUME NEW r \in Requests, CheckName(r) \/ CheckEmail(r)
      PROVE  \A e \in audit' : e.alone => Done(e)'
  BY <1>1, <1>2, <1>4 DEF CheckName, CheckEmail, Refuse
<1>5. ASSUME NEW r \in Requests, (\E u \in Ids : Insert(r, u)) \/ Toggle(r) \/ ChangePassword(r) \/ Delete(r)
                                 \/ ChangeEmail(r) \/ SameEmail(r) \/ ChangeNotes(r)
      PROVE  \A e \in audit' : e.alone => Done(e)'
  BY <1>1, <1>5 DEF Insert, Toggle, ChangePassword, Delete, ChangeEmail, SameEmail, ChangeNotes, Committed
<1>6. ASSUME NEW r \in Requests, Start(r) \/ InsertRefused(r) \/ Refresh(r) \/ Load(r) \/ CheckOtherEmail(r)
                                 \/ UpdateLost(r) \/ SyncStep(r) \/ AuditFails(r)
      PROVE  \A e \in audit' : e.alone => Done(e)'
  BY <1>1, <1>6 DEF Start, InsertRefused, Refresh, Load, CheckOtherEmail, UpdateLost, SyncStep, Query, Open,
                    Write, Rename, RenameFails, IoFault, AuditFails
<1>7. CASE Crash \/ UNCHANGED vars
  BY <1>1, <1>7 DEF Crash, vars
<1>8. ASSUME NEW r \in Requests, ImportStep(r) PROVE \A e \in audit' : e.alone => Done(e)'
  BY <1>1, <1>8 DEF ImportStep, ImportRow, ImportRefused, ImportNothing, ImportCommit, Committed
<1> QED
  BY <1>3, <1>4, <1>5, <1>6, <1>7, <1>8 DEF Next, CreateStep, ChangeStep, AuditStep

(***************************************************************************)
(* What the audit log says of a change was done, by that request, if no    *)
(* other change was committed while it ran.                                *)
(***************************************************************************)
THEOREM AuditIsTruthful == Spec => []AuditTruthful
BY TypeInit, TypeStep, AuditInit, AuditKept, AuditTrue, PTL DEF Spec

-----------------------------------------------------------------------------
(***************************************************************************)
(* ftpd.passwd as the abstract specification PasswdFile describes it.      *)
(***************************************************************************)
\* Between its query and the end of its sync a request has something to offer.
Carries(r) == pc[r] \in {"open", "write", "rename"}

\* What the requests offer stays the same.
OffersStay == \A r \in Requests : /\ Carries(r)' <=> Carries(r)
                                  /\ Carries(r) => snap'[r] = snap[r]

LEMMA OffersSame == OffersStay => Offers' = Offers
BY DEF OffersStay, Carries, Offers

\* What their sessions hold for the query stays the same, or is nothing.
MemoryStay ==
    \A r \in Requests :
      \/ pc[r] # "query" /\ pc'[r] # "query"
      \/ pc'[r] = pc[r] /\ job'[r] = job[r] /\ seen'[r] = seen[r]
      \/ pc[r] # "query" /\ job'[r].op \notin Creates

LEMMA MemorySame == MemoryStay => Memory' = Memory
<1> SUFFICES ASSUME MemoryStay, NEW r \in Requests PROVE Recalled(r)' = Recalled(r)
  BY DEF Memory
<1>1. CASE pc[r] # "query" /\ pc'[r] # "query"
  BY <1>1 DEF Recalled
<1>2. CASE pc'[r] = pc[r] /\ job'[r] = job[r] /\ seen'[r] = seen[r]
  BY <1>2 DEF Recalled, Kept, Line
<1>3. CASE pc[r] # "query" /\ job'[r].op \notin Creates
  BY <1>3 DEF Recalled, Kept
<1> QED
  BY <1>1, <1>2, <1>3 DEF MemoryStay

\* A request that ends its sync, and only it, has nothing to offer any more.
LEMMA OffersLess ==
    ASSUME NEW rs \in SUBSET Requests,
           \A q \in rs : ~Carries(q)' /\ pc'[q] # "query",
           \A q \in Requests \ rs : pc'[q] = pc[q] /\ snap'[q] = snap[q] /\ job'[q] = job[q] /\ seen'[q] = seen[q]
    PROVE  Published!Drop(rs)
<1>1. \A q \in Requests : Offers[q] = IF Carries(q) THEN {snap[q]} ELSE {}
  BY DEF Offers, Carries
<1>2. Offers' = [q \in Requests |-> IF Carries(q)' THEN {snap'[q]} ELSE {}]
  BY DEF Offers, Carries
<1>3. \A q \in Requests : (IF Carries(q)' THEN {snap'[q]} ELSE {}) = IF q \in rs THEN {} ELSE Offers[q]
  BY <1>1 DEF Carries
<1>4. Offers' = [q \in Requests |-> IF q \in rs THEN {} ELSE Offers[q]]
  BY <1>2, <1>3
<1>5. \A q \in rs : Recalled(q)' = {}
  BY DEF Recalled
<1>6. \A q \in Requests \ rs : Recalled(q)' = Recalled(q)
  BY DEF Recalled, Kept, Line
<1>7. Memory' = [q \in Requests |-> IF q \in rs THEN {} ELSE Memory[q]]
  BY <1>5, <1>6 DEF Memory
<1> QED
  BY <1>4, <1>7 DEF Published!Drop

\* Outside of the regeneration the handlers change nothing but the table.
LEMMA TableAside ==
    ASSUME TypeOK, SessionInv, [Next]_vars
    PROVE  \/ UNCHANGED <<passwd, data, contended>> /\ OffersStay /\ MemoryStay
           \/ \E r \in Requests : SyncStep(r) \/ Refresh(r)
           \/ Crash
<1>1. CASE UNCHANGED vars
  BY <1>1 DEF vars, OffersStay, MemoryStay, Carries
<1>2. ASSUME NEW r \in Requests, Start(r) PROVE UNCHANGED <<passwd, data, contended>> /\ OffersStay /\ MemoryStay
  <2>1. PICK op \in Operations, u \in Ids, n \in Names, e \in Emails :
          /\ job' = [job EXCEPT ![r] = [op |-> op, id |-> u, name |-> n, email |-> e, serial |-> started']]
          /\ pc' = [pc EXCEPT ![r] = First(op)]
          /\ solo' = [q \in Requests |-> IF q = r THEN NoSync ELSE solo[q] /\ op # "sync"]
          /\ tainted' = (tainted \/ (op = "sync" /\ ~NoSync))
    BY <1>2 DEF Start
  <2>2. First(op) \notin {"open", "write", "rename"}
    BY DEF First
  <2>3. First(op) = "query" => op \notin Creates
    BY DEF First, Creates
  <2>4. /\ job'[r].op = op /\ pc'[r] = First(op) /\ pc[r] = "idle" /\ snap' = snap /\ seen' = seen
        /\ \A q \in Requests \ {r} : job'[q] = job[q] /\ pc'[q] = pc[q]
    BY <1>2, <2>1 DEF Start, TypeOK
  <2>5. OffersStay
    BY <2>2, <2>4 DEF OffersStay, Carries
  <2>6. MemoryStay
    BY <2>3, <2>4 DEF MemoryStay
  <2> QED
    BY <1>2, <2>5, <2>6 DEF Start
<1>3. ASSUME NEW r \in Requests, CreateStep(r), ~Refresh(r) PROVE UNCHANGED <<passwd, data, contended>> /\ OffersStay /\ MemoryStay
  BY <1>3 DEF CreateStep, CheckName, CheckEmail, Refuse, InsertRefused, Insert, Finish, Proceed,
              TypeOK, OffersStay, MemoryStay, Carries
<1>4. ASSUME NEW r \in Requests, Load(r) \/ CheckOtherEmail(r) \/ UpdateLost(r)
      PROVE  UNCHANGED <<passwd, data, contended>> /\ OffersStay /\ MemoryStay
  BY <1>4 DEF Load, CheckOtherEmail, UpdateLost, Finish, Proceed, TypeOK, OffersStay, MemoryStay, Carries
<1>5. ASSUME NEW r \in Requests, Toggle(r) \/ ChangePassword(r) \/ Delete(r)
      PROVE  UNCHANGED <<passwd, data, contended>> /\ OffersStay /\ MemoryStay
  BY <1>5 DEF Toggle, ChangePassword, Delete, Proceed, TypeOK, Creates, OffersStay, MemoryStay, Carries
<1>6. ASSUME NEW r \in Requests, ChangeEmail(r) \/ SameEmail(r) \/ ChangeNotes(r)
      PROVE  UNCHANGED <<passwd, data, contended>> /\ OffersStay /\ MemoryStay
  BY <1>6 DEF ChangeEmail, SameEmail, ChangeNotes, Finish, Proceed, TypeOK, OffersStay, MemoryStay, Carries
<1>7. ASSUME NEW r \in Requests, AuditStep(r) PROVE UNCHANGED <<passwd, data, contended>> /\ OffersStay /\ MemoryStay
  BY <1>7 DEF AuditStep, AuditEntry, AuditFails, Finish, TypeOK, OffersStay, MemoryStay, Carries
<1>8. ASSUME NEW r \in Requests, ImportStep(r) PROVE UNCHANGED <<passwd, data, contended>> /\ OffersStay /\ MemoryStay
  BY <1>8 DEF ImportStep, ImportRow, ImportRefused, ImportNothing, ImportCommit, Finish, Proceed,
              TypeOK, SessionInv, SessionOK, OffersStay, MemoryStay, Carries
<1> QED
  BY <1>1, <1>2, <1>3, <1>4, <1>5, <1>6, <1>7, <1>8 DEF Next, ChangeStep

\* At first the file holds the table, and nobody has anything to offer.
LEMMA PublishedInit == Init => Published!Init
<1> SUFFICES ASSUME Init PROVE Published!Init
  OBVIOUS
<1>1. EnabledEntries \in SUBSET AllEntries /\ AllEntries \in SUBSET Entry
  BY TypeInit, EntriesTyped DEF TypeOK
<1>2. data[passwd] = Published!Whole(EnabledEntries)
  BY DEF Init, Whole, Published!Whole
<1>3. Offers = Published!Nothing
  BY DEF Init, Offers, Published!Nothing
<1>4. Memory = Published!Nothing
  BY DEF Init, Memory, Recalled, Published!Nothing
<1> QED
  BY <1>1, <1>2, <1>3, <1>4 DEF Init, Published!Init

\* A query reads the table, or an older line for the account in its session.
LEMMA QueryReads ==
    ASSUME SessionInv, NEW r \in Requests, pc[r] = "query"
    PROVE  /\ QueryEntries(r) \in SUBSET (EnabledEntries \cup Memory[r])
           /\ Published!NamesIn(QueryEntries(r)) = Published!NamesIn(EnabledEntries)
<1>1. ASSUME NEW u \in Enabled
      PROVE  /\ Line(InSession(r, u)) \in {Line(users[u])} \cup Memory[r]
             /\ InSession(r, u).name = users[u].name
  <2>1. CASE u = job[r].id /\ Kept(r) # {}
    <3>1. seen[r] \in Kept(r) /\ InSession(r, u) = seen[r]
      BY <2>1 DEF Kept, InSession
    <3>2. Memory[r] = {Line(user) : user \in Kept(r)}
      BY DEF Memory, Recalled
    <3>3. Exists(job[r].id)
      BY <2>1 DEF Enabled
    <3>4. seen[r].name = users[u].name
      BY <2>1, <3>1, <3>3 DEF SessionInv, SessionOK
    <3> QED
      BY <3>1, <3>2, <3>4
  <2>2. CASE ~(u = job[r].id /\ Kept(r) # {})
    BY <2>2 DEF InSession
  <2> QED
    BY <2>1, <2>2
<1>2. QueryEntries(r) \in SUBSET (EnabledEntries \cup Memory[r])
  BY <1>1 DEF QueryEntries, EnabledEntries
<1>3. \A user : Line(user)[1] = user.name
  BY DEF Line
<1>4. Published!NamesIn(QueryEntries(r)) = {InSession(r, u).name : u \in Enabled}
  BY <1>3 DEF QueryEntries, Published!NamesIn
<1>5. Published!NamesIn(EnabledEntries) = {users[u].name : u \in Enabled}
  BY <1>3 DEF EnabledEntries, Published!NamesIn
<1> QED
  BY <1>1, <1>2, <1>4, <1>5

\* What the abstract file sees.
pubVars == <<AllEntries, EnabledEntries, Memory, Offers, data[passwd], contended>>

(***************************************************************************)
(* Each step is one of the abstract file, or changes nothing of it: the    *)
(* query reads, the rename publishes, an error or the end of the backend   *)
(* gives up.  What happens to the temporary file is not seen, as long as   *)
(* only one request has it open.                                           *)
(***************************************************************************)
LEMMA PublishedStep ==
    ASSUME TypeOK, TypeOK', SessionInv, FileInv, [Next]_vars
    PROVE  Published!Next \/ UNCHANGED pubVars
<1>entries. EnabledEntries' \in SUBSET AllEntries' /\ AllEntries' \in SUBSET Entry
  <2>1. users' \in [Ids -> User \cup {NoUser}]
    BY DEF TypeOK
  <2> QED
    BY <2>1 DEF EnabledEntries, AllEntries, Enabled, Line, Exists, User, Entry
<1>same. UNCHANGED users => UNCHANGED <<AllEntries, EnabledEntries>>
  BY DEF EnabledEntries, AllEntries, Enabled, Line, Exists
<1>file. data'[passwd'] \in Published!Contents
  BY DEF TypeOK, Contents, Published!Contents
<1>1. CASE UNCHANGED <<passwd, data, contended>> /\ OffersStay /\ MemoryStay
  <2>1. UNCHANGED <<Memory, Offers, data[passwd], contended>>
    BY <1>1, OffersSame, MemorySame
  <2>2. Published!Change
    BY <2>1, <1>entries DEF Published!Change
  <2> QED
    BY <2>2 DEF Published!Next
<1>2. ASSUME NEW r \in Requests, Query(r) PROVE Published!Next
  <2>1. /\ pc[r] = "query" /\ pc' = [pc EXCEPT ![r] = "open"]
        /\ snap' = [snap EXCEPT ![r] = QueryEntries(r)]
        /\ UNCHANGED <<users, passwd, data, contended, job, seen>>
    BY <1>2 DEF Query
  <2>2. Offers[r] = {}
    BY <2>1 DEF Offers
  <2>3. \A q \in Requests : Offers'[q] = IF q = r THEN {QueryEntries(r)} ELSE Offers[q]
    BY <2>1 DEF Offers, TypeOK
  <2>4. Offers' = [Offers EXCEPT ![r] = {QueryEntries(r)}]
    BY <2>3 DEF Offers
  <2>5. Memory' = [Memory EXCEPT ![r] = {}]
    <3>1. pc'[r] # "query" /\ \A q \in Requests \ {r} : pc'[q] = pc[q]
      BY <2>1 DEF TypeOK
    <3>2. Recalled(r)' = {}
      BY <3>1 DEF Recalled
    <3>3. \A q \in Requests \ {r} : Recalled(q)' = Recalled(q)
      BY <2>1, <3>1 DEF Recalled, Kept, Line
    <3> QED
      BY <3>2, <3>3 DEF Memory
  <2>6. /\ QueryEntries(r) \in SUBSET (EnabledEntries \cup Memory[r])
        /\ Published!NamesIn(QueryEntries(r)) = Published!NamesIn(EnabledEntries)
    BY <2>1, QueryReads
  <2>7. Published!Read(r)
    BY <2>1, <2>2, <2>4, <2>5, <2>6, <1>same DEF Published!Read
  <2> QED
    BY <2>7 DEF Published!Next
<1>8. ASSUME NEW r \in Requests, Refresh(r) PROVE Published!Next \/ UNCHANGED pubVars
  <2>1. /\ pc[r] = "refresh" /\ pc'[r] \in {"idle", "query"}
        /\ UNCHANGED <<users, passwd, data, contended>>
        /\ \A q \in Requests \ {r} : pc'[q] = pc[q] /\ job'[q] = job[q] /\ seen'[q] = seen[q] /\ snap'[q] = snap[q]
        /\ pc'[r] = "query" => /\ job'[r] = job[r] /\ seen'[r] = users[job[r].id] /\ Exists(job[r].id)
                              /\ job[r].id \in Ids
    BY <1>8 DEF Refresh, Finish, TypeOK, Job
  <2>2. OffersStay
    BY <2>1 DEF OffersStay, Carries
  <2>3. UNCHANGED <<AllEntries, EnabledEntries, Offers, data[passwd], contended>>
    BY <2>1, <2>2, <1>same, OffersSame
  <2>4. CASE pc'[r] = "query" /\ job[r].op \in Creates
    <3>1. Recalled(r)' = {Line(users[job[r].id])}
      BY <2>1, <2>4 DEF Recalled, Kept, Exists, Line
    <3>2. \A q \in Requests \ {r} : Recalled(q)' = Recalled(q)
      BY <2>1 DEF Recalled, Kept, Line
    <3>3. Memory' = [Memory EXCEPT ![r] = {Line(users[job[r].id])}]
      BY <3>1, <3>2 DEF Memory
    <3>4. Line(users[job[r].id]) \in AllEntries
      BY <2>1, <2>4 DEF AllEntries
    <3>5. Published!Remember(r)
      BY <2>3, <3>3, <3>4 DEF Published!Remember
    <3> QED
      BY <3>5 DEF Published!Next
  <2>5. CASE pc'[r] = "idle" \/ job[r].op \notin Creates
    <3>1. MemoryStay
      BY <2>1, <2>5 DEF MemoryStay
    <3> QED
      BY <2>3, <3>1, MemorySame DEF pubVars
  <2> QED
    BY <2>1, <2>4, <2>5
<1>3. ASSUME NEW r \in Requests, NEW i \in Inodes, Open(r, i)
      PROVE  Published!Next \/ UNCHANGED pubVars
  <2>1. i # passwd
    BY <1>3 DEF Open, FileInv
  <2>2. /\ pc[r] = "open" /\ pc' = [pc EXCEPT ![r] = "write"]
        /\ UNCHANGED <<users, passwd, snap>> /\ data'[passwd] = data[passwd]
        /\ contended' = (contended \/ \E q \in Requests \ {r} : pc[q] \in {"write", "rename"})
        /\ UNCHANGED <<job, seen>>
    BY <1>3, <2>1 DEF Open, TypeOK
  <2>3. OffersStay /\ MemoryStay
    BY <2>2 DEF OffersStay, MemoryStay, Carries, TypeOK
  <2>4. UNCHANGED <<AllEntries, EnabledEntries, Memory, Offers, data[passwd]>>
    BY <2>2, <2>3, <1>same, OffersSame, MemorySame
  <2>5. CASE contended' # contended
    <3>1. contended' = TRUE /\ \E q \in Requests : q # r /\ pc[q] \in {"write", "rename"}
      BY <2>2, <2>5 DEF TypeOK
    <3>2. PICK q \in Requests : q # r /\ pc[q] \in {"write", "rename"}
      BY <3>1
    <3>3. Offers[q] # {} /\ Offers[r] # {}
      BY <2>2, <3>2 DEF Offers
    <3>4. Published!Break
      BY <2>4, <3>1, <3>2, <3>3 DEF Published!Break
    <3> QED
      BY <3>4 DEF Published!Next
  <2> QED
    BY <2>4, <2>5 DEF pubVars
<1>4. ASSUME NEW r \in Requests, Write(r)
      PROVE  Published!Next \/ UNCHANGED pubVars
  <2>1. /\ pc[r] = "write" /\ pc' = [pc EXCEPT ![r] = "rename"]
        /\ UNCHANGED <<users, tmp, passwd, contended, snap, job, seen>>
    BY <1>4 DEF Write, Proceed
  <2>2. OffersStay /\ MemoryStay
    BY <2>1 DEF OffersStay, MemoryStay, Carries, TypeOK
  <2>3. UNCHANGED <<AllEntries, EnabledEntries, Memory, Offers, contended>>
    BY <2>1, <2>2, <1>same, OffersSame, MemorySame
  <2>4. CASE ~contended
    <3>1. HoldsFile(r) /\ fd[r] # passwd
      BY <2>1, <2>4 DEF FileInv, HoldsFile, OwnFile
    <3>2. data'[passwd] = data[passwd]
      BY <1>4, <3>1 DEF Write
    <3> QED
      BY <2>1, <2>3, <3>2 DEF pubVars
  <2>5. CASE contended
    <3>2. Published!Drop({})
      BY <2>3 DEF Published!Drop, Offers, Memory
    <3>3. Published!Garble({})
      BY <2>3, <2>5, <3>2, <1>file DEF Published!Garble
    <3> QED
      BY <3>3 DEF Published!Next
  <2> QED
    BY <2>4, <2>5 DEF TypeOK
<1>5. ASSUME NEW r \in Requests, Rename(r) PROVE Published!Next
  <2>1. /\ pc[r] = "rename" /\ pc' = [pc EXCEPT ![r] = "audit"]
        /\ passwd' = tmp
        /\ UNCHANGED <<users, data, contended, snap, job, seen>>
    BY <1>5 DEF Rename
  <2>3. Published!Drop({r})
    <3>1. ~Carries(r)' /\ pc'[r] # "query"
      BY <2>1 DEF Carries, TypeOK
    <3>2. \A q \in Requests \ {r} : pc'[q] = pc[q]
      BY <2>1 DEF TypeOK
    <3> QED
      BY <2>1, <3>1, <3>2, OffersLess
  <2>4. UNCHANGED <<AllEntries, EnabledEntries, contended>>
    BY <2>1, <1>same
  <2>5. CASE ~contended
    <3>1. HoldsFile(r)
      BY <2>1 DEF HoldsFile
    <3>2. data[tmp] = Whole(snap[r])
      BY <2>1, <2>5, <3>1 DEF FileInv, OwnFile
    <3>3. Offers[r] = {snap[r]}
      BY <2>1 DEF Offers
    <3>4. data'[passwd'] = Published!Whole(snap[r])
      BY <2>1, <3>2 DEF Whole, Published!Whole
    <3>5. Published!Publish(r)
      BY <2>3, <2>4, <3>3, <3>4 DEF Published!Publish
    <3> QED
      BY <3>5 DEF Published!Next
  <2>6. CASE contended
    <3>1. Published!Garble({r})
      BY <2>3, <2>4, <2>6, <1>file DEF Published!Garble
    <3> QED
      BY <3>1 DEF Published!Next
  <2> QED
    BY <2>5, <2>6 DEF TypeOK
<1>6. ASSUME NEW r \in Requests, RenameFails(r) \/ IoFault(r) PROVE Published!Next
  <2>1. /\ UNCHANGED <<users, passwd, data, contended>>
        /\ \A q \in Requests \ {r} : pc'[q] = pc[q] /\ snap'[q] = snap[q] /\ job'[q] = job[q] /\ seen'[q] = seen[q]
        /\ pc'[r] \in {"idle", "audit"}
    BY <1>6 DEF RenameFails, IoFault, SyncFails, Finish, TypeOK
  <2>3. Published!Drop({r})
    <3>1. ~Carries(r)'
      BY <2>1 DEF Carries
    <3> QED
      BY <2>1, <3>1, OffersLess
  <2>4. Published!GiveUp({r})
    BY <2>1, <2>3, <1>same DEF Published!GiveUp
  <2> QED
    BY <2>4 DEF Published!Next
<1>7. CASE Crash
  <2>1. \A q \in Requests : ~Carries(q)' /\ pc'[q] # "query"
    BY <1>7 DEF Crash, Carries
  <2>3. Published!Drop(Requests)
    BY <2>1, OffersLess
  <2>4. Published!GiveUp(Requests)
    BY <1>7, <2>3, <1>same DEF Crash, Published!GiveUp
  <2> QED
    BY <2>4 DEF Published!Next
<1> QED
  BY <1>1, <1>2, <1>3, <1>4, <1>5, <1>6, <1>7, <1>8, TableAside DEF SyncStep, pubVars

(***************************************************************************)
(* For ProFTPd a regeneration is one step that shows it the enabled users  *)
(* of the moment its request queried, where the line of the account that   *)
(* the request created may be as old as its refresh, and a failed one is   *)
(* none, however many requests run, fail or die; only two that have the    *)
(* temporary file open at once can make something else of the file.        *)
(***************************************************************************)
THEOREM RegenerationIsOneStep == Spec => ImplementsPasswdFile
<1>1. TypeOK /\ TypeOK' /\ SessionInv /\ FileInv /\ [Next]_vars => [Published!Next]_pubVars
  BY PublishedStep
<1> QED
  BY <1>1, TypeInit, TypeStep, SessionInit, SessionKept, FileInit, FileStep, PublishedInit, PTL DEF Spec, ImplementsPasswdFile, Published!Spec, pubVars
=============================================================================
