-------------------------- MODULE LogTailerProofs --------------------------
(***************************************************************************)
(* What LogTailer.tla guarantees for every number of files, every length   *)
(* of a file and any number of failures.                                   *)
(***************************************************************************)
EXTENDS LogTailer, TLAPS

\* An iteration reads forward, and not past the end of the file.
LEMMA ReadToIsPosition ==
    ASSUME TypeOK, fh # None PROVE ReadTo \in Nat /\ (off <= Len(content[fh]) => off <= ReadTo)
                                   /\ (off <= Len(content[fh]) => ReadTo <= Len(content[fh]))
BY ConstantsAssumption DEF TypeOK, ReadTo

\* The tailer starts with the types of TypeOK.
LEMMA TypeInit == Init => TypeOK
BY ConstantsAssumption DEF Init, TypeOK, Blank

(***************************************************************************)
(* The tailer's variables keep their types: one step per action.           *)
(***************************************************************************)
LEMMA TypeStep == TypeOK /\ [Next]_vars => TypeOK'
<1> SUFFICES ASSUME TypeOK, [Next]_vars PROVE TypeOK'
  OBVIOUS
<1> USE ConstantsAssumption DEF TypeOK, logVars, dbVars, tailerVars, historyVars
<1>1. CASE Start
  BY <1>1 DEF Start, load_pos, Blank
<1>2. CASE PollSkip
  BY <1>2 DEF PollSkip
<1>3. CASE PollSame
  BY <1>3 DEF PollSame
<1>4. CASE PollSwitch
  BY <1>4 DEF PollSwitch
<1>5. CASE PollFail
  BY <1>5 DEF PollFail
<1>6. CASE KeepOpen
  BY <1>6 DEF KeepOpen
<1>7. CASE OpenFile
  BY <1>7 DEF OpenFile, OpenedAt
<1>8. CASE NoLogFile
  BY <1>8 DEF NoLogFile
<1>9. CASE ReadNothing
  BY <1>9, ReadToIsPosition DEF ReadNothing, Blank
<1>10. CASE ReadBatch
  BY <1>10, ReadToIsPosition DEF ReadBatch, ReadDownloads
<1>11. CASE Insert
  BY <1>11 DEF Insert
<1>12. CASE InsertLost
  BY <1>12 DEF InsertLost
<1>13. CASE InsertClosed
  BY <1>13 DEF InsertClosed
<1>14. CASE InsertRefused
  BY <1>14 DEF InsertRefused
<1>15. CASE Commit
  BY <1>15 DEF Commit, Stored
<1>16. CASE CommitLost
  BY <1>16 DEF CommitLost
<1>17. CASE CommitUnanswered
  BY <1>17 DEF CommitUnanswered, Stored
<1>18. CASE Reconnect
  BY <1>18 DEF Reconnect
<1>19. CASE SavePos
  BY <1>19 DEF SavePos
<1>20. CASE Crash
  BY <1>20 DEF Crash
<1>21. CASE DbStop
  <2>1. conn' \in {"none", "open", "lost", "closed"} /\ dbFaults' \in Nat
    BY <1>21 DEF DbStop
  <2>2. dbUp' \in BOOLEAN
    BY <1>21 DEF DbStop
  <2> QED
    BY <1>21, <2>1, <2>2, Zenon DEF DbStop
<1>22. CASE DbStart
  BY <1>22 DEF DbStart
<1>23. ASSUME NEW n \in Names, SetFilename(n) PROVE TypeOK'
  BY <1>23 DEF SetFilename
<1>24. ASSUME NEW n \in Names, Rotate(n) PROVE TypeOK'
  BY <1>24 DEF Rotate
<1>25. ASSUME NEW n \in Names, NEW i \in Inodes, Create(n, i) PROVE TypeOK'
  BY <1>25 DEF Create
<1>26. ASSUME NEW n \in Names, NEW kind \in Kinds, WriteLine(n, kind) PROVE TypeOK'
  BY <1>26 DEF WriteLine
<1>27. CASE UNCHANGED vars
  BY <1>27 DEF vars
<1> QED
  BY <1>1, <1>2, <1>3, <1>4, <1>5, <1>6, <1>7, <1>8, <1>9, <1>10, <1>11, <1>12, <1>13, <1>14,
     <1>15, <1>16, <1>17, <1>18, <1>19, <1>20, <1>21, <1>22, <1>23, <1>24, <1>25, <1>26, <1>27
     DEF Next, Iteration, Poll, Faults, Environment

(***************************************************************************)
(* The tailer, the database and the log always have the states of TypeOK.  *)
(***************************************************************************)
THEOREM TypeCorrect == Spec => []TypeOK
<1> QED
  BY TypeInit, TypeStep, PTL DEF Spec

(***************************************************************************)
(* The handle, the position and the batch agree with the log when the      *)
(* tailer starts,                                                          *)
(***************************************************************************)
LEMMA ProcessInit == Init => ProcessInv
BY ConstantsAssumption DEF Init, ProcessInv

\* and after every step.
LEMMA ProcessStep == TypeOK /\ ProcessInv /\ [Next]_vars => ProcessInv'
<1> SUFFICES ASSUME TypeOK, ProcessInv, [Next]_vars PROVE ProcessInv'
  OBVIOUS
<1> USE ConstantsAssumption DEF TypeOK, ProcessInv, logVars, dbVars, tailerVars, historyVars
<1>1. CASE Start
  BY <1>1 DEF Start
<1>2. CASE PollSkip
  BY <1>2 DEF PollSkip
<1>3. CASE PollSame
  BY <1>3 DEF PollSame
<1>4. CASE PollSwitch
  BY <1>4 DEF PollSwitch
<1>5. CASE PollFail
  BY <1>5 DEF PollFail
<1>6. CASE KeepOpen
  BY <1>6 DEF KeepOpen
<1>7. CASE OpenFile
  <2>1. fh' # None => pos' <= off' /\ off' <= Len(content'[fh'])
    BY <1>7 DEF OpenFile, OpenedAt
  <2> QED
    BY <1>7, <2>1 DEF OpenFile
<1>8. CASE NoLogFile
  BY <1>8 DEF NoLogFile
<1>9. CASE ReadNothing
  <2>1. ReadTo \in Nat /\ ReadTo <= Len(content[fh])
    BY <1>9, ReadToIsPosition DEF ReadNothing
  <2> QED
    BY <1>9, <2>1 DEF ReadNothing
<1>10. CASE ReadBatch
  <2>1. ReadTo \in Nat /\ off <= ReadTo /\ ReadTo <= Len(content[fh])
    BY <1>10, ReadToIsPosition DEF ReadBatch
  <2>2. \A p \in batch' : p[1] = fh' /\ p[2] <= off'
    BY <1>10, <2>1 DEF ReadBatch, ReadDownloads
  <2> QED
    BY <1>10, <2>1, <2>2 DEF ReadBatch
<1>11. CASE Insert
  BY <1>11 DEF Insert
<1>12. CASE InsertLost
  BY <1>12 DEF InsertLost
<1>13. CASE InsertClosed
  BY <1>13 DEF InsertClosed
<1>14. CASE InsertRefused
  BY <1>14 DEF InsertRefused
<1>15. CASE Commit
  <2>1. ASSUME NEW p \in Places, copies'[p] > 0 PROVE p[2] <= Len(content'[p[1]])
    <3>1. p[1] \in Inodes /\ p[2] \in Nat
      BY DEF Places
    <3>2. p \in batch => fh = p[1] /\ p[2] <= Len(content[fh]) /\ fh \in Inodes
      BY <3>1, <1>15 DEF Commit
    <3>3. p \notin batch => copies[p] > 0
      BY <2>1, <1>15 DEF Commit, Stored
    <3> QED
      BY <3>1, <3>2, <3>3, <1>15 DEF Commit
  <2> QED
    BY <1>15, <2>1 DEF Commit
<1>16. CASE CommitLost
  BY <1>16 DEF CommitLost
<1>17. CASE CommitUnanswered
  <2>1. ASSUME NEW p \in Places, copies'[p] > 0 PROVE p[2] <= Len(content'[p[1]])
    <3>1. p[1] \in Inodes /\ p[2] \in Nat
      BY DEF Places
    <3>2. p \in batch => fh = p[1] /\ p[2] <= Len(content[fh]) /\ fh \in Inodes
      BY <3>1, <1>17 DEF CommitUnanswered
    <3>3. p \notin batch => copies[p] > 0
      BY <2>1, <1>17 DEF CommitUnanswered, Stored
    <3> QED
      BY <3>1, <3>2, <3>3, <1>17 DEF CommitUnanswered
  <2> QED
    BY <1>17, <2>1 DEF CommitUnanswered
<1>18. CASE Reconnect
  BY <1>18 DEF Reconnect
<1>19. CASE SavePos
  BY <1>19 DEF SavePos
<1>20. CASE Crash
  BY <1>20 DEF Crash
<1>21. CASE DbStop
  BY <1>21 DEF DbStop
<1>22. CASE DbStart
  BY <1>22 DEF DbStart
<1>23. ASSUME NEW n \in Names, SetFilename(n) PROVE ProcessInv'
  BY <1>23 DEF SetFilename
<1>24. ASSUME NEW n \in Names, Rotate(n) PROVE ProcessInv'
  BY <1>24 DEF Rotate
<1>25. ASSUME NEW n \in Names, NEW i \in Inodes, Create(n, i) PROVE ProcessInv'
  <2>1. \A m, l \in Names : dir'[m] = dir'[l] /\ dir'[m] # None => m = l
    BY <1>25 DEF Create, Unused
  <2>2. fh' # None => \A m \in Names : dir'[m] = fh' => m = name'
    BY <1>25 DEF Create, Unused
  <2> QED
    BY <1>25, <2>1, <2>2 DEF Create
<1>26. ASSUME NEW n \in Names, NEW kind \in Kinds, WriteLine(n, kind) PROVE ProcessInv'
  <2>1. \A j \in Inodes : Len(content'[j]) \in Nat /\ Len(content[j]) \in Nat
                           /\ Len(content[j]) <= Len(content'[j]) /\ Len(content'[j]) <= MaxLen
    BY <1>26 DEF WriteLine
  <2>2. \A p \in Places : p[1] \in Inodes /\ p[2] \in Nat
    BY DEF Places
  <2>3. ASSUME NEW p \in Places, copies'[p] > 0 PROVE p[2] <= Len(content'[p[1]])
    <3>1. p[2] <= Len(content[p[1]])
      BY <1>26, <2>3 DEF WriteLine
    <3> QED
      BY <3>1, <2>1, <2>2
  <2>4. fh' # None => pos' <= off' /\ off' <= Len(content'[fh'])
    BY <1>26, <2>1 DEF WriteLine
  <2> QED
    BY <1>26, <2>1, <2>3, <2>4 DEF WriteLine
<1>27. CASE UNCHANGED vars
  BY <1>27 DEF vars
<1> QED
  BY <1>1, <1>2, <1>3, <1>4, <1>5, <1>6, <1>7, <1>8, <1>9, <1>10, <1>11, <1>12, <1>13, <1>14,
     <1>15, <1>16, <1>17, <1>18, <1>19, <1>20, <1>21, <1>22, <1>23, <1>24, <1>25, <1>26, <1>27
     DEF Next, Iteration, Poll, Faults, Environment

(***************************************************************************)
(* A restart of the file, by a crash or by a new file name, allows every   *)
(* line to be stored once more; nothing else does.  Their number is an     *)
(* integer before a step,                                                  *)
(***************************************************************************)
LEMMA RestartsType == TypeOK => Restarts \in Int
BY DEF TypeOK, Restarts

\* and after it.
LEMMA RestartsTypePrimed == TypeOK' => Restarts' \in Int
<1> SUFFICES ASSUME TypeOK' PROVE Restarts' \in Int
  OBVIOUS
<1>1. crashes' \in Nat /\ switches' \in Nat
  BY DEF TypeOK
<1> QED
  BY <1>1 DEF Restarts

\* Nothing is stored when the system starts.
LEMMA DuplicatesInit == Init => DuplicatesInv
BY DEF Init, DuplicatesInv, Restarts

\* The parts of a place, and the rows stored for it.
LEMMA PlaceType == TypeOK => \A p \in Places : copies[p] \in Nat /\ p[1] \in Inodes /\ p[2] \in Nat
<1>1. \A p \in Places : p[1] \in Inodes /\ p[2] \in Nat
  BY ConstantsAssumption DEF Places
<1> QED
  BY <1>1 DEF TypeOK

\* A file with a stored line is not empty.
LEMMA NotEmpty ==
    ASSUME TypeOK, ProcessInv, NEW p \in Places, copies[p] > 0 PROVE content[p[1]] # <<>>
<1>1. p[2] <= Len(content[p[1]]) /\ p[2] \in 1..MaxLen
  BY DEF ProcessInv, Places
<1> QED
  BY <1>1, ConstantsAssumption

\* A step that stores nothing keeps the bound if what it takes back of the
\* position it pays for with a restart.
LEMMA NotStoredAgain ==
    ASSUME TypeOK, TypeOK', DuplicatesInv,
           copies' = copies, batch' \subseteq batch, Restarts' >= Restarts,
           name' # cfgName' => switches' > 0,
           \A p \in Places : copies[p] > Restarts' /\ Behind(p) => Behind(p)'
    PROVE  DuplicatesInv'
<1>1. Restarts \in Int /\ Restarts' \in Int
  BY RestartsType, RestartsTypePrimed
<1>2. batch \subseteq Places /\ \A p \in Places : copies[p] \in Nat
  BY PlaceType DEF TypeOK
<1>3. \A p \in Places : copies'[p] <= 1 + Restarts'
  BY <1>1, <1>2 DEF DuplicatesInv
<1>4. \A p \in batch' : copies'[p] <= Restarts'
  BY <1>1, <1>2 DEF DuplicatesInv
<1>5. \A p \in Places : copies'[p] > Restarts' => Behind(p)'
  BY <1>1, <1>2 DEF DuplicatesInv
<1> QED
  BY <1>3, <1>4, <1>5 DEF DuplicatesInv

\* A step that commits the batch keeps it if the position is past the batch.
LEMMA StoredOnceMore ==
    ASSUME TypeOK, TypeOK', DuplicatesInv,
           copies' = Stored(batch), batch' = {}, Restarts' = Restarts,
           name' # cfgName' => switches' > 0,
           \A p \in batch : Behind(p)',
           \A p \in Places : Behind(p) => Behind(p)'
    PROVE  DuplicatesInv'
<1>1. Restarts \in Int
  BY RestartsType
<1>2. batch \subseteq Places /\ \A p \in Places : copies[p] \in Nat
  BY PlaceType DEF TypeOK
<1>3. \A p \in Places : copies'[p] = IF p \in batch THEN copies[p] + 1 ELSE copies[p]
  BY DEF Stored
<1>4. \A p \in Places : copies'[p] <= 1 + Restarts'
  BY <1>1, <1>2, <1>3 DEF DuplicatesInv
<1>5. \A p \in Places : copies'[p] > Restarts' => Behind(p)'
  BY <1>1, <1>2, <1>3 DEF DuplicatesInv
<1> QED
  BY <1>4, <1>5 DEF DuplicatesInv

(***************************************************************************)
(* The bound is inductive: Commit and CommitUnanswered store the batch,    *)
(* every other step stores nothing.                                        *)
(***************************************************************************)
LEMMA DuplicatesStep ==
    TypeOK /\ TypeOK' /\ ProcessInv /\ DuplicatesInv /\ [Next]_vars => DuplicatesInv'
<1> SUFFICES ASSUME TypeOK, TypeOK', ProcessInv, DuplicatesInv, [Next]_vars PROVE DuplicatesInv'
  OBVIOUS
<1> USE DEF logVars, dbVars, tailerVars, historyVars
<1>int. Restarts \in Int /\ Restarts' \in Int
  BY RestartsType, RestartsTypePrimed
<1>type. /\ fh \in Inodes \cup {None} /\ pos \in Nat /\ off \in Nat
         /\ crashes \in Nat /\ switches \in Nat /\ name \in Names
         /\ (pc \in {"read", "insert", "commit"} => fh # None)
         /\ content \in [Inodes -> Seq(Kinds)] /\ dir \in [Names -> Inodes \cup {None}]
  BY DEF TypeOK
<1>nat. Restarts >= 0
  BY <1>type DEF Restarts, DuplicatesInv
<1>quiet. ASSUME UNCHANGED <<copies, name, cfgName, switches, crashes, fh, pos, dir, content>>,
                 batch' \subseteq batch
          PROVE  DuplicatesInv'
  <2>1. Restarts' = Restarts
    BY <1>quiet DEF Restarts
  <2>2. \A p \in Places : Behind(p)' <=> Behind(p)
    BY <1>quiet DEF Behind, Abandoned
  <2> QED
    BY <1>quiet, <2>1, <2>2, <1>int, NotStoredAgain DEF DuplicatesInv
<1>1. CASE Start
  <2>1. Restarts' >= Restarts
    BY <1>1, <1>type DEF Start, Restarts
  <2>2. \A p \in Places : Behind(p) => Behind(p)'
    BY <1>1, PlaceType, ConstantsAssumption DEF Start, ProcessInv, Behind, Abandoned
  <2>3. \A p \in Places : copies[p] > Restarts' => copies[p] > Restarts
    BY <2>1, <1>int, PlaceType
  <2> QED
    BY <1>1, <2>1, <2>2, <2>3, NotStoredAgain DEF Start, DuplicatesInv
<1>2. CASE PollSkip
  BY <1>2, <1>quiet DEF PollSkip
<1>3. CASE PollSame
  BY <1>3, <1>quiet DEF PollSame
<1>4. CASE PollSwitch
  <2>1. Restarts' >= 1 + Restarts
    BY <1>4, <1>type DEF PollSwitch, Restarts
  <2>2. \A p \in Places : ~(copies[p] > Restarts')
    BY <2>1, <1>int, <1>type, PlaceType DEF DuplicatesInv
  <2> QED
    BY <1>4, <2>1, <2>2, <1>int, NotStoredAgain DEF PollSwitch
<1>5. CASE PollFail
  BY <1>5, <1>quiet DEF PollFail
<1>6. CASE KeepOpen
  BY <1>6, <1>quiet DEF KeepOpen
<1>7. CASE OpenFile
  <2>1. Restarts' = Restarts
    BY <1>7 DEF OpenFile, Restarts
  <2>2. ASSUME NEW p \in Places, copies[p] > Restarts' PROVE Behind(p)'
    <3>1. p[1] \in Inodes /\ content[p[1]] # <<>> /\ Behind(p)
      <4>1. copies[p] > 0
        BY <2>1, <2>2, <1>int, <1>nat, PlaceType
      <4> QED
        BY <2>1, <2>2, <4>1, PlaceType, NotEmpty DEF DuplicatesInv
    <3>2. CASE p[1] = fh /\ p[2] <= pos
      <4>1. fh # None /\ pos <= Len(content[fh]) /\ \A n \in Names : dir[n] = fh => n = name
        BY <3>1, <3>2, <1>type, ConstantsAssumption DEF ProcessInv
      <4> QED
        BY <1>7, <3>1, <3>2, <4>1, <1>type, ConstantsAssumption DEF OpenFile, Behind, Abandoned, OpenedAt
    <3>3. CASE Abandoned(p[1])
      BY <1>7, <3>1, <3>3, <1>type, ConstantsAssumption DEF OpenFile, Behind, Abandoned
    <3> QED
      BY <3>1, <3>2, <3>3 DEF Behind
  <2> QED
    BY <1>7, <2>1, <2>2, <1>int, NotStoredAgain DEF OpenFile, DuplicatesInv
<1>8. CASE NoLogFile
  <2>1. Restarts' = Restarts
    BY <1>8 DEF NoLogFile, Restarts
  <2>2. ASSUME NEW p \in Places, copies[p] > Restarts' PROVE Behind(p)'
    <3>1. p[1] \in Inodes /\ content[p[1]] # <<>> /\ Behind(p)
      <4>1. copies[p] > 0
        BY <2>1, <2>2, <1>int, <1>nat, PlaceType
      <4> QED
        BY <2>1, <2>2, <4>1, PlaceType, NotEmpty DEF DuplicatesInv
    <3>2. CASE p[1] = fh /\ p[2] <= pos
      <4>1. fh # None /\ pos <= Len(content[fh]) /\ \A n \in Names : dir[n] = fh => n = name
        BY <3>1, <3>2, <1>type, ConstantsAssumption DEF ProcessInv
      <4> QED
        BY <1>8, <3>1, <3>2, <4>1, <1>type, ConstantsAssumption DEF NoLogFile, Behind, Abandoned
    <3>3. CASE Abandoned(p[1])
      BY <1>8, <3>1, <3>3, <1>type, ConstantsAssumption DEF NoLogFile, Behind, Abandoned
    <3> QED
      BY <3>1, <3>2, <3>3 DEF Behind
  <2> QED
    BY <1>8, <2>1, <2>2, <1>int, NotStoredAgain DEF NoLogFile, DuplicatesInv
<1>9. CASE ReadNothing
  <2>1. pos <= ReadTo /\ ReadTo \in Nat
    BY <1>9, <1>type, ReadToIsPosition DEF ReadNothing, ProcessInv
  <2>2. Restarts' = Restarts
    BY <1>9 DEF ReadNothing, Restarts
  <2>3. \A p \in Places : Behind(p) => Behind(p)'
    BY <1>9, <2>1, <1>type, PlaceType DEF ReadNothing, Behind, Abandoned
  <2> QED
    BY <1>9, <2>2, <2>3, <1>int, NotStoredAgain DEF ReadNothing, DuplicatesInv
<1>10. CASE ReadBatch
  <2>1. Restarts' = Restarts /\ \A p \in Places : Behind(p)' <=> Behind(p)
    BY <1>10 DEF ReadBatch, Restarts, Behind, Abandoned
  <2>2. ASSUME NEW p \in ReadDownloads PROVE copies[p] <= Restarts
    <3>1. p \in Places /\ p[1] = fh /\ p[2] >= off + 1 /\ pos <= off /\ p[2] \in Nat
      BY <1>10, <2>2, <1>type, PlaceType, ReadToIsPosition DEF ReadBatch, ReadDownloads, ProcessInv
    <3>2. ~Behind(p)
      BY <3>1, <1>type DEF Behind, Abandoned
    <3> QED
      BY <3>1, <3>2, <1>int, PlaceType DEF DuplicatesInv
  <2> QED
    BY <1>10, <2>1, <2>2 DEF ReadBatch, DuplicatesInv
<1>11. CASE Insert
  <2>1. pos <= off /\ off \in Nat
    BY <1>11, <1>type DEF Insert, ProcessInv
  <2>2. Restarts' = Restarts
    BY <1>11 DEF Insert, Restarts
  <2>3. \A p \in Places : Behind(p) => Behind(p)'
    BY <1>11, <2>1, <1>type, PlaceType DEF Insert, Behind, Abandoned
  <2> QED
    BY <1>11, <2>2, <2>3, <1>int, NotStoredAgain DEF Insert, DuplicatesInv
<1>12. CASE InsertLost
  BY <1>12, <1>quiet DEF InsertLost
<1>13. CASE InsertClosed
  BY <1>13, <1>quiet DEF InsertClosed
<1>14. CASE InsertRefused
  BY <1>14, <1>quiet DEF InsertRefused
<1>15. CASE Commit
  <2>1. Restarts' = Restarts /\ \A p \in Places : Behind(p) => Behind(p)'
    BY <1>15 DEF Commit, Restarts, Behind, Abandoned
  <2>2. \A p \in batch : Behind(p)'
    BY <1>15 DEF Commit, ProcessInv, Behind
  <2> QED
    BY <1>15, <2>1, <2>2, StoredOnceMore DEF Commit, DuplicatesInv
<1>16. CASE CommitLost
  BY <1>16, <1>quiet DEF CommitLost
<1>17. CASE CommitUnanswered
  <2>1. Restarts' = Restarts /\ \A p \in Places : Behind(p) => Behind(p)'
    BY <1>17 DEF CommitUnanswered, Restarts, Behind, Abandoned
  <2>2. \A p \in batch : Behind(p)'
    BY <1>17 DEF CommitUnanswered, ProcessInv, Behind
  <2> QED
    BY <1>17, <2>1, <2>2, StoredOnceMore DEF CommitUnanswered, DuplicatesInv
<1>18. CASE Reconnect
  BY <1>18, <1>quiet DEF Reconnect
<1>19. CASE SavePos
  BY <1>19, <1>quiet DEF SavePos
<1>20. CASE Crash
  <2>1. Restarts' >= 1 + Restarts
    BY <1>20, <1>type DEF Crash, Restarts
  <2>2. \A p \in Places : ~(copies[p] > Restarts')
    BY <2>1, <1>int, <1>type, PlaceType DEF DuplicatesInv
  <2> QED
    BY <1>20, <2>1, <2>2, <1>int, NotStoredAgain DEF Crash
<1>21. CASE DbStop
  BY <1>21, <1>quiet DEF DbStop
<1>22. CASE DbStart
  BY <1>22, <1>quiet DEF DbStart
<1>23. ASSUME NEW n \in Names, SetFilename(n) PROVE DuplicatesInv'
  <2>1. Restarts' >= Restarts
    BY <1>23, <1>type DEF SetFilename, Restarts
  <2>2. \A p \in Places : Behind(p)' <=> Behind(p)
    BY <1>23 DEF SetFilename, Behind, Abandoned
  <2>3. \A p \in Places : copies[p] > Restarts' => copies[p] > Restarts
    BY <2>1, <1>int, PlaceType
  <2>4. switches' > 0
    BY <1>23, <1>type DEF SetFilename
  <2> QED
    BY <1>23, <2>1, <2>2, <2>3, <2>4, NotStoredAgain DEF SetFilename, DuplicatesInv
<1>24. ASSUME NEW n \in Names, Rotate(n) PROVE DuplicatesInv'
  <2>1. Restarts' = Restarts
    BY <1>24 DEF Rotate, Restarts
  <2>2. \A p \in Places : Behind(p) => Behind(p)'
    BY <1>24, <1>type, PlaceType, ConstantsAssumption DEF Rotate, Behind, Abandoned
  <2> QED
    BY <1>24, <2>1, <2>2, <1>int, NotStoredAgain DEF Rotate, DuplicatesInv
<1>25. ASSUME NEW n \in Names, NEW i \in Inodes, Create(n, i) PROVE DuplicatesInv'
  <2>1. Restarts' = Restarts
    BY <1>25 DEF Create, Restarts
  <2>2. \A p \in Places : Behind(p) => Behind(p)'
    BY <1>25, <1>type, PlaceType, ConstantsAssumption DEF Create, Behind, Abandoned, Unused
  <2> QED
    BY <1>25, <2>1, <2>2, <1>int, NotStoredAgain DEF Create, DuplicatesInv
<1>26. ASSUME NEW n \in Names, NEW kind \in Kinds, WriteLine(n, kind) PROVE DuplicatesInv'
  <2>1. Restarts' = Restarts
    BY <1>26 DEF WriteLine, Restarts
  <2>2. \A p \in Places : Behind(p) => Behind(p)'
    BY <1>26, <1>type, PlaceType, ConstantsAssumption DEF WriteLine, Behind, Abandoned
  <2> QED
    BY <1>26, <2>1, <2>2, <1>int, NotStoredAgain DEF WriteLine, DuplicatesInv
<1>27. CASE UNCHANGED vars
  BY <1>27, <1>quiet DEF vars
<1> QED
  BY <1>1, <1>2, <1>3, <1>4, <1>5, <1>6, <1>7, <1>8, <1>9, <1>10, <1>11, <1>12, <1>13, <1>14,
     <1>15, <1>16, <1>17, <1>18, <1>19, <1>20, <1>21, <1>22, <1>23, <1>24, <1>25, <1>26, <1>27
     DEF Next, Iteration, Poll, Faults, Environment

(***************************************************************************)
(* The invariants behind DuplicatesBounded hold at every moment.           *)
(***************************************************************************)
LEMMA InvariantHolds == Spec => [](TypeOK /\ ProcessInv /\ DuplicatesInv)
<1>1. Init => TypeOK /\ ProcessInv /\ DuplicatesInv
  BY TypeInit, ProcessInit, DuplicatesInit
<1>2. TypeOK /\ ProcessInv /\ DuplicatesInv /\ [Next]_vars => (TypeOK /\ ProcessInv /\ DuplicatesInv)'
  BY TypeStep, ProcessStep, DuplicatesStep
<1> QED
  BY <1>1, <1>2, PTL DEF Spec

(***************************************************************************)
(* DuplicatesBounded: whatever the database and the log rotation do, a     *)
(* download is stored at most once more than the tailer died and the       *)
(* log_filename setting changed (save_pos after the commit, tailer.py 312).*)
(***************************************************************************)
THEOREM DuplicatesAreBounded == Spec => []DuplicatesBounded
<1>1. TypeOK /\ DuplicatesInv => DuplicatesBounded
  BY DEF TypeOK, DuplicatesInv, DuplicatesBounded, Restarts
<1> QED
  BY <1>1, InvariantHolds, PTL

(***************************************************************************)
(* What is behind the saved position is stored: at the start,              *)
(***************************************************************************)
LEMMA CrashInit == Init => CrashInv
BY ConstantsAssumption DEF Init, CrashInv, CalmInv, NothingPassed, StoredUpTo, load_pos, Blank

\* and after every step, as long as nothing but the tailer fails.
LEMMA CrashStep == TypeOK /\ ProcessInv /\ CrashInv /\ [Next]_vars => CrashInv'
<1> SUFFICES ASSUME TypeOK, ProcessInv, CrashInv, [Next]_vars, Calm' PROVE CalmInv'
  BY DEF CrashInv
<1> USE DEF logVars, dbVars, tailerVars, historyVars
<1>type. /\ fh \in Inodes \cup {None} /\ pos \in Nat /\ off \in Nat /\ name \in Names
         /\ posFile \in Nat \cup {Blank} /\ batch \subseteq Places
         /\ (pc \in {"read", "insert", "commit"} => fh # None)
         /\ content \in [Inodes -> Seq(Kinds)] /\ dir \in [Names -> Inodes \cup {None}]
         /\ dbFaults \in Nat /\ rotations \in Nat /\ switches \in Nat /\ copies \in [Places -> Nat]
  BY DEF TypeOK
<1>calm. CalmInv
  <2>1. dbFaults <= dbFaults' /\ rotations <= rotations' /\ switches <= switches'
    BY <1>type DEF vars, Next, Iteration, Poll, Faults, Environment, Start, PollSkip, PollSame, PollSwitch, PollFail, KeepOpen, OpenFile, NoLogFile, ReadNothing, ReadBatch, Insert, InsertLost, InsertClosed, InsertRefused, Commit, CommitLost, CommitUnanswered, Reconnect, SavePos, Crash, DbStop, DbStart,
       SetFilename, Rotate, Create, WriteLine
  <2> QED
    BY <2>1, <1>type DEF Calm, CrashInv
<1>1. CASE Start
  BY <1>1, <1>type, <1>calm, ConstantsAssumption DEF Start, CalmInv, NothingPassed, StoredUpTo, IsDownload, load_pos
<1>2. CASE PollSkip
  BY <1>2, <1>type, <1>calm, ConstantsAssumption DEF PollSkip, CalmInv, NothingPassed, StoredUpTo, IsDownload, load_pos
<1>3. CASE PollSame
  BY <1>3, <1>type, <1>calm, ConstantsAssumption DEF PollSame, CalmInv, NothingPassed, StoredUpTo, IsDownload, load_pos
<1>4. CASE PollSwitch
  BY <1>4, <1>type, <1>calm, ConstantsAssumption DEF PollSwitch, CalmInv, NothingPassed, StoredUpTo, IsDownload, load_pos
<1>5. CASE PollFail
  BY <1>5, <1>type, <1>calm, ConstantsAssumption DEF PollFail, CalmInv, NothingPassed, StoredUpTo, IsDownload, load_pos
<1>6. CASE KeepOpen
  BY <1>6, <1>type, <1>calm, ConstantsAssumption DEF KeepOpen, CalmInv, NothingPassed, StoredUpTo, IsDownload, load_pos
<1>7. CASE OpenFile
  <2>1. pos' = pos /\ off' = pos /\ fh' = dir[name] /\ fh' \in Inodes
    BY <1>7, <1>type, <1>calm DEF OpenFile, OpenedAt, CalmInv, NothingPassed
  <2>2. StoredUpTo(fh', pos)
    BY <1>7, <2>1, <1>calm DEF OpenFile, CalmInv, NothingPassed
  <2>3. \A k \in 1..off' : IsDownload(fh, k)' => copies'[<<fh', k>>] >= 1
    BY <1>7, <2>1, <2>2 DEF OpenFile, StoredUpTo, IsDownload
  <2> QED
    BY <1>7, <2>1, <2>3, <1>calm DEF OpenFile, CalmInv, NothingPassed, StoredUpTo, IsDownload, load_pos
<1>8. CASE NoLogFile
  BY <1>8, <1>type, <1>calm, ConstantsAssumption DEF NoLogFile, CalmInv, NothingPassed, StoredUpTo, IsDownload, load_pos
<1>9. CASE ReadNothing
  <2>1. fh \in Inodes /\ fh = dir[name] /\ off <= Len(content[fh])
    BY <1>9, <1>type, <1>calm DEF ReadNothing, ProcessInv, CalmInv, NothingPassed
  <2>2. ReadTo \in Nat /\ off <= ReadTo /\ ReadTo <= Len(content[fh]) /\ Len(content[fh]) <= MaxLen
    BY <2>1, <1>type, ReadToIsPosition, ConstantsAssumption DEF ProcessInv
  <2>3. batch = {}
    BY <1>9 DEF ReadNothing, ProcessInv
  <2>4. ASSUME NEW k \in 1..ReadTo, IsDownload(fh, k) PROVE copies[<<fh, k>>] >= 1
    <3>1. CASE k <= off
      BY <2>1, <2>3, <2>4, <3>1, <1>type, <1>calm, ConstantsAssumption DEF CalmInv, NothingPassed
    <3>2. CASE k > off
      <4>1. k \in (off + 1)..ReadTo /\ k \in 1..MaxLen
        BY <2>2, <3>2, <1>type, ConstantsAssumption
      <4>2. <<fh, k>> \in ReadDownloads
        BY <2>1, <2>4, <4>1 DEF ReadDownloads, Places, IsDownload
      <4> QED
        BY <1>9, <4>2 DEF ReadNothing
    <3> QED
      BY <2>2, <3>1, <3>2, <1>type
  <2>5. StoredUpTo(dir[name], pos)'
    BY <1>9, <2>1, <2>4 DEF ReadNothing, StoredUpTo, IsDownload
  <2>6. posFile' = posFile \/ posFile' = Blank
    BY <1>9 DEF ReadNothing
  <2> QED
    BY <1>9, <2>1, <2>2, <2>4, <2>5, <2>6, <1>type, <1>calm DEF ReadNothing, CalmInv, NothingPassed, StoredUpTo, IsDownload, load_pos
<1>10. CASE ReadBatch
  <2>1. fh \in Inodes /\ off <= Len(content[fh])
    BY <1>10, <1>type DEF ReadBatch, ProcessInv
  <2>2. ReadTo \in Nat /\ off <= ReadTo /\ ReadTo <= Len(content[fh]) /\ Len(content[fh]) <= MaxLen
    BY <2>1, <1>type, ReadToIsPosition, ConstantsAssumption DEF ProcessInv
  <2>3. batch = {}
    BY <1>10 DEF ReadBatch, ProcessInv
  <2>4. ASSUME NEW k \in 1..ReadTo, IsDownload(fh, k)
        PROVE  copies[<<fh, k>>] >= 1 \/ <<fh, k>> \in ReadDownloads
    <3>1. CASE k <= off
      BY <2>1, <2>3, <2>4, <3>1, <1>type, <1>calm, ConstantsAssumption DEF CalmInv, NothingPassed
    <3>2. CASE k > off
      <4>1. k \in (off + 1)..ReadTo /\ k \in 1..MaxLen
        BY <2>2, <3>2, <1>type, ConstantsAssumption
      <4> QED
        BY <2>1, <2>4, <4>1 DEF ReadDownloads, Places, IsDownload
    <3> QED
      BY <2>2, <3>1, <3>2, <1>type
  <2> QED
    BY <1>10, <2>1, <2>2, <2>4, <1>type, <1>calm DEF ReadBatch, CalmInv, NothingPassed, StoredUpTo, IsDownload, load_pos
<1>11. CASE Insert
  <2>1. fh \in Inodes /\ fh = dir[name] /\ off <= Len(content[fh])
    BY <1>11, <1>type, <1>calm DEF Insert, ProcessInv, CalmInv, NothingPassed
  <2> QED
    BY <1>11, <2>1, <1>type, <1>calm, ConstantsAssumption DEF Insert, CalmInv, NothingPassed, StoredUpTo, IsDownload, load_pos
<1>12. CASE InsertLost
  BY <1>12, <1>type, <1>calm, ConstantsAssumption DEF InsertLost, CalmInv, NothingPassed, StoredUpTo, IsDownload, load_pos
<1>13. CASE InsertClosed
  BY <1>13, <1>type, <1>calm, ConstantsAssumption DEF InsertClosed, CalmInv, NothingPassed, StoredUpTo, IsDownload, load_pos
<1>14. CASE InsertRefused
  BY <1>14, <1>type DEF InsertRefused, Calm
<1>15. CASE Commit
  <2>1. fh \in Inodes /\ fh = dir[name] /\ pos = off
    BY <1>15, <1>type, <1>calm DEF Commit, ProcessInv, CalmInv, NothingPassed
  <2>2. \A p \in Places : copies'[p] >= copies[p] /\ (p \in batch => copies'[p] >= 1)
    BY <1>15, <1>type DEF Commit, Stored
  <2>3. Len(content[fh]) \in Nat /\ Len(content[fh]) <= MaxLen /\ pos <= Len(content[fh])
    BY <2>1, <1>type, <1>calm, ConstantsAssumption DEF ProcessInv, CalmInv, NothingPassed
  <2>4. ASSUME NEW k \in 1..pos, IsDownload(fh, k) PROVE copies'[<<fh, k>>] >= 1
    <3>1. <<fh, k>> \in Places
      BY <2>1, <2>3, <1>type, ConstantsAssumption DEF Places
    <3>2. copies[<<fh, k>>] >= 1 \/ <<fh, k>> \in batch
      BY <2>1, <2>4, <1>calm, ConstantsAssumption DEF CalmInv, NothingPassed
    <3>3. copies[<<fh, k>>] \in Nat /\ copies'[<<fh, k>>] \in Nat
      BY <1>15, <3>1, <1>type DEF Commit, Stored
    <3> QED
      BY <2>2, <3>1, <3>2, <3>3
  <2>5. fh' = fh /\ dir' = dir /\ name' = name /\ pos' = pos /\ off' = off /\ content' = content
        /\ cfgName' = cfgName /\ posFile' = Blank /\ pc' = "save" /\ conn' = conn /\ pc = "commit"
    BY <1>15 DEF Commit
  <2>6. StoredUpTo(dir[name], pos)'
    BY <2>1, <2>4, <2>5 DEF StoredUpTo, IsDownload
  <2>7. \A k \in 1..off' : IsDownload(fh, k)' => copies'[<<fh', k>>] >= 1
    BY <2>1, <2>4, <2>5 DEF IsDownload
  <2>8. load_pos' = 0
    BY <2>5 DEF load_pos
  <2>9. StoredUpTo(dir[name], load_pos)'
    BY <2>8 DEF StoredUpTo
  <2> QED
    BY <2>1, <2>3, <2>5, <2>6, <2>7, <2>8, <2>9, <1>calm, ConstantsAssumption DEF CalmInv, NothingPassed
<1>16. CASE CommitLost
  BY <1>16, <1>type, <1>calm, ConstantsAssumption DEF CommitLost, CalmInv, NothingPassed, StoredUpTo, IsDownload, load_pos
<1>17. CASE CommitUnanswered
  BY <1>17, <1>type DEF CommitUnanswered, Calm
<1>18. CASE Reconnect
  BY <1>18, <1>type, <1>calm, ConstantsAssumption DEF Reconnect, CalmInv, NothingPassed, StoredUpTo, IsDownload, load_pos
<1>19. CASE SavePos
  BY <1>19, <1>type, <1>calm, ConstantsAssumption DEF SavePos, CalmInv, NothingPassed, StoredUpTo, IsDownload, load_pos
<1>20. CASE Crash
  BY <1>20, <1>type, <1>calm, ConstantsAssumption DEF Crash, CalmInv, NothingPassed, StoredUpTo, IsDownload, load_pos
<1>21. CASE DbStop
  BY <1>21, <1>type DEF DbStop, Calm
<1>22. CASE DbStart
  BY <1>22, <1>type, <1>calm, ConstantsAssumption DEF DbStart, CalmInv, NothingPassed, StoredUpTo, IsDownload, load_pos
<1>23. ASSUME NEW n \in Names, SetFilename(n) PROVE CalmInv'
  BY <1>23, <1>type DEF SetFilename, Calm
<1>24. ASSUME NEW n \in Names, Rotate(n) PROVE CalmInv'
  BY <1>24, <1>type DEF Rotate, Calm
<1>25. ASSUME NEW n \in Names, NEW i \in Inodes, Create(n, i) PROVE CalmInv'
  BY <1>25, <1>type, <1>calm, ConstantsAssumption DEF Create, CalmInv, NothingPassed, StoredUpTo, IsDownload, load_pos
<1>26. ASSUME NEW n \in Names, NEW kind \in Kinds, WriteLine(n, kind) PROVE CalmInv'
  <2>1. \A i \in Inodes : /\ Len(content[i]) \in Nat /\ Len(content'[i]) \in Nat
                           /\ Len(content[i]) <= Len(content'[i])
    BY <1>26, <1>type DEF WriteLine
  <2>2. \A i \in Inodes : \A k \in 1..Len(content[i]) : IsDownload(i, k)' <=> IsDownload(i, k)
    BY <1>26, <1>type DEF WriteLine, IsDownload
  <2>3. load_pos' = load_pos /\ load_pos \in Nat
    BY <1>26, <1>type DEF WriteLine, load_pos
  <2>4. UNCHANGED <<dir, name, cfgName, pc, conn, fh, pos, off, copies, batch>>
    BY <1>26 DEF WriteLine
  <2>5. ASSUME fh # None, NEW k \in 1..off, IsDownload(fh, k)'
        PROVE  copies[<<fh, k>>] >= 1 \/ <<fh, k>> \in batch
    <3>1. fh \in Inodes /\ k \in 1..Len(content[fh])
      BY <2>1, <2>5, <1>type DEF ProcessInv
    <3>2. IsDownload(fh, k)
      BY <2>2, <2>4, <2>5, <3>1 DEF IsDownload
    <3> QED
      BY <2>5, <3>2, <1>calm DEF CalmInv, NothingPassed
  <2>6. ASSUME dir[name] # None
        PROVE  /\ load_pos <= Len(content'[dir[name]]) /\ pos <= Len(content'[dir[name]])
               /\ StoredUpTo(dir[name], load_pos)'
               /\ pc # "commit" => StoredUpTo(dir[name], pos)'
    <3>1. dir[name] \in Inodes
      BY <2>6, <1>type
    <3>2. load_pos <= Len(content[dir[name]]) /\ pos <= Len(content[dir[name]])
      BY <2>6, <1>calm DEF CalmInv, NothingPassed
    <3>3. load_pos <= Len(content'[dir[name]]) /\ pos <= Len(content'[dir[name]])
      BY <2>1, <2>3, <3>1, <3>2, <1>type
    <3>4. ASSUME NEW l \in Nat, l <= Len(content[dir[name]]), StoredUpTo(dir[name], l)
          PROVE  \A k \in 1..l : (k \in DOMAIN content'[dir[name]] /\ content'[dir[name]][k] = "download")
                                   => copies[<<dir[name], k>>] >= 1
      BY <2>1, <2>2, <3>1, <3>4 DEF StoredUpTo, IsDownload
    <3>5. StoredUpTo(dir[name], load_pos)'
      BY <2>3, <2>4, <2>6, <3>2, <3>4, <1>calm DEF CalmInv, NothingPassed, StoredUpTo, IsDownload
    <3>6. pc # "commit" => StoredUpTo(dir[name], pos)'
      BY <2>4, <2>6, <3>2, <3>4, <1>type, <1>calm DEF CalmInv, NothingPassed, StoredUpTo, IsDownload
    <3> QED
      BY <3>3, <3>5, <3>6
  <2> QED
    BY <2>3, <2>4, <2>5, <2>6, <1>calm DEF CalmInv, NothingPassed
<1>27. CASE UNCHANGED vars
  BY <1>27, <1>calm DEF vars, CalmInv, NothingPassed, StoredUpTo, IsDownload, load_pos
<1> QED
  BY <1>1, <1>2, <1>3, <1>4, <1>5, <1>6, <1>7, <1>8, <1>9, <1>10, <1>11, <1>12, <1>13, <1>14,
     <1>15, <1>16, <1>17, <1>18, <1>19, <1>20, <1>21, <1>22, <1>23, <1>24, <1>25, <1>26, <1>27
     DEF Next, Iteration, Poll, Faults, Environment

(***************************************************************************)
(* CrashSafe: without database failure, rotation or change of the setting, *)
(* no download before the saved position is missing, however often the     *)
(* tailer dies (the commit comes before save_pos, tailer.py 312-313).      *)
(***************************************************************************)
THEOREM CrashesLoseNothing == Spec => []CrashSafe
<1>1. Init => TypeOK /\ ProcessInv /\ CrashInv
  BY TypeInit, ProcessInit, CrashInit
<1>2. TypeOK /\ ProcessInv /\ CrashInv /\ [Next]_vars => (TypeOK /\ ProcessInv /\ CrashInv)'
  BY TypeStep, ProcessStep, CrashStep
<1>3. TypeOK /\ CrashInv => CrashSafe
  BY ConstantsAssumption DEF TypeOK, CrashInv, CalmInv, NothingPassed, CrashSafe, NothingSkipped, StoredUpTo
<1> QED
  BY <1>1, <1>2, <1>3, PTL DEF Spec

(***************************************************************************)
(* The rows of the tailer are those of Ledger: a step of the tailer stores *)
(* a batch that Ledger would store, or restarts a file as Ledger may, or   *)
(* neither.                                                                *)
(***************************************************************************)
LEMMA LedgerStep ==
    TypeOK /\ TypeOK' /\ DuplicatesInv /\ [Next]_vars => [Rows!Next]_<<copies, Restarts>>
<1> SUFFICES ASSUME TypeOK, TypeOK', DuplicatesInv, [Next]_vars
             PROVE  [Rows!Next]_<<copies, Restarts>>
  OBVIOUS
<1> USE DEF logVars, dbVars, tailerVars, historyVars
<1>type. crashes \in Nat /\ switches \in Nat /\ batch \subseteq Places
  BY DEF TypeOK
<1>stutter. ASSUME UNCHANGED <<copies, name, cfgName, crashes, switches>>
            PROVE  UNCHANGED <<copies, Restarts>>
  BY <1>stutter DEF Restarts
<1>restart. ASSUME copies' = copies, Restarts' \in {Restarts, Restarts + 1, Restarts + 2}
            PROVE  [Rows!Next]_<<copies, Restarts>>
  BY <1>restart DEF Rows!Next, Rows!Restart
<1>store. ASSUME copies' = Stored(batch), UNCHANGED <<name, cfgName, crashes, switches>>
          PROVE  [Rows!Next]_<<copies, Restarts>>
  <2>1. Restarts' = Restarts
    BY <1>store DEF Restarts
  <2>2. Rows!Store(batch)
    BY <1>store, <2>1 DEF Rows!Store, Stored, DuplicatesInv
  <2> QED
    BY <2>2, <1>type DEF Rows!Next
<1>1. CASE Start
  BY <1>1, <1>restart, <1>type DEF Start, Restarts
<1>2. CASE PollSwitch
  BY <1>2, <1>restart, <1>type DEF PollSwitch, Restarts
<1>3. CASE Commit
  BY <1>3, <1>store DEF Commit
<1>4. CASE CommitUnanswered
  BY <1>4, <1>store DEF CommitUnanswered
<1>5. CASE Crash
  BY <1>5, <1>restart, <1>type DEF Crash, Restarts
<1>6. ASSUME NEW n \in Names, SetFilename(n) PROVE [Rows!Next]_<<copies, Restarts>>
  BY <1>6, <1>restart, <1>type DEF SetFilename, Restarts
<1>7. CASE PollSkip \/ PollSame \/ PollFail \/ KeepOpen \/ OpenFile \/ NoLogFile
  BY <1>7, <1>stutter DEF PollSkip, PollSame, PollFail, KeepOpen, OpenFile, NoLogFile
<1>8. CASE ReadNothing \/ ReadBatch \/ Insert \/ InsertLost \/ InsertClosed \/ InsertRefused
  BY <1>8, <1>stutter DEF ReadNothing, ReadBatch, Insert, InsertLost, InsertClosed, InsertRefused
<1>9. CASE CommitLost \/ Reconnect \/ SavePos \/ DbStop \/ DbStart \/ UNCHANGED vars
  BY <1>9, <1>stutter DEF CommitLost, Reconnect, SavePos, DbStop, DbStart, vars
<1>10. ASSUME NEW n \in Names,
              Rotate(n) \/ (\E i \in Inodes : Create(n, i)) \/ (\E kind \in Kinds : WriteLine(n, kind))
       PROVE  [Rows!Next]_<<copies, Restarts>>
  BY <1>10, <1>stutter DEF Rotate, Create, WriteLine
<1> QED
  BY <1>1, <1>2, <1>3, <1>4, <1>5, <1>6, <1>7, <1>8, <1>9, <1>10
     DEF Next, Iteration, Poll, Faults, Environment

(***************************************************************************)
(* ImplementsLedger: every behaviour of the tailer, with whatever fails,   *)
(* is one of Ledger, its restarts being the crashes and the changes of the *)
(* setting that the tailer has taken up.                                   *)
(***************************************************************************)
THEOREM TailerImplementsLedger == Spec => ImplementsLedger
<1>1. Init => Rows!Init
  BY DEF Init, Restarts, Rows!Init
<1>2. TypeOK /\ DuplicatesInv /\ [Next]_vars => [Rows!Next]_<<copies, Restarts>>
  BY TypeStep, LedgerStep
<1> QED
  BY <1>1, <1>2, InvariantHolds, PTL DEF Spec, ImplementsLedger, Rows!Spec

(***************************************************************************)
(* DuplicatesInv and CrashInv, which the theorems above rest on: the first *)
(* says where a line that was stored once too often can still be.          *)
(***************************************************************************)
THEOREM DuplicatesAreBehind == Spec => []DuplicatesInv
BY InvariantHolds, PTL

(***************************************************************************)
(* The second says what is stored, in the batch or unread while only the   *)
(* tailer fails.                                                           *)
(***************************************************************************)
THEOREM CrashInvHolds == Spec => []CrashInv
<1>1. Init => TypeOK /\ ProcessInv /\ CrashInv
  BY TypeInit, ProcessInit, CrashInit
<1>2. TypeOK /\ ProcessInv /\ CrashInv /\ [Next]_vars => (TypeOK /\ ProcessInv /\ CrashInv)'
  BY TypeStep, ProcessStep, CrashStep
<1> QED
  BY <1>1, <1>2, PTL DEF Spec

(***************************************************************************)
(* Without database failure, rotation or switch, the position that is      *)
(* shown is within the log, and what is before it is stored.               *)
(***************************************************************************)
ShownInv ==
    Calm => /\ dir[cfgName] = None => shown = 0
            /\ dir[cfgName] # None => /\ shown <= Len(content[dir[cfgName]])
                                      /\ StoredUpTo(dir[cfgName], shown)

\* Nothing is shown when the system starts.
LEMMA ShownInit == Init => ShownInv
BY DEF Init, ShownInv, StoredUpTo

\* A commit shows the position in memory, which CrashInv is about; any other
\* step leaves what is shown, and a line that is written comes after it.
LEMMA ShownStep ==
    TypeOK /\ TypeOK' /\ CrashInv' /\ ShownInv /\ [Next]_vars => ShownInv'
<1> SUFFICES ASSUME TypeOK, TypeOK', CrashInv', ShownInv, [Next]_vars, Calm'
             PROVE  /\ dir'[cfgName'] = None => shown' = 0
                    /\ dir'[cfgName'] # None => /\ shown' <= Len(content'[dir'[cfgName']])
                                                /\ StoredUpTo(dir[cfgName], shown)'
  BY DEF ShownInv
<1> USE DEF logVars, dbVars, tailerVars, historyVars
<1>type. /\ shown \in Nat /\ dir \in [Names -> Inodes \cup {None}] /\ cfgName \in Names
         /\ content \in [Inodes -> Seq(Kinds)] /\ None \notin Inodes
         /\ dbFaults \in Nat /\ rotations \in Nat /\ switches \in Nat
  BY ConstantsAssumption DEF TypeOK
<1>calm. /\ dir[cfgName] = None => shown = 0
         /\ dir[cfgName] # None => shown <= Len(content[dir[cfgName]]) /\ StoredUpTo(dir[cfgName], shown)
  <2>1. dbFaults <= dbFaults' /\ rotations <= rotations' /\ switches <= switches'
    BY <1>type DEF vars, Next, Iteration, Poll, Faults, Environment, Start, PollSkip, PollSame, PollSwitch, PollFail, KeepOpen, OpenFile, NoLogFile, ReadNothing, ReadBatch, Insert, InsertLost, InsertClosed, InsertRefused, Commit, CommitLost, CommitUnanswered, Reconnect, SavePos, Crash, DbStop, DbStart,
       SetFilename, Rotate, Create, WriteLine
  <2> QED
    BY <2>1, <1>type DEF Calm, ShownInv
<1>same. CASE UNCHANGED <<dir, content, cfgName, shown, copies>>
  BY <1>same, <1>calm DEF StoredUpTo, IsDownload
<1>1. CASE Commit
  <2>1. shown' = pos' /\ pc' = "save" /\ CalmInv'
    BY <1>1 DEF Commit, CrashInv
  <2> QED
    BY <2>1 DEF CalmInv, NothingPassed
<1>2. ASSUME NEW n \in Names, NEW i \in Inodes, Create(n, i)
      PROVE  /\ dir'[cfgName'] = None => shown' = 0
             /\ dir'[cfgName'] # None => /\ shown' <= Len(content'[dir'[cfgName']])
                                         /\ StoredUpTo(dir[cfgName], shown)'
  <2>1. UNCHANGED <<content, cfgName, shown, copies>>
    BY <1>2 DEF Create
  <2>2. CASE n = cfgName
    <3>1. dir[cfgName] = None /\ dir'[cfgName] = i /\ shown = 0
      BY <1>2, <2>2, <1>type, <1>calm DEF Create
    <3> QED
      BY <2>1, <3>1, <1>type DEF StoredUpTo
  <2>3. CASE n # cfgName
    BY <1>2, <2>1, <2>3, <1>type, <1>calm DEF Create, StoredUpTo, IsDownload
  <2> QED
    BY <2>2, <2>3
<1>3. ASSUME NEW n \in Names, NEW kind \in Kinds, WriteLine(n, kind)
      PROVE  /\ dir'[cfgName'] = None => shown' = 0
             /\ dir'[cfgName'] # None => /\ shown' <= Len(content'[dir'[cfgName']])
                                         /\ StoredUpTo(dir[cfgName], shown)'
  <2>1. UNCHANGED <<dir, cfgName, shown, copies>>
    BY <1>3 DEF WriteLine
  <2>2. \A i \in Inodes : /\ Len(content[i]) \in Nat /\ Len(content'[i]) \in Nat
                           /\ Len(content[i]) <= Len(content'[i])
    BY <1>3, <1>type DEF WriteLine
  <2>3. \A i \in Inodes : \A k \in 1..Len(content[i]) : IsDownload(i, k)' <=> IsDownload(i, k)
    BY <1>3, <1>type DEF WriteLine, IsDownload
  <2>4. CASE dir[cfgName] # None
    <3>1. dir[cfgName] \in Inodes /\ shown <= Len(content[dir[cfgName]])
      BY <2>4, <1>type, <1>calm
    <3>2. ASSUME NEW k \in 1..shown, IsDownload(dir[cfgName], k)'
          PROVE  copies[<<dir[cfgName], k>>] >= 1
      <4>1. k \in 1..Len(content[dir[cfgName]])
        BY <2>2, <3>1, <1>type
      <4>2. IsDownload(dir[cfgName], k)
        BY <2>1, <2>3, <3>1, <3>2, <4>1 DEF IsDownload
      <4> QED
        BY <2>4, <4>2, <1>calm DEF StoredUpTo
    <3> QED
      BY <2>1, <2>2, <3>1, <3>2, <1>type DEF StoredUpTo, IsDownload
  <2> QED
    BY <2>1, <2>4, <1>calm
<1>4. CASE CommitUnanswered
  BY <1>4, <1>type DEF CommitUnanswered, Calm
<1>5. ASSUME NEW n \in Names, SetFilename(n) \/ Rotate(n) PROVE FALSE
  BY <1>5, <1>type DEF SetFilename, Rotate, Calm
<1>6. CASE Start \/ PollSkip \/ PollSame \/ PollSwitch \/ PollFail \/ KeepOpen \/ OpenFile \/ NoLogFile
  BY <1>6, <1>same DEF Start, PollSkip, PollSame, PollSwitch, PollFail, KeepOpen, OpenFile, NoLogFile
<1>7. CASE ReadNothing \/ ReadBatch \/ Insert \/ InsertLost \/ InsertClosed \/ InsertRefused
  BY <1>7, <1>same DEF ReadNothing, ReadBatch, Insert, InsertLost, InsertClosed, InsertRefused
<1>8. CASE CommitLost \/ Reconnect \/ SavePos \/ Crash \/ DbStop \/ DbStart \/ UNCHANGED vars
  BY <1>8, <1>same DEF CommitLost, Reconnect, SavePos, Crash, DbStop, DbStart, vars
<1> QED
  BY <1>1, <1>2, <1>3, <1>4, <1>5, <1>6, <1>7, <1>8 DEF Next, Iteration, Poll, Faults, Environment

(***************************************************************************)
(* ShownStored: the position that the settings page shows is never ahead   *)
(* of the stored downloads, as long as only the tailer fails: it is        *)
(* committed with the rows (tailer.py 303-312).                            *)
(***************************************************************************)
THEOREM ShownIsStored == Spec => []ShownStored
<1>1. Init => ShownInv
  BY ShownInit
<1>2. TypeOK /\ CrashInv' /\ ShownInv /\ [Next]_vars => ShownInv'
  BY ShownStep, TypeStep
<1>3. TypeOK /\ ShownInv => ShownStored
  BY DEF TypeOK, ShownInv, ShownStored, StoredUpTo
<1> QED
  BY <1>1, <1>2, <1>3, TypeCorrect, CrashInvHolds, PTL DEF Spec
=============================================================================
