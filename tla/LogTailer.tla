----------------------------- MODULE LogTailer -----------------------------
(***************************************************************************)
(* The log tailer (logtailer/tailer.py): one process that follows a log    *)
(* file by name, stores the downloads it finds in PostgreSQL and keeps its *)
(* position in a file, so that a restart goes on where it stopped.         *)
(*                                                                         *)
(* A file is an inode and its lines; a position counts lines.  A line is a *)
(* download (parse_line returns a row) or another line (it returns None).  *)
(* A download is known by its place, <<inode, number of the line>>, so     *)
(* that the rows stored for it can be counted.                             *)
(***************************************************************************)
EXTENDS Integers, Sequences

CONSTANTS Names,        \* file names in the log directory
          Inodes,       \* the files that ever have one of these names
          None,         \* no file
          BatchLimit,   \* lines read in one iteration (BATCH_SIZE * 10)
          MaxLen,       \* bound: lines appended to one file
          MaxCrashes,   \* bound: crashes of the tailer
          MaxDbFaults,  \* bound: failures of the database
          MaxRotations, \* bound: rotations of a log file
          MaxSwitches   \* bound: changes of the log_filename setting

ASSUME ConstantsAssumption ==
    /\ None \notin Inodes
    /\ BatchLimit \in Nat \ {0}
    /\ {MaxLen, MaxCrashes, MaxDbFaults, MaxRotations, MaxSwitches} \subseteq Nat

VARIABLES
    \* the log directory
    dir,       \* the file each name stands for, or None
    content,   \* the lines of each file
    \* the logs database
    dbUp,      \* it answers
    cfgName,   \* tailer_config: log_filename
    shown,     \* tailer_config: tailer_pos, which the settings page shows
    copies,    \* rows stored for each place
    \* the tailer's volume
    posFile,   \* the saved position, or Blank
    \* the tailer's process
    pc, name, pos, fh, off, batch, conn,
    \* history
    crashes, dbFaults, rotations, switches

logVars     == <<dir, content>>
dbVars      == <<dbUp, cfgName, shown, copies>>
tailerVars  == <<pc, name, pos, fh, off, batch, conn>>
historyVars == <<crashes, dbFaults, rotations, switches>>
vars        == <<logVars, dbVars, posFile, tailerVars, historyVars>>

Kinds  == {"download", "other"}
Places == Inodes \X (1..MaxLen)

\* A position file that save_pos opened for writing and has not written yet.
Blank == -1

-----------------------------------------------------------------------------
\* Mutant of load_pos: the empty file is not handled.
load_posUnchecked == posFile

load_pos == IF posFile = Blank THEN 0 ELSE posFile

\* Mutant of OpenedAt: always the end of the file.
OpenedAtEnd(p, i) == Len(content[i])

\* Where a handle opened on file i stands: past the position, or, if the
\* file is shorter than that, at its start.
OpenedAt(p, i) == IF p > Len(content[i]) THEN 0 ELSE p

\* How far one iteration reads.
ReadTo == IF off + BatchLimit < Len(content[fh]) THEN off + BatchLimit ELSE Len(content[fh])

\* The downloads between the handle and there.
ReadDownloads == {p \in Places : /\ p[1] = fh
                                 /\ p[2] \in (off + 1)..ReadTo
                                 /\ content[fh][p[2]] = "download"}

\* A file that no name and no handle refers to and that holds nothing can
\* become the file of a name.
Unused(i) == content[i] = <<>> /\ i # fh /\ \A n \in Names : dir[n] # i

Init ==
    /\ dir = [n \in Names |-> None]
    /\ content = [i \in Inodes |-> <<>>]
    /\ dbUp = TRUE
    /\ cfgName \in Names
    /\ shown = 0
    /\ copies = [p \in Places |-> 0]
    /\ posFile = 0
    /\ pc = "off" /\ name = cfgName /\ pos = 0 /\ fh = None /\ off = 0
    /\ batch = {} /\ conn = "none"
    /\ crashes = 0 /\ dbFaults = 0 /\ rotations = 0 /\ switches = 0

-----------------------------------------------------------------------------
(***************************************************************************)
(* The tailer.  Before the loop: connect (waiting for the database), read  *)
(* the position file and the name of the log.                              *)
(***************************************************************************)
Start ==
    /\ pc = "off" /\ dbUp
    /\ pos' = load_pos
    /\ name' = cfgName
    /\ conn' = "open"
    /\ pc' = "open"
    /\ UNCHANGED <<logVars, dbVars, posFile, fh, off, batch, historyVars>>

\* It is not yet time to look at the settings.
PollSkip ==
    /\ pc = "poll"
    /\ pc' = "open"
    /\ UNCHANGED <<logVars, dbVars, posFile, name, pos, fh, off, batch, conn, historyVars>>

PollSame ==
    /\ pc = "poll" /\ conn = "open" /\ cfgName = name
    /\ pc' = "open"
    /\ UNCHANGED <<logVars, dbVars, posFile, name, pos, fh, off, batch, conn, historyVars>>

\* Mutant of PollSwitch: the current name is not updated.
PollSwitchKeepingName ==
    /\ pc = "poll" /\ conn = "open" /\ cfgName # name
    /\ fh' = None /\ off' = 0 /\ pos' = 0
    /\ posFile' = Blank
    /\ pc' = "save"
    /\ UNCHANGED <<logVars, dbVars, name, batch, conn, historyVars>>

\* A new file name: drop the handle and start at 0.  save_pos(0) begins.
PollSwitch ==
    /\ pc = "poll" /\ conn = "open" /\ cfgName # name
    /\ name' = cfgName
    /\ fh' = None /\ off' = 0 /\ pos' = 0
    /\ posFile' = Blank
    /\ pc' = "save"
    /\ UNCHANGED <<logVars, dbVars, batch, conn, historyVars>>

\* The query fails; the exception is logged and the connection kept.  The
\* driver closes a connection whose server is gone.
PollFail ==
    /\ pc = "poll" /\ conn # "open"
    /\ conn' = "closed"
    /\ pc' = "open"
    /\ UNCHANGED <<logVars, dbVars, posFile, name, pos, fh, off, batch, historyVars>>

KeepOpen ==
    /\ pc = "open" /\ fh # None
    /\ pc' = "read"
    /\ UNCHANGED <<logVars, dbVars, posFile, name, pos, fh, off, batch, conn, historyVars>>

\* Open the log, or reopen it every REOPEN_INTERVAL.
OpenFile ==
    /\ pc = "open" /\ dir[name] # None
    /\ fh' = dir[name]
    /\ pos' = OpenedAt(pos, dir[name])
    /\ off' = pos'
    /\ pc' = "read"
    /\ UNCHANGED <<logVars, dbVars, posFile, name, batch, conn, historyVars>>

\* FileNotFoundError: back to the top of the loop.
NoLogFile ==
    /\ pc = "open" /\ dir[name] = None
    /\ fh' = None /\ off' = 0
    /\ pc' = "poll"
    /\ UNCHANGED <<logVars, dbVars, posFile, name, pos, batch, conn, historyVars>>

\* No download among the lines read, or no line: save_pos if the handle moved.
ReadNothing ==
    /\ pc = "read" /\ ReadDownloads = {}
    /\ off' = ReadTo
    /\ pos' = ReadTo
    /\ IF ReadTo = pos THEN pc' = "poll" /\ UNCHANGED posFile
                       ELSE pc' = "save" /\ posFile' = Blank
    /\ UNCHANGED <<logVars, dbVars, name, fh, batch, conn, historyVars>>

ReadBatch ==
    /\ pc = "read" /\ ReadDownloads # {}
    /\ batch' = ReadDownloads
    /\ off' = ReadTo
    /\ pc' = "insert"
    /\ UNCHANGED <<logVars, dbVars, posFile, name, pos, fh, conn, historyVars>>

\* Mutants of Insert: the position is saved before the commit; it is not
\* advanced; it is shown at once, outside the transaction.
InsertSavingPos ==
    /\ pc = "insert" /\ conn = "open"
    /\ pos' = off /\ posFile' = off
    /\ pc' = "commit"
    /\ UNCHANGED <<logVars, dbVars, name, fh, off, batch, conn, historyVars>>

InsertKeepingPos ==
    /\ pc = "insert" /\ conn = "open"
    /\ pc' = "commit"
    /\ UNCHANGED <<logVars, dbVars, posFile, name, pos, fh, off, batch, conn, historyVars>>

InsertShowingPos ==
    /\ pc = "insert" /\ conn = "open"
    /\ pos' = off /\ shown' = off
    /\ pc' = "commit"
    /\ UNCHANGED <<logVars, dbUp, cfgName, copies, posFile, name, fh, off, batch, conn, historyVars>>

\* The INSERTs succeed; the position advances before the commit.
Insert ==
    /\ pc = "insert" /\ conn = "open"
    /\ pos' = off
    /\ pc' = "commit"
    /\ UNCHANGED <<logVars, dbVars, posFile, name, fh, off, batch, conn, historyVars>>

\* The server is gone: OperationalError, and a new connection.
InsertLost ==
    /\ pc = "insert" /\ conn = "lost"
    /\ batch' = {} /\ conn' = "none"
    /\ pc' = "reconnect"
    /\ UNCHANGED <<logVars, dbVars, posFile, name, pos, fh, off, historyVars>>

\* The connection was closed before: InterfaceError, which is not an
\* OperationalError.  The rollback fails too and the loop goes on.
InsertClosed ==
    /\ pc = "insert" /\ conn = "closed"
    /\ batch' = {}
    /\ pc' = "poll"
    /\ UNCHANGED <<logVars, dbVars, posFile, name, pos, fh, off, conn, historyVars>>

\* The database refuses the rows and keeps the connection: rollback.
InsertRefused ==
    /\ pc = "insert" /\ conn = "open" /\ dbFaults < MaxDbFaults
    /\ dbFaults' = dbFaults + 1
    /\ batch' = {}
    /\ pc' = "poll"
    /\ UNCHANGED <<logVars, dbVars, posFile, name, pos, fh, off, conn, crashes, rotations, switches>>

\* What a commit makes of the stored rows.
Stored(places) == [p \in Places |-> IF p \in places THEN copies[p] + 1 ELSE copies[p]]

\* The commit succeeds; save_pos begins.
Commit ==
    /\ pc = "commit" /\ conn = "open"
    /\ copies' = Stored(batch)
    /\ shown' = pos
    /\ batch' = {}
    /\ posFile' = Blank
    /\ pc' = "save"
    /\ UNCHANGED <<logVars, dbUp, cfgName, name, pos, fh, off, conn, historyVars>>

\* The server went away before the commit.
CommitLost ==
    /\ pc = "commit" /\ conn = "lost"
    /\ batch' = {} /\ conn' = "none"
    /\ pc' = "reconnect"
    /\ UNCHANGED <<logVars, dbVars, posFile, name, pos, fh, off, historyVars>>

\* The server commits and the connection breaks before its answer.
CommitUnanswered ==
    /\ pc = "commit" /\ conn = "open" /\ dbFaults < MaxDbFaults
    /\ dbFaults' = dbFaults + 1
    /\ copies' = Stored(batch)
    /\ shown' = pos
    /\ batch' = {} /\ conn' = "none"
    /\ pc' = "reconnect"
    /\ UNCHANGED <<logVars, dbUp, cfgName, posFile, name, pos, fh, off, crashes, rotations, switches>>

Reconnect ==
    /\ pc = "reconnect" /\ dbUp
    /\ conn' = "open"
    /\ pc' = "poll"
    /\ UNCHANGED <<logVars, dbVars, posFile, name, pos, fh, off, batch, historyVars>>

\* save_pos writes the number.  After a switch (no handle) the loop goes on
\* to open the file, otherwise the iteration ends.
SavePos ==
    /\ pc = "save"
    /\ posFile' = pos
    /\ pc' = IF fh = None THEN "open" ELSE "poll"
    /\ UNCHANGED <<logVars, dbVars, name, pos, fh, off, batch, conn, historyVars>>

-----------------------------------------------------------------------------
(***************************************************************************)
(* The tailer dies anywhere and is started again (restart: unless-stopped).*)
(* Rows that were not committed are rolled back.                           *)
(***************************************************************************)
Crash ==
    /\ pc # "off" /\ crashes < MaxCrashes
    /\ crashes' = crashes + 1
    /\ pc' = "off" /\ name' = cfgName /\ pos' = 0 /\ fh' = None /\ off' = 0
    /\ batch' = {} /\ conn' = "none"
    /\ UNCHANGED <<logVars, dbVars, posFile, dbFaults, rotations, switches>>

DbStop ==
    /\ dbUp /\ dbFaults < MaxDbFaults
    /\ dbUp' = FALSE
    /\ dbFaults' = dbFaults + 1
    /\ conn' = IF conn = "open" THEN "lost" ELSE conn
    /\ UNCHANGED <<logVars, cfgName, shown, copies, posFile, pc, name, pos, fh, off, batch,
                   crashes, rotations, switches>>

DbStart ==
    /\ ~dbUp
    /\ dbUp' = TRUE
    /\ UNCHANGED <<logVars, cfgName, shown, copies, posFile, tailerVars, historyVars>>

\* update_log_settings of the web backend.
SetFilename(n) ==
    /\ dbUp /\ n # cfgName /\ switches < MaxSwitches
    /\ switches' = switches + 1
    /\ cfgName' = n
    /\ UNCHANGED <<logVars, dbUp, shown, copies, posFile, tailerVars, crashes, dbFaults, rotations>>

\* ProFTPd opens a log that does not exist, and writes lines to it.
Create(n, i) ==
    /\ dir[n] = None /\ Unused(i)
    /\ dir' = [dir EXCEPT ![n] = i]
    /\ UNCHANGED <<content, dbVars, posFile, tailerVars, historyVars>>

WriteLine(n, kind) ==
    /\ dir[n] # None /\ Len(content[dir[n]]) < MaxLen
    /\ content' = [content EXCEPT ![dir[n]] = Append(@, kind)]
    /\ UNCHANGED <<dir, dbVars, posFile, tailerVars, historyVars>>

\* The log is renamed away; the tailer may still have it open.
Rotate(n) ==
    /\ dir[n] # None /\ rotations < MaxRotations
    /\ rotations' = rotations + 1
    /\ dir' = [dir EXCEPT ![n] = None]
    /\ UNCHANGED <<content, dbVars, posFile, tailerVars, crashes, dbFaults, switches>>

Poll      == PollSame \/ PollSwitch \/ PollFail
Iteration == \/ PollSkip \/ Poll \/ KeepOpen \/ OpenFile \/ NoLogFile
             \/ ReadNothing \/ ReadBatch
             \/ Insert \/ InsertLost \/ InsertClosed
             \/ Commit \/ CommitLost \/ Reconnect \/ SavePos

Faults == Crash \/ DbStop \/ InsertRefused \/ CommitUnanswered

Environment ==
    \/ DbStart
    \/ \E n \in Names : \/ SetFilename(n)
                        \/ Rotate(n)
                        \/ \E i \in Inodes : Create(n, i)
                        \/ \E kind \in Kinds : WriteLine(n, kind)

Next == Start \/ Iteration \/ Faults \/ Environment

Spec == Init /\ [][Next]_vars

(***************************************************************************)
(* The tailer runs and is restarted, the database is restarted.  The two   *)
(* intervals are times of a clock: the loop, which goes on for ever, meets *)
(* each of them again and again, so the settings are read and the file is  *)
(* reopened infinitely often.                                              *)
(***************************************************************************)
Fairness ==
    /\ WF_vars(Start) /\ WF_vars(Iteration) /\ WF_vars(DbStart)
    /\ SF_vars(Poll) /\ SF_vars(OpenFile)

FairSpec == Spec /\ Fairness

-----------------------------------------------------------------------------
TypeOK ==
    /\ dir \in [Names -> Inodes \cup {None}]
    /\ content \in [Inodes -> Seq(Kinds)]
    /\ dbUp \in BOOLEAN
    /\ cfgName \in Names
    /\ shown \in Nat
    /\ copies \in [Places -> Nat]
    /\ posFile \in Nat \cup {Blank}
    /\ pc \in {"off", "poll", "open", "read", "insert", "commit", "save", "reconnect"}
    /\ name \in Names
    /\ pos \in Nat /\ off \in Nat
    /\ fh \in Inodes \cup {None} /\ (pc \in {"read", "insert", "commit"} => fh # None)
    /\ batch \subseteq Places
    /\ conn \in {"none", "open", "lost", "closed"}
    /\ crashes \in Nat /\ dbFaults \in Nat /\ rotations \in Nat /\ switches \in Nat

IsDownload(i, k) == k \in DOMAIN content[i] /\ content[i][k] = "download"

(***************************************************************************)
(* A download is stored again at most once for each crash of the tailer    *)
(* and each change of the log_filename setting, whatever the database and  *)
(* the log rotation do: losing a connection, even after the server has     *)
(* committed, and reopening the file store nothing twice.                  *)
(***************************************************************************)
DuplicatesBounded == \A p \in Places : copies[p] <= 1 + crashes + switches

(***************************************************************************)
(* Nothing is skipped: every download before the saved position of the log *)
(* that the setting names is stored.                                       *)
(***************************************************************************)
NothingSkipped ==
    dir[cfgName] # None =>
      \A k \in 1..load_pos : IsDownload(dir[cfgName], k) => copies[<<dir[cfgName], k>>] >= 1

\* The database did not fail, the log was not rotated nor its name changed.
Calm == dbFaults = 0 /\ rotations = 0 /\ switches = 0

(***************************************************************************)
(* A crash alone skips nothing: this is the order commit, then save_pos    *)
(* (tailer.py 312-313).                                                    *)
(***************************************************************************)
CrashSafe == Calm => NothingSkipped

(***************************************************************************)
(* The position that the settings page shows is never ahead of the stored  *)
(* downloads, in memory of the tailer and across its crashes, as long as   *)
(* the same three do not happen: it is committed with the rows.            *)
(***************************************************************************)
ShownStored ==
    Calm /\ dir[cfgName] # None =>
      \A k \in 1..shown : IsDownload(dir[cfgName], k) => copies[<<dir[cfgName], k>>] >= 1

(***************************************************************************)
(* Nothing is passed by: every download behind the handle is stored or in  *)
(* the batch.  It is what opening a file at a position has to ensure, which*)
(* was the position in another file if the log was rotated, or the setting *)
(* changed while the tailer was down.                                      *)
(***************************************************************************)
NothingPassed ==
    fh # None =>
      \A k \in 1..off : IsDownload(fh, k) => copies[<<fh, k>>] >= 1 \/ <<fh, k>> \in batch

(***************************************************************************)
(* Every download in the log that the log_filename setting names is stored *)
(* in the end, across crashes and reopenings of the file, unless the       *)
(* setting is changed first.                                               *)
(***************************************************************************)
EventuallyStored ==
    \A p \in Places :
      IsDownload(p[1], p[2]) /\ dir[cfgName] = p[1] ~> copies[p] >= 1 \/ switches > 0

(***************************************************************************)
(* The tailer follows the log_filename setting: once the setting stays, the*)
(* tailer reads that file for good.                                        *)
(***************************************************************************)
FollowsSetting == <>[](name = cfgName)

-----------------------------------------------------------------------------
(***************************************************************************)
(* The inductive invariants behind DuplicatesBounded and CrashSafe.        *)
(* ProcessInv relates the parts of the tailer and of the directory.        *)
(***************************************************************************)
ProcessInv ==
    /\ \A m, n \in Names : dir[m] = dir[n] /\ dir[m] # None => m = n
    /\ fh # None => \A n \in Names : dir[n] = fh => n = name
    /\ fh # None => pos <= off /\ off <= Len(content[fh])
    /\ \A i \in Inodes : Len(content[i]) <= MaxLen
    /\ pc = "off" => fh = None
    /\ pc \notin {"insert", "commit"} => batch = {}
    /\ pc = "commit" => pos = off
    /\ \A p \in batch : p[1] = fh /\ p[2] <= off
    /\ \A p \in Places : copies[p] > 0 => p[2] <= Len(content[p[1]])

\* The times the tailer has been made to start a file again.
Restarts == crashes + switches - (IF name # cfgName THEN 1 ELSE 0)

\* A file that can never be opened again.
Abandoned(i) == i # fh /\ content[i] # <<>> /\ \A n \in Names : dir[n] # i

Behind(p) == (p[1] = fh /\ p[2] <= pos) \/ Abandoned(p[1])

(***************************************************************************)
(* A line stored once more than the tailer was restarted is behind the     *)
(* position in the open file, or in an abandoned one, and not in the batch.*)
(***************************************************************************)
DuplicatesInv ==
    /\ name # cfgName => switches > 0
    /\ \A p \in Places : copies[p] <= 1 + Restarts
    /\ \A p \in Places : copies[p] > Restarts => Behind(p)
    /\ \A p \in batch : copies[p] <= Restarts

\* Every download among the first n lines of file i is stored.
StoredUpTo(i, n) == \A k \in 1..n : IsDownload(i, k) => copies[<<i, k>>] >= 1

(***************************************************************************)
(* Without database failure, rotation or switch, what is behind the handle *)
(* is stored or in the batch, and what is behind the position in memory or *)
(* in the position file is stored.                                         *)
(***************************************************************************)
CalmInv ==
    /\ name = cfgName
    /\ pc # "off" => conn = "open"
    /\ pc # "reconnect"
    /\ fh # None => fh = dir[name]
    /\ dir[name] = None => load_pos = 0 /\ pos = 0
    /\ dir[name] # None => load_pos <= Len(content[dir[name]]) /\ pos <= Len(content[dir[name]])
    /\ dir[name] # None => StoredUpTo(dir[name], load_pos)
    /\ dir[name] # None /\ pc # "commit" => StoredUpTo(dir[name], pos)
    /\ NothingPassed

CrashInv == Calm => CalmInv

-----------------------------------------------------------------------------
(***************************************************************************)
(* The tailer implements Ledger: whatever it does with its three positions *)
(* and its connection, the rows change by whole batches of downloads that  *)
(* are due, and by nothing else.                                           *)
(***************************************************************************)
Rows == INSTANCE Ledger WITH restarts <- Restarts

ImplementsLedger == Rows!Spec
=============================================================================
