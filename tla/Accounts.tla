------------------------------ MODULE Accounts ------------------------------
(***************************************************************************)
(* The account handlers of the web backend (backend/main.py) and the       *)
(* password file of ProFTPd that they regenerate (backend/ftpfile.py).     *)
(*                                                                         *)
(* The handlers are plain functions, so FastAPI runs them in threads of    *)
(* one process: a request is a process here, and a step of it is what it   *)
(* does between two points where another request can come in, a statement  *)
(* on the database or an operation on a file.  A name stands for a file of *)
(* the directory; an open file stays the same when its name is moved.      *)
(***************************************************************************)
EXTENDS Integers, FiniteSets

CONSTANTS Requests,     \* requests served at the same time
          Ids,          \* user ids (UUIDs, never used twice)
          Names, Emails,
          Inodes,       \* files
          None,         \* no file
          NoUser,       \* no row with this id
          NoJob,        \* the job of an idle request
          Operations,   \* what requests ask for: a subset of AllOperations
          Rows,         \* the places of an imported list
          MaxRequests,  \* bound: requests started
          MaxFaults     \* bound: crashes of the backend and failed file operations

AllOperations == {"register", "create", "toggle", "password", "email", "notes", "delete", "sync",
                  "import"}

User  == [name : Names, email : Emails, hash : Nat, enabled : BOOLEAN]
Entry == Names \X Nat
Row   == [place : Rows, name : Names, email : Emails, enabled : BOOLEAN]
Job   == [op : AllOperations, id : Ids, name : Names, email : Emails, serial : Nat]

ASSUME ConstantsAssumption ==
    /\ None \notin Inodes /\ NoUser \notin User /\ NoJob \notin Job
    /\ Operations \subseteq AllOperations
    /\ {MaxRequests, MaxFaults} \subseteq Nat

VARIABLES
    \* PostgreSQL
    users,      \* the row of each id, or NoUser
    used,       \* ids that were given out
    audit,      \* the audit log: who (serial of the request) said what
    \* the directory of ftpd.passwd
    tmp,        \* the file named ftpd.passwd.tmp, or None
    passwd,     \* the file named ftpd.passwd
    data,       \* what each file holds
    \* the requests
    pc, job,
    seen,       \* the row a request loaded
    snap,       \* the lines it is going to write
    pending,    \* the rows an import has added to its session
    known,      \* sync's query loaded the request's own row again
    fd,         \* the file it has open
    \* history
    started, faults,
    committed,  \* changes of accounts that were committed
    solo,       \* nobody else committed or synced since the request began
    tainted,    \* a sync failed or met another one; no clean sync since
    contended   \* two requests had the temporary file open at once

dbVars      == <<users, used, audit>>
fileVars    == <<tmp, passwd, data>>
localVars   == <<job, seen, snap, pending, known, fd>>
historyVars == <<started, faults, committed, solo, tainted, contended>>
vars        == <<dbVars, fileVars, pc, localVars, historyVars>>

Exists(u) == users[u] # NoUser

\* The lines of ftpd.passwd for accounts, in the order of the names.
Enabled        == {u \in Ids : Exists(u) /\ users[u].enabled}
Line(user)     == <<user.name, user.hash>>
EnabledEntries == {Line(users[u]) : u \in Enabled}
AllEntries     == {Line(users[u]) : u \in {v \in Ids : Exists(v)}}

(***************************************************************************)
(* A query gives a row that the session still has as it was loaded: that   *)
(* of a new account, which db.refresh loaded.  A commit expires the rows   *)
(* that were loaded before it.                                             *)
(***************************************************************************)
Creates        == {"register", "create"}
Kept(r)        == IF job[r].op \in Creates THEN {seen[r]} \ {NoUser} ELSE {}
InSession(r, u) == IF u = job[r].id /\ Kept(r) # {} THEN seen[r] ELSE users[u]
QueryEntries(r) == {Line(InSession(r, u)) : u \in Enabled}

\* What a file holds: the lines it was to hold, or a text of their length
\* that is something else.  An empty text is the list of nobody.
Contents       == [whole : BOOLEAN, entries : SUBSET Entry]
Whole(entries) == [whole |-> TRUE, entries |-> entries]
Torn(entries)  == [whole |-> FALSE, entries |-> entries]

\* Request r opens a file for writing, which empties it.
Emptied(r)     == [whole |-> snap[r] = {}, entries |-> {}]

NamesIn(entries) == {e[1] : e \in entries}

(***************************************************************************)
(* What a file can hold after the lines "new" are written from its start   *)
(* over "old".  Hashes have one length, so the text with more names is     *)
(* longer.  The end of a longer old text stays: the file is torn, or still *)
(* holds the old text if the new one is its beginning.  No lines, no write.*)
(***************************************************************************)
Overlay(old, new) ==
    IF NamesIn(old.entries) \subseteq NamesIn(new) THEN {Whole(new)}
    ELSE IF new = {} THEN {old}
    ELSE {Torn(old.entries)}
         \cup (IF NamesIn(new) \subseteq NamesIn(old.entries) THEN {} ELSE {Whole(new)})
         \cup (IF old.whole /\ new \subseteq old.entries THEN {old} ELSE {})

-----------------------------------------------------------------------------
\* Between the commit of a change and the rename of the new file.
InSync(r) == pc[r] \in {"refresh", "query", "open", "write", "rename"}

NoSync == \A r \in Requests : ~InSync(r)

\* The request sends its answer: success, a refusal or status 500.
Finish(r) ==
    /\ pc' = [pc EXCEPT ![r] = "idle"]
    /\ seen' = [seen EXCEPT ![r] = NoUser]
    /\ snap' = [snap EXCEPT ![r] = {}]
    /\ pending' = [pending EXCEPT ![r] = {}]
    /\ known' = [known EXCEPT ![r] = FALSE]
    /\ fd' = [fd EXCEPT ![r] = None]
    /\ job' = [job EXCEPT ![r] = NoJob]

\* The request goes on to "where", its local state as it is.
Proceed(r, where) ==
    /\ pc' = [pc EXCEPT ![r] = where]
    /\ UNCHANGED localVars

\* History: the request enters its sync; the others are not alone any more.
Meet(r) ==
    /\ tainted' = (tainted \/ \E q \in Requests \ {r} : InSync(q))
    /\ solo' = [q \in Requests |-> solo[q] /\ q = r]

Committed(r, what) == committed' = committed \cup {[serial |-> job[r].serial, did |-> what]}
Log(r, what) ==
    audit' = audit \cup {[serial |-> job[r].serial, said |-> what, alone |-> solo[r]]}

NameTaken(n)  == \E u \in Ids : Exists(u) /\ users[u].name = n
EmailTaken(e, others) == \E u \in others : Exists(u) /\ users[u].email = e

\* Any table with unique names and addresses, and the file that belongs to it.
Init ==
    /\ users \in [Ids -> [name : Names, email : Emails, hash : {0}, enabled : BOOLEAN] \cup {NoUser}]
    /\ \A u, v \in Ids : Exists(u) /\ Exists(v) /\ u # v =>
         users[u].name # users[v].name /\ users[u].email # users[v].email
    /\ used = {u \in Ids : Exists(u)}
    /\ audit = {}
    /\ tmp = None /\ passwd \in Inodes
    /\ data = [i \in Inodes |-> IF i = passwd THEN Whole(EnabledEntries) ELSE Whole({})]
    /\ pc = [r \in Requests |-> "idle"]
    /\ job = [r \in Requests |-> NoJob]
    /\ seen = [r \in Requests |-> NoUser]
    /\ snap = [r \in Requests |-> {}]
    /\ pending = [r \in Requests |-> {}]
    /\ known = [r \in Requests |-> FALSE]
    /\ fd = [r \in Requests |-> None]
    /\ started = 0 /\ faults = 0
    /\ committed = {}
    /\ solo = [r \in Requests |-> FALSE]
    /\ tainted = FALSE /\ contended = FALSE

-----------------------------------------------------------------------------
\* A request arrives.  admin/sync has nothing to do before its sync.  The
\* event loop gives no request to a thread while it runs import_users itself.
First(op) == CASE op \in Creates   -> "check_name"
               [] op = "sync"     -> "query"
               [] op = "import"   -> "rows"
               [] OTHER           -> "load"

Start(r) ==
    /\ pc[r] = "idle" /\ started < MaxRequests
    /\ \A q \in Requests : pc[q] # "idle" => job[q].op # "import"
    /\ started' = started + 1
    /\ \E op \in Operations, u \in Ids, n \in Names, e \in Emails :
         /\ job' = [job EXCEPT ![r] = [op |-> op, id |-> u, name |-> n, email |-> e, serial |-> started']]
         /\ pc' = [pc EXCEPT ![r] = First(op)]
         /\ solo' = [q \in Requests |-> IF q = r THEN NoSync ELSE solo[q] /\ op # "sync"]
         /\ tainted' = (tainted \/ (op = "sync" /\ ~NoSync))
    /\ UNCHANGED <<dbVars, fileVars, seen, snap, pending, known, fd, faults, committed, contended>>

(***************************************************************************)
(* register and admin_create_user: look for the name, look for the address,*)
(* insert.  Only the public handler logs a refusal.                        *)
(***************************************************************************)
Refuse(r) ==
    /\ IF job[r].op = "register" THEN Log(r, "register_fail") ELSE UNCHANGED audit
    /\ Finish(r)

CheckName(r) ==
    /\ pc[r] = "check_name"
    /\ IF NameTaken(job[r].name) THEN Refuse(r) ELSE Proceed(r, "check_email") /\ UNCHANGED audit
    /\ UNCHANGED <<users, used, fileVars, historyVars>>

CheckEmail(r) ==
    /\ pc[r] = "check_email"
    /\ IF EmailTaken(job[r].email, Ids) THEN Refuse(r) ELSE Proceed(r, "insert") /\ UNCHANGED audit
    /\ UNCHANGED <<users, used, fileVars, historyVars>>

\* The commit meets a unique index: IntegrityError, status 500.
InsertRefused(r) ==
    /\ pc[r] = "insert"
    /\ NameTaken(job[r].name) \/ EmailTaken(job[r].email, Ids)
    /\ Finish(r)
    /\ UNCHANGED <<dbVars, fileVars, historyVars>>

Insert(r, u) ==
    /\ pc[r] = "insert" /\ u \in Ids \ used
    /\ ~NameTaken(job[r].name) /\ ~EmailTaken(job[r].email, Ids)
    /\ users' = [users EXCEPT ![u] = [name |-> job[r].name, email |-> job[r].email,
                                      hash |-> job[r].serial, enabled |-> TRUE]]
    /\ used' = used \cup {u}
    /\ job' = [job EXCEPT ![r].id = u]
    /\ pc' = [pc EXCEPT ![r] = "refresh"]
    /\ Committed(r, job[r].op) /\ Meet(r)
    /\ UNCHANGED <<audit, fileVars, seen, snap, pending, known, fd, started, faults, contended>>

\* db.refresh(user) raises if the row is gone: status 500, no sync.
Refresh(r) ==
    /\ pc[r] = "refresh"
    /\ IF ~Exists(job[r].id) THEN Finish(r)
       ELSE /\ seen' = [seen EXCEPT ![r] = users[job[r].id]]
            /\ pc' = [pc EXCEPT ![r] = "query"]
            /\ UNCHANGED <<job, snap, pending, known, fd>>
    /\ UNCHANGED <<dbVars, fileVars, historyVars>>

(***************************************************************************)
(* The handlers of /admin/users/{user_id}: get_user_or_404, then a change  *)
(* of what was loaded, and a commit.  An UPDATE of a row that is gone      *)
(* raises StaleDataError (status 500); a DELETE does not.                  *)
(***************************************************************************)
\* Mutant of Load: no 404.
LoadUnchecked(r) ==
    /\ pc[r] = "load"
    /\ seen' = [seen EXCEPT ![r] = users[job[r].id]]
    /\ pc' = [pc EXCEPT ![r] = IF job[r].op = "email" THEN "check_other" ELSE "commit"]
    /\ UNCHANGED <<job, snap, pending, known, fd, dbVars, fileVars, historyVars>>

Load(r) ==
    /\ pc[r] = "load"
    /\ IF ~Exists(job[r].id) THEN Finish(r)
       ELSE /\ seen' = [seen EXCEPT ![r] = users[job[r].id]]
            /\ pc' = [pc EXCEPT ![r] = IF job[r].op = "email" THEN "check_other" ELSE "commit"]
            /\ UNCHANGED <<job, snap, pending, known, fd>>
    /\ UNCHANGED <<dbVars, fileVars, historyVars>>

CheckOtherEmail(r) ==
    /\ pc[r] = "check_other"
    /\ IF EmailTaken(job[r].email, Ids \ {job[r].id}) THEN Finish(r) ELSE Proceed(r, "commit")
    /\ UNCHANGED <<dbVars, fileVars, historyVars>>

UpdateLost(r) ==
    /\ pc[r] = "commit" /\ job[r].op \in {"toggle", "password", "email", "notes"}
    /\ ~Exists(job[r].id)
    /\ job[r].op = "email" => job[r].email # seen[r].email
    /\ Finish(r)
    /\ UNCHANGED <<dbVars, fileVars, historyVars>>

ToggleWord(enabled) == IF enabled THEN "enabled" ELSE "disabled"

\* Mutant of Toggle: writes every column of the row it loaded.
ToggleWholeRow(r) ==
    /\ pc[r] = "commit" /\ job[r].op = "toggle" /\ Exists(job[r].id)
    /\ users' = [users EXCEPT ![job[r].id] = [seen[r] EXCEPT !.enabled = ~@]]
    /\ Committed(r, ToggleWord(~seen[r].enabled)) /\ Meet(r)
    /\ Proceed(r, "query")
    /\ UNCHANGED <<used, audit, fileVars, started, faults, contended>>

Toggle(r) ==
    /\ pc[r] = "commit" /\ job[r].op = "toggle" /\ Exists(job[r].id)
    /\ users' = [users EXCEPT ![job[r].id].enabled = ~seen[r].enabled]
    /\ Committed(r, ToggleWord(~seen[r].enabled)) /\ Meet(r)
    /\ Proceed(r, "query")
    /\ UNCHANGED <<used, audit, fileVars, started, faults, contended>>

ChangePassword(r) ==
    /\ pc[r] = "commit" /\ job[r].op = "password" /\ Exists(job[r].id)
    /\ users' = [users EXCEPT ![job[r].id].hash = job[r].serial]
    /\ Committed(r, "password") /\ Meet(r)
    /\ Proceed(r, "query")
    /\ UNCHANGED <<used, audit, fileVars, started, faults, contended>>

\* Mutant of Delete: forgets sync.
DeleteUnsynced(r) ==
    /\ pc[r] = "commit" /\ job[r].op = "delete"
    /\ users' = [users EXCEPT ![job[r].id] = NoUser]
    /\ Committed(r, "delete")
    /\ Proceed(r, "audit")
    /\ UNCHANGED <<used, audit, fileVars, started, faults, solo, tainted, contended>>

Delete(r) ==
    /\ pc[r] = "commit" /\ job[r].op = "delete"
    /\ users' = [users EXCEPT ![job[r].id] = NoUser]
    /\ Committed(r, "delete") /\ Meet(r)
    /\ Proceed(r, "query")
    /\ UNCHANGED <<used, audit, fileVars, started, faults, contended>>

\* change_email does not sync.  The address it loaded is no change.
ChangeEmail(r) ==
    /\ pc[r] = "commit" /\ job[r].op = "email" /\ Exists(job[r].id)
    /\ job[r].email # seen[r].email
    /\ IF EmailTaken(job[r].email, Ids \ {job[r].id})
       THEN Finish(r) /\ UNCHANGED <<users, committed>>
       ELSE /\ users' = [users EXCEPT ![job[r].id].email = job[r].email]
            /\ Committed(r, "email") /\ Proceed(r, "audit")
    /\ UNCHANGED <<used, audit, fileVars, started, faults, solo, tainted, contended>>

SameEmail(r) ==
    /\ pc[r] = "commit" /\ job[r].op = "email" /\ job[r].email = seen[r].email
    /\ Committed(r, "email") /\ Proceed(r, "audit")
    /\ UNCHANGED <<dbVars, fileVars, started, faults, solo, tainted, contended>>

\* update_notes neither syncs nor logs.
ChangeNotes(r) ==
    /\ pc[r] = "commit" /\ job[r].op = "notes" /\ Exists(job[r].id)
    /\ Committed(r, "notes")
    /\ Finish(r)
    /\ UNCHANGED <<dbVars, fileVars, started, faults, solo, tainted, contended>>

-----------------------------------------------------------------------------
(***************************************************************************)
(* import_users: look each row of the list up, skip it if its name or its  *)
(* address is taken, else add it to the session, which is not flushed; in  *)
(* the end one commit, refused as a whole if a row meets a unique index.   *)
(***************************************************************************)
ImportRow(r) ==
    /\ pc[r] = "rows"
    /\ \E row \in Row :
         /\ \A p \in pending[r] : p.place # row.place
         /\ ~NameTaken(row.name) /\ ~EmailTaken(row.email, Ids)
         /\ pending' = [pending EXCEPT ![r] = @ \cup {row}]
    /\ UNCHANGED <<pc, job, seen, snap, known, fd, dbVars, fileVars, historyVars>>

Clash(rows) == \E p \in rows :
    \/ NameTaken(p.name) \/ EmailTaken(p.email, Ids)
    \/ \E q \in rows \ {p} : p.name = q.name \/ p.email = q.email

ImportRefused(r) ==
    /\ pc[r] = "rows" /\ Clash(pending[r])
    /\ Finish(r)
    /\ UNCHANGED <<dbVars, fileVars, historyVars>>

\* Nothing to add: no sync.
ImportNothing(r) ==
    /\ pc[r] = "rows" /\ pending[r] = {}
    /\ Committed(r, "import") /\ Proceed(r, "audit")
    /\ UNCHANGED <<dbVars, fileVars, started, faults, solo, tainted, contended>>

ImportedUser(row, r) == [name |-> row.name, email |-> row.email, hash |-> job[r].serial, enabled |-> row.enabled]

ImportCommit(r) ==
    /\ pc[r] = "rows" /\ pending[r] # {} /\ ~Clash(pending[r])
    /\ \E new \in [pending[r] -> Ids \ used] :
         /\ \A p, q \in pending[r] : new[p] = new[q] => p = q
         /\ users' = [u \in Ids |-> IF \E p \in pending[r] : new[p] = u
                                   THEN ImportedUser(CHOOSE p \in pending[r] : new[p] = u, r)
                                   ELSE users[u]]
         /\ used' = used \cup {new[p] : p \in pending[r]}
    /\ Committed(r, "import") /\ Meet(r)
    /\ Proceed(r, "query")
    /\ UNCHANGED <<audit, fileVars, started, faults, contended>>

-----------------------------------------------------------------------------
(***************************************************************************)
(* regenerate_ftpd_passwd: read the enabled users, write them to the       *)
(* temporary file, rename it.  All requests use the same temporary name.   *)
(***************************************************************************)
Query(r) ==
    /\ pc[r] = "query"
    /\ snap' = [snap EXCEPT ![r] = QueryEntries(r)]
    /\ known' = [known EXCEPT ![r] = Exists(job[r].id) /\ users[job[r].id].enabled]
    /\ pc' = [pc EXCEPT ![r] = "open"]
    /\ UNCHANGED <<dbVars, fileVars, job, seen, pending, fd, historyVars>>

\* Mutant of Open: writes to ftpd.passwd itself when there is no temporary file.
OpenInPlace(r, i) ==
    /\ pc[r] = "open" /\ i = passwd
    /\ tmp' = i
    /\ data' = [data EXCEPT ![i] = Emptied(r)]
    /\ fd' = [fd EXCEPT ![r] = i]
    /\ pc' = [pc EXCEPT ![r] = "write"]
    /\ contended' = (contended \/ \E q \in Requests \ {r} : pc[q] \in {"write", "rename"})
    /\ UNCHANGED <<dbVars, passwd, job, seen, snap, pending, known, started, faults,
                   committed, solo, tainted>>

\* Mutant of Open: a temporary file that was left behind is not emptied.
OpenLeftover(r, i) ==
    /\ pc[r] = "open"
    /\ IF tmp # None THEN i = tmp
                     ELSE i # passwd /\ \A q \in Requests : fd[q] # i
    /\ tmp' = i
    /\ data' = [data EXCEPT ![i] = IF tmp = None THEN Emptied(r) ELSE @]
    /\ fd' = [fd EXCEPT ![r] = i]
    /\ pc' = [pc EXCEPT ![r] = "write"]
    /\ contended' = (contended \/ \E q \in Requests \ {r} : pc[q] \in {"write", "rename"})
    /\ UNCHANGED <<dbVars, passwd, job, seen, snap, pending, known, started, faults,
                   committed, solo, tainted>>

\* open(tmp_path, "w"): the file of that name, emptied, or a new one.
Open(r, i) ==
    /\ pc[r] = "open"
    /\ IF tmp # None THEN i = tmp
                     ELSE i # passwd /\ \A q \in Requests : fd[q] # i
    /\ tmp' = i
    /\ data' = [data EXCEPT ![i] = Emptied(r)]
    /\ fd' = [fd EXCEPT ![r] = i]
    /\ pc' = [pc EXCEPT ![r] = "write"]
    /\ contended' = (contended \/ \E q \in Requests \ {r} : pc[q] \in {"write", "rename"})
    /\ UNCHANGED <<dbVars, passwd, job, seen, snap, pending, known, started, faults,
                   committed, solo, tainted>>

\* The buffered text reaches the file when it is closed.
Write(r) ==
    /\ pc[r] = "write"
    /\ \E d \in Overlay(data[fd[r]], snap[r]) : data' = [data EXCEPT ![fd[r]] = d]
    /\ Proceed(r, "rename")
    /\ UNCHANGED <<dbVars, tmp, passwd, historyVars>>

\* chmod and rename find the temporary file by its name.
Rename(r) ==
    /\ pc[r] = "rename" /\ tmp # None
    /\ passwd' = tmp
    /\ tmp' = None
    /\ fd' = [fd EXCEPT ![r] = None]
    /\ pc' = [pc EXCEPT ![r] = "audit"]
    /\ tainted' = (tainted /\ ~solo[r])
    /\ UNCHANGED <<dbVars, data, job, seen, snap, pending, known, started, faults,
                   committed, solo, contended>>

\* An exception of the regeneration: sync logs it and the handler goes on;
\* force_sync, which does not use sync, answers 500.
SyncFails(r) ==
    /\ tainted' = TRUE
    /\ IF job[r].op = "sync" THEN Finish(r)
       ELSE /\ pc' = [pc EXCEPT ![r] = "audit"]
            /\ fd' = [fd EXCEPT ![r] = None]
            /\ UNCHANGED <<job, seen, snap, pending, known>>

RenameFails(r) ==
    /\ pc[r] = "rename" /\ tmp = None
    /\ SyncFails(r)
    /\ UNCHANGED <<dbVars, fileVars, started, faults, committed, solo, contended>>

IoFault(r) ==
    /\ pc[r] \in {"open", "write", "rename"} /\ faults < MaxFaults
    /\ faults' = faults + 1
    /\ SyncFails(r)
    /\ UNCHANGED <<dbVars, fileVars, started, committed, solo, contended>>

(***************************************************************************)
(* The audit entry.  The commit expired the row the request had loaded:    *)
(* what the entry says is what sync's query loaded, or else is read now,   *)
(* which raises if the row is gone.                                        *)
(***************************************************************************)
NeedsRow(op) == op \in {"toggle", "password", "email"}

\* Mutant of AuditEntry: names the state that was loaded.
AuditSeen(r) ==
    /\ pc[r] = "audit"
    /\ NeedsRow(job[r].op) => known[r] \/ Exists(job[r].id)
    /\ Log(r, IF job[r].op = "toggle" THEN ToggleWord(seen[r].enabled) ELSE job[r].op)
    /\ Finish(r)
    /\ UNCHANGED <<users, used, fileVars, historyVars>>

AuditEntry(r) ==
    /\ pc[r] = "audit"
    /\ NeedsRow(job[r].op) => known[r] \/ Exists(job[r].id)
    /\ Log(r, IF job[r].op = "toggle"
              THEN ToggleWord(known[r] \/ users[job[r].id].enabled)
              ELSE job[r].op)
    /\ Finish(r)
    /\ UNCHANGED <<users, used, fileVars, historyVars>>

AuditFails(r) ==
    /\ pc[r] = "audit" /\ NeedsRow(job[r].op) /\ ~known[r] /\ ~Exists(job[r].id)
    /\ Finish(r)
    /\ UNCHANGED <<dbVars, fileVars, historyVars>>

(***************************************************************************)
(* The backend dies: every request with it.  Nothing is regenerated when   *)
(* it starts again.                                                        *)
(***************************************************************************)
Crash ==
    /\ faults < MaxFaults
    /\ \E r \in Requests : pc[r] # "idle"
    /\ faults' = faults + 1
    /\ tainted' = (tainted \/ \E r \in Requests : InSync(r))
    /\ pc' = [r \in Requests |-> "idle"]
    /\ job' = [r \in Requests |-> NoJob]
    /\ seen' = [r \in Requests |-> NoUser]
    /\ snap' = [r \in Requests |-> {}]
    /\ pending' = [r \in Requests |-> {}]
    /\ known' = [r \in Requests |-> FALSE]
    /\ fd' = [r \in Requests |-> None]
    /\ UNCHANGED <<dbVars, fileVars, started, committed, solo, contended>>

CreateStep(r) == \/ CheckName(r) \/ CheckEmail(r) \/ InsertRefused(r)
                 \/ \E u \in Ids : Insert(r, u)
                 \/ Refresh(r)

ChangeStep(r) == \/ Load(r) \/ CheckOtherEmail(r) \/ UpdateLost(r)
                 \/ Toggle(r) \/ ChangePassword(r) \/ Delete(r)
                 \/ ChangeEmail(r) \/ SameEmail(r) \/ ChangeNotes(r)

ImportStep(r) == ImportRow(r) \/ ImportRefused(r) \/ ImportNothing(r) \/ ImportCommit(r)

SyncStep(r)   == \/ Query(r)
                 \/ \E i \in Inodes : Open(r, i)
                 \/ Write(r) \/ Rename(r) \/ RenameFails(r) \/ IoFault(r)

AuditStep(r)  == AuditEntry(r) \/ AuditFails(r)

Next == \/ \E r \in Requests : \/ Start(r) \/ CreateStep(r) \/ ChangeStep(r) \/ ImportStep(r)
                             \/ SyncStep(r) \/ AuditStep(r)
        \/ Crash

Spec == Init /\ [][Next]_vars

-----------------------------------------------------------------------------
Words == AllOperations \cup {"register_fail", "enabled", "disabled"}

Labels == {"idle", "check_name", "check_email", "insert", "refresh", "load", "check_other",
           "rows", "commit", "query", "open", "write", "rename", "audit"}

TypeOK ==
    /\ users \in [Ids -> User \cup {NoUser}]
    /\ used \subseteq Ids
    /\ audit \subseteq [serial : Nat, said : Words, alone : BOOLEAN]
    /\ tmp \in Inodes \cup {None} /\ passwd \in Inodes
    /\ data \in [Inodes -> Contents]
    /\ pc \in [Requests -> Labels]
    /\ job \in [Requests -> Job \cup {NoJob}]
    /\ seen \in [Requests -> User \cup {NoUser}]
    /\ snap \in [Requests -> SUBSET Entry]
    /\ pending \in [Requests -> SUBSET Row]
    /\ known \in [Requests -> BOOLEAN]
    /\ fd \in [Requests -> Inodes \cup {None}]
    /\ \A r \in Requests : /\ pc[r] # "idle" => job[r] # NoJob
                           /\ pc[r] \in {"check_other", "commit"} => seen[r] # NoUser
                           /\ pc[r] \in {"write", "rename"} => fd[r] # None
    /\ started \in Nat /\ faults \in Nat
    /\ committed \subseteq [serial : Nat, did : Words]
    /\ solo \in [Requests -> BOOLEAN]
    /\ tainted \in BOOLEAN /\ contended \in BOOLEAN

Synced == data[passwd] = Whole(EnabledEntries)

(***************************************************************************)
(* As long as no two syncs met and none was cut short, ftpd.passwd lists   *)
(* exactly the enabled users whenever no sync is under way; and one sync   *)
(* that runs alone repairs it, whatever happened before.                   *)
(***************************************************************************)
SyncedWhenQuiet == ~tainted /\ NoSync => Synced

(***************************************************************************)
(* ProFTPd finds a whole file under the name ftpd.passwd at every moment,  *)
(* crashes and failed writes included, unless two requests had the         *)
(* temporary file open at once: the rename of ftpfile.py 42.               *)
(***************************************************************************)
NeverPartial == ~contended => data[passwd].whole

(***************************************************************************)
(* What the audit log says of a change was done, by that request, if no    *)
(* other change was committed while it ran.                                *)
(***************************************************************************)
Done(e) == e.said \in {"register_fail", "sync"} \/ [serial |-> e.serial, did |-> e.said] \in committed

AuditTruthful == \A e \in audit : e.alone => Done(e)

(***************************************************************************)
(* Nothing but a change of the password changes the hash of an account:    *)
(* no handler writes back a hash that it read before.                      *)
(***************************************************************************)
HashStep ==
    \A u \in Ids : Exists(u) /\ users'[u] # NoUser /\ users'[u].hash # users[u].hash =>
      \E r \in Requests : /\ pc[r] = "commit" /\ job[r].op = "password" /\ job[r].id = u
                         /\ users'[u].hash = job[r].serial

HashKept == [][HashStep]_vars

(***************************************************************************)
(* Open, write and rename, with crashes and failures between them, are for *)
(* ProFTPd one step that shows it the table of the moment of its request's *)
(* query, but for the line of the account the request created, which can   *)
(* be as old as its refresh: unless two requests had the temporary file    *)
(* open at once.                                                           *)
(***************************************************************************)
Recalled(r) == IF pc[r] = "query" THEN {Line(user) : user \in Kept(r)} ELSE {}

Memory == [r \in Requests |-> Recalled(r)]
Offers == [r \in Requests |-> IF pc[r] \in {"open", "write", "rename"} THEN {snap[r]} ELSE {}]

Published == INSTANCE PasswdFile WITH Writers <- Requests, Entries <- Entry,
    accounts <- AllEntries, table <- EnabledEntries, memory <- Memory, offers <- Offers,
    file <- data[passwd], broken <- contended

ImplementsPasswdFile == Published!Spec

-----------------------------------------------------------------------------
(***************************************************************************)
(* What the comment of ftpfile.py 38 says: ProFTPd never reads a partial   *)
(* file.                                                                   *)
(***************************************************************************)
PasswdWhole == data[passwd].whole

(***************************************************************************)
(* What the README says of automatic sync, ftpd.passwd is regenerated on   *)
(* every account change: when nothing is going on it shows the last one.   *)
(***************************************************************************)
SyncedWhenIdle == (\A r \in Requests : pc[r] = "idle") /\ data[passwd].whole => Synced

-----------------------------------------------------------------------------
(***************************************************************************)
(* The inductive invariants behind the properties above.                   *)
(***************************************************************************)
HoldsFile(r) == pc[r] \in {"write", "rename"}

\* What is under way in the file that request r has open, if it is alone.
OwnFile(r) ==
    /\ tmp = fd[r]
    /\ pc[r] = "write" => data[fd[r]] = Emptied(r)
    /\ pc[r] = "rename" => data[fd[r]] = Whole(snap[r])

FileInv ==
    /\ tmp # passwd
    /\ ~contended => /\ data[passwd].whole
                     /\ \A r, q \in Requests : HoldsFile(r) /\ HoldsFile(q) => r = q
                     /\ \A r \in Requests : HoldsFile(r) => OwnFile(r)

\* A sync that will leave the file right: nothing committed or synced since
\* its commit.
Clean(r) == InSync(r) /\ (solo[r] \/ ~tainted)

\* What the session holds of the account is what the table holds of it.
Fresh(r) == pc[r] = "query" /\ Exists(job[r].id) =>
              \A user \in Kept(r) : Line(user) = Line(users[job[r].id])

SyncInv ==
    /\ tmp # passwd
    /\ \A r \in Requests : /\ solo[r] /\ pc[r] # "idle" => \A q \in Requests \ {r} : ~InSync(q)
                           /\ Clean(r) => \A q \in Requests \ {r} : ~InSync(q)
                           /\ Clean(r) /\ pc[r] = "refresh" => Exists(job[r].id)
                           /\ Clean(r) => Fresh(r)
                           /\ Clean(r) /\ pc[r] \in {"open", "write", "rename"} => snap[r] = EnabledEntries
                           /\ Clean(r) /\ HoldsFile(r) => OwnFile(r)
    /\ SyncedWhenQuiet

\* Only ids that were given out have a row.
UsedInv == \A u \in Ids : Exists(u) => u \in used

\* What the session holds of an account has the name of its row.
SessionOK(r) ==
    /\ pc[r] \in {"refresh", "query"} /\ job[r].op \in Creates => job[r].id \in used
    /\ pc[r] \in {"load", "check_other", "commit", "rows"} => job[r].op \notin Creates
    /\ pc[r] = "query" /\ Exists(job[r].id) =>
         \A user \in Kept(r) : user.name = users[job[r].id].name

SessionInv == \A r \in Requests : SessionOK(r)

\* Past the commit of its change.
Changed(r) == InSync(r) \/ pc[r] = "audit"

AuditInv ==
    \A r \in Requests :
      /\ Changed(r) /\ job[r].op \notin {"toggle", "sync"}
           => [serial |-> job[r].serial, did |-> job[r].op] \in committed
      /\ Changed(r) /\ job[r].op = "toggle" /\ solo[r]
           => /\ Exists(job[r].id)
              /\ [serial |-> job[r].serial, did |-> ToggleWord(users[job[r].id].enabled)] \in committed
              /\ pc[r] # "query" => (known[r] <=> users[job[r].id].enabled)
      /\ pc[r] \in {"check_name", "check_email", "insert", "refresh"} => job[r].op \in Creates
      /\ pc[r] = "rows" => job[r].op = "import"
=============================================================================
