----------------------------- MODULE AdminPage -----------------------------
(***************************************************************************)
(* The admin page (frontend/index.html): what it keeps of the accounts,    *)
(* and the calls it makes to the backend.                                  *)
(*                                                                         *)
(* The page never waits: a call is sent, other buttons are pressed, and    *)
(* its answer is applied to what the page shows when it arrives.  Calls    *)
(* travel on connections of their own, so that the backend handles them,   *)
(* and their answers arrive, in any order.  A handler that changes an      *)
(* account loads it first and commits later, with others in between;       *)
(* Accounts is about the rest of what it does.                             *)
(***************************************************************************)
EXTENDS Integers, SequencesExt

CONSTANTS Ids,
          Emails,      \* addresses, as they are typed
          Normal,      \* ... and as EmailStr has them
          NoUser,      \* no row, no account shown
          MaxClicks,   \* bound: calls made by a press of a button
          MaxFaults    \* bound: lost answers and changes by another admin

User    == [on : BOOLEAN, email : Emails]
Table   == [Ids -> User \cup {NoUser}]
Loads   == {"users", "dashboard"}
Changes == {"create", "quickToggle", "toggle", "email", "delete"}

\* null is neither an account nor what the panel shows of one.
ASSUME ConstantsAssumption ==
    /\ NoUser \notin User \cup [id : Ids, user : User]
    /\ {MaxClicks, MaxFaults} \subseteq Nat

ASSUME NormalAssumption ==
    /\ Normal \in [Emails -> Emails]
    /\ \A e \in Emails : Normal[Normal[e]] = Normal[e]

\* The users, with the addresses as the backend has them.
Spelled(user) == IF user = NoUser THEN NoUser ELSE [user EXCEPT !.email = Normal[@]]
SpelledAll(table) == [u \in Ids |-> Spelled(table[u])]

VARIABLES
    server,    \* the users of the backend
    used,      \* ids that were given out
    \* the page
    allUsers,  \* the list it loaded last, with its own changes
    rows,      \* the user table and the table of the dashboard, as they were drawn
    detail,    \* the account of the detail panel, or NoUser
    panel,
    \* the network
    sent,      \* calls not yet handled
    answers,   \* answers on their way, in the order of handling
    \* history
    clicks, faults,
    doubtful,  \* the list and the table may be wrong until the table is loaded again
    steady     \* the panel was opened with nothing under way

pageVars    == <<allUsers, rows, detail, panel>>
serverVars  == <<server, used>>
networkVars == <<sent, answers>>
historyVars == <<clicks, faults, doubtful, steady>>
vars        == <<serverVars, pageVars, networkVars, historyVars>>

Calls   == [op : Loads \cup Changes, id : Ids \cup {NoUser}, email : Emails \cup {NoUser},
            seen : User \cup {NoUser},  \* the row its handler has loaded
            wants : BOOLEAN,   \* what the pressed button said: enable or disable
            fresh : BOOLEAN]   \* history: sent in quiet, and since then nothing changed or was lost
Answers == [call : Calls, ok : BOOLEAN, users : Table]

UnderWay(op) == \/ \E i \in DOMAIN sent : sent[i].op \in op
                \/ \E i \in DOMAIN answers : answers[i].call.op \in op
Quiet        == sent = <<>> /\ answers = <<>>
NoChanges    == ~UnderWay(Changes)

Stale(calls)        == [i \in DOMAIN calls |-> [calls[i] EXCEPT !.fresh = FALSE]]
StaleAnswers(calls) == [i \in DOMAIN calls |-> [calls[i] EXCEPT !.call.fresh = FALSE]]

Load(op, fresh) == [op |-> op, id |-> NoUser, email |-> NoUser, seen |-> NoUser,
                    wants |-> FALSE, fresh |-> fresh]

Present(table, u) == table[u] # NoUser

-----------------------------------------------------------------------------
\* navTo('users') and navTo('dashboard') load the list.
Navigate(where) ==
    /\ clicks < MaxClicks /\ clicks' = clicks + 1
    /\ panel' = where
    /\ sent' = Append(sent, Load(where, Quiet))
    /\ steady' = NoChanges
    /\ UNCHANGED <<serverVars, allUsers, rows, detail, answers, faults, doubtful>>

\* openDetail: the account of the row that was clicked, as the list has it.
OpenDetail(u) ==
    /\ panel \in Loads /\ Present(rows[panel], u)
    /\ \/ /\ Present(allUsers, u)
          /\ detail' = [id |-> u, user |-> allUsers[u]]
          /\ panel' = "user-detail"
          /\ steady' = (Quiet /\ ~doubtful)
       \/ /\ ~Present(allUsers, u)
          /\ detail' = NoUser
          /\ UNCHANGED <<panel, steady>>
    /\ UNCHANGED <<serverVars, allUsers, rows, networkVars, clicks, faults, doubtful>>

\* renderUsers: a search or a filter draws the table anew.
Search ==
    /\ panel = "users" /\ rows["users"] # allUsers
    /\ rows' = [rows EXCEPT !["users"] = allUsers]
    /\ UNCHANGED <<serverVars, allUsers, detail, panel, networkVars, historyVars>>

\* A button that changes an account.
Press(op, u, e, wants) ==
    /\ clicks < MaxClicks /\ clicks' = clicks + 1
    /\ sent' = Append(Stale(sent), [op |-> op, id |-> u, email |-> e, seen |-> NoUser,
                                    wants |-> wants,
                                    fresh |-> Quiet /\ steady /\ ~doubtful])
    /\ answers' = StaleAnswers(answers)
    /\ UNCHANGED <<serverVars, pageVars, faults, doubtful, steady>>

QuickToggle(u) ==
    /\ panel = "users" /\ Present(rows["users"], u)
    /\ Press("quickToggle", u, NoUser, ~rows["users"][u].on)

DetailButton ==
    /\ panel = "user-detail" /\ detail # NoUser
    /\ \/ Press("toggle", detail.id, NoUser, ~detail.user.on)
       \/ \E e \in Emails : Press("email", detail.id, e, FALSE)
       \/ Press("delete", detail.id, NoUser, FALSE)

AddUser == panel = "users" /\ \E u \in Ids \ used, e \in Emails : Press("create", u, e, FALSE)

-----------------------------------------------------------------------------
(***************************************************************************)
(* The backend handles a call.                                             *)
(***************************************************************************)
EmailTaken(e, u) == \E v \in Ids \ {u} : Present(server, v) /\ server[v].email = Normal[e]

\* get_user_or_404, and the query for the address.
Unfit(c) == ~Present(server, c.id) \/ (c.op = "email" /\ EmailTaken(c.email, c.id))

\* What a change makes of the users, or {} if it is refused: a value that is
\* the loaded one is not written, and a row that is gone cannot be updated.
Changed(c) ==
    CASE c.op = "create" ->
           IF c.id \in used \/ EmailTaken(c.email, c.id) THEN {}
           ELSE {[server EXCEPT ![c.id] = [on |-> TRUE, email |-> Normal[c.email]]]}
      [] c.op \in {"quickToggle", "toggle"} ->
           IF Present(server, c.id) THEN {[server EXCEPT ![c.id].on = ~c.seen.on]} ELSE {}
      [] c.op = "email" /\ c.seen.email = Normal[c.email] ->
           IF Present(server, c.id) THEN {server} ELSE {}
      [] c.op = "email" /\ c.seen.email # Normal[c.email] ->
           IF Unfit(c) THEN {} ELSE {[server EXCEPT ![c.id].email = Normal[c.email]]}
      [] c.op = "delete" -> {[server EXCEPT ![c.id] = NoUser]}

\* The changes of a row that is there begin with a look at it.
Ready(c)    == c.op = "create" \/ c.seen # NoUser
Outdated(c) == c.op # "create" /\ c.seen # server[c.id]

Answer(i, ok, users) ==
    /\ sent' = RemoveAt(sent, i)
    /\ answers' = Append(answers, [call |-> sent[i], ok |-> ok, users |-> users])

HandleLoad(i) ==
    /\ sent[i].op \in Loads
    /\ Answer(i, TRUE, server)
    /\ UNCHANGED <<serverVars, pageVars, historyVars>>

Look(i) ==
    /\ sent[i].op \in Changes /\ ~Ready(sent[i]) /\ ~Unfit(sent[i])
    /\ sent' = [sent EXCEPT ![i].seen = server[sent[i].id]]
    /\ UNCHANGED <<serverVars, pageVars, answers, historyVars>>

\* The commit.  History: one of a row that changed meanwhile puts the list in doubt.
Accept(i) ==
    /\ sent[i].op \in Changes /\ Ready(sent[i])
    /\ server' \in Changed(sent[i])
    /\ used' = used \cup {sent[i].id}
    /\ Answer(i, TRUE, server)
    /\ doubtful' = (doubtful \/ Outdated(sent[i]))
    /\ UNCHANGED <<pageVars, clicks, faults, steady>>

Reject(i) ==
    /\ sent[i].op \in Changes
    /\ IF Ready(sent[i]) THEN Changed(sent[i]) = {} ELSE Unfit(sent[i])
    /\ Answer(i, FALSE, server)
    /\ UNCHANGED <<serverVars, pageVars, historyVars>>

-----------------------------------------------------------------------------
(***************************************************************************)
(* An answer arrives.  What the page does with it is written after the     *)
(* await: it looks at detailUser and allUsers as they are by now.          *)
(***************************************************************************)
\* History: an answer that overtakes an earlier one puts the list in doubt,
\* and so does one that is applied to the account of another panel.
Arrived(i, misapplied) ==
    doubtful' = (\/ doubtful /\ ~(answers[i].call.op \in Loads /\ answers[i].call.fresh)
                 \/ i # 1 \/ misapplied)

Then(i, loads) ==
    /\ answers' = RemoveAt(answers, i)
    /\ sent' = sent \o loads

Nothing(i) ==
    /\ Then(i, <<>>)
    /\ UNCHANGED <<serverVars, pageVars, clicks, faults, steady>>

Loaded(i) ==
    /\ answers[i].call.op \in Loads
    /\ allUsers' = answers[i].users
    /\ rows' = [rows EXCEPT ![answers[i].call.op] = answers[i].users]
    /\ Then(i, <<>>) /\ Arrived(i, FALSE)
    /\ UNCHANGED <<serverVars, detail, panel, clicks, faults, steady>>

\* "409" and "404" are shown, no more.
Refused(i) ==
    /\ ~answers[i].ok
    /\ Nothing(i) /\ Arrived(i, FALSE)

\* Mutant of Reload: only the dashboard.
ReloadDashboard(i) ==
    /\ answers[i].call.op \in {"create", "quickToggle"} /\ answers[i].ok
    /\ Then(i, <<Load("dashboard", FALSE)>>) /\ Arrived(i, FALSE)
    /\ UNCHANGED <<serverVars, pageVars, clicks, faults, steady>>

\* doAddUser and quickToggle load everything again.
Reload(i) ==
    /\ answers[i].call.op \in {"create", "quickToggle"} /\ answers[i].ok
    /\ Then(i, <<Load("users", FALSE), Load("dashboard", FALSE)>>) /\ Arrived(i, FALSE)
    /\ UNCHANGED <<serverVars, pageVars, clicks, faults, steady>>

Misapplied(i) == detail = NoUser \/ answers[i].call.id # detail.id

\* detailUser is null: a TypeError, shown as 'Request failed' (an empty list
\* can be filtered without a look at it).
NoDetail(i) ==
    /\ answers[i].call.op \in {"toggle", "email", "delete"} /\ answers[i].ok /\ detail = NoUser
    /\ answers[i].call.op = "delete" => \E u \in Ids : Present(allUsers, u)
    /\ Nothing(i) /\ Arrived(i, TRUE)

\* A field of the account of the panel, and of its entry in the list.
WriteOn(on) ==
    /\ detail' = [detail EXCEPT !.user.on = on]
    /\ allUsers' = IF Present(allUsers, detail.id) THEN [allUsers EXCEPT ![detail.id].on = on] ELSE allUsers

WriteEmail(e) ==
    /\ detail' = [detail EXCEPT !.user.email = e]
    /\ allUsers' = IF Present(allUsers, detail.id) THEN [allUsers EXCEPT ![detail.id].email = e] ELSE allUsers

\* Mutant of Toggled: the panel is left as it is.
ToggledUnshown(i) ==
    /\ answers[i].call.op = "toggle" /\ answers[i].ok /\ detail # NoUser
    /\ Then(i, <<Load("dashboard", FALSE)>>) /\ Arrived(i, Misapplied(i))
    /\ UNCHANGED <<serverVars, pageVars, clicks, faults, steady>>

\* detailToggle inverts what the panel shows.
Toggled(i) ==
    /\ answers[i].call.op = "toggle" /\ answers[i].ok /\ detail # NoUser
    /\ WriteOn(~detail.user.on)
    /\ Then(i, <<Load("dashboard", FALSE)>>) /\ Arrived(i, Misapplied(i))
    /\ UNCHANGED <<serverVars, rows, panel, clicks, faults, steady>>

\* Mutant of EmailSaved: the list keeps the old address.
EmailSavedAlone(i) ==
    /\ answers[i].call.op = "email" /\ answers[i].ok /\ detail # NoUser
    /\ detail' = [detail EXCEPT !.user.email = answers[i].call.email]
    /\ Then(i, <<>>) /\ Arrived(i, Misapplied(i))
    /\ UNCHANGED <<serverVars, allUsers, rows, panel, clicks, faults, steady>>

EmailSaved(i) ==
    /\ answers[i].call.op = "email" /\ answers[i].ok /\ detail # NoUser
    /\ WriteEmail(answers[i].call.email)
    /\ Then(i, <<>>) /\ Arrived(i, Misapplied(i))
    /\ UNCHANGED <<serverVars, rows, panel, clicks, faults, steady>>

AllBut(u) == [v \in Ids |-> IF v = u THEN NoUser ELSE allUsers[v]]
DeletedId == IF detail = NoUser THEN NoUser ELSE detail.id

\* Mutant of Deleted: stays on the panel.
DeletedStaying(i) ==
    /\ answers[i].call.op = "delete" /\ answers[i].ok
    /\ detail = NoUser => \A u \in Ids : ~Present(allUsers, u)
    /\ allUsers' = AllBut(DeletedId)
    /\ detail' = NoUser
    /\ Then(i, <<Load("dashboard", FALSE)>>) /\ Arrived(i, Misapplied(i))
    /\ UNCHANGED <<serverVars, rows, panel, clicks, faults, steady>>

\* detailDelete removes the account of the panel, and goes to the table.
Deleted(i) ==
    /\ answers[i].call.op = "delete" /\ answers[i].ok
    /\ detail = NoUser => \A u \in Ids : ~Present(allUsers, u)
    /\ allUsers' = AllBut(DeletedId)
    /\ detail' = NoUser /\ panel' = "users"
    /\ Then(i, <<Load("users", FALSE), Load("dashboard", FALSE)>>) /\ Arrived(i, Misapplied(i))
    /\ steady' = \A c \in Range(sent) \cup {answers[j].call : j \in DOMAIN answers \ {i}} : c.op \in Loads
    /\ UNCHANGED <<serverVars, rows, clicks, faults>>

Arrive(i) == \/ Loaded(i) \/ Refused(i) \/ Reload(i)
             \/ NoDetail(i) \/ Toggled(i) \/ EmailSaved(i) \/ Deleted(i)

(***************************************************************************)
(* A call or an answer is lost (with a call: a handler that fails; with an *)
(* answer: one that fails after its commit), and another admin changes an  *)
(* account.                                                                *)
(***************************************************************************)
LoseCall(i) ==
    /\ faults < MaxFaults /\ faults' = faults + 1
    /\ sent' = Stale(RemoveAt(sent, i)) /\ answers' = StaleAnswers(answers)
    /\ doubtful' = TRUE
    /\ UNCHANGED <<serverVars, pageVars, clicks, steady>>

LoseAnswer(i) ==
    /\ faults < MaxFaults /\ faults' = faults + 1
    /\ answers' = StaleAnswers(RemoveAt(answers, i)) /\ sent' = Stale(sent)
    /\ doubtful' = TRUE
    /\ UNCHANGED <<serverVars, pageVars, clicks, steady>>

OtherAdmin ==
    /\ faults < MaxFaults /\ faults' = faults + 1
    /\ \E op \in Changes, u \in Ids, e \in Emails :
         /\ op = "create" \/ Present(server, u)
         /\ server' \in Changed([op |-> op, id |-> u, email |-> e, seen |-> server[u]])
         /\ used' = used \cup {u}
    /\ sent' = Stale(sent) /\ answers' = StaleAnswers(answers)
    /\ doubtful' = TRUE
    /\ UNCHANGED <<pageVars, clicks, steady>>

-----------------------------------------------------------------------------
\* After a login, showAdminApp goes to the dashboard.
Init ==
    /\ server \in Table /\ server = SpelledAll(server)
    /\ \A u, v \in Ids : Present(server, u) /\ Present(server, v) /\ u # v => server[u].email # server[v].email
    /\ used = {u \in Ids : Present(server, u)}
    /\ allUsers = [u \in Ids |-> NoUser] /\ rows = [t \in Loads |-> allUsers]
    /\ detail = NoUser /\ panel = "dashboard"
    /\ sent = <<Load("dashboard", TRUE)>> /\ answers = <<>>
    /\ clicks = 0 /\ faults = 0
    /\ doubtful = FALSE /\ steady = TRUE

Browse == \/ \E where \in Loads : Navigate(where)
          \/ \E u \in Ids : OpenDetail(u) \/ QuickToggle(u)
          \/ Search \/ DetailButton \/ AddUser

Handle(i) == HandleLoad(i) \/ Accept(i) \/ Reject(i)

Next == \/ Browse
        \/ \E i \in DOMAIN sent : Look(i) \/ Handle(i) \/ LoseCall(i)
        \/ \E i \in DOMAIN answers : Arrive(i) \/ LoseAnswer(i)
        \/ OtherAdmin

Spec == Init /\ [][Next]_vars

-----------------------------------------------------------------------------
TypeOK ==
    /\ server \in Table /\ used \subseteq Ids
    /\ allUsers \in Table /\ rows \in [Loads -> Table]
    /\ detail \in [id : Ids, user : User] \cup {NoUser}
    /\ panel \in Loads \cup {"user-detail"}
    /\ panel = "user-detail" => detail # NoUser
    /\ sent \in Seq(Calls) /\ answers \in Seq(Answers)
    /\ clicks \in 0..MaxClicks /\ faults \in 0..MaxFaults
    /\ doubtful \in BOOLEAN /\ steady \in BOOLEAN

(***************************************************************************)
(* When all answers are in, allUsers is what the backend has, up to the    *)
(* spelling of the addresses that were typed on the page, whatever buttons *)
(* were pressed meanwhile: unless since it was last loaded an answer was   *)
(* lost, overtook another or found another account on the panel, another   *)
(* admin changed something, or a handler committed on a row that had       *)
(* changed since it was loaded.                                            *)
(***************************************************************************)
ListRight == Quiet /\ ~doubtful => SpelledAll(allUsers) = server

(***************************************************************************)
(* The detail panel, if it was opened with nothing under way, shows the    *)
(* account as it is once its changes are answered, while the list may      *)
(* still be loading: with the same conditions.                             *)
(***************************************************************************)
DetailRight ==
    panel = "user-detail" /\ steady /\ NoChanges /\ ~doubtful => server[detail.id] = Spelled(detail.user)

(***************************************************************************)
(* The tables are not drawn again when an account changes in allUsers:     *)
(* the one on the screen is right when all is quiet if no change was under *)
(* way as the admin went to it.                                            *)
(***************************************************************************)
RowsRight == panel \in Loads /\ steady /\ Quiet /\ ~doubtful => SpelledAll(rows[panel]) = server

(***************************************************************************)
(* A button that says Disable disables, although the backend only inverts  *)
(* what it finds (main.py 254): if nothing was under way when it was       *)
(* pressed, and nobody changed anything until the call was handled.        *)
(***************************************************************************)
HonestStep ==
    \A i \in DOMAIN sent :
      /\ Len(answers') > Len(answers) /\ sent' = RemoveAt(sent, i)
      /\ sent[i].op \in {"quickToggle", "toggle"} /\ sent[i].fresh
      => Present(server, sent[i].id) /\ server'[sent[i].id].on = sent[i].wants

ButtonHonest == [][HonestStep]_vars
=============================================================================
