----------------------------- MODULE Retention -----------------------------
(***************************************************************************)
(* The log settings and the nightly pruning of the backend (backend/logs.py*)
(* 61-146, main.py 51-59 and 464-482), and what the pruning leaves of the  *)
(* summary of the dashboard (logs.py 391-455).                             *)
(*                                                                         *)
(* _daily_prune is a coroutine and gives way to nothing while it prunes:   *)
(* no request begins meanwhile, but the threads of those that have begun   *)
(* go on.  Time is counted in days.  The rows of both download tables are  *)
(* kept together, since one transaction prunes them both.                  *)
(***************************************************************************)
EXTENDS Integers, FiniteSets

CONSTANTS Records, Savers,
          None,        \* no row; a setting that a request leaves alone
          DaySettings, \* values of log_retention_days
          DefaultDays, \* the value that init_logs.sql gives it
          StartDay,    \* the day on which the backend starts; the logs begin on day 0
          MaxToday,    \* bound: days
          MaxFaults    \* bound: restarts of the backend and failures of its database

ASSUME RetentionAssumption ==
    /\ DaySettings \subseteq Nat \ {0} /\ DefaultDays \in DaySettings
    /\ None \notin Int /\ None \notin BOOLEAN
    /\ StartDay \in Nat /\ MaxToday \in Nat /\ MaxFaults \in Nat

VARIABLES
    today,
    downloads,       \* the day of each stored row
    days, enabled,   \* tailer_config: log_retention_days, log_retention_enabled
    saving, body,        \* the requests that change the settings
    prune,           \* where _daily_prune is
    slept,           \* whole days that it has slept
    limit,           \* the number of days it has read
    \* history
    ever,            \* the day of every row that was ever stored
    storedOn,        \* the day on which it was stored
    faults,
    daysSeen,        \* the values of days so far
    alwaysOn,        \* enabled has been true so far
    overlap          \* a request was under way when the last pruning began

settings == <<days, enabled, daysSeen, alwaysOn>>
pruning  == <<prune, slept, limit, overlap>>
rows     == <<downloads, ever, storedOn>>
retentionVars     == <<today, rows, settings, saving, body, pruning, faults>>

Bodies      == [days : DaySettings \cup {None}, enabled : BOOLEAN \cup {None}]
UnderWay(r) == saving[r] \in {"days", "enabled"}

RetentionInit ==
    /\ today = StartDay
    /\ downloads = [r \in Records |-> None] /\ ever = downloads
    /\ storedOn = [r \in Records |-> today]
    /\ days = DefaultDays /\ enabled = TRUE
    /\ saving = [r \in Savers |-> "idle"]
    /\ body = [r \in Savers |-> [days |-> None, enabled |-> None]]
    /\ prune = "sleep" /\ slept = 0 /\ limit = days
    /\ faults = 0
    /\ daysSeen = {days} /\ alwaysOn = TRUE /\ overlap = FALSE

-----------------------------------------------------------------------------
(***************************************************************************)
(* update_log_settings: one transaction for each setting, the number of    *)
(* days first.  The name of the log comes before both and is LogTailer's.  *)
(***************************************************************************)
\* Mutant of BeginSave: the pruning gives way to requests.
BeginSaveAnyTime(r, b) ==
    /\ saving[r] = "idle"
    /\ saving' = [saving EXCEPT ![r] = "days"]
    /\ body' = [body EXCEPT ![r] = b]
    /\ UNCHANGED <<today, rows, settings, pruning, faults>>

BeginSave(r, b) ==
    /\ saving[r] = "idle" /\ prune = "sleep"
    /\ saving' = [saving EXCEPT ![r] = "days"]
    /\ body' = [body EXCEPT ![r] = b]
    /\ UNCHANGED <<today, rows, settings, pruning, faults>>

\* Mutant of SetDays: a setting that is not given is stored all the same.
SetDaysUnchecked(r) ==
    /\ saving[r] = "days"
    /\ saving' = [saving EXCEPT ![r] = "enabled"]
    /\ days' = body[r].days
    /\ daysSeen' = daysSeen \cup {days'}
    /\ UNCHANGED <<today, rows, enabled, alwaysOn, body, pruning, faults>>

SetDays(r) ==
    /\ saving[r] = "days"
    /\ saving' = [saving EXCEPT ![r] = "enabled"]
    /\ days' = IF body[r].days = None THEN days ELSE body[r].days
    /\ daysSeen' = daysSeen \cup {days'}
    /\ UNCHANGED <<today, rows, enabled, alwaysOn, body, pruning, faults>>

SetEnabled(r) ==
    /\ saving[r] = "enabled"
    /\ saving' = [saving EXCEPT ![r] = "done"]
    /\ enabled' = IF body[r].enabled = None THEN enabled ELSE body[r].enabled
    /\ alwaysOn' = (alwaysOn /\ enabled')
    /\ UNCHANGED <<today, rows, days, daysSeen, body, pruning, faults>>

\* Status 503; what was set before stays.
SettingFails(r) ==
    /\ UnderWay(r) /\ faults < MaxFaults
    /\ faults' = faults + 1
    /\ saving' = [saving EXCEPT ![r] = "done"]
    /\ UNCHANGED <<today, rows, settings, body, pruning>>

-----------------------------------------------------------------------------
\* Mutant of Due: it sleeps for two days.
DueLater == slept = 2

Due == slept = 1

PruneBegins ==
    /\ prune = "sleep" /\ Due
    /\ prune' = "enabled"
    /\ overlap' = \E r \in Savers : UnderWay(r)
    /\ UNCHANGED <<today, rows, settings, saving, body, slept, limit, faults>>

get_retention_enabled ==
    /\ prune = "enabled"
    /\ IF enabled THEN prune' = "days" /\ UNCHANGED slept
                  ELSE prune' = "sleep" /\ slept' = 0
    /\ UNCHANGED <<today, rows, settings, saving, body, limit, overlap, faults>>

get_retention_days ==
    /\ prune = "days" /\ prune' = "delete"
    /\ limit' = days
    /\ UNCHANGED <<today, rows, settings, saving, body, slept, overlap, faults>>

Old(r, n) == downloads[r] # None /\ downloads[r] < today - n

\* Mutant of Delete: rows of the last day that is kept go too.
DeleteLastDay ==
    /\ prune = "delete" /\ prune' = "sleep" /\ slept' = 0
    /\ downloads' = [r \in Records |-> IF Old(r, limit - 1) THEN None ELSE downloads[r]]
    /\ UNCHANGED <<today, ever, storedOn, settings, saving, body, limit, overlap, faults>>

\* Both DELETEs and their commit.
Delete ==
    /\ prune = "delete" /\ prune' = "sleep" /\ slept' = 0
    /\ downloads' = [r \in Records |-> IF Old(r, limit) THEN None ELSE downloads[r]]
    /\ UNCHANGED <<today, ever, storedOn, settings, saving, body, limit, overlap, faults>>

\* The exception is logged, and the next try comes a day later.
PruneFails ==
    /\ prune # "sleep" /\ faults < MaxFaults
    /\ faults' = faults + 1
    /\ prune' = "sleep" /\ slept' = 0
    /\ UNCHANGED <<today, rows, settings, saving, body, limit, overlap>>

\* The backend is started again: the task sleeps a whole day first.
Restart ==
    /\ faults < MaxFaults /\ faults' = faults + 1
    /\ prune' = "sleep" /\ slept' = 0
    /\ saving' = [r \in Savers |-> IF UnderWay(r) THEN "done" ELSE saving[r]]
    /\ UNCHANGED <<today, rows, settings, body, limit, overlap>>

-----------------------------------------------------------------------------
\* A task that is due begins within the day.
NextDay ==
    /\ today < MaxToday /\ prune = "sleep" /\ ~Due
    /\ today' = today + 1 /\ slept' = slept + 1
    /\ UNCHANGED <<rows, settings, saving, body, prune, limit, overlap, faults>>

(***************************************************************************)
(* The tailer stores a download with the time in its line.  A tailer that  *)
(* was down, or that reads a log from its start, stores old ones too; and  *)
(* the zone of the stamp is dropped, so that a line can be of tomorrow.    *)
(***************************************************************************)
Store(r, day) ==
    /\ ever[r] = None
    /\ downloads' = [downloads EXCEPT ![r] = day]
    /\ ever' = [ever EXCEPT ![r] = day]
    /\ storedOn' = [storedOn EXCEPT ![r] = today]
    /\ UNCHANGED <<today, settings, saving, body, pruning, faults>>

RetentionNext ==
    \/ \E r \in Savers : \/ \E b \in Bodies : BeginSave(r, b)
                           \/ SetDays(r) \/ SetEnabled(r) \/ SettingFails(r)
    \/ PruneBegins \/ get_retention_enabled \/ get_retention_days \/ Delete \/ PruneFails
    \/ Restart \/ NextDay
    \/ \E r \in Records, day \in 0..(today + 1) : Store(r, day)

RetentionSpec == RetentionInit /\ [][RetentionNext]_retentionVars

-----------------------------------------------------------------------------
\* get_summary: the downloads of the last n days and of the n days before.
get_summary(table, n) ==
    [current  |-> Cardinality({r \in Records : table[r] # None /\ table[r] >= today - n}),
     previous |-> Cardinality({r \in Records : /\ table[r] # None
                                            /\ table[r] >= today - 2 * n /\ table[r] < today - n})]

RetentionTypeOK ==
    /\ today \in Nat
    /\ downloads \in [Records -> Nat \cup {None}] /\ ever \in [Records -> Nat \cup {None}]
    /\ storedOn \in [Records -> Nat]
    /\ \A r \in Records : downloads[r] \in {ever[r], None} /\ storedOn[r] <= today
    /\ days \in DaySettings /\ enabled \in BOOLEAN /\ limit \in DaySettings
    /\ saving \in [Savers -> {"idle", "days", "enabled", "done"}]
    /\ body \in [Savers -> Bodies]
    /\ prune \in {"sleep", "enabled", "days", "delete"}
    /\ slept \in Nat
    /\ faults \in Nat /\ daysSeen \subseteq DaySettings /\ alwaysOn \in BOOLEAN /\ overlap \in BOOLEAN

(***************************************************************************)
(* What is pruned is what the settings call for at that moment, although   *)
(* they are read in two transactions and used in a third, provided that no *)
(* change of them was under way when the pruning began (logs.py 128-133:   *)
(* "Skipped if retention is disabled").                                    *)
(***************************************************************************)
PrunedAsSet ==
    [][\A r \in Records : downloads[r] # None /\ downloads'[r] = None /\ ~overlap
                         => enabled /\ Old(r, days)]_retentionVars

(***************************************************************************)
(* The pruning keeps up: as long as it has never been disabled, a row that *)
(* is older than the largest number of days that was ever set is in the    *)
(* table for one day more, counted from when it passed that age or, if it  *)
(* was older when the tailer stored it, from then; and each restart of the *)
(* backend, each failure, costs at most a day.                             *)
(***************************************************************************)
AgeBounded ==
    alwaysOn => \A r \in Records : downloads[r] # None =>
                  \/ \E n \in daysSeen : today - downloads[r] <= n + 1 + faults
                  \/ today - storedOn[r] <= 1 + faults

(***************************************************************************)
(* The comparison of the dashboard is fair: if twice its period was never  *)
(* more than the retention, the pruning has taken nothing from either of   *)
(* its two periods.                                                        *)
(***************************************************************************)
SummaryFair ==
    \A n \in 1..MaxToday :
      (\A d \in daysSeen : 2 * n <= d) => get_summary(downloads, n) = get_summary(ever, n)
=============================================================================
