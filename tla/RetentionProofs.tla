-------------------------- MODULE RetentionProofs --------------------------
(***************************************************************************)
(* What Retention.tla guarantees for any number of rows, requests, days    *)
(* and failures.                                                           *)
(***************************************************************************)
EXTENDS Retention, TLAPS

-----------------------------------------------------------------------------
(***************************************************************************)
(* A pruning that no request overlaps acts on the settings of the moment.  *)
(***************************************************************************)
PruningInv ==
    prune # "sleep" /\ ~overlap =>
      /\ \A r \in Savers : ~UnderWay(r)
      /\ prune \in {"days", "delete"} => enabled
      /\ prune = "delete" => limit = days

(***************************************************************************)
(* What the history says of the settings and of the task.                  *)
(***************************************************************************)
HistoryInv ==
    /\ days \in daysSeen
    /\ prune = "delete" => limit \in daysSeen
    /\ alwaysOn => enabled
    /\ slept \in {0, 1}

(***************************************************************************)
(* A row that is stored is no older than the bound, or has not been stored *)
(* for longer than the task has slept and failed; and one that was pruned  *)
(* is older than some number of days that was set.                         *)
(***************************************************************************)
AgeInv ==
    \A r \in Records :
      /\ alwaysOn /\ downloads[r] # None =>
            \/ \E n \in daysSeen : today - downloads[r] <= n + slept + faults
            \/ today - storedOn[r] <= slept + faults
      /\ ever[r] # None /\ downloads[r] = None => \E n \in daysSeen : ever[r] < today - n

Inv == RetentionTypeOK /\ PruningInv /\ HistoryInv /\ AgeInv

\* The backend starts with the types of RetentionTypeOK,
LEMMA RetentionTypeInit == RetentionInit => RetentionTypeOK
<1> SUFFICES ASSUME RetentionInit PROVE RetentionTypeOK
  OBVIOUS
<1>1. enabled \in BOOLEAN /\ alwaysOn \in BOOLEAN /\ overlap \in BOOLEAN
  BY Zenon DEF RetentionInit
<1> QED
  BY <1>1, RetentionAssumption DEF RetentionInit, RetentionTypeOK, Bodies

\* and keeps them.
LEMMA RetentionTypeStep == RetentionTypeOK /\ [RetentionNext]_retentionVars => RetentionTypeOK'
<1> SUFFICES ASSUME RetentionTypeOK, [RetentionNext]_retentionVars PROVE RetentionTypeOK'
  OBVIOUS
<1> USE RetentionAssumption DEF RetentionTypeOK, rows, settings, pruning
<1>1. ASSUME NEW r \in Savers, NEW b \in Bodies, BeginSave(r, b) PROVE RetentionTypeOK'
  BY <1>1 DEF BeginSave
<1>2. ASSUME NEW r \in Savers, SetDays(r) PROVE RetentionTypeOK'
  BY <1>2 DEF SetDays, Bodies
<1>3. ASSUME NEW r \in Savers, SetEnabled(r) PROVE RetentionTypeOK'
  <2>1. enabled' \in BOOLEAN /\ alwaysOn' \in BOOLEAN
    BY <1>3 DEF SetEnabled, Bodies
  <2> QED
    BY <1>3, <2>1 DEF SetEnabled
<1>4. ASSUME NEW r \in Savers, SettingFails(r) PROVE RetentionTypeOK'
  BY <1>4 DEF SettingFails
<1>5. CASE PruneBegins
  <2>1. overlap' \in BOOLEAN
    BY <1>5 DEF PruneBegins
  <2> QED
    BY <1>5, <2>1 DEF PruneBegins
<1>6. CASE get_retention_enabled
  BY <1>6 DEF get_retention_enabled
<1>7. CASE get_retention_days
  BY <1>7 DEF get_retention_days
<1>8. CASE Delete
  BY <1>8 DEF Delete
<1>9. CASE PruneFails
  BY <1>9 DEF PruneFails
<1>10. CASE Restart
  BY <1>10 DEF Restart
<1>11. CASE NextDay
  BY <1>11 DEF NextDay
<1>12. ASSUME NEW r \in Records, NEW day \in 0..(today + 1), Store(r, day) PROVE RetentionTypeOK'
  BY <1>12 DEF Store
<1>13. CASE UNCHANGED retentionVars
  BY <1>13 DEF retentionVars
<1> QED
  BY <1>1, <1>2, <1>3, <1>4, <1>5, <1>6, <1>7, <1>8, <1>9, <1>10, <1>11, <1>12, <1>13
     DEF RetentionNext

-----------------------------------------------------------------------------
\* A request that is under way when the pruning begins is an overlap, and
\* none begins while it prunes: the settings stay as they were read.
LEMMA PruningStep ==
    RetentionTypeOK /\ PruningInv /\ [RetentionNext]_retentionVars => PruningInv'
<1> SUFFICES ASSUME RetentionTypeOK, PruningInv, [RetentionNext]_retentionVars,
                    prune' # "sleep", ~overlap'
             PROVE  /\ \A r \in Savers : ~UnderWay(r)'
                    /\ prune' \in {"days", "delete"} => enabled'
                    /\ prune' = "delete" => limit' = days'
  BY DEF PruningInv
<1> USE DEF PruningInv, UnderWay, rows, settings, pruning
<1>1. ASSUME NEW r \in Savers, NEW b \in Bodies, BeginSave(r, b) PROVE FALSE
  BY <1>1 DEF BeginSave
<1>2. ASSUME NEW r \in Savers, SetDays(r) \/ SetEnabled(r) \/ SettingFails(r) PROVE FALSE
  BY <1>2 DEF SetDays, SetEnabled, SettingFails
<1>3. CASE PruneBegins
  BY <1>3 DEF PruneBegins
<1>4. CASE get_retention_enabled
  BY <1>4 DEF get_retention_enabled
<1>5. CASE get_retention_days
  BY <1>5 DEF get_retention_days
<1>6. CASE Delete \/ PruneFails \/ Restart
  BY <1>6 DEF Delete, PruneFails, Restart
<1>7. CASE NextDay
  BY <1>7 DEF NextDay
<1>8. ASSUME NEW r \in Records, NEW day \in 0..(today + 1), Store(r, day)
      PROVE  UNCHANGED <<saving, enabled, days, limit, prune, overlap>>
  BY <1>8 DEF Store
<1>9. CASE UNCHANGED retentionVars
  BY <1>9 DEF retentionVars
<1> QED
  BY <1>1, <1>2, <1>3, <1>4, <1>5, <1>6, <1>7, <1>8, <1>9 DEF RetentionNext

\* The history is that of the settings.
LEMMA HistoryStep ==
    RetentionTypeOK /\ HistoryInv /\ [RetentionNext]_retentionVars => HistoryInv'
<1> SUFFICES ASSUME RetentionTypeOK, HistoryInv, [RetentionNext]_retentionVars PROVE HistoryInv'
  OBVIOUS
<1> USE DEF HistoryInv, rows, settings, pruning
<1>1. ASSUME NEW r \in Savers, NEW b \in Bodies, BeginSave(r, b) PROVE HistoryInv'
  BY <1>1 DEF BeginSave
<1>2. ASSUME NEW r \in Savers, SetDays(r) PROVE HistoryInv'
  BY <1>2 DEF SetDays
<1>3. ASSUME NEW r \in Savers, SetEnabled(r) PROVE HistoryInv'
  <2>1. alwaysOn' => enabled'
    BY <1>3 DEF SetEnabled
  <2> QED
    BY <1>3, <2>1 DEF SetEnabled
<1>4. ASSUME NEW r \in Savers, SettingFails(r) PROVE HistoryInv'
  BY <1>4 DEF SettingFails
<1>5. CASE PruneBegins
  BY <1>5 DEF PruneBegins
<1>6. CASE get_retention_enabled
  BY <1>6 DEF get_retention_enabled
<1>7. CASE get_retention_days
  BY <1>7 DEF get_retention_days
<1>8. CASE Delete \/ PruneFails \/ Restart
  BY <1>8 DEF Delete, PruneFails, Restart
<1>9. CASE NextDay
  BY <1>9 DEF NextDay, Due
<1>10. ASSUME NEW r \in Records, NEW day \in 0..(today + 1), Store(r, day) PROVE HistoryInv'
  BY <1>10 DEF Store
<1>11. CASE UNCHANGED retentionVars
  BY <1>11 DEF retentionVars
<1> QED
  BY <1>1, <1>2, <1>3, <1>4, <1>5, <1>6, <1>7, <1>8, <1>9, <1>10, <1>11 DEF RetentionNext

-----------------------------------------------------------------------------
\* The bound of a row moves with the day, and with the failure that a day
\* more of sleep costs.
LEMMA BoundKept ==
    ASSUME RetentionTypeOK, RetentionTypeOK', HistoryInv, AgeInv, NEW r \in Records,
           downloads'[r] = downloads[r], ever'[r] = ever[r], storedOn'[r] = storedOn[r],
           daysSeen \subseteq daysSeen',
           alwaysOn' => alwaysOn,
           today' = today \/ today' = today + 1,
           slept' \in Nat, slept' + faults' >= slept + faults + today' - today
    PROVE  /\ alwaysOn' /\ downloads'[r] # None
                => \/ \E n \in daysSeen' : today' - downloads'[r] <= n + slept' + faults'
                   \/ today' - storedOn'[r] <= slept' + faults'
           /\ ever'[r] # None /\ downloads'[r] = None => \E n \in daysSeen' : ever'[r] < today' - n
<1>type. /\ today \in Nat /\ slept \in Nat /\ faults \in Nat /\ faults' \in Nat
         /\ daysSeen \subseteq Nat
         /\ downloads[r] \in Nat \cup {None} /\ ever[r] \in Nat \cup {None} /\ storedOn[r] \in Nat
  BY RetentionAssumption DEF RetentionTypeOK
<1>1. ASSUME alwaysOn', downloads'[r] # None
      PROVE  \/ \E n \in daysSeen' : today' - downloads'[r] <= n + slept' + faults'
             \/ today' - storedOn'[r] <= slept' + faults'
  <2>1. CASE today - storedOn[r] <= slept + faults
    BY <1>type, <2>1
  <2>2. ASSUME NEW n \in daysSeen, today - downloads[r] <= n + slept + faults
        PROVE  today' - downloads[r] <= n + slept' + faults'
    BY <1>1, <1>type, <2>2
  <2>3. CASE \E n \in daysSeen : today - downloads[r] <= n + slept + faults
    BY <2>2, <2>3
  <2> QED
    BY <1>1, <2>1, <2>3 DEF AgeInv
<1>2. ASSUME ever'[r] # None, downloads'[r] = None
      PROVE  \E n \in daysSeen' : ever'[r] < today' - n
  <2>1. PICK n \in daysSeen : ever[r] < today - n
    BY <1>2 DEF AgeInv
  <2>2. ever[r] < today' - n
    BY <1>2, <1>type, <2>1
  <2> QED
    BY <2>2
<1> QED
  BY <1>1, <1>2

\* Every step keeps the bound: a pruning begins it anew with the number of
\* days that it has read, and a row that is stored begins its own.
LEMMA AgeStep ==
    RetentionTypeOK /\ RetentionTypeOK' /\ HistoryInv /\ AgeInv /\ [RetentionNext]_retentionVars => AgeInv'
<1> SUFFICES ASSUME RetentionTypeOK, RetentionTypeOK', HistoryInv, AgeInv,
                    [RetentionNext]_retentionVars, NEW r \in Records
             PROVE  /\ alwaysOn' /\ downloads'[r] # None
                         => \/ \E n \in daysSeen' : today' - downloads'[r] <= n + slept' + faults'
                            \/ today' - storedOn'[r] <= slept' + faults'
                    /\ ever'[r] # None /\ downloads'[r] = None
                         => \E n \in daysSeen' : ever'[r] < today' - n
  BY DEF AgeInv
<1> USE DEF rows, settings, pruning
<1>type. /\ today \in Nat /\ slept \in {0, 1} /\ faults \in Nat
         /\ daysSeen \subseteq Nat \ {0} /\ days \in daysSeen /\ None \notin Int
         /\ downloads \in [Records -> Nat \cup {None}] /\ ever \in [Records -> Nat \cup {None}]
         /\ downloads[r] \in {ever[r], None} /\ storedOn \in [Records -> Nat]
  BY RetentionAssumption DEF RetentionTypeOK, HistoryInv
<1>1. ASSUME NEW q \in Savers, NEW b \in Bodies, BeginSave(q, b)
      PROVE  UNCHANGED <<today, rows, settings, slept, faults>>
  BY <1>1 DEF BeginSave
<1>2. ASSUME NEW q \in Savers, SetDays(q)
      PROVE  UNCHANGED <<today, rows, alwaysOn, slept, faults>> /\ daysSeen \subseteq daysSeen'
  BY <1>2 DEF SetDays
<1>3. ASSUME NEW q \in Savers, SetEnabled(q)
      PROVE  UNCHANGED <<today, rows, daysSeen, slept, faults>> /\ (alwaysOn' => alwaysOn)
  BY <1>3 DEF SetEnabled
<1>4. ASSUME NEW q \in Savers, SettingFails(q)
      PROVE  UNCHANGED <<today, rows, settings, slept>> /\ faults' = faults + 1
  BY <1>4 DEF SettingFails
<1>5. CASE PruneBegins \/ get_retention_days
  <2>1. UNCHANGED <<today, rows, settings, slept, faults>>
    BY <1>5 DEF PruneBegins, get_retention_days
  <2> QED
    BY <2>1, <1>type, BoundKept
<1>6. CASE get_retention_enabled
  <2>1. CASE enabled
    BY <1>6, <2>1, <1>type, BoundKept DEF get_retention_enabled
  <2>2. CASE ~enabled
    <3>1. ~alwaysOn' /\ UNCHANGED <<today, rows, daysSeen>>
      BY <1>6, <2>2 DEF get_retention_enabled, HistoryInv
    <3> QED
      BY <3>1 DEF AgeInv
  <2> QED
    BY <2>1, <2>2
<1>7. CASE Delete
  <2>1. limit \in daysSeen /\ limit \in Nat /\ slept' = 0 /\ UNCHANGED <<today, ever, daysSeen, faults>>
    BY <1>7, <1>type DEF Delete, HistoryInv
  <2>2. CASE Old(r, limit)
    <3>1. downloads'[r] = None /\ ever[r] = downloads[r] /\ ever[r] < today - limit
      BY <1>7, <2>2, <1>type DEF Delete, Old
    <3> QED
      BY <2>1, <3>1
  <2>3. CASE ~Old(r, limit)
    <3>1. downloads'[r] = downloads[r]
      BY <1>7, <2>3, <1>type DEF Delete
    <3>2. downloads[r] # None => today - downloads[r] <= limit + 0 + faults
      BY <2>1, <2>3, <1>type DEF Old
    <3> QED
      BY <2>1, <3>1, <3>2 DEF AgeInv
  <2> QED
    BY <2>2, <2>3
<1>8. CASE PruneFails \/ Restart
  <2>1. /\ UNCHANGED <<today, rows, settings>> /\ slept' = 0 /\ faults' = faults + 1
    BY <1>8 DEF PruneFails, Restart
  <2> QED
    BY <2>1, <1>type, BoundKept
<1>9. CASE NextDay
  BY <1>9, <1>type, BoundKept DEF NextDay
<1>10. ASSUME NEW q \in Records, NEW day \in 0..(today + 1), Store(q, day)
       PROVE  /\ alwaysOn' /\ downloads'[r] # None
                   => \/ \E n \in daysSeen' : today' - downloads'[r] <= n + slept' + faults'
                      \/ today' - storedOn'[r] <= slept' + faults'
              /\ ever'[r] # None /\ downloads'[r] = None
                   => \E n \in daysSeen' : ever'[r] < today' - n
  <2>1. CASE q # r
    BY <1>10, <2>1, <1>type, BoundKept DEF Store
  <2>2. CASE q = r
    <3>1. downloads'[r] = day /\ storedOn'[r] = today /\ UNCHANGED <<today, slept, faults>>
      BY <1>10, <2>2, <1>type DEF Store
    <3>2. today' - storedOn'[r] <= slept' + faults' /\ downloads'[r] # None
      BY <3>1, <1>type
    <3> QED
      BY <3>1, <3>2, <1>type
  <2> QED
    BY <2>1, <2>2
<1>11. CASE UNCHANGED retentionVars
  BY <1>11, <1>type, BoundKept DEF retentionVars
<1> QED
  BY <1>1, <1>2, <1>3, <1>4, <1>5, <1>6, <1>7, <1>8, <1>9, <1>10, <1>11, <1>type, BoundKept
     DEF RetentionNext

-----------------------------------------------------------------------------
\* The inductive invariant holds at every moment.
LEMMA InvHolds == RetentionSpec => []Inv
<1>1. RetentionInit => Inv
  <2>1. RetentionInit => PruningInv /\ HistoryInv /\ AgeInv
    BY DEF RetentionInit, PruningInv, HistoryInv, AgeInv
  <2> QED
    BY <2>1, RetentionTypeInit DEF Inv
<1>2. Inv /\ [RetentionNext]_retentionVars => Inv'
  BY RetentionTypeStep, PruningStep, HistoryStep, AgeStep DEF Inv
<1> QED
  BY <1>1, <1>2, PTL DEF RetentionSpec

(***************************************************************************)
(* RetentionTypeOK: the settings stay in their ranges, and what is stored  *)
(* is what was ever stored, less what was pruned.                          *)
(***************************************************************************)
THEOREM RetentionTypesHold == RetentionSpec => []RetentionTypeOK
<1>1. Inv => RetentionTypeOK
  BY DEF Inv
<1> QED
  BY <1>1, InvHolds, PTL

(***************************************************************************)
(* PrunedAsSet: prune_old_records reads its settings in two transactions   *)
(* and deletes in a third, and still prunes what the settings call for.    *)
(***************************************************************************)
THEOREM PruningIsAsSet == RetentionSpec => PrunedAsSet
<1>1. Inv /\ [RetentionNext]_retentionVars
        => [\A r \in Records : downloads[r] # None /\ downloads'[r] = None /\ ~overlap
                                 => enabled /\ Old(r, days)]_retentionVars
  <2> SUFFICES ASSUME Inv, RetentionNext, NEW r \in Records,
                      downloads[r] # None, downloads'[r] = None, ~overlap
               PROVE  enabled /\ Old(r, days)
    OBVIOUS
  <2> USE DEF rows, settings, pruning
  <2>1. Delete
    <3>1. ASSUME NEW q \in Records, NEW day \in 0..(today + 1), Store(q, day) PROVE FALSE
      BY <3>1, RetentionAssumption DEF Store, Inv, RetentionTypeOK
    <3>2. UNCHANGED downloads => FALSE
      OBVIOUS
    <3> QED
      BY <3>1, <3>2 DEF RetentionNext, BeginSave, SetDays, SetEnabled, SettingFails, PruneBegins,
         get_retention_enabled, get_retention_days, PruneFails, Restart, NextDay
  <2>2. enabled /\ limit = days
    BY <2>1 DEF Delete, Inv, PruningInv
  <2> QED
    BY <2>1, <2>2 DEF Delete, Inv, RetentionTypeOK
<1> QED
  BY <1>1, InvHolds, PTL DEF RetentionSpec, PrunedAsSet

(***************************************************************************)
(* AgeBounded: the nightly pruning keeps up with rows of any age, and each *)
(* restart or failure costs at most a day (main.py 51-59).                 *)
(***************************************************************************)
THEOREM AgeIsBounded == RetentionSpec => []AgeBounded
<1>1. Inv => AgeBounded
  <2> SUFFICES ASSUME Inv, alwaysOn, NEW r \in Records, downloads[r] # None
               PROVE  \/ \E n \in daysSeen : today - downloads[r] <= n + 1 + faults
                      \/ today - storedOn[r] <= 1 + faults
    BY DEF AgeBounded
  <2>1. /\ daysSeen \subseteq Nat /\ slept \in {0, 1} /\ faults \in Nat /\ today \in Nat
        /\ downloads[r] \in Nat /\ storedOn[r] \in Nat
    BY RetentionAssumption DEF Inv, RetentionTypeOK, HistoryInv
  <2>2. ASSUME NEW n \in daysSeen, today - downloads[r] <= n + slept + faults
        PROVE  today - downloads[r] <= n + 1 + faults
    BY <2>1, <2>2
  <2>3. CASE today - storedOn[r] <= slept + faults
    BY <2>1, <2>3
  <2> QED
    BY <2>2, <2>3 DEF Inv, AgeInv
<1> QED
  BY <1>1, InvHolds, PTL

(***************************************************************************)
(* SummaryFair: what the pruning has taken lies before both periods of the *)
(* dashboard, if twice its period was never more than the retention.       *)
(***************************************************************************)
THEOREM SummaryIsFair == RetentionSpec => []SummaryFair
<1>1. Inv => SummaryFair
  <2> SUFFICES ASSUME Inv, NEW n \in 1..MaxToday, \A d \in daysSeen : 2 * n <= d
               PROVE  get_summary(downloads, n) = get_summary(ever, n)
    BY DEF SummaryFair
  <2>1. ASSUME NEW r \in Records
        PROVE  downloads[r] = ever[r] \/ (downloads[r] = None /\ ever[r] < today - 2 * n /\ ever[r] \in Nat)
    <3>1. CASE downloads[r] # None \/ ever[r] = None
      BY <3>1 DEF Inv, RetentionTypeOK
    <3>2. CASE downloads[r] = None /\ ever[r] # None
      <4>1. PICK d \in daysSeen : ever[r] < today - d
        BY <3>2 DEF Inv, AgeInv
      <4>2. d \in Nat /\ 2 * n <= d /\ ever[r] \in Nat /\ today \in Nat /\ n \in Nat
        BY <3>2, RetentionAssumption DEF Inv, RetentionTypeOK
      <4> QED
        BY <3>2, <4>1, <4>2
    <3> QED
      BY <3>1, <3>2
  <2>2. today \in Nat /\ n \in Nat
    BY RetentionAssumption DEF Inv, RetentionTypeOK
  <2>3. {r \in Records : downloads[r] # None /\ downloads[r] >= today - n}
          = {r \in Records : ever[r] # None /\ ever[r] >= today - n}
    BY <2>1, <2>2
  <2>4. {r \in Records : downloads[r] # None /\ downloads[r] >= today - 2 * n /\ downloads[r] < today - n}
          = {r \in Records : ever[r] # None /\ ever[r] >= today - 2 * n /\ ever[r] < today - n}
    BY <2>1, <2>2
  <2> QED
    BY <2>3, <2>4 DEF get_summary
<1> QED
  BY <1>1, InvHolds, PTL
=============================================================================
