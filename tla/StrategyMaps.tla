---------------------------- MODULE StrategyMaps ----------------------------
(***************************************************************************)
(* From the times an installer asks for to the windows of an instance.     *)
(* The installer's operator calls ReconcileStrategyMaps once per tier      *)
(* (pkg/client): it turns the times into the windows of the cloud in use   *)
(* and writes them into the strategy config map, which holds all tiers and *)
(* which administrators edit too.  The providers read the config map on    *)
(* every pass and modify an instance that differs from it                  *)
(* (buildRDSUpdateStrategy and its counterparts).  Of the other settings   *)
(* of a strategy two are kept: the class of the instance and the retention *)
(* of its backups.                                                         *)
(***************************************************************************)
EXTENDS Integers

CONSTANTS
  Tiers,       \* the tiers of the config map
  Tier,        \* the one of the CR
  Times,       \* the times that may be asked for
  FirstTimes,  \* those asked for at first
  Classes,     \* instance classes
  MaxChanges,  \* bound on new times, edits of the config map and failed calls
  None

Kinds == {"postgres", "redis"}
Day  == 24 * 60
Hour == 60

\* A maintenance start is a day of the week, Sunday being 0, and a minute of
\* that day; a backup start is a minute of every day.
TimeConfigs == [backup : 0 .. Day - 1, day : 0 .. 6, maint : 0 .. Day - 1]

ASSUME ConstantsAssumption ==
  /\ Tier \in Tiers /\ Times \subseteq TimeConfigs /\ FirstTimes \in Times /\ MaxChanges \in Nat
  /\ Classes # {} /\ None \notin Classes

DefaultClass == CHOOSE c \in Classes : TRUE

VARIABLES
  cloud,    \* the platform, and whether ElastiCache's zones offer every class
  times,    \* the times each tier's caller asks for
  cm,       \* the config map: kind |-> tier |-> create strategy; or NoMap
  kind,     \* the kind of the CR; those of other CRs are independent of it
  inst,     \* its instance
  caller,   \* ReconcileStrategyMap per tier: the copy read, whether it is current
  w,        \* the provider: next call, strategy read, modification built
  settled,  \* history: the tiers written since their times or entries last changed
  wanted,   \* history: what administrators last set
  changes

vars == <<cloud, kind, times, cm, inst, caller, w, settled, wanted, changes>>
----------------------------------------------------------------------------
(* Windows.                                                                *)

\* Seeded fault: every window ends on the day it starts.
buildAWSWindows_SameDay(tc) ==
  [backup |-> [from |-> tc.backup, to |-> (tc.backup + Hour) % Day],
   maint  |-> [day |-> tc.day, from |-> tc.maint,
               dayTo |-> tc.day, to |-> (tc.maint + Hour) % Day]]

\* The two windows, of an hour each; one that starts in the last hour of the
\* day ends on the next.
buildAWSWindows(tc) ==
  LET dayTo == IF tc.maint \div Hour # 23 THEN tc.day
               ELSE IF tc.day = 6 THEN 0 ELSE tc.day + 1
  IN  [backup |-> [from |-> tc.backup, to |-> (tc.backup + Hour) % Day],
       maint  |-> [day |-> tc.day, from |-> tc.maint,
                   dayTo |-> dayTo, to |-> (tc.maint + Hour) % Day]]

\* None, a nil pointer in the code, is no window.
ASSUME NoneAssumption ==
  \A tc \in Times : buildAWSWindows(tc).backup # None /\ buildAWSWindows(tc).maint # None

\* Both starts are times of one date, and so neither end is cut at midnight.
timeBlockOverlaps(tc) ==
  tc.backup <= tc.maint + Hour /\ tc.backup + Hour >= tc.maint

\* Sunday is the seventh day.
GCPDay(tc) == IF tc.day = 0 THEN 7 ELSE tc.day

\* Cloud SQL takes the hour of the maintenance and the start of the backup.
CloudSQLWindows(tc) ==
  [backup |-> tc.backup, maint |-> [day |-> GCPDay(tc), from |-> (tc.maint \div Hour) * Hour]]

\* Memorystore takes the minute of the maintenance and no backup.
MemorystoreWindows(tc) ==
  [backup |-> None, maint |-> [day |-> GCPDay(tc), from |-> tc.maint]]

Windows(k, tc) ==
  CASE cloud.aws -> buildAWSWindows(tc)
    [] ~cloud.aws /\ k = "postgres" -> CloudSQLWindows(tc)
    [] ~cloud.aws /\ k = "redis" -> MemorystoreWindows(tc)

\* buildAWSWindows returns an error; on GCP nothing is compared.
Refused(tc) == cloud.aws /\ timeBlockOverlaps(tc)
----------------------------------------------------------------------------
(* The config map.                                                         *)

NoMap == [k \in {} |-> None]
Default == [class |-> None, retention |-> None, backup |-> None, maint |-> None]
DefaultKey == [t \in Tiers |-> Default]

\* Seeded fault: the strategy is written anew.
Reconciled_FromDefault(k, t, tc, key) ==
  LET win == Windows(k, tc)
  IN  [key EXCEPT ![t] = [Default EXCEPT !.backup = win.backup, !.maint = win.maint]]

\* The key with the windows put into the tier's strategy.  On GCP another start
\* of the backup replaces the backup configuration as a whole.
Reconciled(k, t, tc, key) ==
  LET win == Windows(k, tc)
      old == key[t]
  IN  [key EXCEPT ![t] =
        [class |-> old.class, backup |-> win.backup, maint |-> win.maint,
         retention |-> IF ~cloud.aws /\ k = "postgres" /\ old.backup # win.backup
                       THEN None ELSE old.retention]]

\* The function passed to CreateOrUpdate: missing keys are added, both reconciled.
Mutate(t, tc, map) ==
  [k \in Kinds |-> Reconciled(k, t, tc, IF k \in DOMAIN map THEN map[k] ELSE DefaultKey)]

Idle(tc) == [reading |-> FALSE, tc |-> tc, copy |-> NoMap, fresh |-> TRUE]

\* The copies read before a write are outdated after it.
Outdated == [u \in Tiers |-> [caller[u] EXCEPT !.fresh = ~caller[u].reading]]

Settles(t) == settled' = IF caller[t].tc = times[t] THEN settled \cup {t} ELSE settled

\* ReconcileStrategyMap up to the read of CreateOrUpdate.
GetConfigMap(t) ==
  /\ ~caller[t].reading /\ ~Refused(times[t])
  /\ caller' = [caller EXCEPT ![t] =
                  [reading |-> TRUE, tc |-> times[t], copy |-> cm, fresh |-> TRUE]]
  /\ UNCHANGED <<cloud, kind, times, cm, inst, w, settled, wanted, changes>>

\* Seeded fault: the write does not carry the version that was read.
WriteConfigMap_Blind(t) ==
  /\ caller[t].reading
  /\ cm' = Mutate(t, caller[t].tc, caller[t].copy)
  /\ caller' = [Outdated EXCEPT ![t] = Idle(times[t])]
  /\ Settles(t)
  /\ UNCHANGED <<cloud, kind, times, inst, w, wanted, changes>>

\* The rest of it: nothing is written if nothing differs; a conflict, or a map
\* created in the meantime, is an error, and the caller begins anew.
WriteConfigMap(t) ==
  LET new  == Mutate(t, caller[t].tc, caller[t].copy)
      same == new = caller[t].copy
  IN  /\ caller[t].reading
      /\ \/ /\ same
            /\ caller' = [caller EXCEPT ![t] = Idle(times[t])]
            /\ IF caller[t].fresh THEN Settles(t) ELSE UNCHANGED settled
            /\ UNCHANGED cm
         \/ /\ ~same /\ caller[t].fresh
            /\ cm' = new
            /\ caller' = [Outdated EXCEPT ![t] = Idle(times[t])]
            /\ Settles(t)
         \/ /\ ~same /\ ~caller[t].fresh
            /\ caller' = [caller EXCEPT ![t] = Idle(times[t])]
            /\ UNCHANGED <<cm, settled>>
      /\ UNCHANGED <<cloud, kind, times, inst, w, wanted, changes>>

\* A call to the API server fails.
CallerFails(t) ==
  /\ changes < MaxChanges /\ changes' = changes + 1
  /\ caller[t].reading
  /\ caller' = [caller EXCEPT ![t] = Idle(times[t])]
  /\ UNCHANGED <<cloud, kind, times, cm, inst, w, settled, wanted>>
----------------------------------------------------------------------------
(* The providers.                                                          *)

\* The strategy's class, or the default the provider puts in its place.
Class(s) == IF s.class = None THEN DefaultClass ELSE s.class

\* Seeded fault: a window is compared only if the instance has one already.
Changed_Presence(s, i) ==
  {f \in {"class", "backup", "maint"} :
     IF f = "class" THEN Class(s) # i.class ELSE i[f] # None /\ s[f] # i[f]}

\* A modification is the set of fields of the strategy that it sends.
Changed(s, i) ==
  {f \in {"class", "backup", "maint"} :
     IF f = "class" THEN Class(s) # i.class ELSE s[f] # None /\ s[f] # i[f]}

\* Seeded fault: the maintenance window is not compared.
buildRDSUpdateStrategy_NoMaintenance(s, i) ==
  IF "class" \in Changed(s, i) /\ Class(s) = i.pending THEN {} ELSE Changed(s, i) \ {"maint"}

\* All of the modification is withheld while the class it asks for is pending.
buildRDSUpdateStrategy(s, i) ==
  IF "class" \in Changed(s, i) /\ Class(s) = i.pending THEN {} ELSE Changed(s, i)

\* A class that some zone does not offer is passed over.
buildElasticacheUpdateStrategy(s, i) ==
  IF cloud.offered THEN Changed(s, i) ELSE Changed(s, i) \ {"class"}

\* The start of the backup is not compared.
buildCloudSQLUpdateStrategy(s, i) == Changed(s, i) \ {"backup"}

\* Memorystore: a policy that the strategy does not have is taken away.
buildUpdateInstanceRequest(s, i) ==
  (Changed(s, i) \cap {"class"}) \cup (IF s.maint # i.maint THEN {"maint"} ELSE {})

Modification(s, i) ==
  CASE cloud.aws /\ kind = "postgres"  -> buildRDSUpdateStrategy(s, i)
    [] cloud.aws /\ kind = "redis"     -> buildElasticacheUpdateStrategy(s, i)
    [] ~cloud.aws /\ kind = "postgres" -> buildCloudSQLUpdateStrategy(s, i)
    [] ~cloud.aws /\ kind = "redis"    -> buildUpdateInstanceRequest(s, i)

Start == [pc |-> "read", strat |-> Default, mod |-> {}]

\* A config map that does not exist is read as the default; a key that is
\* missing is an error, and the pass is tried again.
ReadStorageStrategy ==
  /\ w.pc = "read"
  /\ cm = NoMap \/ kind \in DOMAIN cm
  /\ w' = [pc |-> "describe", mod |-> {},
           strat |-> IF cm = NoMap THEN Default ELSE cm[kind][Tier]]
  /\ UNCHANGED <<cloud, kind, times, cm, inst, caller, settled, wanted, changes>>

DescribeInstance ==
  /\ w.pc = "describe"
  /\ LET mod == Modification(w.strat, inst)
     IN  w' = IF mod = {} THEN Start ELSE [w EXCEPT !.pc = "modify", !.mod = mod]
  /\ UNCHANGED <<cloud, kind, times, cm, inst, caller, settled, wanted, changes>>

\* Whether the daily backup meets the maintenance.
Meet(backup, maint) ==
  /\ backup # None /\ maint # None
  /\ (backup.from - maint.from) % Day < Hour \/ (maint.from - backup.from) % Day < Hour

\* AWS refuses windows that meet.  It applies windows at once; another class
\* waits for the maintenance, on ElastiCache only if the CR does not say to
\* apply it immediately.
ModifyInstance ==
  LET s == w.strat
      m == w.mod
      i == [f \in DOMAIN inst |-> IF f \in m \ {"class"} THEN s[f] ELSE inst[f]]
  IN  /\ w.pc = "modify"
      /\ w' = Start
      /\ IF cloud.aws /\ Meet(i.backup, i.maint) THEN UNCHANGED inst
         ELSE \/ /\ "class" \notin m
                 /\ inst' = i
              \/ /\ "class" \in m /\ cloud.aws
                 /\ inst' = [i EXCEPT !.pending = Class(s)]
              \/ /\ "class" \in m /\ ~(cloud.aws /\ kind = "postgres")
                 /\ inst' = [i EXCEPT !.class = Class(s), !.pending = None]
      /\ UNCHANGED <<cloud, kind, times, cm, caller, settled, wanted, changes>>

\* A pending class is applied in the maintenance window.
MaintenanceRuns ==
  /\ inst.pending # None
  /\ inst' = [inst EXCEPT !.class = inst.pending, !.pending = None]
  /\ UNCHANGED <<cloud, kind, times, cm, caller, w, settled, wanted, changes>>

\* A call fails, or the operator is restarted; the next pass begins anew.
PassFails ==
  /\ changes < MaxChanges /\ changes' = changes + 1
  /\ w.pc # "read"
  /\ w' = Start
  /\ UNCHANGED <<cloud, kind, times, cm, inst, caller, settled, wanted>>
----------------------------------------------------------------------------
(* The installer and the administrators.                                   *)

NewTimes(t) ==
  /\ changes < MaxChanges /\ changes' = changes + 1
  /\ \E tc \in Times \ {times[t]} : times' = [times EXCEPT ![t] = tc]
  /\ settled' = settled \ {t}
  /\ UNCHANGED <<cloud, kind, cm, inst, caller, w, wanted>>

Unset == [class |-> None, retention |-> None]

\* Another class, and a retention, are set.
EditStrategy(k, t) ==
  /\ changes < MaxChanges /\ changes' = changes + 1
  /\ k \in DOMAIN cm
  /\ \E c \in Classes \ {Class(cm[k][t])} :
       /\ cm' = [cm EXCEPT ![k][t].class = c, ![k][t].retention = "set"]
       /\ wanted' = [wanted EXCEPT ![k][t] = [class |-> c, retention |-> "set"]]
  /\ caller' = Outdated
  /\ UNCHANGED <<cloud, kind, times, inst, w, settled>>

\* A key is removed, with the last one the config map.
RemoveKey(k) ==
  /\ changes < MaxChanges /\ changes' = changes + 1
  /\ k \in DOMAIN cm
  /\ cm' = [l \in DOMAIN cm \ {k} |-> cm[l]]
  /\ wanted' = [wanted EXCEPT ![k] = [t \in Tiers |-> Unset]]
  /\ settled' = {}
  /\ caller' = Outdated
  /\ UNCHANGED <<cloud, kind, times, inst, w>>
----------------------------------------------------------------------------
\* An instance made without windows has ones of the cloud's own choosing (None).
Init ==
  /\ cloud \in [aws : BOOLEAN, offered : BOOLEAN] /\ kind \in Kinds
  /\ cloud.offered \/ (cloud.aws /\ kind = "redis")
  /\ times = [t \in Tiers |-> FirstTimes]
  /\ cm = NoMap
  /\ inst = [class |-> DefaultClass, pending |-> None, backup |-> None, maint |-> None]
  /\ caller = [t \in Tiers |-> Idle(times[t])]
  /\ w = Start
  /\ settled = {}
  /\ wanted = [k \in Kinds |-> [t \in Tiers |-> Unset]]
  /\ changes = 0

ReconcileStrategyMap(t) == GetConfigMap(t) \/ WriteConfigMap(t)
Provider == ReadStorageStrategy \/ DescribeInstance \/ ModifyInstance

Next ==
  \/ \E t \in Tiers : ReconcileStrategyMap(t) \/ CallerFails(t) \/ NewTimes(t)
  \/ Provider \/ MaintenanceRuns \/ PassFails
  \/ \E k \in Kinds : RemoveKey(k)
  \/ \E k \in Kinds, t \in Tiers : EditStrategy(k, t)

Spec == Init /\ [][Next]_vars

\* Callers and providers are called again and again; maintenance comes weekly.
FairSpec ==
  /\ Spec
  /\ \A t \in Tiers : WF_vars(ReconcileStrategyMap(t))
  /\ WF_vars(Provider) /\ WF_vars(MaintenanceRuns)
----------------------------------------------------------------------------
(* Properties.                                                             *)

MaintWindows ==
  IF cloud.aws THEN [day : 0 .. 6, from : 0 .. Day - 1, dayTo : 0 .. 6, to : 0 .. Day - 1]
  ELSE [day : 1 .. 7, from : 0 .. Day - 1]
BackupWindows ==
  IF cloud.aws THEN [from : 0 .. Day - 1, to : 0 .. Day - 1] ELSE 0 .. Day - 1

\* The windows have the form that the cloud accepts.
HasWindows(r) ==
  /\ r.backup = None \/ r.backup \in BackupWindows
  /\ r.maint = None \/ r.maint \in MaintWindows

TypeOK ==
  /\ times \in [Tiers -> Times]
  /\ DOMAIN cm \subseteq Kinds
  /\ \A k \in DOMAIN cm, t \in Tiers :
       /\ cm[k][t].class \in Classes \cup {None} /\ cm[k][t].retention \in {None, "set"}
       /\ HasWindows(cm[k][t])
  /\ inst.class \in Classes /\ inst.pending \in Classes \cup {None}
  /\ HasWindows(inst)
  /\ w.pc \in {"read", "describe", "modify"}
  /\ w.mod \subseteq {"class", "backup", "maint"}
  /\ settled \subseteq Tiers
  /\ changes \in 0 .. MaxChanges

\* A published maintenance window lasts one hour, over midnight and over the
\* end of the week too (pkg/client/aws/strategies_aws.go:198-236).  And
\* strategies_aws.go:227, "ensure backup and maintenance time ranges do not
\* overlap": windows that AWS would refuse are never published, whatever times
\* were asked for before.  The code compares times of one date, so windows that
\* run over midnight are left out.  Also checks the types.
WindowsAccepted ==
  /\ TypeOK
  /\ cloud.aws => \A k \in DOMAIN cm, t \in Tiers :
       LET b == cm[k][t].backup
           m == cm[k][t].maint
       IN  m # None =>
             /\ ((m.dayTo * Day + m.to) - (m.day * Day + m.from)) % (7 * Day) = Hour
             /\ b # None /\ b.from <= Day - Hour /\ m.from <= Day - Hour => ~Meet(b, m)

\* What a call has written for a tier stays until someone changes it: calls for
\* other tiers, and edits of other strategies, that run at the same time do not
\* undo it (CreateOrUpdate, strategies_aws.go:68-101, strategies_gcp.go:47-80).
NoLostTimes ==
  \A t \in settled, k \in Kinds :
    /\ k \in DOMAIN cm
    /\ LET win == Windows(k, times[t])
       IN  cm[k][t].backup = win.backup /\ cm[k][t].maint = win.maint

\* What an administrator set in a strategy survives all calls for all tiers,
\* though the map is parsed and written as a whole (strategies_aws.go:109-195,
\* strategies_gcp.go:84-197).  Cloud SQL's retention is left out: it goes when
\* the start of the backup changes.
EditsKept ==
  \A k \in DOMAIN cm, t \in Tiers :
    /\ cm[k][t].class = wanted[k][t].class
    /\ cloud.aws \/ k = "redis" => cm[k][t].retention = wanted[k][t].retention

\* Both windows of an instance stem from one request, although only the fields
\* that differ are sent, the strategy may change after it was read, and
\* modifications are withheld (aws/provider_postgres.go:742-849,
\* aws/provider_redis.go:720-830).
OneRequest ==
  cloud.aws =>
    \/ inst.backup = None /\ inst.maint = None
    \/ \E tc \in Times : /\ inst.backup = buildAWSWindows(tc).backup
                         /\ inst.maint = buildAWSWindows(tc).maint

\* pkg/client/strategies.go:11-12: strategy maps "are used to update and modify
\* the state of provisioned cloud resources".  Times that the cloud accepts, and
\* the class of the strategy, reach the instance for good once requests and
\* edits end.  Left out: the backup's start on Cloud SQL, which is not compared,
\* and a class that ElastiCache does not offer.
InstanceFollows ==
  LET tc   == times[Tier]
      wins == buildAWSWindows(tc)
  IN  <>[](~(cloud.aws /\ (timeBlockOverlaps(tc) \/ Meet(wins.backup, wins.maint))) =>
             /\ inst.maint = Windows(kind, tc).maint
             /\ cloud.aws => inst.backup = Windows(kind, tc).backup
             /\ \/ cloud.aws /\ kind = "redis" /\ ~cloud.offered
                \/ inst.class = Class(wanted[kind][Tier]))
============================================================================
