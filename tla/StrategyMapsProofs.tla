------------------------- MODULE StrategyMapsProofs -------------------------
(***************************************************************************)
(* The windows in the config map and in an instance, for every set of      *)
(* tiers, times and classes and any number of changes.  Three things       *)
(* carry the proof: a pair of windows comes from one request that was not  *)
(* refused, wherever it is copied to (Sourced); the copy of a caller is    *)
(* the config map as long as the API server would take a write of it       *)
(* (CallerInv); and a key that is missing was not edited (MapInv).         *)
(***************************************************************************)
EXTENDS StrategyMaps, TLAPS

Strategies ==
  [class : Classes \cup {None}, retention : {None, "set"},
   backup : BackupWindows \cup {None}, maint : MaintWindows \cup {None}]
Keys == [Tiers -> Strategies]
Maps == UNION {[K -> Keys] : K \in SUBSET Kinds}
Instances ==
  [class : Classes, pending : Classes \cup {None},
   backup : BackupWindows \cup {None}, maint : MaintWindows \cup {None}]
Settings == [class : Classes \cup {None}, retention : {None, "set"}]
Callers == [reading : BOOLEAN, tc : Times, copy : Maps, fresh : BOOLEAN]
Passes ==
  [pc : {"read", "describe", "modify"}, strat : Strategies,
   mod : SUBSET {"class", "backup", "maint"}]

\* The types, with the parts of the records.
Typed ==
  /\ cloud \in [aws : BOOLEAN, offered : BOOLEAN]
  /\ kind \in Kinds
  /\ times \in [Tiers -> Times]
  /\ cm \in Maps
  /\ inst \in Instances
  /\ caller \in [Tiers -> Callers]
  /\ w \in Passes
  /\ settled \in SUBSET Tiers
  /\ wanted \in [Kinds -> [Tiers -> Settings]]
  /\ changes \in 0 .. MaxChanges

\* On AWS: no windows, or both windows of one request that passed the check.
Sourced(c, r) ==
  c.aws =>
    \/ r.backup = None /\ r.maint = None
    \/ \E tc \in Times : /\ ~timeBlockOverlaps(tc)
                         /\ r.backup = buildAWSWindows(tc).backup
                         /\ r.maint = buildAWSWindows(tc).maint

SourcedMap(c, m) == \A k \in DOMAIN m, t \in Tiers : Sourced(c, m[k][t])

\* The copy that a caller would write is the map itself, or is refused; and a
\* settled tier's caller writes what is there.
CallerInv ==
  \A t \in Tiers :
    caller[t].reading =>
      /\ ~Refused(caller[t].tc)
      /\ SourcedMap(cloud, caller[t].copy)
      /\ caller[t].fresh => caller[t].copy = cm
      /\ t \in settled => caller[t].tc = times[t]

MapInv ==
  /\ SourcedMap(cloud, cm)
  /\ \A k \in Kinds \ DOMAIN cm, t \in Tiers : wanted[k][t] = Unset

\* The windows by the cloud and the kind.
Win(c, k, tc) ==
  IF c.aws THEN buildAWSWindows(tc)
  ELSE IF k = "postgres" THEN CloudSQLWindows(tc) ELSE MemorystoreWindows(tc)

\* The config map has what was written for the settled tiers.
SettledInv ==
  \A t \in settled, k \in Kinds :
    /\ k \in DOMAIN cm
    /\ cm[k][t].backup = Win(cloud, k, times[t]).backup
    /\ cm[k][t].maint = Win(cloud, k, times[t]).maint

\* A modification, sent, gives the instance both windows of the strategy.
PassInv ==
  /\ Sourced(cloud, w.strat)
  /\ Sourced(cloud, inst)
  /\ w.pc = "modify" /\ cloud.aws =>
       \A f \in {"backup", "maint"} :
         IF f \in w.mod THEN w.strat[f] # None
         ELSE w.strat[f] = None \/ w.strat[f] = inst[f]

IInv == Typed /\ CallerInv /\ MapInv /\ PassInv /\ SettledInv /\ EditsKept
----------------------------------------------------------------------------
(* Windows.                                                                *)

\* Minutes; the numbers are cited only where arithmetic needs them.
LEMMA Minutes == Day = 1440 /\ Hour = 60
  BY DEF Day, Hour

\* The end of an hour that starts at minute m of day d.
To(m) == (m + Hour) % Day
DayTo(m, d) == IF m \div Hour # 23 THEN d ELSE IF d = 6 THEN 0 ELSE d + 1

\* It is an hour later modulo the week, on the next day if the start is in the
\* last hour of the day.
LEMMA OneHour ==
  ASSUME NEW m \in 0 .. Day - 1, NEW d \in 0 .. 6
  PROVE  /\ To(m) \in 0 .. Day - 1 /\ DayTo(m, d) \in 0 .. 6
         /\ ((DayTo(m, d) * Day + To(m)) - (d * Day + m)) % (7 * Day) = Hour
  <1>1. CASE m \div Hour # 23
    <2>1. m < 1380
      BY <1>1, Minutes
    <2>2. To(m) = m + 60
      BY <2>1, Minutes DEF To
    <2> QED
      BY <1>1, <2>1, <2>2, Minutes DEF DayTo
  <1>2. CASE m \div Hour = 23
    <2>1. m >= 1380
      BY <1>2, Minutes
    <2>2. To(m) = m - 1380
      BY <2>1, Minutes DEF To
    <2>3. CASE d = 6
      BY <1>2, <2>1, <2>2, <2>3, Minutes DEF DayTo
    <2>4. CASE d # 6
      BY <1>2, <2>1, <2>2, <2>4, Minutes DEF DayTo
    <2> QED
      BY <2>3, <2>4
  <1> QED
    BY <1>1, <1>2

\* A start, cut to the hour, is in the same day.
LEMMA FullHour ==
  ASSUME NEW m \in 0 .. Day - 1
  PROVE  (m \div Hour) * Hour \in 0 .. Day - 1
  BY Minutes

\* The windows of a request are windows of AWS, and the maintenance lasts an
\* hour modulo the week (buildAWSWindows).
LEMMA AWSWindows ==
  ASSUME NEW tc \in TimeConfigs
  PROVE  LET win == buildAWSWindows(tc)
         IN  /\ win.backup \in [from : 0 .. Day - 1, to : 0 .. Day - 1]
             /\ win.maint \in [day : 0 .. 6, from : 0 .. Day - 1, dayTo : 0 .. 6, to : 0 .. Day - 1]
             /\ win.backup.from = tc.backup /\ win.maint.from = tc.maint
             /\ ((win.maint.dayTo * Day + win.maint.to) - (win.maint.day * Day + win.maint.from))
                  % (7 * Day) = Hour
  <1> DEFINE win == buildAWSWindows(tc)
             b == tc.backup
             d == tc.day
             m == tc.maint
  <1>1. b \in 0 .. Day - 1 /\ d \in 0 .. 6 /\ m \in 0 .. Day - 1
    BY DEF TimeConfigs
  <1>2. /\ win.backup = [from |-> b, to |-> To(b)]
        /\ win.maint = [day |-> d, from |-> m, dayTo |-> DayTo(m, d), to |-> To(m)]
    BY DEF buildAWSWindows, To, DayTo
  <1> HIDE DEF win, b, d, m
  <1>3. To(b) \in 0 .. Day - 1
    BY <1>1, OneHour
  <1>4. /\ To(m) \in 0 .. Day - 1 /\ DayTo(m, d) \in 0 .. 6
        /\ ((DayTo(m, d) * Day + To(m)) - (d * Day + m)) % (7 * Day) = Hour
    BY <1>1, OneHour
  <1>5. /\ win.backup.from = b /\ win.maint.from = m
        /\ win.maint.dayTo = DayTo(m, d) /\ win.maint.to = To(m) /\ win.maint.day = d
    BY <1>2
  <1>6. /\ win.backup \in [from : 0 .. Day - 1, to : 0 .. Day - 1]
        /\ win.maint \in [day : 0 .. 6, from : 0 .. Day - 1, dayTo : 0 .. 6, to : 0 .. Day - 1]
    BY <1>1, <1>2, <1>3, <1>4
  <1> QED
    BY <1>4, <1>5, <1>6 DEF win, b, m

\* Minutes of a day, and of the day before.
LEMMA DayMod ==
  /\ \A x \in 0 .. 1439 : x % 1440 = x
  /\ \A x \in -1439 .. -1 : x % 1440 = x + 1440
  <1>1. ASSUME NEW x \in 0 .. 1439
        PROVE  x % 1440 = x
    BY <1>1
  <1>2. ASSUME NEW x \in -1439 .. -1
        PROVE  x % 1440 = x + 1440
    BY <1>2
  <1> QED
    BY <1>1, <1>2

\* A time at least an hour before midnight.
LEMMA BeforeLastHour ==
  ASSUME NEW x \in 0 .. Day - 1, x <= Day - Hour
  PROVE  x \in 0 .. Day - Hour
  BY Minutes

\* Windows that timeBlockOverlaps lets pass do not meet, unless one of them
\* runs over midnight.
LEMMA PassedWindowsApart ==
  ASSUME NEW b \in 0 .. Day - Hour, NEW m \in 0 .. Day - Hour,
         ~(b <= m + Hour /\ b + Hour >= m)
  PROVE  ~((b - m) % Day < Hour \/ (m - b) % Day < Hour)
  <1>1. CASE b > m + 60
    <2>1. b - m \in 0 .. 1439 /\ m - b \in -1439 .. -1
      BY <1>1, Minutes
    <2>2. (b - m) % 1440 = b - m /\ (m - b) % 1440 = m - b + 1440
      BY <2>1, DayMod
    <2> QED
      BY <1>1, <2>2, Minutes
  <1>2. CASE b + 60 < m
    <2>1. m - b \in 0 .. 1439 /\ b - m \in -1439 .. -1
      BY <1>2, Minutes
    <2>2. (m - b) % 1440 = m - b /\ (b - m) % 1440 = b - m + 1440
      BY <2>1, DayMod
    <2> QED
      BY <1>2, <2>2, Minutes
  <1> QED
    BY <1>1, <1>2, Minutes

\* The three forms of the windows.
LEMMA WindowsByCloud ==
  ASSUME NEW k \in Kinds, NEW tc
  PROVE  Windows(k, tc) = Win(cloud, k, tc)
  <1>1. CASE cloud.aws
    BY <1>1, Zenon DEF Windows, Win
  <1>2. CASE ~cloud.aws /\ k = "postgres"
    <2>1. k # "redis"
      BY <1>2
    <2> QED
      BY <1>2, <2>1, Zenon DEF Windows, Win
  <1>3. CASE ~cloud.aws /\ k = "redis"
    <2>1. k # "postgres"
      BY <1>3
    <2> QED
      BY <1>3, <2>1, Zenon DEF Windows, Win
  <1> QED
    BY <1>1, <1>2, <1>3 DEF Kinds

\* What each cloud is given has the form it accepts.
LEMMA WindowsTyped ==
  ASSUME NEW k \in Kinds, NEW tc \in Times
  PROVE  /\ Windows(k, tc).backup \in BackupWindows \cup {None}
         /\ Windows(k, tc).maint \in MaintWindows \cup {None}
  <1>0. tc \in TimeConfigs
    BY ConstantsAssumption
  <1>1. CASE cloud.aws
    BY <1>0, <1>1, AWSWindows, WindowsByCloud DEF Win, BackupWindows, MaintWindows
  <1>2. CASE ~cloud.aws
    <2>1. tc.backup \in 0 .. Day - 1 /\ tc.day \in 0 .. 6 /\ tc.maint \in 0 .. Day - 1
      BY <1>0 DEF TimeConfigs
    <2>2. (tc.maint \div Hour) * Hour \in 0 .. Day - 1
      BY <2>1, FullHour
    <2>3. GCPDay(tc) \in 1 .. 7
      BY <2>1 DEF GCPDay
    <2>4. CASE k = "postgres"
      <3>1. Windows(k, tc) = CloudSQLWindows(tc)
        BY <1>2, <2>4, WindowsByCloud DEF Win
      <3> QED
        BY <1>2, <2>1, <2>2, <2>3, <3>1 DEF CloudSQLWindows, BackupWindows, MaintWindows
    <2>5. CASE k = "redis"
      <3>1. Windows(k, tc) = MemorystoreWindows(tc)
        BY <1>2, <2>5, WindowsByCloud DEF Win
      <3> QED
        BY <1>2, <2>1, <2>3, <3>1 DEF MemorystoreWindows, BackupWindows, MaintWindows
    <2> QED
      BY <2>4, <2>5 DEF Kinds
  <1> QED
    BY <1>1, <1>2
----------------------------------------------------------------------------
(* The config map.                                                         *)

\* The strategy that a new key has for every tier.
LEMMA DefaultTyped ==
  /\ Default \in Strategies /\ Sourced(cloud, Default) /\ DefaultKey \in Keys
  /\ Start \in Passes /\ NoMap \in Maps /\ DOMAIN NoMap = {}
  <1>1. Default \in Strategies /\ Sourced(cloud, Default)
    BY DEF Default, Strategies, Sourced
  <1>2. NoMap \in [{} -> Keys] /\ DOMAIN NoMap = {}
    BY DEF NoMap
  <1> QED
    BY <1>1, <1>2 DEF DefaultKey, Keys, Start, Passes, Maps

\* A map has strategies for the kinds in its domain.
LEMMA MapTyped ==
  ASSUME NEW m \in Maps
  PROVE  /\ DOMAIN m \subseteq Kinds /\ m = [k \in DOMAIN m |-> m[k]]
         /\ \A k \in DOMAIN m : m[k] \in Keys
  BY DEF Maps

\* Its converse.
LEMMA MapMade ==
  ASSUME NEW K \in SUBSET Kinds, NEW m, m \in [K -> Keys]
  PROVE  m \in Maps /\ DOMAIN m = K
  BY DEF Maps

\* On AWS the windows put into a strategy come from a request that passed.
LEMMA WindowsSourced ==
  ASSUME NEW k \in Kinds, NEW tc \in Times, ~Refused(tc), NEW r,
         r.backup = Win(cloud, k, tc).backup, r.maint = Win(cloud, k, tc).maint
  PROVE  Sourced(cloud, r)
  BY DEF Win, Sourced, Refused

\* Reconciled puts both windows into the tier's strategy, and leaves the
\* strategies of the other tiers, the class, and but for Cloud SQL the
\* retention as they were.
LEMMA ReconciledFacts ==
  ASSUME NEW k \in Kinds, NEW t \in Tiers, NEW tc \in Times, NEW key \in Keys
  PROVE  /\ Reconciled(k, t, tc, key) \in Keys
         /\ \A u \in Tiers \ {t} : Reconciled(k, t, tc, key)[u] = key[u]
         /\ Reconciled(k, t, tc, key)[t].backup = Win(cloud, k, tc).backup
         /\ Reconciled(k, t, tc, key)[t].maint = Win(cloud, k, tc).maint
         /\ Reconciled(k, t, tc, key)[t].class = key[t].class
         /\ cloud.aws \/ k = "redis" => Reconciled(k, t, tc, key)[t].retention = key[t].retention
  <1> DEFINE win == Windows(k, tc)
             old == key[t]
             ret == IF ~cloud.aws /\ k = "postgres" /\ old.backup # win.backup
                    THEN None ELSE old.retention
             new == [class |-> old.class, backup |-> win.backup, maint |-> win.maint,
                     retention |-> ret]
  <1>1. Reconciled(k, t, tc, key) = [key EXCEPT ![t] = new]
    BY DEF Reconciled
  <1>2. old \in Strategies
    BY DEF Keys
  <1>3. /\ win.backup \in BackupWindows \cup {None} /\ win.maint \in MaintWindows \cup {None}
    BY WindowsTyped
  <1>4. ret \in {None, "set"} /\ (cloud.aws \/ k = "redis" => ret = old.retention)
    BY <1>2 DEF Strategies
  <1> HIDE DEF win, ret
  <1>5. /\ new \in Strategies /\ new.backup = win.backup /\ new.maint = win.maint
        /\ new.class = old.class /\ new.retention = ret
    BY <1>2, <1>3, <1>4 DEF Strategies
  <1> HIDE DEF new, old
  <1>6. /\ [key EXCEPT ![t] = new] \in Keys
        /\ [key EXCEPT ![t] = new][t] = new
        /\ \A u \in Tiers \ {t} : [key EXCEPT ![t] = new][u] = key[u]
    BY <1>5 DEF Keys
  <1>7. win = Win(cloud, k, tc)
    BY WindowsByCloud DEF win
  <1> QED
    BY <1>1, <1>4, <1>5, <1>6, <1>7 DEF old

OldKey(k, m) == IF k \in DOMAIN m THEN m[k] ELSE DefaultKey

\* A write has both keys, each reconciled from the one that was read.
LEMMA MutateFacts ==
  ASSUME NEW t \in Tiers, NEW tc \in Times, NEW m \in Maps
  PROVE  /\ Mutate(t, tc, m) \in Maps /\ DOMAIN Mutate(t, tc, m) = Kinds
         /\ \A k \in Kinds : /\ OldKey(k, m) \in Keys
                             /\ Mutate(t, tc, m)[k] = Reconciled(k, t, tc, OldKey(k, m))
  <1>1. \A k \in Kinds : OldKey(k, m) \in Keys
    BY MapTyped, DefaultTyped DEF OldKey
  <1>2. Mutate(t, tc, m) = [k \in Kinds |-> Reconciled(k, t, tc, OldKey(k, m))]
    BY DEF Mutate, OldKey
  <1>3. \A k \in Kinds : Reconciled(k, t, tc, OldKey(k, m)) \in Keys
    BY <1>1, ReconciledFacts
  <1>4. Mutate(t, tc, m) \in [Kinds -> Keys]
    BY <1>2, <1>3
  <1> QED
    BY <1>1, <1>2, <1>4, MapMade

\* The strategies written come from requests that passed, if those read did.
LEMMA MutateSourced ==
  ASSUME NEW t \in Tiers, NEW tc \in Times, NEW m \in Maps, ~Refused(tc), SourcedMap(cloud, m)
  PROVE  SourcedMap(cloud, Mutate(t, tc, m))
  <1>0. DOMAIN Mutate(t, tc, m) = Kinds
    BY MutateFacts
  <1> SUFFICES ASSUME NEW k \in Kinds, NEW u \in Tiers
               PROVE  Sourced(cloud, Mutate(t, tc, m)[k][u])
    BY <1>0 DEF SourcedMap
  <1> DEFINE key == OldKey(k, m)
  <1>1. key \in Keys /\ Mutate(t, tc, m)[k] = Reconciled(k, t, tc, key)
    BY MutateFacts
  <1>2. CASE u = t
    BY <1>1, <1>2, ReconciledFacts, WindowsSourced
  <1>3. CASE u # t
    <2>1. Mutate(t, tc, m)[k][u] = key[u]
      BY <1>1, <1>3, ReconciledFacts
    <2>2. Sourced(cloud, key[u])
      BY DefaultTyped DEF OldKey, SourcedMap, DefaultKey
    <2> QED
      BY <2>1, <2>2
  <1> QED
    BY <1>2, <1>3
----------------------------------------------------------------------------
(* The inductive invariant.                                                *)

\* The sets of values do not change with a step, since the cloud does not.
LEMMA SameSets ==
  ASSUME cloud' = cloud
  PROVE  /\ Strategies' = Strategies /\ Keys' = Keys /\ Maps' = Maps /\ Instances' = Instances
         /\ Callers' = Callers /\ Passes' = Passes
  <1>1. BackupWindows' = BackupWindows /\ MaintWindows' = MaintWindows
    BY DEF BackupWindows, MaintWindows
  <1>2. Strategies' = Strategies /\ Instances' = Instances
    BY <1>1 DEF Strategies, Instances
  <1>3. Keys' = Keys /\ Passes' = Passes
    BY <1>2 DEF Keys, Passes
  <1>4. Maps' = Maps
    BY <1>3 DEF Maps
  <1> QED
    BY <1>2, <1>3, <1>4 DEF Callers

\* A caller that does not read is well typed, and so is one whose copy is outdated.
LEMMA CallerTyped ==
  ASSUME Typed
  PROVE  /\ \A tc \in Times : Idle(tc) \in Callers /\ ~Idle(tc).reading
         /\ Outdated \in [Tiers -> Callers]
         /\ \A u \in Tiers : /\ Outdated[u].reading = caller[u].reading
                             /\ Outdated[u].tc = caller[u].tc
                             /\ Outdated[u].copy = caller[u].copy
                             /\ caller[u].reading => ~Outdated[u].fresh
  <1>1. \A tc \in Times : Idle(tc) \in Callers /\ ~Idle(tc).reading
    BY DefaultTyped DEF Idle, Callers
  <1>2. \A u \in Tiers : caller[u] \in Callers
    BY DEF Typed
  <1>3. \A u \in Tiers : /\ [caller[u] EXCEPT !.fresh = ~caller[u].reading] \in Callers
                         /\ LET c == [caller[u] EXCEPT !.fresh = ~caller[u].reading]
                            IN  /\ c.reading = caller[u].reading /\ c.tc = caller[u].tc
                                /\ c.copy = caller[u].copy /\ c.fresh = ~caller[u].reading
    BY <1>2 DEF Callers
  <1> QED
    BY <1>1, <1>3, Zenon DEF Outdated

\* There is no config map at first, and nobody has a copy of it.
LEMMA InitHolds == Init => IInv
  <1> SUFFICES ASSUME Init PROVE IInv
    OBVIOUS
  <1>1. times \in [Tiers -> Times] /\ changes \in 0 .. MaxChanges
    BY ConstantsAssumption DEF Init
  <1>2. DefaultClass \in Classes
    BY ConstantsAssumption DEF DefaultClass
  <1>3. inst \in Instances /\ Sourced(cloud, inst)
    BY <1>2 DEF Init, Instances, Sourced
  <1>4. \A tc \in Times : Idle(tc) \in Callers /\ ~Idle(tc).reading
    BY DefaultTyped DEF Idle, Callers
  <1>5. caller \in [Tiers -> Callers] /\ \A t \in Tiers : ~caller[t].reading
    BY <1>1, <1>4 DEF Init
  <1>6. wanted \in [Kinds -> [Tiers -> Settings]] /\ \A k \in Kinds, t \in Tiers : wanted[k][t] = Unset
    BY DEF Init, Settings, Unset
  <1>7. /\ w \in Passes /\ w.strat = Default /\ w.pc = "read"
    BY DefaultTyped DEF Init, Start
  <1>8. Typed
    BY <1>1, <1>3, <1>5, <1>6, <1>7, DefaultTyped DEF Init, Typed
  <1>9. CallerInv
    BY <1>5 DEF CallerInv
  <1>10. MapInv /\ SettledInv /\ EditsKept
    BY <1>6, DefaultTyped DEF Init, MapInv, SourcedMap, SettledInv, EditsKept
  <1>11. PassInv
    BY <1>3, <1>7, DefaultTyped DEF PassInv
  <1> QED
    BY <1>8, <1>9, <1>10, <1>11 DEF IInv

\* What a step that leaves the config map, or the instance and the pass, alone
\* keeps.
LEMMA Frames ==
  ASSUME IInv, cloud' = cloud
  PROVE  /\ UNCHANGED <<inst, w>> => PassInv'
         /\ UNCHANGED <<cm, wanted>> => MapInv' /\ EditsKept'
         /\ UNCHANGED <<cm, times, settled>> => SettledInv'
         /\ UNCHANGED <<times, cm, caller, settled>> => CallerInv'
  <1>1. UNCHANGED <<inst, w>> => PassInv'
    BY DEF IInv, PassInv
  <1>2. UNCHANGED <<cm, wanted>> => MapInv' /\ EditsKept'
    BY DEF IInv, MapInv, EditsKept
  <1>3. UNCHANGED <<cm, times, settled>> => SettledInv'
    BY DEF IInv, SettledInv
  <1>4. UNCHANGED <<times, cm, caller, settled>> => CallerInv'
    BY DEF IInv, CallerInv, Refused
  <1> QED
    BY <1>1, <1>2, <1>3, <1>4

LEMMA GetConfigMapKeeps ==
  ASSUME IInv, NEW t \in Tiers, GetConfigMap(t)
  PROVE  IInv'
  <1> DEFINE new == [reading |-> TRUE, tc |-> times[t], copy |-> cm, fresh |-> TRUE]
  <1>1. /\ ~Refused(times[t]) /\ caller' = [caller EXCEPT ![t] = new]
        /\ UNCHANGED <<cloud, kind, times, cm, inst, w, settled, wanted, changes>>
    BY DEF GetConfigMap
  <1>2. /\ new \in Callers /\ new.reading /\ new.tc = times[t] /\ new.copy = cm /\ new.fresh
    BY DEF IInv, Typed, Callers
  <1> HIDE DEF new
  <1>3. /\ caller' \in [Tiers -> Callers] /\ caller'[t] = new
        /\ \A u \in Tiers \ {t} : caller'[u] = caller[u]
    BY <1>1, <1>2 DEF IInv, Typed
  <1>4. Typed'
    BY <1>1, <1>3, SameSets DEF IInv, Typed
  <1>5. CallerInv'
    <2> SUFFICES ASSUME NEW u \in Tiers, caller'[u].reading
                 PROVE  /\ ~Refused(caller[u].tc)' /\ SourcedMap(cloud', caller'[u].copy)
                        /\ caller'[u].fresh => caller'[u].copy = cm'
                        /\ u \in settled' => caller'[u].tc = times'[u]
      BY DEF CallerInv
    <2>1. CASE u = t
      BY <1>1, <1>2, <1>3, <2>1 DEF IInv, MapInv, Refused
    <2>2. CASE u # t
      BY <1>1, <1>3, <2>2 DEF IInv, CallerInv, Refused
    <2> QED
      BY <2>1, <2>2
  <1> QED
    BY <1>1, <1>4, <1>5, Frames DEF IInv

\* A caller that gives up leaves everything as it was.
LEMMA CallerStops ==
  ASSUME IInv, NEW t \in Tiers, caller' = [caller EXCEPT ![t] = Idle(times[t])],
         UNCHANGED <<cloud, times, cm>>, settled' \subseteq settled \cup {t}
  PROVE  caller' \in [Tiers -> Callers] /\ CallerInv'
  <1>1. Idle(times[t]) \in Callers /\ ~Idle(times[t]).reading
    BY CallerTyped DEF IInv, Typed
  <1>2. /\ caller' \in [Tiers -> Callers] /\ caller'[t] = Idle(times[t])
        /\ \A u \in Tiers \ {t} : caller'[u] = caller[u]
    BY <1>1 DEF IInv, Typed
  <1>3. CallerInv'
    <2> SUFFICES ASSUME NEW u \in Tiers, caller'[u].reading
                 PROVE  /\ ~Refused(caller[u].tc)' /\ SourcedMap(cloud', caller'[u].copy)
                        /\ caller'[u].fresh => caller'[u].copy = cm'
                        /\ u \in settled' => caller'[u].tc = times'[u]
      BY DEF CallerInv
    <2>1. u # t
      BY <1>1, <1>2
    <2> QED
      BY <1>2, <2>1 DEF IInv, CallerInv, Refused
  <1> QED
    BY <1>2, <1>3

LEMMA CallerFailsKeeps ==
  ASSUME IInv, NEW t \in Tiers, CallerFails(t)
  PROVE  IInv'
  <1>1. /\ caller' = [caller EXCEPT ![t] = Idle(times[t])] /\ changes' \in 0 .. MaxChanges
        /\ UNCHANGED <<cloud, kind, times, cm, inst, w, settled, wanted>>
    BY ConstantsAssumption DEF CallerFails, IInv, Typed
  <1>2. caller' \in [Tiers -> Callers] /\ CallerInv'
    BY <1>1, CallerStops, Zenon
  <1>3. Typed'
    BY <1>1, <1>2, SameSets DEF IInv, Typed
  <1> QED
    BY <1>1, <1>2, <1>3, Frames DEF IInv

\* What a write puts into the map, and what it leaves of a map that is current.
LEMMA Written ==
  ASSUME IInv, NEW t \in Tiers, NEW tc \in Times, NEW m, m = Mutate(t, tc, cm)
  PROVE  /\ m \in Maps /\ DOMAIN m = Kinds
         /\ \A k \in Kinds : /\ m[k][t].backup = Win(cloud, k, tc).backup
                             /\ m[k][t].maint = Win(cloud, k, tc).maint
         /\ \A k \in DOMAIN cm, u \in Tiers \ {t} : m[k][u] = cm[k][u]
         /\ \A k \in Kinds, u \in Tiers :
              /\ m[k][u].class = wanted[k][u].class
              /\ cloud.aws \/ k = "redis" => m[k][u].retention = wanted[k][u].retention
  <1>1. cm \in Maps /\ DOMAIN cm \subseteq Kinds
    BY MapTyped DEF IInv, Typed
  <1>2. /\ m \in Maps /\ DOMAIN m = Kinds
        /\ \A k \in Kinds : OldKey(k, cm) \in Keys /\ m[k] = Reconciled(k, t, tc, OldKey(k, cm))
    BY <1>1, MutateFacts
  <1>3. \A k \in Kinds : /\ m[k][t].backup = Win(cloud, k, tc).backup
                         /\ m[k][t].maint = Win(cloud, k, tc).maint
    BY <1>2, ReconciledFacts
  <1>4. \A k \in Kinds, u \in Tiers \ {t} : m[k][u] = OldKey(k, cm)[u]
    BY <1>2, ReconciledFacts
  <1>5. \A k \in Kinds, u \in Tiers :
          /\ m[k][u].class = OldKey(k, cm)[u].class
          /\ cloud.aws \/ k = "redis" => m[k][u].retention = OldKey(k, cm)[u].retention
    <2> SUFFICES ASSUME NEW k \in Kinds, NEW u \in Tiers
                 PROVE  /\ m[k][u].class = OldKey(k, cm)[u].class
                        /\ cloud.aws \/ k = "redis" =>
                             m[k][u].retention = OldKey(k, cm)[u].retention
      OBVIOUS
    <2>1. CASE u = t
      BY <1>2, <2>1, ReconciledFacts
    <2>2. CASE u # t
      BY <1>4, <2>2
    <2> QED
      BY <2>1, <2>2
  <1>6. \A k \in Kinds, u \in Tiers :
          /\ OldKey(k, cm)[u].class = wanted[k][u].class
          /\ cloud.aws \/ k = "redis" => OldKey(k, cm)[u].retention = wanted[k][u].retention
    BY DEF OldKey, DefaultKey, Default, Unset, IInv, MapInv, EditsKept
  <1>7. \A k \in DOMAIN cm : OldKey(k, cm) = cm[k]
    BY DEF OldKey
  <1>8. \A k \in DOMAIN cm, u \in Tiers \ {t} : m[k][u] = cm[k][u]
    BY <1>1, <1>4, <1>7
  <1>9. \A k \in Kinds, u \in Tiers :
          /\ m[k][u].class = wanted[k][u].class
          /\ cloud.aws \/ k = "redis" => m[k][u].retention = wanted[k][u].retention
    BY <1>5, <1>6
  <1> QED
    BY <1>2, <1>3, <1>8, <1>9

LEMMA WriteConfigMapKeeps ==
  ASSUME IInv, NEW t \in Tiers, WriteConfigMap(t)
  PROVE  IInv'
  <1> DEFINE tc == caller[t].tc
             new == Mutate(t, tc, caller[t].copy)
  <1>1. /\ caller[t].reading /\ UNCHANGED <<cloud, kind, times, inst, w, wanted, changes>>
    BY DEF WriteConfigMap
  <1>2. /\ tc \in Times /\ caller[t].copy \in Maps /\ ~Refused(tc)
        /\ SourcedMap(cloud, caller[t].copy)
        /\ caller[t].fresh => caller[t].copy = cm
    BY <1>1 DEF IInv, Typed, Callers, CallerInv
  <1>3. caller[t].fresh => new = Mutate(t, tc, cm)
    BY <1>2
  <1>4. SourcedMap(cloud, new)
    BY <1>2, MutateSourced
  <1>5. Settles(t) => settled' \subseteq settled \cup {t} /\ (t \in settled' => t \in settled \/ tc = times[t])
    BY DEF Settles
  <1>6. t \in settled => tc = times[t]
    BY <1>1 DEF IInv, CallerInv
  <1> HIDE DEF tc
  <1>7. CASE /\ new = caller[t].copy
             /\ caller' = [caller EXCEPT ![t] = Idle(times[t])]
             /\ IF caller[t].fresh THEN Settles(t) ELSE UNCHANGED settled
             /\ UNCHANGED cm
    <2>1. settled' \subseteq settled \cup {t}
      BY <1>5, <1>7
    <2>2. caller' \in [Tiers -> Callers] /\ CallerInv'
      BY <1>1, <1>7, <2>1, CallerStops, Zenon
    <2>3. Typed'
      BY <1>1, <1>7, <2>1, <2>2, SameSets DEF IInv, Typed
    <2>4. SettledInv'
      <3>1. CASE caller[t].fresh /\ t \in settled'
        <4>1. cm = Mutate(t, tc, cm) /\ tc = times[t]
          BY <1>2, <1>3, <1>5, <1>6, <1>7, <3>1
        <4>2. /\ DOMAIN cm = Kinds
              /\ \A k \in Kinds : /\ cm[k][t].backup = Win(cloud, k, times[t]).backup
                                  /\ cm[k][t].maint = Win(cloud, k, times[t]).maint
          BY <1>2, <4>1, Written
        <4> QED
          BY <1>1, <1>7, <2>1, <4>2 DEF IInv, SettledInv
      <3>2. CASE ~(caller[t].fresh /\ t \in settled')
        <4>1. settled' \subseteq settled
          BY <1>5, <1>7, <2>1, <3>2
        <4> QED
          BY <1>1, <1>7, <4>1 DEF IInv, SettledInv
      <3> QED
        BY <3>1, <3>2
    <2> QED
      BY <1>1, <1>7, <2>2, <2>3, <2>4, Frames DEF IInv
  <1>8. CASE /\ caller[t].fresh
             /\ cm' = new
             /\ caller' = [Outdated EXCEPT ![t] = Idle(times[t])]
             /\ Settles(t)
    <2>1. cm' = Mutate(t, tc, cm)
      BY <1>3, <1>8, SMTT(60)
    <2> HIDE DEF new
    <2>2. /\ cm' \in Maps /\ DOMAIN cm' = Kinds
          /\ \A k \in Kinds : /\ cm'[k][t].backup = Win(cloud, k, tc).backup
                              /\ cm'[k][t].maint = Win(cloud, k, tc).maint
          /\ \A k \in DOMAIN cm, u \in Tiers \ {t} : cm'[k][u] = cm[k][u]
          /\ \A k \in Kinds, u \in Tiers :
               /\ cm'[k][u].class = wanted[k][u].class
               /\ cloud.aws \/ k = "redis" => cm'[k][u].retention = wanted[k][u].retention
      BY <1>2, <2>1, Written
    <2>3. settled' \subseteq settled \cup {t} /\ (t \in settled' => tc = times[t])
      BY <1>5, <1>6, <1>8
    <2>4. /\ Idle(times[t]) \in Callers /\ ~Idle(times[t]).reading
          /\ Outdated \in [Tiers -> Callers]
          /\ \A u \in Tiers : /\ Outdated[u].reading = caller[u].reading
                              /\ Outdated[u].tc = caller[u].tc
                              /\ Outdated[u].copy = caller[u].copy
                              /\ caller[u].reading => ~Outdated[u].fresh
      BY CallerTyped DEF IInv, Typed
    <2>5. /\ caller' \in [Tiers -> Callers] /\ caller'[t] = Idle(times[t])
          /\ \A u \in Tiers \ {t} : caller'[u] = Outdated[u]
      BY <1>8, <2>4
    <2>6. Typed'
      BY <1>1, <2>2, <2>3, <2>5, SameSets DEF IInv, Typed
    <2>7. CallerInv'
      <3> SUFFICES ASSUME NEW u \in Tiers, caller'[u].reading
                   PROVE  /\ ~Refused(caller[u].tc)' /\ SourcedMap(cloud', caller'[u].copy)
                          /\ caller'[u].fresh => caller'[u].copy = cm'
                          /\ u \in settled' => caller'[u].tc = times'[u]
        BY DEF CallerInv
      <3>1. u # t /\ caller'[u] = Outdated[u]
        BY <2>4, <2>5
      <3>2. /\ caller[u].reading /\ caller'[u].tc = caller[u].tc /\ caller'[u].copy = caller[u].copy
            /\ ~caller'[u].fresh
        BY <2>4, <3>1
      <3> QED
        BY <1>1, <2>3, <3>1, <3>2 DEF IInv, CallerInv, Refused
    <2>8. MapInv' /\ EditsKept'
      <3>1. SourcedMap(cloud', cm')
        BY <1>1, <1>4, <1>8
      <3> QED
        BY <1>1, <2>2, <3>1 DEF MapInv, EditsKept
    <2>9. SettledInv'
      <3> SUFFICES ASSUME NEW u \in settled', NEW k \in Kinds
                   PROVE  /\ cm'[k][u].backup = Win(cloud, k, times[u]).backup
                          /\ cm'[k][u].maint = Win(cloud, k, times[u]).maint
        BY <1>1, <2>2 DEF SettledInv
      <3>1. CASE u = t
        BY <2>2, <2>3, <3>1
      <3>2. CASE u # t
        <4>1. u \in settled /\ u \in Tiers \ {t}
          BY <2>3, <3>2 DEF IInv, Typed
        <4>2. k \in DOMAIN cm /\ cm'[k][u] = cm[k][u]
          BY <2>2, <4>1 DEF IInv, SettledInv
        <4> QED
          BY <4>1, <4>2 DEF IInv, SettledInv
      <3> QED
        BY <3>1, <3>2
    <2> QED
      BY <1>1, <2>6, <2>7, <2>8, <2>9, Frames DEF IInv
  <1>9. CASE /\ caller' = [caller EXCEPT ![t] = Idle(times[t])]
             /\ UNCHANGED <<cm, settled>>
    <2>1. caller' \in [Tiers -> Callers] /\ CallerInv'
      BY <1>1, <1>9, CallerStops, Zenon
    <2>2. Typed'
      BY <1>1, <1>9, <2>1, SameSets DEF IInv, Typed
    <2> QED
      BY <1>1, <1>9, <2>1, <2>2, Frames DEF IInv
  <1> QED
    BY <1>7, <1>8, <1>9 DEF WriteConfigMap, tc
----------------------------------------------------------------------------
(* The providers, the installer and the administrators.                    *)

LEMMA ReadStorageStrategyKeeps ==
  ASSUME IInv, ReadStorageStrategy
  PROVE  IInv'
  <1> DEFINE s == IF cm = NoMap THEN Default ELSE cm[kind][Tier]
  <1>1. /\ w' = [pc |-> "describe", mod |-> {}, strat |-> s]
        /\ UNCHANGED <<cloud, kind, times, cm, inst, caller, settled, wanted, changes>>
    BY DEF ReadStorageStrategy
  <1>2. s \in Strategies /\ Sourced(cloud, s)
    <2>1. CASE cm = NoMap
      BY <2>1, DefaultTyped
    <2>2. CASE cm # NoMap
      <3>1. kind \in DOMAIN cm
        BY <2>2 DEF ReadStorageStrategy
      <3>2. cm[kind] \in Keys
        BY <3>1, MapTyped DEF IInv, Typed
      <3> QED
        BY <2>2, <3>1, <3>2, ConstantsAssumption DEF Keys, IInv, MapInv, SourcedMap
    <2> QED
      BY <2>1, <2>2
  <1> HIDE DEF s
  <1>3. w' \in Passes /\ w'.strat = s /\ w'.pc = "describe"
    BY <1>1, <1>2 DEF Passes
  <1>4. Typed'
    BY <1>1, <1>3, SameSets DEF IInv, Typed
  <1>5. PassInv'
    BY <1>1, <1>2, <1>3 DEF IInv, PassInv
  <1> QED
    BY <1>1, <1>4, <1>5, Frames DEF IInv

\* A modification has only fields of a strategy; on AWS a window that it does
\* not send is one the instance has, unless all of it is withheld.
LEMMA ModificationFacts ==
  ASSUME Typed
  PROVE  LET mod == Modification(w.strat, inst)
         IN  /\ mod \subseteq {"class", "backup", "maint"}
             /\ cloud.aws /\ mod # {} =>
                  \A f \in {"backup", "maint"} :
                    IF f \in mod THEN w.strat[f] # None
                    ELSE w.strat[f] = None \/ w.strat[f] = inst[f]
  <1> DEFINE ch == Changed(w.strat, inst)
             mod == Modification(w.strat, inst)
  <1>1. /\ ch \subseteq {"class", "backup", "maint"}
        /\ \A f \in {"backup", "maint"} :
             IF f \in ch THEN w.strat[f] # None
             ELSE w.strat[f] = None \/ w.strat[f] = inst[f]
    BY DEF Changed
  <1> HIDE DEF ch
  <1>2. CASE cloud.aws /\ kind = "postgres"
    <2>1. kind # "redis"
      BY <1>2
    <2>2. mod = buildRDSUpdateStrategy(w.strat, inst)
      BY <1>2, <2>1, Zenon DEF Modification
    <2>3. mod = {} \/ mod = ch
      BY <2>2 DEF buildRDSUpdateStrategy, ch
    <2> QED
      BY <1>1, <2>3, Zenon
  <1>3. CASE cloud.aws /\ kind = "redis"
    <2>1. kind # "postgres"
      BY <1>3
    <2>2. mod = buildElasticacheUpdateStrategy(w.strat, inst)
      BY <1>3, <2>1, Zenon DEF Modification
    <2>3. mod = ch \/ mod = ch \ {"class"}
      BY <2>2 DEF buildElasticacheUpdateStrategy, ch
    <2> QED
      BY <1>1, <2>3, Zenon
  <1>4. CASE ~cloud.aws /\ kind = "postgres"
    <2>1. kind # "redis"
      BY <1>4
    <2>2. mod = buildCloudSQLUpdateStrategy(w.strat, inst)
      BY <1>4, <2>1, Zenon DEF Modification
    <2> QED
      BY <1>1, <1>4, <2>2 DEF buildCloudSQLUpdateStrategy, ch
  <1>5. CASE ~cloud.aws /\ kind = "redis"
    <2>1. kind # "postgres"
      BY <1>5
    <2>2. mod = buildUpdateInstanceRequest(w.strat, inst)
      BY <1>5, <2>1, Zenon DEF Modification
    <2>3. mod \subseteq {"class", "backup", "maint"}
      BY <2>2 DEF buildUpdateInstanceRequest
    <2> QED
      BY <1>5, <2>3
  <1> QED
    BY <1>2, <1>3, <1>4, <1>5 DEF Typed, Kinds

LEMMA DescribeInstanceKeeps ==
  ASSUME IInv, DescribeInstance
  PROVE  IInv'
  <1> DEFINE mod == Modification(w.strat, inst)
  <1>1. UNCHANGED <<cloud, kind, times, cm, inst, caller, settled, wanted, changes>>
    BY DEF DescribeInstance
  <1>2. /\ mod \subseteq {"class", "backup", "maint"}
        /\ cloud.aws /\ mod # {} =>
             \A f \in {"backup", "maint"} :
               IF f \in mod THEN w.strat[f] # None
               ELSE w.strat[f] = None \/ w.strat[f] = inst[f]
    BY ModificationFacts DEF IInv
  <1>3. w' = IF mod = {} THEN Start ELSE [w EXCEPT !.pc = "modify", !.mod = mod]
    BY DEF DescribeInstance
  <1> HIDE DEF mod
  <1>4. CASE mod = {}
    <2>1. w' = Start
      BY <1>3, <1>4
    <2>2. w' \in Passes /\ w'.pc = "read" /\ w'.strat = Default
      BY <2>1, DefaultTyped DEF Start
    <2>3. Typed'
      BY <1>1, <2>2, SameSets DEF IInv, Typed
    <2>4. PassInv'
      BY <1>1, <2>2, DefaultTyped DEF IInv, PassInv
    <2> QED
      BY <1>1, <2>3, <2>4, Frames DEF IInv
  <1>5. CASE mod # {}
    <2>1. w' = [w EXCEPT !.pc = "modify", !.mod = mod]
      BY <1>3, <1>5
    <2>2. w' \in Passes /\ w'.pc = "modify" /\ w'.strat = w.strat /\ w'.mod = mod
      BY <1>2, <2>1, Zenon DEF IInv, Typed, Passes
    <2>3. Typed'
      BY <1>1, <2>2, SameSets DEF IInv, Typed
    <2>4. PassInv'
      BY <1>1, <1>2, <1>5, <2>2 DEF IInv, PassInv
    <2> QED
      BY <1>1, <2>3, <2>4, Frames DEF IInv
  <1> QED
    BY <1>4, <1>5

LEMMA ModifyInstanceKeeps ==
  ASSUME IInv, ModifyInstance
  PROVE  IInv'
  <1> DEFINE i == [f \in DOMAIN inst |-> IF f \in w.mod \ {"class"} THEN w.strat[f] ELSE inst[f]]
             b == IF "backup" \in w.mod THEN w.strat.backup ELSE inst.backup
             m == IF "maint" \in w.mod THEN w.strat.maint ELSE inst.maint
  <1>1. /\ w.pc = "modify" /\ w' = Start
        /\ UNCHANGED <<cloud, kind, times, cm, caller, settled, wanted, changes>>
    BY DEF ModifyInstance
  <1>2. \/ inst' = inst
        \/ inst' = i
        \/ inst' = [i EXCEPT !.pending = Class(w.strat)]
        \/ inst' = [i EXCEPT !.class = Class(w.strat), !.pending = None]
    BY DEF ModifyInstance
  <1>3. inst \in Instances /\ w.strat \in Strategies /\ w.mod \subseteq {"class", "backup", "maint"}
    BY DEF IInv, Typed, Passes
  <1>4. Class(w.strat) \in Classes
    BY <1>3, ConstantsAssumption DEF Class, DefaultClass, Strategies
  <1>5. b \in BackupWindows \cup {None} /\ m \in MaintWindows \cup {None}
    BY <1>3 DEF Instances, Strategies
  <1>6. i = [class |-> inst.class, pending |-> inst.pending, backup |-> b, maint |-> m]
    BY <1>3 DEF Instances
  <1>7. cloud.aws => \/ b = inst.backup /\ m = inst.maint
                     \/ b = w.strat.backup /\ m = w.strat.maint
    <2>1. CASE cloud.aws
      <3>1. /\ "backup" \in w.mod => w.strat.backup # None
            /\ "maint" \in w.mod => w.strat.maint # None
            /\ "backup" \notin w.mod => w.strat.backup = None \/ w.strat.backup = inst.backup
            /\ "maint" \notin w.mod => w.strat.maint = None \/ w.strat.maint = inst.maint
        BY <1>1, <2>1 DEF IInv, PassInv
      <3>2. Sourced(cloud, w.strat)
        BY DEF IInv, PassInv
      <3>3. CASE w.strat.backup = None /\ w.strat.maint = None
        BY <3>1, <3>3
      <3>4. CASE w.strat.backup # None /\ w.strat.maint # None
        BY <3>1, <3>4
      <3> QED
        BY <2>1, <3>2, <3>3, <3>4, NoneAssumption DEF Sourced
    <2> QED
      BY <2>1
  <1> HIDE DEF i, b, m
  <1>8. /\ inst' \in Instances
        /\ \/ inst'.backup = inst.backup /\ inst'.maint = inst.maint
           \/ inst'.backup = b /\ inst'.maint = m
    <2>1. CASE inst' = inst
      BY <1>3, <2>1
    <2>2. CASE inst' = i
      BY <1>3, <1>5, <1>6, <2>2 DEF Instances
    <2>3. CASE inst' = [i EXCEPT !.pending = Class(w.strat)]
      BY <1>3, <1>4, <1>5, <1>6, <2>3 DEF Instances
    <2>4. CASE inst' = [i EXCEPT !.class = Class(w.strat), !.pending = None]
      BY <1>3, <1>4, <1>5, <1>6, <2>4, Zenon DEF Instances
    <2> QED
      BY <1>2, <2>1, <2>2, <2>3, <2>4
  <1>9. Sourced(cloud, inst')
    BY <1>7, <1>8 DEF IInv, PassInv, Sourced
  <1>10. w' \in Passes /\ w'.pc = "read" /\ w'.strat = Default
    BY <1>1, DefaultTyped DEF Start
  <1>11. Typed'
    BY <1>1, <1>8, <1>10, SameSets DEF IInv, Typed
  <1>12. PassInv'
    BY <1>1, <1>9, <1>10, DefaultTyped DEF PassInv
  <1> QED
    BY <1>1, <1>11, <1>12, Frames DEF IInv

LEMMA MaintenanceRunsKeeps ==
  ASSUME IInv, MaintenanceRuns
  PROVE  IInv'
  <1>1. /\ inst.pending # None
        /\ inst' = [inst EXCEPT !.class = inst.pending, !.pending = None]
        /\ UNCHANGED <<cloud, kind, times, cm, caller, w, settled, wanted, changes>>
    BY DEF MaintenanceRuns
  <1>2. inst' \in Instances /\ inst'.backup = inst.backup /\ inst'.maint = inst.maint
    BY <1>1, Zenon DEF IInv, Typed, Instances
  <1>3. Typed'
    BY <1>1, <1>2, SameSets DEF IInv, Typed
  <1>4. PassInv'
    BY <1>1, <1>2 DEF IInv, PassInv, Sourced
  <1> QED
    BY <1>1, <1>3, <1>4, Frames DEF IInv

LEMMA PassFailsKeeps ==
  ASSUME IInv, PassFails
  PROVE  IInv'
  <1>1. /\ w' = Start /\ changes' \in 0 .. MaxChanges
        /\ UNCHANGED <<cloud, kind, times, cm, inst, caller, settled, wanted>>
    BY ConstantsAssumption DEF PassFails, IInv, Typed
  <1>2. w' \in Passes /\ w'.pc = "read" /\ w'.strat = Default
    BY <1>1, DefaultTyped DEF Start
  <1>3. Typed'
    BY <1>1, <1>2, SameSets DEF IInv, Typed
  <1>4. PassInv'
    BY <1>1, <1>2, DefaultTyped DEF IInv, PassInv
  <1> QED
    BY <1>1, <1>3, <1>4, Frames DEF IInv

LEMMA NewTimesKeeps ==
  ASSUME IInv, NEW t \in Tiers, NewTimes(t)
  PROVE  IInv'
  <1>1. PICK tc \in Times : times' = [times EXCEPT ![t] = tc]
    BY ZenonT(60) DEF NewTimes
  <1>2. /\ changes' \in 0 .. MaxChanges /\ settled' = settled \ {t}
        /\ UNCHANGED <<cloud, kind, cm, inst, caller, w, wanted>>
    BY ConstantsAssumption DEF NewTimes, IInv, Typed
  <1>3. times' \in [Tiers -> Times] /\ \A u \in Tiers \ {t} : times'[u] = times[u]
    BY <1>1 DEF IInv, Typed
  <1>4. Typed'
    BY <1>2, <1>3, SameSets DEF IInv, Typed
  <1>5. CallerInv'
    BY <1>2, <1>3 DEF IInv, CallerInv, Refused
  <1>6. SettledInv'
    BY <1>2, <1>3 DEF IInv, Typed, SettledInv
  <1> QED
    BY <1>2, <1>4, <1>5, <1>6, Frames DEF IInv

\* An edit of the map makes every copy outdated.
LEMMA EditOutdates ==
  ASSUME IInv, caller' = Outdated, UNCHANGED <<cloud, times>>, settled' \subseteq settled
  PROVE  caller' \in [Tiers -> Callers] /\ CallerInv'
  <1>1. /\ Outdated \in [Tiers -> Callers]
        /\ \A u \in Tiers : /\ Outdated[u].reading = caller[u].reading
                            /\ Outdated[u].tc = caller[u].tc
                            /\ Outdated[u].copy = caller[u].copy
                            /\ caller[u].reading => ~Outdated[u].fresh
    BY CallerTyped DEF IInv
  <1> QED
    BY <1>1 DEF IInv, CallerInv, Refused

\* An edit of a strategy keeps its windows.
LEMMA EditedStrategy ==
  ASSUME NEW s \in Strategies, NEW c
  PROVE  [[s EXCEPT !.class = c] EXCEPT !.retention = "set"]
           = [class |-> c, retention |-> "set", backup |-> s.backup, maint |-> s.maint]
  <1>1. s = [class |-> s.class, retention |-> s.retention, backup |-> s.backup, maint |-> s.maint]
    BY DEF Strategies
  <1> DEFINE n == [s EXCEPT !.class = c]
  <1>2. n = [class |-> c, retention |-> s.retention, backup |-> s.backup, maint |-> s.maint]
    BY <1>1
  <1> HIDE DEF n
  <1>3. [n EXCEPT !.retention = "set"]
          = [class |-> c, retention |-> "set", backup |-> s.backup, maint |-> s.maint]
    BY <1>2
  <1> QED
    BY <1>3, Zenon DEF n

\* Where windows come from depends on the windows only.
LEMMA SameWindows ==
  ASSUME NEW c, NEW q, NEW r, Sourced(c, q), r.backup = q.backup, r.maint = q.maint
  PROVE  Sourced(c, r)
  BY Zenon DEF Sourced

LEMMA EditStrategyKeeps ==
  ASSUME IInv, NEW k \in Kinds, NEW t \in Tiers, EditStrategy(k, t)
  PROVE  IInv'
  <1>1. /\ k \in DOMAIN cm /\ changes' \in 0 .. MaxChanges /\ caller' = Outdated
        /\ UNCHANGED <<cloud, kind, times, inst, w, settled>>
    BY ConstantsAssumption DEF EditStrategy, IInv, Typed
  <1>2. PICK c \in Classes :
          /\ cm' = [cm EXCEPT ![k][t].class = c, ![k][t].retention = "set"]
          /\ wanted' = [wanted EXCEPT ![k][t] = [class |-> c, retention |-> "set"]]
    BY Zenon DEF EditStrategy
  <1> DEFINE old == cm[k][t]
             new == [class |-> c, retention |-> "set", backup |-> old.backup, maint |-> old.maint]
             key == [cm[k] EXCEPT ![t] = new]
             set == [class |-> c, retention |-> "set"]
  <1>3. /\ DOMAIN cm \subseteq Kinds /\ cm = [l \in DOMAIN cm |-> cm[l]]
        /\ \A l \in DOMAIN cm : cm[l] \in Keys
    BY MapTyped DEF IInv, Typed
  <1>4. cm[k] \in [Tiers -> Strategies] /\ old \in Strategies
    BY <1>1, <1>3, SMTT(60) DEF Keys
  <1>5. new \in Strategies /\ new.backup = old.backup /\ new.maint = old.maint
        /\ new.class = c /\ new.retention = "set"
    BY <1>4 DEF Strategies
  <1>6. [[old EXCEPT !.class = c] EXCEPT !.retention = "set"] = new
    BY <1>4, EditedStrategy
  <1>7. cm' = [cm EXCEPT ![k] = key]
    <2>1. cm' = [cm EXCEPT ![k] = [cm[k] EXCEPT ![t] = [[old EXCEPT !.class = c] EXCEPT !.retention = "set"]]]
      BY <1>1, <1>2, <1>3, <1>4, Zenon
    <2> QED
      BY <1>6, <2>1, Zenon
  <1> HIDE DEF old, new
  <1>8. key \in Keys /\ key[t] = new /\ \A u \in Tiers \ {t} : key[u] = cm[k][u]
    BY <1>4, <1>5 DEF Keys
  <1> HIDE DEF key
  <1>9. /\ cm' \in Maps /\ DOMAIN cm' = DOMAIN cm
        /\ cm'[k] = key /\ \A l \in DOMAIN cm \ {k} : cm'[l] = cm[l]
    <2>1. cm' \in [DOMAIN cm -> Keys]
      BY <1>3, <1>7, <1>8, Zenon
    <2> QED
      BY <1>1, <1>3, <1>7, <2>1, MapMade, Zenon
  <1>10. /\ wanted' \in [Kinds -> [Tiers -> Settings]]
         /\ wanted'[k][t] = set
         /\ \A l \in Kinds, u \in Tiers : (l # k \/ u # t) => wanted'[l][u] = wanted[l][u]
    <2>1. wanted' = [wanted EXCEPT ![k] = [wanted[k] EXCEPT ![t] = set]]
      BY <1>2
    <2>2. wanted[k] \in [Tiers -> Settings] /\ set \in Settings
      BY DEF IInv, Typed, Settings
    <2>3. wanted \in [Kinds -> [Tiers -> Settings]]
      BY DEF IInv, Typed
    <2> HIDE DEF set
    <2> QED
      BY <2>1, <2>2, <2>3
  <1>11. \A l \in DOMAIN cm, u \in Tiers :
           /\ cm'[l][u].backup = cm[l][u].backup /\ cm'[l][u].maint = cm[l][u].maint
           /\ (l # k \/ u # t) => cm'[l][u] = cm[l][u]
    BY <1>5, <1>8, <1>9 DEF old
  <1>12. caller' \in [Tiers -> Callers] /\ CallerInv'
    BY <1>1, EditOutdates
  <1>13. Typed'
    BY <1>1, <1>9, <1>10, <1>12, SameSets, SMTT(60) DEF IInv, Typed
  <1>14. MapInv'
    <2>1. ASSUME NEW l \in DOMAIN cm, NEW u \in Tiers
          PROVE  Sourced(cloud, cm'[l][u])
      <3>1. Sourced(cloud, cm[l][u])
        BY Zenon DEF IInv, MapInv, SourcedMap
      <3>2. cm'[l][u].backup = cm[l][u].backup /\ cm'[l][u].maint = cm[l][u].maint
        BY <1>11
      <3> QED
        BY <3>1, <3>2, SameWindows
    <2>2. SourcedMap(cloud', cm')
      BY <1>1, <1>9, <2>1, Zenon DEF SourcedMap
    <2>3. \A l \in Kinds \ DOMAIN cm', u \in Tiers : wanted'[l][u] = Unset
      BY <1>1, <1>9, <1>10, ZenonT(60) DEF IInv, MapInv
    <2> QED
      BY <2>2, <2>3, ZenonT(60) DEF MapInv
  <1>15. SettledInv'
    <2> SUFFICES ASSUME NEW u \in settled, NEW l \in Kinds
                 PROVE  /\ l \in DOMAIN cm
                        /\ cm'[l][u].backup = Win(cloud, l, times[u]).backup
                        /\ cm'[l][u].maint = Win(cloud, l, times[u]).maint
      BY <1>1, <1>9, Zenon DEF SettledInv
    <2>1. /\ l \in DOMAIN cm
          /\ cm[l][u].backup = Win(cloud, l, times[u]).backup
          /\ cm[l][u].maint = Win(cloud, l, times[u]).maint
      BY Zenon DEF IInv, SettledInv
    <2>2. u \in Tiers
      BY Zenon DEF IInv, Typed
    <2> QED
      BY <1>11, <2>1, <2>2, Zenon
  <1>16. EditsKept'
    <2> SUFFICES ASSUME NEW l \in DOMAIN cm, NEW u \in Tiers
                 PROVE  /\ cm'[l][u].class = wanted'[l][u].class
                        /\ cloud.aws \/ l = "redis" => cm'[l][u].retention = wanted'[l][u].retention
      BY <1>1, <1>9 DEF EditsKept
    <2>1. CASE l = k /\ u = t
      BY <1>5, <1>8, <1>9, <1>10, <2>1
    <2>2. CASE l # k \/ u # t
      BY <1>3, <1>10, <1>11, <2>2 DEF IInv, EditsKept
    <2> QED
      BY <2>1, <2>2
  <1> QED
    BY <1>1, <1>12, <1>13, <1>14, <1>15, <1>16, Frames DEF IInv

LEMMA RemoveKeyKeeps ==
  ASSUME IInv, NEW k \in Kinds, RemoveKey(k)
  PROVE  IInv'
  <1>1. /\ k \in DOMAIN cm /\ changes' \in 0 .. MaxChanges /\ caller' = Outdated /\ settled' = {}
        /\ cm' = [l \in DOMAIN cm \ {k} |-> cm[l]]
        /\ wanted' = [wanted EXCEPT ![k] = [t \in Tiers |-> Unset]]
        /\ UNCHANGED <<cloud, kind, times, inst, w>>
    BY ConstantsAssumption DEF RemoveKey, IInv, Typed
  <1>2. DOMAIN cm \subseteq Kinds /\ \A l \in DOMAIN cm : cm[l] \in Keys
    BY MapTyped DEF IInv, Typed
  <1>3. cm' \in [DOMAIN cm \ {k} -> Keys]
    BY <1>1, <1>2
  <1>4. /\ cm' \in Maps /\ DOMAIN cm' = DOMAIN cm \ {k}
        /\ \A l \in DOMAIN cm \ {k} : cm'[l] = cm[l]
    BY <1>1, <1>2, <1>3, MapMade
  <1>5. /\ wanted' \in [Kinds -> [Tiers -> Settings]]
        /\ \A t \in Tiers : wanted'[k][t] = Unset
        /\ \A l \in Kinds \ {k} : wanted'[l] = wanted[l]
    <2>1. [t \in Tiers |-> Unset] \in [Tiers -> Settings]
      BY DEF Unset, Settings
    <2> QED
      BY <1>1, <2>1 DEF IInv, Typed
  <1>6. caller' \in [Tiers -> Callers] /\ CallerInv'
    BY <1>1, EditOutdates
  <1>7. Typed'
    BY <1>1, <1>4, <1>5, <1>6, SameSets DEF IInv, Typed
  <1>8. MapInv'
    <2>1. SourcedMap(cloud', cm')
      BY <1>1, <1>4 DEF IInv, MapInv, SourcedMap
    <2>2. \A l \in Kinds \ DOMAIN cm', u \in Tiers : wanted'[l][u] = Unset
      BY <1>4, <1>5, SMTT(60) DEF IInv, MapInv
    <2> QED
      BY <2>1, <2>2 DEF MapInv, Unset
  <1>9. SettledInv'
    BY <1>1 DEF SettledInv
  <1>10. EditsKept'
    BY <1>1, <1>2, <1>4, <1>5 DEF IInv, EditsKept
  <1> QED
    BY <1>1, <1>6, <1>7, <1>8, <1>9, <1>10, Frames DEF IInv
----------------------------------------------------------------------------
\* Every step of callers, providers, installer and administrators keeps the
\* invariant.
LEMMA StepKeeps == IInv /\ [Next]_vars => IInv'
  <1> SUFFICES ASSUME IInv, [Next]_vars PROVE IInv'
    OBVIOUS
  <1>1. ASSUME NEW t \in Tiers, ReconcileStrategyMap(t) \/ CallerFails(t) \/ NewTimes(t)
        PROVE  IInv'
    BY <1>1, GetConfigMapKeeps, WriteConfigMapKeeps, CallerFailsKeeps, NewTimesKeeps
       DEF ReconcileStrategyMap
  <1>2. ASSUME Provider \/ MaintenanceRuns \/ PassFails
        PROVE  IInv'
    BY <1>2, ReadStorageStrategyKeeps, DescribeInstanceKeeps, ModifyInstanceKeeps,
       MaintenanceRunsKeeps, PassFailsKeeps DEF Provider
  <1>3. ASSUME NEW k \in Kinds, RemoveKey(k)
        PROVE  IInv'
    BY <1>3, RemoveKeyKeeps
  <1>4. ASSUME NEW k \in Kinds, NEW t \in Tiers, EditStrategy(k, t)
        PROVE  IInv'
    BY <1>4, EditStrategyKeeps
  <1>5. CASE UNCHANGED vars
    <2>1. UNCHANGED <<cloud, kind, times, cm, inst, caller, w, settled, wanted, changes>>
      BY <1>5 DEF vars
    <2>2. Typed'
      BY <2>1, SameSets DEF IInv, Typed
    <2> QED
      BY <2>1, <2>2, Frames DEF IInv
  <1> QED
    BY <1>1, <1>2, <1>3, <1>4, <1>5 DEF Next

\* The invariant holds for every set of tiers, times and classes.
THEOREM Invariance == Spec => []IInv
  BY InitHolds, StepKeeps, PTL DEF Spec

\* A window in the config map has the form that its cloud takes, lasts an hour
\* on AWS, over midnight and the end of the week too, and does not meet the
\* other window of its tier unless one of them runs over midnight: all that
\* buildAWSWindows and the check of strategies_aws.go:227 promise, for all
\* times of the week.
THEOREM WindowsAlwaysAccepted == Spec => []WindowsAccepted
  <1>1. IInv => TypeOK
    <2> SUFFICES ASSUME IInv PROVE TypeOK
      OBVIOUS
    <2>1. /\ DOMAIN cm \subseteq Kinds
          /\ \A k \in DOMAIN cm, t \in Tiers : cm[k][t] \in Strategies
      BY MapTyped DEF IInv, Typed, Keys
    <2>2. \A r \in Strategies : HasWindows(r)
      BY DEF Strategies, HasWindows
    <2>3. HasWindows(inst) /\ inst.class \in Classes /\ inst.pending \in Classes \cup {None}
      BY DEF IInv, Typed, Instances, HasWindows
    <2>4. \A r \in Strategies : r.class \in Classes \cup {None} /\ r.retention \in {None, "set"}
      BY DEF Strategies
    <2>5. w.pc \in {"read", "describe", "modify"} /\ w.mod \subseteq {"class", "backup", "maint"}
      BY SMTT(60) DEF IInv, Typed, Passes
    <2> QED
      BY <2>1, <2>2, <2>3, <2>4, <2>5 DEF IInv, Typed, TypeOK
  <1>2. IInv => WindowsAccepted
    <2> SUFFICES ASSUME IInv, cloud.aws, NEW k \in DOMAIN cm, NEW t \in Tiers,
                        cm[k][t].maint # None
                 PROVE  LET b == cm[k][t].backup
                            m == cm[k][t].maint
                        IN  /\ ((m.dayTo * Day + m.to) - (m.day * Day + m.from)) % (7 * Day) = Hour
                            /\ b # None /\ b.from <= Day - Hour /\ m.from <= Day - Hour => ~Meet(b, m)
      BY <1>1, SMTT(60) DEF WindowsAccepted
    <2> DEFINE b == cm[k][t].backup
               m == cm[k][t].maint
    <2>1. PICK tc \in Times : /\ ~timeBlockOverlaps(tc)
                              /\ b = buildAWSWindows(tc).backup /\ m = buildAWSWindows(tc).maint
      BY ZenonT(60) DEF IInv, MapInv, SourcedMap, Sourced
    <2>2. tc \in TimeConfigs
      BY <2>1, ConstantsAssumption
    <2>3. /\ b.from = tc.backup /\ m.from = tc.maint
          /\ ((m.dayTo * Day + m.to) - (m.day * Day + m.from)) % (7 * Day) = Hour
      BY <2>1, <2>2, AWSWindows
    <2>4. tc.backup \in 0 .. Day - 1 /\ tc.maint \in 0 .. Day - 1
      BY <2>2 DEF TimeConfigs
    <2>5. ASSUME tc.backup <= Day - Hour, tc.maint <= Day - Hour
          PROVE  ~((tc.backup - tc.maint) % Day < Hour \/ (tc.maint - tc.backup) % Day < Hour)
      <3>1. tc.backup \in 0 .. Day - Hour /\ tc.maint \in 0 .. Day - Hour
        BY <2>4, <2>5, BeforeLastHour
      <3>2. ~(tc.backup <= tc.maint + Hour /\ tc.backup + Hour >= tc.maint)
        BY <2>1 DEF timeBlockOverlaps
      <3> QED
        BY <3>1, <3>2, PassedWindowsApart, SMTT(60)
    <2>6. b.from <= Day - Hour /\ m.from <= Day - Hour => ~Meet(b, m)
      BY <2>3, <2>5 DEF Meet
    <2> QED
      BY <2>3, <2>6, SMTT(60)
  <1> QED
    BY <1>2, Invariance, PTL

\* What ReconcileStrategyMap has written for a tier stays, for any number of
\* tiers whose callers run at the same time and any edits of the map.
THEOREM NoTimesLost == Spec => []NoLostTimes
  <1>1. IInv => NoLostTimes
    BY WindowsByCloud DEF IInv, SettledInv, NoLostTimes
  <1> QED
    BY <1>1, Invariance, PTL

\* What administrators set stays, though each caller writes the whole map.
THEOREM EditsAlwaysKept == Spec => []EditsKept
  <1>1. IInv => EditsKept
    BY DEF IInv
  <1> QED
    BY <1>1, Invariance, PTL

\* An instance never has the windows of two requests, although a modification
\* sends only what differs (buildRDSUpdateStrategy, buildElasticacheUpdateStrategy).
THEOREM AlwaysOneRequest == Spec => []OneRequest
  <1>1. IInv => OneRequest
    BY DEF IInv, PassInv, Sourced, OneRequest
  <1> QED
    BY <1>1, Invariance, PTL
=============================================================================
