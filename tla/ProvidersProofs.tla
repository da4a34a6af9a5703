--------------------------- MODULE ProvidersProofs ---------------------------
(***************************************************************************)
(* The controllers and their providers, for any providers and passwords:   *)
(* they implement ManagedResource, what a complete CR has published works, *)
(* a bucket is published with its settings, and no maintenance window is   *)
(* closed before its time.                                                 *)
(*                                                                         *)
(* The invariant says of the CR, the cloud and the secrets what holds at   *)
(* any time, and of the worker what it relies on at its next call.  There  *)
(* is one worker, so what it has seen or done stands until its next call,  *)
(* except for what the cloud, the users and the minter may do meanwhile.   *)
(***************************************************************************)
EXTENDS Providers, TLAPS

\* The calls of the creation that come after the finalizer.
HeldSteps == (CreateSteps \ {"finalizer"}) \cup {"publish", "complete"}

\* The providers whose result secret has a password or key in it.
KeyProvs == PostgresProvs \cup (S3Provs \ {"s3_sts"})

\* There is an instance that the CR has to answer for.
InstanceMade == inst.state # "absent" /\ (prov = "s3_force" \/ ~inst.full)

\* A deletion waits for the finalizer, and only a CR with the finalizer has
\* anything made for it.
HoldInv ==
  /\ cr.life = "gone" => cr = NoCR /\ ~fresh
  /\ cr.life = "deleting" => cr.fin
  /\ InstanceMade \/ objs # {} \/ (prov = "cloudsql" /\ sec # NoPassword) => cr.fin

\* The objects that each provider makes.
ObjectsInv ==
  /\ prov \in CloudProvs => objs = {}
  /\ prov = "oc_postgres" => objs \subseteq {"pvc", "service"}
  /\ prov = "oc_redis" => objs \subseteq {"pvc", "config", "service"}
  /\ prov \in S3Provs => objs \subseteq {"credreq"}

\* A database has the password of the credential secret, from its creation on
\* (Cloud SQL) or once its pod has started (OpenShift).
PasswordInv ==
  prov \in PostgresProvs /\ inst.state # "absent" =>
    /\ sec # NoPassword
    /\ prov = "cloudsql" \/ inst.state # "creating" => inst.pw = sec

\* A complete CR owns its result secret, with the password or key of the
\* credential secret for as long as there is one, and there is one while the
\* CR lives.
ResultInv ==
  cr.phase = "complete" =>
    /\ result.life = "owned"
    /\ prov \in KeyProvs /\ sec # NoPassword => result.pw = sec
    /\ prov \in KeyProvs /\ cr.life = "live" => sec # NoPassword
    /\ prov \in KeyProvs \cap S3Provs /\ sec = NoPassword => objs = {}

\* What the worker relies on at its call l.
HeldAt(l) ==
  /\ l \in HeldSteps => cr.fin
  /\ l \in DeleteSteps => cr.life = "deleting"
  /\ l = "finalizer" /\ fresh => cr.life = "live"
  /\ l \in {"config", "d_config"} => prov # "oc_postgres"
  /\ l = "d_secret" => prov # "oc_redis"

\* ... what a deletion has already seen to be gone,
GoneAt(l) ==
  /\ l = "d_decide" /\ loc.seen.state = "absent" => inst.state = "absent"
  /\ l = "d_secret" /\ prov = "cloudsql" => inst.state = "absent"
  /\ l = "d_network" => inst.state = "absent" /\ (prov = "cloudsql" => sec = NoPassword)
  /\ l = "d_pvc" => "service" \notin objs
  /\ l \in {"d_config", "d_secret"} => "service" \notin objs /\ "pvc" \notin objs
  /\ l = "d_deploy" => objs = {}
  /\ l = "d_creds" => ~InstanceMade
  /\ l = "d_fin" => ~InstanceMade /\ objs = {} /\ (prov = "cloudsql" => sec = NoPassword)

\* ... the password or key it has in hand,
KeyAt(l) ==
  /\ l \in HeldSteps /\ prov \in KeyProvs /\ cr.phase = "complete" => sec # NoPassword
  /\ prov = "cloudsql"
       /\ l \in {"get", "decide", "annotate_new", "annotate", "found", "modify", "publish"} =>
       sec # NoPassword /\ loc.pass = sec
  /\ prov = "oc_postgres" /\ l \in {"deploy", "service", "get", "found", "publish"} =>
       sec # NoPassword
  /\ prov = "oc_postgres" /\ l \in {"found", "publish"} => loc.pass = sec
  /\ prov \in S3Provs \ {"s3_sts"} /\ l \in {"tag", "publish"} =>
       sec # NoPassword /\ loc.pass = sec
  /\ l = "complete" =>
       /\ result.life = "owned"
       /\ prov \in KeyProvs => sec # NoPassword /\ result.pw = sec

\* ... the settings of the bucket, and the difference that a window is open for.
SettledAt(l) ==
  /\ prov \in S3Provs /\ l \in {"credreq", "keys", "tag", "publish", "complete"}
       /\ inst.state # "absent" => inst.prot
  /\ prov = "elasticache" /\ fresh /\ loc.win /\ owed =>
       /\ l = "decide" => loc.seen.drift
       /\ l \notin {"updates", "tag", "close"}

Allowed(l) == HeldAt(l) /\ GoneAt(l) /\ KeyAt(l) /\ SettledAt(l)

IInv ==
  /\ TypeOK /\ HoldInv /\ ObjectsInv /\ PasswordInv /\ ResultInv
  /\ owed => inst.drift
  /\ Allowed(pc)
----------------------------------------------------------------------------
(* Labels, types, and how a call ends.                                     *)

\* Everything that the worker relies on is about calls of a create or delete
\* function.
LEMMA RestAllowed ==
  ASSUME NEW l, l \notin HeldSteps, l \notin DeleteSteps, l = "finalizer" => ~fresh \/ cr.life = "live"
  PROVE  Allowed(l)
  BY DEF Allowed, HeldAt, GoneAt, KeyAt, SettledAt, HeldSteps, CreateSteps, DeleteSteps

\* How the sets of labels lie in each other; between the calls of a provider and
\* a status update nothing is asked of the worker.
LEMMA RestSteps ==
  /\ \A l \in {"idle"} \cup StatusSteps :
       l \in Steps /\ l \notin HeldSteps /\ l \notin DeleteSteps /\ l # "finalizer"
  /\ "failed" \in StatusSteps /\ "progress" \in StatusSteps /\ "delprog" \in StatusSteps
  /\ "paused" \in StatusSteps
  /\ HeldSteps \subseteq Steps /\ DeleteSteps \subseteq Steps /\ HeldSteps \cap DeleteSteps = {}
  /\ "idle" \notin HeldSteps \cup DeleteSteps /\ "finalizer" \notin HeldSteps \cup DeleteSteps
  /\ "finalizer" \in Steps
  BY DEF Steps, StatusSteps, HeldSteps, CreateSteps, DeleteSteps

\* The invariant of the next state, once its parts are known.
LEMMA Build ==
  ASSUME NEW l, pc' = l, Allowed(l)', TypeOK', HoldInv', ObjectsInv', PasswordInv', ResultInv',
         owed' => inst'.drift
  PROVE  IInv'
  BY DEF IInv, Allowed, HeldAt, GoneAt, KeyAt, SettledAt

\* What the worker relies on now.
LEMMA Now ==
  ASSUME IInv, NEW l, pc = l
  PROVE  HeldAt(l) /\ GoneAt(l) /\ KeyAt(l) /\ SettledAt(l)
  BY DEF IInv, Allowed

\* What the invariant says of each variable.
LEMMA Parts ==
  ASSUME IInv
  PROVE  /\ TypeOK /\ HoldInv /\ ObjectsInv /\ PasswordInv /\ ResultInv
         /\ prov \in AllProvs /\ cr \in CRs /\ fresh \in BOOLEAN /\ pc \in Steps /\ loc \in Locals
         /\ inst \in Insts /\ sec \in MaybePassword /\ objs \in SUBSET Objects
         /\ result \in Results /\ owed \in BOOLEAN /\ calm \in BOOLEAN
         /\ owed => inst.drift
  BY ProvsAssumption DEF IInv, TypeOK

\* An account is only opened with a window.
LEMMA AccountFacts ==
  ASSUME IInv, Account
  PROVE  /\ owed' \in BOOLEAN /\ (owed' => inst'.drift /\ cr'.life = "live")
         /\ (cr'.mw => cr.mw) => (owed' => owed)
  <1>1. owed' \in BOOLEAN
    BY Zenon DEF Account
  <1>2. owed' => inst'.drift /\ cr'.life = "live"
    BY Zenon DEF Account
  <1>3. ASSUME cr'.mw => cr.mw, owed' PROVE owed
    BY <1>3, Zenon DEF Account
  <1> QED
    BY <1>1, <1>2, <1>3

\* The values that stand for nothing there.
LEMMA ConstantFacts ==
  /\ NoLoc \in Locals /\ NoInstance \in Insts /\ NoCR \in CRs /\ NoResult \in Results
  /\ NoInstance.state = "absent" /\ ~NoInstance.drift /\ ~NoInstance.full
  /\ NoCR.life = "gone" /\ ~NoCR.fin /\ ~NoCR.mw /\ NoCR.phase = ""
  /\ NoResult.life = "none" /\ NoInstance.pw = NoPassword
  <1>1. NoView \in Views
    BY DEF NoView, Views, InstStates
  <1>2. NoLoc \in Locals
    BY <1>1 DEF NoLoc, Locals, MaybePassword
  <1>3. NoInstance \in Insts /\ NoInstance.state = "absent" /\ ~NoInstance.drift /\ ~NoInstance.full
        /\ NoInstance.pw = NoPassword
    BY DEF NoInstance, Insts, InstStates, MaybePassword
  <1>4. NoCR \in CRs /\ NoCR.life = "gone" /\ ~NoCR.fin /\ ~NoCR.mw /\ NoCR.phase = ""
    BY DEF NoCR, CRs, Phases
  <1>5. NoResult \in Results /\ NoResult.life = "none"
    BY DEF NoResult, Results, MaybePassword
  <1> QED
    BY <1>2, <1>3, <1>4, <1>5

\* The worker moves to l, with its locals or without them.
LEMMA GotoFacts ==
  ASSUME IInv, NEW l, Goto(l)
  PROVE  pc' = l /\ loc' \in Locals /\ (l \notin {"idle"} \cup StatusSteps => loc' = loc)
  BY Parts, ConstantFacts, Zenon DEF Goto

\* A lost answer is an error of the provider.
LEMMA ReplyFacts ==
  ASSUME IInv, pc \in HeldSteps \cup DeleteSteps, pc # "complete", NEW ok, Reply(ok)
  PROVE  loc' \in Locals /\ (pc' = ok \/ pc' = "failed")
         /\ (pc' \notin {"idle"} \cup StatusSteps => loc' = loc)
  <1>1. OnError(pc) = "failed"
    BY DEF OnError, HeldSteps
  <1> QED
    BY <1>1, GotoFacts DEF Reply

\* After an error the reconcile ends with a status update, or at once.
LEMMA OnErrorFacts ==
  /\ OnError(pc) \in {"idle"} \cup StatusSteps
  BY RestSteps DEF OnError

\* What a worker relied on stands while nothing else changes.
LEMMA AllowedSame ==
  ASSUME NEW l, Allowed(l), UNCHANGED <<prov, cr, fresh, loc, inst, sec, objs, result>>, owed' => owed
  PROVE  Allowed(l)'
  BY DEF Allowed, HeldAt, GoneAt, KeyAt, SettledAt, InstanceMade
----------------------------------------------------------------------------
(* Steps by what they change.                                              *)

\* A step of the worker that changes nothing else.
LEMMA QuietKeeps ==
  ASSUME IInv, Account, UNCHANGED <<prov, cr, fresh, inst, sec, objs, result>>, calm' \in BOOLEAN,
         NEW l \in Steps, pc' = l, loc' \in Locals, Allowed(l)'
  PROVE  IInv'
  <1>1. TypeOK /\ HoldInv /\ ObjectsInv /\ PasswordInv /\ ResultInv
    BY Parts
  <1>2. owed' \in BOOLEAN /\ (owed' => inst'.drift)
    BY AccountFacts
  <1>3. TypeOK'
    BY <1>1, <1>2 DEF TypeOK
  <1>4. HoldInv' /\ ObjectsInv'
    BY <1>1 DEF HoldInv, ObjectsInv, InstanceMade
  <1>5. PasswordInv' /\ ResultInv'
    BY <1>1 DEF PasswordInv, ResultInv
  <1> QED
    BY <1>2, <1>3, <1>4, <1>5, Build

\* Nothing is relied on when the reconcile is about to end.
LEMMA RestNext ==
  ASSUME NEW l \in {"idle"} \cup StatusSteps
  PROVE  Allowed(l)'
  <1>1. l \notin HeldSteps /\ l \notin DeleteSteps /\ l # "finalizer"
    BY RestSteps
  <1> QED
    BY <1>1 DEF Allowed, HeldAt, GoneAt, KeyAt, SettledAt, HeldSteps, CreateSteps, DeleteSteps

\* A decision of the worker without a call.
LEMMA BranchKeeps ==
  ASSUME IInv, Account, NEW l \in Steps, Branch(l), Allowed(l)
  PROVE  IInv'
  <1>1. Goto(l) /\ UNCHANGED <<prov, cr, fresh, inst, sec, objs, result, calm>>
    BY DEF Branch, world
  <1>2. pc' = l /\ loc' \in Locals /\ (l \notin {"idle"} \cup StatusSteps => loc' = loc)
    BY <1>1, GotoFacts, Zenon
  <1>3. owed' => owed
    BY <1>1, AccountFacts
  <1>4. Allowed(l)'
    <2>1. CASE l \in {"idle"} \cup StatusSteps
      BY <2>1, RestNext
    <2>2. CASE l \notin {"idle"} \cup StatusSteps
      BY <1>1, <1>2, <1>3, <2>2, AllowedSame
    <2> QED
      BY <2>1, <2>2
  <1>5. calm' \in BOOLEAN
    BY <1>1, Parts
  <1> QED
    BY <1>1, <1>2, <1>4, <1>5, QuietKeeps

\* The reconcile ends, or goes on to the status update that ends it.
LEMMA RestKeeps ==
  ASSUME IInv, Account, NEW l \in {"idle"} \cup StatusSteps, Branch(l)
  PROVE  IInv'
  <1>1. l \in Steps /\ Allowed(l)
    BY RestSteps, RestAllowed
  <1> QED
    BY <1>1, BranchKeeps

\* The same for a call that did not take effect.
LEMMA RefusedKeeps ==
  ASSUME IInv, Account, NEW l \in {"idle"} \cup StatusSteps, Goto(l), NotCR, UNCHANGED world
  PROVE  IInv'
  BY RestKeeps DEF Branch, NotCR

\* A step that leaves the CR alone.
LEMMA EffectKeeps ==
  ASSUME IInv, Account, UNCHANGED <<prov, cr, fresh>>, calm' \in BOOLEAN,
         NEW l \in Steps, pc' = l, loc' \in Locals, Allowed(l)',
         inst' \in Insts, sec' \in MaybePassword, objs' \in SUBSET Objects, result' \in Results,
         InstanceMade' \/ objs' # {} \/ (prov = "cloudsql" /\ sec' # NoPassword) => cr.fin,
         ObjectsInv', PasswordInv', ResultInv'
  PROVE  IInv'
  <1>1. TypeOK /\ HoldInv
    BY Parts
  <1>2. owed' \in BOOLEAN /\ (owed' => inst'.drift)
    BY AccountFacts
  <1>3. TypeOK'
    BY <1>1, <1>2 DEF TypeOK
  <1>4. HoldInv'
    BY <1>1 DEF HoldInv
  <1> QED
    BY <1>2, <1>3, <1>4, Build

\* A call that changes the instance alone.
LEMMA InstKeeps ==
  ASSUME IInv, Account, NotCR, UNCHANGED <<sec, objs, result>>, pc \in HeldSteps \cup DeleteSteps,
         pc # "complete", NEW l \in Steps, Reply(l), l # "idle",
         inst' \in Insts, InstanceMade' => cr.fin, PasswordInv',
         loc' = loc /\ (owed' => owed) => Allowed(l)'
  PROVE  IInv'
  <1>1. /\ loc' \in Locals /\ pc' \in {l, "failed"}
        /\ pc' \notin {"idle"} \cup StatusSteps => loc' = loc
    BY ReplyFacts, Zenon
  <1>2. /\ UNCHANGED <<prov, cr, fresh>> /\ calm' \in BOOLEAN /\ sec' \in MaybePassword
        /\ objs' \in SUBSET Objects /\ result' \in Results /\ HoldInv /\ ObjectsInv /\ ResultInv
    BY Parts DEF NotCR
  <1>3. owed' => owed
    BY <1>2, AccountFacts
  <1>4. InstanceMade' \/ objs' # {} \/ (prov = "cloudsql" /\ sec' # NoPassword) => cr.fin
    BY <1>2 DEF HoldInv
  <1>5. ObjectsInv' /\ ResultInv'
    BY <1>2, Zenon DEF ObjectsInv, ResultInv
  <1>6. PICK e \in Steps : pc' = e /\ Allowed(e)'
    <2>1. CASE pc' \in {"idle"} \cup StatusSteps
      BY <2>1, RestSteps, RestNext, Zenon
    <2>2. CASE pc' \notin {"idle"} \cup StatusSteps
      BY <1>1, <1>3, <2>2, RestSteps, Zenon
    <2> QED
      BY <2>1, <2>2, Zenon
  <1> QED
    BY <1>1, <1>2, <1>3, <1>4, <1>5, <1>6, EffectKeeps, Zenon

\* A write of the CR with the worker's copy.
LEMMA StoreKeeps ==
  ASSUME IInv, Account, NEW new \in CRs, NEW ok \in Steps, Store(new, ok),
         new.life = cr.life, new.mw => cr.mw, cr.fin => new.fin,
         new.phase = "complete" => cr.phase = "complete" \/ pc = "complete",
         cr' = new /\ fresh' /\ fresh /\ (ok # "idle" => loc' = loc) /\ (owed' => owed)
           /\ UNCHANGED <<prov, inst, sec, objs, result>> => Allowed(ok)'
  PROVE  IInv'
  <1>1. /\ fresh /\ cr' = new /\ UNCHANGED <<prov, inst, sec, objs, result, calm>>
        /\ \/ Goto(ok) /\ fresh' = TRUE
           \/ Goto(OnError(pc)) /\ fresh' = FALSE
    BY DEF Store, world
  <1>2. /\ TypeOK /\ HoldInv /\ ObjectsInv /\ PasswordInv /\ ResultInv
        /\ cr.phase \in Phases /\ (pc = "complete" => KeyAt("complete"))
    BY Parts, Now DEF CRs
  <1>3. owed' \in BOOLEAN /\ (owed' => inst'.drift) /\ (owed' => owed)
    BY <1>1, AccountFacts
  <1>4. cr.life # "gone" /\ fresh' \in BOOLEAN
    BY <1>1, <1>2, Zenon DEF HoldInv
  <1>5. loc' \in Locals
    BY <1>1, GotoFacts
  <1>6. PICK l \in Steps : pc' = l /\ Allowed(l)'
    <2>1. CASE Goto(ok) /\ fresh' = TRUE
      <3>1. CASE ok \in {"idle"} \cup StatusSteps
        BY <2>1, <3>1, GotoFacts, RestNext, Zenon
      <3>2. CASE ok \notin {"idle"} \cup StatusSteps
        BY <1>1, <1>3, <2>1, <3>2, GotoFacts, Zenon
      <3> QED
        BY <3>1, <3>2, Zenon
    <2>2. CASE Goto(OnError(pc)) /\ fresh' = FALSE
      <3>1. PICK e \in {"idle"} \cup StatusSteps : pc' = e
        BY <2>2, OnErrorFacts, GotoFacts, Zenon
      <3>2. e \in Steps /\ e \notin HeldSteps /\ e \notin DeleteSteps /\ e # "finalizer"
        BY <3>1, RestSteps, Zenon
      <3>3. Allowed(e)'
        BY <3>2 DEF Allowed, HeldAt, GoneAt, KeyAt, SettledAt, HeldSteps, CreateSteps, DeleteSteps
      <3> QED
        BY <3>1, <3>2, <3>3
    <2> QED
      BY <1>1, <2>1, <2>2, Zenon
  <1>7. TypeOK'
    BY <1>1, <1>2, <1>3, <1>4, <1>5, <1>6, Zenon DEF TypeOK
  <1>8. HoldInv' /\ ObjectsInv' /\ PasswordInv'
    BY <1>1, <1>2, <1>4, ZenonT(60) DEF HoldInv, ObjectsInv, PasswordInv, InstanceMade
  <1>9. ResultInv'
    BY <1>1, <1>2 DEF ResultInv, KeyAt
  <1> QED
    BY <1>3, <1>6, <1>7, <1>8, <1>9, Build
----------------------------------------------------------------------------
(* CreateRedis and DeleteRedis on AWS.                                     *)

\* What matters at a call of CreateRedis.
LEMMA ElastiCacheAllowed ==
  ASSUME NEW l \in HeldSteps \ {"config", "complete"}, prov' = "elasticache", cr'.fin,
         fresh' /\ loc'.win /\ owed' =>
           (l = "decide" => loc'.seen.drift) /\ l \notin {"updates", "tag", "close"}
  PROVE  Allowed(l)'
  <1>1. l \notin DeleteSteps /\ l # "finalizer"
    BY RestSteps
  <1>2. prov' \notin KeyProvs /\ prov' \notin S3Provs /\ prov' \notin PostgresProvs
    BY DEF KeyProvs, PostgresProvs, S3Provs
  <1>3. HeldAt(l)'
    BY <1>1 DEF HeldAt, DeleteSteps
  <1>4. GoneAt(l)'
    BY <1>1 DEF GoneAt, DeleteSteps
  <1>5. KeyAt(l)'
    BY <1>2 DEF KeyAt
  <1>6. SettledAt(l)'
    BY <1>2 DEF SettledAt
  <1> QED
    BY <1>3, <1>4, <1>5, <1>6 DEF Allowed

\* Each provider's calls of the creation are calls under the finalizer.
LEMMA HeldLabels ==
  /\ {"window", "network", "pvc", "secret", "config", "deploy", "service", "get", "decide",
      "annotate_new", "annotate", "found", "modify", "updates", "settings", "credreq", "keys",
      "tag", "close", "publish", "complete"} \subseteq HeldSteps
  BY DEF HeldSteps, CreateSteps

\* The worker has looked at the instance.
LEMMA ViewFacts ==
  ASSUME IInv
  PROVE  /\ [loc EXCEPT !.seen = View] \in Locals
         /\ [loc EXCEPT !.seen = View].seen.state = inst.state
         /\ [loc EXCEPT !.seen = View].seen.drift = inst.drift
         /\ [loc EXCEPT !.seen = View].win = loc.win
         /\ [loc EXCEPT !.seen = View].pass = loc.pass
  <1>1. loc \in Locals /\ inst \in Insts
    BY Parts
  <1>2. View \in Views /\ View.state = inst.state /\ View.drift = inst.drift
    BY <1>1 DEF View, Views, Insts
  <1> HIDE DEF View
  <1> QED
    BY <1>1, <1>2 DEF Locals

LEMMA VerifyRedisMaintenanceWindowKeeps ==
  ASSUME IInv, Account, VerifyRedisMaintenanceWindow
  PROVE  IInv'
  <1>1. /\ prov = "elasticache" /\ pc = "window" /\ pc' = "get" /\ loc' = [loc EXCEPT !.win = cr.mw]
        /\ UNCHANGED <<prov, cr, fresh, calm, inst, sec, objs, result>>
    BY DEF VerifyRedisMaintenanceWindow, At, NotCR, world
  <1>2. cr.fin
    BY <1>1, Now, HeldLabels DEF HeldAt
  <1>3. loc' \in Locals /\ calm' \in BOOLEAN
    BY <1>1, Parts DEF Locals, CRs
  <1>4. "get" \in HeldSteps \ {"config", "complete"} /\ "get" \in Steps
    BY HeldLabels, RestSteps
  <1>5. Allowed("get")'
    BY <1>1, <1>2, <1>4, ElastiCacheAllowed
  <1> QED
    BY <1>1, <1>3, <1>4, <1>5, QuietKeeps

LEMMA GetReplicationGroupsKeeps ==
  ASSUME IInv, Account, GetReplicationGroups
  PROVE  IInv'
  <1>1. /\ prov = "elasticache" /\ pc = "get" /\ pc' = "decide" /\ loc' = [loc EXCEPT !.seen = View]
        /\ UNCHANGED <<prov, cr, fresh, calm, inst, sec, objs, result>>
    BY DEF GetReplicationGroups, At, NotCR, world
  <1>2. cr.fin
    BY <1>1, Now, HeldLabels DEF HeldAt
  <1>3. loc' \in Locals /\ calm' \in BOOLEAN /\ loc'.seen.drift = inst.drift
    BY <1>1, Parts, ViewFacts
  <1>4. "decide" \in HeldSteps \ {"config", "complete"} /\ "decide" \in Steps
    BY HeldLabels, RestSteps
  <1>5. owed' => inst.drift
    BY <1>1, AccountFacts
  <1>6. Allowed("decide")'
    BY <1>1, <1>2, <1>3, <1>4, <1>5, ElastiCacheAllowed
  <1> QED
    BY <1>1, <1>3, <1>4, <1>6, QuietKeeps

LEMMA CreateReplicationGroupKeeps ==
  ASSUME IInv, Account, CreateReplicationGroup
  PROVE  IInv'
  <1>1. /\ prov = "elasticache" /\ pc = "decide" /\ inst' = [NoInstance EXCEPT !.state = "creating"]
        /\ Reply("annotate_new") /\ NotCR /\ UNCHANGED <<sec, objs, result>>
    BY DEF CreateReplicationGroup, At
  <1>2. cr.fin /\ cr \in CRs
    BY <1>1, Now, HeldLabels, Parts DEF HeldAt
  <1>3. inst' \in Insts
    BY <1>1, ConstantFacts DEF Insts, InstStates
  <1>4. PasswordInv'
    BY <1>1 DEF PasswordInv, PostgresProvs, NotCR
  <1>5. "annotate_new" \in HeldSteps \ {"config", "complete"} /\ "annotate_new" \in Steps
        /\ pc \in HeldSteps
    BY <1>1, HeldLabels, RestSteps
  <1>6. Allowed("annotate_new")'
    BY <1>1, <1>2, <1>5, ElastiCacheAllowed DEF NotCR
  <1> QED
    BY <1>1, <1>2, <1>3, <1>4, <1>5, <1>6, InstKeeps

LEMMA AnnotateGroupKeeps ==
  ASSUME IInv, Account, AnnotateGroup
  PROVE  IInv'
  <1> DEFINE new == [cr EXCEPT !.anno = TRUE]
  <1>1. Store(new, "progress")
    BY DEF AnnotateGroup
  <1>2. new \in CRs /\ new.life = cr.life /\ new.mw = cr.mw /\ new.fin = cr.fin /\ new.phase = cr.phase
    BY Parts, Zenon DEF CRs
  <1> HIDE DEF new
  <1>3. "progress" \in Steps /\ Allowed("progress")'
    BY RestSteps DEF Allowed, HeldAt, GoneAt, KeyAt, SettledAt, HeldSteps
  <1> QED
    BY <1>1, <1>2, <1>3, StoreKeeps

LEMMA GroupAvailableKeeps ==
  ASSUME IInv, Account, GroupAvailable
  PROVE  IInv'
  <1>1. prov = "elasticache" /\ pc = "decide"
    BY DEF GroupAvailable, At
  <1>2. cr.fin /\ SettledAt("decide")
    BY <1>1, Now, HeldLabels DEF HeldAt
  <1>3. CASE loc.win /\ loc.seen.drift
    <2>1. Branch("modify")
      BY <1>3 DEF GroupAvailable
    <2>2. Allowed("modify")
      BY <1>1, <1>2, HeldLabels DEF Allowed, HeldAt, GoneAt, KeyAt, SettledAt, KeyProvs, PostgresProvs,
                                    S3Provs, DeleteSteps
    <2>3. "modify" \in Steps
      BY HeldLabels, RestSteps
    <2> QED
      BY <2>1, <2>2, <2>3, BranchKeeps
  <1>4. CASE ~(loc.win /\ loc.seen.drift)
    <2>1. Branch("updates")
      BY <1>4, Zenon DEF GroupAvailable
    <2>2. Allowed("updates")
      BY <1>1, <1>2, <1>4, HeldLabels DEF Allowed, HeldAt, GoneAt, KeyAt, SettledAt, KeyProvs, PostgresProvs,
                                    S3Provs, DeleteSteps
    <2>3. "updates" \in Steps
      BY HeldLabels, RestSteps
    <2> QED
      BY <2>1, <2>2, <2>3, BranchKeeps
  <1> QED
    BY <1>3, <1>4

LEMMA ModifyReplicationGroupKeeps ==
  ASSUME IInv, Account, ModifyReplicationGroup
  PROVE  IInv'
  <1>1. PICK s \in {"available", "modifying"} :
          /\ prov = "elasticache" /\ pc = "modify" /\ inst' = [inst EXCEPT !.state = s, !.drift = FALSE]
          /\ inst.state = "available"
          /\ Reply("updates") /\ NotCR /\ UNCHANGED <<sec, objs, result>>
    BY Zenon DEF ModifyReplicationGroup, At
  <1>2. cr.fin /\ cr \in CRs
    BY <1>1, Now, HeldLabels, Parts DEF HeldAt
  <1>3. inst' \in Insts /\ ~inst'.drift
    BY <1>1, Parts, Zenon DEF Insts, InstStates
  <1>4. PasswordInv'
    BY <1>1 DEF PasswordInv, PostgresProvs, NotCR
  <1>5. "updates" \in HeldSteps \ {"config", "complete"} /\ "updates" \in Steps
        /\ pc \in HeldSteps
    BY <1>1, HeldLabels, RestSteps
  <1>6. ~owed'
    BY <1>3, AccountFacts
  <1>7. Allowed("updates")'
    BY <1>1, <1>2, <1>5, <1>6, ElastiCacheAllowed DEF NotCR
  <1> QED
    BY <1>1, <1>2, <1>3, <1>4, <1>5, <1>7, InstKeeps

LEMMA ApplySpecifiedSecurityUpdatesKeeps ==
  ASSUME IInv, Account, ApplySpecifiedSecurityUpdates
  PROVE  IInv'
  <1>1. /\ prov = "elasticache" /\ pc = "updates" /\ NotCR /\ UNCHANGED <<sec, objs, result>>
        /\ Reply("tag") /\ (UNCHANGED inst \/ inst' = [inst EXCEPT !.state = "modifying"])
    BY DEF ApplySpecifiedSecurityUpdates, At, Reply
  <1>2. cr.fin /\ cr \in CRs /\ SettledAt("updates")
    BY <1>1, Now, HeldLabels, Parts DEF HeldAt
  <1>3. inst' \in Insts
    BY <1>1, Parts DEF Insts, InstStates
  <1>4. PasswordInv'
    BY <1>1 DEF PasswordInv, PostgresProvs, NotCR
  <1>5. "tag" \in HeldSteps \ {"config", "complete"} /\ "tag" \in Steps
        /\ pc \in HeldSteps
    BY <1>1, HeldLabels, RestSteps
  <1>6. loc' = loc /\ (owed' => owed) => Allowed("tag")'
    BY <1>1, <1>2, <1>5, ElastiCacheAllowed DEF NotCR, SettledAt
  <1> QED
    BY <1>1, <1>2, <1>3, <1>4, <1>5, <1>6, InstKeeps

LEMMA TagNodesKeeps ==
  ASSUME IInv, Account, TagNodes
  PROVE  IInv'
  <1>1. prov = "elasticache" /\ pc = "tag" /\ (Branch("close") \/ Branch("progress"))
    BY DEF TagNodes, At
  <1>2. cr.fin /\ SettledAt("tag")
    BY <1>1, Now, HeldLabels, Zenon DEF HeldAt
  <1>3. Allowed("close")
    BY <1>1, <1>2, HeldLabels DEF Allowed, HeldAt, GoneAt, KeyAt, SettledAt, KeyProvs, PostgresProvs,
                                  S3Provs, DeleteSteps
  <1>4. "close" \in Steps
    BY HeldLabels, RestSteps
  <1> QED
    BY <1>1, <1>3, <1>4, BranchKeeps, RestKeeps, RestSteps

LEMMA CloseWindowKeeps ==
  ASSUME IInv, Account, CloseWindow
  PROVE  IInv'
  <1> DEFINE new == [cr EXCEPT !.mw = FALSE]
  <1>1. Store(new, "publish") /\ prov = "elasticache" /\ pc = "close"
    BY DEF CloseWindow, At
  <1>2. cr.fin
    BY <1>1, Now, HeldLabels DEF HeldAt
  <1>3. new \in CRs /\ new.life = cr.life /\ ~new.mw /\ new.fin = cr.fin /\ new.phase = cr.phase
    BY Parts, Zenon DEF CRs
  <1> HIDE DEF new
  <1>4. "publish" \in HeldSteps \ {"config", "complete"} /\ "publish" \in Steps
    BY HeldLabels, RestSteps
  <1>5. cr' = new /\ UNCHANGED prov => Allowed("publish")'
    BY <1>1, <1>2, <1>3, <1>4, ElastiCacheAllowed, Zenon
  <1> QED
    BY <1>1, <1>3, <1>4, <1>5, StoreKeeps

LEMMA NoWindowKeeps ==
  ASSUME IInv, Account, NoWindow
  PROVE  IInv'
  <1>1. prov = "elasticache" /\ pc = "close" /\ Branch("publish")
    BY DEF NoWindow, At
  <1>2. cr.fin
    BY <1>1, Now, HeldLabels DEF HeldAt
  <1>3. Allowed("publish")
    BY <1>1, <1>2, HeldLabels DEF Allowed, HeldAt, GoneAt, KeyAt, SettledAt, KeyProvs, PostgresProvs,
                                  S3Provs, DeleteSteps
  <1>4. "publish" \in Steps
    BY HeldLabels, RestSteps, Zenon
  <1> QED
    BY <1>1, <1>3, <1>4, BranchKeeps

\* What matters at a call of a delete function.
LEMMA DeleteAllowed ==
  ASSUME NEW l \in DeleteSteps, cr'.life = "deleting", l = "d_config" => prov' # "oc_postgres",
         l = "d_secret" => prov' # "oc_redis", GoneAt(l)'
  PROVE  Allowed(l)'
  <1>1. l \notin HeldSteps /\ l # "finalizer" /\ l # "config"
    BY RestSteps, HeldLabels
  <1>2. l \notin {"get", "decide", "annotate_new", "annotate", "found", "modify", "publish", "deploy",
                  "service", "tag", "complete", "credreq", "keys", "updates", "close"}
    BY <1>1, HeldLabels
  <1>3. HeldAt(l)'
    BY <1>1 DEF HeldAt
  <1>4. KeyAt(l)' /\ SettledAt(l)'
    BY <1>1, <1>2 DEF KeyAt, SettledAt
  <1> QED
    BY <1>3, <1>4 DEF Allowed

\* The worker goes on to l.
LEMMA OnwardKeeps ==
  ASSUME IInv, Account, NEW l \in Steps, l # "idle", Branch(l),
         UNCHANGED <<prov, cr, fresh, loc, inst, sec, objs, result>> /\ (owed' => owed) => Allowed(l)'
  PROVE  IInv'
  <1>1. Goto(l) /\ UNCHANGED <<prov, cr, fresh, inst, sec, objs, result, calm>>
    BY DEF Branch, world
  <1>2. pc' = l /\ loc' \in Locals /\ (l \notin {"idle"} \cup StatusSteps => loc' = loc)
    BY <1>1, GotoFacts, Zenon
  <1>3. owed' => owed
    BY <1>1, AccountFacts
  <1>4. calm' \in BOOLEAN
    BY <1>1, Parts
  <1>5. Allowed(l)'
    <2>1. CASE l \in {"idle"} \cup StatusSteps
      BY <2>1, RestNext
    <2>2. CASE l \notin {"idle"} \cup StatusSteps
      BY <1>1, <1>2, <1>3, <2>2, Zenon
    <2> QED
      BY <2>1, <2>2
  <1> QED
    BY <1>1, <1>2, <1>4, <1>5, QuietKeeps

\* Reconciles that end where the replication group is lost, busy or refused.
LEMMA ElastiCacheRests ==
  ASSUME IInv, Account,
         GroupLost \/ GroupNotAvailable \/ RefusedByElastiCache \/ DeleteWaitsForGroup
  PROVE  IInv'
  BY RestKeeps, RestSteps DEF GroupLost, GroupNotAvailable, RefusedByElastiCache, DeleteWaitsForGroup

\* The listing that a deletion starts with.
LEMMA LookKeeps ==
  ASSUME IInv, Account, pc = "d_get", pc' = "d_decide", loc' = [loc EXCEPT !.seen = View],
         NotCR, UNCHANGED world
  PROVE  IInv'
  <1>1. UNCHANGED <<prov, cr, fresh, calm, inst, sec, objs, result>>
    BY DEF NotCR, world
  <1>2. "d_get" \in DeleteSteps /\ "d_decide" \in DeleteSteps /\ "d_decide" \in Steps
    BY DEF DeleteSteps, Steps
  <1>3. cr.life = "deleting"
    BY <1>2, Now DEF HeldAt
  <1>4. loc' \in Locals /\ calm' \in BOOLEAN /\ loc'.seen.state = inst.state
    BY <1>1, Parts, ViewFacts
  <1>5. GoneAt("d_decide")'
    BY <1>1, <1>4 DEF GoneAt
  <1>6. Allowed("d_decide")'
    BY <1>1, <1>2, <1>3, <1>5, DeleteAllowed
  <1> QED
    BY <1>1, <1>2, <1>4, <1>6, QuietKeeps

LEMMA GetGroupForDeleteKeeps ==
  ASSUME IInv, Account, GetGroupForDelete
  PROVE  IInv'
  BY LookKeeps DEF GetGroupForDelete, At

LEMMA DeleteReplicationGroupKeeps ==
  ASSUME IInv, Account, DeleteReplicationGroup
  PROVE  IInv'
  <1>1. prov = "elasticache" /\ pc = "d_decide" /\ NotCR /\ UNCHANGED <<sec, objs, result>>
    BY DEF DeleteReplicationGroup, At
  <1>2. /\ "delprog" \in StatusSteps /\ "delprog" \in Steps /\ "delprog" # "idle" /\ Allowed("delprog")'
        /\ pc \in DeleteSteps /\ pc # "complete"
    BY <1>1, RestSteps, RestNext DEF DeleteSteps
  <1>3. CASE Goto("delprog") /\ UNCHANGED inst
    BY <1>1, <1>2, <1>3, RefusedKeeps DEF world
  <1>4. CASE inst.state = "available" /\ inst' = [inst EXCEPT !.state = "deleting"] /\ Reply("delprog")
    <2>1. inst \in Insts /\ HoldInv
      BY Parts
    <2>2. inst' \in Insts /\ inst'.full = inst.full
      BY <1>4, <2>1 DEF Insts, InstStates
    <2>3. InstanceMade' => cr.fin
      BY <1>1, <1>4, <2>1, <2>2 DEF InstanceMade, HoldInv, NotCR
    <2>4. PasswordInv'
      BY <1>1 DEF PasswordInv, PostgresProvs, NotCR
    <2> QED
      BY <1>1, <1>2, <1>4, <2>2, <2>3, <2>4, InstKeeps
  <1> QED
    BY <1>3, <1>4 DEF DeleteReplicationGroup

LEMMA GroupGoneKeeps ==
  ASSUME IInv, Account, GroupGone
  PROVE  IInv'
  <1>1. prov = "elasticache" /\ pc = "d_decide" /\ loc.seen.state = "absent" /\ Branch("d_fin")
    BY DEF GroupGone, At
  <1>2. {"d_decide", "d_fin"} \subseteq DeleteSteps /\ "d_fin" \in Steps
    BY DEF DeleteSteps, Steps
  <1>3. cr.life = "deleting" /\ inst.state = "absent" /\ objs = {}
    BY <1>1, <1>2, Now, Parts DEF HeldAt, GoneAt, ObjectsInv, CloudProvs
  <1>4. ASSUME UNCHANGED <<prov, cr, fresh, loc, inst, sec, objs, result>> PROVE Allowed("d_fin")'
    <2>1. GoneAt("d_fin")'
      BY <1>1, <1>3, <1>4 DEF GoneAt, InstanceMade
    <2> QED
      BY <1>1, <1>2, <1>3, <1>4, <2>1, DeleteAllowed
  <1> QED
    BY <1>1, <1>2, <1>4, OnwardKeeps

\* All calls of the ElastiCache provider.
LEMMA ElastiCacheKeeps ==
  ASSUME IInv, Account, ElastiCacheWorker
  PROVE  IInv'
  BY VerifyRedisMaintenanceWindowKeeps, GetReplicationGroupsKeeps, CreateReplicationGroupKeeps,
     AnnotateGroupKeeps, GroupAvailableKeeps, ModifyReplicationGroupKeeps,
     ApplySpecifiedSecurityUpdatesKeeps, TagNodesKeeps, CloseWindowKeeps, NoWindowKeeps,
     ElastiCacheRests, GetGroupForDeleteKeeps, DeleteReplicationGroupKeeps, GroupGoneKeeps, Zenon
  DEF ElastiCacheWorker
----------------------------------------------------------------------------
(* ReconcilePostgres and DeletePostgres on GCP.                            *)

\* What matters at a call of ReconcilePostgres.
LEMMA CloudSQLAllowed ==
  ASSUME NEW l \in HeldSteps \ {"config", "complete"}, prov' = "cloudsql", cr'.fin,
         cr'.phase = "complete" => sec' # NoPassword,
         l \notin {"network", "secret"} => sec' # NoPassword /\ loc'.pass = sec'
  PROVE  Allowed(l)'
  <1>1. l \notin DeleteSteps /\ l # "finalizer"
    BY RestSteps
  <1>2. prov' \notin S3Provs /\ prov' \notin {"oc_postgres", "oc_redis", "elasticache"}
    BY DEF S3Provs
  <1>3. HeldAt(l)' /\ GoneAt(l)'
    BY <1>1 DEF HeldAt, GoneAt, DeleteSteps
  <1>4. KeyAt(l)' /\ SettledAt(l)'
    BY <1>2 DEF KeyAt, SettledAt
  <1> QED
    BY <1>3, <1>4 DEF Allowed

\* What the worker knows before each of these calls.
LEMMA CloudSQLNow ==
  ASSUME IInv, prov = "cloudsql", pc \in HeldSteps
  PROVE  /\ cr.fin /\ (cr.phase = "complete" => sec # NoPassword) /\ cr \in CRs
         /\ pc \in {"get", "decide", "annotate_new", "annotate", "found", "modify", "publish"} =>
              sec # NoPassword /\ loc.pass = sec
  <1>1. HeldAt(pc) /\ KeyAt(pc) /\ cr \in CRs
    BY Parts DEF IInv, Allowed
  <1> QED
    BY <1>1 DEF HeldAt, KeyAt, KeyProvs, PostgresProvs

\* A step to another of these calls that leaves the secret alone.
LEMMA CloudSQLOnward ==
  ASSUME IInv, Account, prov = "cloudsql", pc \in HeldSteps, NEW l \in HeldSteps \ {"config", "complete"},
         l \in {"network", "secret"} \/ pc \notin {"network", "secret"}, Branch(l),
         pc \in {"get", "decide", "annotate_new", "annotate", "found", "modify", "network"}
  PROVE  IInv'
  <1>1. /\ cr.fin /\ (cr.phase = "complete" => sec # NoPassword)
        /\ pc # "network" => sec # NoPassword /\ loc.pass = sec
    BY CloudSQLNow
  <1>2. l \in Steps /\ l # "idle"
    BY RestSteps
  <1>3. ASSUME UNCHANGED <<prov, cr, fresh, loc, inst, sec, objs, result>> PROVE Allowed(l)'
    BY <1>1, <1>3, CloudSQLAllowed
  <1> QED
    BY <1>2, <1>3, OnwardKeeps

\* Decisions from what was read of the Cloud SQL instance.
LEMMA SQLBranches ==
  ASSUME IInv, Account, SQLNetwork \/ SQLInstanceFound \/ SQLInstanceState
  PROVE  IInv'
  <1>1. prov = "cloudsql" /\ pc \in {"network", "decide", "found"}
    BY DEF SQLNetwork, SQLInstanceFound, SQLInstanceState, At
  <1>2. pc \in HeldSteps
    BY <1>1, HeldLabels
  <1>3. CASE SQLNetwork
    <2>1. pc = "network" /\ (Branch("secret") \/ Branch("progress"))
      BY <1>3 DEF SQLNetwork, At
    <2> QED
      BY <1>1, <1>2, <2>1, HeldLabels, CloudSQLOnward, RestKeeps, RestSteps
  <1>4. CASE SQLInstanceFound
    <2>1. pc = "decide" /\ (Branch("found") \/ Branch("annotate"))
      BY <1>4, Zenon DEF SQLInstanceFound, At
    <2> QED
      BY <1>1, <1>2, <2>1, HeldLabels, CloudSQLOnward
  <1>5. CASE SQLInstanceState
    <2> DEFINE l == CASE loc.seen.state = "creating" -> "progress"
                      [] loc.seen.state # "creating" /\ loc.seen.drift -> "modify"
                      [] OTHER -> "publish"
    <2>1. pc = "found" /\ Branch(l)
      BY <1>5, Zenon DEF SQLInstanceState, At
    <2>2. l = "progress" \/ l = "modify" \/ l = "publish"
      <3>1. CASE loc.seen.state = "creating"
        BY <3>1, Zenon
      <3>2. CASE loc.seen.state # "creating" /\ loc.seen.drift
        BY <3>2, Zenon
      <3>3. CASE loc.seen.state # "creating" /\ ~loc.seen.drift
        BY <3>3, Zenon
      <3> QED
        BY <3>1, <3>2, <3>3
    <2> HIDE DEF l
    <2>3. Branch("progress") \/ Branch("modify") \/ Branch("publish")
      BY <2>1, <2>2, Zenon
    <2> QED
      BY <1>1, <1>2, <2>1, <2>3, HeldLabels, CloudSQLOnward, RestKeeps, RestSteps
  <1> QED
    BY <1>3, <1>4, <1>5

LEMMA CreateSQLSecretKeeps ==
  ASSUME IInv, Account, CreateSQLSecret
  PROVE  IInv'
  <1>1. /\ prov = "cloudsql" /\ pc = "secret" /\ NotCR /\ UNCHANGED <<inst, objs, result>>
        /\ IF sec = NoPassword THEN sec' \in Passwords ELSE sec' = sec
    BY DEF CreateSQLSecret, At
  <1>2. /\ cr.fin /\ (cr.phase = "complete" => sec # NoPassword)
    BY <1>1, HeldLabels, CloudSQLNow
  <1>3. /\ HoldInv /\ ObjectsInv /\ PasswordInv /\ ResultInv /\ inst \in Insts /\ sec \in MaybePassword
        /\ objs \in SUBSET Objects /\ result \in Results /\ loc \in Locals /\ calm \in BOOLEAN
    BY Parts
  <1>4. sec' \in MaybePassword /\ sec' # NoPassword /\ (sec # NoPassword => sec' = sec)
    BY <1>1, <1>3, PasswordsAssumption DEF MaybePassword
  <1>5. ObjectsInv' /\ PasswordInv'
    BY <1>1, <1>3, <1>4, Zenon DEF ObjectsInv, PasswordInv, NotCR
  <1>6. ResultInv'
    BY <1>1, <1>2, <1>3, <1>4, Zenon DEF ResultInv, NotCR
  <1>7. ASSUME NEW l \in Steps, pc' = l, loc' \in Locals, Allowed(l)' PROVE IInv'
    BY <1>1, <1>2, <1>3, <1>4, <1>5, <1>6, <1>7, EffectKeeps DEF NotCR
  <1>8. CASE pc' = "get" /\ loc' = [loc EXCEPT !.pass = sec']
    <2>1. loc' \in Locals /\ loc'.pass = sec'
      BY <1>3, <1>4, <1>8, Zenon DEF Locals
    <2>2. "get" \in HeldSteps \ {"config", "complete"} /\ "get" \in Steps
      BY HeldLabels, RestSteps
    <2>3. Allowed("get")'
      BY <1>1, <1>2, <1>4, <2>1, <2>2, CloudSQLAllowed DEF NotCR
    <2> QED
      BY <1>7, <1>8, <2>1, <2>2, <2>3
  <1>9. CASE Goto("failed")
    BY <1>7, <1>9, GotoFacts, RestNext, RestSteps
  <1> QED
    BY <1>8, <1>9 DEF CreateSQLSecret

LEMMA GetSQLInstanceKeeps ==
  ASSUME IInv, Account, GetSQLInstance
  PROVE  IInv'
  <1>1. /\ prov = "cloudsql" /\ pc = "get" /\ pc' = "decide" /\ loc' = [loc EXCEPT !.seen = View]
        /\ UNCHANGED <<prov, cr, fresh, calm, inst, sec, objs, result>>
    BY DEF GetSQLInstance, At, NotCR, world
  <1>2. cr.fin /\ sec # NoPassword /\ loc.pass = sec
    BY <1>1, HeldLabels, CloudSQLNow
  <1>3. loc' \in Locals /\ calm' \in BOOLEAN /\ loc'.pass = loc.pass
    BY <1>1, Parts, ViewFacts
  <1>4. "decide" \in HeldSteps \ {"config", "complete"} /\ "decide" \in Steps
    BY HeldLabels, RestSteps
  <1>5. Allowed("decide")'
    BY <1>1, <1>2, <1>3, <1>4, CloudSQLAllowed, Zenon
  <1> QED
    BY <1>1, <1>3, <1>4, <1>5, QuietKeeps

\* A call of ReconcilePostgres that changes the instance, or is refused.
LEMMA SQLInstKeeps ==
  ASSUME IInv, Account, prov = "cloudsql", pc \in {"decide", "modify"}, NotCR,
         UNCHANGED <<sec, objs, result>>, NEW l \in {"annotate_new", "publish"},
         Reply(l) \/ Goto(l), inst' \in Insts, inst'.state # "absent" => inst'.pw = sec
  PROVE  IInv'
  <1>1. cr.fin /\ sec # NoPassword /\ loc.pass = sec /\ pc \in HeldSteps /\ pc # "complete"
    BY HeldLabels, CloudSQLNow
  <1>2. l \in HeldSteps \ {"config", "complete"} /\ l \in Steps /\ l # "idle"
    BY HeldLabels, RestSteps
  <1>3. PasswordInv'
    BY <1>1 DEF PasswordInv, NotCR
  <1>4. loc' = loc => Allowed(l)'
    BY <1>1, <1>2, CloudSQLAllowed DEF NotCR
  <1>5. Reply(l)
    BY SMTT(60) DEF Reply
  <1> QED
    BY <1>1, <1>2, <1>3, <1>4, <1>5, InstKeeps, Zenon

LEMMA CreateSQLInstanceKeeps ==
  ASSUME IInv, Account, CreateSQLInstance
  PROVE  IInv'
  <1>1. prov = "cloudsql" /\ pc = "decide" /\ NotCR /\ UNCHANGED <<sec, objs, result>>
    BY Zenon DEF CreateSQLInstance, At
  <1>2. sec # NoPassword /\ loc.pass = sec /\ inst \in Insts /\ PasswordInv /\ sec \in MaybePassword
    BY <1>1, HeldLabels, CloudSQLNow, Parts
  <1>3. ASSUME NEW b \in BOOLEAN,
               inst' = [NoInstance EXCEPT !.state = "creating", !.prot = b, !.pw = loc.pass],
               Reply("annotate_new")
        PROVE  IInv'
    <2>1. inst' \in Insts /\ inst'.pw = sec
      BY <1>2, <1>3, ConstantFacts DEF Insts, InstStates
    <2> QED
      BY <1>1, <1>3, <2>1, SQLInstKeeps
  <1>4. CASE Goto("annotate_new") /\ UNCHANGED inst
    <2>1. inst'.state # "absent" => inst'.pw = sec
      BY <1>1, <1>2, <1>4, Zenon DEF PasswordInv, PostgresProvs
    <2> QED
      BY <1>1, <1>2, <1>4, <2>1, SQLInstKeeps, Zenon
  <1>5. CASE Goto("failed") /\ UNCHANGED inst
    BY <1>1, <1>5, RefusedKeeps, RestSteps, SMTT(60) DEF world
  <1> QED
    BY <1>3, <1>4, <1>5, ZenonT(60) DEF CreateSQLInstance

LEMMA ModifySQLInstanceKeeps ==
  ASSUME IInv, Account, ModifySQLInstance
  PROVE  IInv'
  <1>1. prov = "cloudsql" /\ pc = "modify" /\ NotCR /\ UNCHANGED <<sec, objs, result>>
    BY Zenon DEF ModifySQLInstance, At
  <1>2. inst \in Insts /\ (inst.state # "absent" => inst.pw = sec)
    BY <1>1, Parts DEF PasswordInv, PostgresProvs
  <1>3. ASSUME NEW t \in {"available", "modifying"}, NEW b \in BOOLEAN, inst.state = "available",
               inst' = [inst EXCEPT !.state = t, !.prot = b, !.drift = FALSE],
               Reply("publish")
        PROVE  IInv'
    <2>1. inst' \in Insts /\ inst'.pw = sec
      BY <1>2, <1>3, Zenon DEF Insts, InstStates
    <2> QED
      BY <1>1, <1>3, <2>1, SQLInstKeeps
  <1>4. CASE Goto("publish") /\ UNCHANGED inst
    BY <1>1, <1>2, <1>4, SQLInstKeeps, Zenon
  <1>5. CASE Goto("failed") /\ UNCHANGED inst
    BY <1>1, <1>5, RefusedKeeps, RestSteps, Zenon DEF world
  <1> QED
    BY <1>3, <1>4, <1>5, ZenonT(60) DEF ModifySQLInstance

LEMMA AnnotateSQLKeeps ==
  ASSUME IInv, Account, AnnotateNewSQL \/ AnnotateFoundSQL
  PROVE  IInv'
  <1> DEFINE new == [cr EXCEPT !.anno = TRUE]
  <1>1. /\ prov = "cloudsql" /\ pc \in {"annotate_new", "annotate"}
        /\ Store(new, "progress") \/ Store(new, "found")
    BY DEF AnnotateNewSQL, AnnotateFoundSQL, At
  <1>2. new \in CRs /\ new.life = cr.life /\ new.mw = cr.mw /\ new.fin = cr.fin /\ new.phase = cr.phase
    BY Parts, Zenon DEF CRs
  <1> HIDE DEF new
  <1>3. cr.fin /\ sec # NoPassword /\ loc.pass = sec
    BY <1>1, HeldLabels, CloudSQLNow
  <1>4. "progress" \in Steps /\ Allowed("progress")'
    BY RestSteps, RestNext
  <1>5. "found" \in HeldSteps \ {"config", "complete"} /\ "found" \in Steps
    BY HeldLabels, RestSteps
  <1>6. cr' = new /\ loc' = loc /\ UNCHANGED <<prov, sec>> => Allowed("found")'
    BY <1>1, <1>2, <1>3, <1>5, CloudSQLAllowed, Zenon
  <1> QED
    BY <1>1, <1>2, <1>4, <1>5, <1>6, StoreKeeps

\* A deletion goes on to its call l.
LEMMA DeleteOnward ==
  ASSUME IInv, Account, pc \in DeleteSteps, NEW l \in DeleteSteps, Branch(l),
         l = "d_config" => prov # "oc_postgres", l = "d_secret" => prov # "oc_redis",
         UNCHANGED <<prov, loc, inst, sec, objs>> => GoneAt(l)'
  PROVE  IInv'
  <1>1. cr.life = "deleting" /\ l \in Steps /\ l # "idle"
    BY Now, RestSteps, Zenon DEF HeldAt
  <1>2. ASSUME UNCHANGED <<prov, cr, fresh, loc, inst, sec, objs, result>> PROVE Allowed(l)'
    BY <1>1, <1>2, DeleteAllowed
  <1> QED
    BY <1>1, <1>2, OnwardKeeps

\* The cloud has taken a request about an instance that is to be deleted.
LEMMA AskedToGo ==
  ASSUME IInv, Account, prov \in CloudProvs, pc = "d_decide", NotCR, UNCHANGED <<sec, objs, result>>,
         Reply("delprog"), inst.state = "available",
         \/ inst' = [inst EXCEPT !.state = "deleting"]
         \/ inst' = [inst EXCEPT !.prot = FALSE]
  PROVE  IInv'
  <1>1. /\ "delprog" \in Steps /\ "delprog" # "idle" /\ Allowed("delprog")'
        /\ pc \in DeleteSteps /\ pc # "complete"
    BY RestSteps, RestNext DEF DeleteSteps
  <1>2. inst \in Insts /\ HoldInv /\ PasswordInv
    BY Parts
  <1>3. inst' \in Insts /\ inst'.full = inst.full /\ inst'.pw = inst.pw
    BY <1>2, Zenon DEF Insts, InstStates
  <1>4. InstanceMade' => cr.fin
    BY <1>2, <1>3 DEF InstanceMade, HoldInv, NotCR
  <1>5. PasswordInv'
    BY <1>2, <1>3 DEF PasswordInv, NotCR, CloudProvs
  <1> QED
    BY <1>1, <1>3, <1>4, <1>5, InstKeeps

LEMMA SQLDeletionKeeps ==
  ASSUME IInv, Account,
         GetSQLForDelete \/ SQLAlreadyDeleting \/ DisableSQLProtection \/ DeleteSQLInstance
  PROVE  IInv'
  <1>1. CASE GetSQLForDelete
    BY <1>1, LookKeeps DEF GetSQLForDelete, At
  <1>2. CASE SQLAlreadyDeleting
    BY <1>2, RestKeeps, RestSteps DEF SQLAlreadyDeleting
  <1>3. CASE DisableSQLProtection \/ DeleteSQLInstance
    <2>1. prov \in CloudProvs /\ pc = "d_decide" /\ NotCR /\ UNCHANGED <<sec, objs, result>>
      BY <1>3 DEF DisableSQLProtection, DeleteSQLInstance, At, CloudProvs
    <2>2. CASE (Goto("delprog") \/ Goto("failed")) /\ UNCHANGED inst
      BY <2>1, <2>2, RefusedKeeps, RestSteps DEF world
    <2>3. CASE /\ Reply("delprog") /\ inst.state = "available"
               /\ \/ inst' = [inst EXCEPT !.state = "deleting"]
                  \/ inst' = [inst EXCEPT !.prot = FALSE]
      BY <2>1, <2>3, AskedToGo, Zenon
    <2> QED
      BY <1>3, <2>2, <2>3 DEF DisableSQLProtection, DeleteSQLInstance
  <1> QED
    BY <1>1, <1>2, <1>3

LEMMA SQLInstanceGoneKeeps ==
  ASSUME IInv, Account, SQLInstanceGone
  PROVE  IInv'
  <1>1. prov = "cloudsql" /\ pc = "d_decide" /\ loc.seen.state = "absent" /\ Branch("d_secret")
    BY DEF SQLInstanceGone, At
  <1>2. {"d_decide", "d_secret"} \subseteq DeleteSteps
    BY Zenon DEF DeleteSteps
  <1>3. inst.state = "absent" /\ objs = {}
    BY <1>1, Now, Parts, Zenon DEF GoneAt, ObjectsInv, CloudProvs
  <1>4. UNCHANGED <<prov, loc, inst, sec, objs>> => GoneAt("d_secret")'
    BY <1>1, <1>3, Zenon DEF GoneAt
  <1> QED
    BY <1>1, <1>2, <1>4, DeleteOnward, Zenon

LEMMA DeleteSQLSecretKeeps ==
  ASSUME IInv, Account, DeleteSQLSecret
  PROVE  IInv'
  <1>1. /\ prov = "cloudsql" /\ pc = "d_secret" /\ sec' = NoPassword /\ Reply("d_network") /\ NotCR
        /\ UNCHANGED <<inst, objs, result>>
    BY DEF DeleteSQLSecret, At
  <1>2. "d_secret" \in DeleteSteps /\ "d_network" \in DeleteSteps /\ "d_network" \in Steps
    BY Zenon DEF DeleteSteps, Steps
  <1>3. inst.state = "absent" /\ cr.life = "deleting"
    BY <1>1, <1>2, Now DEF GoneAt, HeldAt
  <1>4. /\ HoldInv /\ ObjectsInv /\ ResultInv /\ inst \in Insts /\ objs \in SUBSET Objects
        /\ result \in Results /\ calm \in BOOLEAN
    BY Parts
  <1>5. sec' \in MaybePassword
    BY <1>1, Zenon DEF MaybePassword
  <1>6. InstanceMade' \/ objs' # {} \/ (prov = "cloudsql" /\ sec' # NoPassword) => cr.fin
    BY <1>1, <1>3, <1>4, Zenon DEF InstanceMade, HoldInv, NotCR
  <1>7. ObjectsInv' /\ PasswordInv'
    BY <1>1, <1>3, <1>4, Zenon DEF ObjectsInv, PasswordInv, NotCR
  <1>8. ResultInv'
    BY <1>1, <1>3, <1>4 DEF ResultInv, NotCR, S3Provs
  <1>9. loc' \in Locals /\ (pc' = "d_network" \/ pc' = "failed")
    BY <1>1, <1>2, ReplyFacts
  <1>10. Allowed("d_network")'
    <2>1. GoneAt("d_network")'
      BY <1>1, <1>3 DEF GoneAt, NotCR
    <2> QED
      BY <1>1, <1>2, <1>3, <2>1, DeleteAllowed, Zenon DEF NotCR
  <1>11. Allowed("failed")' /\ "failed" \in Steps
    BY RestNext, RestSteps
  <1>12. UNCHANGED <<prov, cr, fresh>> /\ calm' \in BOOLEAN
    BY <1>1, <1>4, Zenon DEF NotCR
  <1> QED
    BY <1>1, <1>2, <1>4, <1>5, <1>6, <1>7, <1>8, <1>9, <1>10, <1>11, <1>12, EffectKeeps, Zenon

\* The last call of a deletion on GCP.
LEMMA NetworkGoneKeeps ==
  ASSUME IInv, Account, SQLNetworkGone \/ RedisNetworkGone
  PROVE  IInv'
  <1>1. /\ prov \in CloudProvs /\ pc = "d_network" /\ (Branch("d_fin") \/ Branch("delprog"))
    BY DEF SQLNetworkGone, RedisNetworkGone, At, CloudProvs
  <1>2. {"d_network", "d_fin"} \subseteq DeleteSteps
    BY Zenon DEF DeleteSteps
  <1>3. inst.state = "absent" /\ (prov = "cloudsql" => sec = NoPassword) /\ objs = {}
    BY <1>1, Now, Parts, Zenon DEF GoneAt, ObjectsInv
  <1>4. UNCHANGED <<prov, loc, inst, sec, objs>> => GoneAt("d_fin")'
    BY <1>3 DEF GoneAt, InstanceMade
  <1> QED
    BY <1>1, <1>2, <1>4, DeleteOnward, RestKeeps, RestSteps, Zenon

\* All calls of the Cloud SQL provider.
LEMMA CloudSQLKeeps ==
  ASSUME IInv, Account, CloudSQLWorker
  PROVE  IInv'
  BY SQLBranches, CreateSQLSecretKeeps, GetSQLInstanceKeeps, CreateSQLInstanceKeeps, AnnotateSQLKeeps,
     ModifySQLInstanceKeeps, SQLDeletionKeeps, SQLInstanceGoneKeeps, DeleteSQLSecretKeeps, NetworkGoneKeeps, Zenon
  DEF CloudSQLWorker
----------------------------------------------------------------------------
(* CreateRedis and DeleteRedis on GCP.                                     *)

\* Nothing but the finalizer matters at a call of CreateRedis.
LEMMA MemorystoreAllowed ==
  ASSUME NEW l \in HeldSteps \ {"config", "complete"}, prov' = "memorystore", cr'.fin
  PROVE  Allowed(l)'
  <1>1. l \notin DeleteSteps /\ l # "finalizer"
    BY RestSteps
  <1>2. prov' \notin S3Provs /\ prov' \notin KeyProvs
    BY DEF S3Provs, KeyProvs, PostgresProvs
  <1>3. HeldAt(l)' /\ GoneAt(l)'
    BY <1>1, Zenon DEF HeldAt, GoneAt, DeleteSteps
  <1>4. KeyAt(l)' /\ SettledAt(l)'
    BY <1>2 DEF KeyAt, SettledAt
  <1> QED
    BY <1>3, <1>4 DEF Allowed

\* A decision that leads on with the creation.
LEMMA MemorystoreOnward ==
  ASSUME IInv, Account, prov = "memorystore", pc \in HeldSteps,
         NEW l \in HeldSteps \ {"config", "complete"}, Branch(l)
  PROVE  IInv'
  <1>1. cr.fin /\ l \in Steps /\ l # "idle"
    BY Now, RestSteps DEF HeldAt
  <1>2. ASSUME UNCHANGED <<prov, cr, fresh, loc, inst, sec, objs, result>> PROVE Allowed(l)'
    BY <1>1, <1>2, MemorystoreAllowed, Zenon
  <1> QED
    BY <1>1, <1>2, OnwardKeeps, Zenon

\* Decisions from what was read of the Memorystore instance.
LEMMA RedisBranches ==
  ASSUME IInv, Account, RedisNetwork \/ RedisInstanceFound \/ RedisInstanceState
  PROVE  IInv'
  <1>1. /\ prov = "memorystore" /\ pc \in {"network", "decide", "found"}
        /\ \/ Branch("get") \/ Branch("progress") \/ Branch("found") \/ Branch("annotate")
           \/ Branch("modify")
    BY DEF RedisNetwork, RedisInstanceFound, RedisInstanceState, At
  <1> QED
    BY <1>1, HeldLabels, MemorystoreOnward, RestKeeps, RestSteps, Zenon

LEMMA GetRedisInstanceKeeps ==
  ASSUME IInv, Account, GetRedisInstance
  PROVE  IInv'
  <1>1. /\ prov = "memorystore" /\ pc = "get" /\ pc' = "decide" /\ loc' = [loc EXCEPT !.seen = View]
        /\ UNCHANGED <<prov, cr, fresh, calm, inst, sec, objs, result>>
    BY DEF GetRedisInstance, At, NotCR, world
  <1>2. cr.fin
    BY <1>1, Now, HeldLabels DEF HeldAt
  <1>3. loc' \in Locals /\ calm' \in BOOLEAN
    BY <1>1, Parts, ViewFacts
  <1>4. "decide" \in HeldSteps \ {"config", "complete"} /\ "decide" \in Steps
    BY HeldLabels, RestSteps
  <1>5. Allowed("decide")'
    BY <1>1, <1>2, <1>4, MemorystoreAllowed, Zenon
  <1> QED
    BY <1>1, <1>3, <1>4, <1>5, QuietKeeps, Zenon

\* A call of CreateRedis that changes the instance.
LEMMA RedisInstKeeps ==
  ASSUME IInv, Account, prov = "memorystore", pc \in HeldSteps \ {"complete"}, NotCR,
         UNCHANGED <<sec, objs, result>>, NEW l \in HeldSteps \ {"config", "complete"},
         Reply(l) \/ Goto(l), inst' \in Insts
  PROVE  IInv'
  <1>1. cr.fin /\ l \in Steps /\ l # "idle"
    BY Now, RestSteps DEF HeldAt
  <1>2. PasswordInv'
    BY DEF PasswordInv, PostgresProvs, NotCR
  <1>3. Allowed(l)'
    BY <1>1, MemorystoreAllowed DEF NotCR
  <1>4. Reply(l)
    BY DEF Reply
  <1> QED
    BY <1>1, <1>2, <1>3, <1>4, InstKeeps, Zenon

LEMMA CreateRedisInstanceKeeps ==
  ASSUME IInv, Account, CreateRedisInstance
  PROVE  IInv'
  <1>1. prov = "memorystore" /\ pc = "decide" /\ NotCR /\ UNCHANGED <<sec, objs, result>>
    BY DEF CreateRedisInstance, At
  <1>2. CASE inst' = [NoInstance EXCEPT !.state = "creating"] /\ Reply("annotate_new")
    <2>1. inst' \in Insts
      BY <1>2, ConstantFacts DEF Insts, InstStates
    <2>2. pc \in HeldSteps \ {"complete"} /\ "annotate_new" \in HeldSteps \ {"config", "complete"}
      BY <1>1, HeldLabels
    <2> QED
      BY <1>1, <1>2, <2>1, <2>2, RedisInstKeeps
  <1>3. CASE Goto("failed") /\ UNCHANGED inst
    BY <1>1, <1>3, RefusedKeeps, RestSteps DEF world
  <1> QED
    BY <1>2, <1>3 DEF CreateRedisInstance

LEMMA ChangeRedisKeeps ==
  ASSUME IInv, Account, UpdateRedisInstance \/ UpgradeRedisInstance
  PROVE  IInv'
  <1>1. /\ prov = "memorystore" /\ pc \in {"modify", "updates"} /\ NotCR /\ UNCHANGED <<sec, objs, result>>
    BY DEF UpdateRedisInstance, UpgradeRedisInstance, At
  <1>2. inst \in Insts /\ pc \in HeldSteps \ {"complete"}
        /\ {"updates", "publish"} \subseteq HeldSteps \ {"config", "complete"}
    BY <1>1, Parts, HeldLabels
  <1>3. CASE Goto("failed") /\ UNCHANGED inst
    BY <1>1, <1>3, RefusedKeeps, RestSteps DEF world
  <1>4. CASE (Goto("updates") \/ Goto("publish")) /\ UNCHANGED inst
    BY <1>1, <1>2, <1>4, RedisInstKeeps
  <1>5. ASSUME NEW t \in {"available", "modifying"},
               \/ inst' = [inst EXCEPT !.state = t, !.drift = FALSE]
               \/ inst' = [inst EXCEPT !.state = t, !.upd = FALSE],
               Reply("updates") \/ Reply("publish")
        PROVE  IInv'
    <2>1. inst' \in Insts
      BY <1>2, <1>5, Zenon DEF Insts, InstStates
    <2> QED
      BY <1>1, <1>2, <1>5, <2>1, RedisInstKeeps
  <1> QED
    BY <1>3, <1>4, <1>5 DEF UpdateRedisInstance, UpgradeRedisInstance

LEMMA AnnotateFoundRedisKeeps ==
  ASSUME IInv, Account, AnnotateFoundRedis
  PROVE  IInv'
  <1> DEFINE new == [cr EXCEPT !.anno = TRUE]
  <1>1. prov = "memorystore" /\ pc = "annotate" /\ Store(new, "found")
    BY DEF AnnotateFoundRedis, At
  <1>2. new \in CRs /\ new.life = cr.life /\ new.mw = cr.mw /\ new.fin = cr.fin /\ new.phase = cr.phase
    BY Parts, Zenon DEF CRs
  <1> HIDE DEF new
  <1>3. cr.fin
    BY <1>1, Now, HeldLabels DEF HeldAt
  <1>4. "found" \in HeldSteps \ {"config", "complete"} /\ "found" \in Steps
    BY HeldLabels, RestSteps
  <1>5. cr' = new /\ UNCHANGED prov => Allowed("found")'
    BY <1>1, <1>2, <1>3, <1>4, MemorystoreAllowed, Zenon
  <1> QED
    BY <1>1, <1>2, <1>4, <1>5, StoreKeeps

LEMMA AnnotateNewRedisKeeps ==
  ASSUME IInv, Account, AnnotateNewRedis
  PROVE  IInv'
  <1> DEFINE new == [cr EXCEPT !.anno = TRUE]
  <1>1. /\ prov = "memorystore" /\ pc = "annotate_new" /\ cr.life # "gone" /\ cr' = new
        /\ (Goto("progress") /\ fresh' = TRUE) \/ (Goto("failed") /\ fresh' = FALSE)
        /\ UNCHANGED <<prov, inst, sec, objs, result, calm>>
    BY DEF AnnotateNewRedis, At, world
  <1>2. new \in CRs /\ new.life = cr.life /\ new.mw = cr.mw /\ new.fin = cr.fin /\ new.phase = cr.phase
    BY Parts, Zenon DEF CRs
  <1> HIDE DEF new
  <1>3. TypeOK /\ HoldInv /\ ObjectsInv /\ PasswordInv /\ ResultInv
    BY Parts
  <1>4. PICK l \in StatusSteps : pc' = l /\ loc' \in Locals /\ fresh' \in BOOLEAN
    BY <1>1, GotoFacts, RestSteps, Zenon
  <1>5. l \in Steps /\ Allowed(l)'
    BY <1>4, RestSteps, RestNext, Zenon
  <1>6. owed' \in BOOLEAN /\ (owed' => inst'.drift)
    BY AccountFacts, Zenon
  <1>7. TypeOK'
    BY <1>1, <1>2, <1>3, <1>4, <1>5, <1>6, ZenonT(60) DEF TypeOK
  <1>8. HoldInv' /\ ObjectsInv' /\ PasswordInv' /\ ResultInv'
    BY <1>1, <1>2, <1>3 DEF HoldInv, ObjectsInv, PasswordInv, ResultInv, InstanceMade
  <1> QED
    BY <1>4, <1>5, <1>6, <1>7, <1>8, Build

LEMMA RedisDeletionKeeps ==
  ASSUME IInv, Account,
         NoNameToDelete \/ GetRedisForDelete \/ RedisAlreadyDeleting \/ DeleteRedisInstance
  PROVE  IInv'
  <1>1. CASE GetRedisForDelete
    BY <1>1, LookKeeps, Zenon DEF GetRedisForDelete, At
  <1>2. CASE NoNameToDelete \/ RedisAlreadyDeleting
    BY <1>2, RestKeeps, RestSteps DEF NoNameToDelete, RedisAlreadyDeleting
  <1>3. CASE DeleteRedisInstance
    <2>1. prov \in CloudProvs /\ pc = "d_decide" /\ NotCR /\ UNCHANGED <<sec, objs, result>>
      BY <1>3 DEF DeleteRedisInstance, At, CloudProvs
    <2>2. CASE Goto("failed") /\ UNCHANGED inst
      BY <2>1, <2>2, RefusedKeeps, RestSteps DEF world
    <2>3. CASE Reply("delprog") /\ inst.state = "available" /\ inst' = [inst EXCEPT !.state = "deleting"]
      BY <2>1, <2>3, AskedToGo
    <2> QED
      BY <1>3, <2>2, <2>3 DEF DeleteRedisInstance
  <1> QED
    BY <1>1, <1>2, <1>3

LEMMA RedisInstanceGoneKeeps ==
  ASSUME IInv, Account, RedisInstanceGone
  PROVE  IInv'
  <1>1. prov = "memorystore" /\ pc = "d_decide" /\ loc.seen.state = "absent" /\ Branch("d_network")
    BY DEF RedisInstanceGone, At
  <1>2. {"d_decide", "d_network"} \subseteq DeleteSteps
    BY DEF DeleteSteps
  <1>3. inst.state = "absent"
    BY <1>1, Now, Zenon DEF GoneAt
  <1>4. UNCHANGED <<prov, loc, inst, sec, objs>> => GoneAt("d_network")'
    BY <1>1, <1>3 DEF GoneAt
  <1> QED
    BY <1>1, <1>2, <1>4, DeleteOnward, Zenon

\* All calls of the Memorystore provider.
LEMMA MemorystoreKeeps ==
  ASSUME IInv, Account, MemorystoreWorker
  PROVE  IInv'
  BY RedisBranches, GetRedisInstanceKeeps, CreateRedisInstanceKeeps, ChangeRedisKeeps,
     AnnotateFoundRedisKeeps, AnnotateNewRedisKeeps, RedisDeletionKeeps, RedisInstanceGoneKeeps,
     NetworkGoneKeeps, Zenon
  DEF MemorystoreWorker
----------------------------------------------------------------------------
(* The deployments on OpenShift.                                           *)

\* A call that changes the other objects alone.
LEMMA ObjectsKeep ==
  ASSUME IInv, Account, NotCR, UNCHANGED <<inst, sec, result>>, pc \in HeldSteps \cup DeleteSteps,
         pc # "complete", NEW l \in Steps, Reply(l), l # "idle", objs' \in SUBSET Objects,
         objs' # {} => cr.fin, ObjectsInv', ResultInv', loc' = loc => Allowed(l)'
  PROVE  IInv'
  <1>1. /\ loc' \in Locals /\ pc' \in {l, "failed"}
        /\ pc' \notin {"idle"} \cup StatusSteps => loc' = loc
    BY ReplyFacts, Zenon
  <1>2. /\ UNCHANGED <<prov, cr, fresh>> /\ calm' \in BOOLEAN /\ sec' \in MaybePassword
        /\ inst' \in Insts /\ result' \in Results /\ HoldInv /\ PasswordInv
    BY Parts, Zenon DEF NotCR
  <1>3. InstanceMade' \/ objs' # {} \/ (prov = "cloudsql" /\ sec' # NoPassword) => cr.fin
    BY <1>2, Zenon DEF HoldInv, InstanceMade
  <1>4. PasswordInv'
    BY <1>2, Zenon DEF PasswordInv
  <1>5. PICK e \in Steps : pc' = e /\ Allowed(e)'
    <2>1. CASE pc' \in {"idle"} \cup StatusSteps
      BY <2>1, RestSteps, RestNext, Zenon
    <2>2. CASE pc' \notin {"idle"} \cup StatusSteps
      BY <1>1, <2>2, RestSteps, Zenon
    <2> QED
      BY <2>1, <2>2, Zenon
  <1> QED
    BY <1>1, <1>2, <1>3, <1>4, <1>5, EffectKeeps, Zenon

\* What matters at a call of ReconcilePostgres and CreateRedis.
LEMMA OpenShiftAllowed ==
  ASSUME NEW l \in HeldSteps \ {"complete"}, prov' \in OpenShiftProvs, cr'.fin,
         l = "config" => prov' = "oc_redis",
         prov' = "oc_postgres" =>
           /\ cr'.phase = "complete" => sec' # NoPassword
           /\ l \in {"deploy", "service", "get", "found", "publish"} => sec' # NoPassword
           /\ l \in {"found", "publish"} => loc'.pass = sec'
  PROVE  Allowed(l)'
  <1>1. l \notin DeleteSteps /\ l # "finalizer"
    BY RestSteps
  <1>2. prov' \notin S3Provs /\ prov' \notin CloudProvs /\ (prov' \in KeyProvs => prov' = "oc_postgres")
    BY Zenon DEF S3Provs, KeyProvs, PostgresProvs, CloudProvs, OpenShiftProvs
  <1>3. HeldAt(l)' /\ GoneAt(l)'
    BY <1>1, Zenon DEF HeldAt, GoneAt, DeleteSteps
  <1>4. KeyAt(l)' /\ SettledAt(l)'
    BY <1>2, Zenon DEF KeyAt, SettledAt, CloudProvs
  <1> QED
    BY <1>3, <1>4, Zenon DEF Allowed

\* What the worker knows before each of these calls.
LEMMA OpenShiftNow ==
  ASSUME IInv, prov \in OpenShiftProvs, pc \in HeldSteps
  PROVE  /\ cr.fin /\ (pc = "config" => prov = "oc_redis") /\ prov \notin CloudProvs /\ prov \notin S3Provs
         /\ prov = "oc_postgres" =>
              /\ cr.phase = "complete" => sec # NoPassword
              /\ pc \in {"deploy", "service", "get", "found", "publish"} => sec # NoPassword
              /\ pc \in {"found", "publish"} => loc.pass = sec
  <1>1. HeldAt(pc) /\ KeyAt(pc)
    BY Zenon DEF IInv, Allowed
  <1> QED
    BY <1>1, Zenon DEF HeldAt, KeyAt, KeyProvs, PostgresProvs, OpenShiftProvs, CloudProvs, S3Provs

\* An object of the creation is put in place.
LEMMA PutKeeps ==
  ASSUME IInv, Account, prov \in OpenShiftProvs, pc \in {"pvc", "config", "service"},
         NEW o \in {"pvc", "config", "service"}, o = "config" => prov = "oc_redis",
         NEW l \in {"secret", "config", "deploy", "get"}, l = "config" => prov = "oc_redis",
         prov = "oc_postgres" /\ pc # "service" => l = "secret", Put(o, l)
  PROVE  IInv'
  <1>1. objs' = objs \cup {o} /\ Reply(l) /\ NotCR /\ UNCHANGED <<inst, sec, result>>
    BY Zenon DEF Put
  <1>2. pc \in HeldSteps /\ pc # "complete" /\ l \in HeldSteps \ {"complete"} /\ l \in Steps /\ l # "idle"
    BY HeldLabels, RestSteps, Zenon
  <1>3. /\ cr.fin /\ prov \notin CloudProvs /\ prov \notin S3Provs
        /\ prov = "oc_postgres" =>
             /\ cr.phase = "complete" => sec # NoPassword
             /\ pc = "service" => sec # NoPassword
    BY <1>2, OpenShiftNow
  <1>4. ObjectsInv /\ ResultInv /\ objs \in SUBSET Objects
    BY Parts, Zenon
  <1>5. objs' \in SUBSET Objects
    BY <1>1, <1>4, Zenon DEF Objects
  <1>6. ObjectsInv'
    BY <1>1, <1>3, <1>4, Zenon DEF ObjectsInv, NotCR
  <1>7. ResultInv'
    BY <1>1, <1>3, <1>4, Zenon DEF ResultInv, NotCR
  <1>8. Allowed(l)'
    BY <1>1, <1>2, <1>3, OpenShiftAllowed, Zenon DEF NotCR
  <1> QED
    BY <1>1, <1>2, <1>3, <1>5, <1>6, <1>7, <1>8, ObjectsKeep, Zenon

\* The objects other than secret and deployment.
LEMMA OpenShiftObjectsKeep ==
  ASSUME IInv, Account, CreatePVC \/ CreateConfigMap \/ CreateService
  PROVE  IInv'
  <1>1. CASE CreatePVC
    <2>1. CASE prov = "oc_postgres"
      <3>1. prov \in OpenShiftProvs /\ pc = "pvc" /\ Put("pvc", "secret")
        BY <1>1, <2>1 DEF CreatePVC, OnOpenShift
      <3> QED
        BY <2>1, <3>1, PutKeeps
    <2>2. CASE prov # "oc_postgres"
      <3>1. prov \in OpenShiftProvs /\ pc = "pvc" /\ Put("pvc", "config") /\ prov = "oc_redis"
        BY <1>1, <2>2, Zenon DEF CreatePVC, OnOpenShift, OpenShiftProvs
      <3> QED
        BY <3>1, PutKeeps
    <2> QED
      BY <2>1, <2>2
  <1>2. CASE CreateConfigMap
    <2>1. prov \in OpenShiftProvs /\ pc = "config" /\ Put("config", "deploy")
      BY <1>2 DEF CreateConfigMap, OnOpenShift
    <2>2. prov = "oc_redis"
      BY <2>1, HeldLabels, OpenShiftNow
    <2> QED
      BY <2>1, <2>2, PutKeeps
  <1>3. CASE CreateService
    <2>1. prov \in OpenShiftProvs /\ pc = "service" /\ Put("service", "get")
      BY <1>3, Zenon DEF CreateService, OnOpenShift
    <2> QED
      BY <2>1, PutKeeps
  <1> QED
    BY <1>1, <1>2, <1>3

LEMMA CreateSecretKeeps ==
  ASSUME IInv, Account, CreateSecret
  PROVE  IInv'
  <1>1. /\ prov \in OpenShiftProvs /\ pc = "secret" /\ NotCR /\ UNCHANGED <<inst, objs, result>>
        /\ IF sec = NoPassword THEN sec' \in Passwords ELSE sec' = sec
        /\ Reply("deploy")
    BY DEF CreateSecret, OnOpenShift
  <1>2. /\ cr.fin /\ (prov = "oc_postgres" /\ cr.phase = "complete" => sec # NoPassword)
        /\ prov \notin CloudProvs /\ prov \notin S3Provs
    BY <1>1, HeldLabels, OpenShiftNow, Zenon
  <1>3. /\ ObjectsInv /\ PasswordInv /\ ResultInv /\ inst \in Insts /\ sec \in MaybePassword
        /\ objs \in SUBSET Objects /\ result \in Results /\ calm \in BOOLEAN
    BY Parts
  <1>4. sec' \in MaybePassword /\ sec' # NoPassword /\ (sec # NoPassword => sec' = sec)
    BY <1>1, <1>3, PasswordsAssumption, Zenon DEF MaybePassword
  <1>5. ObjectsInv' /\ PasswordInv'
    BY <1>1, <1>3, <1>4 DEF ObjectsInv, PasswordInv, NotCR
  <1>6. prov \in KeyProvs => prov = "oc_postgres"
    BY <1>2, Zenon DEF KeyProvs, PostgresProvs, CloudProvs
  <1>7. ResultInv'
    BY <1>1, <1>2, <1>3, <1>4, <1>6, Zenon DEF ResultInv, NotCR
  <1>8. "deploy" \in HeldSteps \ {"complete"} /\ "deploy" \in Steps /\ pc \in HeldSteps
    BY <1>1, HeldLabels, RestSteps, Zenon
  <1>9. Allowed("deploy")'
    BY <1>1, <1>2, <1>4, <1>8, OpenShiftAllowed, Zenon DEF NotCR
  <1>10. loc' \in Locals /\ (pc' = "deploy" \/ pc' = "failed")
    BY <1>1, <1>8, ReplyFacts, Zenon
  <1>11. "failed" \in Steps /\ Allowed("failed")'
    BY RestSteps, RestNext, Zenon
  <1>12. UNCHANGED <<prov, cr, fresh>> /\ calm' \in BOOLEAN
    BY <1>1, <1>3 DEF NotCR
  <1> QED
    BY <1>1, <1>2, <1>3, <1>4, <1>5, <1>7, <1>8, <1>9, <1>10, <1>11, <1>12, EffectKeeps, Zenon

LEMMA CreateDeploymentKeeps ==
  ASSUME IInv, Account, CreateDeployment
  PROVE  IInv'
  <1>1. /\ prov \in OpenShiftProvs /\ pc = "deploy" /\ NotCR /\ UNCHANGED <<sec, objs, result>>
        /\ Reply("service")
        /\ inst' = IF inst.state = "absent" THEN [inst EXCEPT !.state = "creating"] ELSE inst
    BY DEF CreateDeployment, OnOpenShift
  <1>2. /\ cr.fin
        /\ prov = "oc_postgres" =>
             sec # NoPassword /\ (cr.phase = "complete" => sec # NoPassword)
    BY <1>1, HeldLabels, OpenShiftNow
  <1>3. inst \in Insts /\ PasswordInv
    BY Parts
  <1>4. inst' \in Insts /\ (inst.state # "absent" => inst' = inst)
        /\ (inst.state = "absent" => inst'.state = "creating")
    BY <1>1, <1>3 DEF Insts, InstStates
  <1>5. PasswordInv'
    BY <1>1, <1>2, <1>3, <1>4 DEF PasswordInv, NotCR, OpenShiftProvs, PostgresProvs
  <1>6. "service" \in HeldSteps \ {"complete"} /\ "service" \in Steps /\ pc \in HeldSteps
    BY <1>1, HeldLabels, RestSteps
  <1>7. Allowed("service")'
    BY <1>1, <1>2, <1>6, OpenShiftAllowed DEF NotCR
  <1> QED
    BY <1>1, <1>2, <1>4, <1>5, <1>6, <1>7, InstKeeps, Zenon

LEMMA GetDeploymentKeeps ==
  ASSUME IInv, Account, GetDeployment
  PROVE  IInv'
  <1>1. prov \in OpenShiftProvs /\ pc = "get" /\ NotCR /\ UNCHANGED world
    BY DEF GetDeployment, OnOpenShift
  <1>2. CASE Goto("failed")
    BY <1>1, <1>2, RefusedKeeps, RestSteps
  <1>3. CASE pc' = "found" /\ loc' = [loc EXCEPT !.seen = View, !.pass = sec]
    <2>1. UNCHANGED <<prov, cr, fresh, calm, inst, sec, objs, result>>
      BY <1>1, Zenon DEF NotCR, world
    <2>2. cr.fin /\ (prov = "oc_postgres" => sec # NoPassword)
      BY <1>1, HeldLabels, OpenShiftNow, Zenon
    <2>3. loc \in Locals /\ inst \in Insts /\ sec \in MaybePassword /\ calm \in BOOLEAN
      BY Parts, Zenon
    <2>4. View \in Views
      BY <2>3 DEF View, Views, Insts
    <2> HIDE DEF View
    <2>5. loc' \in Locals /\ loc'.pass = sec
      BY <1>3, <2>3, <2>4, Zenon DEF Locals
    <2>6. "found" \in HeldSteps \ {"complete"} /\ "found" \in Steps
      BY HeldLabels, RestSteps, Zenon
    <2>7. Allowed("found")'
      BY <1>1, <2>1, <2>2, <2>5, <2>6, OpenShiftAllowed, Zenon
    <2> QED
      BY <1>3, <2>1, <2>3, <2>5, <2>6, <2>7, QuietKeeps, Zenon
  <1> QED
    BY <1>2, <1>3 DEF GetDeployment

LEMMA DeploymentStateKeeps ==
  ASSUME IInv, Account, DeploymentState
  PROVE  IInv'
  <1>1. prov \in OpenShiftProvs /\ pc = "found" /\ (Branch("publish") \/ Branch("progress"))
    BY Zenon DEF DeploymentState, OnOpenShift
  <1>2. cr.fin /\ (prov = "oc_postgres" => sec # NoPassword /\ loc.pass = sec)
    BY <1>1, HeldLabels, OpenShiftNow, Zenon
  <1>3. "publish" \in HeldSteps \ {"complete"} /\ "publish" \in Steps
    BY HeldLabels, RestSteps, Zenon
  <1>4. ASSUME UNCHANGED <<prov, cr, fresh, loc, inst, sec, objs, result>> PROVE Allowed("publish")'
    BY <1>1, <1>2, <1>3, <1>4, OpenShiftAllowed, Zenon
  <1> QED
    BY <1>1, <1>3, <1>4, OnwardKeeps, RestKeeps, RestSteps, Zenon

\* An object is deleted, and the deletion goes on to l.
LEMMA DropKeeps ==
  ASSUME IInv, Account, prov \in OpenShiftProvs, pc \in DeleteSteps, NEW o, NEW l \in DeleteSteps, Drop(o, l),
         l = "d_config" => prov # "oc_postgres", l = "d_secret" => prov # "oc_redis",
         objs' = objs \ {o} /\ UNCHANGED <<prov, inst>> => GoneAt(l)'
  PROVE  IInv'
  <1>1. objs' = objs \ {o} /\ Reply(l) /\ NotCR /\ UNCHANGED <<inst, sec, result>>
    BY Zenon DEF Drop
  <1>2. ObjectsInv /\ ResultInv /\ HoldInv /\ objs \in SUBSET Objects
    BY Parts, Zenon
  <1>3. cr.life = "deleting" /\ cr.fin
    BY <1>2, Now, Zenon DEF HeldAt, HoldInv
  <1>4. objs' \in SUBSET Objects /\ ObjectsInv' /\ ResultInv'
    BY <1>1, <1>2, Zenon DEF ObjectsInv, ResultInv, NotCR
  <1>5. Allowed(l)'
    BY <1>1, <1>3, DeleteAllowed, Zenon DEF NotCR
  <1>6. l \in Steps /\ l # "idle" /\ pc # "complete"
    BY RestSteps, HeldLabels
  <1> QED
    BY <1>1, <1>3, <1>4, <1>5, <1>6, ObjectsKeep, Zenon

LEMMA OpenShiftDeletionKeeps ==
  ASSUME IInv, Account, DeleteService \/ DeletePVC \/ DeleteConfigMap \/ DeleteSecret
  PROVE  IInv'
  <1>1. prov \in OpenShiftProvs
    BY DEF DeleteService, DeletePVC, DeleteConfigMap, DeleteSecret, OnOpenShift
  <1>2. /\ {"d_service", "d_pvc", "d_config", "d_secret", "d_deploy"} \subseteq DeleteSteps
        /\ prov = "oc_postgres" \/ prov = "oc_redis"
    BY <1>1 DEF DeleteSteps, OpenShiftProvs
  <1>3. ObjectsInv /\ objs \in SUBSET Objects
    BY Parts
  <1>4. CASE DeleteService
    <2>1. pc = "d_service" /\ Drop("service", "d_pvc")
      BY <1>4, Zenon DEF DeleteService, OnOpenShift
    <2>2. objs' = objs \ {"service"} => GoneAt("d_pvc")'
      BY DEF GoneAt
    <2> QED
      BY <1>1, <1>2, <2>1, <2>2, DropKeeps
  <1>5. CASE DeletePVC
    <2>1. pc = "d_pvc" /\ Drop("pvc", IF prov = "oc_postgres" THEN "d_secret" ELSE "d_config")
      BY <1>5, Zenon DEF DeletePVC, OnOpenShift
    <2>2. "service" \notin objs
      BY <2>1, Now, Zenon DEF GoneAt
    <2>3. objs' = objs \ {"pvc"} /\ UNCHANGED <<prov, inst>> =>
            GoneAt("d_secret")' /\ GoneAt("d_config")'
      BY <1>2, <2>2, Zenon DEF GoneAt
    <2>4. CASE prov = "oc_postgres"
      <3>1. Drop("pvc", "d_secret")
        BY <2>1, <2>4, Zenon
      <3> QED
        BY <1>1, <1>2, <2>1, <2>3, <2>4, <3>1, DropKeeps, Zenon
    <2>5. CASE prov = "oc_redis"
      <3>1. Drop("pvc", "d_config")
        BY <2>1, <2>5, Zenon
      <3> QED
        BY <1>1, <1>2, <2>1, <2>3, <2>5, <3>1, DropKeeps, Zenon
    <2> QED
      BY <1>2, <2>4, <2>5, Zenon
  <1>6. CASE DeleteConfigMap
    <2>1. pc = "d_config" /\ Drop("config", "d_deploy")
      BY <1>6, Zenon DEF DeleteConfigMap, OnOpenShift
    <2>2. "service" \notin objs /\ "pvc" \notin objs /\ prov # "oc_postgres"
      BY <2>1, Now, Zenon DEF GoneAt, HeldAt
    <2>3. objs' = objs \ {"config"} => objs' = {}
      BY <1>2, <1>3, <2>2, Zenon DEF ObjectsInv
    <2>4. objs' = objs \ {"config"} => GoneAt("d_deploy")'
      BY <2>3, Zenon DEF GoneAt
    <2> QED
      BY <1>1, <1>2, <2>1, <2>4, DropKeeps, Zenon
  <1>7. CASE DeleteSecret
    <2>1. pc = "d_secret" /\ Branch("d_deploy")
      BY <1>7, Zenon DEF DeleteSecret, OnOpenShift
    <2>2. "service" \notin objs /\ "pvc" \notin objs /\ prov # "oc_redis"
      BY <2>1, Now DEF GoneAt, HeldAt
    <2>3. objs = {}
      BY <1>2, <1>3, <2>2, Zenon DEF ObjectsInv
    <2>4. UNCHANGED objs => GoneAt("d_deploy")'
      BY <2>3, Zenon DEF GoneAt
    <2> QED
      BY <1>2, <2>1, <2>4, DeleteOnward
  <1> QED
    BY <1>4, <1>5, <1>6, <1>7, Zenon

LEMMA DeleteDeploymentKeeps ==
  ASSUME IInv, Account, DeleteDeployment
  PROVE  IInv'
  <1>1. /\ prov \in OpenShiftProvs /\ pc = "d_deploy" /\ inst' = NoInstance /\ Reply("d_fin") /\ NotCR
        /\ UNCHANGED <<sec, objs, result>>
    BY DEF DeleteDeployment, OnOpenShift
  <1>2. {"d_deploy", "d_fin"} \subseteq DeleteSteps /\ "d_fin" \in Steps
    BY Zenon DEF DeleteSteps, Steps
  <1>3. cr.life = "deleting" /\ objs = {}
    BY <1>1, <1>2, Now, Zenon DEF HeldAt, GoneAt
  <1>4. inst' \in Insts /\ inst'.state = "absent"
    BY <1>1, ConstantFacts
  <1>5. ~InstanceMade' /\ PasswordInv'
    BY <1>4, Zenon DEF InstanceMade, PasswordInv
  <1>6. GoneAt("d_fin")'
    BY <1>1, <1>3, <1>5, Zenon DEF GoneAt, NotCR, OpenShiftProvs
  <1>7. Allowed("d_fin")'
    BY <1>1, <1>2, <1>3, <1>6, DeleteAllowed, Zenon DEF NotCR
  <1> QED
    BY <1>1, <1>2, <1>4, <1>5, <1>7, InstKeeps, Zenon

\* All calls of the OpenShift providers.
LEMMA OpenShiftKeeps ==
  ASSUME IInv, Account, OpenShiftWorker
  PROVE  IInv'
  BY OpenShiftObjectsKeep, CreateSecretKeeps, CreateDeploymentKeeps, GetDeploymentKeeps,
     DeploymentStateKeeps, OpenShiftDeletionKeeps, DeleteDeploymentKeeps, Zenon
  DEF OpenShiftWorker
----------------------------------------------------------------------------
(* CreateStorage and DeleteStorage.                                        *)

\* What matters at a call of CreateStorage.
LEMMA S3Allowed ==
  ASSUME NEW l \in HeldSteps \ {"config", "complete"}, prov' \in S3Provs, cr'.fin,
         prov' # "s3_sts" =>
           /\ cr'.phase = "complete" => sec' # NoPassword
           /\ l \in {"tag", "publish"} => sec' # NoPassword /\ loc'.pass = sec',
         l \in {"credreq", "keys", "tag", "publish"} /\ inst'.state # "absent" => inst'.prot
  PROVE  Allowed(l)'
  <1>1. l \notin DeleteSteps /\ l # "finalizer"
    BY RestSteps
  <1>2. prov' \notin {"cloudsql", "oc_postgres", "oc_redis", "elasticache"}
        /\ (prov' \in KeyProvs => prov' # "s3_sts")
    BY Zenon DEF S3Provs, KeyProvs, PostgresProvs
  <1>3. HeldAt(l)' /\ GoneAt(l)'
    BY <1>1, <1>2, Zenon DEF HeldAt, GoneAt, DeleteSteps
  <1>4. KeyAt(l)' /\ SettledAt(l)'
    BY <1>2, Zenon DEF KeyAt, SettledAt
  <1> QED
    BY <1>3, <1>4, Zenon DEF Allowed

\* What the worker knows before each of these calls.
LEMMA S3Now ==
  ASSUME IInv, prov \in S3Provs, pc \in HeldSteps
  PROVE  /\ cr.fin /\ prov \notin PostgresProvs /\ prov \notin CloudProvs /\ prov \notin OpenShiftProvs
         /\ prov # "s3_sts" =>
              /\ cr.phase = "complete" => sec # NoPassword
              /\ pc \in {"tag", "publish"} => sec # NoPassword /\ loc.pass = sec
         /\ pc \in {"credreq", "keys", "tag", "publish"} /\ inst.state # "absent" => inst.prot
  <1>1. HeldAt(pc) /\ KeyAt(pc) /\ SettledAt(pc)
    BY DEF IInv, Allowed
  <1> QED
    BY <1>1, Zenon DEF HeldAt, KeyAt, SettledAt, KeyProvs, PostgresProvs, CloudProvs, OpenShiftProvs, S3Provs

LEMMA GetS3BucketsKeeps ==
  ASSUME IInv, Account, GetS3Buckets
  PROVE  IInv'
  <1>1. /\ prov \in S3Provs /\ pc = "get" /\ pc' = "decide" /\ loc' = [loc EXCEPT !.seen = View]
        /\ UNCHANGED <<prov, cr, fresh, calm, inst, sec, objs, result>>
    BY DEF GetS3Buckets, OnS3, NotCR, world
  <1>2. cr.fin /\ (prov # "s3_sts" /\ cr.phase = "complete" => sec # NoPassword)
    BY <1>1, HeldLabels, S3Now
  <1>3. loc' \in Locals /\ calm' \in BOOLEAN
    BY <1>1, Parts, ViewFacts, Zenon
  <1>4. "decide" \in HeldSteps \ {"config", "complete"} /\ "decide" \in Steps
    BY HeldLabels, RestSteps
  <1>5. Allowed("decide")'
    BY <1>1, <1>2, <1>4, S3Allowed, Zenon
  <1> QED
    BY <1>1, <1>3, <1>4, <1>5, QuietKeeps, Zenon

\* Decisions from the listing of the buckets.
LEMMA S3Branches ==
  ASSUME IInv, Account, BucketFound \/ BucketLost \/ TagBlobStorage
  PROVE  IInv'
  <1>1. CASE BucketLost
    BY <1>1, RestKeeps, RestSteps, Zenon DEF BucketLost
  <1>2. CASE BucketFound
    <2>1. prov \in S3Provs /\ pc = "decide" /\ Branch("settings")
      BY <1>2, Zenon DEF BucketFound, OnS3
    <2>2. cr.fin /\ (prov # "s3_sts" /\ cr.phase = "complete" => sec # NoPassword)
      BY <2>1, HeldLabels, S3Now, Zenon
    <2>3. "settings" \in HeldSteps \ {"config", "complete"} /\ "settings" \in Steps
      BY HeldLabels, RestSteps, Zenon
    <2>4. ASSUME UNCHANGED <<prov, cr, fresh, loc, inst, sec, objs, result>> PROVE Allowed("settings")'
      BY <2>1, <2>2, <2>3, <2>4, S3Allowed, Zenon
    <2> QED
      BY <2>1, <2>3, <2>4, OnwardKeeps, Zenon
  <1>3. CASE TagBlobStorage
    <2>1. prov \in S3Provs /\ pc = "tag" /\ (Branch("publish") \/ Branch("failed"))
      BY <1>3, Zenon DEF TagBlobStorage, OnS3
    <2>2. /\ cr.fin /\ (prov # "s3_sts" => sec # NoPassword /\ loc.pass = sec)
          /\ inst.state # "absent" => inst.prot
      BY <2>1, HeldLabels, S3Now, Zenon
    <2>3. "publish" \in HeldSteps \ {"config", "complete"} /\ "publish" \in Steps
      BY HeldLabels, RestSteps, Zenon
    <2>4. ASSUME UNCHANGED <<prov, cr, fresh, loc, inst, sec, objs, result>> PROVE Allowed("publish")'
      BY <2>1, <2>2, <2>3, <2>4, S3Allowed, Zenon
    <2> QED
      BY <2>1, <2>3, <2>4, OnwardKeeps, RestKeeps, RestSteps, Zenon
  <1> QED
    BY <1>1, <1>2, <1>3

LEMMA CreateBucketKeeps ==
  ASSUME IInv, Account, CreateBucket
  PROVE  IInv'
  <1>1. /\ prov \in S3Provs /\ pc = "decide" /\ inst' = [NoInstance EXCEPT !.state = "available"]
        /\ Reply("annotate_new") /\ NotCR /\ UNCHANGED <<sec, objs, result>>
    BY DEF CreateBucket, OnS3
  <1>2. /\ cr.fin /\ (prov # "s3_sts" /\ cr.phase = "complete" => sec # NoPassword)
        /\ prov \notin PostgresProvs
    BY <1>1, HeldLabels, S3Now, Zenon
  <1>3. inst' \in Insts
    BY <1>1, ConstantFacts DEF Insts, InstStates
  <1>4. PasswordInv'
    BY <1>1, <1>2 DEF PasswordInv, NotCR
  <1>5. "annotate_new" \in HeldSteps \ {"config", "complete"} /\ "annotate_new" \in Steps
        /\ pc \in HeldSteps
    BY <1>1, HeldLabels, RestSteps
  <1>6. Allowed("annotate_new")'
    BY <1>1, <1>2, <1>5, S3Allowed, Zenon DEF NotCR
  <1> QED
    BY <1>1, <1>2, <1>3, <1>4, <1>5, <1>6, InstKeeps, Zenon

LEMMA AnnotateBucketKeeps ==
  ASSUME IInv, Account, AnnotateBucket
  PROVE  IInv'
  <1> DEFINE new == [cr EXCEPT !.anno = TRUE]
  <1>1. prov \in S3Provs /\ pc = "annotate_new" /\ Store(new, "settings")
    BY Zenon DEF AnnotateBucket, OnS3
  <1>2. new \in CRs /\ new.life = cr.life /\ new.mw = cr.mw /\ new.fin = cr.fin /\ new.phase = cr.phase
    BY Parts, Zenon DEF CRs
  <1> HIDE DEF new
  <1>3. cr.fin /\ (prov # "s3_sts" /\ cr.phase = "complete" => sec # NoPassword)
    BY <1>1, HeldLabels, S3Now, Zenon
  <1>4. "settings" \in HeldSteps \ {"config", "complete"} /\ "settings" \in Steps
    BY HeldLabels, RestSteps
  <1>5. cr' = new /\ UNCHANGED <<prov, sec>> => Allowed("settings")'
    BY <1>1, <1>2, <1>3, <1>4, S3Allowed, Zenon
  <1> QED
    BY <1>1, <1>2, <1>4, <1>5, StoreKeeps, Zenon

LEMMA ReconcileS3BucketSettingsKeeps ==
  ASSUME IInv, Account, ReconcileS3BucketSettings
  PROVE  IInv'
  <1>1. prov \in S3Provs /\ pc = "settings" /\ NotCR /\ UNCHANGED <<sec, objs, result>>
    BY Zenon DEF ReconcileS3BucketSettings, OnS3
  <1>2. CASE Goto("failed") /\ UNCHANGED inst
    BY <1>1, <1>2, RefusedKeeps, RestSteps, Zenon DEF world
  <1>3. CASE /\ inst' = [inst EXCEPT !.prot = TRUE]
             /\ Reply(IF prov = "s3_sts" THEN "tag" ELSE "credreq")
    <2>1. /\ cr.fin /\ (prov # "s3_sts" /\ cr.phase = "complete" => sec # NoPassword)
          /\ prov \notin PostgresProvs
      BY <1>1, HeldLabels, S3Now
    <2>2. inst' \in Insts /\ inst'.prot
      BY <1>3, Parts, Zenon DEF Insts
    <2>3. PasswordInv'
      BY <1>1, <2>1, Zenon DEF PasswordInv, NotCR
    <2>4. /\ {"tag", "credreq"} \subseteq HeldSteps \ {"config", "complete"}
          /\ {"tag", "credreq"} \subseteq Steps /\ pc \in HeldSteps
      BY <1>1, HeldLabels, RestSteps, Zenon
    <2>5. CASE prov = "s3_sts"
      <3>1. Reply("tag")
        BY <1>3, <2>5, Zenon
      <3>2. Allowed("tag")'
        BY <1>1, <2>1, <2>2, <2>4, <2>5, S3Allowed, Zenon DEF NotCR
      <3> QED
        BY <1>1, <2>1, <2>2, <2>3, <2>4, <3>1, <3>2, InstKeeps, Zenon
    <2>6. CASE prov # "s3_sts"
      <3>1. Reply("credreq")
        BY <1>3, <2>6, Zenon
      <3>2. Allowed("credreq")'
        BY <1>1, <2>1, <2>2, <2>4, S3Allowed, Zenon DEF NotCR
      <3> QED
        BY <1>1, <2>1, <2>2, <2>3, <2>4, <3>1, <3>2, InstKeeps, Zenon
    <2> QED
      BY <2>5, <2>6, Zenon
  <1> QED
    BY <1>2, <1>3 DEF ReconcileS3BucketSettings

LEMMA ReconcileCredentialRequestKeeps ==
  ASSUME IInv, Account, ReconcileCredentialRequest
  PROVE  IInv'
  <1>1. /\ prov \in S3Provs /\ pc = "credreq" /\ objs' = objs \cup {"credreq"} /\ Reply("keys")
        /\ NotCR /\ UNCHANGED <<inst, sec, result>>
    BY Zenon DEF ReconcileCredentialRequest, OnS3
  <1>2. /\ cr.fin /\ (prov # "s3_sts" /\ cr.phase = "complete" => sec # NoPassword)
        /\ prov \notin CloudProvs /\ prov \notin OpenShiftProvs
        /\ inst.state # "absent" => inst.prot
    BY <1>1, HeldLabels, S3Now, Zenon
  <1>3. ObjectsInv /\ ResultInv /\ objs \in SUBSET Objects
    BY Parts
  <1>4. objs' \in SUBSET Objects
    BY <1>1, <1>3, Zenon DEF Objects
  <1>5. ObjectsInv'
    BY <1>1, <1>2, <1>3, Zenon DEF ObjectsInv, NotCR, OpenShiftProvs
  <1>6. prov \in KeyProvs => prov # "s3_sts"
    BY Zenon DEF KeyProvs, PostgresProvs
  <1>7. ResultInv'
    BY <1>1, <1>2, <1>3, <1>6, Zenon DEF ResultInv, NotCR
  <1>8. "keys" \in HeldSteps \ {"config", "complete"} /\ "keys" \in Steps /\ pc \in HeldSteps
    BY <1>1, HeldLabels, RestSteps, Zenon
  <1>9. Allowed("keys")'
    BY <1>1, <1>2, <1>8, S3Allowed, Zenon DEF NotCR
  <1> QED
    BY <1>1, <1>2, <1>4, <1>5, <1>7, <1>8, <1>9, ObjectsKeep, Zenon

LEMMA ReconcileAWSCredentialsKeeps ==
  ASSUME IInv, Account, ReconcileAWSCredentials
  PROVE  IInv'
  <1>1. /\ prov \in S3Provs /\ pc = "keys" /\ pc' = "tag" /\ loc' = [loc EXCEPT !.pass = sec]
        /\ sec # NoPassword /\ UNCHANGED <<prov, cr, fresh, calm, inst, sec, objs, result>>
    BY DEF ReconcileAWSCredentials, OnS3, NotCR, world
  <1>2. cr.fin /\ (inst.state # "absent" => inst.prot)
    BY <1>1, HeldLabels, S3Now
  <1>3. loc' \in Locals /\ calm' \in BOOLEAN /\ loc'.pass = sec
    BY <1>1, Parts, Zenon DEF Locals
  <1>4. "tag" \in HeldSteps \ {"config", "complete"} /\ "tag" \in Steps
    BY HeldLabels, RestSteps
  <1>5. Allowed("tag")'
    BY <1>1, <1>2, <1>3, <1>4, S3Allowed, Zenon
  <1> QED
    BY <1>1, <1>3, <1>4, <1>5, QuietKeeps, Zenon

\* What the worker knows during the deletion of a bucket.
LEMMA S3DeleteNow ==
  ASSUME IInv, prov \in S3Provs, pc \in DeleteSteps
  PROVE  /\ cr.life = "deleting" /\ cr.fin /\ prov \notin PostgresProvs /\ prov \notin CloudProvs
         /\ prov \notin OpenShiftProvs /\ pc # "complete" /\ prov # "cloudsql" /\ prov # "oc_redis"
  BY Parts, Now, RestSteps, HeldLabels, Zenon
  DEF HeldAt, HoldInv, PostgresProvs, CloudProvs, OpenShiftProvs, S3Provs

\* The labels of DeleteStorage.
LEMMA S3DeleteLabels ==
  /\ {"d_get", "d_size", "d_empty", "d_bucket", "d_creds", "d_fin"} \subseteq DeleteSteps
  /\ {"d_get", "d_size", "d_empty", "d_bucket", "d_creds", "d_fin"} \subseteq Steps
  BY DEF DeleteSteps, Steps

LEMMA GetBucketForDeleteKeeps ==
  ASSUME IInv, Account, GetBucketForDelete
  PROVE  IInv'
  <1>1. /\ prov \in S3Provs /\ pc = "d_get" /\ loc' = [loc EXCEPT !.seen = View]
        /\ pc' = IF inst.state = "absent" THEN "d_creds" ELSE "d_size"
        /\ UNCHANGED <<prov, cr, fresh, calm, inst, sec, objs, result>>
    BY DEF GetBucketForDelete, OnS3, NotCR, world
  <1>2. cr.life = "deleting"
    BY <1>1, S3DeleteNow, S3DeleteLabels
  <1>3. loc' \in Locals /\ calm' \in BOOLEAN
    BY <1>1, Parts, ViewFacts
  <1>4. CASE inst.state = "absent"
    <2>1. GoneAt("d_creds")'
      BY <1>1, <1>4 DEF GoneAt, InstanceMade
    <2>2. Allowed("d_creds")'
      BY <1>1, <1>2, <2>1, DeleteAllowed, S3DeleteLabels
    <2>3. pc' = "d_creds"
      BY <1>1, <1>4
    <2> QED
      BY <1>1, <1>3, <2>2, <2>3, S3DeleteLabels, QuietKeeps, Zenon
  <1>5. CASE inst.state # "absent"
    <2>1. GoneAt("d_size")'
      BY DEF GoneAt
    <2>2. Allowed("d_size")'
      BY <1>1, <1>2, <2>1, DeleteAllowed, S3DeleteLabels, Zenon
    <2>3. pc' = "d_size"
      BY <1>1, <1>5, Zenon
    <2> QED
      BY <1>1, <1>3, <2>2, <2>3, S3DeleteLabels, QuietKeeps, Zenon
  <1> QED
    BY <1>4, <1>5

LEMMA GetBucketSizeKeeps ==
  ASSUME IInv, Account, GetBucketSize
  PROVE  IInv'
  <1> DEFINE l == CASE inst.state = "absent" -> "failed"
                    [] inst.state # "absent" /\ (prov = "s3_force" \/ ~inst.full) -> "d_empty"
                    [] OTHER -> "d_creds"
  <1>1. prov \in S3Provs /\ pc = "d_size" /\ Branch(l)
    BY Zenon DEF GetBucketSize, OnS3
  <1>2. l = "failed" \/ l = "d_empty" \/ (l = "d_creds" /\ ~(prov = "s3_force" \/ ~inst.full))
    <2>1. CASE inst.state = "absent"
      BY <2>1, Zenon
    <2>2. CASE inst.state # "absent" /\ (prov = "s3_force" \/ ~inst.full)
      BY <2>2, Zenon
    <2>3. CASE inst.state # "absent" /\ ~(prov = "s3_force" \/ ~inst.full)
      BY <2>3, Zenon
    <2> QED
      BY <2>1, <2>2, <2>3
  <1> HIDE DEF l
  <1>3. \/ Branch("failed") \/ Branch("d_empty")
        \/ Branch("d_creds") /\ ~(prov = "s3_force" \/ ~inst.full)
    BY <1>1, <1>2, Zenon
  <1>4. CASE Branch("failed")
    BY <1>4, RestKeeps, RestSteps, Zenon
  <1>5. CASE Branch("d_empty")
    <2>1. GoneAt("d_empty")'
      BY Zenon DEF GoneAt
    <2> QED
      BY <1>1, <1>5, <2>1, S3DeleteLabels, DeleteOnward, Zenon
  <1>6. CASE Branch("d_creds") /\ ~(prov = "s3_force" \/ ~inst.full)
    <2>1. UNCHANGED <<prov, loc, inst, sec, objs>> => GoneAt("d_creds")'
      BY <1>6 DEF GoneAt, InstanceMade
    <2> QED
      BY <1>1, <1>6, <2>1, S3DeleteLabels, DeleteOnward, Zenon
  <1> QED
    BY <1>3, <1>4, <1>5, <1>6, Zenon

LEMMA EmptyBucketKeeps ==
  ASSUME IInv, Account, EmptyBucket
  PROVE  IInv'
  <1>1. prov \in S3Provs /\ pc = "d_empty" /\ NotCR /\ UNCHANGED <<sec, objs, result>>
    BY Zenon DEF EmptyBucket, OnS3
  <1>2. CASE Goto("failed") /\ UNCHANGED inst
    BY <1>1, <1>2, RefusedKeeps, RestSteps, Zenon DEF world
  <1>3. CASE inst' = [inst EXCEPT !.full = FALSE] /\ Reply("d_bucket")
    <2>1. cr.life = "deleting" /\ cr.fin /\ prov \notin PostgresProvs /\ pc # "complete"
      BY <1>1, S3DeleteNow, S3DeleteLabels, Zenon
    <2>2. inst' \in Insts
      BY <1>3, Parts, Zenon DEF Insts
    <2>3. PasswordInv'
      BY <1>1, <2>1, Zenon DEF PasswordInv, NotCR
    <2>4. GoneAt("d_bucket")'
      BY Zenon DEF GoneAt
    <2>5. Allowed("d_bucket")'
      BY <1>1, <2>1, <2>4, DeleteAllowed, S3DeleteLabels, Zenon DEF NotCR
    <2> QED
      BY <1>1, <1>3, <2>1, <2>2, <2>3, <2>5, InstKeeps, S3DeleteLabels, Zenon
  <1> QED
    BY <1>2, <1>3 DEF EmptyBucket

LEMMA DeleteBucketKeeps ==
  ASSUME IInv, Account, DeleteBucket
  PROVE  IInv'
  <1>1. prov \in S3Provs /\ pc = "d_bucket" /\ NotCR /\ UNCHANGED <<sec, objs, result>>
    BY Zenon DEF DeleteBucket, OnS3
  <1>2. CASE Goto("failed") /\ UNCHANGED inst
    BY <1>1, <1>2, RefusedKeeps, RestSteps, Zenon DEF world
  <1>3. CASE inst' = NoInstance /\ Reply("d_creds")
    <2>1. cr.life = "deleting" /\ cr.fin /\ prov \notin PostgresProvs /\ pc # "complete"
      BY <1>1, S3DeleteNow, S3DeleteLabels, Zenon
    <2>2. inst' \in Insts /\ inst'.state = "absent"
      BY <1>3, ConstantFacts
    <2>3. PasswordInv'
      BY <2>2, Zenon DEF PasswordInv
    <2>4. GoneAt("d_creds")'
      BY <2>2, Zenon DEF GoneAt, InstanceMade
    <2>5. Allowed("d_creds")'
      BY <1>1, <2>1, <2>4, DeleteAllowed, S3DeleteLabels, Zenon DEF NotCR
    <2> QED
      BY <1>1, <1>3, <2>1, <2>2, <2>3, <2>5, InstKeeps, S3DeleteLabels, Zenon
  <1> QED
    BY <1>2, <1>3, Zenon DEF DeleteBucket

LEMMA RemoveCredsKeeps ==
  ASSUME IInv, Account, RemoveCreds
  PROVE  IInv'
  <1>1. /\ prov \in S3Provs /\ pc = "d_creds" /\ objs' = objs \ {"credreq"} /\ sec' = NoPassword
        /\ Reply("d_fin") /\ NotCR /\ UNCHANGED <<inst, result>>
    BY Zenon DEF RemoveCreds, OnS3
  <1>2. /\ cr.life = "deleting" /\ cr.fin /\ prov \notin PostgresProvs /\ prov \notin CloudProvs
        /\ prov \notin OpenShiftProvs /\ pc # "complete" /\ prov # "cloudsql"
    BY <1>1, S3DeleteNow, S3DeleteLabels, Zenon
  <1>3. ~InstanceMade
    BY <1>1, Now, Zenon DEF GoneAt
  <1>4. /\ ObjectsInv /\ ResultInv /\ objs \in SUBSET Objects /\ inst \in Insts /\ result \in Results
        /\ calm \in BOOLEAN
    BY Parts, Zenon
  <1>5. objs' = {} /\ sec' \in MaybePassword
    BY <1>1, <1>4, Zenon DEF ObjectsInv, MaybePassword
  <1>6. ObjectsInv' /\ PasswordInv'
    BY <1>1, <1>2, <1>5, Zenon DEF ObjectsInv, PasswordInv, NotCR
  <1>7. ResultInv'
    BY <1>1, <1>2, <1>4, <1>5, Zenon DEF ResultInv, NotCR
  <1>8. Allowed("d_fin")'
    <2>1. GoneAt("d_fin")'
      BY <1>1, <1>2, <1>3, <1>5, Zenon DEF GoneAt, NotCR, InstanceMade
    <2> QED
      BY <1>1, <1>2, <2>1, DeleteAllowed, S3DeleteLabels, Zenon DEF NotCR
  <1>9. loc' \in Locals /\ (pc' = "d_fin" \/ pc' = "failed")
    BY <1>1, <1>2, S3DeleteLabels, ReplyFacts, Zenon
  <1>10. "failed" \in Steps /\ Allowed("failed")' /\ "d_fin" \in Steps
    BY RestSteps, RestNext, S3DeleteLabels, Zenon
  <1>11. UNCHANGED <<prov, cr, fresh>> /\ calm' \in BOOLEAN /\ inst' \in Insts /\ result' \in Results
    BY <1>1, <1>4, Zenon DEF NotCR
  <1> QED
    BY <1>2, <1>5, <1>6, <1>7, <1>8, <1>9, <1>10, <1>11, EffectKeeps, Zenon

\* All calls of the S3 provider.
LEMMA S3Keeps ==
  ASSUME IInv, Account, S3Worker
  PROVE  IInv'
  BY GetS3BucketsKeeps, S3Branches, CreateBucketKeeps, AnnotateBucketKeeps, ReconcileS3BucketSettingsKeeps,
     ReconcileCredentialRequestKeeps, ReconcileAWSCredentialsKeeps, GetBucketForDeleteKeeps,
     GetBucketSizeKeeps, EmptyBucketKeeps, DeleteBucketKeeps, RemoveCredsKeeps, ZenonT(60)
  DEF S3Worker
----------------------------------------------------------------------------
(* The controller.                                                         *)

\* Where Reconcile starts.
LEMMA ReconcileStart ==
  ASSUME IInv, Reconcile
  PROVE  \/ pc' \in DeleteSteps \cap {"d_service", "d_get"} /\ cr.life = "deleting"
         \/ pc' \in {"paused", "failed"}
         \/ pc' = "finalizer" /\ cr.life = "live"
  <1>1. FirstDeleteStep \in DeleteSteps \cap {"d_service", "d_get"}
    BY DEF FirstDeleteStep, DeleteSteps
  <1> DEFINE l == CASE cr.life = "deleting" -> FirstDeleteStep
                    [] cr.life = "live" /\ cr.skip -> "paused"
                    [] OTHER -> "finalizer"
  <1>2. cr.life # "gone" /\ (pc' = l \/ pc' = "failed")
    BY Zenon DEF Reconcile
  <1>3. cr.life = "deleting" \/ cr.life = "live"
    BY <1>2, Parts DEF CRs
  <1>4. CASE cr.life = "deleting"
    <2>1. cr.life # "live"
      BY <1>4
    <2>2. l = FirstDeleteStep
      BY <1>4, <2>1, Zenon
    <2> HIDE DEF l
    <2> QED
      BY <1>1, <1>2, <1>4, <2>2, Zenon
  <1>5. CASE cr.life = "live"
    <2>1. cr.life # "deleting"
      BY <1>5
    <2>2. l = "paused" \/ l = "finalizer"
      <3>1. CASE cr.skip
        BY <1>5, <2>1, <3>1, Zenon
      <3>2. CASE ~cr.skip
        BY <1>5, <2>1, <3>2, Zenon
      <3> QED
        BY <3>1, <3>2
    <2> HIDE DEF l
    <2> QED
      BY <1>2, <1>5, <2>2
  <1> QED
    BY <1>3, <1>4, <1>5

LEMMA ReconcileKeeps ==
  ASSUME IInv, Account, Reconcile
  PROVE  IInv'
  <1>1. /\ fresh' = TRUE /\ cr.life # "gone" /\ loc' = [NoLoc EXCEPT !.anno = cr.anno]
        /\ UNCHANGED <<prov, cr, inst, sec, objs, result, calm>>
    BY DEF Reconcile, world
  <1>2. TypeOK /\ HoldInv /\ ObjectsInv /\ PasswordInv /\ ResultInv /\ cr.anno \in BOOLEAN
    BY Parts DEF CRs
  <1>3. loc' \in Locals
    BY <1>1, <1>2, ConstantFacts DEF Locals
  <1>4. PICK l \in Steps : pc' = l /\ Allowed(l)'
    <2>1. CASE pc' \in DeleteSteps \cap {"d_service", "d_get"} /\ cr.life = "deleting"
      <3>1. PICK l \in DeleteSteps \cap {"d_service", "d_get"} : pc' = l
        BY <2>1, Zenon
      <3>2. GoneAt(l)'
        BY <3>1 DEF GoneAt
      <3> QED
        BY <1>1, <2>1, <3>1, <3>2, DeleteAllowed, RestSteps, Zenon
    <2>2. CASE pc' \in {"paused", "failed"}
      BY <2>2, RestNext, RestSteps, Zenon
    <2>3. CASE pc' = "finalizer" /\ cr.life = "live"
      <3>1. Allowed("finalizer")'
        BY <1>1, <2>3, Zenon DEF Allowed, HeldAt, GoneAt, KeyAt, SettledAt, HeldSteps, CreateSteps, DeleteSteps
      <3> QED
        BY <2>3, <3>1, RestSteps, Zenon
    <2> QED
      BY <2>1, <2>2, <2>3, ReconcileStart, Zenon
  <1>5. owed' \in BOOLEAN /\ (owed' => inst'.drift)
    BY AccountFacts
  <1>6. TypeOK'
    BY <1>1, <1>2, <1>3, <1>4, <1>5, Zenon DEF TypeOK
  <1>7. HoldInv' /\ ObjectsInv' /\ PasswordInv' /\ ResultInv'
    BY <1>1, <1>2, Zenon DEF HoldInv, ObjectsInv, PasswordInv, ResultInv, InstanceMade
  <1> QED
    BY <1>4, <1>5, <1>6, <1>7, Build, Zenon

\* The call that each provider starts with.
LEMMA AfterFinalizerFacts ==
  ASSUME prov \in AllProvs
  PROVE  \/ prov = "elasticache" /\ AfterFinalizer = "window"
         \/ prov \in S3Provs /\ AfterFinalizer = "get"
         \/ prov \in {"cloudsql", "memorystore"} /\ AfterFinalizer = "network"
         \/ prov \in OpenShiftProvs /\ AfterFinalizer = "pvc"
  <1>1. \/ /\ prov = "elasticache" /\ prov \notin S3Provs /\ prov \notin {"cloudsql", "memorystore"}
        \/ /\ prov # "elasticache" /\ prov \in S3Provs /\ prov \notin {"cloudsql", "memorystore"}
        \/ /\ prov # "elasticache" /\ prov \notin S3Provs /\ prov \in {"cloudsql", "memorystore"}
        \/ /\ prov # "elasticache" /\ prov \notin S3Provs /\ prov \notin {"cloudsql", "memorystore"}
           /\ prov \in OpenShiftProvs
    BY DEF AllProvs, S3Provs, OpenShiftProvs
  <1>2. CASE prov = "elasticache" /\ prov \notin S3Provs /\ prov \notin {"cloudsql", "memorystore"}
    BY <1>2, Zenon DEF AfterFinalizer
  <1>3. CASE prov # "elasticache" /\ prov \in S3Provs /\ prov \notin {"cloudsql", "memorystore"}
    BY <1>3, Zenon DEF AfterFinalizer
  <1>4. CASE prov # "elasticache" /\ prov \notin S3Provs /\ prov \in {"cloudsql", "memorystore"}
    BY <1>4, Zenon DEF AfterFinalizer
  <1>5. CASE /\ prov # "elasticache" /\ prov \notin S3Provs /\ prov \notin {"cloudsql", "memorystore"}
             /\ prov \in OpenShiftProvs
    BY <1>5, Zenon DEF AfterFinalizer
  <1> QED
    BY <1>1, <1>2, <1>3, <1>4, <1>5, Zenon

LEMMA CreateFinalizerKeeps ==
  ASSUME IInv, Account, CreateFinalizer
  PROVE  IInv'
  <1> DEFINE new == [cr EXCEPT !.fin = TRUE]
  <1>1. pc = "finalizer" /\ Store(new, AfterFinalizer)
    BY DEF CreateFinalizer
  <1>2. new \in CRs /\ new.life = cr.life /\ new.mw = cr.mw /\ new.fin = TRUE /\ new.phase = cr.phase
    BY Parts, Zenon DEF CRs
  <1> HIDE DEF new
  <1>3. fresh
    BY <1>1, Zenon DEF Store
  <1>4. cr.life = "live" /\ ResultInv /\ prov \in AllProvs
    BY <1>1, <1>3, Now, Parts, Zenon DEF HeldAt
  <1>5. prov \in KeyProvs /\ new.phase = "complete" => sec # NoPassword
    BY <1>2, <1>4, Zenon DEF ResultInv
  <1>6. /\ {"window", "get", "network", "pvc"} \subseteq HeldSteps \ {"config", "complete"}
        /\ {"window", "get", "network", "pvc"} \subseteq Steps
    BY HeldLabels, RestSteps, Zenon
  <1>7. ASSUME prov = "elasticache", Store(new, "window") PROVE IInv'
    <2>1. cr' = new /\ UNCHANGED prov => Allowed("window")'
      BY <1>2, <1>6, <1>7, ElastiCacheAllowed, Zenon
    <2> QED
      BY <1>2, <1>6, <1>7, <2>1, StoreKeeps, Zenon
  <1>8. ASSUME prov \in S3Provs, Store(new, "get") PROVE IInv'
    <2>1. prov # "s3_sts" => prov \in KeyProvs
      BY <1>8, Zenon DEF KeyProvs
    <2>2. cr' = new /\ UNCHANGED <<prov, sec>> => Allowed("get")'
      BY <1>2, <1>5, <1>6, <1>8, <2>1, S3Allowed, Zenon
    <2> QED
      BY <1>2, <1>6, <1>8, <2>2, StoreKeeps, Zenon
  <1>9. ASSUME prov \in {"cloudsql", "memorystore"}, Store(new, "network") PROVE IInv'
    <2>1. prov = "cloudsql" => prov \in KeyProvs
      BY Zenon DEF KeyProvs, PostgresProvs
    <2>2. cr' = new /\ UNCHANGED <<prov, sec>> => Allowed("network")'
      BY <1>2, <1>5, <1>6, <1>9, <2>1, CloudSQLAllowed, MemorystoreAllowed, Zenon
    <2> QED
      BY <1>2, <1>6, <1>9, <2>2, StoreKeeps, Zenon
  <1>10. ASSUME prov \in OpenShiftProvs, Store(new, "pvc") PROVE IInv'
    <2>1. prov = "oc_postgres" => prov \in KeyProvs
      BY Zenon DEF KeyProvs, PostgresProvs
    <2>2. cr' = new /\ UNCHANGED <<prov, sec>> => Allowed("pvc")'
      BY <1>2, <1>5, <1>6, <1>10, <2>1, OpenShiftAllowed, Zenon
    <2> QED
      BY <1>2, <1>6, <1>10, <2>2, StoreKeeps, Zenon
  <1>11. \/ prov = "elasticache" /\ Store(new, "window")
         \/ prov \in S3Provs /\ Store(new, "get")
         \/ prov \in {"cloudsql", "memorystore"} /\ Store(new, "network")
         \/ prov \in OpenShiftProvs /\ Store(new, "pvc")
    BY <1>1, <1>4, AfterFinalizerFacts, Zenon
  <1> QED
    BY <1>7, <1>8, <1>9, <1>10, <1>11, Zenon

LEMMA ReconcileResultSecretKeeps ==
  ASSUME IInv, Account, ReconcileResultSecret
  PROVE  IInv'
  <1>1. pc = "publish" /\ NotCR /\ UNCHANGED <<inst, sec, objs>>
    BY Zenon DEF ReconcileResultSecret
  <1>2. CASE Goto("failed") /\ UNCHANGED result
    BY <1>1, <1>2, RefusedKeeps, RestSteps, Zenon DEF world
  <1>3. CASE result' = [life |-> "owned", pw |-> loc.pass] /\ Reply("complete")
    <2>1. HeldAt("publish") /\ KeyAt("publish") /\ SettledAt("publish") /\ "publish" \in HeldSteps
      BY <1>1, Now, HeldLabels, Zenon
    <2>2. cr.fin /\ (prov \in KeyProvs => sec # NoPassword /\ loc.pass = sec)
      BY <2>1, Zenon DEF HeldAt, KeyAt, KeyProvs, PostgresProvs
    <2>3. /\ HoldInv /\ ObjectsInv /\ PasswordInv /\ inst \in Insts /\ sec \in MaybePassword
          /\ objs \in SUBSET Objects /\ loc \in Locals /\ calm \in BOOLEAN
      BY Parts, Zenon
    <2>4. result' \in Results /\ result'.life = "owned" /\ result'.pw = loc.pass
      BY <1>3, <2>3, Zenon DEF Results, Locals
    <2>5. ResultInv'
      BY <1>1, <2>2, <2>4, Zenon DEF ResultInv, NotCR
    <2>6. ObjectsInv' /\ PasswordInv'
      BY <1>1, <2>3, Zenon DEF ObjectsInv, PasswordInv, NotCR
    <2>7. loc' \in Locals /\ (pc' = "complete" \/ pc' = "failed")
          /\ (pc' = "complete" => loc' = loc)
      BY <1>1, <1>3, <2>1, ReplyFacts DEF StatusSteps
    <2>8. "complete" \in HeldSteps /\ "complete" \in Steps /\ "complete" \notin DeleteSteps
          /\ "failed" \in Steps /\ Allowed("failed")'
      BY HeldLabels, RestSteps, RestNext, Zenon
    <2>9. Allowed("complete")'
      <3>1. HeldAt("complete")' /\ GoneAt("complete")'
        BY <1>1, <2>2, <2>8, Zenon DEF HeldAt, GoneAt, NotCR
      <3>2. KeyAt("complete")'
        BY <1>1, <2>2, <2>4, Zenon DEF KeyAt, NotCR
      <3>3. SettledAt("complete")'
        BY <1>1, <2>1, Zenon DEF SettledAt, NotCR
      <3> QED
        BY <3>1, <3>2, <3>3, Zenon DEF Allowed
    <2>10. UNCHANGED <<prov, cr, fresh>> /\ calm' \in BOOLEAN /\ inst' \in Insts
           /\ sec' \in MaybePassword /\ objs' \in SUBSET Objects
      BY <1>1, <2>3 DEF NotCR
    <2> QED
      BY <2>2, <2>4, <2>5, <2>6, <2>7, <2>8, <2>9, <2>10, EffectKeeps, Zenon
  <1> QED
    BY <1>2, <1>3, Zenon DEF ReconcileResultSecret

\* The status updates that end a reconcile.
LEMMA StatusKeeps ==
  ASSUME IInv, Account, SetComplete \/ UpdatePhase
  PROVE  IInv'
  <1>1. "idle" \in Steps /\ Allowed("idle")' /\ cr \in CRs
    BY RestSteps, RestNext, Parts, Zenon
  <1>2. CASE SetComplete
    <2> DEFINE new == [cr EXCEPT !.phase = "complete"]
    <2>1. pc = "complete" /\ Store(new, "idle")
      BY <1>2 DEF SetComplete
    <2>2. new \in CRs /\ new.life = cr.life /\ new.mw = cr.mw /\ new.fin = cr.fin
      BY <1>1 DEF CRs, Phases
    <2> HIDE DEF new
    <2> QED
      BY <1>1, <2>1, <2>2, StoreKeeps, Zenon
  <1>3. CASE UpdatePhase
    <2>1. PICK ph : ph = PhaseAt(pc)
      OBVIOUS
    <2>2. pc \in StatusSteps
      BY <1>3 DEF UpdatePhase
    <2>3. ph \in Phases /\ ph # "complete"
      <3>1. CASE pc = "delprog"
        <4>1. ph = "deleting"
          BY <2>1, <3>1, Zenon DEF PhaseAt
        <4> QED
          BY <4>1 DEF Phases
      <3>2. CASE pc # "delprog"
        <4>1. ph = pc
          BY <2>1, <3>2, Zenon DEF PhaseAt
        <4> QED
          BY <2>2, <3>2, <4>1 DEF Phases, StatusSteps
      <3> QED
        BY <3>1, <3>2
    <2> DEFINE new == [cr EXCEPT !.phase = ph]
    <2>4. Store(new, "idle")
      BY <1>3, <2>1, Zenon DEF UpdatePhase
    <2>5. new \in CRs /\ new.life = cr.life /\ new.mw = cr.mw /\ new.fin = cr.fin /\ new.phase = ph
      BY <1>1, <2>3, Zenon DEF CRs
    <2> HIDE DEF new
    <2> QED
      BY <1>1, <2>3, <2>4, <2>5, StoreKeeps, Zenon
  <1> QED
    BY <1>2, <1>3, Zenon

\* Where a reconcile goes on after the finalizer was removed.
LEMMA AfterRemovalFacts ==
  AfterRemoval \in {"failed", "idle", "delprog"}
  <1>1. prov \in S3Provs => prov # "elasticache"
    BY DEF S3Provs
  <1>2. CASE prov \in S3Provs /\ loc.seen.state = "absent"
    <2>1. AfterRemoval = "failed"
      BY <1>1, <1>2, Zenon DEF AfterRemoval
    <2> QED
      BY <2>1
  <1>3. CASE prov \in S3Provs /\ loc.seen.state # "absent"
    <2>1. AfterRemoval = "idle"
      BY <1>1, <1>3, Zenon DEF AfterRemoval
    <2> QED
      BY <2>1
  <1>4. CASE prov \notin S3Provs /\ prov = "elasticache"
    <2>1. AfterRemoval = "idle"
      BY <1>4, Zenon DEF AfterRemoval
    <2> QED
      BY <2>1
  <1>5. CASE prov \notin S3Provs /\ prov # "elasticache"
    <2>1. AfterRemoval = "delprog"
      BY <1>5, Zenon DEF AfterRemoval
    <2> QED
      BY <2>1
  <1> QED
    BY <1>2, <1>3, <1>4, <1>5, Zenon

\* The CR is gone, and so is all that was made for it; the worker relies on
\* nothing any more.
LEMMA GoneKeeps ==
  ASSUME IInv, Account, cr' = NoCR, fresh' = FALSE, result' \in Results,
         UNCHANGED <<prov, inst, sec, objs, calm>>, loc' \in Locals,
         ~InstanceMade, objs = {}, prov = "cloudsql" => sec = NoPassword,
         NEW l \in Steps, pc' = l, l \notin HeldSteps, l \notin DeleteSteps
  PROVE  IInv'
  <1>1. TypeOK /\ ObjectsInv /\ PasswordInv
    BY Parts, Zenon
  <1>2. owed' \in BOOLEAN /\ (owed' => inst'.drift)
    BY AccountFacts, Zenon
  <1>3. TypeOK'
    BY <1>1, <1>2, ConstantFacts DEF TypeOK
  <1>4. HoldInv'
    BY ConstantFacts DEF HoldInv, InstanceMade
  <1>5. ObjectsInv' /\ PasswordInv' /\ ResultInv'
    BY <1>1, ConstantFacts, ZenonT(60) DEF ObjectsInv, PasswordInv, ResultInv
  <1>6. Allowed(l)'
    BY DEF Allowed, HeldAt, GoneAt, KeyAt, SettledAt, HeldSteps, CreateSteps, DeleteSteps
  <1> QED
    BY <1>2, <1>3, <1>4, <1>5, <1>6, Build, Zenon

\* The result secret loses its owner.
LEMMA OrphanFacts ==
  ASSUME IInv
  PROVE  [result EXCEPT !.life = IF @ = "owned" THEN "orphan" ELSE @] \in Results
  BY Parts DEF Results

LEMMA RemoveFinalizerKeeps ==
  ASSUME IInv, Account, RemoveFinalizer
  PROVE  IInv'
  <1>1. /\ pc = "d_fin" /\ cr' = NoCR /\ fresh' = FALSE /\ result' \in Results
        /\ UNCHANGED <<prov, inst, sec, objs, calm>>
        /\ Goto(AfterRemoval) \/ Goto("failed")
    BY OrphanFacts, Zenon DEF RemoveFinalizer
  <1>2. ~InstanceMade /\ objs = {} /\ (prov = "cloudsql" => sec = NoPassword)
    BY <1>1, Now, Zenon DEF GoneAt
  <1>3. PICK e \in {"failed", "idle", "delprog"} : Goto(e)
    BY <1>1, AfterRemovalFacts, Zenon
  <1>4. pc' = e /\ loc' \in Locals /\ e \in Steps /\ e \notin HeldSteps /\ e \notin DeleteSteps
    BY <1>3, GotoFacts, RestSteps, Zenon
  <1> QED
    BY <1>1, <1>2, <1>4, GoneKeeps, Zenon

\* A call ends with an error.
LEMMA ErrorKeeps ==
  ASSUME IInv, Account, Branch(OnError(pc))
  PROVE  IInv'
  <1>1. PICK e \in {"idle"} \cup StatusSteps : e = OnError(pc)
    BY OnErrorFacts, Zenon
  <1>2. Branch(e)
    BY <1>1, Zenon
  <1> QED
    BY <1>1, <1>2, RestKeeps

\* All steps that the controllers share.
LEMMA ControllerKeeps ==
  ASSUME IInv, Account, Controller
  PROVE  IInv'
  <1>1. Conflict => IInv'
    BY ErrorKeeps, Zenon DEF Conflict
  <1> QED
    BY <1>1, ReconcileKeeps, CreateFinalizerKeeps, ReconcileResultSecretKeeps, StatusKeeps, RemoveFinalizerKeeps, Zenon
    DEF Controller
----------------------------------------------------------------------------
(* The environment.                                                        *)

\* The labels of a worker whose CR has no finalizer.
LEMMA LooseFacts ==
  ASSUME IInv, ~cr.fin
  PROVE  /\ pc \in Steps /\ pc \notin HeldSteps /\ pc \notin DeleteSteps
         /\ ~InstanceMade /\ objs = {} /\ (prov = "cloudsql" => sec = NoPassword)
  <1>1. HeldAt(pc) /\ HoldInv /\ pc \in Steps
    BY Parts DEF IInv, Allowed
  <1> QED
    BY <1>1, Zenon DEF HeldAt, HoldInv

LEMMA UserCreatesKeeps ==
  ASSUME IInv, Account, UserCreates
  PROVE  IInv'
  <1>1. PICK b \in BOOLEAN :
          /\ cr.life = "gone" /\ cr' = [NoCR EXCEPT !.life = "live", !.skip = b]
          /\ UNCHANGED <<prov, fresh, pc, loc, inst, sec, objs, result, calm>>
    BY Zenon DEF UserCreates, worker, world
  <1>2. cr' \in CRs /\ cr'.life = "live" /\ ~cr'.fin /\ cr'.phase = ""
    BY <1>1 DEF NoCR, CRs, Phases
  <1>3. TypeOK /\ HoldInv /\ ObjectsInv /\ PasswordInv
    BY Parts
  <1>4. ~cr.fin /\ ~fresh
    BY <1>1, <1>3, ConstantFacts DEF HoldInv
  <1>5. /\ pc \in Steps /\ pc \notin HeldSteps /\ pc \notin DeleteSteps
        /\ ~InstanceMade /\ objs = {} /\ (prov = "cloudsql" => sec = NoPassword)
    BY <1>4, LooseFacts
  <1>6. PICK l \in Steps : pc = l
    BY <1>5
  <1>7. Allowed(l)'
    BY <1>1, <1>4, <1>5, <1>6, Zenon DEF Allowed, HeldAt, GoneAt, KeyAt, SettledAt, HeldSteps, CreateSteps, DeleteSteps
  <1>8. owed' \in BOOLEAN /\ (owed' => inst'.drift)
    BY AccountFacts
  <1>9. TypeOK'
    BY <1>1, <1>2, <1>3, <1>8 DEF TypeOK
  <1>10. HoldInv'
    BY <1>1, <1>2, <1>5 DEF HoldInv, InstanceMade
  <1>11. ObjectsInv' /\ PasswordInv' /\ ResultInv'
    BY <1>1, <1>2, <1>3, ZenonT(60) DEF ObjectsInv, PasswordInv, ResultInv
  <1> QED
    BY <1>1, <1>6, <1>7, <1>8, <1>9, <1>10, <1>11, Build, Zenon

\* A user changes a live CR behind the worker's back.
LEMMA BehindKeeps ==
  ASSUME IInv, Account, cr.life = "live", cr' \in CRs, cr'.fin = cr.fin, cr'.phase = cr.phase,
         cr'.life = "live" \/ (cr'.life = "deleting" /\ cr.fin), fresh' = FALSE,
         UNCHANGED <<prov, pc, loc, inst, sec, objs, result, calm>>
  PROVE  IInv'
  <1>1. TypeOK /\ HoldInv /\ ObjectsInv /\ PasswordInv /\ ResultInv
    BY Parts, Zenon
  <1>2. PICK l \in Steps : pc = l
    BY Parts, Zenon
  <1>3. HeldAt(l) /\ GoneAt(l) /\ KeyAt(l) /\ SettledAt(l)
    BY <1>2, Now, Zenon
  <1>4. HeldAt(l)' /\ GoneAt(l)'
    BY <1>3, ZenonT(60) DEF HeldAt, GoneAt, InstanceMade
  <1>5. KeyAt(l)'
    BY <1>3, Zenon DEF KeyAt
  <1>6. SettledAt(l)'
    BY <1>3, Zenon DEF SettledAt
  <1>7. owed' \in BOOLEAN /\ (owed' => inst'.drift)
    BY AccountFacts
  <1>8. TypeOK'
    BY <1>1, <1>7, ZenonT(60) DEF TypeOK
  <1>9. HoldInv' /\ ObjectsInv' /\ PasswordInv' /\ ResultInv'
    BY <1>1 DEF HoldInv, ObjectsInv, PasswordInv, ResultInv, InstanceMade
  <1> QED
    BY <1>2, <1>4, <1>5, <1>6, <1>7, <1>8, <1>9, Build, Zenon DEF Allowed

LEMMA UserEditsKeeps ==
  ASSUME IInv, Account, UserEdits
  PROVE  IInv'
  <1>1. /\ cr.life = "live" /\ fresh' = FALSE
        /\ cr' = [cr EXCEPT !.mw = TRUE] \/ cr' = [cr EXCEPT !.skip = FALSE]
        /\ UNCHANGED <<prov, pc, loc, inst, sec, objs, result, calm>>
    BY DEF UserEdits, worker, world
  <1>2. cr' \in CRs /\ cr'.fin = cr.fin /\ cr'.phase = cr.phase /\ cr'.life = "live"
    BY <1>1, Parts, Zenon DEF CRs
  <1> QED
    BY <1>1, <1>2, BehindKeeps, Zenon

LEMMA UserDeletesKeeps ==
  ASSUME IInv, Account, UserDeletes
  PROVE  IInv'
  <1>1. /\ cr.life = "live" /\ fresh' = FALSE
        /\ UNCHANGED <<prov, pc, loc, inst, sec, objs, calm>>
    BY DEF UserDeletes, worker
  <1>2. CASE cr.fin
    <2>1. cr' = [cr EXCEPT !.life = "deleting"] /\ UNCHANGED result
      BY <1>2 DEF UserDeletes
    <2>2. cr' \in CRs /\ cr'.fin = cr.fin /\ cr'.phase = cr.phase /\ cr'.life = "deleting"
      BY <2>1, Parts DEF CRs
    <2> QED
      BY <1>1, <1>2, <2>1, <2>2, BehindKeeps, Zenon
  <1>3. CASE ~cr.fin
    <2>1. cr' = NoCR /\ result' \in Results
      BY <1>3, OrphanFacts, Zenon DEF UserDeletes
    <2>2. /\ pc \in Steps /\ pc \notin HeldSteps /\ pc \notin DeleteSteps
          /\ ~InstanceMade /\ objs = {} /\ (prov = "cloudsql" => sec = NoPassword)
      BY <1>3, LooseFacts, Zenon
    <2>3. PICK l \in Steps : pc = l
      BY <2>2, Zenon
    <2>4. loc' \in Locals /\ pc' = l
      BY <1>1, <2>3, Parts, Zenon
    <2> QED
      BY <1>1, <2>1, <2>2, <2>3, <2>4, GoneKeeps, Zenon
  <1> QED
    BY <1>2, <1>3

LEMMA CollectGarbageKeeps ==
  ASSUME IInv, Account, CollectGarbage
  PROVE  IInv'
  <1>1. /\ result.life = "orphan" /\ result' = NoResult
        /\ UNCHANGED <<prov, cr, fresh, pc, loc, inst, sec, objs, calm>>
    BY DEF CollectGarbage, worker
  <1>2. /\ TypeOK /\ HoldInv /\ ObjectsInv /\ PasswordInv /\ ResultInv
    BY Parts
  <1>3. PICK l \in Steps : pc = l
    BY Parts
  <1>4. HeldAt(l) /\ GoneAt(l) /\ KeyAt(l) /\ SettledAt(l)
    BY <1>3, Now, Zenon
  <1>5. owed' => owed
    BY <1>1, AccountFacts, ZenonT(60)
  <1>6. HeldAt(l)' /\ GoneAt(l)' /\ SettledAt(l)'
    BY <1>1, <1>4, <1>5, SMTT(60) DEF HeldAt, GoneAt, SettledAt, InstanceMade
  <1>7. KeyAt(l)'
    BY <1>1, <1>4, Zenon DEF KeyAt
  <1>8. ResultInv' /\ ObjectsInv' /\ PasswordInv'
    BY <1>1, <1>2, Zenon DEF ResultInv, ObjectsInv, PasswordInv
  <1>9. owed' \in BOOLEAN /\ (owed' => inst'.drift)
    BY AccountFacts
  <1>10. TypeOK'
    BY <1>1, <1>2, <1>9, ConstantFacts DEF TypeOK
  <1>11. HoldInv'
    BY <1>1, <1>2, Zenon DEF HoldInv, InstanceMade
  <1> QED
    BY <1>1, <1>3, <1>6, <1>7, <1>8, <1>9, <1>10, <1>11, Build, Zenon DEF Allowed

LEMMA CalmDownKeeps ==
  ASSUME IInv, Account, CalmDown
  PROVE  IInv'
  <1>1. calm' = TRUE /\ UNCHANGED <<prov, cr, fresh, pc, loc, inst, sec, objs, result>>
    BY Zenon DEF CalmDown, worker, world
  <1>2. PICK l \in Steps : pc = l /\ loc \in Locals
    BY Parts, Zenon
  <1>3. Allowed(l)
    BY <1>2, Now, Zenon DEF Allowed
  <1>4. owed' => owed
    BY <1>1, AccountFacts, Zenon
  <1>5. Allowed(l)'
    BY <1>1, <1>3, <1>4, AllowedSame, Zenon
  <1> QED
    BY <1>1, <1>2, <1>5, QuietKeeps, Zenon

\* Users, the garbage collector, crashes and the end of the faults.
LEMMA EnvironmentKeeps ==
  ASSUME IInv, Account, Environment
  PROVE  IInv'
  <1>1. CallFails => IInv'
    BY ErrorKeeps DEF CallFails
  <1>2. Crash => IInv'
    BY RestKeeps, SMTT(60) DEF Crash
  <1> QED
    BY <1>1, <1>2, UserCreatesKeeps, UserEditsKeeps, UserDeletesKeeps, CollectGarbageKeeps, CalmDownKeeps, Zenon
    DEF Environment
----------------------------------------------------------------------------
(* The cloud, the minter and the user of a bucket.                         *)

\* The cloud changes the instance, or takes it away, but makes nothing that the
\* CR has to answer for.
LEMMA CloudKeeps ==
  ASSUME IInv, Account, UNCHANGED <<prov, cr, fresh, pc, loc, sec, result, calm>>,
         objs' \subseteq objs, objs' # objs => prov \in OpenShiftProvs,
         inst' \in Insts, inst'.state # "absent" => inst.state # "absent" /\ inst'.prot = inst.prot,
         InstanceMade' => InstanceMade, PasswordInv'
  PROVE  IInv'
  <1>1. TypeOK /\ HoldInv /\ ObjectsInv /\ ResultInv
    BY Parts, Zenon
  <1>2. PICK l \in Steps : pc = l
    BY Parts, Zenon
  <1>3. HeldAt(l) /\ GoneAt(l) /\ KeyAt(l) /\ SettledAt(l)
    BY <1>2, Now, Zenon
  <1>4. owed' \in BOOLEAN /\ (owed' => inst'.drift) /\ (owed' => owed)
    BY AccountFacts, Zenon
  <1>5. HeldAt(l)' /\ KeyAt(l)'
    BY <1>3, ZenonT(60) DEF HeldAt, KeyAt
  <1>6. GoneAt(l)'
    BY <1>3, Zenon DEF GoneAt
  <1>7. SettledAt(l)'
    BY <1>3, <1>4, Zenon DEF SettledAt
  <1>8. ObjectsInv'
    BY <1>1, Zenon DEF ObjectsInv
  <1>9. ResultInv'
    BY <1>1, Zenon DEF ResultInv, OpenShiftProvs, S3Provs
  <1>10. TypeOK'
    BY <1>1, <1>4, ZenonT(60) DEF TypeOK
  <1>11. HoldInv'
    BY <1>1 DEF HoldInv
  <1> QED
    BY <1>2, <1>4, <1>5, <1>6, <1>7, <1>8, <1>9, <1>10, <1>11, Build, Zenon DEF Allowed

LEMMA CloudProgressKeeps ==
  ASSUME IInv, Account, CloudProgress
  PROVE  IInv'
  <1>1. UNCHANGED <<prov, cr, fresh, pc, loc, sec, objs, result, calm>>
    BY DEF CloudProgress, worker
  <1>2. inst \in Insts /\ PasswordInv /\ sec \in MaybePassword
    BY Parts, Zenon
  <1>3. CASE inst' = NoInstance
    <2>1. inst' \in Insts /\ inst'.state = "absent"
      BY <1>3, ConstantFacts
    <2>2. ~InstanceMade' /\ PasswordInv'
      BY <2>1 DEF InstanceMade, PasswordInv
    <2> QED
      BY <1>1, <2>1, <2>2, CloudKeeps, Zenon
  <1>4. CASE /\ inst.state \in {"creating", "modifying"}
             /\ inst' = [inst EXCEPT !.state = "available",
                                     !.pw = IF prov = "oc_postgres" THEN sec ELSE @]
    <2>1. /\ inst' \in Insts /\ inst'.state = "available" /\ inst'.prot = inst.prot /\ inst'.full = inst.full
          /\ inst'.pw = IF prov = "oc_postgres" THEN sec ELSE inst.pw
      BY <1>2, <1>4, Zenon DEF Insts, InstStates
    <2>2. InstanceMade' => InstanceMade
      BY <1>1, <1>4, <2>1 DEF InstanceMade
    <2>3. PasswordInv'
      BY <1>1, <1>2, <1>4, <2>1, Zenon DEF PasswordInv, PostgresProvs
    <2> QED
      BY <1>1, <1>4, <2>1, <2>2, <2>3, CloudKeeps, Zenon
  <1> QED
    BY <1>3, <1>4 DEF CloudProgress

LEMMA OutOfBandKeeps ==
  ASSUME IInv, Account, OutOfBand
  PROVE  IInv'
  <1>1. UNCHANGED <<prov, cr, fresh, pc, loc, sec, result, calm>>
    BY Zenon DEF OutOfBand, worker
  <1>2. inst \in Insts /\ PasswordInv
    BY Parts
  <1>3. CASE inst' = NoInstance /\ UNCHANGED objs
    <2>1. inst' \in Insts /\ inst'.state = "absent"
      BY <1>3, ConstantFacts
    <2>2. ~InstanceMade' /\ PasswordInv'
      BY <2>1 DEF InstanceMade, PasswordInv
    <2> QED
      BY <1>1, <1>3, <2>1, <2>2, CloudKeeps, Zenon
  <1>4. CASE objs' = objs \ {"config"} /\ UNCHANGED inst /\ prov \in OpenShiftProvs
    <2>1. PasswordInv' /\ (InstanceMade' => InstanceMade)
      BY <1>1, <1>2, <1>4, Zenon DEF PasswordInv, InstanceMade
    <2> QED
      BY <1>1, <1>2, <1>4, <2>1, CloudKeeps, Zenon
  <1>5. ASSUME NEW n \in Insts, inst' = n, UNCHANGED objs, inst.state # "absent", n.prot = inst.prot,
               n.full = inst.full, n.pw = inst.pw,
               n.state = "creating" => inst.state = "creating" \/ prov \in OpenShiftProvs,
               prov \in OpenShiftProvs => n.state = "creating"
        PROVE  IInv'
    <2>1. InstanceMade' => InstanceMade
      BY <1>1, <1>5, Zenon DEF InstanceMade
    <2>2. PasswordInv'
      BY <1>1, <1>2, <1>5, Zenon DEF PasswordInv, PostgresProvs, OpenShiftProvs
    <2> QED
      BY <1>1, <1>5, <2>1, <2>2, CloudKeeps, Zenon
  <1>6. CASE /\ prov \in CloudProvs /\ UNCHANGED objs
             /\ \/ inst.state = "available" /\ inst' = [inst EXCEPT !.state = "modifying"]
                \/ inst.state # "absent" /\ inst' = [inst EXCEPT !.drift = TRUE]
                \/ inst.state # "absent" /\ inst' = [inst EXCEPT !.upd = TRUE]
                \/ /\ inst.state \in {"creating", "available"}
                   /\ inst' = [inst EXCEPT !.state = "deleting"]
    <2>1. /\ inst' \in Insts /\ inst'.prot = inst.prot /\ inst'.full = inst.full /\ inst'.pw = inst.pw
          /\ inst.state # "absent" /\ (inst'.state = "creating" => inst.state = "creating")
      BY <1>2, <1>6, Zenon DEF Insts, InstStates
    <2>2. prov \notin OpenShiftProvs
      BY <1>6, Zenon DEF CloudProvs, OpenShiftProvs
    <2>3. PICK n \in Insts : inst' = n
      BY <2>1
    <2> QED
      BY <1>5, <1>6, <2>1, <2>2, <2>3, Zenon
  <1>7. CASE /\ prov \in OpenShiftProvs /\ UNCHANGED objs
             /\ inst.state = "available" /\ inst' = [inst EXCEPT !.state = "creating"]
    <2>1. /\ inst' \in Insts /\ inst'.prot = inst.prot /\ inst'.full = inst.full /\ inst'.pw = inst.pw
          /\ inst'.state = "creating"
      BY <1>2, <1>7, Zenon DEF Insts, InstStates
    <2>2. PICK n \in Insts : inst' = n
      BY <2>1, Zenon
    <2> QED
      BY <1>5, <1>7, <2>1, <2>2, Zenon
  <1> QED
    BY <1>3, <1>4, <1>6, <1>7, Zenon DEF OutOfBand

LEMMA MintKeyKeeps ==
  ASSUME IInv, Account, MintKey
  PROVE  IInv'
  <1>1. /\ "credreq" \in objs /\ sec = NoPassword /\ prov \in S3Provs /\ sec' \in Passwords
        /\ UNCHANGED <<prov, cr, fresh, pc, loc, inst, objs, result, calm>>
    BY Zenon DEF MintKey, worker
  <1>2. TypeOK /\ HoldInv /\ ObjectsInv /\ PasswordInv /\ ResultInv
    BY Parts
  <1>3. sec' \in MaybePassword /\ sec' # NoPassword
    BY <1>1, PasswordsAssumption, Zenon DEF MaybePassword
  <1>4. PICK l \in Steps : pc = l
    BY Parts
  <1>5. HeldAt(l) /\ GoneAt(l) /\ KeyAt(l) /\ SettledAt(l)
    BY <1>4, Now
  <1>6. owed' \in BOOLEAN /\ (owed' => inst'.drift) /\ (owed' => owed)
    BY <1>1, AccountFacts, Zenon
  <1>7. prov \notin PostgresProvs /\ prov # "cloudsql" /\ prov # "oc_postgres"
    BY <1>1, ZenonT(60) DEF PostgresProvs, S3Provs
  <1>8. HeldAt(l)' /\ SettledAt(l)' /\ GoneAt(l)'
    BY <1>1, <1>5, <1>6, <1>7, SMTT(60) DEF HeldAt, SettledAt, GoneAt, InstanceMade
  <1>9. KeyAt(l)'
    BY <1>1, <1>3, <1>5, <1>7, Zenon DEF KeyAt
  <1>10. ObjectsInv' /\ PasswordInv'
    BY <1>1, <1>2, <1>7, Zenon DEF ObjectsInv, PasswordInv
  <1>11. ResultInv'
    BY <1>1, <1>2, <1>3, Zenon DEF ResultInv
  <1>12. TypeOK'
    BY <1>1, <1>2, <1>3, <1>6, Zenon DEF TypeOK
  <1>13. HoldInv'
    BY <1>1, <1>2, <1>7, Zenon DEF HoldInv, InstanceMade
  <1> QED
    BY <1>1, <1>4, <1>6, <1>8, <1>9, <1>10, <1>11, <1>12, <1>13, Build, ZenonT(60) DEF Allowed

LEMMA PutObjectKeeps ==
  ASSUME IInv, Account, PutObject
  PROVE  IInv'
  <1>1. /\ prov \in S3Provs /\ inst.state = "available" /\ inst' = [inst EXCEPT !.full = TRUE] /\ ~inst.full
        /\ UNCHANGED <<prov, cr, fresh, pc, loc, sec, objs, result, calm>>
    BY DEF PutObject, worker
  <1>2. inst' \in Insts /\ inst'.prot = inst.prot /\ inst'.state = inst.state
    BY <1>1, Parts, Zenon DEF Insts
  <1>3. InstanceMade' => InstanceMade
    BY <1>1, <1>2 DEF InstanceMade
  <1>4. PasswordInv'
    BY <1>1, Zenon DEF PasswordInv, S3Provs, PostgresProvs
  <1> QED
    BY <1>1, <1>2, <1>3, <1>4, CloudKeeps, Zenon
----------------------------------------------------------------------------
(* The invariant.                                                          *)

\* There is no CR at first, and nothing was made.
LEMMA InitHolds == Init => IInv
  <1> SUFFICES ASSUME Init PROVE IInv
    OBVIOUS
  <1>1. /\ prov \in Provs /\ cr = NoCR /\ fresh = FALSE /\ pc = "idle" /\ loc = NoLoc /\ inst = NoInstance
        /\ sec = NoPassword /\ objs = {} /\ result = NoResult /\ owed = FALSE /\ calm = FALSE
    BY Zenon DEF Init
  <1>2. TypeOK
    BY <1>1, ConstantFacts, RestSteps DEF TypeOK, MaybePassword
  <1>3. HoldInv /\ ObjectsInv
    BY <1>1, ConstantFacts DEF HoldInv, ObjectsInv, InstanceMade
  <1>4. PasswordInv /\ ResultInv
    BY <1>1, ConstantFacts DEF PasswordInv, ResultInv
  <1>5. Allowed(pc)
    BY <1>1, RestAllowed, RestSteps, Zenon
  <1> QED
    BY <1>1, <1>2, <1>3, <1>4, <1>5, Zenon DEF IInv

\* Every step keeps the invariant.
LEMMA StepKeeps == IInv /\ [Next]_vars => IInv'
  <1> SUFFICES ASSUME IInv, [Next]_vars PROVE IInv'
    BY Zenon
  <1>1. CASE UNCHANGED vars
    <2>1. UNCHANGED <<prov, cr, fresh, pc, loc, inst, sec, objs, result, owed, calm>>
      BY <1>1 DEF vars, world
    <2>2. PICK l : l = pc
      BY Zenon
    <2>3. TypeOK'
      BY <2>1, Zenon DEF IInv, TypeOK
    <2>4. HoldInv' /\ ObjectsInv'
      <3>1. HoldInv'
        BY <2>1, ZenonT(60) DEF IInv, HoldInv, InstanceMade
      <3>2. ObjectsInv'
        BY <2>1, ZenonT(60) DEF IInv, ObjectsInv
      <3> QED
        BY <3>1, <3>2, Zenon
    <2>5. PasswordInv' /\ ResultInv'
      BY <2>1, ZenonT(60) DEF IInv, PasswordInv, ResultInv
    <2>6. HeldAt(l)' /\ GoneAt(l)'
      BY <2>1, <2>2, ZenonT(60) DEF IInv, Allowed, HeldAt, GoneAt, InstanceMade
    <2>7. KeyAt(l)' /\ SettledAt(l)'
      BY <2>1, <2>2, ZenonT(60) DEF IInv, Allowed, KeyAt, SettledAt
    <2>8. Allowed(l)' /\ pc' = l
      BY <2>1, <2>2, <2>6, <2>7, Zenon DEF Allowed
    <2> QED
      BY <2>1, <2>3, <2>4, <2>5, <2>8, ZenonT(60) DEF IInv
  <1>2. CASE Next
    <2>1. Account
      BY <1>2, Zenon DEF Next
    <2>2. CASE Worker
      BY <2>1, <2>2, ControllerKeeps, ElastiCacheKeeps, CloudSQLKeeps, MemorystoreKeeps, OpenShiftKeeps,
         S3Keeps, ZenonT(60) DEF Worker, ProviderWorker
    <2>3. CASE Environment
      BY <2>1, <2>3, EnvironmentKeeps
    <2> QED
      BY <1>2, <2>1, <2>2, <2>3, CloudProgressKeeps, OutOfBandKeeps, MintKeyKeeps, PutObjectKeeps, Zenon DEF Next
  <1> QED
    BY <1>1, <1>2

\* The invariant holds for any set of providers and passwords, with crashes,
\* lost answers, users and changes in the cloud at any time.
THEOREM Invariance == Spec => []IInv
  BY InitHolds, StepKeeps, PTL DEF Spec

\* What a complete CR has published opens the database or the bucket, whatever
\* the providers and passwords (ReconcileResultSecret, CreateSQLSecret,
\* CreateSecret, ReconcileAWSCredentials).
THEOREM PublishedAlwaysWorks == Spec => []PublishedSecretWorks
  <1>1. IInv => PublishedSecretWorks
    BY ZenonT(60) DEF IInv, PasswordInv, ResultInv, PublishedSecretWorks, KeyProvs, PostgresProvs, S3Provs
  <1> QED
    BY <1>1, Invariance, PTL

\* No bucket is published before its settings are in place
\* (ReconcileS3BucketSettings precedes ReconcileResultSecret, also after a crash).
THEOREM SettingsAlwaysFirst == Spec => []SettingsBeforePublish
  <1>1. IInv => SettingsBeforePublish
    BY Zenon DEF IInv, Allowed, SettledAt, SettingsBeforePublish
  <1> QED
    BY <1>1, Invariance, PTL
----------------------------------------------------------------------------
(* The steps by what they do to the CR and to what was made for it.        *)

\* The CR is left alone, and at most one thing appears or disappears.
ThingStep ==
  /\ UNCHANGED <<prov, cr>>
  /\ \/ UNCHANGED <<sec, objs>>
     \/ UNCHANGED <<inst, objs>>
     \/ /\ UNCHANGED inst /\ (sec' = sec \/ prov # "cloudsql")
        /\ \E o \in Objects : objs' = objs \cup {o} \/ objs' = objs \ {o}

\* The CR is written, but neither its life nor its finalizer changes, and no
\* maintenance window is closed.
NoteStep ==
  /\ UNCHANGED <<prov, inst, sec, objs>>
  /\ cr'.life = cr.life /\ cr'.fin = cr.fin /\ (cr.mw => cr'.mw)

\* A step of the worker, of the result secret or of the process alone.
LEMMA QuietKind ==
  ASSUME UNCHANGED <<prov, cr, inst, sec, objs>>
  PROVE  ThingStep
  BY DEF ThingStep

\* Of the ElastiCache provider: things, the annotation, and the window.
LEMMA ElastiCacheKind ==
  ASSUME IInv, ElastiCacheWorker
  PROVE  ThingStep \/ NoteStep \/ CloseWindow
  <1>1. CASE AnnotateGroup
    <2>1. cr' = [cr EXCEPT !.anno = TRUE] /\ UNCHANGED <<prov, inst, sec, objs>>
      BY <1>1, ZenonT(60) DEF AnnotateGroup, Store, world
    <2> QED
      BY <2>1, Parts, Zenon DEF NoteStep, CRs
  <1>2. CASE ~AnnotateGroup /\ ~CloseWindow
    BY <1>2 DEF ElastiCacheWorker, VerifyRedisMaintenanceWindow, GetReplicationGroups, CreateReplicationGroup,
       GroupLost, GroupNotAvailable, GroupAvailable, ModifyReplicationGroup, ApplySpecifiedSecurityUpdates,
       TagNodes, NoWindow, RefusedByElastiCache, GetGroupForDelete, DeleteWaitsForGroup,
       DeleteReplicationGroup, GroupGone, NotCR, Branch, world, ThingStep
  <1> QED
    BY <1>1, <1>2

\* Of the Cloud SQL provider.
LEMMA CloudSQLKind ==
  ASSUME IInv, CloudSQLWorker
  PROVE  ThingStep \/ NoteStep
  <1>1. CASE AnnotateNewSQL \/ AnnotateFoundSQL
    <2>1. cr' = [cr EXCEPT !.anno = TRUE] /\ UNCHANGED <<prov, inst, sec, objs>>
      BY <1>1, Zenon DEF AnnotateNewSQL, AnnotateFoundSQL, Store, world
    <2> QED
      BY <2>1, Parts, Zenon DEF NoteStep, CRs
  <1>2. CASE SQLInstanceState
    <2>1. UNCHANGED <<prov, cr, inst, sec, objs>>
      BY <1>2, ZenonT(60) DEF SQLInstanceState, Branch, world
    <2> QED
      BY <2>1, QuietKind
  <1>3. CASE ~(AnnotateNewSQL \/ AnnotateFoundSQL) /\ ~SQLInstanceState
    BY <1>3, Zenon DEF CloudSQLWorker, SQLNetwork, CreateSQLSecret, GetSQLInstance, CreateSQLInstance,
       SQLInstanceFound, ModifySQLInstance, GetSQLForDelete, SQLAlreadyDeleting,
       DisableSQLProtection, DeleteSQLInstance, SQLInstanceGone, DeleteSQLSecret, SQLNetworkGone,
       NotCR, Branch, world, ThingStep
  <1> QED
    BY <1>1, <1>2, <1>3, Zenon

\* Of the Memorystore provider.
LEMMA MemorystoreKind ==
  ASSUME IInv, MemorystoreWorker
  PROVE  ThingStep \/ NoteStep
  <1>1. CASE AnnotateNewRedis \/ AnnotateFoundRedis
    <2>1. cr' = [cr EXCEPT !.anno = TRUE] /\ UNCHANGED <<prov, inst, sec, objs>>
      BY <1>1, Zenon DEF AnnotateNewRedis, AnnotateFoundRedis, Store, world
    <2> QED
      BY <2>1, Parts DEF NoteStep, CRs
  <1>2. CASE ~(AnnotateNewRedis \/ AnnotateFoundRedis)
    BY <1>2 DEF MemorystoreWorker, RedisNetwork, GetRedisInstance, CreateRedisInstance,
       RedisInstanceFound, RedisInstanceState, UpdateRedisInstance, UpgradeRedisInstance, NoNameToDelete,
       GetRedisForDelete, RedisAlreadyDeleting, DeleteRedisInstance, RedisInstanceGone, RedisNetworkGone,
       NotCR, Branch, world, ThingStep
  <1> QED
    BY <1>1, <1>2, Zenon

\* Of the OpenShift providers, which do not annotate the CR.
LEMMA OpenShiftKind ==
  ASSUME IInv, OpenShiftWorker
  PROVE  ThingStep
  <1>1. {"pvc", "config", "service"} \subseteq Objects
    BY Zenon DEF Objects
  <1>2. CASE CreatePVC \/ CreateConfigMap \/ CreateService
    BY <1>1, <1>2, Zenon DEF CreatePVC, CreateConfigMap, CreateService, Put, NotCR, ThingStep
  <1>3. CASE DeleteService \/ DeletePVC \/ DeleteConfigMap
    BY <1>1, <1>3, Zenon DEF DeleteService, DeletePVC, DeleteConfigMap, Drop, NotCR, ThingStep
  <1>4. CASE CreateSecret \/ CreateDeployment \/ GetDeployment \/ DeploymentState \/ DeleteSecret
               \/ DeleteDeployment
    BY <1>4 DEF CreateSecret, CreateDeployment, GetDeployment, DeploymentState, DeleteSecret, DeleteDeployment,
       NotCR, Branch, world, ThingStep
  <1> QED
    BY <1>2, <1>3, <1>4, Zenon DEF OpenShiftWorker

\* Of the S3 provider.
LEMMA S3Kind ==
  ASSUME IInv, S3Worker
  PROVE  ThingStep \/ NoteStep
  <1>1. CASE AnnotateBucket
    <2>1. cr' = [cr EXCEPT !.anno = TRUE] /\ UNCHANGED <<prov, inst, sec, objs>>
      BY <1>1, Zenon DEF AnnotateBucket, Store, world
    <2> QED
      BY <2>1, Parts DEF NoteStep, CRs
  <1>2. CASE GetBucketSize
    <2>1. UNCHANGED <<prov, cr, inst, sec, objs>>
      BY <1>2, Zenon DEF GetBucketSize, Branch, world
    <2> QED
      BY <2>1, QuietKind
  <1>3. CASE ReconcileCredentialRequest \/ RemoveCreds
    <2>1. "credreq" \in Objects /\ prov # "cloudsql"
      BY <1>3, Zenon DEF Objects, ReconcileCredentialRequest, RemoveCreds, OnS3, S3Provs
    <2> QED
      BY <1>3, <2>1, Zenon DEF ReconcileCredentialRequest, RemoveCreds, NotCR, ThingStep
  <1>4. CASE GetS3Buckets \/ BucketFound \/ BucketLost \/ CreateBucket \/ ReconcileS3BucketSettings
               \/ ReconcileAWSCredentials \/ TagBlobStorage \/ GetBucketForDelete \/ EmptyBucket
               \/ DeleteBucket
    BY <1>4, Zenon DEF GetS3Buckets, BucketFound, BucketLost, CreateBucket, ReconcileS3BucketSettings,
       ReconcileAWSCredentials, TagBlobStorage, GetBucketForDelete, EmptyBucket, DeleteBucket,
       NotCR, Branch, world, ThingStep
  <1> QED
    BY <1>1, <1>2, <1>3, <1>4, Zenon DEF S3Worker

\* Of the controllers, which alone add and remove the finalizer.
LEMMA ControllerKind ==
  ASSUME IInv, Controller
  PROVE  ThingStep \/ NoteStep \/ CreateFinalizer \/ RemoveFinalizer
  <1>1. CASE Reconcile
    <2>1. UNCHANGED <<prov, cr, inst, sec, objs>>
      BY <1>1, Zenon DEF Reconcile, world
    <2> QED
      BY <2>1, QuietKind
  <1>2. CASE ReconcileResultSecret
    BY <1>2, QuietKind DEF ReconcileResultSecret, NotCR
  <1>3. CASE SetComplete
    <2>1. cr' = [cr EXCEPT !.phase = "complete"] /\ UNCHANGED <<prov, inst, sec, objs>>
      BY <1>3 DEF SetComplete, Store, world
    <2> QED
      BY <2>1, Parts, Zenon DEF NoteStep, CRs
  <1>4. CASE UpdatePhase
    <2>1. PICK ph : ph = PhaseAt(pc)
      OBVIOUS
    <2>2. cr' = [cr EXCEPT !.phase = ph] /\ UNCHANGED <<prov, inst, sec, objs>>
      BY <1>4, <2>1, Zenon DEF UpdatePhase, Store, world
    <2> QED
      BY <2>2, Parts, Zenon DEF NoteStep, CRs
  <1>5. CASE Conflict
    BY <1>5, QuietKind DEF Conflict, Branch, world
  <1> QED
    BY <1>1, <1>2, <1>3, <1>4, <1>5, Zenon DEF Controller

\* Of the users, who alone create and delete the CR.
LEMMA EnvironmentKind ==
  ASSUME IInv, Environment
  PROVE  ThingStep \/ NoteStep \/ UserCreates \/ UserDeletes
  <1>1. CASE UserEdits
    <2>1. /\ cr' = [cr EXCEPT !.mw = TRUE] \/ cr' = [cr EXCEPT !.skip = FALSE]
          /\ UNCHANGED <<prov, inst, sec, objs>>
      BY <1>1, Zenon DEF UserEdits, world
    <2> QED
      BY <2>1, Parts DEF NoteStep, CRs
  <1>2. CASE CallFails \/ Crash \/ CollectGarbage \/ CalmDown
    BY <1>2, QuietKind, Zenon DEF CallFails, Crash, CollectGarbage, CalmDown, Branch, world
  <1> QED
    BY <1>1, <1>2 DEF Environment

\* Of the clouds and the minter, which never write the CR.
LEMMA OthersKind ==
  ASSUME CloudProgress \/ OutOfBand \/ MintKey \/ PutObject
  PROVE  ThingStep
  <1>1. "config" \in Objects
    BY DEF Objects
  <1>2. CASE OutOfBand
    BY <1>1, <1>2, Zenon DEF OutOfBand, ThingStep
  <1>3. CASE CloudProgress \/ MintKey \/ PutObject
    BY <1>3, Zenon DEF CloudProgress, MintKey, PutObject, ThingStep
  <1> QED
    BY <1>2, <1>3

\* All but five of the actions do one of the two.
LEMMA Kinds ==
  ASSUME IInv, Next
  PROVE  \/ ThingStep \/ NoteStep
         \/ CloseWindow \/ CreateFinalizer \/ RemoveFinalizer \/ UserCreates \/ UserDeletes
  BY ElastiCacheKind, CloudSQLKind, MemorystoreKind, OpenShiftKind, S3Kind, ControllerKind, EnvironmentKind,
     OthersKind, Zenon DEF Next, Worker, ProviderWorker

\* A maintenance window is not closed before its difference went to ElastiCache
\* (CloseWindow, after ModifyReplicationGroup), whatever the users do between
\* the read and the reset of spec.maintenanceWindow.
THEOREM WindowNeverLost == Spec => WindowNotLost
  <1>1. IInv /\ [Next]_vars => [cr.mw /\ cr'.life = "live" /\ ~cr'.mw => ~owed]_vars
    <2> SUFFICES ASSUME IInv, Next, cr.mw, cr'.life = "live", ~cr'.mw PROVE ~owed
      BY Zenon
    <2>1. ~ThingStep /\ ~NoteStep
      BY Zenon DEF ThingStep, NoteStep
    <2>2. CASE CloseWindow
      <3>1. prov = "elasticache" /\ pc = "close" /\ loc.win /\ fresh
        BY <2>2 DEF CloseWindow, At, Store
      <3> QED
        BY <3>1, Now, Zenon DEF SettledAt
    <2>3. CASE CreateFinalizer
      <3>1. cr' = [cr EXCEPT !.fin = TRUE]
        BY <2>3 DEF CreateFinalizer, Store
      <3> QED
        BY <3>1, Parts DEF CRs
    <2>4. CASE RemoveFinalizer
      BY <2>4, ConstantFacts DEF RemoveFinalizer
    <2>5. CASE UserCreates
      BY <2>5, Parts, ConstantFacts DEF UserCreates, HoldInv
    <2>6. CASE UserDeletes
      <3>1. cr' = [cr EXCEPT !.life = "deleting"] \/ cr' = NoCR
        BY <2>6, Zenon DEF UserDeletes
      <3> QED
        BY <3>1, Parts, ConstantFacts DEF CRs
    <2> QED
      BY <2>1, <2>2, <2>3, <2>4, <2>5, <2>6, Kinds, Zenon
  <1> QED
    BY <1>1, Invariance, PTL DEF Spec, WindowNotLost
----------------------------------------------------------------------------
(* The refinement.                                                         *)

\* What the CR claims, and what it claims next.
LEMMA ClaimFacts ==
  /\ cr.life = "gone" => Claim = "none"
  /\ cr.life = "deleting" => Claim = "released"
  /\ cr.life = "live" /\ cr.fin => Claim = "held"
  /\ cr.life = "live" /\ ~cr.fin => Claim = "asked"
  <1>1. "gone" # "deleting" /\ "gone" # "live" /\ "deleting" # "live"
    OBVIOUS
  <1>2. CASE cr.life = "gone" /\ cr.life # "deleting" /\ cr.life # "live"
    BY <1>2, Zenon DEF Claim
  <1>3. CASE cr.life = "deleting" /\ cr.life # "gone" /\ cr.life # "live"
    BY <1>3, Zenon DEF Claim
  <1>4. CASE cr.life = "live" /\ cr.life # "gone" /\ cr.life # "deleting" /\ cr.fin
    BY <1>4, Zenon DEF Claim
  <1>5. CASE cr.life = "live" /\ cr.life # "gone" /\ cr.life # "deleting" /\ ~cr.fin
    BY <1>5, ZenonT(60) DEF Claim
  <1> QED
    BY <1>1, <1>2, <1>3, <1>4, <1>5, Zenon

\* The claim after a step, for each state of the CR.
LEMMA ClaimNext ==
  /\ cr'.life = "gone" => Claim' = "none"
  /\ cr'.life = "deleting" => Claim' = "released"
  /\ cr'.life = "live" /\ cr'.fin => Claim' = "held"
  /\ cr'.life = "live" /\ ~cr'.fin => Claim' = "asked"
  <1>1. "gone" # "deleting" /\ "gone" # "live" /\ "deleting" # "live"
    OBVIOUS
  <1>2. CASE cr'.life = "gone" /\ cr'.life # "deleting" /\ cr'.life # "live"
    BY <1>2, Zenon DEF Claim
  <1>3. CASE cr'.life = "deleting" /\ cr'.life # "gone" /\ cr'.life # "live"
    BY <1>3, Zenon DEF Claim
  <1>4. CASE cr'.life = "live" /\ cr'.life # "gone" /\ cr'.life # "deleting" /\ cr'.fin
    BY <1>4, Zenon DEF Claim
  <1>5. CASE cr'.life = "live" /\ cr'.life # "gone" /\ cr'.life # "deleting" /\ ~cr'.fin
    BY <1>5, Zenon DEF Claim
  <1> QED
    BY <1>1, <1>2, <1>3, <1>4, <1>5, Zenon

\* The claim depends on the life and the finalizer of the CR only.
LEMMA SameClaim ==
  ASSUME IInv, cr'.life = cr.life, cr'.fin = cr.fin
  PROVE  Claim' = Claim
  <1>1. cr.life \in {"gone", "live", "deleting"}
    BY Parts, Zenon DEF CRs
  <1> QED
    BY <1>1, ClaimFacts, ClaimNext

\* What was made depends on the cloud, the secret and the objects only.
LEMMA SameMade ==
  ASSUME UNCHANGED <<prov, inst, sec, objs>>
  PROVE  Made' = Made
  BY Zenon DEF Made

\* Things are made for a CR that is held, or was when it was deleted.
LEMMA MadeHeldNext ==
  ASSUME IInv', Made' # {}
  PROVE  cr'.fin /\ Claim' \in {"held", "released"}
  <1>1. HoldInv' /\ cr' \in CRs
    BY Zenon DEF IInv, TypeOK
  <1>2. cr'.fin
    BY <1>1, Zenon DEF Made, HoldInv, InstanceMade
  <1>3. cr'.life # "gone"
    BY <1>1, <1>2, ConstantFacts DEF HoldInv
  <1> QED
    BY <1>1, <1>2, <1>3, ClaimNext, ZenonT(60) DEF CRs

\* One thing appears or disappears.
LEMMA ThingMoves ==
  ASSUME IInv, IInv', Claim' = Claim, NEW t \in {"instance", "secret"} \cup Objects,
         Made' = Made \cup {t} \/ Made' = Made \ {t}
  PROVE  Managed!Next
  <1>1. CASE Made' = Made \ {t}
    BY <1>1, Zenon DEF Managed!Next, Managed!Lose
  <1>2. CASE Made' = Made \cup {t}
    <2>1. Made' # {}
      BY <1>2, Zenon
    <2>2. Claim \in {"held", "released"}
      BY <2>1, MadeHeldNext, Zenon
    <2> QED
      BY <1>2, <2>2, Zenon DEF Managed!Next, Managed!Make
  <1> QED
    BY <1>1, <1>2, Zenon

\* A step that leaves the CR alone makes something only under a held CR.
LEMMA ThingStepMoves ==
  ASSUME IInv, IInv', ThingStep
  PROVE  (Claim' = Claim /\ Made' = Made) \/ Managed!Next
  <1>1. Claim' = Claim
    BY SameClaim, Zenon DEF ThingStep
  <1>2. UNCHANGED prov /\ objs \subseteq Objects /\ objs' \subseteq Objects
    BY Parts, ZenonT(60) DEF ThingStep, IInv, TypeOK
  <1>3. "instance" \notin Objects /\ "secret" \notin Objects
    BY DEF Objects
  <1>4. CASE UNCHANGED <<sec, objs>>
    <2>1. Made' = Made \cup {"instance"} \/ Made' = Made \ {"instance"}
      BY <1>2, <1>3, <1>4, Zenon DEF Made
    <2> QED
      BY <1>1, <2>1, ThingMoves, Zenon
  <1>5. CASE UNCHANGED <<inst, objs>>
    <2>1. Made' = Made \cup {"secret"} \/ Made' = Made \ {"secret"}
      BY <1>2, <1>3, <1>5, Zenon DEF Made
    <2> QED
      BY <1>1, <2>1, ThingMoves, Zenon
  <1>6. CASE /\ UNCHANGED inst /\ (sec' = sec \/ prov # "cloudsql")
             /\ \E o \in Objects : objs' = objs \cup {o} \/ objs' = objs \ {o}
    <2>1. PICK o \in Objects : objs' = objs \cup {o} \/ objs' = objs \ {o}
      BY <1>6, Zenon
    <2>2. Made' = Made \cup {o} \/ Made' = Made \ {o}
      BY <1>2, <1>3, <1>6, <2>1, Zenon DEF Made
    <2> QED
      BY <1>1, <2>1, <2>2, ThingMoves, Zenon
  <1> QED
    BY <1>4, <1>5, <1>6, Zenon DEF ThingStep

\* Every step is a step of ManagedResource or leaves it alone.
LEMMA SimulationStep ==
  ASSUME IInv, IInv', Next
  PROVE  (Claim' = Claim /\ Made' = Made) \/ Managed!Next
  <1>1. CASE ThingStep
    BY <1>1, ThingStepMoves, Zenon
  <1>2. CASE NoteStep
    BY <1>2, SameClaim, SameMade DEF NoteStep
  <1>3. CASE CloseWindow
    <2>1. cr' = [cr EXCEPT !.mw = FALSE] /\ UNCHANGED <<prov, inst, sec, objs>>
      BY <1>3 DEF CloseWindow, Store, world
    <2>2. cr'.life = cr.life /\ cr'.fin = cr.fin
      BY <2>1, Parts, Zenon DEF CRs
    <2> QED
      BY <2>1, <2>2, SameClaim, SameMade, Zenon
  <1>4. CASE CreateFinalizer
    <2>1. /\ pc = "finalizer" /\ fresh /\ cr' = [cr EXCEPT !.fin = TRUE]
          /\ UNCHANGED <<prov, inst, sec, objs>>
      BY <1>4, Zenon DEF CreateFinalizer, Store, world
    <2>2. cr'.life = "live" /\ cr'.fin /\ cr.life = "live" /\ Made' = Made
      BY <2>1, Parts, Now, SameMade, Zenon DEF CRs, HeldAt
    <2>3. CASE cr.fin
      BY <2>2, <2>3, ClaimFacts, ClaimNext, Zenon
    <2>4. CASE ~cr.fin
      <3>1. Claim = "asked" /\ Claim' = "held"
        BY <2>2, <2>4, ClaimFacts, ClaimNext, Zenon
      <3> QED
        BY <2>2, <3>1, Zenon DEF Managed!Next, Managed!Hold
    <2> QED
      BY <2>3, <2>4, Zenon
  <1>5. CASE RemoveFinalizer
    <2>1. pc = "d_fin" /\ cr' = NoCR /\ UNCHANGED <<prov, inst, sec, objs>>
      BY <1>5, Zenon DEF RemoveFinalizer
    <2>2. /\ cr.life = "deleting" /\ ~InstanceMade /\ objs = {} /\ (prov = "cloudsql" => sec = NoPassword)
      BY <2>1, Now, S3DeleteLabels, Zenon DEF HeldAt, GoneAt
    <2>3. Made = {} /\ Made' = Made
      BY <2>1, <2>2, SameMade, Zenon DEF Made, InstanceMade
    <2>4. Claim = "released" /\ Claim' = "none"
      BY <2>1, <2>2, ClaimFacts, ClaimNext, ConstantFacts
    <2> QED
      BY <2>3, <2>4, Zenon DEF Managed!Next, Managed!Forget
  <1>6. CASE UserCreates
    <2>1. PICK b \in BOOLEAN :
            /\ cr.life = "gone" /\ cr' = [NoCR EXCEPT !.life = "live", !.skip = b]
            /\ UNCHANGED <<prov, inst, sec, objs>>
      BY <1>6, Zenon DEF UserCreates, world
    <2>2. cr'.life = "live" /\ ~cr'.fin
      BY <2>1 DEF NoCR
    <2>3. Claim = "none" /\ Claim' = "asked" /\ Made' = Made
      BY <2>1, <2>2, ClaimFacts, ClaimNext, SameMade, Zenon
    <2> QED
      BY <2>3, Zenon DEF Managed!Next, Managed!Ask
  <1>7. CASE UserDeletes
    <2>1. cr.life = "live" /\ Made' = Made
      BY <1>7, SameMade, Zenon DEF UserDeletes
    <2>2. CASE cr.fin
      <3>1. cr' = [cr EXCEPT !.life = "deleting"]
        BY <1>7, <2>2, Zenon DEF UserDeletes
      <3>2. cr'.life = "deleting"
        BY <3>1, Parts, Zenon DEF CRs
      <3>3. Claim = "held" /\ Claim' = "released"
        BY <2>1, <2>2, <3>2, ClaimFacts, ClaimNext, Zenon
      <3> QED
        BY <2>1, <3>3, Zenon DEF Managed!Next, Managed!Release
    <2>3. CASE ~cr.fin
      <3>1. cr' = NoCR
        BY <1>7, <2>3, Zenon DEF UserDeletes
      <3>2. Claim = "asked" /\ Claim' = "none"
        BY <2>1, <2>3, <3>1, ClaimFacts, ClaimNext, ConstantFacts
      <3> QED
        BY <2>1, <3>2, Zenon DEF Managed!Next, Managed!Withdraw
    <2> QED
      BY <2>2, <2>3
  <1> QED
    BY <1>1, <1>2, <1>3, <1>4, <1>5, <1>6, <1>7, Kinds, Zenon

\* Every controller with every provider implements ManagedResource: things are
\* made only under the finalizer (CreateFinalizer comes first), and it is
\* dropped only when they are gone (RemoveFinalizer comes last).
THEOREM Refinement == Spec => ImplementsManagedResource
  <1>1. Init => Managed!Init
    <2> SUFFICES ASSUME Init PROVE Claim = "none" /\ Made = {}
      BY Zenon DEF Managed!Init
    <2>1. cr.life = "gone" /\ inst.state = "absent" /\ sec = NoPassword /\ objs = {}
      BY ConstantFacts DEF Init
    <2> QED
      BY <2>1, ClaimFacts, Zenon DEF Made
  <1>2. IInv /\ IInv' /\ [Next]_vars => [Managed!Next]_(Managed!vars)
    <2>1. ASSUME IInv, UNCHANGED vars PROVE Claim' = Claim /\ Made' = Made
      BY <2>1, SameClaim, SameMade, Zenon DEF vars, world
    <2> QED
      BY <2>1, SimulationStep, Zenon DEF Managed!vars
  <1> QED
    BY <1>1, <1>2, Invariance, PTL DEF Spec, ImplementsManagedResource, Managed!Spec
==============================================================================
