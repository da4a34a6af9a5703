---------------------------- MODULE PostgresRDS ----------------------------
(***************************************************************************)
(* The life of one Postgres custom resource (CR) that is served by the AWS *)
(* provider: the controller's Reconcile (controllers/postgres) together    *)
(* with ReconcilePostgres and DeletePostgres (pkg/providers/aws), one      *)
(* action per call that reads or changes shared state.  Between any two    *)
(* calls the operator can crash, the user can edit, delete or re-create    *)
(* the CR, and the RDS instance can change state on its own.               *)
(*                                                                         *)
(* The API server rejects a write made from an outdated copy of the CR.    *)
(* Only the worker's copy matters, so "its resourceVersion is current" is  *)
(* the Boolean fresh; the fields that the worker reads from the copy after *)
(* the Get are kept in loc.                                                *)
(***************************************************************************)
EXTENDS Naturals

CONSTANTS
  Passwords,    \* passwords GeneratePassword may return
  NoPassword,   \* no secret, or no password in it
  MayFail,      \* an RDS instance may end in the state "failed"
  ListMayMiss   \* the instance may be beyond the page DescribeDBInstances returns

ASSUME PasswordsAssumption == NoPassword \notin Passwords
ASSUME SwitchesAssumption == MayFail \in BOOLEAN /\ ListMayMiss \in BOOLEAN

VARIABLES
  cr,       \* the Postgres CR as the API server stores it
  fresh,    \* the worker's copy of the CR has the stored resourceVersion
  pc,       \* the call the worker makes next
  loc,      \* the worker's local variables
  rds,      \* the DB instance that bears this CR's identifier
  credSec,  \* password in the provider's <name>-aws-rds-credentials secret
  result,   \* the result secret that the CR's spec.secretRef names
  served,   \* history: this CR has been Complete
  calm      \* no more faults, edits or drift from now on

vars == <<cr, fresh, pc, loc, rds, credSec, result, served, calm>>
----------------------------------------------------------------------------
Lives == {"gone", "live", "deleting"}
Phases == {"", "complete", "progress", "paused", "failed", "deleting"}
RdsStates == {"absent", "creating", "available", "modifying", "deleting", "failed"}
MaybePassword == Passwords \cup {NoPassword}

\* The calls of ReconcilePostgres, of DeletePostgres, and the status updates
\* that end a reconcile.
CreateSteps ==
  {"finalizer", "window", "credsec", "list", "decide", "annotate_new", "annotate",
   "close"}
DeleteSteps == {"d_list", "d_decide", "d_secret", "d_fin"}
StatusSteps == {"paused", "progress", "delprog", "fail_clear", "fail_keep"}
Steps == {"idle", "publish", "complete"} \cup CreateSteps \cup DeleteSteps \cup StatusSteps

\* The phase that a status update writes.
PhaseAt(l) ==
  CASE l = "paused" -> "paused"
    [] l = "progress" -> "progress"
    [] l = "delprog" -> "deleting"
    [] OTHER -> "failed"

\* Where a call that returns an error leaves the worker: an error of
\* ReconcilePostgres clears status.secretRef, the other errors keep it, and
\* an error of a status update ends the reconcile.
OnError(l) ==
  CASE l \in CreateSteps -> "fail_clear"
    [] l \in DeleteSteps \cup {"publish"} -> "fail_keep"
    [] OTHER -> "idle"

\* The calls that write the CR with the worker's copy.
StoreSteps ==
  {"finalizer", "annotate_new", "annotate", "close", "complete", "d_fin"}
    \cup StatusSteps

NoCR ==
  [life |-> "gone", fin |-> FALSE, anno |-> FALSE, mw |-> FALSE,
   skip |-> FALSE, phase |-> "", ref |-> FALSE]
NoInstance ==
  [state |-> "absent", prot |-> FALSE, drift |-> FALSE, pw |-> NoPassword]
NoView == [state |-> "absent", prot |-> FALSE, drift |-> FALSE]
NoLoc == [anno |-> FALSE, win |-> FALSE, pass |-> NoPassword, found |-> NoView]

\* The CR's spec, status and metadata, a DB instance, what a listing shows of
\* it, and the worker's locals.
CRs ==
  [life : Lives, fin : BOOLEAN, anno : BOOLEAN, mw : BOOLEAN, skip : BOOLEAN,
   phase : Phases, ref : BOOLEAN]
Instances ==
  [state : RdsStates, prot : BOOLEAN, drift : BOOLEAN, pw : MaybePassword]
Views == [state : RdsStates, prot : BOOLEAN, drift : BOOLEAN]
Locals == [anno : BOOLEAN, win : BOOLEAN, pass : MaybePassword, found : Views]
Results == [pw : MaybePassword, owned : BOOLEAN]

TypeOK ==
  /\ cr \in CRs
  /\ fresh \in BOOLEAN
  /\ pc \in Steps
  /\ loc \in Locals
  /\ rds \in Instances
  /\ credSec \in MaybePassword
  /\ result \in Results
  /\ served \in BOOLEAN
  /\ calm \in BOOLEAN

Init ==
  /\ cr = NoCR
  /\ fresh = FALSE
  /\ pc = "idle"
  /\ loc = NoLoc
  /\ rds = NoInstance
  /\ credSec = NoPassword
  /\ result = [pw |-> NoPassword, owned |-> FALSE]
  /\ served = FALSE
  /\ calm = FALSE
----------------------------------------------------------------------------
(* The worker's calls.                                                     *)

cloud == <<rds, credSec, result>>

\* The worker goes to label l; its locals die when the reconcile returns.
Goto(l) ==
  /\ pc' = l
  /\ loc' = IF l = "idle" THEN NoLoc ELSE loc

\* The call took effect; its answer arrives, or is lost and looks like an error.
Reply(ok) == Goto(ok) \/ (~calm /\ Goto(OnError(pc)))

\* Update or Status().Update of the CR with the worker's copy.
Store(new, ok) ==
  /\ fresh
  /\ cr' = new
  /\ \/ Goto(ok) /\ fresh' = TRUE
     \/ ~calm /\ Goto(OnError(pc)) /\ fresh' = FALSE

\* The API server refuses a write from an outdated copy (or of a CR that is gone).
Conflict ==
  /\ pc \in StoreSteps
  /\ ~fresh
  /\ pc = "close" => loc.win
  /\ Goto(OnError(pc))
  /\ UNCHANGED <<cr, fresh, cloud, served, calm>>

\* A call returns an error and has no effect.  At "window", "list", "d_list"
\* and "d_decide" this also stands for an error of the configuration, of the
\* credentials, of the session, of IsLastResource or of the network manager.
CallFails ==
  /\ pc # "idle"
  /\ ~calm
  /\ Goto(OnError(pc))
  /\ UNCHANGED <<cr, fresh, cloud, served, calm>>

\* Reconcile: Get of the CR, strategy mapping, and the choice between the
\* deletion, the skipCreate and the creation branch.
Reconcile ==
  /\ pc = "idle"
  /\ cr.life # "gone"
  /\ fresh' = TRUE
  /\ \/ /\ pc' = CASE cr.life = "deleting" -> "d_list"
                   [] cr.life # "deleting" /\ cr.skip -> "paused"
                   [] OTHER -> "finalizer"
     \/ ~calm /\ pc' = "fail_keep"     \* no strategy mapping for spec.type
  /\ loc' = [NoLoc EXCEPT !.anno = cr.anno]
  /\ UNCHANGED <<cr, cloud, served, calm>>

\* Seeded fault: an error of the finalizer's Update is ignored.
CreateFinalizer_IgnoresError ==
  /\ pc = "finalizer"
  /\ Goto("window")
  /\ IF fresh THEN cr' = [cr EXCEPT !.fin = TRUE] ELSE UNCHANGED cr
  /\ UNCHANGED <<fresh, cloud, served, calm>>

\* Adds the finalizer; the Update is made even when it is already there.
CreateFinalizer ==
  /\ pc = "finalizer"
  /\ Store([cr EXCEPT !.fin = TRUE], "window")
  /\ UNCHANGED <<cloud, served, calm>>

\* A Get of its own: the flag can be newer than the worker's copy.
VerifyPostgresMaintenanceWindow ==
  /\ pc = "window"
  /\ cr.life # "gone"
  /\ pc' = "credsec"
  /\ loc' = [loc EXCEPT !.win = cr.mw]
  /\ UNCHANGED <<cr, fresh, cloud, served, calm>>

\* Seeded fault: the generated password is written on every reconcile.
CreateCredentialSecret_Churns ==
  /\ pc = "credsec"
  /\ credSec' \in Passwords
  /\ Reply("list")
  /\ UNCHANGED <<cr, fresh, rds, result, served, calm>>

\* CreateOrUpdate with an empty mutate function: creates the secret with a
\* new password, never changes an existing one.
CreateCredentialSecret ==
  /\ pc = "credsec"
  /\ IF credSec = NoPassword THEN credSec' \in Passwords ELSE UNCHANGED credSec
  /\ Reply("list")
  /\ UNCHANGED <<cr, fresh, rds, result, served, calm>>

View == [state |-> rds.state, prot |-> rds.prot, drift |-> rds.drift]

\* What getRDSInstances and the search by identifier can come back with.
Listing == {View} \cup (IF ListMayMiss THEN {NoView} ELSE {})

\* DescribeDBInstances, then the password from the credential secret.
GetRDSInstances ==
  /\ pc = "list"
  /\ \E v \in Listing : loc' = [loc EXCEPT !.found = v, !.pass = credSec]
  /\ pc' = "decide"
  /\ UNCHANGED <<cr, fresh, cloud, served, calm>>
----------------------------------------------------------------------------
(* reconcileRDSInstance, from the listing on.                              *)

InstanceNotReady ==
  /\ pc = "decide"
  /\ loc.found.state \notin {"absent", "available"}
  /\ Goto(IF loc.found.state = "failed" THEN "fail_clear" ELSE "progress")
  /\ UNCHANGED <<cr, fresh, cloud, served, calm>>

NeedsModify == loc.found.state = "available" /\ loc.win /\ loc.found.drift

\* Seeded fault: the modification misses the field that differs.
ModifyDBInstance_MissesField ==
  /\ pc = "decide"
  /\ NeedsModify
  /\ rds.state = "available"
  /\ Reply("progress")
  /\ UNCHANGED <<cr, fresh, cloud, served, calm>>

\* In a maintenance window the differences to the strategy are handed to RDS,
\* which applies them at once or keeps them pending.
ModifyDBInstance ==
  /\ pc = "decide"
  /\ NeedsModify
  /\ rds.state = "available"
  /\ \E s \in {"available", "modifying"}, p \in BOOLEAN :
       rds' = [rds EXCEPT !.state = s, !.prot = p, !.drift = FALSE]
  /\ Reply("progress")
  /\ UNCHANGED <<cr, fresh, credSec, result, served, calm>>

\* Seeded fault: a missing annotation is not restored.
InstanceAsExpected_NotAnnotated ==
  /\ pc = "decide"
  /\ loc.found.state = "available"
  /\ ~NeedsModify
  /\ Goto("close")
  /\ UNCHANGED <<cr, fresh, cloud, served, calm>>

InstanceAsExpected ==
  /\ pc = "decide"
  /\ loc.found.state = "available"
  /\ ~NeedsModify
  /\ Goto(IF loc.anno THEN "close" ELSE "annotate")
  /\ UNCHANGED <<cr, fresh, cloud, served, calm>>

\* The CR says that an instance was provisioned, but there is none.
InstanceLost ==
  /\ pc = "decide"
  /\ loc.found.state = "absent"
  /\ loc.anno
  /\ Goto("fail_clear")
  /\ UNCHANGED <<cr, fresh, cloud, served, calm>>

CreateDBInstance ==
  /\ pc = "decide"
  /\ loc.found.state = "absent"
  /\ ~loc.anno
  /\ rds.state = "absent"
  /\ loc.pass # NoPassword
  /\ \E p \in BOOLEAN :
       rds' = [state |-> "creating", prot |-> p, drift |-> FALSE, pw |-> loc.pass]
  /\ Reply("annotate_new")
  /\ UNCHANGED <<cr, fresh, credSec, result, served, calm>>

\* addAnnotation after CreateDBInstance.
AnnotateNew ==
  /\ pc = "annotate_new"
  /\ Store([cr EXCEPT !.anno = TRUE], "progress")
  /\ UNCHANGED <<cloud, served, calm>>

\* addAnnotation on an instance found without one.
AnnotateFound ==
  /\ pc = "annotate"
  /\ Store([cr EXCEPT !.anno = TRUE], "close")
  /\ UNCHANGED <<cloud, served, calm>>

\* The end of ReconcilePostgres in a maintenance window: service updates that
\* are under way keep the window open, otherwise it is closed on the CR.
CloseWindow ==
  /\ pc = "close"
  /\ loc.win
  /\ \/ Store([cr EXCEPT !.mw = FALSE], "publish")
     \/ ~calm /\ Goto("progress") /\ UNCHANGED <<cr, fresh>>
  /\ UNCHANGED <<cloud, served, calm>>

NoWindow ==
  /\ pc = "close"
  /\ ~loc.win
  /\ Goto("publish")
  /\ UNCHANGED <<cr, fresh, cloud, served, calm>>

\* CreateOrUpdate of the result secret; SetControllerReference refuses one
\* that still belongs to an earlier CR of the same name.
ReconcileResultSecret ==
  /\ pc = "publish"
  /\ \/ /\ result.pw = NoPassword \/ result.owned
        /\ result' = [pw |-> loc.pass, owned |-> TRUE]
        /\ Reply("complete")
     \/ /\ result.pw # NoPassword /\ ~result.owned
        /\ Goto("fail_keep")
        /\ UNCHANGED result
  /\ UNCHANGED <<cr, fresh, rds, credSec, served, calm>>

SetComplete ==
  /\ pc = "complete"
  /\ Store([cr EXCEPT !.phase = "complete", !.ref = TRUE], "idle")
  /\ served' = TRUE
  /\ UNCHANGED <<cloud, calm>>

\* Seeded fault: the instance's state is stored as the phase.
UpdatePhase_RawState ==
  /\ pc \in StatusSteps
  /\ Store([cr EXCEPT !.phase = loc.found.state], "idle")
  /\ UNCHANGED <<cloud, served, calm>>

\* The status update that ends every other reconcile.
UpdatePhase ==
  /\ pc \in StatusSteps
  /\ Store([cr EXCEPT !.phase = PhaseAt(pc),
                      !.ref = @ /\ pc \notin {"progress", "fail_clear"}], "idle")
  /\ UNCHANGED <<cloud, served, calm>>
----------------------------------------------------------------------------
(* DeletePostgres.                                                         *)

ListForDelete ==
  /\ pc = "d_list"
  /\ \E v \in Listing : loc' = [loc EXCEPT !.found = v]
  /\ pc' = "d_decide"
  /\ UNCHANGED <<cr, fresh, cloud, served, calm>>

DeleteWaits ==
  /\ pc = "d_decide"
  /\ loc.found.state \notin {"absent", "available"}
  /\ Goto("delprog")
  /\ UNCHANGED <<cr, fresh, cloud, served, calm>>

\* DeleteDBInstance; the error "not found" is taken for success.
DeleteDBInstance ==
  /\ pc = "d_decide"
  /\ loc.found.state = "available"
  /\ ~loc.found.prot
  /\ \/ /\ rds.state = "available" /\ ~rds.prot
        /\ rds' = [rds EXCEPT !.state = "deleting"]
        /\ Reply("delprog")
     \/ rds.state = "absent" /\ Goto("delprog") /\ UNCHANGED rds
  /\ UNCHANGED <<cr, fresh, credSec, result, served, calm>>

\* Seeded fault: the modification does not turn the protection off.
DisableProtection_NoEffect ==
  /\ pc = "d_decide"
  /\ loc.found.state = "available"
  /\ loc.found.prot
  /\ rds.state = "available"
  /\ Reply("delprog")
  /\ UNCHANGED <<cr, fresh, cloud, served, calm>>

\* ModifyDBInstance that turns the deletion protection off.
DisableProtection ==
  /\ pc = "d_decide"
  /\ loc.found.state = "available"
  /\ loc.found.prot
  /\ rds.state = "available"
  /\ \E s \in {"available", "modifying"} :
       rds' = [rds EXCEPT !.state = s, !.prot = FALSE]
  /\ Reply("delprog")
  /\ UNCHANGED <<cr, fresh, credSec, result, served, calm>>

\* RDS refuses a call that its state has overtaken since the listing.
RefusedByRDS ==
  /\ \/ pc = "decide" /\ NeedsModify /\ rds.state # "available"
     \/ /\ pc = "decide" /\ loc.found.state = "absent" /\ ~loc.anno
        /\ rds.state # "absent" \/ loc.pass = NoPassword
     \/ /\ pc = "d_decide" /\ loc.found.state = "available"
        /\ IF loc.found.prot
           THEN rds.state # "available"
           ELSE rds.state \notin {"absent", "available"}
                  \/ (rds.state = "available" /\ rds.prot)
  /\ Goto(OnError(pc))
  /\ UNCHANGED <<cr, fresh, cloud, served, calm>>

\* No instance: the shared network is removed if this was its last user (its
\* errors are in CallFails), then the credential secret goes.
InstanceGone ==
  /\ pc = "d_decide"
  /\ loc.found.state = "absent"
  /\ Goto("d_secret")
  /\ UNCHANGED <<cr, fresh, cloud, served, calm>>

DeleteCredentialSecret ==
  /\ pc = "d_secret"
  /\ credSec' = NoPassword
  /\ Reply("d_fin")
  /\ UNCHANGED <<cr, fresh, rds, result, served, calm>>

\* The Update without the finalizer lets the API server drop the CR; the
\* empty status message makes the controller skip its own status update.
RemoveFinalizer ==
  /\ pc = "d_fin"
  /\ fresh
  /\ cr' = NoCR
  /\ fresh' = FALSE
  /\ result' = [result EXCEPT !.owned = FALSE]
  /\ Goto("idle") \/ (~calm /\ Goto("fail_keep"))
  /\ UNCHANGED <<rds, credSec, served, calm>>
----------------------------------------------------------------------------
(* The environment.                                                        *)

worker == <<pc, loc>>

\* The operator process dies; what it had in memory is gone.
Crash ==
  /\ pc # "idle"
  /\ ~calm
  /\ Goto("idle")
  /\ UNCHANGED <<cr, fresh, cloud, served, calm>>

UserCreates ==
  /\ cr.life = "gone"
  /\ \E m, s \in BOOLEAN :
       cr' = [NoCR EXCEPT !.life = "live", !.mw = m, !.skip = s]
  /\ served' = FALSE
  /\ UNCHANGED <<fresh, worker, cloud, calm>>

UserEdits ==
  /\ cr.life = "live"
  /\ ~calm
  /\ \/ cr' = [cr EXCEPT !.mw = TRUE]
     \/ cr' = [cr EXCEPT !.skip = ~@]
  /\ fresh' = FALSE
  /\ UNCHANGED <<worker, cloud, served, calm>>

\* With the finalizer on it the CR is only marked, without it is dropped.
UserDeletes ==
  /\ cr.life = "live"
  /\ IF cr.fin
     THEN cr' = [cr EXCEPT !.life = "deleting"] /\ UNCHANGED result
     ELSE cr' = NoCR /\ result' = [result EXCEPT !.owned = FALSE]
  /\ fresh' = FALSE
  /\ UNCHANGED <<worker, rds, credSec, served, calm>>

\* The garbage collector removes a result secret whose owner is gone.
CollectGarbage ==
  /\ result.pw # NoPassword
  /\ ~result.owned
  /\ result' = [result EXCEPT !.pw = NoPassword]
  /\ UNCHANGED <<cr, fresh, worker, rds, credSec, served, calm>>

RdsProgress ==
  /\ \/ /\ rds.state \in {"creating", "modifying"}
        /\ rds' = [rds EXCEPT !.state = "available"]
     \/ rds.state = "deleting" /\ rds' = NoInstance
  /\ UNCHANGED <<cr, fresh, worker, credSec, result, served, calm>>

RdsFails ==
  /\ MayFail
  /\ rds.state \in {"creating", "modifying"}
  /\ rds' = [rds EXCEPT !.state = "failed"]
  /\ UNCHANGED <<cr, fresh, worker, credSec, result, served, calm>>

\* Changes nobody asked the operator for: maintenance by AWS, a new strategy
\* in the config map, a deletion in the AWS console.
OutOfBand ==
  /\ ~calm
  /\ \/ rds.state = "available" /\ rds' = [rds EXCEPT !.state = "modifying"]
     \/ rds.state # "absent" /\ rds' = [rds EXCEPT !.drift = TRUE]
     \/ /\ rds.state \in {"creating", "available", "failed"}
        /\ rds' = [rds EXCEPT !.state = "deleting", !.prot = FALSE]
  /\ UNCHANGED <<cr, fresh, worker, credSec, result, served, calm>>

CalmDown ==
  /\ ~calm
  /\ calm' = TRUE
  /\ UNCHANGED <<cr, fresh, worker, cloud, served>>
----------------------------------------------------------------------------
Worker ==
  \/ Reconcile \/ CreateFinalizer \/ VerifyPostgresMaintenanceWindow
  \/ CreateCredentialSecret \/ GetRDSInstances \/ InstanceNotReady
  \/ ModifyDBInstance \/ InstanceAsExpected \/ InstanceLost
  \/ CreateDBInstance \/ AnnotateNew \/ AnnotateFound \/ CloseWindow
  \/ NoWindow \/ ReconcileResultSecret \/ SetComplete \/ UpdatePhase
  \/ ListForDelete \/ DeleteWaits \/ DeleteDBInstance \/ DisableProtection
  \/ RefusedByRDS \/ InstanceGone \/ DeleteCredentialSecret
  \/ RemoveFinalizer \/ Conflict

Environment ==
  \/ CallFails \/ Crash \/ UserCreates \/ UserEdits \/ UserDeletes
  \/ CollectGarbage \/ RdsProgress \/ RdsFails \/ OutOfBand \/ CalmDown

Next == Worker \/ Environment

Spec == Init /\ [][Next]_vars

\* Reconciles are requeued until they succeed, RDS finishes what it started,
\* the garbage collector runs, and faults end at some time.
Fairness ==
  /\ WF_vars(Worker)
  /\ WF_vars(RdsProgress)
  /\ WF_vars(CollectGarbage)
  /\ WF_vars(CalmDown)

FairSpec == Spec /\ Fairness
----------------------------------------------------------------------------
(* Properties.                                                             *)

\* README, Design: "Deletion of a custom resource should result in the
\* deletion of the resource in the cloud-provider".  While a DB instance
\* exists its CR exists too and bears the finalizer, so that a deletion of the
\* CR has to pass through DeletePostgres (provider_postgres.go:134, 569-666),
\* whatever crash, lost answer or conflict comes in between.
NoOrphanInstance ==
  rds.state # "absent" => cr.life # "gone" /\ cr.fin

\* The credential secret has no owner reference: nothing but DeletePostgres
\* (provider_postgres.go:649-659) removes it, so it too must never outlive
\* the finalizer.
NoOrphanCredentials ==
  credSec # NoPassword => cr.life # "gone" /\ cr.fin

\* A CR that reports Complete has published a secret with the password that
\* the running instance was created with (provider_postgres.go:159-166,
\* 297-310, 379 and provider.go:36-70), also when the CR is a re-creation of
\* one whose secrets or instance have not gone yet.
PublishedSecretOpensDatabase ==
  cr.phase = "complete" /\ rds.state # "absent"
    => result.owned /\ result.pw = rds.pw /\ rds.pw # NoPassword

\* The ResourceIdentifier annotation (provider_postgres.go:385-401): once a CR
\* has been Complete, an instance that disappears is never replaced by a new,
\* empty one, however the annotation's first write ended.
NeverRecreatedAfterService ==
  [][served /\ rds.state = "absent" /\ cr.life # "gone" => rds'.state = "absent"]_vars

Claim ==
  CASE cr.life = "gone" -> "none"
    [] cr.life = "deleting" -> "released"
    [] cr.life = "live" /\ cr.fin -> "held"
    [] OTHER -> "asked"

Made ==
  (IF rds.state # "absent" THEN {"instance"} ELSE {})
    \cup (IF credSec # NoPassword THEN {"credentials"} ELSE {})

Managed == INSTANCE ManagedResource
  WITH Things <- {"instance", "credentials"}, claim <- Claim, made <- Made

\* Reconcile, ReconcilePostgres and DeletePostgres together keep the promise
\* of ManagedResource for the DB instance and the credential secret: the order
\* of their calls is right in every interleaving with crashes and users.
ImplementsManagedResource == Managed!Spec

\* A deletion, once requested, ends: the instance, the credential secret and
\* the CR go (postgres_controller.go:179-193 requeues until they have).
DeletionCompletes ==
  cr.life = "deleting" ~> cr.life = "gone"

\* A live CR is served in the end, unless the user pauses or deletes it or its
\* annotated instance has disappeared or failed (provider_postgres.go:338, 397).
ServiceCompletes ==
  cr.life = "live" ~>
    \/ cr.life = "live" /\ cr.phase = "complete" /\ cr.ref
    \/ cr.life # "live"
    \/ cr.skip
    \/ rds.state = "failed"
    \/ cr.anno /\ rds.state \in {"deleting", "absent"}
============================================================================
