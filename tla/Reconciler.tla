----------------------------- MODULE Reconciler -----------------------------
(***************************************************************************)
(* What the Postgres, the Redis and the BlobStorage controller have in     *)
(* common, whatever provider serves the custom resource (CR): the CR as    *)
(* the API server stores it, the worker that reconciles it, the result     *)
(* secret, the user, crashes and lost answers.  A module per provider        *)
(* extends this one with the calls of the provider's create and delete     *)
(* functions; Providers puts them together.                                *)
(*                                                                         *)
(* As in PostgresRDS a write from an outdated copy of the CR is refused;   *)
(* fresh says that the worker's copy has the stored resourceVersion.       *)
(***************************************************************************)
EXTENDS Naturals

CONSTANTS
  Provs,        \* the providers of this instance, a subset of AllProvs
  Passwords,    \* passwords GeneratePassword may return
  NoPassword    \* no secret, or no password in it

\* S3 with the default delete strategy, with forceBucketDeletion, and with STS.
S3Provs == {"s3", "s3_force", "s3_sts"}
OpenShiftProvs == {"oc_postgres", "oc_redis"}
AllProvs == {"elasticache", "memorystore", "cloudsql"} \cup OpenShiftProvs \cup S3Provs

ASSUME ProvsAssumption == Provs \subseteq AllProvs
ASSUME PasswordsAssumption == NoPassword \notin Passwords

VARIABLES
  prov,     \* the provider that supports the CR's strategy
  cr,       \* the CR as the API server stores it
  fresh,    \* the worker's copy of the CR has the stored resourceVersion
  pc,       \* the call the worker makes next
  loc,      \* the worker's local variables
  inst,     \* the cache, the database, the deployment or the bucket
  sec,      \* the password (for S3 the key) in the provider's credential secret
  objs,     \* the other objects the provider made in the cluster
  result,   \* the result secret that spec.secretRef names
  owed,     \* history: a window was opened to apply a difference that still stands
  calm      \* no more faults, edits or drift from now on

world == <<inst, sec, objs, result>>
vars == <<prov, cr, fresh, pc, loc, world, owed, calm>>
----------------------------------------------------------------------------
InstStates == {"absent", "creating", "available", "modifying", "deleting"}
Phases == {"", "complete", "progress", "paused", "failed", "deleting"}
MaybePassword == Passwords \cup {NoPassword}
PostgresProvs == {"cloudsql", "oc_postgres"}

CreateSteps ==
  {"finalizer", "window", "network", "pvc", "secret", "config", "deploy", "service",
   "get", "decide", "annotate_new", "annotate", "found", "modify", "updates",
   "settings", "credreq", "keys", "tag", "close"}
DeleteSteps ==
  {"d_get", "d_decide", "d_service", "d_pvc", "d_config", "d_deploy", "d_secret",
   "d_network", "d_size", "d_empty", "d_bucket", "d_creds", "d_fin"}
StatusSteps == {"paused", "progress", "delprog", "failed"}
Steps == {"idle", "publish", "complete"} \cup CreateSteps \cup DeleteSteps \cup StatusSteps

\* The calls that write the CR with the worker's copy.
StoreSteps ==
  {"finalizer", "annotate_new", "annotate", "close", "complete", "d_fin"}
    \cup StatusSteps

PhaseAt(l) == CASE l = "delprog" -> "deleting" [] OTHER -> l

\* An error of a provider or of the result secret is written to the status,
\* an error of a status update ends the reconcile.
OnError(l) ==
  IF l \in CreateSteps \cup DeleteSteps \cup {"publish"} THEN "failed" ELSE "idle"

NoCR ==
  [life |-> "gone", fin |-> FALSE, anno |-> FALSE, mw |-> FALSE, skip |-> FALSE,
   phase |-> ""]
NoInstance ==
  [state |-> "absent", drift |-> FALSE, prot |-> FALSE, upd |-> FALSE,
   full |-> FALSE, pw |-> NoPassword]
NoResult == [life |-> "none", pw |-> NoPassword]
NoView == [state |-> "absent", drift |-> FALSE, prot |-> FALSE, upd |-> FALSE]
NoLoc == [anno |-> FALSE, win |-> FALSE, pass |-> NoPassword, seen |-> NoView]

CRs ==
  [life : {"gone", "live", "deleting"}, fin : BOOLEAN, anno : BOOLEAN, mw : BOOLEAN,
   skip : BOOLEAN, phase : Phases]
Insts ==
  [state : InstStates, drift : BOOLEAN, prot : BOOLEAN, upd : BOOLEAN,
   full : BOOLEAN, pw : MaybePassword]
Results == [life : {"none", "owned", "orphan"}, pw : MaybePassword]
Views == [state : InstStates, drift : BOOLEAN, prot : BOOLEAN, upd : BOOLEAN]
Locals == [anno : BOOLEAN, win : BOOLEAN, pass : MaybePassword, seen : Views]
Objects == {"pvc", "config", "service", "credreq"}

TypeOK ==
  /\ prov \in Provs
  /\ cr \in CRs
  /\ fresh \in BOOLEAN
  /\ pc \in Steps
  /\ loc \in Locals
  /\ inst \in Insts
  /\ sec \in MaybePassword
  /\ objs \in SUBSET Objects
  /\ result \in Results
  /\ owed \in BOOLEAN
  /\ calm \in BOOLEAN

Init ==
  /\ prov \in Provs
  /\ cr = NoCR
  /\ fresh = FALSE
  /\ pc = "idle"
  /\ loc = NoLoc
  /\ inst = NoInstance
  /\ sec = NoPassword
  /\ objs = {}
  /\ result = NoResult
  /\ owed = FALSE
  /\ calm = FALSE
----------------------------------------------------------------------------
(* How a call of the worker ends.                                          *)

At(p, l) == prov = p /\ pc = l

\* What a listing or a Get shows of the instance.
View ==
  [state |-> inst.state, drift |-> inst.drift, prot |-> inst.prot, upd |-> inst.upd]

\* The worker goes to label l; its locals die when the reconcile returns or only
\* the status is left to be written.
Goto(l) ==
  /\ pc' = l
  /\ loc' = IF l \in {"idle"} \cup StatusSteps THEN NoLoc ELSE loc

\* The call took effect; its answer arrives, or is lost and looks like an error.
Reply(ok) == Goto(ok) \/ (~calm /\ Goto(OnError(pc)))

\* Nothing changes but the worker.
Branch(l) == Goto(l) /\ UNCHANGED <<prov, cr, fresh, world, calm>>

\* A call to the cloud or to an object other than the CR, made or refused.
NotCR == UNCHANGED <<prov, cr, fresh, calm>>

\* Update or Status().Update of the CR with the worker's copy.
Store(new, ok) ==
  /\ fresh
  /\ cr' = new
  /\ \/ Goto(ok) /\ fresh' = TRUE
     \/ ~calm /\ Goto(OnError(pc)) /\ fresh' = FALSE
  /\ UNCHANGED <<prov, world, calm>>

\* The API server refuses a write from an outdated copy (or of a CR that is gone).
Conflict ==
  /\ pc \in StoreSteps
  /\ ~fresh
  /\ pc = "close" => loc.win
  /\ pc = "annotate_new" => prov # "memorystore"
  /\ Branch(OnError(pc))

\* A call returns an error and has no effect; also an error of reading the
\* strategy, of the provider credentials, of the session or of IsLastResource.
CallFails ==
  /\ pc # "idle"
  /\ ~calm
  /\ Branch(OnError(pc))
----------------------------------------------------------------------------
(* The controller's Reconcile.                                             *)

FirstDeleteStep == IF prov \in OpenShiftProvs THEN "d_service" ELSE "d_get"

Reconcile ==
  /\ pc = "idle"
  /\ cr.life # "gone"
  /\ fresh' = TRUE
  /\ \/ pc' = CASE cr.life = "deleting" -> FirstDeleteStep
                [] cr.life = "live" /\ cr.skip -> "paused"
                [] OTHER -> "finalizer"
     \/ ~calm /\ pc' = "failed"     \* no strategy mapping for spec.type
  /\ loc' = [NoLoc EXCEPT !.anno = cr.anno]
  /\ UNCHANGED <<prov, cr, world, calm>>

AfterFinalizer ==
  CASE prov = "elasticache" -> "window"
    [] prov \in S3Provs -> "get"
    [] prov \in {"cloudsql", "memorystore"} -> "network"
    [] OTHER -> "pvc"

\* Seeded fault: an error of the finalizer's Update is ignored.
CreateFinalizer_IgnoresError ==
  /\ pc = "finalizer"
  /\ Goto(AfterFinalizer)
  /\ cr' = IF fresh THEN [cr EXCEPT !.fin = TRUE] ELSE cr
  /\ UNCHANGED <<prov, fresh, world, calm>>

\* Adds the finalizer; the Update is made even when it is already there.
CreateFinalizer ==
  /\ pc = "finalizer"
  /\ Store([cr EXCEPT !.fin = TRUE], AfterFinalizer)

\* CreateOrUpdate of the result secret; SetControllerReference refuses one
\* that still belongs to an earlier CR of the same name.
ReconcileResultSecret ==
  /\ pc = "publish"
  /\ \/ /\ result.life # "orphan"
        /\ result' = [life |-> "owned", pw |-> loc.pass]
        /\ Reply("complete")
     \/ result.life = "orphan" /\ Goto("failed") /\ UNCHANGED result
  /\ NotCR /\ UNCHANGED <<inst, sec, objs>>

SetComplete ==
  /\ pc = "complete"
  /\ Store([cr EXCEPT !.phase = "complete"], "idle")

\* The status update that ends every other reconcile.
UpdatePhase ==
  /\ pc \in StatusSteps
  /\ Store([cr EXCEPT !.phase = PhaseAt(pc)], "idle")

\* The ElastiCache and the S3 provider return an empty message then; after
\* the others the controller tries one more status update, which the API
\* server refuses.  The S3 provider that found no bucket goes on to ask for
\* its size, which is an error.
AfterRemoval ==
  CASE prov \in S3Provs /\ loc.seen.state = "absent" -> "failed"
    [] prov \in S3Provs /\ loc.seen.state # "absent" -> "idle"
    [] prov = "elasticache" -> "idle"
    [] OTHER -> "delprog"

\* The Update without the finalizer lets the API server drop the CR.
RemoveFinalizer ==
  /\ pc = "d_fin"
  /\ fresh
  /\ cr' = NoCR
  /\ fresh' = FALSE
  /\ result' = [result EXCEPT !.life = IF @ = "owned" THEN "orphan" ELSE @]
  /\ Goto(AfterRemoval) \/ (~calm /\ Goto("failed"))
  /\ UNCHANGED <<prov, inst, sec, objs, calm>>
----------------------------------------------------------------------------
(* The environment.                                                        *)

worker == <<pc, loc>>

\* The operator process dies; what it had in memory is gone.
Crash ==
  /\ pc # "idle"
  /\ ~calm
  /\ Branch("idle")

UserCreates ==
  /\ cr.life = "gone"
  /\ \E s \in BOOLEAN :
       /\ s => prov \notin S3Provs       \* a BlobStorage CR cannot be paused
       /\ cr' = [NoCR EXCEPT !.life = "live", !.skip = s]
  /\ UNCHANGED <<prov, fresh, worker, world, calm>>

\* Only the ElastiCache provider looks at spec.maintenanceWindow.  A CR can
\* be created paused and resumed later (PostgresRDS also pauses running ones).
UserEdits ==
  /\ cr.life = "live"
  /\ ~calm
  /\ \/ prov = "elasticache" /\ ~cr.mw /\ cr' = [cr EXCEPT !.mw = TRUE]
     \/ cr.skip /\ cr' = [cr EXCEPT !.skip = FALSE]
  /\ fresh' = FALSE
  /\ UNCHANGED <<prov, worker, world, calm>>

\* With the finalizer on it the CR is only marked, without it is dropped.
UserDeletes ==
  /\ cr.life = "live"
  /\ IF cr.fin
     THEN cr' = [cr EXCEPT !.life = "deleting"] /\ UNCHANGED result
     ELSE /\ cr' = NoCR
          /\ result' = [result EXCEPT !.life = IF @ = "owned" THEN "orphan" ELSE @]
  /\ fresh' = FALSE
  /\ UNCHANGED <<prov, worker, inst, sec, objs, calm>>

\* The garbage collector removes a result secret whose owner is gone.
CollectGarbage ==
  /\ result.life = "orphan"
  /\ result' = NoResult
  /\ UNCHANGED <<prov, cr, fresh, worker, inst, sec, objs, calm>>

CalmDown ==
  /\ ~calm
  /\ calm' = TRUE
  /\ UNCHANGED <<prov, cr, fresh, worker, world>>

Controller ==
  \/ Reconcile \/ CreateFinalizer \/ ReconcileResultSecret \/ SetComplete
  \/ UpdatePhase \/ RemoveFinalizer \/ Conflict

Environment ==
  \/ CallFails \/ Crash \/ UserCreates \/ UserEdits \/ UserDeletes
  \/ CollectGarbage \/ CalmDown
============================================================================
