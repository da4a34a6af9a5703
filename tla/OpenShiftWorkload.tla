------------------------- MODULE OpenShiftWorkload -------------------------
(***************************************************************************)
(* The Postgres and the Redis CR on OpenShift itself: ReconcilePostgres,   *)
(* CreateRedis and their deletions (pkg/providers/openshift) over a volume *)
(* claim, a config map (Redis) or a credential secret (Postgres), a        *)
(* deployment and a service.  inst is the deployment, objs the rest.       *)
(***************************************************************************)
EXTENDS Reconciler

OnOpenShift(l) == prov \in OpenShiftProvs /\ pc = l

\* immutableCreateOrUpdate of the object o.
Put(o, l) ==
  /\ objs' = objs \cup {o}
  /\ Reply(l)
  /\ NotCR /\ UNCHANGED <<inst, sec, result>>

CreatePVC ==
  /\ OnOpenShift("pvc")
  /\ Put("pvc", IF prov = "oc_postgres" THEN "secret" ELSE "config")

CreateConfigMap ==
  /\ OnOpenShift("config")
  /\ Put("config", "deploy")

\* A password that is already set is kept.
CreateSecret ==
  /\ OnOpenShift("secret")
  /\ IF sec = NoPassword THEN sec' \in Passwords ELSE UNCHANGED sec
  /\ Reply("deploy")
  /\ NotCR /\ UNCHANGED <<inst, objs, result>>

CreateDeployment ==
  /\ OnOpenShift("deploy")
  /\ inst' = IF inst.state = "absent" THEN [inst EXCEPT !.state = "creating"] ELSE inst
  /\ Reply("service")
  /\ NotCR /\ UNCHANGED <<sec, objs, result>>

CreateService ==
  /\ OnOpenShift("service")
  /\ Put("service", "get")

\* The deployment's status, then the password from the credential secret.
GetDeployment ==
  /\ OnOpenShift("get")
  /\ \/ /\ inst.state # "absent"
        /\ pc' = "found"
        /\ loc' = [loc EXCEPT !.seen = View, !.pass = sec]
     \/ inst.state = "absent" /\ Goto("failed")
  /\ NotCR /\ UNCHANGED world

\* An available deployment is published; the exec that grants the database
\* user its role may fail (CallFails).
DeploymentState ==
  /\ OnOpenShift("found")
  /\ Branch(IF loc.seen.state = "available" THEN "publish" ELSE "progress")
----------------------------------------------------------------------------
(* Deletion: each object is asked to go, "not found" is taken for success. *)

Drop(o, l) ==
  /\ objs' = objs \ {o}
  /\ Reply(l)
  /\ NotCR /\ UNCHANGED <<inst, sec, result>>

DeleteService == OnOpenShift("d_service") /\ Drop("service", "d_pvc")

DeletePVC ==
  /\ OnOpenShift("d_pvc")
  /\ Drop("pvc", IF prov = "oc_postgres" THEN "d_secret" ELSE "d_config")

DeleteConfigMap == OnOpenShift("d_config") /\ Drop("config", "d_deploy")

\* The secret that DeletePostgres asks to delete is called
\* postgres-credentials, the one that ReconcilePostgres made
\* <name>-postgres-credentials: the call meets "not found".
DeleteSecret ==
  /\ OnOpenShift("d_secret")
  /\ Branch("d_deploy")

DeleteDeployment ==
  /\ OnOpenShift("d_deploy")
  /\ inst' = NoInstance
  /\ Reply("d_fin")
  /\ NotCR /\ UNCHANGED <<sec, objs, result>>

OpenShiftWorker ==
  \/ CreatePVC \/ CreateConfigMap \/ CreateSecret \/ CreateDeployment
  \/ CreateService \/ GetDeployment \/ DeploymentState \/ DeleteService
  \/ DeletePVC \/ DeleteConfigMap \/ DeleteSecret \/ DeleteDeployment
============================================================================
