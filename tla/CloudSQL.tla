------------------------------ MODULE CloudSQL ------------------------------
(***************************************************************************)
(* The Postgres CR on GCP: ReconcilePostgres and DeletePostgres of         *)
(* pkg/providers/gcp/provider_postgres.go over one Cloud SQL instance and  *)
(* the credential secret.  "creating", "available", "modifying" and        *)
(* "deleting" are the states PENDING_CREATE, RUNNABLE, RUNNABLE with an    *)
(* operation under way, and PENDING_DELETE.  The shared network is the     *)
(* subject of GCPNetwork; here it may be pending.                          *)
(***************************************************************************)
EXTENDS Reconciler

\* CreateNetworkIpRange and CreateNetworkService; a message of theirs ends
\* the reconcile.
SQLNetwork ==
  /\ At("cloudsql", "network")
  /\ Branch("secret") \/ (~calm /\ Branch("progress"))

\* Seeded fault: the generated password is written on every reconcile.
CreateSQLSecret_Churns ==
  /\ At("cloudsql", "secret")
  /\ sec' \in Passwords
  /\ \/ pc' = "get" /\ loc' = [loc EXCEPT !.pass = sec']
     \/ ~calm /\ Goto("failed")
  /\ NotCR /\ UNCHANGED <<inst, objs, result>>

\* CreateOrUpdate with an empty mutate function: creates the secret with a
\* new password, or reads the one that is there.
CreateSQLSecret ==
  /\ At("cloudsql", "secret")
  /\ IF sec = NoPassword THEN sec' \in Passwords ELSE UNCHANGED sec
  /\ \/ pc' = "get" /\ loc' = [loc EXCEPT !.pass = sec']
     \/ ~calm /\ Goto("failed")
  /\ NotCR /\ UNCHANGED <<inst, objs, result>>

GetSQLInstance ==
  /\ At("cloudsql", "get")
  /\ pc' = "decide"
  /\ loc' = [loc EXCEPT !.seen = View]
  /\ NotCR /\ UNCHANGED world

\* A missing instance is created, also when the CR bears the annotation of an
\* earlier one.  The error "not found" is taken for success.
CreateSQLInstance ==
  /\ At("cloudsql", "decide")
  /\ loc.seen.state = "absent"
  /\ \/ /\ inst.state = "absent"
        /\ \E p \in BOOLEAN :
             inst' = [NoInstance EXCEPT !.state = "creating", !.prot = p,
                                        !.pw = loc.pass]
        /\ Reply("annotate_new")
     \/ ~calm /\ Goto("annotate_new") /\ UNCHANGED inst
     \/ inst.state # "absent" /\ Goto("failed") /\ UNCHANGED inst
  /\ NotCR /\ UNCHANGED <<sec, objs, result>>

AnnotateNewSQL ==
  /\ At("cloudsql", "annotate_new")
  /\ Store([cr EXCEPT !.anno = TRUE], "progress")

SQLInstanceFound ==
  /\ At("cloudsql", "decide")
  /\ loc.seen.state # "absent"
  /\ Branch(IF loc.anno THEN "found" ELSE "annotate")

AnnotateFoundSQL ==
  /\ At("cloudsql", "annotate")
  /\ Store([cr EXCEPT !.anno = TRUE], "found")

\* Only PENDING_CREATE is waited for.
SQLInstanceState ==
  /\ At("cloudsql", "found")
  /\ Branch(CASE loc.seen.state = "creating" -> "progress"
              [] loc.seen.state # "creating" /\ loc.seen.drift -> "modify"
              [] OTHER -> "publish")

\* A conflict with an operation under way is taken for success.
ModifySQLInstance ==
  /\ At("cloudsql", "modify")
  /\ \/ /\ inst.state = "available"
        /\ \E s \in {"available", "modifying"}, p \in BOOLEAN :
             inst' = [inst EXCEPT !.state = s, !.prot = p, !.drift = FALSE]
        /\ Reply("publish")
     \/ inst.state # "available" /\ Goto("publish") /\ UNCHANGED inst
     \/ inst.state \in {"absent", "deleting"} /\ Goto("failed") /\ UNCHANGED inst
  /\ NotCR /\ UNCHANGED <<sec, objs, result>>
----------------------------------------------------------------------------
(* DeletePostgres.                                                         *)

GetSQLForDelete ==
  /\ At("cloudsql", "d_get")
  /\ pc' = "d_decide"
  /\ loc' = [loc EXCEPT !.seen = View]
  /\ NotCR /\ UNCHANGED world

SQLAlreadyDeleting ==
  /\ At("cloudsql", "d_decide")
  /\ loc.seen.state = "deleting"
  /\ Branch("delprog")

\* Seeded fault: the patch does not send the field that is false.
DisableSQLProtection_NotSent ==
  /\ At("cloudsql", "d_decide")
  /\ loc.seen.state \notin {"absent", "deleting"}
  /\ loc.seen.prot
  /\ Branch("delprog")

\* ModifyInstance that turns the deletion protection off; a conflict with an
\* operation under way is taken for success.
DisableSQLProtection ==
  /\ At("cloudsql", "d_decide")
  /\ loc.seen.state \notin {"absent", "deleting"}
  /\ loc.seen.prot
  /\ \/ /\ inst.state = "available"
        /\ inst' = [inst EXCEPT !.prot = FALSE]
        /\ Reply("delprog")
     \/ inst.state # "available" /\ Goto("delprog") /\ UNCHANGED inst
     \/ inst.state \in {"absent", "deleting"} /\ Goto("failed") /\ UNCHANGED inst
  /\ NotCR /\ UNCHANGED <<sec, objs, result>>

\* A conflict is taken for success, "not found" is an error.
DeleteSQLInstance ==
  /\ At("cloudsql", "d_decide")
  /\ loc.seen.state \notin {"absent", "deleting"}
  /\ ~loc.seen.prot
  /\ \/ /\ inst.state = "available" /\ ~inst.prot
        /\ inst' = [inst EXCEPT !.state = "deleting"]
        /\ Reply("delprog")
     \/ inst.state \notin {"available", "absent"} /\ Goto("delprog") /\ UNCHANGED inst
     \/ /\ inst.state = "absent" \/ inst.prot
        /\ Goto("failed")
        /\ UNCHANGED inst
  /\ NotCR /\ UNCHANGED <<sec, objs, result>>

SQLInstanceGone ==
  /\ At("cloudsql", "d_decide")
  /\ loc.seen.state = "absent"
  /\ Branch("d_secret")

DeleteSQLSecret ==
  /\ At("cloudsql", "d_secret")
  /\ sec' = NoPassword
  /\ Reply("d_network")
  /\ NotCR /\ UNCHANGED <<inst, objs, result>>

\* The last CR waits until its network components are gone (GCPNetwork).
SQLNetworkGone ==
  /\ At("cloudsql", "d_network")
  /\ Branch("d_fin") \/ (~calm /\ Branch("delprog"))

CloudSQLWorker ==
  \/ SQLNetwork \/ CreateSQLSecret \/ GetSQLInstance \/ CreateSQLInstance
  \/ AnnotateNewSQL \/ SQLInstanceFound \/ AnnotateFoundSQL \/ SQLInstanceState
  \/ ModifySQLInstance \/ GetSQLForDelete \/ SQLAlreadyDeleting
  \/ DisableSQLProtection \/ DeleteSQLInstance \/ SQLInstanceGone
  \/ DeleteSQLSecret \/ SQLNetworkGone
============================================================================
