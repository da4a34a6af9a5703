-------------------------- MODULE SnapshotReconciler --------------------------
(***************************************************************************)
(* What the PostgresSnapshot and the RedisSnapshot controller have in      *)
(* common: the snapshot CRs of one parent (a Postgres or a Redis CR), the  *)
(* one worker of the controller, which takes up one snapshot CR at a time, *)
(* the user, crashes and lost answers.  AWSSnapshot and GCPSnapshot add    *)
(* the providers' calls, Snapshots puts them together.                     *)
(*                                                                         *)
(* A snapshot CR is named by its place in the order of creation.  As in    *)
(* PostgresRDS a write from an outdated copy of a CR is refused; w.fresh   *)
(* says that the worker's copy has the stored resourceVersion.             *)
(***************************************************************************)
EXTENDS Naturals, FiniteSets

CONSTANTS
  Kinds,    \* the kinds of snapshot of this instance, a subset of AllKinds
  MaxAWS,   \* how many snapshot CRs are ever created on AWS,
  MaxGCP    \* and on GCP, where they share a bucket and a schedule

\* RDS and Cloud SQL snapshots are PostgresSnapshot CRs, ElastiCache ones
\* RedisSnapshot CRs.
AllKinds == {"rds", "elasticache", "cloudsql"}
PostgresKinds == {"rds", "cloudsql"}

ASSUME KindsAssumption == Kinds \subseteq AllKinds
ASSUME MaxAssumption == MaxAWS \in Nat /\ MaxGCP \in Nat

Snaps == 1 .. (IF MaxAWS > MaxGCP THEN MaxAWS ELSE MaxGCP)
None == 0

VARIABLES
  kind,     \* the kind of snapshot, fixed by the parent's provider
  parent,   \* the parent CR with its database or replication group: see Parents
  cr,       \* the snapshot CRs as the API server stores them
  w,        \* the worker: the call it makes next, and its locals
  img,      \* the snapshot (for Cloud SQL the object in the bucket) of each CR
  bucket,   \* Cloud SQL: the bucket exists
  exp,      \* Cloud SQL: the CR whose export is running
  sch,      \* Cloud SQL: the Postgres worker at the scheduled snapshots
  old,      \* Cloud SQL: the CRs whose retention has expired
  history,  \* which of the events in Oddities have happened
  calm      \* no more faults, edits or changes of the parent from now on

cloud == <<img, bucket, exp>>
schedule == <<sch, old>>
rest == <<kind, parent, schedule, history, calm>>
vars == <<cr, w, cloud, rest>>
----------------------------------------------------------------------------
\* The parent before its first reconcile; its phase in progress without and
\* with a database, complete, and deleting; no parent.  Only a complete one
\* has a database from which AWS takes a snapshot.
Parents == {"new", "starting", "progress", "complete", "deleting", "gone"}

\* What the schedule does not allow for: the user deletes a snapshot CR, one
\* expires before it is complete, or a complete one is found not to be.  A
\* snapshot is deleted from AWS by hand.  An object is already there when its
\* export begins.
Oddities == {"schedule disturbed", "snapshot lost", "exported twice"}
Images == {"absent", "creating", "available", "deleting"}
CreateSteps ==
  {"finalizer", "id", "find", "group", "create", "meta", "bucket", "export", "skip",
   "protect", "others", "clear"}
DeleteSteps == {"d_find", "d_image", "d_object", "d_list", "d_bucket", "d_fin"}
StatusSteps == {"complete", "progress", "failed", "delprog"}
Steps == {"idle", "pin"} \cup CreateSteps \cup DeleteSteps \cup StatusSteps
StoreSteps == {"pin", "finalizer", "id", "protect", "d_fin"} \cup StatusSteps

NoSnap ==
  [life |-> "none", fin |-> FALSE, pinned |-> FALSE, id |-> FALSE, skip |-> FALSE,
   complete |-> FALSE]
Idle ==
  [pc |-> "idle", s |-> None, fresh |-> FALSE, par |-> "gone",
   seen |-> "absent", latest |-> None, clear |-> FALSE, todo |-> {}]
NoSchedule == [busy |-> FALSE, list |-> {}]

TypeOK ==
  /\ kind \in Kinds
  /\ parent \in Parents
  /\ cr \in [Snaps -> [life : {"none", "live", "deleting", "gone"}, fin : BOOLEAN,
                       pinned : BOOLEAN, id : BOOLEAN, skip : BOOLEAN,
                       complete : BOOLEAN]]
  /\ w \in [pc : Steps, s : Snaps \cup {None}, fresh : BOOLEAN, par : Parents,
            seen : Images, latest : Snaps \cup {None}, clear : BOOLEAN,
            todo : SUBSET Snaps]
  /\ img \in [Snaps -> Images]
  /\ bucket \in BOOLEAN
  /\ exp \in Snaps \cup {None}
  /\ sch \in [busy : BOOLEAN, list : SUBSET Snaps]
  /\ old \in SUBSET Snaps
  /\ history \in SUBSET Oddities
  /\ calm \in BOOLEAN

Init ==
  /\ kind \in Kinds
  /\ parent = "new"
  /\ cr = [s \in Snaps |-> NoSnap]
  /\ w = Idle
  /\ img = [s \in Snaps |-> "absent"] /\ bucket = FALSE /\ exp = None
  /\ sch = NoSchedule
  /\ old = {}
  /\ history = {}
  /\ calm = FALSE
----------------------------------------------------------------------------
(* How a call of the worker ends.                                          *)

At(l) == w.pc = l
Stored(s) == cr[s].life \in {"live", "deleting"}

\* A failed call of the provider is written to the status; the failure of a
\* write of the status, and a panic of the process, end the reconcile.
OnError(l) == IF l \in (CreateSteps \cup DeleteSteps) \ {"group"} THEN "failed" ELSE "idle"

\* The locals of the provider die when it returns, all others with the reconcile.
After(l, f) ==
  CASE l = "idle" -> Idle
    [] l \in StatusSteps -> [Idle EXCEPT !.pc = l, !.s = w.s, !.fresh = f]
    [] OTHER -> [w EXCEPT !.pc = l, !.fresh = f]
Goto(l) == w' = After(l, w.fresh)

\* The call took effect; its answer arrives, or is lost and looks like an error.
Reply(ok) == Goto(ok) \/ (~calm /\ Goto(OnError(w.pc)))

\* Nothing changes but the worker.
Branch(l) == Goto(l) /\ UNCHANGED <<cr, cloud, rest>>

Note(e, b) == history' = IF b THEN history \cup {e} ELSE history

\* Update or Status().Update of the CR with the worker's copy.
Store(new, ok) ==
  /\ w.fresh
  /\ cr' = [cr EXCEPT ![w.s] = new]
  /\ w' = After(ok, TRUE) \/ (~calm /\ w' = After(OnError(w.pc), FALSE))
  /\ Note("schedule disturbed",
          kind = "cloudsql" /\ new.life = "live" /\ cr[w.s].complete /\ ~new.complete)
  /\ UNCHANGED <<cloud, kind, parent, schedule, calm>>

\* The API server refuses a write from an outdated copy (or of a CR that is gone).
Conflict ==
  /\ w.pc \in StoreSteps
  /\ ~w.fresh
  /\ Branch(OnError(w.pc))

\* A call returns an error and has no effect; also an error of reading the
\* strategy, of the provider's credentials or of the session.
CallFails ==
  /\ ~At("idle")
  /\ ~calm
  /\ Branch(OnError(w.pc))
----------------------------------------------------------------------------
(* The controllers' Reconcile.                                             *)

FirstStep(s) ==
  CASE cr[s].life = "deleting" /\ kind # "cloudsql" -> "d_find"
    [] cr[s].life = "deleting" /\ kind = "cloudsql" -> IF cr[s].skip THEN "d_fin" ELSE "d_object"
    [] kind = "elasticache" /\ cr[s].complete /\ cr[s].life = "live" -> "idle"
    [] OTHER -> "finalizer"

ParentPhase == IF parent = "starting" THEN "progress" ELSE parent

\* Get of the snapshot CR and of its parent.  Without a parent, or with a
\* Redis CR that has no strategy yet, the snapshot fails, deleted or not.
Reconcile(s) ==
  /\ At("idle")
  /\ Stored(s)
  /\ LET l == CASE parent = "gone" -> "failed"
                [] kind = "elasticache" /\ parent = "new" -> "failed"
                [] kind \in PostgresKinds /\ parent # "gone" /\ ~cr[s].pinned -> "pin"
                [] OTHER -> FirstStep(s)
     IN \/ w' = IF l = "idle" THEN Idle
                ELSE [Idle EXCEPT !.pc = l, !.s = s, !.fresh = TRUE, !.par = ParentPhase]
        \/ ~calm /\ w' = [Idle EXCEPT !.pc = "failed", !.s = s, !.fresh = TRUE]
  /\ UNCHANGED <<cr, cloud, rest>>

\* status.strategy is stored before a provider is called.
PinStrategy ==
  /\ At("pin")
  /\ Store([cr[w.s] EXCEPT !.pinned = TRUE], FirstStep(w.s))

CreateFinalizer ==
  /\ At("finalizer")
  /\ Store([cr[w.s] EXCEPT !.fin = TRUE], "id")

\* status.snapshotID; the GCP provider first needs the parent's annotation,
\* which names the bucket.
StoreSnapshotID ==
  /\ At("id")
  /\ IF kind = "cloudsql" /\ w.par = "new"
     THEN Branch("failed")
     ELSE Store([cr[w.s] EXCEPT !.id = TRUE], IF kind = "cloudsql" THEN "meta" ELSE "find")

\* Of the phase only matters whether it is complete.
UpdateSnapshotPhase ==
  /\ w.pc \in StatusSteps
  /\ Store([cr[w.s] EXCEPT !.complete = At("complete")], "idle")

\* Seeded fault: the finalizer is taken from the worker's copy only.
RemoveFinalizer_NotStored ==
  /\ At("d_fin")
  /\ w' = After("delprog", w.fresh)
  /\ UNCHANGED <<cr, cloud, rest>>

\* The Update without the finalizer lets the API server drop the CR; the
\* controller then tries one more status update, which is refused.
RemoveFinalizer ==
  /\ At("d_fin")
  /\ w.fresh
  /\ cr' = [cr EXCEPT ![w.s] = [NoSnap EXCEPT !.life = "gone", !.skip = cr[w.s].skip]]
  /\ w' = After("delprog", FALSE) \/ (~calm /\ w' = After("failed", FALSE))
  /\ UNCHANGED <<cloud, rest>>
----------------------------------------------------------------------------
(* The environment.                                                        *)

\* The operator process dies; what it had in memory is gone.
Crash ==
  /\ ~At("idle")
  /\ ~calm
  /\ Branch("idle")

\* The stored CR s changes under the worker.
Outdates(s) == w' = [w EXCEPT !.fresh = @ /\ w.s # s]

Existing == {s \in Snaps : Stored(s)}
Created == {s \in Snaps : cr[s].life # "none"}

\* The next CR, created by the user or by the scheduler.
NewSnapshot ==
  /\ Cardinality(Created) < (IF kind = "cloudsql" THEN MaxGCP ELSE MaxAWS)
  /\ cr' = [cr EXCEPT ![Cardinality(Created) + 1].life = "live"]

\* With the finalizer on it the CR is only marked, without it is dropped.
Delete(s) ==
  cr' = [cr EXCEPT ![s] = IF cr[s].fin THEN [@ EXCEPT !.life = "deleting"]
                          ELSE [NoSnap EXCEPT !.life = "gone"]]

UserCreates ==
  /\ ~calm
  /\ NewSnapshot
  /\ UNCHANGED <<w, cloud, rest>>

UserDeletes(s) ==
  /\ cr[s].life = "live"
  /\ Delete(s)
  /\ Outdates(s)
  /\ Note("schedule disturbed", kind = "cloudsql")
  /\ UNCHANGED <<kind, parent, cloud, schedule, calm>>

\* The parent's own controller and its cloud resource, at any pace.
ParentMoves ==
  /\ ~calm
  /\ parent' \in CASE parent = "new" -> {"progress", "starting", "gone"}
                   [] parent = "deleting" -> {"gone"}
                   [] parent = "gone" -> {}
                   [] OTHER -> Parents \ {"new", "gone"}
  /\ parent' \in {"starting", "deleting"} => kind # "cloudsql"
  /\ UNCHANGED <<kind, cr, w, cloud, schedule, history, calm>>

CalmDown ==
  /\ ~calm
  /\ calm' = TRUE
  /\ UNCHANGED <<kind, parent, cr, w, cloud, schedule, history>>

Controller ==
  \/ \E s \in Snaps : Reconcile(s)
  \/ PinStrategy \/ CreateFinalizer \/ StoreSnapshotID \/ UpdateSnapshotPhase
  \/ RemoveFinalizer \/ Conflict

Environment ==
  \/ CallFails \/ Crash \/ UserCreates \/ ParentMoves \/ CalmDown
  \/ \E s \in Snaps : UserDeletes(s)
============================================================================
