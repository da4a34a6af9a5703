------------------------ MODULE ResourceController -------------------------
(***************************************************************************)
(* What the controllers have in common, whatever they provide: Reconcile   *)
(* picks the deployment strategy (the one in the CR's status, else the one *)
(* in the config map), and the provider that supports it makes or deletes  *)
(* the resource.  All providers use the same finalizer, so the provider    *)
(* that lets a CR go has to be the one that made its resource.             *)
(***************************************************************************)

CONSTANTS
  Strategies,    \* deployment strategies, each with a provider that supports it
  NoStrategy,    \* none, or one that no provider supports
  NoEntry,       \* the config map has no readable entry for the deployment type
  PersistFirst,  \* the strategy is stored before the provider is called: TRUE of
                 \* the PostgresSnapshot controller.  FALSE of Postgres, Redis and
                 \* BlobStorage, whose test for a difference follows the assignment
  NeedsParent    \* Reconcile fails without the CR that the snapshot is of

ASSUME StrategiesAssumption ==
  NoStrategy \notin Strategies /\ NoEntry \notin Strategies \cup {NoStrategy}
ASSUME SwitchesAssumption == PersistFirst \in BOOLEAN /\ NeedsParent \in BOOLEAN

VARIABLES
  cr,      \* the CR as the API server stores it
  fresh,   \* the worker's copy has the stored resourceVersion
  pc,
  loc,     \* what the worker read: strategy to use, deletion timestamp
  cfg,     \* the strategy in the config map
  made,    \* the strategies whose provider has made a resource for this CR
  parent,  \* the CR that the snapshot is of exists
  calm     \* no more faults and edits from now on

vars == <<cr, fresh, pc, loc, cfg, made, parent, calm>>
----------------------------------------------------------------------------
MaybeStrategy == Strategies \cup {NoStrategy}
CRs == [life : {"gone", "live", "deleting"}, fin : BOOLEAN, strat : MaybeStrategy]
Locals == [use : MaybeStrategy, del : BOOLEAN]
Steps == {"idle", "pin", "finalizer", "create", "delete", "d_fin", "status"}

NoCR == [life |-> "gone", fin |-> FALSE, strat |-> NoStrategy]
NoLoc == [use |-> NoStrategy, del |-> FALSE]

TypeOK ==
  /\ cr \in CRs
  /\ fresh \in BOOLEAN
  /\ pc \in Steps
  /\ loc \in Locals
  /\ cfg \in MaybeStrategy \cup {NoEntry}
  /\ made \in SUBSET Strategies
  /\ parent \in BOOLEAN
  /\ calm \in BOOLEAN

Init ==
  /\ cr = NoCR
  /\ fresh = FALSE
  /\ pc = "idle"
  /\ loc = NoLoc
  /\ cfg \in Strategies
  /\ made = {}
  /\ parent = TRUE
  /\ calm = FALSE
----------------------------------------------------------------------------
world == <<cfg, made, parent, calm>>

Goto(l) == pc' = l /\ loc' = IF l = "idle" THEN NoLoc ELSE loc

\* A write with the worker's copy; its answer may be lost.
Store(new, ok) ==
  /\ fresh
  /\ cr' = new
  /\ \/ Goto(ok) /\ fresh' = TRUE
     \/ ~calm /\ Goto("idle") /\ fresh' = FALSE

Conflict ==
  /\ pc \in {"pin", "finalizer", "d_fin", "status"}
  /\ ~fresh
  /\ Goto("idle")
  /\ UNCHANGED <<cr, fresh, world>>

\* Seeded fault: the config map has the last word.
StrategyToUse_ConfigWins == cfg

StrategyToUse == IF cr.strat # NoStrategy THEN cr.strat ELSE cfg

SupportsStrategy(s) == s \in Strategies

\* spec.skipCreate is set while somebody works on the resource by hand.
SkipCreate == cr.life = "live" /\ ~NeedsParent /\ ~calm

\* The config map is read, and its entry parsed, even if the status has a strategy.
CanServe ==
  /\ NeedsParent => parent
  /\ cfg # NoEntry
  /\ SupportsStrategy(StrategyToUse)

\* Get of the CR and, for a snapshot, of the CR that it is of.
Reconcile ==
  /\ pc = "idle"
  /\ cr.life # "gone"
  /\ CanServe
  /\ fresh' = TRUE
  /\ loc' = [use |-> StrategyToUse, del |-> cr.life = "deleting"]
  /\ \/ PersistFirst /\ cr.strat = NoStrategy /\ pc' = "pin"
     \/ /\ PersistFirst => cr.strat # NoStrategy
        /\ \/ cr.life = "deleting" /\ pc' = "delete"
           \/ cr.life = "live" /\ pc' = "finalizer"
           \/ SkipCreate /\ pc' = "status"
  /\ UNCHANGED <<cr, world>>

\* Nothing can be done: the phase becomes Failed, the strategy stays as it was.
ReconcileFails ==
  /\ pc = "idle"
  /\ cr.life # "gone"
  /\ ~CanServe
  /\ UNCHANGED vars

\* Status().Update with the strategy, before the provider is called.
PersistStrategy ==
  /\ pc = "pin"
  /\ Store([cr EXCEPT !.strat = loc.use], IF loc.del THEN "delete" ELSE "finalizer")
  /\ UNCHANGED world

\* Seeded fault: an error of the finalizer's Update is ignored.
CreateFinalizer_IgnoresError ==
  /\ pc = "finalizer"
  /\ Goto("create")
  /\ IF fresh THEN cr' = [cr EXCEPT !.fin = TRUE] ELSE UNCHANGED cr
  /\ UNCHANGED <<fresh, world>>

CreateFinalizer ==
  /\ pc = "finalizer"
  /\ Store([cr EXCEPT !.fin = TRUE], "create")
  /\ UNCHANGED world

\* ReconcilePostgres, CreateRedis, CreateStorage, CreatePostgresSnapshot: the
\* resource is made now, was made before, or cannot be made yet.
Create ==
  /\ pc = "create"
  /\ made' = made \cup {loc.use} \/ (~calm /\ UNCHANGED made)
  /\ Goto("status")
  /\ UNCHANGED <<cr, fresh, cfg, parent, calm>>

\* Seeded fault: the deletion is requested again and again, never awaited.
Delete_NeverDone ==
  /\ pc = "delete"
  /\ Goto("status")
  /\ UNCHANGED <<cr, fresh, world>>

\* DeletePostgres and its like: ask for the deletion and wait for it, or find
\* that nothing is left.
Delete ==
  /\ pc = "delete"
  /\ \/ /\ loc.use \in made
        /\ made' = made \ {loc.use} \/ (~calm /\ UNCHANGED made)
        /\ Goto("status")
     \/ loc.use \notin made /\ Goto("d_fin") /\ UNCHANGED made
  /\ UNCHANGED <<cr, fresh, cfg, parent, calm>>

RemoveFinalizer ==
  /\ pc = "d_fin"
  /\ fresh
  /\ cr' = NoCR
  /\ fresh' = FALSE
  /\ Goto("idle")
  /\ UNCHANGED world

\* The status update that ends a reconcile (UpdatePhase, or the one to
\* Complete) writes the strategy along with the phase.
UpdateStatus ==
  /\ pc = "status"
  /\ Store([cr EXCEPT !.strat = loc.use], "idle")
  /\ UNCHANGED world
----------------------------------------------------------------------------
worker == <<pc, loc>>

Crash ==
  /\ pc # "idle"
  /\ ~calm
  /\ Goto("idle")
  /\ UNCHANGED <<cr, fresh, world>>

UserCreates ==
  /\ cr.life = "gone"
  /\ cr' = [NoCR EXCEPT !.life = "live"]
  /\ UNCHANGED <<fresh, worker, world>>

UserEdits ==
  /\ cr.life # "gone"
  /\ ~calm
  /\ fresh
  /\ fresh' = FALSE
  /\ UNCHANGED <<cr, worker, world>>

UserDeletes ==
  /\ cr.life = "live"
  /\ cr' = IF cr.fin THEN [cr EXCEPT !.life = "deleting"] ELSE NoCR
  /\ fresh' = FALSE
  /\ UNCHANGED <<worker, world>>

ConfigChanges ==
  /\ ~calm
  /\ cfg' \in MaybeStrategy \cup {NoEntry}
  /\ UNCHANGED <<cr, fresh, worker, made, parent, calm>>

ParentChanges ==
  /\ ~calm
  /\ parent' = ~parent
  /\ UNCHANGED <<cr, fresh, worker, cfg, made, calm>>

CalmDown ==
  /\ ~calm
  /\ calm' = TRUE
  /\ UNCHANGED <<cr, fresh, worker, cfg, made, parent>>
----------------------------------------------------------------------------
Worker ==
  \/ Reconcile \/ ReconcileFails \/ PersistStrategy \/ CreateFinalizer \/ Create \/ Delete
  \/ RemoveFinalizer \/ UpdateStatus \/ Conflict

Next ==
  \/ Worker \/ Crash \/ UserCreates \/ UserEdits \/ UserDeletes
  \/ ConfigChanges \/ ParentChanges \/ CalmDown

Spec == Init /\ [][Next]_vars

\* Reconciles are requeued, and faults end at some time.
FairSpec == Spec /\ WF_vars(Worker) /\ WF_vars(CalmDown)
----------------------------------------------------------------------------
(* Properties.                                                             *)

\* A CR is served by one provider for good: "changing of cloud-resource-config
\* config maps not allowed in existing installation ... operator will continue
\* to use existing strategy" (postgres_controller.go:162 and its like), also
\* when the worker died between making the resource and its status update.
OneProvider == \A s, t \in made : s = t

Claim ==
  CASE cr.life = "gone" -> "none"
    [] cr.life = "deleting" -> "released"
    [] cr.life = "live" /\ cr.fin -> "held"
    [] OTHER -> "asked"

Managed == INSTANCE ManagedResource WITH Things <- Strategies, claim <- Claim

\* The finalizer is shared by all providers, yet the CR is let go only by the
\* one that made its resource, after it has deleted it: what ManagedResource
\* promises, with a config map that may change at any time.
ImplementsManagedResource == Managed!Spec

\* A deletion ends (README.md:349: "Deletion of a custom resource should result
\* in the deletion of the resource in the cloud-provider"), unless the config
\* map is left without an entry, or with no provider for a CR without strategy,
\* or the CR that a snapshot is of has gone before it.
DeletionCompletes ==
  cr.life = "deleting" ~>
    \/ cr.life = "gone" \/ cfg = NoEntry \/ ~SupportsStrategy(StrategyToUse)
    \/ NeedsParent /\ ~parent
============================================================================
