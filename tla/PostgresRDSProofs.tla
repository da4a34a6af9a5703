------------------------- MODULE PostgresRDSProofs -------------------------
(***************************************************************************)
(* Machine-checked proofs about PostgresRDS, for any set of passwords and  *)
(* also when RDS instances may fail.  Everything but type correctness      *)
(* assumes that the listing of instances is complete (~ListMayMiss).       *)
(***************************************************************************)
EXTENDS PostgresRDS, TLAPS

\* The calls after the finalizer is known to be stored.
HeldSteps == (CreateSteps \ {"finalizer"}) \cup {"publish", "complete"}

\* The finalizer outlives everything the provider makes, and a worker that is
\* past CreateFinalizer or inside DeletePostgres keeps the CR from going.
HoldInv ==
  /\ fresh => cr.life # "gone"
  /\ cr.life = "deleting" => cr.fin
  /\ rds.state # "absent" => cr.life # "gone" /\ cr.fin
  /\ credSec # NoPassword => cr.life # "gone" /\ cr.fin
  /\ pc \in HeldSteps => cr.life # "gone" /\ cr.fin
  /\ pc \in DeleteSteps => cr.life = "deleting"
  /\ pc \in {"d_secret", "d_fin"} => rds.state = "absent"
  /\ pc = "d_decide" /\ loc.found.state = "absent" => rds.state = "absent"
  /\ pc = "d_fin" => credSec = NoPassword

\* A CR that has been Complete is annotated, and no worker that can still
\* create an instance has an older copy.
AnnoInv ==
  /\ pc \in {"close", "publish", "complete"} => cr.anno
  /\ pc \in HeldSteps /\ loc.anno => cr.anno
  /\ pc = "finalizer" /\ fresh /\ loc.anno => cr.anno
  /\ cr.phase = "complete" => cr.anno
  /\ served /\ cr.life # "gone" => cr.anno
  /\ served /\ cr.life # "gone" /\ pc \in CreateSteps => loc.anno

\* One password: in the credential secret, in the instance, in the worker's
\* hands and in the secret that a Complete CR has published.
PassInv ==
  /\ pc \in HeldSteps \ {"window", "credsec"} => credSec # NoPassword
  /\ pc \in HeldSteps \ {"window", "credsec", "list"} => loc.pass = credSec
  /\ rds.state # "absent" => rds.pw = credSec /\ credSec # NoPassword
  /\ pc = "complete" => result.owned /\ result.pw = credSec
  /\ cr.phase = "complete" => result.owned
  /\ cr.phase = "complete" /\ credSec # NoPassword => result.pw = credSec
  /\ cr.phase = "complete" /\ credSec = NoPassword
       => cr.life = "deleting" /\ pc \notin HeldSteps \cup {"finalizer"}
----------------------------------------------------------------------------
\* The labels of the worker by kind.
LEMMA StepTypes ==
  /\ CreateSteps \subseteq Steps /\ DeleteSteps \subseteq Steps /\ StatusSteps \subseteq Steps
  /\ "idle" \in Steps /\ "publish" \in Steps /\ "complete" \in Steps
  BY DEF Steps

\* An error always leads to a failed status update or ends the reconcile.
LEMMA OnErrorType ==
  ASSUME NEW l \in Steps
  PROVE  OnError(l) \in {"fail_clear", "fail_keep", "idle"} /\ OnError(l) \in Steps
  BY DEF OnError, Steps, StatusSteps

\* A status update writes one of the phases of types.go.
LEMMA PhaseAtType ==
  ASSUME NEW l \in Steps
  PROVE  PhaseAt(l) \in Phases
  BY DEF PhaseAt, Phases

\* The empty records are well typed.
LEMMA RecordTypes ==
  /\ NoCR \in CRs /\ NoInstance \in Instances /\ NoView \in Views /\ NoLoc \in Locals
  BY DEF NoCR, NoInstance, NoView, NoLoc, CRs, Instances, Views, Locals, Lives, Phases,
         RdsStates, MaybePassword

\* A jump keeps the worker's state well typed.
LEMMA GotoType ==
  ASSUME TypeOK, NEW l \in Steps, Goto(l)
  PROVE  pc' \in Steps /\ loc' \in Locals
  BY RecordTypes DEF TypeOK, Goto

\* So does the answer of a call, arrived or lost.
LEMMA ReplyType ==
  ASSUME TypeOK, NEW l \in Steps, Reply(l)
  PROVE  pc' \in Steps /\ loc' \in Locals
<1>1. OnError(pc) \in Steps
  BY OnErrorType DEF TypeOK
<1> QED
  BY <1>1, GotoType DEF Reply

\* A write of the CR keeps the CR and the worker's state well typed.
LEMMA StoreType ==
  ASSUME TypeOK, NEW l \in Steps, NEW c \in CRs, Store(c, l)
  PROVE  cr' \in CRs /\ fresh' \in BOOLEAN /\ pc' \in Steps /\ loc' \in Locals
<1>1. OnError(pc) \in Steps
  BY OnErrorType DEF TypeOK
<1> QED
  BY <1>1, GotoType, Zenon DEF Store

\* The labels at which no call of a provider is pending.
QuietSteps == {"idle"} \cup StatusSteps

\* What a jump does.
LEMMA GotoOutcome ==
  ASSUME NEW l, Goto(l)
  PROVE  pc' = l /\ (l # "idle" => loc' = loc)
  BY DEF Goto

\* An answer arrives, or the worker ends up where no provider call is pending.
LEMMA ReplyOutcome ==
  ASSUME TypeOK, NEW l, Reply(l)
  PROVE  (pc' = l /\ (l # "idle" => loc' = loc)) \/ pc' \in QuietSteps
<1>1. OnError(pc) \in QuietSteps
  BY OnErrorType DEF TypeOK, QuietSteps, StatusSteps
<1> QED
  BY <1>1 DEF Reply, Goto

\* A write of the CR needs a current copy; it is answered, or the copy is outdated.
LEMMA StoreOutcome ==
  ASSUME TypeOK, NEW c, NEW l, Store(c, l)
  PROVE  /\ fresh /\ cr' = c
         /\ (pc' = l /\ (l # "idle" => loc' = loc) /\ fresh') \/ (pc' \in QuietSteps /\ ~fresh')
<1>1. OnError(pc) \in QuietSteps
  BY OnErrorType DEF TypeOK, QuietSteps, StatusSteps
<1> QED
  BY <1>1 DEF Store, Goto

\* At a quiet label the invariants ask nothing of the worker.
LEMMA QuietFacts ==
  ASSUME NEW l \in QuietSteps
  PROVE  l \notin HeldSteps /\ l \notin CreateSteps /\ l \notin DeleteSteps
  BY DEF QuietSteps, StatusSteps, HeldSteps, CreateSteps, DeleteSteps

\* Setting Complete changes neither the finalizer nor the annotation.
LEMMA SetCompleteOutcome ==
  ASSUME TypeOK, SetComplete
  PROVE  /\ fresh /\ pc' \in QuietSteps
         /\ cr'.life = cr.life /\ cr'.fin = cr.fin /\ cr'.anno = cr.anno
<1>1. fresh /\ cr' = [cr EXCEPT !.phase = "complete", !.ref = TRUE]
  BY DEF SetComplete, Store
<1>2. pc' \in QuietSteps
  BY StoreOutcome DEF SetComplete, QuietSteps
<1>3. cr'.life = cr.life /\ cr'.fin = cr.fin /\ cr'.anno = cr.anno
  BY <1>1 DEF TypeOK, CRs
<1> QED
  BY <1>1, <1>2, <1>3

\* A final status update changes neither the finalizer nor the annotation, and
\* never writes Complete.
LEMMA UpdatePhaseOutcome ==
  ASSUME TypeOK, UpdatePhase
  PROVE  /\ fresh /\ pc' \in QuietSteps
         /\ cr'.life = cr.life /\ cr'.fin = cr.fin /\ cr'.anno = cr.anno
         /\ cr'.phase # "complete"
<1> DEFINE ref == cr.ref /\ pc \notin {"progress", "fail_clear"}
<1>1. fresh /\ cr' = [cr EXCEPT !.phase = PhaseAt(pc), !.ref = ref]
  BY DEF UpdatePhase, Store
<1>2. pc' \in QuietSteps
  BY StoreOutcome DEF UpdatePhase, QuietSteps
<1>3. PhaseAt(pc) # "complete"
  BY DEF PhaseAt
<1> HIDE DEF ref
<1>4. /\ cr'.life = cr.life /\ cr'.fin = cr.fin /\ cr'.anno = cr.anno
      /\ cr'.phase = PhaseAt(pc)
  BY <1>1 DEF TypeOK, CRs
<1> QED
  BY <1>1, <1>2, <1>3, <1>4

\* A deletion marks a CR with a finalizer and drops one without.
LEMMA UserDeletesOutcome ==
  ASSUME TypeOK, UserDeletes
  PROVE  /\ cr.life = "live" /\ ~fresh' /\ UNCHANGED <<pc, loc, rds, credSec, served>>
         /\ \/ /\ cr.fin /\ result' = result /\ cr'.life = "deleting"
               /\ cr'.fin /\ cr'.anno = cr.anno /\ cr'.phase = cr.phase
            \/ /\ ~cr.fin /\ cr'.life = "gone" /\ cr'.phase = ""
<1>1. cr.life = "live" /\ ~fresh' /\ UNCHANGED <<pc, loc, rds, credSec, served>>
  BY DEF UserDeletes, worker
<1>2. CASE cr.fin
  <2>1. cr' = [cr EXCEPT !.life = "deleting"] /\ result' = result
    BY <1>2 DEF UserDeletes
  <2> QED
    BY <1>1, <1>2, <2>1 DEF TypeOK, CRs
<1>3. CASE ~cr.fin
  <2>1. cr' = NoCR
    BY <1>3, Zenon DEF UserDeletes
  <2> QED
    BY <1>1, <1>3, <2>1 DEF NoCR
<1> QED
  BY <1>2, <1>3

\* Every action keeps the state well typed.
LEMMA TypeStep ==
  ASSUME TypeOK, [Next]_vars
  PROVE  TypeOK'
<1> USE DEF TypeOK
<1>err. OnError(pc) \in Steps
  BY OnErrorType
<1>1. CASE Reconcile
  <2>1. loc' \in Locals
    BY <1>1, RecordTypes DEF Reconcile, Locals, CRs
  <2>2. pc' \in Steps
    BY <1>1 DEF Reconcile, Steps, CreateSteps, DeleteSteps, StatusSteps
  <2> QED
    BY <1>1, <2>1, <2>2 DEF Reconcile, cloud
<1>2. CASE CreateFinalizer
  <2>1. [cr EXCEPT !.fin = TRUE] \in CRs /\ "window" \in Steps
    BY Zenon DEF CRs, Steps, CreateSteps
  <2> QED
    BY <1>2, <2>1, StoreType DEF CreateFinalizer, cloud
<1>3. CASE VerifyPostgresMaintenanceWindow
  <2>1. loc' \in Locals
    BY <1>3 DEF VerifyPostgresMaintenanceWindow, Locals, CRs
  <2>2. pc' \in Steps
    BY <1>3 DEF VerifyPostgresMaintenanceWindow, Steps, CreateSteps
  <2> QED
    BY <1>3, <2>1, <2>2 DEF VerifyPostgresMaintenanceWindow, cloud
<1>4. CASE CreateCredentialSecret
  <2>1. "list" \in Steps
    BY DEF Steps, CreateSteps
  <2>2. credSec' \in MaybePassword
    BY <1>4 DEF CreateCredentialSecret, MaybePassword
  <2> QED
    BY <1>4, <2>1, <2>2, ReplyType DEF CreateCredentialSecret
<1>5. CASE GetRDSInstances \/ ListForDelete
  <2>1. Listing \subseteq Views
    BY RecordTypes, SMTT(60) DEF Listing, View, Views, Instances
  <2>2. loc' \in Locals
    BY <1>5, <2>1, ZenonT(60) DEF GetRDSInstances, ListForDelete, Locals
  <2>3. pc' \in Steps
    BY <1>5, Zenon DEF GetRDSInstances, ListForDelete, Steps, CreateSteps, DeleteSteps
  <2> QED
    BY <1>5, <2>2, <2>3, Zenon DEF GetRDSInstances, ListForDelete, cloud
<1>6. CASE InstanceNotReady \/ InstanceAsExpected \/ InstanceLost \/ NoWindow
             \/ DeleteWaits \/ RefusedByRDS \/ InstanceGone \/ Conflict
             \/ CallFails \/ Crash
  <2>1. {"fail_clear", "progress", "close", "annotate", "publish", "delprog", "d_secret",
         "idle", OnError(pc)} \subseteq Steps
    BY <1>err DEF Steps, CreateSteps, DeleteSteps, StatusSteps
  <2>2. \E l \in Steps : Goto(l)
    BY <1>6, <2>1 DEF InstanceNotReady, InstanceAsExpected, InstanceLost, NoWindow,
       DeleteWaits, RefusedByRDS, InstanceGone, Conflict, CallFails, Crash
  <2>3. UNCHANGED <<cr, fresh, cloud, served, calm>>
    BY <1>6, SMTT(60) DEF InstanceNotReady, InstanceAsExpected, InstanceLost, NoWindow,
       DeleteWaits, RefusedByRDS, InstanceGone, Conflict, CallFails, Crash
  <2> QED
    BY <2>2, <2>3, GotoType DEF cloud
<1>7. CASE ModifyDBInstance \/ CreateDBInstance \/ DisableProtection
  <2>1. rds' \in Instances
    <3>1. CASE ModifyDBInstance
      BY <3>1, Zenon DEF ModifyDBInstance, Instances, RdsStates
    <3>2. CASE CreateDBInstance
      BY <3>2 DEF CreateDBInstance, Instances, RdsStates, Locals
    <3>3. CASE DisableProtection
      BY <3>3, Zenon DEF DisableProtection, Instances, RdsStates
    <3> QED
      BY <1>7, <3>1, <3>2, <3>3
  <2>2. {"progress", "annotate_new", "delprog"} \subseteq Steps
    BY DEF Steps, CreateSteps, StatusSteps
  <2> QED
    BY <1>7, <2>1, <2>2, ReplyType, Zenon
       DEF ModifyDBInstance, CreateDBInstance, DisableProtection
<1>8. CASE AnnotateNew \/ AnnotateFound
  <2>1. [cr EXCEPT !.anno = TRUE] \in CRs
    BY Zenon DEF CRs
  <2>2. {"progress", "close"} \subseteq Steps
    BY DEF Steps, CreateSteps, StatusSteps
  <2> QED
    BY <1>8, <2>1, <2>2, StoreType DEF AnnotateNew, AnnotateFound, cloud
<1>9. CASE CloseWindow
  <2>1. [cr EXCEPT !.mw = FALSE] \in CRs
    BY Zenon DEF CRs
  <2>2. "progress" \in Steps
    BY DEF Steps, StatusSteps
  <2> QED
    BY <1>9, <2>1, <2>2, StepTypes, StoreType, GotoType DEF CloseWindow, cloud
<1>10. CASE ReconcileResultSecret
  <2>1. [pw |-> loc.pass, owned |-> TRUE] \in Results
    BY DEF Results, Locals
  <2>2. "fail_keep" \in Steps
    BY DEF Steps, StatusSteps
  <2> QED
    BY <1>10, <2>1, <2>2, StepTypes, ReplyType, GotoType, Zenon DEF ReconcileResultSecret
<1>11. CASE SetComplete
  <2>1. [cr EXCEPT !.phase = "complete", !.ref = TRUE] \in CRs
    BY DEF CRs, Phases
  <2> QED
    BY <1>11, <2>1, StepTypes, StoreType DEF SetComplete, cloud
<1>12. CASE UpdatePhase
  <2> DEFINE ref == cr.ref /\ pc \notin {"progress", "fail_clear"}
  <2>1. [cr EXCEPT !.phase = PhaseAt(pc), !.ref = ref] \in CRs
    BY PhaseAtType, Zenon DEF CRs
  <2> QED
    BY <1>12, <2>1, StepTypes, StoreType DEF UpdatePhase, cloud
<1>13. CASE DeleteDBInstance
  <2>1. rds' \in Instances
    BY <1>13 DEF DeleteDBInstance, Instances, RdsStates
  <2>2. "delprog" \in Steps
    BY DEF Steps, StatusSteps
  <2> QED
    BY <1>13, <2>1, <2>2, ReplyType, GotoType DEF DeleteDBInstance
<1>14. CASE DeleteCredentialSecret
  <2>1. "d_fin" \in Steps /\ NoPassword \in MaybePassword
    BY DEF Steps, DeleteSteps, MaybePassword
  <2> QED
    BY <1>14, <2>1, ReplyType DEF DeleteCredentialSecret
<1>15. CASE RemoveFinalizer
  <2>1. [result EXCEPT !.owned = FALSE] \in Results
    BY Zenon DEF Results
  <2>2. "fail_keep" \in Steps
    BY DEF Steps, StatusSteps
  <2> QED
    BY <1>15, <2>1, <2>2, StepTypes, RecordTypes, GotoType, Zenon DEF RemoveFinalizer
<1>16. CASE UserCreates \/ UserEdits \/ UserDeletes
  <2>1. cr' \in CRs
    <3>1. CASE UserCreates
      BY <3>1, RecordTypes, Zenon DEF UserCreates, CRs, Lives
    <3>2. CASE UserEdits
      BY <3>2, Zenon DEF UserEdits, CRs
    <3>3. CASE UserDeletes
      BY <3>3, RecordTypes DEF UserDeletes, CRs, Lives
    <3> QED
      BY <1>16, <3>1, <3>2, <3>3
  <2>2. [result EXCEPT !.owned = FALSE] \in Results
    BY Zenon DEF Results
  <2> QED
    BY <1>16, <2>1, <2>2, Zenon DEF UserCreates, UserEdits, UserDeletes, worker, cloud
<1>17. CASE CollectGarbage
  <2>1. [result EXCEPT !.pw = NoPassword] \in Results
    BY DEF Results, MaybePassword
  <2> QED
    BY <1>17, <2>1 DEF CollectGarbage, worker
<1>18. CASE RdsProgress \/ RdsFails \/ OutOfBand
  <2>1. rds' \in Instances
    <3>1. CASE RdsProgress
      BY <3>1, RecordTypes DEF RdsProgress, Instances, RdsStates
    <3>2. CASE RdsFails
      BY <3>2 DEF RdsFails, Instances, RdsStates
    <3>3. CASE OutOfBand
      BY <3>3, Zenon DEF OutOfBand, Instances, RdsStates
    <3> QED
      BY <1>18, <3>1, <3>2, <3>3
  <2> QED
    BY <1>18, <2>1 DEF RdsProgress, RdsFails, OutOfBand, worker
<1>19. CASE CalmDown
  BY <1>19 DEF CalmDown, worker, cloud
<1>20. CASE UNCHANGED vars
  BY <1>20 DEF vars
<1> QED
  BY <1>1, <1>2, <1>3, <1>4, <1>5, <1>6, <1>7, <1>8, <1>9, <1>10, <1>11, <1>12, <1>13,
     <1>14, <1>15, <1>16, <1>17, <1>18, <1>19, <1>20 DEF Next, Worker, Environment

\* HoldInv is inductive when the listing is complete.
LEMMA HoldStep ==
  ASSUME TypeOK, TypeOK', HoldInv, ~ListMayMiss, Next
  PROVE  HoldInv'
<1> USE DEF HoldInv, TypeOK, HeldSteps, CreateSteps, DeleteSteps
<1>1. CASE Reconcile
  BY <1>1 DEF Reconcile, cloud, Locals
<1>2. CASE CreateFinalizer
  BY <1>2, StoreOutcome, QuietFacts
     DEF CreateFinalizer, cloud, CRs, QuietSteps, StatusSteps
<1>3. CASE VerifyPostgresMaintenanceWindow
  BY <1>3 DEF VerifyPostgresMaintenanceWindow, cloud, Locals
<1>4. CASE CreateCredentialSecret
  BY <1>4, ReplyOutcome, QuietFacts DEF CreateCredentialSecret, QuietSteps, StatusSteps
<1>5. CASE GetRDSInstances
  BY <1>5 DEF GetRDSInstances, Listing, cloud, NoView, View, Locals
<1>6. CASE InstanceNotReady
  BY <1>6, GotoOutcome, QuietFacts DEF InstanceNotReady, cloud, QuietSteps, StatusSteps
<1>7. CASE ModifyDBInstance
  BY <1>7, ReplyOutcome, QuietFacts
     DEF ModifyDBInstance, NeedsModify, Instances, QuietSteps, StatusSteps
<1>8. CASE InstanceAsExpected
  BY <1>8, GotoOutcome, QuietFacts
     DEF InstanceAsExpected, NeedsModify, cloud, QuietSteps, StatusSteps
<1>9. CASE InstanceLost
  BY <1>9, GotoOutcome, QuietFacts DEF InstanceLost, cloud, QuietSteps, StatusSteps
<1>10. CASE CreateDBInstance
  BY <1>10, ReplyOutcome, QuietFacts
     DEF CreateDBInstance, Instances, QuietSteps, StatusSteps
<1>11. CASE AnnotateNew
  BY <1>11, StoreOutcome, QuietFacts
     DEF AnnotateNew, cloud, CRs, QuietSteps, StatusSteps
<1>12. CASE AnnotateFound
  BY <1>12, StoreOutcome, QuietFacts
     DEF AnnotateFound, cloud, CRs, QuietSteps, StatusSteps
<1>13. CASE CloseWindow
  BY <1>13, GotoOutcome, StoreOutcome, QuietFacts
     DEF CloseWindow, cloud, CRs, QuietSteps, StatusSteps
<1>14. CASE NoWindow
  BY <1>14, GotoOutcome, QuietFacts DEF NoWindow, cloud, QuietSteps, StatusSteps
<1>15. CASE ReconcileResultSecret
  BY <1>15, GotoOutcome, ReplyOutcome, QuietFacts
     DEF ReconcileResultSecret, Results, QuietSteps, StatusSteps
<1>16. CASE SetComplete
  BY <1>16, SetCompleteOutcome, QuietFacts DEF SetComplete, cloud
<1>17. CASE UpdatePhase
  BY <1>17, UpdatePhaseOutcome, QuietFacts DEF UpdatePhase, cloud
<1>18. CASE ListForDelete
  BY <1>18 DEF ListForDelete, Listing, cloud, NoView, View, Locals
<1>19. CASE DeleteWaits
  BY <1>19, GotoOutcome, QuietFacts DEF DeleteWaits, cloud, QuietSteps, StatusSteps
<1>20. CASE DeleteDBInstance
  BY <1>20, GotoOutcome, ReplyOutcome, QuietFacts
     DEF DeleteDBInstance, Instances, QuietSteps, StatusSteps
<1>21. CASE DisableProtection
  BY <1>21, ReplyOutcome, QuietFacts
     DEF DisableProtection, Instances, QuietSteps, StatusSteps
<1>22. CASE RefusedByRDS
  BY <1>22, GotoOutcome, QuietFacts, OnErrorType
     DEF RefusedByRDS, NeedsModify, cloud, QuietSteps, StatusSteps
<1>23. CASE InstanceGone
  BY <1>23, GotoOutcome, QuietFacts DEF InstanceGone, cloud, QuietSteps, StatusSteps
<1>24. CASE DeleteCredentialSecret
  BY <1>24, ReplyOutcome, QuietFacts DEF DeleteCredentialSecret, QuietSteps, StatusSteps
<1>25. CASE RemoveFinalizer
  <2>1. pc' \in QuietSteps /\ ~fresh' /\ cr'.life = "gone"
    BY <1>25, GotoOutcome DEF RemoveFinalizer, QuietSteps, StatusSteps, NoCR
  <2>2. rds'.state = "absent" /\ credSec' = NoPassword
    BY <1>25 DEF RemoveFinalizer
  <2> QED
    BY <2>1, <2>2, QuietFacts
<1>26. CASE Conflict
  BY <1>26, GotoOutcome, QuietFacts, OnErrorType
     DEF Conflict, cloud, QuietSteps, StatusSteps
<1>27. CASE CallFails
  BY <1>27, GotoOutcome, QuietFacts, OnErrorType
     DEF CallFails, cloud, QuietSteps, StatusSteps
<1>28. CASE Crash
  BY <1>28, GotoOutcome, QuietFacts DEF Crash, cloud, QuietSteps, StatusSteps
<1>29. CASE UserCreates
  BY <1>29 DEF UserCreates, cloud, worker, CRs, NoCR
<1>30. CASE UserEdits
  BY <1>30 DEF UserEdits, cloud, worker, CRs
<1>31. CASE UserDeletes
  BY <1>31, UserDeletesOutcome
<1>32. CASE CollectGarbage
  BY <1>32 DEF CollectGarbage, worker, Results
<1>33. CASE RdsProgress
  BY <1>33 DEF RdsProgress, NoInstance, worker, Instances
<1>34. CASE RdsFails
  BY <1>34 DEF RdsFails, worker, Instances
<1>35. CASE OutOfBand
  BY <1>35 DEF OutOfBand, worker, Instances
<1>36. CASE CalmDown
  BY <1>36, SMTT(60) DEF CalmDown, cloud, worker
<1> QED
    BY <1>1, <1>2, <1>3, <1>4, <1>5, <1>6, <1>7, <1>8, <1>9, <1>10, <1>11, <1>12,
     <1>13, <1>14, <1>15, <1>16, <1>17, <1>18, <1>19, <1>20, <1>21, <1>22, <1>23, <1>24,
     <1>25, <1>26, <1>27, <1>28, <1>29, <1>30, <1>31, <1>32, <1>33, <1>34, <1>35, <1>36, Zenon
     DEF Next, Worker, Environment

\* AnnoInv is inductive relative to HoldInv.
LEMMA AnnoStep ==
  ASSUME TypeOK, TypeOK', HoldInv, AnnoInv, Next
  PROVE  AnnoInv'
<1> USE DEF AnnoInv, TypeOK, HeldSteps, CreateSteps, DeleteSteps
<1>1. CASE Reconcile
  BY <1>1 DEF Reconcile, cloud, Locals
<1>2. CASE CreateFinalizer
  BY <1>2, StoreOutcome, QuietFacts
     DEF CreateFinalizer, cloud, CRs, QuietSteps, StatusSteps
<1>3. CASE VerifyPostgresMaintenanceWindow
  BY <1>3 DEF VerifyPostgresMaintenanceWindow, cloud, Locals
<1>4. CASE CreateCredentialSecret
  BY <1>4, ReplyOutcome, QuietFacts DEF CreateCredentialSecret, QuietSteps, StatusSteps
<1>5. CASE GetRDSInstances
  BY <1>5 DEF GetRDSInstances, Listing, cloud, NoView, View, Locals
<1>6. CASE InstanceNotReady
  BY <1>6, GotoOutcome, QuietFacts DEF InstanceNotReady, cloud, QuietSteps, StatusSteps
<1>7. CASE ModifyDBInstance
  BY <1>7, ReplyOutcome, QuietFacts
     DEF ModifyDBInstance, NeedsModify, Instances, QuietSteps, StatusSteps
<1>8. CASE InstanceAsExpected
  BY <1>8, GotoOutcome, QuietFacts
     DEF InstanceAsExpected, NeedsModify, cloud, QuietSteps, StatusSteps
<1>9. CASE InstanceLost
  BY <1>9, GotoOutcome, QuietFacts DEF InstanceLost, cloud, QuietSteps, StatusSteps
<1>10. CASE CreateDBInstance
  BY <1>10, ReplyOutcome, QuietFacts
     DEF CreateDBInstance, Instances, QuietSteps, StatusSteps
<1>11. CASE AnnotateNew
  BY <1>11, StoreOutcome, QuietFacts
     DEF AnnotateNew, cloud, CRs, QuietSteps, StatusSteps
<1>12. CASE AnnotateFound
  BY <1>12, StoreOutcome, QuietFacts
     DEF AnnotateFound, cloud, CRs, QuietSteps, StatusSteps
<1>13. CASE CloseWindow
  BY <1>13, GotoOutcome, StoreOutcome, QuietFacts
     DEF CloseWindow, cloud, CRs, QuietSteps, StatusSteps
<1>14. CASE NoWindow
  BY <1>14, GotoOutcome, QuietFacts DEF NoWindow, cloud, QuietSteps, StatusSteps
<1>15. CASE ReconcileResultSecret
  BY <1>15, GotoOutcome, ReplyOutcome, QuietFacts
     DEF ReconcileResultSecret, Results, QuietSteps, StatusSteps
<1>16. CASE SetComplete
  <2>1. cr.anno
    BY <1>16 DEF SetComplete
  <2> QED
    BY <1>16, <2>1, SetCompleteOutcome, QuietFacts, Zenon DEF QuietSteps, StatusSteps
<1>17. CASE UpdatePhase
  BY <1>17, UpdatePhaseOutcome, QuietFacts DEF UpdatePhase, QuietSteps, StatusSteps
<1>18. CASE ListForDelete
  BY <1>18 DEF ListForDelete, Listing, cloud, NoView, View, Locals
<1>19. CASE DeleteWaits
  BY <1>19, GotoOutcome, QuietFacts DEF DeleteWaits, cloud, QuietSteps, StatusSteps
<1>20. CASE DeleteDBInstance
  BY <1>20, GotoOutcome, ReplyOutcome, QuietFacts
     DEF DeleteDBInstance, Instances, QuietSteps, StatusSteps
<1>21. CASE DisableProtection
  BY <1>21, ReplyOutcome, QuietFacts
     DEF DisableProtection, Instances, QuietSteps, StatusSteps
<1>22. CASE RefusedByRDS
  BY <1>22, GotoOutcome, QuietFacts, OnErrorType
     DEF RefusedByRDS, NeedsModify, cloud, QuietSteps, StatusSteps
<1>23. CASE InstanceGone
  BY <1>23, GotoOutcome, QuietFacts DEF InstanceGone, cloud, QuietSteps, StatusSteps
<1>24. CASE DeleteCredentialSecret
  BY <1>24, ReplyOutcome, QuietFacts DEF DeleteCredentialSecret, QuietSteps, StatusSteps
<1>25. CASE RemoveFinalizer
  <2>1. pc' \in QuietSteps /\ cr'.life = "gone" /\ cr'.phase = ""
    BY <1>25, GotoOutcome DEF RemoveFinalizer, QuietSteps, StatusSteps, NoCR
  <2> QED
    BY <2>1, QuietFacts DEF QuietSteps, StatusSteps
<1>26. CASE Conflict
  BY <1>26, GotoOutcome, QuietFacts, OnErrorType
     DEF Conflict, cloud, QuietSteps, StatusSteps
<1>27. CASE CallFails
  BY <1>27, GotoOutcome, QuietFacts, OnErrorType
     DEF CallFails, cloud, QuietSteps, StatusSteps
<1>28. CASE Crash
  BY <1>28, GotoOutcome, QuietFacts DEF Crash, cloud, QuietSteps, StatusSteps
<1>29. CASE UserCreates
  <2>1. ~served' /\ cr'.phase = "" /\ ~fresh' /\ pc' = pc /\ pc \notin HeldSteps
    BY <1>29 DEF UserCreates, HoldInv, NoCR, CRs, worker
  <2> QED
    BY <2>1
<1>30. CASE UserEdits
  BY <1>30 DEF UserEdits, cloud, worker, CRs
<1>31. CASE UserDeletes
  BY <1>31, UserDeletesOutcome DEF HoldInv
<1>32. CASE CollectGarbage
  BY <1>32 DEF CollectGarbage, worker, Results
<1>33. CASE RdsProgress
  BY <1>33 DEF RdsProgress, NoInstance, worker, Instances
<1>34. CASE RdsFails
  BY <1>34 DEF RdsFails, worker, Instances
<1>35. CASE OutOfBand
  BY <1>35 DEF OutOfBand, worker, Instances
<1>36. CASE CalmDown
  BY <1>36, SMTT(60) DEF CalmDown, cloud, worker
<1> QED
    BY <1>1, <1>2, <1>3, <1>4, <1>5, <1>6, <1>7, <1>8, <1>9, <1>10, <1>11, <1>12,
     <1>13, <1>14, <1>15, <1>16, <1>17, <1>18, <1>19, <1>20, <1>21, <1>22, <1>23, <1>24,
     <1>25, <1>26, <1>27, <1>28, <1>29, <1>30, <1>31, <1>32, <1>33, <1>34, <1>35, <1>36, Zenon
     DEF Next, Worker, Environment

\* PassInv is inductive relative to HoldInv.
LEMMA PassStep ==
  ASSUME TypeOK, TypeOK', HoldInv, PassInv, Next
  PROVE  PassInv'
<1> USE DEF PassInv, TypeOK, HeldSteps, CreateSteps, DeleteSteps
<1>1. CASE Reconcile
  BY <1>1 DEF Reconcile, cloud, Locals
<1>2. CASE CreateFinalizer
  BY <1>2, StoreOutcome, QuietFacts
     DEF CreateFinalizer, cloud, CRs, QuietSteps, StatusSteps
<1>3. CASE VerifyPostgresMaintenanceWindow
  BY <1>3 DEF VerifyPostgresMaintenanceWindow, cloud, Locals
<1>4. CASE CreateCredentialSecret
  <2>1. credSec' # NoPassword /\ (credSec # NoPassword => credSec' = credSec)
    BY <1>4, PasswordsAssumption DEF CreateCredentialSecret
  <2>2. cr.phase = "complete" => credSec # NoPassword
    BY <1>4 DEF CreateCredentialSecret
  <2> QED
    BY <1>4, <2>1, <2>2, ReplyOutcome, QuietFacts
       DEF CreateCredentialSecret, QuietSteps, StatusSteps
<1>5. CASE GetRDSInstances
  BY <1>5 DEF GetRDSInstances, Listing, cloud, NoView, View, Locals
<1>6. CASE InstanceNotReady
  BY <1>6, GotoOutcome, QuietFacts DEF InstanceNotReady, cloud, QuietSteps, StatusSteps
<1>7. CASE ModifyDBInstance
  BY <1>7, ReplyOutcome, QuietFacts
     DEF ModifyDBInstance, NeedsModify, Instances, QuietSteps, StatusSteps
<1>8. CASE InstanceAsExpected
  BY <1>8, GotoOutcome, QuietFacts
     DEF InstanceAsExpected, NeedsModify, cloud, QuietSteps, StatusSteps
<1>9. CASE InstanceLost
  BY <1>9, GotoOutcome, QuietFacts DEF InstanceLost, cloud, QuietSteps, StatusSteps
<1>10. CASE CreateDBInstance
  BY <1>10, ReplyOutcome, QuietFacts
     DEF CreateDBInstance, Instances, QuietSteps, StatusSteps
<1>11. CASE AnnotateNew
  BY <1>11, StoreOutcome, QuietFacts
     DEF AnnotateNew, cloud, CRs, QuietSteps, StatusSteps
<1>12. CASE AnnotateFound
  BY <1>12, StoreOutcome, QuietFacts
     DEF AnnotateFound, cloud, CRs, QuietSteps, StatusSteps
<1>13. CASE CloseWindow
  BY <1>13, GotoOutcome, StoreOutcome, QuietFacts
     DEF CloseWindow, cloud, CRs, QuietSteps, StatusSteps
<1>14. CASE NoWindow
  BY <1>14, GotoOutcome, QuietFacts DEF NoWindow, cloud, QuietSteps, StatusSteps
<1>15. CASE ReconcileResultSecret
  BY <1>15, GotoOutcome, ReplyOutcome, QuietFacts
     DEF ReconcileResultSecret, Results, QuietSteps, StatusSteps
<1>16. CASE SetComplete
  BY <1>16, StoreOutcome, QuietFacts
     DEF SetComplete, cloud, CRs, QuietSteps, StatusSteps
<1>17. CASE UpdatePhase
  BY <1>17, UpdatePhaseOutcome, QuietFacts DEF UpdatePhase, cloud, QuietSteps, StatusSteps
<1>18. CASE ListForDelete
  BY <1>18 DEF ListForDelete, Listing, cloud, NoView, View, Locals
<1>19. CASE DeleteWaits
  BY <1>19, GotoOutcome, QuietFacts DEF DeleteWaits, cloud, QuietSteps, StatusSteps
<1>20. CASE DeleteDBInstance
  BY <1>20, GotoOutcome, ReplyOutcome, QuietFacts
     DEF DeleteDBInstance, Instances, QuietSteps, StatusSteps
<1>21. CASE DisableProtection
  BY <1>21, ReplyOutcome, QuietFacts
     DEF DisableProtection, Instances, QuietSteps, StatusSteps
<1>22. CASE RefusedByRDS
  BY <1>22, GotoOutcome, QuietFacts, OnErrorType
     DEF RefusedByRDS, NeedsModify, cloud, QuietSteps, StatusSteps
<1>23. CASE InstanceGone
  BY <1>23, GotoOutcome, QuietFacts DEF InstanceGone, cloud, QuietSteps, StatusSteps
<1>24. CASE DeleteCredentialSecret
  <2>1. pc' = "d_fin" \/ pc' \in QuietSteps
    BY <1>24, ReplyOutcome DEF DeleteCredentialSecret
  <2>2. pc' \notin HeldSteps \cup {"finalizer"}
    BY <2>1, QuietFacts
  <2>3. rds.state = "absent" /\ cr.life = "deleting"
    BY <1>24 DEF DeleteCredentialSecret, HoldInv
  <2> QED
    BY <1>24, <2>2, <2>3 DEF DeleteCredentialSecret
<1>25. CASE RemoveFinalizer
  <2>1. pc' \in QuietSteps /\ cr'.phase = ""
    BY <1>25, GotoOutcome DEF RemoveFinalizer, QuietSteps, StatusSteps, NoCR
  <2> QED
    BY <1>25, <2>1, QuietFacts DEF RemoveFinalizer, QuietSteps, StatusSteps
<1>26. CASE Conflict
  BY <1>26, GotoOutcome, QuietFacts, OnErrorType
     DEF Conflict, cloud, QuietSteps, StatusSteps
<1>27. CASE CallFails
  BY <1>27, GotoOutcome, QuietFacts, OnErrorType
     DEF CallFails, cloud, QuietSteps, StatusSteps
<1>28. CASE Crash
  BY <1>28, GotoOutcome, QuietFacts DEF Crash, cloud, QuietSteps, StatusSteps
<1>29. CASE UserCreates
  BY <1>29 DEF UserCreates, cloud, worker, CRs, NoCR
<1>30. CASE UserEdits
  BY <1>30 DEF UserEdits, cloud, worker, CRs
<1>31. CASE UserDeletes
  BY <1>31, UserDeletesOutcome DEF HoldInv
<1>32. CASE CollectGarbage
  BY <1>32 DEF CollectGarbage, worker, Results
<1>33. CASE RdsProgress
  BY <1>33 DEF RdsProgress, NoInstance, worker, Instances
<1>34. CASE RdsFails
  BY <1>34 DEF RdsFails, worker, Instances
<1>35. CASE OutOfBand
  BY <1>35, Zenon DEF OutOfBand, worker, Instances
<1>36. CASE CalmDown
  BY <1>36 DEF CalmDown, cloud, worker
<1> QED
    BY <1>1, <1>2, <1>3, <1>4, <1>5, <1>6, <1>7, <1>8, <1>9, <1>10, <1>11, <1>12,
     <1>13, <1>14, <1>15, <1>16, <1>17, <1>18, <1>19, <1>20, <1>21, <1>22, <1>23, <1>24,
     <1>25, <1>26, <1>27, <1>28, <1>29, <1>30, <1>31, <1>32, <1>33, <1>34, <1>35, <1>36, ZenonT(60)
     DEF Next, Worker, Environment
----------------------------------------------------------------------------
\* The initial state satisfies all parts of the invariant.
LEMMA InitHolds == Init => TypeOK /\ HoldInv /\ AnnoInv /\ PassInv
<1> SUFFICES ASSUME Init PROVE TypeOK /\ HoldInv /\ AnnoInv /\ PassInv
  OBVIOUS
<1>1. TypeOK
  BY RecordTypes, StepTypes, Zenon DEF Init, TypeOK, Results, MaybePassword
<1>2. /\ cr.life = "gone" /\ cr.phase = "" /\ ~fresh /\ pc = "idle"
      /\ rds.state = "absent" /\ credSec = NoPassword
  BY DEF Init, NoCR, NoInstance
<1>3. pc \notin HeldSteps /\ pc \notin CreateSteps /\ pc \notin DeleteSteps
  BY <1>2 DEF HeldSteps, CreateSteps, DeleteSteps
<1>4. HoldInv /\ AnnoInv /\ PassInv
  BY <1>2, <1>3 DEF HoldInv, AnnoInv, PassInv
<1> QED
  BY <1>1, <1>4

\* Every state the model reaches is well typed; in particular no status update
\* writes anything but a phase of types.go.
THEOREM TypeCorrect == Spec => []TypeOK
<1>1. Init => TypeOK
  BY InitHolds
<1>2. TypeOK /\ [Next]_vars => TypeOK'
  BY TypeStep
<1> QED
  BY <1>1, <1>2, PTL DEF Spec

\* The inductive invariant behind the safety theorems, for complete listings.
THEOREM Invariance ==
  ASSUME ~ListMayMiss
  PROVE  Spec => [](TypeOK /\ HoldInv /\ AnnoInv /\ PassInv)
<1> DEFINE IInv == TypeOK /\ HoldInv /\ AnnoInv /\ PassInv
<1>1. Init => IInv
  BY InitHolds
<1>2. IInv /\ [Next]_vars => IInv'
  <2> SUFFICES ASSUME IInv, [Next]_vars PROVE IInv'
    OBVIOUS
  <2>1. TypeOK'
    BY TypeStep
  <2>2. CASE Next
    BY <2>1, <2>2, HoldStep, AnnoStep, PassStep
  <2>3. CASE UNCHANGED vars
    BY <2>1, <2>3 DEF vars, HoldInv, AnnoInv, PassInv
  <2> QED
    BY <2>2, <2>3
<1> QED
  BY <1>1, <1>2, PTL DEF Spec

\* No crash, conflict, lost answer or user action separates a DB instance from
\* the finalizer that guards it (finalizers.go, deleteRDSInstance).
THEOREM InstanceIsGuarded ==
  ASSUME ~ListMayMiss
  PROVE  Spec => []NoOrphanInstance
<1>1. HoldInv => NoOrphanInstance
  BY DEF HoldInv, NoOrphanInstance
<1> QED
  BY <1>1, Invariance, PTL

\* The same for the credential secret, which no owner reference protects.
THEOREM CredentialsAreGuarded ==
  ASSUME ~ListMayMiss
  PROVE  Spec => []NoOrphanCredentials
<1>1. HoldInv => NoOrphanCredentials
  BY DEF HoldInv, NoOrphanCredentials
<1> QED
  BY <1>1, Invariance, PTL

\* Whatever passwords are generated, a Complete CR publishes the one the
\* instance was created with.
THEOREM PublishedPasswordIsRight ==
  ASSUME ~ListMayMiss
  PROVE  Spec => []PublishedSecretOpensDatabase
<1>1. PassInv => PublishedSecretOpensDatabase
  BY DEF PassInv, PublishedSecretOpensDatabase
<1> QED
  BY <1>1, Invariance, PTL

\* The annotation guard of reconcileRDSInstance: an instance of a CR that has
\* been Complete is never replaced after it disappeared.
THEOREM NeverRecreated ==
  ASSUME ~ListMayMiss
  PROVE  Spec => NeverRecreatedAfterService
<1> DEFINE Kept == served /\ rds.state = "absent" /\ cr.life # "gone" => rds'.state = "absent"
<1>1. ASSUME TypeOK, AnnoInv, Next PROVE Kept
  <2> SUFFICES ASSUME served, rds.state = "absent", cr.life # "gone", rds' # rds
               PROVE  FALSE
    BY SMTT(60)
  <2>1. CreateDBInstance
    BY <1>1, Zenon DEF Next, Worker, Environment, Reconcile, CreateFinalizer,
       VerifyPostgresMaintenanceWindow, CreateCredentialSecret, GetRDSInstances,
       InstanceNotReady, ModifyDBInstance, InstanceAsExpected, InstanceLost, AnnotateNew,
       AnnotateFound, CloseWindow, NoWindow, ReconcileResultSecret, SetComplete,
       UpdatePhase, ListForDelete, DeleteWaits, DeleteDBInstance, DisableProtection,
       RefusedByRDS, InstanceGone, DeleteCredentialSecret, RemoveFinalizer, Conflict,
       CallFails, Crash, UserCreates, UserEdits, UserDeletes, CollectGarbage, RdsProgress,
       RdsFails, OutOfBand, CalmDown, cloud, worker
  <2>2. ~loc.anno /\ pc \in CreateSteps
    BY <2>1 DEF CreateDBInstance, CreateSteps
  <2> QED
    BY <1>1, <2>2 DEF AnnoInv
<1>2. ASSUME UNCHANGED vars PROVE Kept
  BY <1>2 DEF vars
<1>3. TypeOK /\ AnnoInv /\ [Next]_vars => [Kept]_vars
  BY <1>1, <1>2
<1> QED
  BY <1>3, Invariance, PTL DEF Spec, NeverRecreatedAfterService

----------------------------------------------------------------------------
\* The claim is the same while the CR's life and finalizer are.
LEMMA SameClaim ==
  ASSUME cr'.life = cr.life, cr'.fin = cr.fin
  PROVE  Claim' = Claim
  BY DEF Claim

\* The things made are the same while instance and secret stay or stay away.
LEMMA SameMade ==
  ASSUME (rds'.state = "absent") <=> (rds.state = "absent"),
         (credSec' = NoPassword) <=> (credSec = NoPassword)
  PROVE  Made' = Made
  BY DEF Made

\* Every step of the Postgres machinery is a step of ManagedResource or leaves
\* it alone.
LEMMA SimulationStep ==
  ASSUME TypeOK, TypeOK', HoldInv, HoldInv', Next
  PROVE  [Managed!Next]_(Managed!vars)
<1> USE DEF TypeOK
<1>a. SUFFICES \/ Claim' = Claim /\ Made' = Made
               \/ Managed!Next
  BY DEF Managed!vars
<1>1. CASE UNCHANGED <<cr, cloud>>
  BY <1>1, SameClaim, SameMade DEF cloud
<1>2. CASE CreateFinalizer
  <2>1. cr' = [cr EXCEPT !.fin = TRUE] /\ Made' = Made
    BY <1>2, StoreOutcome, SameMade DEF CreateFinalizer, cloud
  <2>2. cr'.life = cr.life /\ cr'.fin = TRUE
    BY <2>1 DEF CRs
  <2>3. cr.life # "gone"
    BY <1>2, StoreOutcome DEF CreateFinalizer, HoldInv
  <2>4. cr.life \in {"live", "deleting"}
    BY <2>3 DEF CRs, Lives
  <2>5. CASE cr.fin
    BY <2>1, <2>2, <2>5, SameClaim
  <2>6. CASE ~cr.fin
    <3>1. Claim = "asked" /\ Claim' = "held"
      BY <2>2, <2>4, <2>6 DEF Claim, HoldInv
    <3> QED
      BY <2>1, <3>1 DEF Managed!Next, Managed!Hold
  <2> QED
    BY <2>5, <2>6
<1>3. CASE CreateCredentialSecret
  <2>1. pc = "credsec" /\ cr' = cr /\ rds' = rds
    BY <1>3 DEF CreateCredentialSecret
  <2>2. cr.life # "gone" /\ cr.fin
    BY <2>1 DEF HoldInv, HeldSteps, CreateSteps
  <2>3. Claim \in {"held", "released"} /\ Claim' = Claim
    BY <2>1, <2>2 DEF Claim, CRs, Lives
  <2>4. credSec' # NoPassword
    BY <1>3, PasswordsAssumption DEF CreateCredentialSecret
  <2>5. Made' = Made \cup {"credentials"}
    BY <2>1, <2>4 DEF Made
  <2> QED
    BY <2>3, <2>5 DEF Managed!Next, Managed!Make
<1>4. CASE CreateDBInstance
  <2>1. pc = "decide" /\ cr' = cr /\ credSec' = credSec /\ rds'.state = "creating"
    BY <1>4 DEF CreateDBInstance
  <2>2. cr.life # "gone" /\ cr.fin
    BY <2>1 DEF HoldInv, HeldSteps, CreateSteps
  <2>3. Claim \in {"held", "released"} /\ Claim' = Claim
    BY <2>1, <2>2 DEF Claim, CRs, Lives
  <2>4. Made' = Made \cup {"instance"}
    BY <2>1 DEF Made
  <2> QED
    BY <2>3, <2>4 DEF Managed!Next, Managed!Make
<1>5. CASE ModifyDBInstance \/ DeleteDBInstance \/ DisableProtection \/ RdsFails \/ OutOfBand
  <2>1. cr' = cr /\ credSec' = credSec
    BY <1>5, ZenonT(60) DEF ModifyDBInstance, DeleteDBInstance, DisableProtection, RdsFails, OutOfBand,
       worker
  <2>2. (rds'.state = "absent") <=> (rds.state = "absent")
    BY <1>5, Zenon DEF ModifyDBInstance, DeleteDBInstance, DisableProtection, RdsFails, OutOfBand,
       Instances
  <2> QED
    BY <2>1, <2>2, SameClaim, SameMade, SMTT(60)
<1>6. CASE RdsProgress
  <2>1. cr' = cr /\ credSec' = credSec
    BY <1>6 DEF RdsProgress, worker
  <2>2. CASE rds.state # "deleting"
    <3>1. (rds'.state = "absent") <=> (rds.state = "absent")
      BY <1>6, <2>2 DEF RdsProgress, Instances
    <3> QED
      BY <2>1, <3>1, SameClaim, SameMade
  <2>3. CASE rds.state = "deleting"
    <3>1. rds'.state = "absent"
      BY <1>6, <2>3 DEF RdsProgress, NoInstance
    <3>2. Made' = Made \ {"instance"}
      BY <2>1, <3>1 DEF Made
    <3> QED
      BY <2>1, <3>2, SameClaim DEF Managed!Next, Managed!Lose
  <2> QED
    BY <2>2, <2>3
<1>7. CASE DeleteCredentialSecret
  <2>1. Made' = Made \ {"credentials"} /\ Claim' = Claim
    BY <1>7 DEF DeleteCredentialSecret, Made, Claim
  <2> QED
    BY <2>1 DEF Managed!Next, Managed!Lose
<1>8. CASE RemoveFinalizer
  <2>1. cr.life = "deleting" /\ rds.state = "absent" /\ credSec = NoPassword
    BY <1>8 DEF RemoveFinalizer, HoldInv, DeleteSteps
  <2>2. cr'.life = "gone" /\ rds' = rds /\ credSec' = credSec
    BY <1>8 DEF RemoveFinalizer, NoCR
  <2>3. Claim = "released" /\ Claim' = "none" /\ Made = {} /\ Made' = Made
    BY <2>1, <2>2 DEF Claim, Made
  <2> QED
    BY <2>3 DEF Managed!Next, Managed!Forget
<1>9. CASE UserCreates
  <2>1. cr.life = "gone" /\ cr'.life = "live" /\ ~cr'.fin /\ Made' = Made
    BY <1>9, SameMade DEF UserCreates, NoCR, cloud
  <2>2. Claim = "none" /\ Claim' = "asked"
    BY <2>1 DEF Claim
  <2> QED
    BY <2>1, <2>2 DEF Managed!Next, Managed!Ask
<1>10. CASE UserDeletes
  <2>1. Made' = Made
    BY <1>10, UserDeletesOutcome, SameMade
  <2>2. CASE cr.fin
    <3>1. Claim = "held" /\ Claim' = "released"
      BY <1>10, <2>2, UserDeletesOutcome DEF Claim
    <3> QED
      BY <2>1, <3>1 DEF Managed!Next, Managed!Release
  <2>3. CASE ~cr.fin
    <3>1. Claim = "asked" /\ Claim' = "none"
      BY <1>10, <2>3, UserDeletesOutcome DEF Claim
    <3> QED
      BY <2>1, <3>1 DEF Managed!Next, Managed!Withdraw
  <2> QED
    BY <2>2, <2>3
<1>11. CASE AnnotateNew \/ AnnotateFound \/ CloseWindow \/ SetComplete \/ UpdatePhase
              \/ UserEdits
  <2>1. rds' = rds /\ credSec' = credSec
    BY <1>11 DEF AnnotateNew, AnnotateFound, CloseWindow, SetComplete, UpdatePhase,
       UserEdits, cloud
  <2>2. cr'.life = cr.life /\ cr'.fin = cr.fin
    <3>1. CASE AnnotateNew \/ AnnotateFound
      BY <3>1, StoreOutcome DEF AnnotateNew, AnnotateFound, CRs
    <3>2. CASE CloseWindow
      BY <3>2, StoreOutcome DEF CloseWindow, CRs
    <3>3. CASE SetComplete \/ UpdatePhase
      BY <3>3, SetCompleteOutcome, UpdatePhaseOutcome
    <3>4. CASE UserEdits
      BY <3>4 DEF UserEdits, CRs
    <3> QED
      BY <1>11, <3>1, <3>2, <3>3, <3>4
  <2> QED
    BY <2>1, <2>2, SameClaim, SameMade
<1>12. CASE ReconcileResultSecret \/ CollectGarbage
  BY <1>12, SameClaim, SameMade, SMTT(60) DEF ReconcileResultSecret, CollectGarbage, worker
<1>13. CASE Reconcile \/ VerifyPostgresMaintenanceWindow \/ GetRDSInstances
              \/ InstanceNotReady \/ InstanceAsExpected \/ InstanceLost \/ NoWindow
              \/ ListForDelete \/ DeleteWaits \/ RefusedByRDS \/ InstanceGone
              \/ Conflict \/ CallFails \/ Crash \/ CalmDown
  BY <1>1, <1>13, Zenon DEF Reconcile, VerifyPostgresMaintenanceWindow, GetRDSInstances,
     InstanceNotReady, InstanceAsExpected, InstanceLost, NoWindow, ListForDelete,
     DeleteWaits, RefusedByRDS, InstanceGone, Conflict, CallFails, Crash, CalmDown
<1> QED
  BY <1>2, <1>3, <1>4, <1>5, <1>6, <1>7, <1>8, <1>9, <1>10, <1>11, <1>12, <1>13
     DEF Next, Worker, Environment

\* The Postgres controller with the AWS provider implements ManagedResource:
\* things are made only under the finalizer, and it is dropped only when they
\* are gone.
THEOREM Refinement ==
  ASSUME ~ListMayMiss
  PROVE  Spec => ImplementsManagedResource
<1>1. Init => Managed!Init
  <2> SUFFICES ASSUME Init PROVE Claim = "none" /\ Made = {}
    BY DEF Managed!Init
  <2>1. cr.life = "gone" /\ rds.state = "absent" /\ credSec = NoPassword
    BY DEF Init, NoCR, NoInstance
  <2> QED
    BY <2>1 DEF Claim, Made
<1>2. TypeOK /\ HoldInv /\ TypeOK' /\ HoldInv' /\ [Next]_vars
        => [Managed!Next]_(Managed!vars)
  <2>1. ASSUME UNCHANGED vars PROVE UNCHANGED Managed!vars
    BY <2>1, SameClaim, SameMade DEF vars, Managed!vars
  <2> QED
    BY <2>1, SimulationStep
<1> QED
  BY <1>1, <1>2, Invariance, PTL DEF Spec, ImplementsManagedResource, Managed!Spec
============================================================================
