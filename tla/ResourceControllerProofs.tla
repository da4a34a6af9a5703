--------------------- MODULE ResourceControllerProofs ----------------------
(***************************************************************************)
(* One provider per CR, and what it made is deleted by it, for any set of  *)
(* strategies, provided that the strategy is stored before the provider is *)
(* called (PersistFirst).  The invariant says why: from then on the status *)
(* and the worker's copy agree on the strategy, whatever the config map    *)
(* becomes.                                                                *)
(***************************************************************************)
EXTENDS ResourceController, TLAPS

\* A deletion timestamp is there only with a finalizer, and so is a resource,
\* which then was made with the strategy in the status.
HeldInv ==
  /\ cr.life = "deleting" => cr.fin
  /\ cr.fin => cr.life # "gone"
  /\ \A s \in made : s = cr.strat /\ cr.fin

\* What the worker read is still so: for good under the finalizer, and else
\* as long as its copy is fresh.
WorkerInv ==
  /\ pc # "idle" => loc.use \in Strategies
  /\ pc # "idle" /\ fresh => cr.life = IF loc.del THEN "deleting" ELSE "live"
  /\ pc = "pin" /\ fresh => cr.strat = NoStrategy
  /\ pc \in {"finalizer", "status"} /\ fresh => cr.strat = loc.use
  /\ pc = "create" => cr.fin /\ cr.strat = loc.use
  /\ pc \in {"delete", "d_fin"} => cr.life = "deleting" /\ cr.strat = loc.use
  /\ pc = "d_fin" => made = {}
  /\ pc \in {"finalizer", "create"} => ~loc.del

IInv == TypeOK /\ HeldInv /\ WorkerInv
----------------------------------------------------------------------------
\* The parts of a stored CR.
LEMMA CRFacts ==
  ASSUME NEW c \in CRs
  PROVE  /\ c.life \in {"gone", "live", "deleting"}
         /\ c.fin \in BOOLEAN
         /\ c.strat \in MaybeStrategy
BY DEF CRs

\* What a step of the worker may make of its program counter and its locals.
LEMMA GotoFacts ==
  ASSUME TypeOK, NEW l \in Steps, Goto(l)
  PROVE  /\ pc' = l
         /\ loc' \in Locals
         /\ l # "idle" => loc' = loc
<1>1. NoLoc \in Locals
  BY DEF NoLoc, Locals, MaybeStrategy
<1> QED
  BY <1>1 DEF Goto, TypeOK

\* A write lands if the worker's copy is fresh, and its answer may be lost.
LEMMA StoreFacts ==
  ASSUME TypeOK, NEW c \in CRs, NEW l \in Steps, Store(c, l)
  PROVE  /\ fresh /\ cr' = c
         /\ loc' \in Locals
         /\ \/ pc' = l /\ fresh' = TRUE /\ (l # "idle" => loc' = loc)
            \/ pc' = "idle" /\ fresh' = FALSE
<1>1. "idle" \in Steps
  BY DEF Steps
<1>2. CASE Goto(l) /\ fresh' = TRUE
  BY <1>2, GotoFacts DEF Store
<1>3. CASE Goto("idle") /\ fresh' = FALSE
  BY <1>1, <1>3, GotoFacts DEF Store
<1> QED
  BY <1>2, <1>3, Zenon DEF Store
----------------------------------------------------------------------------
\* The invariant holds before the first CR.
LEMMA InitHolds == Init => IInv
<1> SUFFICES ASSUME Init PROVE IInv
  OBVIOUS
<1>1. NoCR \in CRs /\ NoLoc \in Locals /\ "idle" \in Steps
  BY DEF NoCR, NoLoc, CRs, Locals, Steps, MaybeStrategy
<1>2. TypeOK
  BY <1>1, Zenon DEF Init, TypeOK, MaybeStrategy
<1>3. cr.life = "gone" /\ ~cr.fin
  BY DEF Init, NoCR
<1>4. HeldInv /\ WorkerInv
  BY <1>3 DEF Init, HeldInv, WorkerInv
<1> QED
  BY <1>2, <1>4 DEF IInv

\* Every step keeps the invariant.
LEMMA StepKeeps ==
  ASSUME PersistFirst, IInv, Next
  PROVE  IInv'
<1> USE StrategiesAssumption
<1>0. /\ TypeOK /\ HeldInv /\ WorkerInv
      /\ cr \in CRs /\ loc \in Locals /\ pc \in Steps /\ cfg \in MaybeStrategy \cup {NoEntry}
      /\ NoCR \in CRs /\ NoLoc \in Locals
      /\ {"idle", "pin", "finalizer", "create", "delete", "d_fin", "status"} \subseteq Steps
  BY DEF IInv, TypeOK, NoCR, NoLoc, CRs, Locals, Steps, MaybeStrategy
<1>00. loc.use \in MaybeStrategy /\ loc.del \in BOOLEAN
  BY <1>0 DEF Locals
<1>1. CASE Reconcile
  <2>1. StrategyToUse \in Strategies
    BY <1>1 DEF Reconcile, CanServe, SupportsStrategy
  <2>2. loc'.use = StrategyToUse /\ loc'.del = (cr.life = "deleting") /\ loc' \in Locals
    BY <1>1, <2>1 DEF Reconcile, Locals, MaybeStrategy
  <2>3. /\ cr' = cr /\ fresh' = TRUE /\ made' = made
        /\ cfg' = cfg /\ parent' = parent /\ calm' = calm
        /\ cr.life # "gone"
        /\ \/ pc' = "pin" /\ cr.strat = NoStrategy
           \/ pc' = "delete" /\ cr.life = "deleting" /\ cr.strat # NoStrategy
           \/ pc' \in {"finalizer", "status"} /\ cr.life = "live" /\ cr.strat # NoStrategy
    BY <1>1 DEF Reconcile, SkipCreate, world
  <2>4. cr.strat # NoStrategy => StrategyToUse = cr.strat
    BY DEF StrategyToUse
  <2>5. cr.life = IF loc'.del THEN "deleting" ELSE "live"
    BY <1>0, <2>2, <2>3, CRFacts, Zenon
  <2>6. TypeOK'
    BY <1>0, <2>2, <2>3 DEF TypeOK, Steps
  <2>7. HeldInv'
    BY <1>0, <2>3 DEF HeldInv
  <2>8. WorkerInv'
    BY <2>1, <2>2, <2>3, <2>4, <2>5 DEF WorkerInv
  <2> QED
    BY <2>6, <2>7, <2>8 DEF IInv
<1>2. CASE PersistStrategy
  <2> DEFINE new == [cr EXCEPT !.strat = loc.use]
             next == IF loc.del THEN "delete" ELSE "finalizer"
  <2>1. /\ new \in CRs /\ new.life = cr.life /\ new.fin = cr.fin /\ new.strat = loc.use
        /\ next \in Steps
    BY <1>0, <1>00 DEF CRs, Steps
  <2>2. /\ pc = "pin" /\ made' = made /\ cfg' = cfg /\ parent' = parent /\ calm' = calm
        /\ Store(new, next)
    BY <1>2 DEF PersistStrategy, world
  <2>3. /\ fresh /\ cr' = new
        /\ loc' \in Locals
        /\ \/ pc' = next /\ fresh' = TRUE /\ loc' = loc
           \/ pc' = "idle" /\ fresh' = FALSE
    <3> HIDE DEF new
    <3>1. next # "idle"
      OBVIOUS
    <3> HIDE DEF next
    <3> QED
      BY <1>0, <2>1, <2>2, <3>1, StoreFacts, Zenon
  <2>4. made = {}
    BY <1>0, <2>2, <2>3 DEF HeldInv, WorkerInv, TypeOK
  <2> HIDE DEF new
  <2>5. TypeOK'
    BY <1>0, <2>1, <2>2, <2>3, Zenon DEF TypeOK
  <2>6. HeldInv'
    BY <1>0, <2>1, <2>2, <2>3, <2>4 DEF HeldInv
  <2>7. WorkerInv'
    BY <1>0, <1>00, <2>1, <2>2, <2>3, <2>4 DEF WorkerInv
  <2> QED
    BY <2>5, <2>6, <2>7 DEF IInv
<1>3. CASE CreateFinalizer
  <2> DEFINE new == [cr EXCEPT !.fin = TRUE]
  <2>1. new \in CRs /\ new.life = cr.life /\ new.fin /\ new.strat = cr.strat
    BY <1>0, Zenon DEF CRs
  <2>2. /\ pc = "finalizer" /\ made' = made /\ cfg' = cfg /\ parent' = parent /\ calm' = calm
        /\ Store(new, "create")
    BY <1>3 DEF CreateFinalizer, world
  <2> HIDE DEF new
  <2>3. /\ fresh /\ cr' = new
        /\ loc' \in Locals
        /\ \/ pc' = "create" /\ fresh' = TRUE /\ loc' = loc
           \/ pc' = "idle" /\ fresh' = FALSE
    BY <1>0, <2>1, <2>2, StoreFacts, Zenon
  <2>4. TypeOK'
    BY <1>0, <2>1, <2>2, <2>3, Zenon DEF TypeOK
  <2>5. HeldInv'
    BY <1>0, <2>1, <2>2, <2>3 DEF HeldInv, WorkerInv
  <2>6. WorkerInv'
    BY <1>0, <2>1, <2>2, <2>3 DEF WorkerInv
  <2> QED
    BY <2>4, <2>5, <2>6 DEF IInv
<1>4. CASE Create
  <2>1. /\ pc = "create" /\ pc' = "status" /\ loc' = loc
        /\ cr' = cr /\ fresh' = fresh /\ cfg' = cfg /\ parent' = parent /\ calm' = calm
        /\ made' = made \cup {loc.use} \/ made' = made
    BY <1>0, <1>4, GotoFacts DEF Create
  <2>2. TypeOK'
    BY <1>0, <2>1 DEF TypeOK, WorkerInv
  <2>3. HeldInv'
    BY <1>0, <2>1 DEF HeldInv, WorkerInv
  <2>4. WorkerInv'
    BY <1>0, <2>1 DEF WorkerInv
  <2> QED
    BY <2>2, <2>3, <2>4 DEF IInv
<1>5. CASE Delete
  <2>1. /\ pc = "delete" /\ loc' = loc
        /\ cr' = cr /\ fresh' = fresh /\ cfg' = cfg /\ parent' = parent /\ calm' = calm
        /\ \/ pc' = "status" /\ (made' = made \ {loc.use} \/ made' = made)
           \/ pc' = "d_fin" /\ loc.use \notin made /\ made' = made
    BY <1>0, <1>5, GotoFacts DEF Delete
  <2>2. TypeOK'
    BY <1>0, <2>1 DEF TypeOK
  <2>3. HeldInv'
    BY <1>0, <2>1 DEF HeldInv
  <2>4. pc' = "d_fin" => made' = {}
    BY <1>0, <2>1 DEF HeldInv, WorkerInv
  <2>5. WorkerInv'
    BY <1>0, <2>1, <2>4 DEF WorkerInv
  <2> QED
    BY <2>2, <2>3, <2>5 DEF IInv
<1>6. CASE RemoveFinalizer
  <2>1. /\ pc = "d_fin" /\ pc' = "idle" /\ loc' \in Locals
        /\ cr' = NoCR /\ fresh' = FALSE
        /\ made' = made /\ cfg' = cfg /\ parent' = parent /\ calm' = calm
    BY <1>0, <1>6, GotoFacts DEF RemoveFinalizer, world
  <2>2. TypeOK'
    BY <1>0, <2>1, Zenon DEF TypeOK
  <2>3. HeldInv' /\ WorkerInv'
    BY <1>0, <2>1 DEF HeldInv, WorkerInv, NoCR
  <2> QED
    BY <2>2, <2>3 DEF IInv
<1>7. CASE UpdateStatus
  <2> DEFINE new == [cr EXCEPT !.strat = loc.use]
  <2>1. new \in CRs /\ new.life = cr.life /\ new.fin = cr.fin /\ new.strat = loc.use
    BY <1>0, <1>00 DEF CRs
  <2>2. /\ pc = "status" /\ made' = made /\ cfg' = cfg /\ parent' = parent /\ calm' = calm
        /\ Store(new, "idle")
    BY <1>7 DEF UpdateStatus, world
  <2> HIDE DEF new
  <2>3. fresh /\ cr' = new /\ loc' \in Locals /\ pc' = "idle" /\ fresh' \in BOOLEAN
    BY <1>0, <2>1, <2>2, StoreFacts, Zenon
  <2>4. TypeOK'
    BY <1>0, <2>1, <2>2, <2>3 DEF TypeOK
  <2>5. HeldInv' /\ WorkerInv'
    BY <1>0, <2>1, <2>2, <2>3 DEF HeldInv, WorkerInv
  <2> QED
    BY <2>4, <2>5 DEF IInv
<1>8. CASE Conflict \/ Crash
  <2>1. /\ pc' = "idle" /\ loc' \in Locals /\ cr' = cr /\ fresh' = fresh
        /\ made' = made /\ cfg' = cfg /\ parent' = parent /\ calm' = calm
    BY <1>0, <1>8, GotoFacts DEF Conflict, Crash, world
  <2>2. TypeOK'
    BY <1>0, <2>1 DEF TypeOK
  <2>3. HeldInv' /\ WorkerInv'
    BY <1>0, <2>1 DEF HeldInv, WorkerInv
  <2> QED
    BY <2>2, <2>3 DEF IInv
<1>9. CASE UserCreates
  <2> DEFINE new == [NoCR EXCEPT !.life = "live"]
  <2>1. new \in CRs /\ new.life = "live" /\ ~new.fin
    BY <1>0, Zenon DEF CRs, NoCR
  <2>2. /\ cr.life = "gone" /\ cr' = new /\ fresh' = fresh /\ pc' = pc /\ loc' = loc
        /\ made' = made /\ cfg' = cfg /\ parent' = parent /\ calm' = calm
    BY <1>9 DEF UserCreates, worker, world
  <2>3. ~cr.fin /\ made = {} /\ (pc # "idle" => ~fresh)
    BY <1>0, <1>00, <2>2 DEF HeldInv, WorkerInv
  <2> HIDE DEF new
  <2>4. TypeOK'
    BY <1>0, <2>1, <2>2 DEF TypeOK
  <2>5. HeldInv'
    BY <1>0, <2>1, <2>2, <2>3 DEF HeldInv
  <2>6. WorkerInv'
    BY <1>0, <2>1, <2>2, <2>3 DEF WorkerInv
  <2> QED
    BY <2>4, <2>5, <2>6 DEF IInv
<1>10. CASE UserDeletes
  <2>1. /\ cr.life = "live" /\ fresh' = FALSE /\ pc' = pc /\ loc' = loc
        /\ made' = made /\ cfg' = cfg /\ parent' = parent /\ calm' = calm
    BY <1>10 DEF UserDeletes, worker, world
  <2>2. CASE cr.fin
    <3>1. cr' = [cr EXCEPT !.life = "deleting"]
      BY <1>10, <2>2, Zenon DEF UserDeletes
    <3>2. cr' \in CRs /\ cr'.life = "deleting" /\ cr'.fin = cr.fin /\ cr'.strat = cr.strat
      BY <1>0, <3>1 DEF CRs
    <3>3. TypeOK'
      BY <1>0, <2>1, <3>2, Zenon DEF TypeOK
    <3>4. HeldInv' /\ WorkerInv'
      BY <1>0, <2>1, <2>2, <3>2 DEF HeldInv, WorkerInv
    <3> QED
      BY <3>3, <3>4 DEF IInv
  <2>3. CASE ~cr.fin
    <3>1. cr' = NoCR
      BY <1>10, <2>3, Zenon DEF UserDeletes
    <3>2. TypeOK'
      BY <1>0, <2>1, <3>1, Zenon DEF TypeOK
    <3>3. HeldInv' /\ WorkerInv'
      BY <1>0, <2>1, <2>3, <3>1 DEF HeldInv, WorkerInv, NoCR
    <3> QED
      BY <3>2, <3>3 DEF IInv
  <2> QED
    BY <2>2, <2>3
<1>11. CASE UserEdits \/ ConfigChanges \/ ParentChanges \/ CalmDown \/ ReconcileFails
  <2>1. /\ cr' = cr /\ pc' = pc /\ loc' = loc /\ made' = made
        /\ fresh' = fresh \/ fresh' = FALSE
    BY <1>11 DEF UserEdits, ConfigChanges, ParentChanges, CalmDown, ReconcileFails,
       worker, world, vars
  <2>2. fresh' \in BOOLEAN /\ parent' \in BOOLEAN /\ calm' \in BOOLEAN
    BY <1>0, <1>11, Zenon DEF UserEdits, ConfigChanges, ParentChanges, CalmDown,
       ReconcileFails, worker, world, vars, TypeOK
  <2>3. cfg' \in MaybeStrategy \cup {NoEntry}
    BY <1>0, <1>11 DEF UserEdits, ConfigChanges, ParentChanges, CalmDown,
       ReconcileFails, worker, world, vars
  <2>4. TypeOK'
    BY <1>0, <2>1, <2>2, <2>3 DEF TypeOK
  <2>5. HeldInv' /\ WorkerInv'
    BY <1>0, <2>1 DEF HeldInv, WorkerInv
  <2> QED
    BY <2>4, <2>5 DEF IInv
<1> QED
  BY <1>1, <1>2, <1>3, <1>4, <1>5, <1>6, <1>7, <1>8, <1>9, <1>10, <1>11
     DEF Next, Worker

\* The inductive invariant holds in all reachable states.
THEOREM Invariance ==
  ASSUME PersistFirst
  PROVE  Spec => []IInv
<1>1. IInv /\ [Next]_vars => IInv'
  <2>1. ASSUME IInv, UNCHANGED vars PROVE IInv'
    BY <2>1 DEF vars, IInv, TypeOK, HeldInv, WorkerInv
  <2> QED
    BY <2>1, StepKeeps
<1> QED
  BY <1>1, InitHolds, PTL DEF Spec

\* Whatever becomes of the config map, and wherever the worker dies, a CR is
\* served by one provider, if its strategy is stored first.
THEOREM ServedByOneProvider ==
  ASSUME PersistFirst
  PROVE  Spec => []OneProvider
<1>1. IInv => OneProvider
  BY DEF IInv, HeldInv, OneProvider
<1> QED
  BY <1>1, Invariance, PTL
----------------------------------------------------------------------------
\* A step that leaves alone what Claim looks at.
LEMMA SameClaim ==
  ASSUME cr'.life = cr.life, cr'.fin = cr.fin
  PROVE  Claim' = Claim
BY DEF Claim

\* Every step is a step of ManagedResource, or changes nothing there.
LEMMA SimulationStep ==
  ASSUME IInv, Next
  PROVE  Managed!Next \/ UNCHANGED Managed!vars
<1>0. TypeOK /\ HeldInv /\ WorkerInv /\ cr \in CRs /\ pc \in Steps
  BY DEF IInv, TypeOK
<1>1. ASSUME cr'.life = cr.life, cr'.fin = cr.fin, made' = made
      PROVE  UNCHANGED Managed!vars
  BY <1>1, SameClaim DEF Managed!vars
<1>2. CASE CreateFinalizer
  <2>1. fresh /\ pc = "finalizer" /\ cr' = [cr EXCEPT !.fin = TRUE] /\ made' = made
    BY <1>2 DEF CreateFinalizer, Store, world
  <2>2. cr'.life = cr.life /\ cr'.fin /\ cr.life = "live"
    BY <1>0, <2>1 DEF CRs, WorkerInv
  <2>3. CASE cr.fin
    <3>1. Claim' = Claim
      BY <2>2, <2>3, Zenon DEF Claim
    <3> QED
      BY <2>1, <3>1 DEF Managed!vars
  <2>4. CASE ~cr.fin
    <3>1. Claim = "asked" /\ Claim' = "held"
      BY <2>2, <2>4 DEF Claim
    <3> QED
      BY <2>1, <3>1 DEF Managed!Next, Managed!Hold
  <2> QED
    BY <2>3, <2>4
<1>3. CASE Create
  <2>1. /\ cr' = cr /\ pc = "create"
        /\ made' = made \cup {loc.use} \/ made' = made
    BY <1>3 DEF Create
  <2>2. cr.fin /\ cr.life \in {"live", "deleting"} /\ loc.use \in Strategies
    BY <1>0, <2>1, CRFacts DEF WorkerInv, HeldInv
  <2>3. Claim \in {"held", "released"} /\ Claim' = Claim
    BY <2>1, <2>2 DEF Claim
  <2>4. CASE made' = made \cup {loc.use}
    BY <2>2, <2>3, <2>4 DEF Managed!Next, Managed!Make
  <2>5. CASE made' = made
    BY <1>1, <2>1, <2>5
  <2> QED
    BY <2>1, <2>4, <2>5
<1>4. CASE Delete
  <2>1. cr' = cr /\ ((loc.use \in made /\ made' = made \ {loc.use}) \/ made' = made)
    BY <1>4 DEF Delete
  <2>2. CASE loc.use \in made /\ made' = made \ {loc.use}
    <3>1. loc.use \in Strategies /\ Claim' = Claim
      BY <1>0, <2>1, <2>2, SameClaim DEF TypeOK
    <3> QED
      BY <2>2, <3>1 DEF Managed!Next, Managed!Lose
  <2>3. CASE made' = made
    BY <1>1, <2>1, <2>3
  <2> QED
    BY <2>1, <2>2, <2>3
<1>5. CASE RemoveFinalizer
  <2>1. pc = "d_fin" /\ cr' = NoCR /\ made' = made
    BY <1>5 DEF RemoveFinalizer, world
  <2>2. cr.life = "deleting" /\ made = {}
    BY <1>0, <2>1 DEF WorkerInv
  <2>3. Claim = "released" /\ Claim' = "none"
    BY <2>1, <2>2 DEF Claim, NoCR
  <2> QED
    BY <2>1, <2>2, <2>3 DEF Managed!Next, Managed!Forget
<1>6. CASE UserCreates
  <2>1. cr.life = "gone" /\ cr'.life = "live" /\ ~cr'.fin /\ made' = made
    BY <1>6 DEF UserCreates, NoCR, world
  <2>2. Claim = "none" /\ Claim' = "asked"
    BY <2>1 DEF Claim
  <2> QED
    BY <2>1, <2>2 DEF Managed!Next, Managed!Ask
<1>7. CASE UserDeletes
  <2>1. cr.life = "live" /\ made' = made
    BY <1>7 DEF UserDeletes, world
  <2>2. CASE cr.fin
    <3>1. cr' = [cr EXCEPT !.life = "deleting"]
      BY <1>7, <2>2, Zenon DEF UserDeletes
    <3>2. cr'.life = "deleting"
      BY <1>0, <3>1 DEF CRs
    <3>3. Claim = "held" /\ Claim' = "released"
      BY <2>1, <2>2, <3>2 DEF Claim
    <3> QED
      BY <2>1, <3>3 DEF Managed!Next, Managed!Release
  <2>3. CASE ~cr.fin
    <3>1. cr' = NoCR
      BY <1>7, <2>3, Zenon DEF UserDeletes
    <3>2. Claim = "asked" /\ Claim' = "none"
      BY <2>1, <2>3, <3>1 DEF Claim, NoCR
    <3> QED
      BY <2>1, <3>2 DEF Managed!Next, Managed!Withdraw
  <2> QED
    BY <2>2, <2>3
<1>8. CASE PersistStrategy \/ UpdateStatus
  <2>1. cr' = [cr EXCEPT !.strat = loc.use] /\ made' = made
    BY <1>8 DEF PersistStrategy, UpdateStatus, Store, world
  <2>2. cr'.life = cr.life /\ cr'.fin = cr.fin
    BY <1>0, <2>1 DEF CRs
  <2> QED
    BY <1>1, <2>1, <2>2
<1>9. CASE Reconcile \/ ReconcileFails \/ Conflict \/ Crash \/ UserEdits
             \/ ConfigChanges \/ ParentChanges \/ CalmDown
  <2>1. cr' = cr /\ made' = made
    BY <1>9 DEF Reconcile, ReconcileFails, Conflict, Crash, UserEdits, ConfigChanges,
       ParentChanges, CalmDown, world, vars
  <2> QED
    BY <1>1, <2>1
<1> QED
  BY <1>2, <1>3, <1>4, <1>5, <1>6, <1>7, <1>8, <1>9 DEF Next, Worker

\* The finalizer that all providers share is removed only by the provider that
\* made the resource, once it is gone: the controller implements ManagedResource.
THEOREM Refinement ==
  ASSUME PersistFirst
  PROVE  Spec => ImplementsManagedResource
<1>1. Init => Managed!Init
  <2> SUFFICES ASSUME Init PROVE Claim = "none" /\ made = {}
    BY DEF Managed!Init
  <2>1. cr.life = "gone" /\ made = {}
    BY DEF Init, NoCR
  <2> QED
    BY <2>1 DEF Claim
<1>2. IInv /\ [Next]_vars => [Managed!Next]_(Managed!vars)
  <2>1. ASSUME UNCHANGED vars PROVE UNCHANGED Managed!vars
    BY <2>1, SameClaim DEF vars, Managed!vars
  <2> QED
    BY <2>1, SimulationStep
<1> QED
  BY <1>1, <1>2, Invariance, PTL DEF Spec, ImplementsManagedResource, Managed!Spec
============================================================================
