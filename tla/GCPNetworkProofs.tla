-------------------------- MODULE GCPNetworkProofs --------------------------
(***************************************************************************)
(* The network of GCPNetwork for any set of CRs.  The model checker looks  *)
(* at two; IsLastResource counts, and a count is what three CRs could      *)
(* upset.  The argument: without races one CR at a time is being deleted,  *)
(* the one that takes the network down is alone, and what it has taken     *)
(* apart no worker can use (Tearing).                                      *)
(***************************************************************************)
EXTENDS GCPNetwork, TLAPS

\* The calls after the instance was found absent, and those of the teardown.
Gone == {"d_peer", "d_svc", "d_range", "d_address", "d_exist", "d_fin"}
Teardown == Gone \ {"d_fin"}

Alone(r) == \A q \in Resources \ {r} : cr[q] = "none"

\* A worker runs only for a CR with the finalizer, deletes only for one that is
\* being deleted, and is past DeleteInstance only without an instance.
WorkerInv ==
  \A r \in Resources :
    /\ w[r].pc # "idle" => cr[r] \in {"held", "deleting"}
    /\ w[r].pc \in DeleteSteps => cr[r] = "deleting"
    /\ w[r].pc \in Gone => inst[r] = "absent"
    /\ w[r].pc \in Teardown => w[r].last
    /\ inst[r] # "absent" => cr[r] \in {"held", "deleting"}

\* The parts that GCP itself keeps consistent.
CloudInv ==
  /\ svc = "creating" => addr = "reserved"
  /\ peer => Listed
  /\ \A r \in Resources : inst[r] = "up" => svc = "present"

\* The network can be used, or the only CR is taking it down and no worker
\* will create anything before that CR is gone.
Usable == svc # "deleting" /\ (svc = "present" => addr = "reserved" /\ peer)

Tearing ==
  \E r \in Resources : /\ cr[r] = "deleting" /\ Alone(r)
                       /\ inst[r] = "absent" /\ w[r].pc \notin CreateSteps

\* Without races: one deletion at a time, an answer of IsLastResource that stays
\* true, and nothing left of the network when the last CR gives up its finalizer.
OneDeletion == \A q, r \in Resources : cr[q] = "deleting" /\ cr[r] = "deleting" => q = r
AnswerStays ==
  \A r \in Resources : w[r].pc \in DeleteSteps \ {"last"} => (w[r].last <=> Alone(r))
LastLeavesNothing == \A r \in Resources : w[r].pc = "d_fin" /\ w[r].last => NoNetwork
NoneLeftNothing == (\A r \in Resources : cr[r] = "none") => NoNetwork

CalmInv ==
  ~raced => /\ OneDeletion /\ AnswerStays /\ LastLeavesNothing /\ NoneLeftNothing
            /\ Usable \/ Tearing

IInv == TypeOK /\ WorkerInv /\ CloudInv /\ CalmInv
----------------------------------------------------------------------------
Labels == {"idle"} \cup CreateSteps \cup DeleteSteps
Workers == [pc : Labels, last : BOOLEAN]

\* The worker of r is at label l with answer b of IsLastResource; the others
\* are where they were.
Moves(r, l, b) ==
  /\ w' \in [Resources -> Workers]
  /\ w'[r].pc = l /\ w'[r].last = b
  /\ \A q \in Resources \ {r} : w'[q] = w[q]

\* How the sets of labels lie in each other.
LEMMA LabelTypes ==
  /\ "idle" \in Labels /\ CreateSteps \subseteq Labels /\ DeleteSteps \subseteq Labels
  /\ Gone \subseteq DeleteSteps /\ Teardown \subseteq Gone /\ "d_fin" \notin Teardown
  /\ CreateSteps \cap DeleteSteps = {} /\ "idle" \notin CreateSteps /\ "idle" \notin DeleteSteps
  BY DEF Labels, CreateSteps, DeleteSteps, Gone, Teardown

\* A jump moves one worker; a return forgets the answer of IsLastResource.
LEMMA GotoFacts ==
  ASSUME TypeOK, NEW r \in Resources, NEW l \in Labels, Goto(r, l)
  PROVE  Moves(r, l, IF l = "idle" THEN FALSE ELSE w[r].last)
  <1>1. w \in [Resources -> Workers]
    BY DEF TypeOK, Workers, Labels
  <1> DEFINE new == IF l = "idle" THEN Idle ELSE [w[r] EXCEPT !.pc = l]
  <1>2. w' = [w EXCEPT ![r] = new]
    BY DEF Goto
  <1>3. new \in Workers /\ new.pc = l /\ new.last = IF l = "idle" THEN FALSE ELSE w[r].last
    BY <1>1 DEF Idle, Workers
  <1> HIDE DEF new
  <1> QED
    BY <1>1, <1>2, <1>3, Zenon DEF Moves

\* A reconcile that returns leaves an idle worker behind.
LEMMA ReturnFacts ==
  ASSUME TypeOK, NEW r \in Resources, Return(r)
  PROVE  Moves(r, "idle", FALSE)
  <1>1. Goto(r, "idle")
    BY DEF Return
  <1> QED
    BY <1>1, GotoFacts, LabelTypes, Zenon

\* The condition under which a worker may be at label l with answer b.
Allowed(r, l, b) ==
  /\ l # "idle" => cr[r] \in {"held", "deleting"}
  /\ l \in DeleteSteps => cr[r] = "deleting"
  /\ l \in Gone => inst[r] = "absent"
  /\ l \in Teardown => b
  /\ l \in CreateSteps => w[r].pc \in CreateSteps \/ cr[r] # "deleting"
  /\ ~raced => /\ l \in DeleteSteps \ {"last"} => (b <=> Alone(r))
               /\ l = "d_fin" /\ b => NoNetwork

\* Nothing is asked of an idle worker.
LEMMA AllowedIdle ==
  ASSUME NEW r \in Resources
  PROVE  Allowed(r, "idle", FALSE)
  BY LabelTypes DEF Allowed

\* A step of a worker without an effect keeps the invariant.
LEMMA MoveKeeps ==
  ASSUME IInv, NEW r \in Resources, NEW l \in Labels, NEW b \in BOOLEAN,
         Moves(r, l, b), Allowed(r, l, b), OnlyWorker
  PROVE  IInv'
  <1>1. UNCHANGED <<cr, addr, svc, peer, inst, raced, calm>>
    BY DEF OnlyWorker, Quiet, net
  <1>2. TypeOK'
    BY <1>1 DEF IInv, TypeOK, Moves, Workers, Labels
  <1>3. WorkerInv'
    BY <1>1 DEF IInv, WorkerInv, Moves, Allowed
  <1>4. CloudInv'
    BY <1>1 DEF IInv, CloudInv, Listed
  <1>5. CalmInv'
    <2> SUFFICES ASSUME ~raced
                 PROVE  /\ OneDeletion' /\ AnswerStays' /\ LastLeavesNothing' /\ NoneLeftNothing'
                        /\ Usable' \/ Tearing'
      BY <1>1 DEF CalmInv
    <2>1. /\ OneDeletion /\ AnswerStays /\ LastLeavesNothing /\ NoneLeftNothing
          /\ Usable \/ Tearing
      BY DEF IInv, CalmInv
    <2>2. Usable' = Usable /\ NoNetwork' = NoNetwork
      BY <1>1 DEF Usable, NoNetwork
    <2>3. \A q \in Resources : Alone(q)' = Alone(q)
      BY <1>1 DEF Alone
    <2>4. Tearing => Tearing'
      <3> SUFFICES ASSUME NEW q \in Resources, cr[q] = "deleting", Alone(q),
                          inst[q] = "absent", w[q].pc \notin CreateSteps
                   PROVE  w'[q].pc \notin CreateSteps
        BY <1>1 DEF Tearing, Alone
      <3> QED
        BY DEF Moves, Allowed
    <2>5. OneDeletion' /\ NoneLeftNothing'
      BY <1>1, <2>1, <2>2 DEF OneDeletion, NoneLeftNothing
    <2>6. AnswerStays' /\ LastLeavesNothing'
      BY <1>1, <2>1, <2>2, <2>3 DEF AnswerStays, LastLeavesNothing, Moves, Allowed, Alone
    <2> QED
      BY <2>1, <2>2, <2>4, <2>5, <2>6
  <1> QED
    BY <1>2, <1>3, <1>4, <1>5 DEF IInv

\* A step of a worker with an effect on the network or on its instance keeps
\* the invariant, if the parts about the effect are kept.
LEMMA EffectKeeps ==
  ASSUME IInv, NEW r \in Resources, NEW l \in Labels, NEW b \in BOOLEAN, Moves(r, l, b), Quiet,
         inst' \in [Resources -> {"absent", "up", "deleting"}],
         \A q \in Resources \ {r} : inst'[q] = inst[q],
         addr' \in {"absent", "reserving", "reserved"},
         svc' \in {"absent", "creating", "present", "deleting"}, peer' \in BOOLEAN,
         l # "idle" \/ inst'[r] # "absent" => cr[r] \in {"held", "deleting"},
         l \in DeleteSteps => cr[r] = "deleting",
         l \in Gone => inst'[r] = "absent",
         l \in Teardown => b,
         CloudInv',
         ~raced => /\ l \in DeleteSteps \ {"last"} => (b <=> Alone(r))
                   /\ LastLeavesNothing' /\ NoneLeftNothing'
                   /\ Usable' \/ Tearing'
  PROVE  IInv'
  <1>1. UNCHANGED <<cr, raced, calm>>
    BY DEF Quiet
  <1>2. TypeOK'
    BY <1>1 DEF IInv, TypeOK, Moves, Workers, Labels
  <1>3. WorkerInv'
    BY <1>1 DEF IInv, WorkerInv, Moves
  <1>4. CalmInv'
    <2> SUFFICES ASSUME ~raced PROVE OneDeletion' /\ AnswerStays'
      BY <1>1 DEF CalmInv
    <2>1. OneDeletion /\ AnswerStays
      BY DEF IInv, CalmInv
    <2> QED
      BY <1>1, <2>1 DEF OneDeletion, AnswerStays, Moves, Alone
  <1> QED
    BY <1>2, <1>3, <1>4 DEF IInv

\* Without races nothing is taken down while a worker creates.
LEMMA Creating ==
  ASSUME IInv, NEW r \in Resources, w[r].pc \in CreateSteps
  PROVE  /\ cr[r] \in {"held", "deleting"} /\ w[r].pc # "idle"
         /\ ~raced => Usable /\ \A q \in Resources : ~(w[q].pc = "d_fin" /\ w[q].last)
  <1>1. cr[r] \in {"held", "deleting"} /\ w[r].pc # "idle"
    BY LabelTypes DEF IInv, WorkerInv
  <1> SUFFICES ASSUME ~raced
               PROVE  Usable /\ \A q \in Resources : ~(w[q].pc = "d_fin" /\ w[q].last)
    BY <1>1
  <1>2. AnswerStays /\ (Usable \/ Tearing)
    BY DEF IInv, CalmInv
  <1>3. ~Tearing
    BY <1>1 DEF Tearing, Alone
  <1>4. \A q \in Resources : ~(w[q].pc = "d_fin" /\ w[q].last)
    BY <1>1, <1>2 DEF AnswerStays, Alone, DeleteSteps, CreateSteps
  <1> QED
    BY <1>2, <1>3, <1>4

\* Without races the CR that takes the network down is alone: no other worker
\* runs, and no instance is there.
LEMMA TakingDown ==
  ASSUME IInv, NEW r \in Resources, w[r].pc \in Teardown
  PROVE  /\ cr[r] = "deleting" /\ inst[r] = "absent" /\ w[r].last
         /\ ~raced => Alone(r) /\ \A q \in Resources \ {r} : w[q].pc = "idle" /\ inst[q] = "absent"
  <1>1. cr[r] = "deleting" /\ inst[r] = "absent" /\ w[r].last
    BY LabelTypes DEF IInv, WorkerInv
  <1> SUFFICES ASSUME ~raced
               PROVE  Alone(r) /\ \A q \in Resources \ {r} : w[q].pc = "idle" /\ inst[q] = "absent"
    BY <1>1
  <1>2. Alone(r)
    BY <1>1, LabelTypes DEF IInv, CalmInv, AnswerStays, Teardown, Gone, DeleteSteps
  <1> QED
    BY <1>2 DEF Alone, IInv, WorkerInv

\* A step of the teardown that ends outside of d_fin, or there with nothing left.
LEMMA TeardownKeeps ==
  ASSUME IInv, NEW r \in Resources, w[r].pc \in Teardown, NEW l \in Gone \cup {"idle"},
         NEW b \in BOOLEAN, Moves(r, l, b), Quiet, UNCHANGED inst, b = (l # "idle"),
         addr' \in {"absent", "reserving", "reserved"},
         svc' \in {"absent", "creating", "present", "deleting"}, peer' \in BOOLEAN,
         CloudInv', l = "d_fin" => NoNetwork'
  PROVE  IInv'
  <1>1. /\ cr[r] = "deleting" /\ inst[r] = "absent"
        /\ ~raced => Alone(r) /\ \A q \in Resources \ {r} : w[q].pc = "idle" /\ inst[q] = "absent"
    BY TakingDown
  <1>2. l \in Labels /\ l \notin CreateSteps
    BY LabelTypes
  <1>3. UNCHANGED <<cr, raced, calm, inst>>
    BY DEF Quiet
  <1>4. ~raced => LastLeavesNothing'
    BY <1>1 DEF LastLeavesNothing, Moves
  <1>5. NoneLeftNothing'
    BY <1>1, <1>3 DEF NoneLeftNothing
  <1>6. ~raced => Tearing'
    BY <1>1, <1>2, <1>3 DEF Tearing, Moves, Alone
  <1>7. inst' \in [Resources -> {"absent", "up", "deleting"}]
    BY <1>3 DEF IInv, TypeOK
  <1> QED
    BY <1>1, <1>2, <1>3, <1>4, <1>5, <1>6, <1>7, EffectKeeps, LabelTypes, Zenon
----------------------------------------------------------------------------
(* The steps of a worker.                                                  *)

\* A return without an effect.
LEMMA ReturnKeeps ==
  ASSUME IInv, NEW r \in Resources, Return(r), OnlyWorker
  PROVE  IInv'
  BY ReturnFacts, AllowedIdle, MoveKeeps, LabelTypes, Zenon DEF IInv

\* A jump without an effect.
LEMMA GotoKeeps ==
  ASSUME IInv, NEW r \in Resources, NEW l \in Labels \ {"idle"}, Goto(r, l), OnlyWorker,
         Allowed(r, l, w[r].last)
  PROVE  IInv'
  <1>1. w[r].last \in BOOLEAN
    BY DEF IInv, TypeOK
  <1>2. Moves(r, l, w[r].last)
    BY GotoFacts, Zenon DEF IInv
  <1> QED
    BY <1>1, <1>2, MoveKeeps

\* The finalizer is stored before the first call.
LEMMA ReconcileKeeps ==
  ASSUME IInv, NEW r \in Resources, Reconcile(r)
  PROVE  IInv'
  <1> DEFINE l == IF cr[r] = "deleting" THEN "last" ELSE "range"
  <1>1. /\ w[r].pc = "idle" /\ cr[r] # "none" /\ Goto(r, l)
        /\ cr' = [cr EXCEPT ![r] = IF cr[r] = "new" THEN "held" ELSE cr[r]]
        /\ UNCHANGED <<addr, svc, peer, inst, raced, calm>>
    BY DEF Reconcile, At, net
  <1>2. /\ l \in Labels /\ l # "idle" /\ l \notin Gone /\ l \notin DeleteSteps \ {"last"}
        /\ l \in DeleteSteps => cr[r] = "deleting"
        /\ l \in CreateSteps => cr[r] # "deleting"
    BY DEF Labels, CreateSteps, DeleteSteps, Gone
  <1> HIDE DEF l
  <1>3. Moves(r, l, w[r].last)
    BY <1>1, <1>2, GotoFacts, Zenon DEF IInv
  <1>4. /\ cr' \in [Resources -> {"none", "new", "held", "deleting"}]
        /\ cr'[r] \in {"held", "deleting"} /\ (cr'[r] = "deleting" <=> cr[r] = "deleting")
        /\ \A q \in Resources \ {r} : cr'[q] = cr[q]
        /\ \A q \in Resources : /\ cr'[q] = "deleting" <=> cr[q] = "deleting"
                                /\ cr'[q] = "none" <=> cr[q] = "none"
    BY <1>1 DEF IInv, TypeOK
  <1>5. TypeOK'
    BY <1>1, <1>3, <1>4 DEF IInv, TypeOK, Moves, Workers, Labels
  <1>6. WorkerInv'
    BY <1>1, <1>2, <1>3, <1>4, LabelTypes DEF IInv, WorkerInv, Moves
  <1>7. CloudInv'
    BY <1>1 DEF IInv, CloudInv, Listed
  <1>8. CalmInv'
    <2> SUFFICES ASSUME ~raced
                 PROVE  /\ OneDeletion' /\ AnswerStays' /\ LastLeavesNothing' /\ NoneLeftNothing'
                        /\ Usable' \/ Tearing'
      BY <1>1 DEF CalmInv
    <2>1. /\ OneDeletion /\ AnswerStays /\ LastLeavesNothing /\ NoneLeftNothing
          /\ Usable \/ Tearing
      BY DEF IInv, CalmInv
    <2>2. Usable' = Usable /\ NoNetwork' = NoNetwork
      BY <1>1 DEF Usable, NoNetwork
    <2>3. \A q \in Resources : Alone(q)' <=> Alone(q)
      BY <1>4 DEF Alone
    <2>4. Tearing => Tearing'
      BY <1>1, <1>2, <1>3, <1>4 DEF Tearing, Moves, Alone
    <2>5. OneDeletion' /\ NoneLeftNothing'
      BY <1>4, <2>1, <2>2 DEF OneDeletion, NoneLeftNothing
    <2>6. AnswerStays'
      <3> SUFFICES ASSUME NEW q \in Resources, w'[q].pc \in DeleteSteps \ {"last"}
                   PROVE  w'[q].last <=> Alone(q)'
        BY DEF AnswerStays
      <3>1. q # r
        BY <1>2, <1>3 DEF Moves
      <3> QED
        BY <1>3, <2>1, <2>3, <3>1 DEF AnswerStays, Moves
    <2>7. LastLeavesNothing'
      BY <1>2, <1>3, <2>1, <2>2 DEF LastLeavesNothing, Moves, Gone
    <2> QED
      BY <2>1, <2>2, <2>4, <2>5, <2>6, <2>7
  <1> QED
    BY <1>5, <1>6, <1>7, <1>8 DEF IInv

LEMMA CreateNetworkIpRangeKeeps ==
  ASSUME IInv, NEW r \in Resources, CreateNetworkIpRange(r)
  PROVE  IInv'
  <1>1. w[r].pc = "range" /\ OnlyWorker /\ (Goto(r, "insert") \/ Goto(r, "service"))
    BY DEF CreateNetworkIpRange, At
  <1>2. cr[r] \in {"held", "deleting"}
    BY <1>1 DEF IInv, WorkerInv
  <1>3. \A l \in {"insert", "service"} : l \in Labels \ {"idle"} /\ Allowed(r, l, w[r].last)
    BY <1>1, <1>2 DEF Allowed, Labels, CreateSteps, DeleteSteps, Gone, Teardown
  <1> QED
    BY <1>1, <1>3, GotoKeeps

LEMMA CreateAddressRangeKeeps ==
  ASSUME IInv, NEW r \in Resources, CreateAddressRange(r)
  PROVE  IInv'
  <1>1. /\ w[r].pc = "insert" /\ Return(r) /\ Quiet /\ UNCHANGED <<svc, peer, inst>>
        /\ addr' = IF addr = "absent" THEN "reserving" ELSE addr
    BY DEF CreateAddressRange, At
  <1>2. /\ cr[r] \in {"held", "deleting"}
        /\ ~raced => Usable /\ \A q \in Resources : ~(w[q].pc = "d_fin" /\ w[q].last)
    BY <1>1, Creating DEF CreateSteps
  <1>3. Moves(r, "idle", FALSE)
    BY <1>1, ReturnFacts, Zenon DEF IInv
  <1>4. UNCHANGED <<cr, raced, calm>>
    BY <1>1 DEF Quiet
  <1>5. CloudInv'
    BY <1>1 DEF IInv, CloudInv, Listed
  <1>6. ~raced => LastLeavesNothing' /\ NoneLeftNothing' /\ Usable'
    BY <1>1, <1>2, <1>3, <1>4 DEF LastLeavesNothing, NoneLeftNothing, Usable, Moves
  <1>7. /\ inst' \in [Resources -> {"absent", "up", "deleting"}]
        /\ addr' \in {"absent", "reserving", "reserved"} /\ peer' \in BOOLEAN
        /\ svc' \in {"absent", "creating", "present", "deleting"}
    BY <1>1 DEF IInv, TypeOK
  <1> QED
    BY <1>1, <1>2, <1>3, <1>5, <1>6, <1>7, EffectKeeps, LabelTypes, Zenon

LEMMA CreateNetworkServiceKeeps ==
  ASSUME IInv, NEW r \in Resources, CreateNetworkService(r)
  PROVE  IInv'
  <1>1. w[r].pc = "service" /\ OnlyWorker
    BY DEF CreateNetworkService, At
  <1>2. Goto(r, "instance") \/ Goto(r, "connect") \/ Return(r)
    <2>1. CASE Listed
      BY <2>1, Zenon DEF CreateNetworkService
    <2>2. CASE ~Listed /\ addr = "reserved"
      BY <2>2, Zenon DEF CreateNetworkService
    <2>3. CASE ~Listed /\ ~(addr = "reserved")
      BY <2>3, Zenon DEF CreateNetworkService
    <2> QED
      BY <2>1, <2>2, <2>3
  <1>3. cr[r] \in {"held", "deleting"}
    BY <1>1 DEF IInv, WorkerInv
  <1>4. \A l \in {"instance", "connect"} : l \in Labels \ {"idle"} /\ Allowed(r, l, w[r].last)
    BY <1>1, <1>3 DEF Allowed, Labels, CreateSteps, DeleteSteps, Gone, Teardown
  <1> QED
    BY <1>1, <1>2, <1>4, GotoKeeps, ReturnKeeps

LEMMA CreateServiceConnectionKeeps ==
  ASSUME IInv, NEW r \in Resources, CreateServiceConnection(r)
  PROVE  IInv'
  <1>1. /\ w[r].pc = "connect" /\ Return(r) /\ Quiet /\ UNCHANGED <<addr, peer, inst>>
        /\ svc' = IF svc = "absent" /\ addr = "reserved" THEN "creating" ELSE svc
    BY DEF CreateServiceConnection, At
  <1>2. /\ cr[r] \in {"held", "deleting"}
        /\ ~raced => Usable /\ \A q \in Resources : ~(w[q].pc = "d_fin" /\ w[q].last)
    BY <1>1, Creating DEF CreateSteps
  <1>3. Moves(r, "idle", FALSE)
    BY <1>1, ReturnFacts, Zenon DEF IInv
  <1>4. UNCHANGED <<cr, raced, calm>>
    BY <1>1 DEF Quiet
  <1>5. CloudInv'
    BY <1>1 DEF IInv, CloudInv, Listed
  <1>6. ~raced => LastLeavesNothing' /\ NoneLeftNothing' /\ Usable'
    BY <1>1, <1>2, <1>3, <1>4 DEF LastLeavesNothing, NoneLeftNothing, Usable, Moves
  <1>7. /\ inst' \in [Resources -> {"absent", "up", "deleting"}]
        /\ addr' \in {"absent", "reserving", "reserved"} /\ peer' \in BOOLEAN
        /\ svc' \in {"absent", "creating", "present", "deleting"}
    BY <1>1 DEF IInv, TypeOK
  <1> QED
    BY <1>1, <1>2, <1>3, <1>5, <1>6, <1>7, EffectKeeps, LabelTypes, Zenon

LEMMA CreateInstanceKeeps ==
  ASSUME IInv, NEW r \in Resources, CreateInstance(r)
  PROVE  IInv'
  <1> DEFINE new == IF inst[r] = "absent" /\ svc = "present" THEN "up" ELSE inst[r]
  <1>1. /\ w[r].pc = "instance" /\ Return(r) /\ Quiet /\ UNCHANGED <<addr, svc, peer>>
        /\ inst' = [inst EXCEPT ![r] = new]
    BY DEF CreateInstance, At, net
  <1>2. /\ cr[r] \in {"held", "deleting"}
        /\ ~raced => Usable /\ \A q \in Resources : ~(w[q].pc = "d_fin" /\ w[q].last)
    BY <1>1, Creating DEF CreateSteps
  <1>3. Moves(r, "idle", FALSE)
    BY <1>1, ReturnFacts, Zenon DEF IInv
  <1>4. UNCHANGED <<cr, raced, calm>>
    BY <1>1 DEF Quiet
  <1>5. new \in {"absent", "up", "deleting"} /\ (new = "up" => svc = "present")
    BY DEF IInv, TypeOK, CloudInv
  <1> HIDE DEF new
  <1>6. /\ inst' \in [Resources -> {"absent", "up", "deleting"}] /\ inst'[r] = new
        /\ \A q \in Resources \ {r} : inst'[q] = inst[q]
    BY <1>1, <1>5 DEF IInv, TypeOK
  <1>7. CloudInv'
    BY <1>1, <1>5, <1>6 DEF IInv, CloudInv, Listed
  <1>8. ~raced => LastLeavesNothing' /\ NoneLeftNothing' /\ Usable'
    BY <1>1, <1>2, <1>3, <1>4 DEF LastLeavesNothing, NoneLeftNothing, Usable, Moves
  <1>9. /\ addr' \in {"absent", "reserving", "reserved"} /\ peer' \in BOOLEAN
        /\ svc' \in {"absent", "creating", "present", "deleting"}
    BY <1>1 DEF IInv, TypeOK
  <1> QED
    BY <1>1, <1>2, <1>3, <1>6, <1>7, <1>8, <1>9, EffectKeeps, LabelTypes, Zenon

LEMMA IsLastResourceKeeps ==
  ASSUME IInv, NEW r \in Resources, IsLastResource(r)
  PROVE  IInv'
  <1> DEFINE b == Alone(r)
  <1>1. /\ w[r].pc = "last" /\ OnlyWorker
        /\ w' = [w EXCEPT ![r] = [pc |-> "d_inst", last |-> b]]
    BY DEF IsLastResource, At, Alone
  <1>2. b \in BOOLEAN
    BY DEF Alone
  <1> HIDE DEF b
  <1>3. "d_inst" \in Labels /\ "d_inst" \in DeleteSteps /\ "d_inst" \notin Gone
        /\ "d_inst" \notin CreateSteps
    BY DEF Labels, CreateSteps, DeleteSteps, Gone
  <1>4. [pc |-> "d_inst", last |-> b] \in Workers
    BY <1>2, <1>3 DEF Workers
  <1>5. w \in [Resources -> Workers]
    BY DEF IInv, TypeOK, Workers, Labels
  <1>6. Moves(r, "d_inst", b)
    BY <1>1, <1>4, <1>5 DEF Moves
  <1>7. cr[r] = "deleting"
    BY <1>1 DEF IInv, WorkerInv, DeleteSteps
  <1>8. Allowed(r, "d_inst", b)
    BY <1>3, <1>7 DEF Allowed, b, Gone, Teardown
  <1> QED
    BY <1>1, <1>2, <1>3, <1>6, <1>8, MoveKeeps

LEMMA DeleteInstanceKeeps ==
  ASSUME IInv, NEW r \in Resources, DeleteInstance(r)
  PROVE  IInv'
  <1>1. w[r].pc = "d_inst" /\ Quiet /\ UNCHANGED <<addr, svc, peer>>
    BY DEF DeleteInstance, At, net
  <1>2. /\ cr[r] = "deleting" /\ w[r].last \in BOOLEAN
        /\ ~raced => (w[r].last <=> Alone(r))
    BY <1>1 DEF IInv, TypeOK, WorkerInv, CalmInv, AnswerStays, DeleteSteps
  <1>3. CASE inst[r] = "absent"
    <2> DEFINE l == IF w[r].last THEN "d_peer" ELSE "d_fin"
    <2>1. Goto(r, l) /\ UNCHANGED inst
      BY <1>3 DEF DeleteInstance
    <2>2. OnlyWorker
      BY <1>1, <2>1 DEF OnlyWorker, net
    <2>3. /\ l \in Labels \ {"idle"} /\ l \in DeleteSteps /\ l \notin CreateSteps
          /\ l \in Teardown => w[r].last
          /\ l = "d_fin" => ~w[r].last
      BY <1>2 DEF Labels, CreateSteps, DeleteSteps, Gone, Teardown
    <2> HIDE DEF l
    <2>4. Allowed(r, l, w[r].last)
      BY <1>2, <1>3, <2>3 DEF Allowed
    <2> QED
      BY <2>1, <2>2, <2>3, <2>4, GotoKeeps
  <1>4. CASE inst[r] # "absent"
    <2>1. Return(r) /\ inst' = [inst EXCEPT ![r] = "deleting"]
      BY <1>4 DEF DeleteInstance
    <2>2. Moves(r, "idle", FALSE)
      BY <2>1, ReturnFacts, Zenon DEF IInv
    <2>3. UNCHANGED <<cr, raced, calm>>
      BY <1>1 DEF Quiet
    <2>4. /\ inst' \in [Resources -> {"absent", "up", "deleting"}] /\ inst'[r] = "deleting"
          /\ \A q \in Resources \ {r} : inst'[q] = inst[q]
      BY <2>1 DEF IInv, TypeOK
    <2>5. CloudInv'
      BY <1>1, <2>4 DEF IInv, CloudInv, Listed
    <2>6. ~raced => /\ LastLeavesNothing' /\ NoneLeftNothing'
                    /\ Usable' \/ Tearing'
      <3> SUFFICES ASSUME ~raced
                   PROVE  LastLeavesNothing' /\ NoneLeftNothing' /\ (Usable' \/ Tearing')
        OBVIOUS
      <3>1. LastLeavesNothing /\ (Usable \/ Tearing)
        BY DEF IInv, CalmInv
      <3>2. ~Tearing
        BY <1>2, <1>4 DEF Tearing, Alone
      <3> QED
        BY <1>1, <1>2, <2>2, <2>3, <3>1, <3>2
           DEF LastLeavesNothing, NoneLeftNothing, NoNetwork, Usable, Moves
    <2>7. /\ addr' \in {"absent", "reserving", "reserved"} /\ peer' \in BOOLEAN
          /\ svc' \in {"absent", "creating", "present", "deleting"}
      BY <1>1 DEF IInv, TypeOK
    <2> QED
      BY <1>1, <1>2, <2>2, <2>4, <2>5, <2>6, <2>7, EffectKeeps, LabelTypes, Zenon
  <1> QED
    BY <1>3, <1>4

\* The answer of a call of the teardown arrives or is lost.
LEMMA ReplyFacts ==
  ASSUME IInv, NEW r \in Resources, w[r].pc \in Teardown, NEW l \in Gone, Reply(r, l)
  PROVE  Moves(r, l, TRUE) \/ Moves(r, "idle", FALSE)
  <1>1. w[r].last
    BY TakingDown
  <1>2. l \in Labels /\ l # "idle"
    BY LabelTypes
  <1>3. CASE Goto(r, l)
    BY <1>1, <1>2, <1>3, GotoFacts, Zenon DEF IInv, TypeOK
  <1>4. CASE Return(r)
    BY <1>4, ReturnFacts, Zenon DEF IInv
  <1> QED
    BY <1>3, <1>4, Zenon DEF Reply

LEMMA DeleteNetworkPeeringKeeps ==
  ASSUME IInv, NEW r \in Resources, DeleteNetworkPeering(r)
  PROVE  IInv'
  <1>1. /\ w[r].pc = "d_peer" /\ Reply(r, "d_svc") /\ peer' = FALSE
        /\ Quiet /\ UNCHANGED <<addr, svc, inst>>
    BY DEF DeleteNetworkPeering, At
  <1>2. w[r].pc \in Teardown /\ "d_svc" \in Gone
    BY <1>1 DEF Teardown, Gone
  <1>3. Moves(r, "d_svc", TRUE) \/ Moves(r, "idle", FALSE)
    BY <1>1, <1>2, ReplyFacts, Zenon
  <1>4. CloudInv'
    BY <1>1 DEF IInv, CloudInv, Listed
  <1>5. /\ addr' \in {"absent", "reserving", "reserved"} /\ peer' \in BOOLEAN
        /\ svc' \in {"absent", "creating", "present", "deleting"}
    BY <1>1, Zenon DEF IInv, TypeOK
  <1> QED
    BY <1>1, <1>2, <1>3, <1>4, <1>5, TeardownKeeps, Zenon

LEMMA DeleteNetworkServiceKeeps ==
  ASSUME IInv, NEW r \in Resources, DeleteNetworkService(r)
  PROVE  IInv'
  <1>1. w[r].pc = "d_svc" /\ Quiet /\ UNCHANGED <<addr, peer, inst>>
    BY DEF DeleteNetworkService, At
  <1>2. w[r].pc \in Teardown /\ "d_range" \in Gone
    BY <1>1 DEF Teardown, Gone
  <1>3. /\ addr' \in {"absent", "reserving", "reserved"} /\ peer' \in BOOLEAN
    BY <1>1 DEF IInv, TypeOK
  <1>4. CASE ~Listed /\ Goto(r, "d_range") /\ UNCHANGED svc
    <2>1. Reply(r, "d_range")
      BY <1>4 DEF Reply
    <2>2. Moves(r, "d_range", TRUE) \/ Moves(r, "idle", FALSE)
      BY <1>2, <2>1, ReplyFacts, Zenon
    <2>3. CloudInv' /\ svc' \in {"absent", "creating", "present", "deleting"}
      BY <1>1, <1>4 DEF IInv, TypeOK, CloudInv, Listed
    <2> QED
      BY <1>1, <1>2, <1>3, <2>2, <2>3, TeardownKeeps, Zenon
  <1>5. CASE Return(r) /\ UNCHANGED svc
    <2>1. OnlyWorker
      BY <1>1, <1>5 DEF OnlyWorker, net
    <2> QED
      BY <1>5, <2>1, ReturnKeeps
  <1>6. CASE /\ Listed /\ \A q \in Resources : inst[q] = "absent"
             /\ svc' = "deleting" /\ Return(r)
    <2>1. Moves(r, "idle", FALSE)
      BY <1>6, ReturnFacts, Zenon DEF IInv
    <2>2. CloudInv' /\ svc' \in {"absent", "creating", "present", "deleting"}
      BY <1>1, <1>6 DEF IInv, CloudInv, Listed
    <2> QED
      BY <1>1, <1>2, <1>3, <2>1, <2>2, TeardownKeeps, Zenon
  <1>7. CASE /\ Listed /\ \A q \in Resources : inst[q] = "absent"
             /\ ~peer /\ svc' = "absent" /\ Reply(r, "d_range")
    <2>1. Moves(r, "d_range", TRUE) \/ Moves(r, "idle", FALSE)
      BY <1>2, <1>7, ReplyFacts, Zenon
    <2>2. CloudInv' /\ svc' \in {"absent", "creating", "present", "deleting"}
      BY <1>1, <1>7 DEF IInv, CloudInv, Listed
    <2> QED
      BY <1>1, <1>2, <1>3, <2>1, <2>2, TeardownKeeps, Zenon
  <1> QED
    BY <1>4, <1>5, <1>6, <1>7 DEF DeleteNetworkService

LEMMA DeleteNetworkIpRangeKeeps ==
  ASSUME IInv, NEW r \in Resources, DeleteNetworkIpRange(r)
  PROVE  IInv'
  <1>1. w[r].pc = "d_range" /\ OnlyWorker
    BY DEF DeleteNetworkIpRange, At
  <1>2. Goto(r, "d_exist") \/ Goto(r, "d_address") \/ Return(r)
    <2>1. CASE addr = "absent"
      BY <2>1, Zenon DEF DeleteNetworkIpRange
    <2>2. CASE addr # "absent" /\ Listed
      BY <2>2, Zenon DEF DeleteNetworkIpRange
    <2>3. CASE ~(addr = "absent") /\ ~Listed
      BY <2>3, Zenon DEF DeleteNetworkIpRange
    <2> QED
      BY <2>1, <2>2, <2>3
  <1>3. /\ cr[r] = "deleting" /\ inst[r] = "absent" /\ w[r].last
        /\ ~raced => Alone(r)
    BY <1>1, TakingDown DEF Teardown, Gone
  <1>4. \A l \in {"d_exist", "d_address"} : l \in Labels \ {"idle"} /\ Allowed(r, l, w[r].last)
    BY <1>3 DEF Allowed, Labels, CreateSteps, DeleteSteps, Gone, Teardown
  <1> QED
    BY <1>1, <1>2, <1>4, GotoKeeps, ReturnKeeps

LEMMA DeleteAddressRangeKeeps ==
  ASSUME IInv, NEW r \in Resources, DeleteAddressRange(r)
  PROVE  IInv'
  <1>1. w[r].pc = "d_address" /\ Quiet /\ UNCHANGED <<svc, peer, inst>>
    BY DEF DeleteAddressRange, At
  <1>2. w[r].pc \in Teardown /\ "d_exist" \in Gone
    BY <1>1 DEF Teardown, Gone
  <1>3. CASE svc = "creating"
    <2>1. Return(r) /\ UNCHANGED addr
      BY <1>3 DEF DeleteAddressRange
    <2>2. OnlyWorker
      BY <1>1, <2>1 DEF OnlyWorker, net
    <2> QED
      BY <2>1, <2>2, ReturnKeeps
  <1>4. CASE svc # "creating"
    <2>1. Reply(r, "d_exist") /\ addr' = "absent"
      BY <1>4 DEF DeleteAddressRange
    <2>2. Moves(r, "d_exist", TRUE) \/ Moves(r, "idle", FALSE)
      BY <1>2, <2>1, ReplyFacts, Zenon
    <2>3. CloudInv'
      BY <1>1, <1>4, <2>1 DEF IInv, CloudInv, Listed
    <2>4. /\ addr' \in {"absent", "reserving", "reserved"} /\ peer' \in BOOLEAN
          /\ svc' \in {"absent", "creating", "present", "deleting"}
      BY <1>1, <2>1 DEF IInv, TypeOK
    <2> QED
      BY <1>1, <1>2, <2>2, <2>3, <2>4, TeardownKeeps, Zenon
  <1> QED
    BY <1>3, <1>4

\* A range and a connection that do not exist leave no peering either.
LEMMA ComponentsExistKeeps ==
  ASSUME IInv, NEW r \in Resources, ComponentsExist(r)
  PROVE  IInv'
  <1>1. w[r].pc = "d_exist" /\ OnlyWorker
    BY DEF ComponentsExist, At
  <1>2. CASE addr # "absent" \/ Listed
    <2>1. Return(r)
      BY <1>2 DEF ComponentsExist
    <2> QED
      BY <1>1, <2>1, ReturnKeeps
  <1>3. CASE ~(addr # "absent" \/ Listed)
    <2>1. Goto(r, "d_fin")
      BY <1>3 DEF ComponentsExist
    <2>2. NoNetwork
      BY <1>3 DEF IInv, TypeOK, CloudInv, Listed, NoNetwork
    <2>3. /\ cr[r] = "deleting" /\ inst[r] = "absent" /\ w[r].last
          /\ ~raced => Alone(r)
      BY <1>1, TakingDown DEF Teardown, Gone
    <2>4. "d_fin" \in Labels \ {"idle"} /\ Allowed(r, "d_fin", w[r].last)
      BY <2>2, <2>3 DEF Allowed, Labels, CreateSteps, DeleteSteps, Gone, Teardown
    <2> QED
      BY <1>1, <2>1, <2>4, GotoKeeps
  <1> QED
    BY <1>2, <1>3

LEMMA RemoveFinalizerKeeps ==
  ASSUME IInv, NEW r \in Resources, RemoveFinalizer(r)
  PROVE  IInv'
  <1>1. /\ w[r].pc = "d_fin" /\ Return(r) /\ cr' = [cr EXCEPT ![r] = "none"]
        /\ UNCHANGED <<addr, svc, peer, inst, raced, calm>>
    BY DEF RemoveFinalizer, At, net
  <1>2. Moves(r, "idle", FALSE)
    BY <1>1, ReturnFacts, Zenon DEF IInv
  <1>3. cr[r] = "deleting" /\ inst[r] = "absent"
    BY <1>1 DEF IInv, WorkerInv, DeleteSteps, Gone
  <1>4. /\ cr' \in [Resources -> {"none", "new", "held", "deleting"}] /\ cr'[r] = "none"
        /\ \A q \in Resources \ {r} : cr'[q] = cr[q]
    BY <1>1 DEF IInv, TypeOK
  <1>5. TypeOK'
    BY <1>1, <1>2, <1>4 DEF IInv, TypeOK, Moves, Workers, Labels
  <1>6. WorkerInv'
    BY <1>1, <1>2, <1>3, <1>4, LabelTypes DEF IInv, WorkerInv, Moves
  <1>7. CloudInv'
    BY <1>1 DEF IInv, CloudInv, Listed
  <1>8. CalmInv'
    <2> SUFFICES ASSUME ~raced
                 PROVE  /\ OneDeletion' /\ AnswerStays' /\ LastLeavesNothing' /\ NoneLeftNothing'
                        /\ Usable' \/ Tearing'
      BY <1>1 DEF CalmInv
    <2>1. OneDeletion /\ AnswerStays /\ LastLeavesNothing /\ (Usable \/ Tearing)
      BY DEF IInv, CalmInv
    <2>2. Alone(r) => NoNetwork
      BY <1>1, <2>1 DEF AnswerStays, LastLeavesNothing, DeleteSteps
    <2>3. \A q \in Resources \ {r} : cr[q] # "deleting" /\ w[q].pc \notin DeleteSteps
      BY <1>3, <2>1 DEF OneDeletion, IInv, WorkerInv
    <2>4. OneDeletion'
      BY <1>4, <2>1 DEF OneDeletion
    <2>5. AnswerStays' /\ LastLeavesNothing'
      BY <1>2, <2>3, LabelTypes DEF AnswerStays, LastLeavesNothing, Moves, DeleteSteps
    <2>6. NoneLeftNothing'
      BY <1>1, <1>4, <2>2 DEF NoneLeftNothing, NoNetwork, Alone
    <2>7. Usable
      BY <1>3, <2>1, <2>2, <2>3 DEF Tearing, Usable, NoNetwork
    <2> QED
      BY <1>1, <2>4, <2>5, <2>6, <2>7 DEF Usable
  <1> QED
    BY <1>5, <1>6, <1>7, <1>8 DEF IInv

\* All steps of a worker together.
LEMMA WorkerKeeps ==
  ASSUME IInv, NEW r \in Resources, Worker(r)
  PROVE  IInv'
  BY ReconcileKeeps, CreateNetworkIpRangeKeeps, CreateAddressRangeKeeps, CreateNetworkServiceKeeps,
     CreateServiceConnectionKeeps, CreateInstanceKeeps, IsLastResourceKeeps, DeleteInstanceKeeps,
     DeleteNetworkPeeringKeeps, DeleteNetworkServiceKeeps, DeleteNetworkIpRangeKeeps,
     DeleteAddressRangeKeeps, ComponentsExistKeeps, RemoveFinalizerKeeps DEF Worker
----------------------------------------------------------------------------
(* The environment.                                                        *)

\* A CR appears, or leaves without a finalizer, or is marked: without a race no
\* CR is being deleted at that moment.
LEMMA UserKeeps ==
  ASSUME IInv, NEW r \in Resources, UserCreates(r) \/ UserDeletes(r)
  PROVE  IInv'
  <1>1. /\ UNCHANGED <<w, addr, svc, peer, inst, calm>> /\ cr[r] # "deleting"
        /\ \E c \in {"none", "new", "deleting"} :
             /\ cr' = [cr EXCEPT ![r] = c]
             /\ c = "deleting" <=> cr[r] = "held"
             /\ c = "none" <=> cr[r] = "new"
    BY DEF UserCreates, UserDeletes, net, IInv, TypeOK
  <1>2. PICK c \in {"none", "new", "deleting"} :
          /\ cr' = [cr EXCEPT ![r] = c]
          /\ c = "deleting" <=> cr[r] = "held"
          /\ c = "none" <=> cr[r] = "new"
    BY <1>1, Zenon
  <1>3. /\ cr' \in [Resources -> {"none", "new", "held", "deleting"}] /\ cr'[r] = c
        /\ \A q \in Resources \ {r} : cr'[q] = cr[q]
    BY <1>2 DEF IInv, TypeOK
  <1>4. raced' \in BOOLEAN
    BY Zenon DEF UserCreates, UserDeletes, Races, IInv, TypeOK
  <1>5. TypeOK'
    BY <1>1, <1>3, <1>4 DEF IInv, TypeOK
  <1>6. WorkerInv'
    <2> SUFFICES ASSUME NEW q \in Resources
                 PROVE  /\ w[q].pc # "idle" => cr'[q] \in {"held", "deleting"}
                        /\ w[q].pc \in DeleteSteps => cr'[q] = "deleting"
                        /\ w[q].pc \in Gone => inst[q] = "absent"
                        /\ w[q].pc \in Teardown => w[q].last
                        /\ inst[q] # "absent" => cr'[q] \in {"held", "deleting"}
      BY <1>1 DEF WorkerInv
    <2>1. CASE q # r
      BY <1>3, <2>1 DEF IInv, WorkerInv
    <2>2. CASE q = r /\ cr[r] = "held"
      BY <1>2, <1>3, <2>2 DEF IInv, WorkerInv
    <2>3. CASE q = r /\ cr[r] # "held"
      BY <1>1, <2>3, LabelTypes DEF IInv, WorkerInv
    <2> QED
      BY <2>1, <2>2, <2>3
  <1>7. CloudInv'
    BY <1>1 DEF IInv, CloudInv, Listed
  <1>8. CalmInv'
    <2> SUFFICES ASSUME ~raced'
                 PROVE  /\ OneDeletion' /\ AnswerStays' /\ LastLeavesNothing' /\ NoneLeftNothing'
                        /\ Usable' \/ Tearing'
      BY DEF CalmInv
    <2>1. ~Races(r) /\ (~raced \/ NoNetwork)
      BY Zenon DEF UserCreates, UserDeletes
    <2>2. \A q \in Resources : cr[q] # "deleting" /\ w[q].pc \notin DeleteSteps
      BY <1>1, <2>1 DEF Races, IInv, WorkerInv
    <2>3. OneDeletion'
      BY <1>3, <2>2 DEF OneDeletion
    <2>4. AnswerStays' /\ LastLeavesNothing'
      BY <1>1, <2>2 DEF AnswerStays, LastLeavesNothing, DeleteSteps
    <2>5. NoneLeftNothing'
      BY <1>2, <1>3, <2>1 DEF NoneLeftNothing, Races
    <2>6. Usable
      BY <2>1, <2>2 DEF IInv, CalmInv, Tearing, NoNetwork, Usable
    <2> QED
      BY <1>1, <2>3, <2>4, <2>5, <2>6 DEF Usable
  <1> QED
    BY <1>5, <1>6, <1>7, <1>8 DEF IInv

\* GCP finishes an operation.
LEMMA CloudProgressKeeps ==
  ASSUME IInv, CloudProgress
  PROVE  IInv'
  <1>1. UNCHANGED <<cr, w, raced, calm>>
    BY DEF CloudProgress
  <1>2. /\ inst' \in [Resources -> {"absent", "up", "deleting"}]
        /\ \A q \in Resources : /\ inst'[q] = "up" => inst[q] = "up"
                                /\ inst[q] = "absent" => inst'[q] = "absent"
    BY DEF CloudProgress, IInv, TypeOK, net
  <1>3. \/ addr = "reserving" /\ addr' = "reserved" /\ UNCHANGED <<svc, peer>>
        \/ svc = "creating" /\ svc' = "present" /\ peer' = TRUE /\ UNCHANGED addr
        \/ svc = "deleting" /\ ~peer /\ svc' = "absent" /\ UNCHANGED <<addr, peer>>
        \/ UNCHANGED <<addr, svc, peer>>
    BY DEF CloudProgress, net
  <1>4. TypeOK'
    BY <1>1, <1>2, <1>3, Zenon DEF IInv, TypeOK
  <1>5. WorkerInv'
    BY <1>1, <1>2 DEF IInv, WorkerInv
  <1>6. CloudInv'
    BY <1>2, <1>3 DEF IInv, CloudInv, Listed
  <1>7. CalmInv'
    <2> SUFFICES ASSUME ~raced
                 PROVE  /\ OneDeletion' /\ AnswerStays' /\ LastLeavesNothing' /\ NoneLeftNothing'
                        /\ Usable' \/ Tearing'
      BY <1>1 DEF CalmInv
    <2>1. /\ OneDeletion /\ AnswerStays /\ LastLeavesNothing /\ NoneLeftNothing
          /\ Usable \/ Tearing
      BY DEF IInv, CalmInv
    <2>2. NoNetwork => NoNetwork'
      BY <1>3 DEF NoNetwork
    <2>3. Usable => Usable'
      BY <1>3 DEF Usable, IInv, CloudInv
    <2>4. Tearing => Tearing'
      BY <1>1, <1>2 DEF Tearing, Alone
    <2>5. OneDeletion' /\ AnswerStays'
      BY <1>1, <2>1 DEF OneDeletion, AnswerStays, Alone
    <2>6. LastLeavesNothing' /\ NoneLeftNothing'
      BY <1>1, <2>1, <2>2 DEF LastLeavesNothing, NoneLeftNothing
    <2> QED
      BY <2>1, <2>3, <2>4, <2>5, <2>6
  <1> QED
    BY <1>4, <1>5, <1>6, <1>7 DEF IInv

\* A step that changes nothing the invariant is about.
LEMMA SameKeeps ==
  ASSUME IInv, UNCHANGED <<cr, w, addr, svc, peer, inst, raced>>, calm' \in BOOLEAN
  PROVE  IInv'
  <1>1. TypeOK'
    BY DEF IInv, TypeOK
  <1>2. WorkerInv' /\ CloudInv'
    BY DEF IInv, WorkerInv, CloudInv, Listed
  <1>3. CalmInv'
    BY DEF IInv, CalmInv, OneDeletion, AnswerStays, LastLeavesNothing, NoneLeftNothing, Usable,
           Tearing, Alone, NoNetwork
  <1> QED
    BY <1>1, <1>2, <1>3 DEF IInv
----------------------------------------------------------------------------
\* There is no CR and no network at first.
LEMMA InitHolds == Init => IInv
  <1> SUFFICES ASSUME Init PROVE IInv
    OBVIOUS
  <1>1. TypeOK
    BY Zenon DEF Init, TypeOK, Idle
  <1>2. WorkerInv
    BY LabelTypes DEF Init, WorkerInv, Idle
  <1>3. CloudInv
    BY DEF Init, CloudInv
  <1>4. CalmInv
    BY LabelTypes DEF Init, CalmInv, OneDeletion, AnswerStays, LastLeavesNothing, NoneLeftNothing, Usable,
           NoNetwork, Idle, DeleteSteps
  <1> QED
    BY <1>1, <1>2, <1>3, <1>4 DEF IInv

\* Every step keeps the invariant.
LEMMA StepKeeps == IInv /\ [Next]_vars => IInv'
  <1> SUFFICES ASSUME IInv, [Next]_vars PROVE IInv'
    OBVIOUS
  <1>1. ASSUME NEW r \in Resources, Worker(r) \/ CallFails(r) \/ UserCreates(r) \/ UserDeletes(r)
        PROVE  IInv'
    BY <1>1, WorkerKeeps, ReturnKeeps, UserKeeps DEF CallFails
  <1>2. CASE CloudProgress
    BY <1>2, CloudProgressKeeps
  <1>3. CASE CalmDown
    BY <1>3, SameKeeps DEF CalmDown, net
  <1>4. CASE UNCHANGED vars
    BY <1>4, SameKeeps DEF vars, net, IInv, TypeOK
  <1> QED
    BY <1>1, <1>2, <1>3, <1>4 DEF Next

\* For any set of Postgres and Redis CRs.
THEOREM Invariance == Spec => []IInv
  BY InitHolds, StepKeeps, PTL DEF Spec

\* The teardown of the last CR (deleteCloudSQLInstance, deleteRedisInstance)
\* leaves no address range, no connection and no peering, however many CRs there
\* were, unless one of the races happened.
THEOREM NetworkAlwaysGoes == Spec => []NetworkGoesWithLastCR
  <1>1. IInv => NetworkGoesWithLastCR
    BY DEF IInv, CalmInv, NoneLeftNothing, NetworkGoesWithLastCR
  <1> QED
    BY <1>1, Invariance, PTL

\* The teardown for one CR never takes the network from the instance of another,
\* and no instance is created on a network that lacks a part.
THEOREM InstancesKeepNetwork == Spec => []InstanceKeepsNetwork
  <1>1. IInv => InstanceKeepsNetwork
    <2> SUFFICES ASSUME IInv, ~raced, NEW r \in Resources, inst[r] = "up"
                 PROVE  addr = "reserved" /\ svc = "present" /\ peer
      BY DEF InstanceKeepsNetwork
    <2>1. svc = "present" /\ cr[r] # "none"
      BY DEF IInv, CloudInv, WorkerInv
    <2>2. ~Tearing
      BY <2>1 DEF Tearing, Alone
    <2> QED
      BY <2>1, <2>2 DEF IInv, CalmInv, Usable
  <1> QED
    BY <1>1, Invariance, PTL
=============================================================================
