----------------------- MODULE StandaloneNetworkProofs -----------------------
(***************************************************************************)
(* The standalone network for any CRs and any VPC ids.  That at most one   *)
(* worker takes it down holds however reconciles overlap; the rest rests   *)
(* on one reconcile at a time (~Races): whoever creates a VPC has just     *)
(* seen that there is none, whoever takes it down is the last CR, and      *)
(* what is left of the network always belongs to the one VPC.              *)
(***************************************************************************)
EXTENDS StandaloneNetwork, FiniteSetTheorems, TLAPS

\* The calls at which a worker has a VPC in hand, and those after the answer
\* of IsLastResource.
WithVpc == (CreateSteps \ {"find", "mkvpc"}) \cup TeardownSteps
Answered == DeleteSteps \ {"last"}

\* A worker runs only for a CR with the finalizer and deletes only for one that
\* is being deleted; IsLastResource has said yes to one worker at most.
WorkerInv ==
  /\ \A r \in Resources :
       /\ w[r].pc = "idle" => w[r] = Idle
       /\ w[r].pc # "idle" => cr[r] \in {"held", "deleting"}
       /\ w[r].pc \in DeleteSteps => cr[r] = "deleting"
       /\ w[r].pc \in WithVpc => w[r].vpc \in Vpcs
       /\ w[r].last => w[r].pc \in Answered
       /\ w[r].pc \in TeardownSteps \cup {"d_net"} => w[r].last
  /\ \A q, r \in Resources : w[q].last /\ w[r].last => q = r

\* One reconcile at a time.
Solo == \A q, r \in Resources : w[q].pc # "idle" /\ w[r].pc # "idle" => q = r

\* There is one VPC at most, and the groups and the cluster's route are its.
OneVpc == \A u, v \in Live : u = v
Attached ==
  /\ \A v \in Vpcs : ~net[v].up => net[v] = NoNet
  /\ \A g \in Groups : group[g] \in Live \cup {NoVpc}
  /\ \/ croute.to = NoVpc /\ croute.state = "none"
     \/ croute.to \in Live /\ croute.state = "live"

NoNetwork == Live = {} /\ croute.state = "none" /\ \A g \in Groups : group[g] = NoVpc
NoneLeft == (\A r \in Resources : cr[r] = "none") => NoNetwork

\* What the worker of r relies on at each of its calls: the VPC is still there
\* or still missing, what it has deleted is still gone, and the answer of
\* IsLastResource is still true of the CRs that have been reconciled.
Allowed(r) ==
  /\ w[r].pc = "mkvpc" => Live = {}
  /\ w[r].pc \in WithVpc => w[r].vpc \in Live
  /\ w[r].pc \in {"d_peer", "d_list", "d_subnet", "d_cache", "d_vpc"} => croute.to = NoVpc
  /\ w[r].pc \in {"d_cache", "d_vpc"} => group["rds"] = NoVpc
  /\ w[r].pc = "d_vpc" => group["cache"] = NoVpc
  /\ w[r].pc \in Answered =>
       IF w[r].last THEN \A q \in Resources \ {r} : cr[q] \in {"none", "new"}
       ELSE \E q \in Resources \ {r} : cr[q] # "none"
  /\ w[r].pc = "d_fin" /\ w[r].last => Live = {}

SerialInv ==
  ~Races => Solo /\ OneVpc /\ Attached /\ NoneLeft /\ \A r \in Resources : Allowed(r)

IInv == TypeOK /\ WorkerInv /\ SerialInv
----------------------------------------------------------------------------
Labels == {"idle"} \cup CreateSteps \cup DeleteSteps
Workers ==
  [pc : Labels, vpc : MaybeVpc, subs : SUBSET Halves, last : BOOLEAN, peered : BOOLEAN]
Nets ==
  [up : BOOLEAN, tagged : BOOLEAN, subs : SUBSET Halves, sg : {"none", "closed", "open"},
   peer : {"none", "initiating", "pending", "active"}, route : Routes]
ClusterRoutes == [to : MaybeVpc, state : Routes]
Insts == [at : MaybeVpc, sg : BOOLEAN, going : BOOLEAN]

\* TypeOK with the sets of this module.
LEMMA Types ==
  TypeOK <=> /\ cr \in [Resources -> {"none", "new", "held", "deleting"}]
             /\ w \in [Resources -> Workers] /\ net \in [Vpcs -> Nets]
             /\ group \in [Groups -> MaybeVpc] /\ croute \in ClusterRoutes
             /\ inst \in [Resources -> Insts] /\ faults \in 0 .. MaxFaults
  BY DEF TypeOK, Labels, Workers, Nets, ClusterRoutes, Insts

\* How the sets of labels lie in each other.
LEMMA LabelFacts ==
  /\ "idle" \notin CreateSteps \cup DeleteSteps \cup WithVpc \cup Answered
  /\ CreateSteps \cap DeleteSteps = {} /\ TeardownSteps \subseteq Answered
  /\ Answered \subseteq DeleteSteps /\ "last" \notin Answered /\ "d_net" \in Answered
  /\ "idle" \in Labels /\ CreateSteps \subseteq Labels /\ DeleteSteps \subseteq Labels
  /\ WithVpc \subseteq Labels /\ {"d_net", "d_fin", "d_inst", "last"} \cap WithVpc = {}
  BY DEF Labels, CreateSteps, DeleteSteps, TeardownSteps, WithVpc, Answered

\* An idle worker, a VPC that is not there, and a new one.
LEMMA IdleFacts ==
  /\ Idle \in Workers /\ Idle.pc = "idle" /\ ~Idle.last /\ Idle.vpc = NoVpc
  /\ NoNet \in Nets /\ ~NoNet.up /\ NewNet \in Nets /\ NewNet.up
  /\ NoNet.sg = "none" /\ NoNet.peer = "none"
  BY Zenon DEF Idle, Workers, Labels, MaybeVpc, NoNet, NewNet, Nets, Routes

\* Only the worker of r moves.
Moved(r) ==
  /\ w' \in [Resources -> Workers]
  /\ \A q \in Resources \ {r} : w'[q] = w[q]

\* It goes on to l with its locals, or its reconcile is over.
Goes(r, l) ==
  /\ Moved(r) /\ faults' \in 0 .. MaxFaults
  /\ \/ w'[r] = Idle
     \/ w'[r].pc = l /\ w'[r].vpc = w[r].vpc /\ w'[r].last = w[r].last

\* The faults stay within their bound.
LEMMA FaultFacts ==
  ASSUME TypeOK, Fault
  PROVE  faults' \in 0 .. MaxFaults
  BY BoundsAssumption DEF TypeOK, Fault

\* A reconcile that returns leaves an idle worker behind.
LEMMA ReturnFacts ==
  ASSUME TypeOK, NEW r \in Resources, w' = [w EXCEPT ![r] = Idle]
  PROVE  Moved(r) /\ w'[r] = Idle
  BY Types, IdleFacts DEF Moved

\* A worker that goes on keeps its locals.
LEMMA GotoFacts ==
  ASSUME TypeOK, NEW r \in Resources, NEW l \in Labels, w' = [w EXCEPT ![r].pc = l]
  PROVE  Moved(r) /\ w'[r].pc = l /\ w'[r].vpc = w[r].vpc /\ w'[r].last = w[r].last
  <1> DEFINE v == [w[r] EXCEPT !.pc = l]
  <1>1. w \in [Resources -> Workers] /\ w' = [w EXCEPT ![r] = v]
    BY Types
  <1>2. v \in Workers /\ v.pc = l /\ v.vpc = w[r].vpc /\ v.last = w[r].last
    BY <1>1 DEF Workers
  <1> HIDE DEF v
  <1> QED
    BY <1>1, <1>2 DEF Moved

\* An answer, whether it arrives or not.
LEMMA ReplyFacts ==
  ASSUME TypeOK, NEW r \in Resources, NEW l \in Labels, Reply(r, l) \/ Goto(r, l) \/ Return(r)
  PROVE  Goes(r, l)
  <1>1. CASE Goto(r, l)
    BY <1>1, GotoFacts, Zenon DEF Goto, Goes, TypeOK
  <1>2. CASE Return(r)
    BY <1>2, ReturnFacts, Zenon DEF Return, Goes, TypeOK
  <1>3. CASE Fault /\ w' = [w EXCEPT ![r] = Idle]
    BY <1>3, ReturnFacts, FaultFacts, Zenon DEF Goes
  <1> QED
    BY <1>1, <1>2, <1>3 DEF Reply
----------------------------------------------------------------------------
(* Steps of a worker by what they change.                                  *)

\* A step of a worker that leaves the CRs alone.
LEMMA EffectKeeps ==
  ASSUME IInv, NEW r \in Resources, w[r].pc # "idle", Moved(r), UNCHANGED cr,
         net' \in [Vpcs -> Nets], group' \in [Groups -> MaybeVpc], croute' \in ClusterRoutes,
         inst' \in [Resources -> Insts], faults' \in 0 .. MaxFaults,
         w'[r].pc = "idle" => w'[r] = Idle,
         w'[r].pc \in DeleteSteps => cr[r] = "deleting",
         w'[r].pc \in WithVpc => w'[r].vpc \in Vpcs,
         w'[r].last => /\ w'[r].pc \in Answered
                       /\ w[r].last \/ \A q \in Resources \ {r} : cr[q] = "none",
         w'[r].pc \in TeardownSteps \cup {"d_net"} => w'[r].last,
         ~Races => OneVpc' /\ Attached' /\ Allowed(r)'
  PROVE  IInv'
  <1>1. TypeOK /\ WorkerInv /\ SerialInv
    BY DEF IInv
  <1>2. TypeOK'
    <2>1. /\ cr \in [Resources -> {"none", "new", "held", "deleting"}]
          /\ w' \in [Resources -> Workers]
      BY <1>1, Types DEF Moved
    <2> QED
      BY <2>1 DEF TypeOK, Labels, Workers, Nets, ClusterRoutes, Insts
  <1>3. WorkerInv'
    <2>1. ASSUME NEW q \in Resources
          PROVE  /\ w'[q].pc = "idle" => w'[q] = Idle
                 /\ w'[q].pc # "idle" => cr'[q] \in {"held", "deleting"}
                 /\ w'[q].pc \in DeleteSteps => cr'[q] = "deleting"
                 /\ w'[q].pc \in WithVpc => w'[q].vpc \in Vpcs
                 /\ w'[q].last => w'[q].pc \in Answered
                 /\ w'[q].pc \in TeardownSteps \cup {"d_net"} => w'[q].last
      <3>1. CASE q = r
        BY <1>1, <3>1, Zenon DEF WorkerInv
      <3>2. CASE q # r
        BY <1>1, <3>2, Zenon DEF WorkerInv, Moved
      <3> QED
        BY <3>1, <3>2
    <2>2. ASSUME NEW q \in Resources, q # r, w'[q].last, w'[r].last PROVE FALSE
      <3>1. w[q].last
        BY <2>2, Zenon DEF Moved
      <3>2. w[q].pc # "idle"
        BY <1>1, <3>1, LabelFacts DEF WorkerInv
      <3>3. cr[q] # "none"
        BY <1>1, <3>2 DEF WorkerInv
      <3>4. w[r].last
        BY <2>2, <3>3
      <3> QED
        BY <1>1, <2>2, <3>1, <3>4 DEF WorkerInv
    <2>3. \A q, p \in Resources : w'[q].last /\ w'[p].last => q = p
      <3> SUFFICES ASSUME NEW q \in Resources, NEW p \in Resources, w'[q].last, w'[p].last, q # p
                   PROVE  FALSE
        OBVIOUS
      <3>1. CASE q = r \/ p = r
        BY <2>2, <3>1
      <3>2. CASE q # r /\ p # r
        BY <1>1, <3>2 DEF WorkerInv, Moved
      <3> QED
        BY <3>1, <3>2
    <2> QED
      BY <2>1, <2>3 DEF WorkerInv
  <1>4. SerialInv'
    <2> SUFFICES ASSUME ~Races
                 PROVE  Solo' /\ NoneLeft' /\ \A q \in Resources : Allowed(q)'
      BY DEF SerialInv
    <2>1. \A q \in Resources \ {r} : w'[q] = w[q] /\ w[q].pc = "idle"
      BY <1>1 DEF SerialInv, Solo, Moved
    <2>2. Solo'
      BY <2>1 DEF Solo
    <2>3. NoneLeft'
      BY <1>1, ZenonT(60) DEF NoneLeft, WorkerInv
    <2>4. \A q \in Resources \ {r} : Allowed(q)'
      BY <2>1, LabelFacts DEF Allowed
    <2> QED
      BY <2>2, <2>3, <2>4
  <1> QED
    BY <1>2, <1>3, <1>4 DEF IInv

\* A call after which the worker of r goes on to l.
LEMMA CallKeeps ==
  ASSUME IInv, NEW r \in Resources, w[r].pc # "idle", NEW l \in Labels, l # "idle",
         Moved(r), faults' \in 0 .. MaxFaults,
         w'[r] = Idle \/ (w'[r].pc = l /\ w'[r].last = w[r].last),
         l \in CreateSteps \cup Answered, l \in CreateSteps => w[r].pc \in CreateSteps,
         l \in Answered => w[r].pc \in Answered,
         l \in WithVpc => w'[r] = Idle \/ w'[r].vpc \in Vpcs,
         l \in TeardownSteps \cup {"d_net"} => w[r].last,
         UNCHANGED cr, net' \in [Vpcs -> Nets], group' \in [Groups -> MaybeVpc],
         croute' \in ClusterRoutes, inst' \in [Resources -> Insts],
         ~Races => OneVpc' /\ Attached' /\ (w'[r] # Idle => Allowed(r)')
  PROVE  IInv'
  <1>1. WorkerInv
    BY DEF IInv
  <1>2. CASE w'[r] = Idle
    <2>1. Allowed(r)'
      BY <1>2, IdleFacts, LabelFacts DEF Allowed
    <2>2. w'[r].pc = "idle" /\ ~w'[r].last
      BY <1>2, IdleFacts, ZenonT(60)
    <2>3. "idle" \notin TeardownSteps \cup {"d_net"}
      BY DEF TeardownSteps
    <2> QED
      BY <1>2, <2>1, <2>2, <2>3, LabelFacts, EffectKeeps, ZenonT(60)
  <1>3. CASE w'[r] # Idle
    <2>1. w'[r].pc = l /\ w'[r].last = w[r].last /\ (~Races => Allowed(r)')
      BY <1>3, Zenon
    <2>2. l \in DeleteSteps => cr[r] = "deleting"
      BY <1>1, LabelFacts, Zenon DEF WorkerInv
    <2>3. w[r].last => l \in Answered
      BY <1>1, LabelFacts DEF WorkerInv
    <2> QED
      BY <1>3, <2>1, <2>2, <2>3, EffectKeeps, ZenonT(60)
  <1> QED
    BY <1>2, <1>3

\* What holds whenever a worker runs.
LEMMA RunFacts ==
  ASSUME IInv, NEW r \in Resources
  PROVE  /\ TypeOK /\ w[r] \in Workers /\ w \in [Resources -> Workers] /\ net \in [Vpcs -> Nets]
         /\ group \in [Groups -> MaybeVpc] /\ croute \in ClusterRoutes
         /\ inst \in [Resources -> Insts] /\ faults \in 0 .. MaxFaults
         /\ w[r].pc \in WithVpc => w[r].vpc \in Vpcs
         /\ w[r].pc \in TeardownSteps \cup {"d_net"} => w[r].last
         /\ ~Races => OneVpc /\ Attached /\ Allowed(r)
  <1>1. TypeOK /\ WorkerInv /\ SerialInv
    BY DEF IInv
  <1> QED
    BY <1>1, Types DEF WorkerInv, SerialInv

\* A call that changes nothing in the cloud.
LEMMA QuietKeeps ==
  ASSUME IInv, NEW r \in Resources, w[r].pc # "idle", NEW l \in Labels, l # "idle",
         Moved(r), faults' \in 0 .. MaxFaults,
         w'[r] = Idle \/ (w'[r].pc = l /\ w'[r].last = w[r].last),
         l \in CreateSteps \cup Answered, l \in CreateSteps => w[r].pc \in CreateSteps,
         l \in Answered => w[r].pc \in Answered,
         l \in WithVpc => w'[r] = Idle \/ w'[r].vpc \in Vpcs,
         l \in TeardownSteps \cup {"d_net"} => w[r].last,
         UNCHANGED <<cr, net, group, croute, inst>>,
         ~Races /\ w'[r] # Idle => Allowed(r)'
  PROVE  IInv'
  <1>1. /\ net' \in [Vpcs -> Nets] /\ group' \in [Groups -> MaybeVpc]
        /\ croute' \in ClusterRoutes /\ inst' \in [Resources -> Insts]
        /\ ~Races => OneVpc /\ Attached
    BY RunFacts, Zenon
  <1>2. ~Races => OneVpc' /\ Attached'
    BY <1>1 DEF OneVpc, Attached, Live
  <1> QED
    BY <1>1, <1>2, CallKeeps, Zenon

\* A VPC gets new contents.
LEMMA ContentsFacts ==
  ASSUME IInv, NEW v \in Vpcs, NEW n \in Nets, n.up = net[v].up, net' = [net EXCEPT ![v] = n]
  PROVE  /\ net' \in [Vpcs -> Nets] /\ Live' = Live
         /\ ~Races /\ v \in Live /\ UNCHANGED <<group, croute>> => OneVpc' /\ Attached'
  <1>1. net \in [Vpcs -> Nets] /\ (~Races => OneVpc /\ Attached)
    BY Types DEF IInv, SerialInv
  <1>2. net' \in [Vpcs -> Nets] /\ net'[v] = n /\ \A u \in Vpcs : u # v => net'[u] = net[u]
    BY <1>1
  <1>3. Live' = Live
    BY <1>2 DEF Live
  <1>4. ASSUME ~Races, v \in Live, UNCHANGED <<group, croute>> PROVE OneVpc' /\ Attached'
    <2>1. OneVpc'
      BY <1>1, <1>3, <1>4, Zenon DEF OneVpc
    <2>2. \A u \in Vpcs : ~net'[u].up => net'[u] = NoNet
      BY <1>1, <1>2, <1>4 DEF Attached, Live
    <2> QED
      BY <1>1, <1>3, <1>4, <2>1, <2>2, Zenon DEF Attached
  <1> QED
    BY <1>2, <1>3, <1>4

\* A worker that creates relies on its VPC only.
LEMMA CreateAllowed ==
  ASSUME NEW r \in Resources, w'[r].pc \in CreateSteps \cap WithVpc, w'[r].vpc \in Live'
  PROVE  Allowed(r)'
  BY LabelFacts, ZenonT(60) DEF Allowed, WithVpc, TeardownSteps, CreateSteps, DeleteSteps, Answered

\* A call that changes the contents of a VPC.
LEMMA ContentsKeeps ==
  ASSUME IInv, NEW r \in Resources, w[r].pc \in WithVpc, NEW l \in WithVpc, Goes(r, l),
         l \in CreateSteps => w[r].pc \in CreateSteps,
         l \in Answered => w[r].pc \in Answered,
         NEW v \in Vpcs, ~Races => v \in Live,
         NEW n \in Nets, n.up = net[v].up, net' = [net EXCEPT ![v] = n],
         UNCHANGED <<cr, group, croute, inst>>,
         ~Races /\ w'[r] # Idle /\ l \in TeardownSteps => Allowed(r)'
  PROVE  IInv'
  <1>1. /\ TypeOK /\ group \in [Groups -> MaybeVpc] /\ croute \in ClusterRoutes
        /\ inst \in [Resources -> Insts] /\ w[r].vpc \in Vpcs
        /\ w[r].pc \in TeardownSteps \cup {"d_net"} => w[r].last
        /\ ~Races => Allowed(r)
    BY RunFacts
  <1>2. /\ net' \in [Vpcs -> Nets] /\ Live' = Live
        /\ ~Races => OneVpc' /\ Attached'
    BY ContentsFacts, Zenon
  <1>3. l \in Labels /\ l # "idle" /\ w[r].pc # "idle" /\ l \in CreateSteps \cup Answered
    BY LabelFacts, ZenonT(60) DEF WithVpc
  <1>4. l \in TeardownSteps \cup {"d_net"} => w[r].last
    BY <1>1, LabelFacts, ZenonT(60) DEF WithVpc, CreateSteps, Answered
  <1>5. ASSUME ~Races, w'[r] # Idle, l \notin TeardownSteps PROVE Allowed(r)'
    <2>1. w'[r].pc = l /\ w'[r].vpc = w[r].vpc
      BY <1>5, ZenonT(60) DEF Goes
    <2>2. w[r].vpc \in Live
      BY <1>1, <1>5, ZenonT(60) DEF Allowed
    <2>3. l \in CreateSteps \cap WithVpc
      BY <1>5 DEF WithVpc, TeardownSteps
    <2> QED
      BY <1>2, <2>1, <2>2, <2>3, CreateAllowed, ZenonT(60)
  <1> QED
    BY <1>1, <1>2, <1>3, <1>4, <1>5, CallKeeps, ZenonT(60) DEF Goes

\* The same for the worker's own VPC.
LEMMA InVpcKeeps ==
  ASSUME IInv, NEW r \in Resources, w[r].pc \in WithVpc, NEW l \in WithVpc, Goes(r, l),
         l \in CreateSteps => w[r].pc \in CreateSteps,
         l \in Answered => w[r].pc \in Answered,
         NEW n \in Nets, n.up = Mine(r).up, InVpc(r, n), UNCHANGED <<cr, group, croute, inst>>,
         ~Races /\ w'[r] # Idle /\ l \in TeardownSteps => Allowed(r)'
  PROVE  IInv'
  <1>1. w[r].vpc \in Vpcs /\ (~Races => w[r].vpc \in Live)
    BY RunFacts DEF Allowed
  <1> QED
    BY <1>1, ContentsKeeps, Zenon DEF InVpc, Mine
----------------------------------------------------------------------------
(* CreateNetwork.                                                          *)

\* The reconcile begins.
LEMMA ReconcileKeeps ==
  ASSUME IInv, NEW r \in Resources, Reconcile(r)
  PROVE  IInv'
  <1> DEFINE l == IF cr[r] = "deleting" THEN "last" ELSE "find"
  <1>1. /\ w[r].pc = "idle" /\ cr[r] # "none" /\ Goto(r, l)
        /\ Races \/ \A q \in Resources : w[q].pc = "idle"
        /\ cr' = [cr EXCEPT ![r] = IF @ = "new" THEN "held" ELSE @]
        /\ UNCHANGED <<net, group, croute, inst>>
    BY DEF Reconcile, cloud
  <1>2. /\ TypeOK /\ WorkerInv /\ SerialInv /\ w[r] = Idle
        /\ cr \in [Resources -> {"none", "new", "held", "deleting"}]
    BY <1>1, Types DEF IInv, WorkerInv
  <1>3. l \in {"last", "find"} /\ l \in Labels /\ l # "idle" /\ (l = "last" <=> cr[r] = "deleting")
    BY DEF Labels, CreateSteps, DeleteSteps
  <1> HIDE DEF l
  <1>4. Moved(r) /\ w'[r].pc = l /\ ~w'[r].last /\ UNCHANGED faults
    BY <1>1, <1>2, <1>3, GotoFacts, IdleFacts, Zenon DEF Goto
  <1>5. /\ cr' \in [Resources -> {"none", "new", "held", "deleting"}]
        /\ cr'[r] = (IF cr[r] = "new" THEN "held" ELSE cr[r])
        /\ \A q \in Resources \ {r} : cr'[q] = cr[q]
    BY <1>1, <1>2
  <1>6. TypeOK'
    BY <1>1, <1>2, <1>4, <1>5, ZenonT(60) DEF TypeOK, Moved, Labels, Workers
  <1>7. /\ l \notin WithVpc \cup Answered \cup TeardownSteps \cup {"d_net", "mkvpc"}
        /\ l \in DeleteSteps <=> l = "last"
    BY <1>3, ZenonT(60) DEF WithVpc, CreateSteps, DeleteSteps, TeardownSteps, Answered
  <1>8. WorkerInv'
    BY <1>1, <1>2, <1>3, <1>4, <1>5, <1>7 DEF WorkerInv, Moved
  <1>9. SerialInv'
    <2> SUFFICES ASSUME ~Races
                 PROVE  Solo' /\ OneVpc' /\ Attached' /\ NoneLeft' /\ \A q \in Resources : Allowed(q)'
      BY ZenonT(60) DEF SerialInv
    <2>1. OneVpc' /\ Attached'
      BY <1>1, <1>2 DEF SerialInv, OneVpc, Attached, Live
    <2>2. \A q \in Resources \ {r} : w'[q].pc = "idle"
      BY <1>1, <1>4, ZenonT(60) DEF Moved
    <2>3. Solo' /\ NoneLeft'
      BY <1>1, <1>5, <2>2, Zenon DEF Solo, NoneLeft
    <2>4. \A q \in Resources \ {r} : Allowed(q)'
      BY <2>2, LabelFacts, Zenon DEF Allowed
    <2>5. Allowed(r)'
      BY <1>3, <1>4, <1>7 DEF Allowed
    <2> QED
      BY <2>1, <2>3, <2>4, <2>5
  <1> QED
    BY <1>6, <1>8, <1>9, Zenon DEF IInv

LEMMA GetStandaloneVpcKeeps ==
  ASSUME IInv, NEW r \in Resources, GetStandaloneVpc(r)
  PROVE  IInv'
  <1>1. w[r].pc = "find" /\ UNCHANGED <<cr, net, group, croute, inst>>
    BY DEF GetStandaloneVpc, cloud
  <1>2. TypeOK /\ w \in [Resources -> Workers] /\ faults \in 0 .. MaxFaults
    BY RunFacts
  <1>3. {"find", "mkvpc", "tag"} \subseteq CreateSteps /\ "mkvpc" \notin WithVpc /\ "tag" \in WithVpc
    BY DEF CreateSteps, WithVpc, TeardownSteps
  <1>4. {"find", "mkvpc", "tag"} \cap (Answered \cup TeardownSteps \cup {"d_net", "d_fin"}) = {}
    BY DEF Answered, DeleteSteps, TeardownSteps
  <1>5. {"mkvpc", "tag"} \subseteq Labels
    BY DEF Labels, CreateSteps
  <1>6. CASE Live = {} /\ Goto(r, "mkvpc")
    <2>1. Moved(r) /\ w'[r].pc = "mkvpc" /\ w'[r].last = w[r].last /\ UNCHANGED faults
      BY <1>2, <1>5, <1>6, GotoFacts, Zenon DEF Goto
    <2>2. Allowed(r)'
      BY <1>1, <1>3, <1>4, <1>6, <2>1, ZenonT(60) DEF Allowed, Live
    <2> QED
      BY <1>1, <1>2, <1>3, <1>4, <1>5, <2>1, <2>2, QuietKeeps, ZenonT(60)
  <1>7. ASSUME NEW v \in Live, w' = [w EXCEPT ![r].pc = "tag", ![r].vpc = v], UNCHANGED faults
        PROVE  IInv'
    <2> DEFINE x == [w[r] EXCEPT !.pc = "tag", !.vpc = v]
    <2>1. w' = [w EXCEPT ![r] = x]
      BY <1>2, <1>7, Zenon
    <2>2. v \in Vpcs
      BY DEF Live
    <2>3. x \in Workers /\ x.pc = "tag" /\ x.vpc = v /\ x.last = w[r].last
      BY <1>2, <1>5, <2>2, Zenon DEF Workers, MaybeVpc
    <2> HIDE DEF x
    <2>4. Moved(r) /\ w'[r] = x
      BY <1>2, <2>1, <2>3 DEF Moved
    <2>5. Allowed(r)'
      BY <1>1, <1>3, <1>4, <1>7, <2>3, <2>4, ZenonT(60) DEF Allowed, Live
    <2> QED
      BY <1>1, <1>2, <1>3, <1>4, <1>5, <1>7, <2>2, <2>3, <2>4, <2>5, QuietKeeps, ZenonT(60)
  <1> QED
    BY <1>6, <1>7 DEF GetStandaloneVpc

\* A new VPC, when there was none.
LEMMA NewVpcFacts ==
  ASSUME IInv, NEW v \in Free, net' = [net EXCEPT ![v] = NewNet]
  PROVE  /\ v \in Vpcs /\ net' \in [Vpcs -> Nets] /\ v \in Live' /\ Live' = Live \cup {v}
         /\ ~Races /\ Live = {} /\ UNCHANGED <<group, croute>> => OneVpc' /\ Attached'
  <1>1. net \in [Vpcs -> Nets] /\ (~Races => OneVpc /\ Attached) /\ v \in Vpcs
    BY Types DEF IInv, SerialInv, Free
  <1>2. net' \in [Vpcs -> Nets] /\ net'[v].up /\ \A u \in Vpcs : u # v => net'[u] = net[u]
    BY <1>1, IdleFacts
  <1>3. Live' = Live \cup {v}
    BY <1>1, <1>2, ZenonT(60) DEF Live
  <1>4. ASSUME ~Races, Live = {}, UNCHANGED <<group, croute>> PROVE OneVpc' /\ Attached'
    <2>1. OneVpc'
      BY <1>3, <1>4 DEF OneVpc
    <2>2. \A u \in Vpcs : ~net'[u].up => net'[u] = NoNet
      BY <1>1, <1>2, <1>4, Zenon DEF Attached
    <2> QED
      BY <1>1, <1>3, <1>4, <2>1, <2>2, ZenonT(60) DEF Attached
  <1> QED
    BY <1>1, <1>2, <1>3, <1>4, Zenon

LEMMA CreateVpcKeeps ==
  ASSUME IInv, NEW r \in Resources, CreateVpc(r)
  PROVE  IInv'
  <1>1. w[r].pc = "mkvpc" /\ UNCHANGED <<cr, group, croute, inst>>
    BY ZenonT(60) DEF CreateVpc
  <1>2. /\ TypeOK /\ w \in [Resources -> Workers] /\ faults \in 0 .. MaxFaults
        /\ group \in [Groups -> MaybeVpc] /\ croute \in ClusterRoutes /\ inst \in [Resources -> Insts]
        /\ ~Races => Live = {}
    BY <1>1, RunFacts DEF Allowed
  <1>3. {"mkvpc", "peer"} \subseteq CreateSteps /\ "peer" \in WithVpc
    BY DEF CreateSteps, WithVpc, TeardownSteps
  <1>4. {"mkvpc", "peer"} \cap (Answered \cup TeardownSteps \cup {"d_net", "d_fin"}) = {}
    BY DEF Answered, DeleteSteps, TeardownSteps
  <1>5. "peer" \in Labels
    BY ZenonT(60) DEF Labels, CreateSteps
  <1>6. CASE Return(r) /\ UNCHANGED net
    <2>1. Moved(r) /\ w'[r] = Idle /\ UNCHANGED faults
      BY <1>2, <1>6, ReturnFacts, Zenon DEF Return
    <2> QED
      BY <1>1, <1>2, <1>3, <1>4, <1>5, <1>6, <2>1, QuietKeeps, ZenonT(60)
  <1>7. ASSUME NEW v \in Free, net' = [net EXCEPT ![v] = NewNet],
               \/ w' = [w EXCEPT ![r].pc = "peer", ![r].vpc = v] /\ UNCHANGED faults
               \/ Fault /\ w' = [w EXCEPT ![r] = Idle]
        PROVE  IInv'
    <2>1. /\ v \in Vpcs /\ net' \in [Vpcs -> Nets] /\ v \in Live'
          /\ ~Races => OneVpc' /\ Attached'
      BY <1>1, <1>2, <1>7, NewVpcFacts, Zenon
    <2>2. CASE w' = [w EXCEPT ![r].pc = "peer", ![r].vpc = v] /\ UNCHANGED faults
      <3> DEFINE x == [w[r] EXCEPT !.pc = "peer", !.vpc = v]
      <3>1. w' = [w EXCEPT ![r] = x]
        BY <1>2, <2>2, Zenon
      <3>2. x \in Workers /\ x.pc = "peer" /\ x.vpc = v /\ x.last = w[r].last
        BY <1>2, <1>5, <2>1, Zenon DEF Workers, MaybeVpc
      <3> HIDE DEF x
      <3>3. Moved(r) /\ w'[r] = x
        BY <1>2, <3>1, <3>2, ZenonT(60) DEF Moved
      <3>4. Allowed(r)'
        BY <1>3, <1>4, <2>1, <3>2, <3>3, ZenonT(60) DEF Allowed
      <3> QED
        BY <1>1, <1>2, <1>3, <1>4, <1>5, <2>1, <2>2, <3>2, <3>3, <3>4, CallKeeps, ZenonT(60)
    <2>3. CASE Fault /\ w' = [w EXCEPT ![r] = Idle]
      <3>1. Moved(r) /\ w'[r] = Idle /\ faults' \in 0 .. MaxFaults
        BY <1>2, <2>3, ReturnFacts, FaultFacts, Zenon
      <3> QED
        BY <1>1, <1>2, <1>3, <1>4, <1>5, <2>1, <3>1, CallKeeps, ZenonT(60)
    <2> QED
      BY <1>7, <2>2, <2>3
  <1> QED
    BY <1>6, <1>7 DEF CreateVpc

\* The labels of the creation.
LEMMA CreateLabels ==
  LET C == {"tag", "list", "subnet", "cache", "peer", "accept", "sg", "authorize", "croute",
            "route", "inst"}
  IN /\ C \subseteq CreateSteps /\ C \subseteq WithVpc /\ C \subseteq Labels
     /\ C \cap (Answered \cup TeardownSteps \cup {"d_net", "d_fin", "idle", "mkvpc"}) = {}
  BY DEF CreateSteps, WithVpc, TeardownSteps, Labels, Answered, DeleteSteps

\* A return without effects.
LEMMA ReturnKeeps ==
  ASSUME IInv, NEW r \in Resources, w[r].pc # "idle", w' = [w EXCEPT ![r] = Idle],
         faults' \in 0 .. MaxFaults, UNCHANGED <<cr, net, group, croute, inst>>
  PROVE  IInv'
  <1>1. Moved(r) /\ w'[r] = Idle
    BY ReturnFacts, Zenon DEF IInv
  <1>2. w[r].pc \in Labels
    BY RunFacts DEF Workers
  <1>3. CASE w[r].pc \in CreateSteps
    <2>1. "inst" \in CreateSteps /\ "inst" \in Labels /\ "inst" # "idle" /\ "inst" \notin Answered
          /\ "inst" \notin TeardownSteps \cup {"d_net"}
      BY CreateLabels, Zenon
    <2> QED
      BY <1>1, <1>3, <2>1, QuietKeeps, ZenonT(60)
  <1>4. CASE w[r].pc \in Answered
    <2>1. "d_fin" \in Answered /\ "d_fin" \in Labels /\ "d_fin" # "idle" /\ "d_fin" \notin CreateSteps
          /\ "d_fin" \notin TeardownSteps \cup {"d_net"}
      BY ZenonT(60) DEF Answered, Labels, DeleteSteps, CreateSteps, TeardownSteps
    <2> QED
      BY <1>1, <1>4, <2>1, QuietKeeps
  <1>5. CASE w[r].pc = "last"
    <2>1. /\ net' \in [Vpcs -> Nets] /\ group' \in [Groups -> MaybeVpc]
          /\ croute' \in ClusterRoutes /\ inst' \in [Resources -> Insts]
          /\ ~Races => OneVpc /\ Attached
      BY RunFacts, Zenon
    <2>2. ~Races => OneVpc' /\ Attached'
      BY <2>1 DEF OneVpc, Attached, Live
    <2>3. Allowed(r)'
      BY <1>1, IdleFacts, LabelFacts, ZenonT(60) DEF Allowed
    <2>4. w'[r].pc = "idle" /\ ~w'[r].last /\ "idle" \notin TeardownSteps \cup {"d_net"}
      BY <1>1, IdleFacts, ZenonT(60) DEF TeardownSteps
    <2> QED
      BY <1>1, <2>1, <2>2, <2>3, <2>4, LabelFacts, EffectKeeps, ZenonT(60)
  <1> QED
    BY <1>2, <1>3, <1>4, <1>5, Zenon DEF Labels, Answered

LEMMA TagRouteTableKeeps ==
  ASSUME IInv, NEW r \in Resources, TagRouteTable(r)
  PROVE  IInv'
  <1> DEFINE n == [Mine(r) EXCEPT !.tagged = TRUE]
  <1>1. w[r].pc = "tag" /\ InVpc(r, n) /\ Reply(r, "list") /\ UNCHANGED <<cr, group, croute, inst>>
    BY DEF TagRouteTable
  <1>2. Goes(r, "list")
    BY <1>1, RunFacts, ReplyFacts, CreateLabels, Zenon
  <1>3. Mine(r) \in Nets
    BY <1>1, RunFacts, CreateLabels DEF Mine
  <1>4. n \in Nets /\ n.up = Mine(r).up
    BY <1>3, Zenon DEF Nets
  <1> HIDE DEF n
  <1> QED
    BY <1>1, <1>2, <1>4, CreateLabels, InVpcKeeps, Zenon

LEMMA ListSubnetsKeeps ==
  ASSUME IInv, NEW r \in Resources, ListSubnets(r)
  PROVE  IInv'
  <1>1. /\ w[r].pc = "list" /\ UNCHANGED <<cr, net, group, croute, inst, faults>>
        /\ w' = [w EXCEPT ![r].pc = "subnet", ![r].subs = Mine(r).subs]
    BY Zenon DEF ListSubnets, cloud
  <1>2. /\ w \in [Resources -> Workers] /\ Mine(r) \in Nets /\ w[r].vpc \in Vpcs
        /\ faults \in 0 .. MaxFaults /\ (~Races => w[r].vpc \in Live)
    BY <1>1, RunFacts, CreateLabels, Zenon DEF Mine, Allowed
  <1> DEFINE x == [w[r] EXCEPT !.pc = "subnet", !.subs = Mine(r).subs]
  <1>3. w' = [w EXCEPT ![r] = x]
    BY <1>1, <1>2, Zenon
  <1>4. x \in Workers /\ x.pc = "subnet" /\ x.vpc = w[r].vpc /\ x.last = w[r].last
    BY <1>2, CreateLabels, ZenonT(60) DEF Workers, Nets
  <1> HIDE DEF x
  <1>5. Moved(r) /\ w'[r] = x
    BY <1>2, <1>3, <1>4 DEF Moved
  <1>6. ~Races => Allowed(r)'
    BY <1>1, <1>2, <1>4, <1>5, CreateLabels, CreateAllowed DEF Live
  <1> QED
    BY <1>1, <1>2, <1>4, <1>5, <1>6, CreateLabels, QuietKeeps, ZenonT(60)

LEMMA CreateSubnetKeeps ==
  ASSUME IInv, NEW r \in Resources, CreateSubnet(r)
  PROVE  IInv'
  <1>1. w[r].pc = "subnet" /\ UNCHANGED <<cr, group, croute, inst>>
    BY ZenonT(60) DEF CreateSubnet
  <1>2. /\ TypeOK /\ w \in [Resources -> Workers] /\ Mine(r) \in Nets /\ faults \in 0 .. MaxFaults
    BY <1>1, RunFacts, CreateLabels DEF Mine
  <1>3. CASE Return(r) /\ UNCHANGED net
    BY <1>1, <1>2, <1>3, ReturnKeeps, Zenon DEF Return
  <1>4. ASSUME NEW h \in Halves, InVpc(r, [Mine(r) EXCEPT !.subs = @ \cup {h}]),
               \/ w' = [w EXCEPT ![r].subs = @ \cup {h}] /\ UNCHANGED faults
               \/ Fault /\ w' = [w EXCEPT ![r] = Idle]
        PROVE  IInv'
    <2> DEFINE n == [Mine(r) EXCEPT !.subs = @ \cup {h}]
    <2>1. n \in Nets /\ n.up = Mine(r).up
      BY <1>2 DEF Nets
    <2>2. InVpc(r, n)
      BY <1>4
    <2> HIDE DEF n
    <2>3. Goes(r, "subnet")
      <3>1. CASE w' = [w EXCEPT ![r].subs = @ \cup {h}] /\ UNCHANGED faults
        <4> DEFINE x == [w[r] EXCEPT !.subs = @ \cup {h}]
        <4>1. w' = [w EXCEPT ![r] = x]
          BY <1>2, <3>1
        <4>2. x \in Workers /\ x.pc = "subnet" /\ x.vpc = w[r].vpc /\ x.last = w[r].last
          BY <1>1, <1>2 DEF Workers
        <4> HIDE DEF x
        <4> QED
          BY <1>2, <3>1, <4>1, <4>2, Zenon DEF Goes, Moved
      <3>2. CASE Fault /\ w' = [w EXCEPT ![r] = Idle]
        BY <1>2, <3>2, ReturnFacts, FaultFacts, Zenon DEF Goes
      <3> QED
        BY <1>4, <3>1, <3>2
    <2> QED
      BY <1>1, <2>1, <2>2, <2>3, CreateLabels, InVpcKeeps, ZenonT(60)
  <1> QED
    BY <1>3, <1>4 DEF CreateSubnet

LEMMA ReconcileSubnetGroupKeeps ==
  ASSUME IInv, NEW r \in Resources, NEW g \in Groups, ReconcileSubnetGroup(r, g)
  PROVE  IInv'
  <1> DEFINE l == IF g = "rds" THEN "cache" ELSE "peer"
  <1>1. w[r].pc \in {"subnet", "cache"} /\ UNCHANGED <<cr, net, croute, inst>>
    BY ZenonT(60) DEF ReconcileSubnetGroup
  <1>2. /\ TypeOK /\ w[r].vpc \in Vpcs /\ (~Races => w[r].vpc \in Live /\ OneVpc /\ Attached)
        /\ group \in [Groups -> MaybeVpc] /\ net \in [Vpcs -> Nets] /\ croute \in ClusterRoutes
        /\ inst \in [Resources -> Insts] /\ faults \in 0 .. MaxFaults
    BY <1>1, RunFacts, CreateLabels DEF Allowed
  <1>3. l \in {"cache", "peer"}
    BY ZenonT(60)
  <1>4. CASE group' = [group EXCEPT ![g] = w[r].vpc] /\ Reply(r, l)
    <2> HIDE DEF l
    <2>1. Goes(r, l)
      BY <1>2, <1>3, <1>4, ReplyFacts, CreateLabels, ZenonT(60)
    <2>2. group' \in [Groups -> MaybeVpc] /\ \A f \in Groups : group'[f] \in {group[f], w[r].vpc}
      BY <1>2, <1>4, ZenonT(60) DEF MaybeVpc
    <2>3. ~Races => OneVpc' /\ Attached'
      BY <1>1, <1>2, <2>2, ZenonT(60) DEF OneVpc, Attached, Live
    <2>4. ~Races /\ w'[r] # Idle => Allowed(r)'
      BY <1>1, <1>2, <1>3, <2>1, CreateLabels, CreateAllowed, ZenonT(60) DEF Goes, Live
    <2> QED
      BY <1>1, <1>2, <1>3, <2>1, <2>2, <2>3, <2>4, CreateLabels, CallKeeps, ZenonT(60) DEF Goes
  <1>5. CASE Return(r) /\ UNCHANGED group
    BY <1>1, <1>2, <1>5, ReturnKeeps, Zenon DEF Return
  <1> QED
    BY <1>4, <1>5, ZenonT(60) DEF ReconcileSubnetGroup
----------------------------------------------------------------------------
(* CreateNetworkPeering and CreateNetworkConnection.                       *)

LEMMA CreatePeeringKeeps ==
  ASSUME IInv, NEW r \in Resources, CreatePeering(r)
  PROVE  IInv'
  <1>1. w[r].pc = "peer" /\ UNCHANGED <<cr, group, croute, inst>>
    BY ZenonT(60) DEF CreatePeering
  <1>2. TypeOK /\ Mine(r) \in Nets
    BY <1>1, RunFacts, CreateLabels DEF Mine
  <1>3. PICK s \in IF Mine(r).peer = "none" THEN {"initiating", "pending"} ELSE {Mine(r).peer} :
               /\ InVpc(r, [Mine(r) EXCEPT !.peer = s])
               /\ Reply(r, IF s = "pending" THEN "accept" ELSE "sg")
    BY ZenonT(60) DEF CreatePeering
  <1>4. s \in {"none", "initiating", "pending", "active"}
    BY <1>2, <1>3 DEF Nets
  <1> DEFINE n == [Mine(r) EXCEPT !.peer = s]
             l == IF s = "pending" THEN "accept" ELSE "sg"
  <1>5. n \in Nets /\ n.up = Mine(r).up
    BY <1>2, <1>4 DEF Nets
  <1>6. l \in {"accept", "sg"} /\ Reply(r, l) /\ InVpc(r, n)
    BY <1>3
  <1> HIDE DEF n, l
  <1>7. Goes(r, l)
    BY <1>2, <1>6, ReplyFacts, CreateLabels, Zenon
  <1> QED
    BY <1>1, <1>5, <1>6, <1>7, CreateLabels, InVpcKeeps, Zenon

LEMMA AcceptPeeringKeeps ==
  ASSUME IInv, NEW r \in Resources, AcceptPeering(r)
  PROVE  IInv'
  <1>1. w[r].pc = "accept" /\ UNCHANGED <<cr, group, croute, inst>>
    BY ZenonT(60) DEF AcceptPeering
  <1>2. TypeOK /\ Mine(r) \in Nets /\ faults \in 0 .. MaxFaults
    BY <1>1, RunFacts, CreateLabels, Zenon DEF Mine
  <1> DEFINE n == [Mine(r) EXCEPT !.peer = "active"]
  <1>3. n \in Nets /\ n.up = Mine(r).up
    BY <1>2, ZenonT(60) DEF Nets
  <1>4. CASE InVpc(r, n) /\ Reply(r, "sg")
    <2> HIDE DEF n
    <2>1. Goes(r, "sg")
      BY <1>2, <1>4, ReplyFacts, CreateLabels
    <2> QED
      BY <1>1, <1>3, <1>4, <2>1, CreateLabels, InVpcKeeps, ZenonT(60)
  <1>5. CASE Return(r) /\ UNCHANGED net
    BY <1>1, <1>2, <1>5, ReturnKeeps, ZenonT(60) DEF Return
  <1> QED
    BY <1>4, <1>5 DEF AcceptPeering

\* A worker that goes on to another call of the creation.
LEMMA OnwardKeeps ==
  ASSUME IInv, NEW r \in Resources, w[r].pc \in CreateSteps \cap WithVpc,
         NEW l \in CreateSteps \cap WithVpc, Goes(r, l), UNCHANGED <<cr, net, group, croute, inst>>
  PROVE  IInv'
  <1>1. TypeOK /\ w[r].vpc \in Vpcs /\ (~Races => w[r].vpc \in Live)
    BY RunFacts, ZenonT(60) DEF Allowed
  <1>2. ~Races /\ w'[r] # Idle => Allowed(r)'
    BY <1>1, CreateAllowed, ZenonT(60) DEF Goes, Live
  <1>3. l \notin Answered \cup TeardownSteps \cup {"d_net"} /\ l \in Labels /\ l # "idle" /\ w[r].pc # "idle"
    BY LabelFacts DEF Answered, DeleteSteps, TeardownSteps, CreateSteps
  <1> QED
    BY <1>1, <1>2, <1>3, QuietKeeps, ZenonT(60) DEF Goes

LEMMA ReconcileSecurityGroupKeeps ==
  ASSUME IInv, NEW r \in Resources, ReconcileSecurityGroup(r)
  PROVE  IInv'
  <1>1. w[r].pc = "sg" /\ UNCHANGED <<cr, group, croute, inst>>
    BY DEF ReconcileSecurityGroup
  <1>2. TypeOK /\ net \in [Vpcs -> Nets] /\ faults \in 0 .. MaxFaults
    BY RunFacts, ZenonT(60)
  <1>3. ASSUME NEW l \in {"croute", "authorize"}, Goto(r, l), UNCHANGED net PROVE IInv'
    <2>1. Goes(r, l)
      BY <1>2, <1>3, ReplyFacts, CreateLabels, Zenon
    <2> QED
      BY <1>1, <1>3, <2>1, CreateLabels, OnwardKeeps, ZenonT(60)
  <1>4. ASSUME NEW v \in Live, net' = [net EXCEPT ![v].sg = "closed"], Reply(r, "authorize")
        PROVE  IInv'
    <2> DEFINE n == [net[v] EXCEPT !.sg = "closed"]
    <2>1. v \in Vpcs
      BY DEF Live
    <2>2. n \in Nets /\ n.up = net[v].up /\ net' = [net EXCEPT ![v] = n]
      BY <1>2, <1>4, <2>1, Zenon DEF Nets
    <2> HIDE DEF n
    <2>3. Goes(r, "authorize")
      BY <1>2, <1>4, ReplyFacts, CreateLabels, ZenonT(60)
    <2>4. /\ w[r].pc \in WithVpc /\ "authorize" \in WithVpc /\ w[r].pc \in CreateSteps
          /\ "authorize" \notin Answered \cup TeardownSteps /\ (~Races => v \in Live)
      BY <1>1, <2>1, CreateLabels, Zenon
    <2> QED
      BY <1>1, <2>1, <2>2, <2>3, <2>4, ContentsKeeps, Zenon
  <1>5. CASE Return(r) /\ UNCHANGED net
    BY <1>1, <1>2, <1>5, ReturnKeeps, Zenon DEF Return
  <1> QED
    BY <1>3, <1>4, <1>5, Zenon DEF ReconcileSecurityGroup

LEMMA AuthorizeIngressKeeps ==
  ASSUME IInv, NEW r \in Resources, AuthorizeIngress(r)
  PROVE  IInv'
  <1>1. w[r].pc = "authorize" /\ UNCHANGED <<cr, group, croute, inst>>
    BY Zenon DEF AuthorizeIngress
  <1>2. TypeOK /\ net \in [Vpcs -> Nets] /\ faults \in 0 .. MaxFaults
    BY RunFacts
  <1>3. ASSUME NEW v \in Secured, net' = [net EXCEPT ![v].sg = "open"], Reply(r, "croute")
        PROVE  IInv'
    <2> DEFINE n == [net[v] EXCEPT !.sg = "open"]
    <2>1. v \in Vpcs /\ v \in Live
      BY DEF Secured, Live
    <2>2. n \in Nets /\ n.up = net[v].up /\ net' = [net EXCEPT ![v] = n]
      BY <1>2, <1>3, <2>1 DEF Nets
    <2> HIDE DEF n
    <2>3. Goes(r, "croute")
      BY <1>2, <1>3, ReplyFacts, CreateLabels, ZenonT(60)
    <2>4. /\ w[r].pc \in WithVpc /\ "croute" \in WithVpc /\ w[r].pc \in CreateSteps
          /\ "croute" \notin Answered \cup TeardownSteps /\ (~Races => v \in Live)
      BY <1>1, <2>1, CreateLabels, Zenon
    <2> QED
      BY <1>1, <2>1, <2>2, <2>3, <2>4, ContentsKeeps, Zenon
  <1>4. CASE Return(r) /\ UNCHANGED net
    BY <1>1, <1>2, <1>4, ReturnKeeps, ZenonT(60) DEF Return
  <1> QED
    BY <1>3, <1>4 DEF AuthorizeIngress

LEMMA CreateClusterRouteKeeps ==
  ASSUME IInv, NEW r \in Resources, CreateClusterRoute(r)
  PROVE  IInv'
  <1>1. w[r].pc = "croute" /\ UNCHANGED <<cr, net, group, inst>>
    BY ZenonT(60) DEF CreateClusterRoute
  <1>2. /\ TypeOK /\ w[r].vpc \in Vpcs /\ (~Races => w[r].vpc \in Live /\ OneVpc /\ Attached)
        /\ group \in [Groups -> MaybeVpc] /\ net \in [Vpcs -> Nets]
        /\ inst \in [Resources -> Insts] /\ faults \in 0 .. MaxFaults
    BY <1>1, RunFacts, CreateLabels, ZenonT(60) DEF Allowed
  <1>3. CASE croute' = [to |-> w[r].vpc, state |-> "live"] /\ Reply(r, "route")
    <2>1. Goes(r, "route")
      BY <1>2, <1>3, ReplyFacts, CreateLabels, ZenonT(60)
    <2>2. croute' \in ClusterRoutes /\ croute'.to = w[r].vpc /\ croute'.state = "live"
      BY <1>2, <1>3, ZenonT(60) DEF ClusterRoutes, MaybeVpc, Routes
    <2>3. ~Races => OneVpc' /\ Attached'
      BY <1>1, <1>2, <2>2, ZenonT(60) DEF OneVpc, Attached, Live
    <2>4. ~Races /\ w'[r] # Idle => Allowed(r)'
      BY <1>1, <1>2, <2>1, CreateLabels, CreateAllowed, ZenonT(60) DEF Goes, Live
    <2> QED
      BY <1>1, <1>2, <2>1, <2>2, <2>3, <2>4, CreateLabels, CallKeeps, ZenonT(60) DEF Goes
  <1>4. CASE Return(r) /\ UNCHANGED croute
    BY <1>1, <1>2, <1>4, ReturnKeeps, Zenon DEF Return
  <1> QED
    BY <1>3, <1>4, ZenonT(60) DEF CreateClusterRoute

LEMMA CreateRouteKeeps ==
  ASSUME IInv, NEW r \in Resources, CreateRoute(r)
  PROVE  IInv'
  <1>1. w[r].pc = "route" /\ UNCHANGED <<cr, group, croute, inst>>
    BY ZenonT(60) DEF CreateRoute
  <1>2. TypeOK /\ Mine(r) \in Nets /\ faults \in 0 .. MaxFaults
    BY <1>1, RunFacts, CreateLabels DEF Mine
  <1> DEFINE n == [Mine(r) EXCEPT !.route = "live"]
  <1>3. n \in Nets /\ n.up = Mine(r).up
    BY <1>2, ZenonT(60) DEF Nets, Routes
  <1>4. CASE InVpc(r, n) /\ Reply(r, "inst")
    <2> HIDE DEF n
    <2>1. Goes(r, "inst")
      BY <1>2, <1>4, ReplyFacts, CreateLabels, Zenon
    <2> QED
      BY <1>1, <1>3, <1>4, <2>1, CreateLabels, InVpcKeeps, ZenonT(60)
  <1>5. CASE Return(r) /\ UNCHANGED net
    BY <1>1, <1>2, <1>5, ReturnKeeps, Zenon DEF Return
  <1> QED
    BY <1>4, <1>5 DEF CreateRoute

LEMMA VpcGoneKeeps ==
  ASSUME IInv, NEW r \in Resources, VpcGone(r)
  PROVE  IInv'
  <1>1. w[r].pc # "idle" /\ w' = [w EXCEPT ![r] = Idle] /\ UNCHANGED <<cr, net, group, croute, inst, faults>>
    BY LabelFacts, ZenonT(60) DEF VpcGone, Return, cloud
  <1> QED
    BY <1>1, RunFacts, ReturnKeeps, ZenonT(60)

LEMMA CreateInstanceKeeps ==
  ASSUME IInv, NEW r \in Resources, CreateInstance(r)
  PROVE  IInv'
  <1>1. /\ w[r].pc = "inst" /\ UNCHANGED <<cr, net, group, croute, faults>>
        /\ w' = [w EXCEPT ![r] = Idle]
    BY ZenonT(60) DEF CreateInstance
  <1>2. /\ TypeOK /\ (~Races => OneVpc /\ Attached)
        /\ group \in [Groups -> MaybeVpc] /\ net \in [Vpcs -> Nets] /\ croute \in ClusterRoutes
        /\ inst \in [Resources -> Insts] /\ faults \in 0 .. MaxFaults
    BY RunFacts
  <1>3. inst' \in [Resources -> Insts]
    <2> DEFINE g == group[Service[r]]
               i == [at |-> g, sg |-> g \in Secured, going |-> FALSE]
    <2>1. g \in MaybeVpc
      BY <1>2, ServiceAssumption, ZenonT(60)
    <2>2. i \in Insts
      BY <2>1, SMTT(60) DEF Insts
    <2>3. inst' = inst \/ inst' = [inst EXCEPT ![r] = i]
      BY DEF CreateInstance
    <2> HIDE DEF i
    <2> QED
      BY <1>2, <2>2, <2>3, Zenon
  <1>4. Moved(r) /\ w'[r] = Idle
    BY <1>1, <1>2, ReturnFacts, ZenonT(60)
  <1>5. ~Races => OneVpc' /\ Attached'
    BY <1>1, <1>2, ZenonT(60) DEF OneVpc, Attached, Live
  <1> QED
    BY <1>1, <1>2, <1>3, <1>4, <1>5, CreateLabels, CallKeeps, ZenonT(60)
----------------------------------------------------------------------------
(* DeletePostgres and DeleteRedis.                                         *)

\* The labels of the deletion.
LEMMA DeleteLabels ==
  /\ TeardownSteps \subseteq WithVpc /\ TeardownSteps \cap CreateSteps = {}
  /\ {"d_inst", "d_net", "d_fin"} \subseteq Answered /\ Answered \subseteq Labels
  /\ Answered \cap CreateSteps = {} /\ "idle" \notin Answered
  /\ {"d_inst", "d_fin", "d_net", "last"} \cap TeardownSteps = {}
  /\ "last" \in DeleteSteps /\ "last" \notin CreateSteps
  /\ WithVpc \cap Answered = TeardownSteps
  BY ZenonT(60) DEF CreateSteps, WithVpc, TeardownSteps, Labels, Answered, DeleteSteps

\* The answer of IsLastResource stays good while no CR changes; the rest of
\* what a deleting worker relies on is about the network.
LEMMA DeleteAllowed ==
  ASSUME NEW r \in Resources, Allowed(r), w[r].pc \in Answered, UNCHANGED cr,
         w'[r].pc \in Answered, w'[r].last = w[r].last,
         w'[r].pc \in TeardownSteps => w'[r].vpc \in Live',
         w'[r].pc \in {"d_peer", "d_list", "d_subnet", "d_cache", "d_vpc"} => croute'.to = NoVpc,
         w'[r].pc \in {"d_cache", "d_vpc"} => group'["rds"] = NoVpc,
         w'[r].pc = "d_vpc" => group'["cache"] = NoVpc,
         w'[r].pc = "d_fin" /\ w'[r].last => Live' = {}
  PROVE  Allowed(r)'
  <1>1. w'[r].pc # "mkvpc" /\ (w'[r].pc \in WithVpc => w'[r].pc \in TeardownSteps)
    BY DeleteLabels, ZenonT(60) DEF CreateSteps
  <1>2. IF w'[r].last THEN \A q \in Resources \ {r} : cr'[q] \in {"none", "new"}
        ELSE \E q \in Resources \ {r} : cr'[q] # "none"
    BY ZenonT(60) DEF Allowed
  <1> QED
    BY <1>1, <1>2, ZenonT(60) DEF Allowed

\* A deleting worker goes on, or ends, with the VPCs and the CRs as they were.
LEMMA DeletingKeeps ==
  ASSUME IInv, NEW r \in Resources, w[r].pc \in Answered, NEW l \in Answered,
         Moved(r), faults' \in 0 .. MaxFaults,
         w'[r] = Idle \/ (w'[r].pc = l /\ w'[r].last = w[r].last),
         l \in TeardownSteps => w'[r] = Idle \/ w'[r].vpc \in Vpcs,
         l \in TeardownSteps \cup {"d_net"} => w[r].last,
         UNCHANGED cr, net' \in [Vpcs -> Nets], group' \in [Groups -> MaybeVpc],
         croute' \in ClusterRoutes, inst' \in [Resources -> Insts],
         ~Races => /\ OneVpc' /\ Attached'
                   /\ w'[r] = Idle
                      \/ /\ l \in TeardownSteps => w'[r].vpc \in Live'
                         /\ l \in {"d_peer", "d_list", "d_subnet", "d_cache", "d_vpc"} => croute'.to = NoVpc
                         /\ l \in {"d_cache", "d_vpc"} => group'["rds"] = NoVpc
                         /\ l = "d_vpc" => group'["cache"] = NoVpc
                         /\ l = "d_fin" /\ w[r].last => Live' = {}
  PROVE  IInv'
  <1>1. ~Races => Allowed(r)
    BY RunFacts, ZenonT(60)
  <1>2. ASSUME ~Races, w'[r] # Idle PROVE Allowed(r)'
    BY <1>1, <1>2, DeleteAllowed, ZenonT(60)
  <1>3. l \in Labels /\ l # "idle" /\ w[r].pc # "idle" /\ l \notin CreateSteps
        /\ (l \in WithVpc => l \in TeardownSteps)
    BY DeleteLabels, Zenon
  <1> QED
    BY <1>2, <1>3, CallKeeps, ZenonT(60)

LEMMA IsLastResourceKeeps ==
  ASSUME IInv, NEW r \in Resources, IsLastResource(r)
  PROVE  IInv'
  <1> DEFINE b == \A q \in Resources \ {r} : cr[q] = "none"
             x == [w[r] EXCEPT !.pc = "d_inst", !.last = b]
  <1>1. /\ w[r].pc = "last" /\ UNCHANGED <<cr, net, group, croute, inst, faults>>
        /\ w' = [w EXCEPT ![r].pc = "d_inst", ![r].last = b]
    BY Zenon DEF IsLastResource, cloud
  <1>2. /\ TypeOK /\ (~Races => OneVpc /\ Attached) /\ w \in [Resources -> Workers]
        /\ group \in [Groups -> MaybeVpc] /\ net \in [Vpcs -> Nets] /\ croute \in ClusterRoutes
        /\ inst \in [Resources -> Insts] /\ faults \in 0 .. MaxFaults
    BY RunFacts
  <1>3. b \in BOOLEAN
    BY Zenon
  <1>4. b <=> \A q \in Resources \ {r} : cr[q] = "none"
    OBVIOUS
  <1> HIDE DEF b
  <1>5. w' = [w EXCEPT ![r] = x]
    BY <1>1, <1>2, Zenon
  <1>6. x \in Workers /\ x.pc = "d_inst" /\ x.last = b
    BY <1>2, <1>3, DeleteLabels, Zenon DEF Workers
  <1> HIDE DEF x
  <1>7. Moved(r) /\ w'[r] = x
    BY <1>2, <1>5, <1>6, Zenon DEF Moved
  <1>8. cr[r] = "deleting"
    BY <1>1, DeleteLabels, Zenon DEF IInv, WorkerInv
  <1>9. ~Races => OneVpc' /\ Attached'
    BY <1>1, <1>2, Zenon DEF OneVpc, Attached, Live
  <1>10. Allowed(r)'
    BY <1>1, <1>4, <1>6, <1>7, LabelFacts, ZenonT(60) DEF Allowed
  <1>11. "d_inst" \in Answered /\ "d_inst" \notin WithVpc \cup TeardownSteps \cup {"d_net"}
    BY DeleteLabels
  <1> QED
    BY <1>1, <1>2, <1>4, <1>6, <1>7, <1>8, <1>9, <1>10, <1>11, EffectKeeps, SMTT(60)

LEMMA DeleteInstanceKeeps ==
  ASSUME IInv, NEW r \in Resources, DeleteInstance(r)
  PROVE  IInv'
  <1>1. w[r].pc = "d_inst" /\ UNCHANGED <<cr, net, group, croute>> /\ w[r].pc \in Answered
    BY DeleteLabels, ZenonT(60) DEF DeleteInstance
  <1>2. /\ TypeOK /\ (~Races => OneVpc /\ Attached) /\ w \in [Resources -> Workers]
        /\ group \in [Groups -> MaybeVpc] /\ net \in [Vpcs -> Nets] /\ croute \in ClusterRoutes
        /\ inst \in [Resources -> Insts] /\ faults \in 0 .. MaxFaults
    BY RunFacts
  <1>3. ~Races => OneVpc' /\ Attached'
    BY <1>1, <1>2, ZenonT(60) DEF OneVpc, Attached, Live
  <1>4. CASE inst' = [inst EXCEPT ![r].going = TRUE] /\ Return(r)
    <2> DEFINE i == [inst[r] EXCEPT !.going = TRUE]
    <2>1. i \in Insts /\ inst' = [inst EXCEPT ![r] = i]
      BY <1>2, <1>4, Zenon DEF Insts
    <2> HIDE DEF i
    <2>2. inst' \in [Resources -> Insts]
      BY <1>2, <2>1
    <2>3. Moved(r) /\ w'[r] = Idle /\ faults' = faults
      BY <1>2, <1>4, ReturnFacts, Zenon DEF Return
    <2>4. "d_fin" \in Answered /\ "d_fin" \notin TeardownSteps \cup {"d_net"}
      BY DeleteLabels, ZenonT(60)
    <2> QED
      BY <1>1, <1>2, <1>3, <2>2, <2>3, <2>4, DeletingKeeps, ZenonT(60)
  <1>5. ASSUME NEW l \in {"d_net", "d_fin"}, w[r].last <=> l = "d_net", Goto(r, l), UNCHANGED inst
        PROVE  IInv'
    <2>1. l \in Answered /\ l \in Labels /\ l \notin TeardownSteps
      BY DeleteLabels, ZenonT(60)
    <2>2. Goes(r, l)
      BY <1>2, <1>5, <2>1, ReplyFacts, ZenonT(60)
    <2> QED
      BY <1>1, <1>2, <1>3, <1>5, <2>1, <2>2, DeletingKeeps, ZenonT(60) DEF Goes
  <1>6. w[r].last \in BOOLEAN
    BY <1>2, ZenonT(60) DEF Workers
  <1>7. CASE inst[r] = NoInst /\ w[r].last
    <2>1. Goto(r, "d_net") /\ UNCHANGED inst
      BY <1>7, ZenonT(60) DEF DeleteInstance
    <2> QED
      BY <1>5, <1>7, <2>1, ZenonT(60)
  <1>8. CASE inst[r] = NoInst /\ ~w[r].last
    <2>1. Goto(r, "d_fin") /\ UNCHANGED inst
      BY <1>8, ZenonT(60) DEF DeleteInstance
    <2> QED
      BY <1>5, <1>8, <2>1, ZenonT(60)
  <1> QED
    BY <1>4, <1>7, <1>8, Zenon DEF DeleteInstance

\* What holds whenever a worker takes the network down.
LEMMA TeardownFacts ==
  ASSUME IInv, NEW r \in Resources, w[r].pc \in TeardownSteps \cup {"d_net"}
  PROVE  /\ TypeOK /\ w \in [Resources -> Workers] /\ net \in [Vpcs -> Nets]
         /\ group \in [Groups -> MaybeVpc] /\ croute \in ClusterRoutes
         /\ inst \in [Resources -> Insts] /\ faults \in 0 .. MaxFaults
         /\ w[r].last /\ w[r].pc \in Answered
         /\ w[r].pc \in TeardownSteps => w[r].vpc \in Vpcs /\ Mine(r) \in Nets
         /\ ~Races => /\ OneVpc /\ Attached /\ Allowed(r)
                      /\ w[r].pc \in TeardownSteps => w[r].vpc \in Live
  <1>1. w[r].pc \in Answered /\ (w[r].pc \in TeardownSteps => w[r].pc \in WithVpc)
    BY DeleteLabels, LabelFacts, ZenonT(60)
  <1>2. net \in [Vpcs -> Nets] /\ (w[r].pc \in TeardownSteps => w[r].vpc \in Vpcs)
    BY <1>1, RunFacts, Zenon
  <1> QED
    BY <1>1, <1>2, RunFacts, ZenonT(60) DEF Mine, Allowed

\* A lookup of the VPC: the worker goes on to l with one that is there.
LEMMA LookupKeeps ==
  ASSUME IInv, NEW r \in Resources, w[r].pc \in TeardownSteps \cup {"d_net"},
         NEW l \in TeardownSteps \ {"d_cache", "d_vpc"}, NEW v \in Live,
         NEW x \in Workers, x.pc = l, x.vpc = v, x.last = w[r].last, w' = [w EXCEPT ![r] = x],
         ~Races => (l \in {"d_peer", "d_list", "d_subnet"} => croute.to = NoVpc),
         UNCHANGED <<cr, net, group, croute, inst, faults>>
  PROVE  IInv'
  <1>1. /\ TypeOK /\ w \in [Resources -> Workers] /\ net \in [Vpcs -> Nets]
        /\ group \in [Groups -> MaybeVpc] /\ croute \in ClusterRoutes
        /\ inst \in [Resources -> Insts] /\ faults \in 0 .. MaxFaults
        /\ w[r].last /\ w[r].pc \in Answered /\ (~Races => OneVpc /\ Attached)
    BY TeardownFacts, ZenonT(60)
  <1>2. Moved(r) /\ w'[r] = x
    BY <1>1, ZenonT(60) DEF Moved
  <1>3. v \in Vpcs /\ v \in Live' /\ (~Races => OneVpc' /\ Attached')
    BY <1>1, ZenonT(60) DEF OneVpc, Attached, Live
  <1>4. l \in Answered /\ l \notin {"d_cache", "d_vpc", "d_fin"}
    BY DeleteLabels, LabelFacts, Zenon
  <1> QED
    BY <1>1, <1>2, <1>3, <1>4, DeletingKeeps, Zenon

\* Nothing is left to take down.
LEMMA NothingKeeps ==
  ASSUME IInv, NEW r \in Resources, w[r].pc \in TeardownSteps \cup {"d_net"}, Live = {},
         Goto(r, "d_fin"), UNCHANGED <<cr, net, group, croute, inst>>
  PROVE  IInv'
  <1>1. /\ TypeOK /\ net \in [Vpcs -> Nets]
        /\ group \in [Groups -> MaybeVpc] /\ croute \in ClusterRoutes
        /\ inst \in [Resources -> Insts]
        /\ w[r].last /\ w[r].pc \in Answered /\ (~Races => OneVpc /\ Attached)
    BY TeardownFacts, ZenonT(60)
  <1>2. Goes(r, "d_fin")
    BY <1>1, DeleteLabels, ReplyFacts, ZenonT(60)
  <1>3. Live' = {} /\ (~Races => OneVpc' /\ Attached')
    BY <1>1, ZenonT(60) DEF OneVpc, Attached, Live
  <1>4. "d_fin" \in Answered /\ "d_fin" \notin TeardownSteps \cup {"d_net"}
    BY DeleteLabels, SMTT(60)
  <1> QED
    BY <1>1, <1>2, <1>3, <1>4, DeletingKeeps, Zenon DEF Goes

LEMMA GetPeeringKeeps ==
  ASSUME IInv, NEW r \in Resources, GetPeering(r)
  PROVE  IInv'
  <1>1. w[r].pc = "d_net" /\ UNCHANGED <<cr, net, group, croute, inst>>
    BY ZenonT(60) DEF GetPeering, cloud
  <1>2. /\ w \in [Resources -> Workers] /\ w[r] \in Workers
    BY RunFacts, ZenonT(60)
  <1>3. CASE Live = {} /\ Goto(r, "d_fin")
    BY <1>1, <1>3, NothingKeeps, ZenonT(60)
  <1>4. ASSUME NEW v \in Live, UNCHANGED faults,
               w' = [w EXCEPT ![r].pc = "d_sg", ![r].vpc = v, ![r].peered = net[v].peer # "none"]
        PROVE  IInv'
    <2> DEFINE b == net[v].peer # "none"
               x == [w[r] EXCEPT !.pc = "d_sg", !.vpc = v, !.peered = b]
    <2>1. b \in BOOLEAN /\ v \in Vpcs
      BY DEF Live
    <2> HIDE DEF b
    <2>2. w' = [w EXCEPT ![r] = x]
      BY <1>2, <1>4, Zenon DEF b
    <2>3. "d_sg" \in Labels /\ "d_sg" \in TeardownSteps
      BY DEF Labels, DeleteSteps, TeardownSteps
    <2>4. x \in Workers /\ x.pc = "d_sg" /\ x.vpc = v /\ x.last = w[r].last
      BY <1>2, <2>1, <2>3, Zenon DEF Workers, MaybeVpc
    <2> HIDE DEF x
    <2>5. /\ w[r].pc \in TeardownSteps \cup {"d_net"} /\ "d_sg" \in TeardownSteps \ {"d_cache", "d_vpc"}
          /\ "d_sg" \notin {"d_peer", "d_list", "d_subnet"}
      BY <1>1, <2>3, Zenon
    <2>6. UNCHANGED <<cr, net, group, croute, inst, faults>>
      BY <1>1, <1>4
    <2> QED
      BY <2>2, <2>4, <2>5, <2>6, LookupKeeps, ZenonT(60)
  <1> QED
    BY <1>3, <1>4, ZenonT(60) DEF GetPeering

LEMMA DeleteSecurityGroupKeeps ==
  ASSUME IInv, NEW r \in Resources, DeleteSecurityGroup(r)
  PROVE  IInv'
  <1>1. /\ w[r].pc = "d_sg" /\ UNCHANGED <<cr, group, croute, inst>>
        /\ w[r].pc \in TeardownSteps /\ "d_route" \in TeardownSteps
    BY ZenonT(60) DEF DeleteSecurityGroup, TeardownSteps
  <1>2. /\ TypeOK /\ net \in [Vpcs -> Nets] /\ faults \in 0 .. MaxFaults
        /\ group \in [Groups -> MaybeVpc] /\ croute \in ClusterRoutes
        /\ inst \in [Resources -> Insts] /\ w[r].last /\ w[r].pc \in Answered
        /\ w[r].vpc \in Vpcs /\ (~Races => w[r].vpc \in Live /\ OneVpc /\ Attached)
    BY <1>1, TeardownFacts, ZenonT(60)
  <1>3. "d_route" \in Labels /\ "d_route" \in Answered
    BY <1>1, LabelFacts, DeleteLabels, ZenonT(60)
  <1>4. ASSUME Goes(r, "d_route"), net' \in [Vpcs -> Nets], Live' = Live,
               ~Races => OneVpc' /\ Attached'
        PROVE  IInv'
    BY <1>1, <1>2, <1>3, <1>4, DeletingKeeps, Zenon DEF Goes
  <1>5. CASE Goto(r, "d_route") /\ UNCHANGED net
    <2>1. Goes(r, "d_route")
      BY <1>2, <1>3, <1>5, ReplyFacts, ZenonT(60)
    <2>2. Live' = Live /\ (~Races => OneVpc' /\ Attached')
      BY <1>1, <1>2, <1>5, ZenonT(60) DEF OneVpc, Attached, Live
    <2> QED
      BY <1>2, <1>4, <1>5, <2>1, <2>2, ZenonT(60)
  <1>6. CASE Return(r) /\ UNCHANGED net
    <2>1. w' = [w EXCEPT ![r] = Idle] /\ UNCHANGED faults /\ w[r].pc # "idle"
      BY <1>1, <1>6, Zenon DEF Return
    <2> QED
      BY <1>1, <1>2, <1>6, <2>1, ReturnKeeps, Zenon
  <1>7. ASSUME NEW v \in Secured, net' = [net EXCEPT ![v].sg = "none"], Reply(r, "d_route")
        PROVE  IInv'
    <2> DEFINE n == [net[v] EXCEPT !.sg = "none"]
    <2>1. v \in Vpcs /\ v \in Live
      BY DEF Secured, Live
    <2>2. n \in Nets /\ n.up = net[v].up /\ net' = [net EXCEPT ![v] = n]
      BY <1>2, <1>7, <2>1 DEF Nets
    <2> HIDE DEF n
    <2>3. Goes(r, "d_route")
      BY <1>2, <1>3, <1>7, ReplyFacts, ZenonT(60)
    <2>4. net' \in [Vpcs -> Nets] /\ Live' = Live /\ (~Races => OneVpc' /\ Attached')
      BY <1>1, <2>1, <2>2, ContentsFacts, ZenonT(60)
    <2> QED
      BY <1>4, <2>3, <2>4, Zenon
  <1> QED
    BY <1>5, <1>6, <1>7, ZenonT(60) DEF DeleteSecurityGroup

LEMMA DeleteClusterRouteKeeps ==
  ASSUME IInv, NEW r \in Resources, DeleteClusterRoute(r)
  PROVE  IInv'
  <1>1. /\ w[r].pc = "d_route" /\ UNCHANGED <<cr, net, group, inst>>
        /\ w[r].pc \in TeardownSteps /\ "d_peer" \in TeardownSteps
    BY DEF DeleteClusterRoute, TeardownSteps
  <1>2. /\ TypeOK /\ net \in [Vpcs -> Nets] /\ faults \in 0 .. MaxFaults
        /\ group \in [Groups -> MaybeVpc] /\ croute \in ClusterRoutes
        /\ inst \in [Resources -> Insts] /\ w[r].last /\ w[r].pc \in Answered
        /\ w[r].vpc \in Vpcs /\ (~Races => w[r].vpc \in Live /\ OneVpc /\ Attached)
    BY <1>1, TeardownFacts, ZenonT(60)
  <1>3. "d_peer" \in Labels /\ "d_peer" \in Answered
    BY <1>1, LabelFacts, DeleteLabels, Zenon
  <1>4. CASE Return(r) /\ UNCHANGED croute
    <2>1. w' = [w EXCEPT ![r] = Idle] /\ UNCHANGED faults /\ w[r].pc # "idle"
      BY <1>1, <1>4 DEF Return
    <2> QED
      BY <1>1, <1>2, <1>4, <2>1, ReturnKeeps, Zenon
  <1> DEFINE live == [to |-> w[r].vpc, state |-> "live"]
             none == [to |-> NoVpc, state |-> "none"]
  <1>5. CASE croute' = (IF croute = live THEN none ELSE croute) /\ Reply(r, "d_peer")
    <2>1. none \in ClusterRoutes /\ none.to = NoVpc /\ none.state = "none"
      BY DEF ClusterRoutes, MaybeVpc, Routes
    <2>2. croute.to = w[r].vpc /\ croute.state = "live" => croute = live
      BY <1>2, ZenonT(60) DEF ClusterRoutes
    <2> HIDE DEF live, none
    <2>3. ~Races => (croute.to = NoVpc /\ croute.state = "none") \/ croute = live
      BY <1>2, <2>2, ZenonT(60) DEF OneVpc, Attached
    <2>4. croute' \in ClusterRoutes /\ (~Races => croute'.to = NoVpc /\ croute'.state = "none")
      BY <1>2, <1>5, <2>1, <2>3, ZenonT(60)
    <2>5. ~Races => OneVpc' /\ Attached' /\ Live' = Live
      BY <1>1, <1>2, <2>4, ZenonT(60) DEF OneVpc, Attached, Live
    <2>6. Goes(r, "d_peer")
      BY <1>2, <1>3, <1>5, ReplyFacts, ZenonT(60)
    <2> QED
      BY <1>1, <1>2, <1>3, <2>4, <2>5, <2>6, DeletingKeeps, Zenon DEF Goes
  <1> QED
    BY <1>4, <1>5, ZenonT(60) DEF DeleteClusterRoute

\* A route that leads elsewhere is not touched.
LEMMA StaleFacts ==
  ASSUME NEW v \in Vpcs, croute \in ClusterRoutes, StaleClusterRoute(v)
  PROVE  croute' \in ClusterRoutes /\ (croute.to = NoVpc => croute' = croute)
  BY VpcsAssumption, Zenon DEF StaleClusterRoute, ClusterRoutes, MaybeVpc, Routes

LEMMA DeletePeeringKeeps ==
  ASSUME IInv, NEW r \in Resources, DeletePeering(r)
  PROVE  IInv'
  <1> DEFINE n == [Mine(r) EXCEPT !.peer = "none", !.route = IF @ = "live" THEN "stale" ELSE @]
  <1>1. /\ w[r].pc = "d_peer" /\ UNCHANGED <<cr, group, inst>>
        /\ w[r].pc \in TeardownSteps /\ "d_list" \in TeardownSteps
        /\ InVpc(r, n) /\ StaleClusterRoute(w[r].vpc) /\ Reply(r, "d_list")
    BY DEF DeletePeering, TeardownSteps
  <1>2. /\ TypeOK /\ net \in [Vpcs -> Nets] /\ faults \in 0 .. MaxFaults
        /\ group \in [Groups -> MaybeVpc] /\ croute \in ClusterRoutes
        /\ inst \in [Resources -> Insts] /\ w[r].last /\ w[r].pc \in Answered
        /\ w[r].vpc \in Vpcs /\ Mine(r) \in Nets
        /\ ~Races => w[r].vpc \in Live /\ OneVpc /\ Attached /\ Allowed(r)
    BY <1>1, TeardownFacts, Zenon
  <1>3. "d_list" \in Labels /\ "d_list" \in Answered
    BY <1>1, LabelFacts, DeleteLabels, Zenon
  <1>4. n \in Nets /\ n.up = Mine(r).up
    BY <1>2, ZenonT(60) DEF Nets, Routes
  <1> HIDE DEF n
  <1>5. croute' \in ClusterRoutes /\ (~Races => croute' = croute /\ croute.to = NoVpc)
    BY <1>1, <1>2, StaleFacts, ZenonT(60) DEF Allowed
  <1>6. net' = [net EXCEPT ![w[r].vpc] = n] /\ n.up = net[w[r].vpc].up
    BY <1>1, <1>4, Zenon DEF InVpc, Mine
  <1>7. net' \in [Vpcs -> Nets] /\ Live' = Live /\ (~Races => OneVpc' /\ Attached')
    BY <1>1, <1>2, <1>4, <1>5, <1>6, ContentsFacts, ZenonT(60)
  <1>8. Goes(r, "d_list")
    BY <1>1, <1>2, <1>3, ReplyFacts, ZenonT(60)
  <1> QED
    BY <1>1, <1>2, <1>3, <1>5, <1>7, <1>8, DeletingKeeps, Zenon DEF Goes

LEMMA ListForDeleteKeeps ==
  ASSUME IInv, NEW r \in Resources, ListForDelete(r)
  PROVE  IInv'
  <1>1. /\ w[r].pc = "d_list" /\ UNCHANGED <<cr, net, group, croute, inst>>
        /\ w[r].pc \in TeardownSteps
    BY ZenonT(60) DEF ListForDelete, cloud, TeardownSteps
  <1>2. /\ w \in [Resources -> Workers] /\ net \in [Vpcs -> Nets] /\ (~Races => Allowed(r))
    BY RunFacts, ZenonT(60)
  <1>3. CASE Live = {} /\ Goto(r, "d_fin")
    BY <1>1, <1>3, NothingKeeps, Zenon
  <1>4. ASSUME NEW v \in Live, UNCHANGED faults,
               w' = [w EXCEPT ![r].pc = "d_subnet", ![r].vpc = v, ![r].subs = net[v].subs]
        PROVE  IInv'
    <2> DEFINE x == [w[r] EXCEPT !.pc = "d_subnet", !.vpc = v, !.subs = net[v].subs]
    <2>1. v \in Vpcs /\ net[v].subs \in SUBSET Halves
      BY <1>2 DEF Live, Nets
    <2>2. w' = [w EXCEPT ![r] = x]
      BY <1>2, <1>4, Zenon
    <2>3. "d_subnet" \in Labels /\ "d_subnet" \in TeardownSteps
      BY DEF Labels, DeleteSteps, TeardownSteps
    <2>4. x \in Workers /\ x.pc = "d_subnet" /\ x.vpc = v /\ x.last = w[r].last
      BY <1>2, <2>1, <2>3, Zenon DEF Workers, MaybeVpc
    <2> HIDE DEF x
    <2>5. /\ w[r].pc \in TeardownSteps \cup {"d_net"} /\ "d_subnet" \in TeardownSteps \ {"d_cache", "d_vpc"}
          /\ ~Races => croute.to = NoVpc
      BY <1>1, <1>2, <2>3, Zenon DEF Allowed
    <2>6. UNCHANGED <<cr, net, group, croute, inst, faults>>
      BY <1>1, <1>4, Zenon
    <2> QED
      BY <2>2, <2>4, <2>5, <2>6, LookupKeeps, Zenon
  <1> QED
    BY <1>3, <1>4, ZenonT(60) DEF ListForDelete

LEMMA DeleteSubnetKeeps ==
  ASSUME IInv, NEW r \in Resources, DeleteSubnet(r)
  PROVE  IInv'
  <1>1. /\ w[r].pc = "d_subnet" /\ UNCHANGED <<cr, group, croute, inst>>
        /\ w[r].pc \in TeardownSteps
    BY DEF DeleteSubnet, TeardownSteps
  <1>2. /\ TypeOK /\ net \in [Vpcs -> Nets] /\ faults \in 0 .. MaxFaults
        /\ group \in [Groups -> MaybeVpc] /\ croute \in ClusterRoutes
        /\ inst \in [Resources -> Insts] /\ w[r].last /\ w[r].pc \in Answered
        /\ w[r].vpc \in Vpcs /\ Mine(r) \in Nets /\ w \in [Resources -> Workers]
        /\ ~Races => w[r].vpc \in Live /\ OneVpc /\ Attached /\ Allowed(r)
    BY <1>1, TeardownFacts
  <1>3. CASE Return(r) /\ UNCHANGED net
    <2>1. w' = [w EXCEPT ![r] = Idle] /\ UNCHANGED faults /\ w[r].pc # "idle"
      BY <1>1, <1>3 DEF Return
    <2> QED
      BY <1>1, <1>2, <1>3, <2>1, ReturnKeeps, Zenon
  <1>4. ASSUME NEW h \in w[r].subs, InVpc(r, [Mine(r) EXCEPT !.subs = @ \ {h}]),
               \/ w' = [w EXCEPT ![r].subs = @ \ {h}] /\ UNCHANGED faults
               \/ Fault /\ w' = [w EXCEPT ![r] = Idle]
        PROVE  IInv'
    <2> DEFINE n == [Mine(r) EXCEPT !.subs = @ \ {h}]
    <2>1. n \in Nets /\ n.up = Mine(r).up
      BY <1>2 DEF Nets
    <2>2. InVpc(r, n)
      BY <1>4
    <2> HIDE DEF n
    <2>3. Goes(r, "d_subnet")
      <3>1. CASE w' = [w EXCEPT ![r].subs = @ \ {h}] /\ UNCHANGED faults
        <4> DEFINE x == [w[r] EXCEPT !.subs = @ \ {h}]
        <4>1. w' = [w EXCEPT ![r] = x]
          BY <1>2, <3>1, Zenon
        <4>2. x \in Workers /\ x.pc = "d_subnet" /\ x.vpc = w[r].vpc /\ x.last = w[r].last
          BY <1>1, <1>2, Zenon DEF Workers
        <4> HIDE DEF x
        <4> QED
          BY <1>2, <3>1, <4>1, <4>2, Zenon DEF Goes, Moved
      <3>2. CASE Fault /\ w' = [w EXCEPT ![r] = Idle]
        BY <1>2, <3>2, ReturnFacts, FaultFacts, Zenon DEF Goes
      <3> QED
        BY <1>4, <3>1, <3>2, ZenonT(60)
    <2>4. net' = [net EXCEPT ![w[r].vpc] = n] /\ n.up = net[w[r].vpc].up
      BY <2>1, <2>2, Zenon DEF InVpc, Mine
    <2>5. net' \in [Vpcs -> Nets] /\ Live' = Live /\ (~Races => OneVpc' /\ Attached')
      BY <1>1, <1>2, <2>1, <2>4, ContentsFacts, ZenonT(60)
    <2>6. ~Races => croute'.to = NoVpc
      BY <1>1, <1>2, ZenonT(60) DEF Allowed
    <2>7. /\ Moved(r) /\ faults' \in 0 .. MaxFaults
          /\ w'[r] = Idle \/ (w'[r].pc = "d_subnet" /\ w'[r].last = w[r].last /\ w'[r].vpc = w[r].vpc)
      BY <2>3, ZenonT(60) DEF Goes
    <2>8. "d_subnet" \in Answered /\ "d_subnet" \in TeardownSteps
      BY <1>1, <1>2, ZenonT(60)
    <2> QED
      BY <1>1, <1>2, <2>5, <2>6, <2>7, <2>8, DeletingKeeps, Zenon
  <1> QED
    BY <1>3, <1>4, Zenon DEF DeleteSubnet

LEMMA DeleteSubnetGroupKeeps ==
  ASSUME IInv, NEW r \in Resources, NEW g \in Groups, DeleteSubnetGroup(r, g)
  PROVE  IInv'
  <1> DEFINE l == IF g = "rds" THEN "d_cache" ELSE "d_vpc"
  <1>1. /\ UNCHANGED <<cr, net, croute, inst>> /\ {"d_cache", "d_vpc"} \subseteq TeardownSteps
        /\ w[r].pc \in {"d_subnet", "d_cache"} /\ w[r].pc \in TeardownSteps
    BY ZenonT(60) DEF DeleteSubnetGroup, TeardownSteps
  <1>2. /\ TypeOK /\ net \in [Vpcs -> Nets] /\ faults \in 0 .. MaxFaults
        /\ group \in [Groups -> MaybeVpc] /\ croute \in ClusterRoutes
        /\ inst \in [Resources -> Insts] /\ w[r].last /\ w[r].pc \in Answered
        /\ w[r].vpc \in Vpcs
        /\ ~Races => w[r].vpc \in Live /\ OneVpc /\ Attached /\ Allowed(r)
    BY <1>1, TeardownFacts, Zenon
  <1>3. CASE Return(r) /\ UNCHANGED group
    <2>1. w' = [w EXCEPT ![r] = Idle] /\ UNCHANGED faults /\ w[r].pc # "idle"
      BY <1>1, <1>3, Zenon DEF Return
    <2> QED
      BY <1>1, <1>2, <1>3, <2>1, ReturnKeeps, ZenonT(60)
  <1>4. CASE group' = [group EXCEPT ![g] = NoVpc] /\ Reply(r, l)
    <2>1. (g = "rds" /\ l = "d_cache") \/ (g = "cache" /\ l = "d_vpc" /\ w[r].pc = "d_cache")
      BY DEF DeleteSubnetGroup, Groups
    <2> HIDE DEF l
    <2>2. l \in Labels /\ l \in Answered /\ l \in TeardownSteps
      BY <1>1, <2>1, LabelFacts, DeleteLabels, ZenonT(60)
    <2>3. /\ group' \in [Groups -> MaybeVpc] /\ group'[g] = NoVpc
          /\ \A f \in Groups : f # g => group'[f] = group[f]
      BY <1>2, <1>4, ZenonT(60) DEF MaybeVpc
    <2>4. ~Races => OneVpc' /\ Attached' /\ w[r].vpc \in Live'
      BY <1>1, <1>2, <2>3, ZenonT(60) DEF OneVpc, Attached, Live
    <2>5. ~Races => /\ croute'.to = NoVpc /\ group'["rds"] = NoVpc
                    /\ l = "d_vpc" => group'["cache"] = NoVpc
      BY <1>1, <1>2, <2>1, <2>3, ZenonT(60) DEF Allowed, Groups
    <2>6. Goes(r, l)
      BY <1>2, <1>4, <2>2, ReplyFacts, ZenonT(60)
    <2>7. l # "d_fin"
      BY <2>1, SMTT(60)
    <2> QED
      BY <1>1, <1>2, <2>2, <2>3, <2>4, <2>5, <2>6, <2>7, DeletingKeeps, ZenonT(60) DEF Goes
  <1> QED
    BY <1>3, <1>4, ZenonT(60) DEF DeleteSubnetGroup

LEMMA DeleteVpcKeeps ==
  ASSUME IInv, NEW r \in Resources, DeleteVpc(r)
  PROVE  IInv'
  <1>1. /\ w[r].pc = "d_vpc" /\ UNCHANGED <<cr, group, inst>> /\ w[r].pc \in TeardownSteps
    BY ZenonT(60) DEF DeleteVpc, TeardownSteps
  <1>2. /\ TypeOK /\ net \in [Vpcs -> Nets] /\ faults \in 0 .. MaxFaults
        /\ group \in [Groups -> MaybeVpc] /\ croute \in ClusterRoutes
        /\ inst \in [Resources -> Insts] /\ w[r].last /\ w[r].pc \in Answered
        /\ w[r].vpc \in Vpcs
        /\ ~Races => w[r].vpc \in Live /\ OneVpc /\ Attached /\ Allowed(r)
    BY <1>1, TeardownFacts
  <1>3. CASE Return(r) /\ UNCHANGED <<net, croute>>
    <2>1. w' = [w EXCEPT ![r] = Idle] /\ UNCHANGED faults /\ w[r].pc # "idle"
      BY <1>1, <1>3, Zenon DEF Return
    <2> QED
      BY <1>1, <1>2, <1>3, <2>1, ReturnKeeps, Zenon
  <1>4. CASE InVpc(r, NoNet) /\ StaleClusterRoute(w[r].vpc) /\ Reply(r, "d_fin")
    <2>1. "d_fin" \in Labels /\ "d_fin" \in Answered /\ "d_fin" \notin TeardownSteps \cup {"d_net"}
      BY DeleteLabels
    <2>2. croute' \in ClusterRoutes /\ (~Races => croute' = croute /\ croute.to = NoVpc)
      BY <1>1, <1>2, <1>4, StaleFacts, ZenonT(60) DEF Allowed
    <2>3. /\ net' \in [Vpcs -> Nets] /\ ~net'[w[r].vpc].up /\ net'[w[r].vpc] = NoNet
          /\ \A v \in Vpcs : v # w[r].vpc => net'[v] = net[v]
      BY <1>2, <1>4, IdleFacts, ZenonT(60) DEF InVpc
    <2>4. ~Races => Live' = {}
      BY <1>2, <2>3, ZenonT(60) DEF OneVpc, Live
    <2>5. ~Races => \A g \in Groups : group'[g] = NoVpc
      BY <1>1, <1>2, ZenonT(60) DEF Allowed, Groups
    <2>6. ASSUME ~Races PROVE OneVpc' /\ Attached'
      <3>1. \A v \in Vpcs : ~net'[v].up => net'[v] = NoNet
        BY <1>2, <2>3, <2>6, ZenonT(60) DEF Attached
      <3>2. croute'.to = NoVpc /\ croute'.state = "none"
        BY <1>2, <2>2, <2>6, VpcsAssumption, ZenonT(60) DEF Attached, Live
      <3> QED
        BY <2>4, <2>5, <2>6, <3>1, <3>2, ZenonT(60) DEF OneVpc, Attached
    <2>7. Goes(r, "d_fin")
      BY <1>2, <1>4, <2>1, ReplyFacts, ZenonT(60)
    <2> QED
      BY <1>1, <1>2, <2>1, <2>2, <2>3, <2>4, <2>6, <2>7, DeletingKeeps, ZenonT(60) DEF Goes
  <1> QED
    BY <1>3, <1>4, ZenonT(60) DEF DeleteVpc

\* The CR goes.  With ~Races, IsLastResource said no, and another CR is still
\* there, or the network has gone.
LEMMA RemoveFinalizerKeeps ==
  ASSUME IInv, NEW r \in Resources, RemoveFinalizer(r)
  PROVE  IInv'
  <1>1. /\ w[r].pc = "d_fin" /\ cr' = [cr EXCEPT ![r] = "none"] /\ w' = [w EXCEPT ![r] = Idle]
        /\ UNCHANGED <<net, group, croute, inst, faults>>
    BY DEF RemoveFinalizer, cloud
  <1>2. TypeOK /\ WorkerInv /\ SerialInv
    BY DEF IInv
  <1>3. cr \in [Resources -> {"none", "new", "held", "deleting"}]
    BY <1>2, Types, ZenonT(60)
  <1>4. cr'[r] = "none" /\ \A q \in Resources \ {r} : cr'[q] = cr[q]
    BY <1>1, <1>3
  <1>5. Moved(r) /\ w'[r] = Idle
    BY <1>1, <1>2, ReturnFacts, Zenon
  <1>6. w'[r].pc = "idle" /\ ~w'[r].last
    BY <1>5, IdleFacts, ZenonT(60)
  <1>7. TypeOK'
    <2>1. /\ cr' \in [Resources -> {"none", "new", "held", "deleting"}] /\ w' \in [Resources -> Workers]
      BY <1>1, <1>3, <1>5, ZenonT(60) DEF Moved
    <2>2. /\ net' \in [Vpcs -> Nets] /\ group' \in [Groups -> MaybeVpc] /\ croute' \in ClusterRoutes
          /\ inst' \in [Resources -> Insts] /\ faults' \in 0 .. MaxFaults
      BY <1>1, <1>2, Types, ZenonT(60)
    <2> QED
      BY <2>1, <2>2, ZenonT(60) DEF TypeOK, Labels, Workers, Nets, ClusterRoutes, Insts
  <1>8. WorkerInv'
    <2>1. ASSUME NEW q \in Resources
          PROVE  /\ w'[q].pc = "idle" => w'[q] = Idle
                 /\ w'[q].pc # "idle" => cr'[q] \in {"held", "deleting"}
                 /\ w'[q].pc \in DeleteSteps => cr'[q] = "deleting"
                 /\ w'[q].pc \in WithVpc => w'[q].vpc \in Vpcs
                 /\ w'[q].last => w'[q].pc \in Answered /\ w[q].last
                 /\ w'[q].pc \in TeardownSteps \cup {"d_net"} => w'[q].last
      <3>1. CASE q = r
        <4>1. "idle" \notin TeardownSteps \cup {"d_net"}
          BY ZenonT(60) DEF TeardownSteps
        <4> QED
          BY <1>5, <1>6, <3>1, <4>1, LabelFacts, ZenonT(60)
      <3>2. CASE q # r
        BY <1>2, <1>4, <1>5, <3>2, ZenonT(60) DEF WorkerInv, Moved
      <3> QED
        BY <3>1, <3>2, ZenonT(60)
    <2>2. \A q, p \in Resources : w'[q].last /\ w'[p].last => q = p
      BY <1>2, <2>1, ZenonT(60) DEF WorkerInv
    <2> QED
      BY <2>1, <2>2, ZenonT(60) DEF WorkerInv
  <1>9. SerialInv'
    <2> SUFFICES ASSUME ~Races
                 PROVE  Solo' /\ OneVpc' /\ Attached' /\ NoneLeft' /\ \A q \in Resources : Allowed(q)'
      BY DEF SerialInv
    <2>1. Solo /\ OneVpc /\ Attached /\ Allowed(r)
      BY <1>2 DEF SerialInv
    <2>2. \A q \in Resources : w'[q].pc = "idle"
      BY <1>1, <1>5, <1>6, <2>1, ZenonT(60) DEF Solo, Moved
    <2>3. OneVpc' /\ Attached'
      BY <1>1, <2>1, ZenonT(60) DEF OneVpc, Attached, Live
    <2>4. NoneLeft'
      <3> SUFFICES ASSUME \A q \in Resources : cr'[q] = "none"
                   PROVE  NoNetwork'
        BY ZenonT(60) DEF NoneLeft
      <3>1. w[r].last
        BY <1>1, <1>4, <2>1, DeleteLabels, ZenonT(60) DEF Allowed
      <3>2. Live = {}
        BY <1>1, <2>1, <3>1, ZenonT(60) DEF Allowed
      <3> QED
        BY <1>1, <2>1, <3>2, ZenonT(60) DEF Attached, NoNetwork, Live
    <2>5. \A q \in Resources : Allowed(q)'
      BY <2>2, LabelFacts, ZenonT(60) DEF Allowed
    <2> QED
      BY <2>2, <2>3, <2>4, <2>5, ZenonT(60) DEF Solo
  <1> QED
    BY <1>7, <1>8, <1>9 DEF IInv
----------------------------------------------------------------------------
(* The environment.                                                        *)

\* The process ends: every worker starts again.
LEMMA AllIdleKeeps ==
  ASSUME IInv, w' = [q \in Resources |-> Idle], UNCHANGED <<cr, group, croute, inst>>,
         faults' \in 0 .. MaxFaults, net' \in [Vpcs -> Nets],
         ~Races => OneVpc' /\ Attached' /\ NoneLeft'
  PROVE  IInv'
  <1>1. TypeOK /\ WorkerInv /\ SerialInv
    BY DEF IInv
  <1>2. \A q \in Resources : w'[q] = Idle /\ w'[q].pc = "idle" /\ ~w'[q].last
    BY IdleFacts, ZenonT(60)
  <1>3. TypeOK'
    <2>1. w' \in [Resources -> Workers]
      BY IdleFacts
    <2>2. /\ cr' \in [Resources -> {"none", "new", "held", "deleting"}]
          /\ group' \in [Groups -> MaybeVpc] /\ croute' \in ClusterRoutes /\ inst' \in [Resources -> Insts]
      BY <1>1, Types, ZenonT(60)
    <2> QED
      BY <2>1, <2>2, ZenonT(60) DEF TypeOK, Labels, Workers, Nets, ClusterRoutes, Insts
  <1>4. "idle" \notin TeardownSteps \cup {"d_net"} \cup DeleteSteps \cup WithVpc \cup Answered
    BY LabelFacts, ZenonT(60) DEF TeardownSteps
  <1>5. WorkerInv'
    BY <1>2, <1>4, ZenonT(60) DEF WorkerInv
  <1>6. Solo' /\ \A q \in Resources : Allowed(q)'
    BY <1>2, <1>4, ZenonT(60) DEF Solo, Allowed
  <1> QED
    BY <1>3, <1>5, <1>6, ZenonT(60) DEF IInv, SerialInv

LEMMA VpcWaitTimesOutKeeps ==
  ASSUME IInv, NEW r \in Resources, VpcWaitTimesOut(r)
  PROVE  IInv'
  <1>1. /\ w[r].pc = "mkvpc" /\ Fault /\ w' = [q \in Resources |-> Idle]
        /\ UNCHANGED <<cr, group, croute, inst>>
    BY DEF VpcWaitTimesOut
  <1>2. PICK v \in Free : net' = net \/ net' = [net EXCEPT ![v] = NewNet]
    BY ZenonT(60) DEF VpcWaitTimesOut
  <1>3. /\ TypeOK /\ net \in [Vpcs -> Nets]
        /\ ~Races => OneVpc /\ Attached /\ Allowed(r)
    BY RunFacts, ZenonT(60)
  <1>4. v \in Vpcs
    BY DEF Free
  <1>5. /\ net' \in [Vpcs -> Nets] /\ \A u \in Vpcs : u # v => net'[u] = net[u]
        /\ net'[v] = net[v] \/ net'[v].up
    BY <1>2, <1>3, <1>4, IdleFacts, ZenonT(60)
  <1>6. ASSUME ~Races PROVE OneVpc' /\ Attached' /\ NoneLeft'
    <2>1. Live = {}
      BY <1>1, <1>3, <1>6, ZenonT(60) DEF Allowed
    <2>2. OneVpc'
      BY <1>5, <2>1, ZenonT(60) DEF OneVpc, Live
    <2>3. \A u \in Vpcs : ~net'[u].up => net'[u] = NoNet
      <3> TAKE u \in Vpcs
      <3>1. net'[u] = net[u] \/ net'[u].up
        BY <1>5, Zenon
      <3>2. ~net[u].up => net[u] = NoNet
        BY <1>3, <1>6, Zenon DEF Attached
      <3> QED
        BY <3>1, <3>2, Zenon
    <2>4. (\A g \in Groups : group[g] = NoVpc) /\ croute.to = NoVpc /\ croute.state = "none"
      BY <1>3, <1>6, <2>1, Zenon DEF Attached
    <2>5. Attached'
      BY <1>1, <2>3, <2>4, Zenon DEF Attached
    <2>6. cr'[r] # "none"
      BY <1>1, ZenonT(60) DEF IInv, WorkerInv
    <2> QED
      BY <2>2, <2>5, <2>6, ZenonT(60) DEF NoneLeft
  <1>7. faults' \in 0 .. MaxFaults
    BY <1>1, <1>3, FaultFacts, ZenonT(60)
  <1> QED
    BY <1>1, <1>5, <1>6, <1>7, AllIdleKeeps, ZenonT(60)

LEMMA CrashKeeps ==
  ASSUME IInv, Crash
  PROVE  IInv'
  <1>1. /\ Fault /\ w' = [q \in Resources |-> Idle] /\ UNCHANGED <<cr, net, group, croute, inst>>
    BY DEF Crash, cloud
  <1>2. TypeOK /\ net \in [Vpcs -> Nets] /\ (~Races => OneVpc /\ Attached /\ NoneLeft)
    BY Types, ZenonT(60) DEF IInv, SerialInv
  <1>3. ~Races => OneVpc' /\ Attached' /\ NoneLeft'
    BY <1>1, <1>2, Zenon DEF OneVpc, Attached, NoneLeft, NoNetwork, Live
  <1>4. faults' \in 0 .. MaxFaults
    BY <1>1, <1>2, FaultFacts, Zenon
  <1> QED
    BY <1>1, <1>2, <1>3, <1>4, AllIdleKeeps, ZenonT(60)

LEMMA CallFailsKeeps ==
  ASSUME IInv, NEW r \in Resources, CallFails(r)
  PROVE  IInv'
  <1>1. /\ w[r].pc # "idle" /\ Fault /\ w' = [w EXCEPT ![r] = Idle]
        /\ UNCHANGED <<cr, net, group, croute, inst>>
    BY DEF CallFails, cloud
  <1>2. faults' \in 0 .. MaxFaults
    BY <1>1, RunFacts, FaultFacts, ZenonT(60)
  <1> QED
    BY <1>1, <1>2, ReturnKeeps, Zenon

LEMMA UserKeeps ==
  ASSUME IInv, NEW r \in Resources, UserCreates(r) \/ UserDeletes(r)
  PROVE  IInv'
  <1>1. /\ UNCHANGED <<w, net, group, croute, inst, faults>>
        /\ \/ cr[r] = "none" /\ cr' = [cr EXCEPT ![r] = "new"]
           \/ cr[r] = "new" /\ Races /\ cr' = [cr EXCEPT ![r] = "none"]
           \/ cr[r] = "held" /\ cr' = [cr EXCEPT ![r] = "deleting"]
    BY DEF UserCreates, UserDeletes, cloud
  <1>2. TypeOK /\ WorkerInv /\ SerialInv
    BY DEF IInv
  <1>3. cr \in [Resources -> {"none", "new", "held", "deleting"}]
    BY <1>2, Types, ZenonT(60)
  <1>4. /\ cr' \in [Resources -> {"none", "new", "held", "deleting"}]
        /\ \A q \in Resources \ {r} : cr'[q] = cr[q]
        /\ \/ cr[r] = "none" /\ cr'[r] = "new"
           \/ cr[r] = "new" /\ Races /\ cr'[r] = "none"
           \/ cr[r] = "held" /\ cr'[r] = "deleting"
    BY <1>1, <1>3, ZenonT(60)
  <1>5. TypeOK'
    <2>1. /\ w' \in [Resources -> Workers]
          /\ net' \in [Vpcs -> Nets] /\ group' \in [Groups -> MaybeVpc] /\ croute' \in ClusterRoutes
          /\ inst' \in [Resources -> Insts] /\ faults' \in 0 .. MaxFaults
      BY <1>1, <1>2, Types, ZenonT(60)
    <2> QED
      BY <1>4, <2>1, ZenonT(60) DEF TypeOK, Labels, Workers, Nets, ClusterRoutes, Insts
  <1>6. WorkerInv'
    <2>1. ASSUME NEW q \in Resources
          PROVE  /\ w'[q].pc # "idle" => cr'[q] \in {"held", "deleting"}
                 /\ w'[q].pc \in DeleteSteps => cr'[q] = "deleting"
      <3>1. CASE q = r
        BY <1>1, <1>2, <1>4, <3>1, LabelFacts, ZenonT(60) DEF WorkerInv
      <3>2. CASE q # r
        BY <1>1, <1>2, <1>4, <3>2, ZenonT(60) DEF WorkerInv
      <3> QED
        BY <3>1, <3>2, ZenonT(60)
    <2> QED
      BY <1>1, <1>2, <2>1, ZenonT(60) DEF WorkerInv
  <1>7. SerialInv'
    <2> SUFFICES ASSUME ~Races
                 PROVE  Solo' /\ OneVpc' /\ Attached' /\ NoneLeft' /\ \A q \in Resources : Allowed(q)'
      BY DEF SerialInv
    <2>1. Solo /\ OneVpc /\ Attached /\ \A q \in Resources : Allowed(q)
      BY <1>2, Zenon DEF SerialInv
    <2>2. Solo' /\ OneVpc' /\ Attached'
      BY <1>1, <2>1, Zenon DEF Solo, OneVpc, Attached, Live
    <2>3. NoneLeft'
      BY <1>4, Zenon DEF NoneLeft
    <2>4. ASSUME NEW q \in Resources PROVE Allowed(q)'
      <3>1. ASSUME w[q].pc \in Answered
            PROVE  IF w[q].last THEN \A p \in Resources \ {q} : cr'[p] \in {"none", "new"}
                   ELSE \E p \in Resources \ {q} : cr'[p] # "none"
        <4>1. IF w[q].last THEN \A p \in Resources \ {q} : cr[p] \in {"none", "new"}
              ELSE \E p \in Resources \ {q} : cr[p] # "none"
          BY <2>1, <3>1, ZenonT(60) DEF Allowed
        <4>2. CASE w[q].last
          BY <1>4, <4>1, <4>2, ZenonT(60)
        <4>3. CASE ~w[q].last
          <5>1. PICK p \in Resources \ {q} : cr[p] # "none"
            BY <4>1, <4>3, ZenonT(60)
          <5>2. cr'[p] # "none"
            BY <1>4, <5>1, ZenonT(60)
          <5> QED
            BY <4>3, <5>2, ZenonT(60)
        <4> QED
          BY <4>2, <4>3, ZenonT(60)
      <3> QED
        BY <1>1, <2>1, <3>1, ZenonT(60) DEF Allowed, Live
    <2> QED
      BY <2>2, <2>3, <2>4, ZenonT(60)
  <1> QED
    BY <1>5, <1>6, <1>7, ZenonT(60) DEF IInv

\* The cloud goes on by itself.
LEMMA CloudKeeps ==
  ASSUME IInv, UNCHANGED <<cr, w, group, croute, faults>>, Live' = Live,
         net' \in [Vpcs -> Nets], inst' \in [Resources -> Insts], ~Races => Attached'
  PROVE  IInv'
  <1>1. TypeOK /\ WorkerInv /\ SerialInv
    BY DEF IInv
  <1>2. TypeOK'
    <2>1. /\ cr' \in [Resources -> {"none", "new", "held", "deleting"}] /\ w' \in [Resources -> Workers]
          /\ group' \in [Groups -> MaybeVpc] /\ croute' \in ClusterRoutes /\ faults' \in 0 .. MaxFaults
      BY <1>1, Types, ZenonT(60)
    <2> QED
      BY <2>1, ZenonT(60) DEF TypeOK, Labels, Workers, Nets, ClusterRoutes, Insts
  <1>3. WorkerInv'
    BY <1>1, ZenonT(60) DEF WorkerInv
  <1>4. SerialInv'
    BY <1>1, ZenonT(60) DEF SerialInv, Solo, OneVpc, NoneLeft, NoNetwork, Allowed
  <1> QED
    BY <1>2, <1>3, <1>4, ZenonT(60) DEF IInv

LEMMA InstanceGoesKeeps ==
  ASSUME IInv, NEW r \in Resources, InstanceGoes(r)
  PROVE  IInv'
  <1>1. inst' = [inst EXCEPT ![r] = NoInst] /\ UNCHANGED <<cr, w, net, group, croute, faults>>
    BY ZenonT(60) DEF InstanceGoes
  <1>2. inst \in [Resources -> Insts] /\ net \in [Vpcs -> Nets] /\ (~Races => Attached)
    BY RunFacts, Zenon
  <1>3. NoInst \in Insts
    BY DEF NoInst, Insts, MaybeVpc
  <1>4. inst' \in [Resources -> Insts]
    BY <1>1, <1>2, <1>3, ZenonT(60)
  <1>5. Live' = Live /\ (~Races => Attached')
    BY <1>1, <1>2, Zenon DEF Attached, Live
  <1> QED
    BY <1>1, <1>2, <1>4, <1>5, CloudKeeps, ZenonT(60)

LEMMA PeeringProgressKeeps ==
  ASSUME IInv, NEW v \in Vpcs, PeeringProgress(v)
  PROVE  IInv'
  <1>1. /\ net[v].peer = "initiating" /\ net' = [net EXCEPT ![v].peer = "pending"]
        /\ UNCHANGED <<cr, w, group, croute, inst, faults>>
    BY Zenon DEF PeeringProgress
  <1>2. inst \in [Resources -> Insts] /\ net \in [Vpcs -> Nets] /\ (~Races => Attached)
    BY Types, Zenon DEF IInv, SerialInv
  <1> DEFINE n == [net[v] EXCEPT !.peer = "pending"]
  <1>3. n \in Nets /\ n.up = net[v].up /\ net' = [net EXCEPT ![v] = n]
    BY <1>1, <1>2, Zenon DEF Nets
  <1> HIDE DEF n
  <1>4. ~Races => v \in Live
    BY <1>1, <1>2, IdleFacts, ZenonT(60) DEF Attached, Live
  <1>5. net' \in [Vpcs -> Nets] /\ Live' = Live /\ (~Races => Attached')
    BY <1>1, <1>3, <1>4, ContentsFacts, Zenon
  <1> QED
    BY <1>1, <1>2, <1>5, CloudKeeps, ZenonT(60)
----------------------------------------------------------------------------
\* There is no CR and no network at first.
LEMMA InitHolds == Init => IInv
  <1> SUFFICES ASSUME Init PROVE IInv
    BY ZenonT(60)
  <1>1. \A r \in Resources : cr[r] = "none" /\ w[r] = Idle /\ w[r].pc = "idle" /\ ~w[r].last
    BY IdleFacts, ZenonT(60) DEF Init
  <1>2. \A v \in Vpcs : net[v] = NoNet /\ ~net[v].up
    BY IdleFacts, ZenonT(60) DEF Init
  <1>3. croute \in ClusterRoutes /\ croute.to = NoVpc /\ croute.state = "none"
    BY DEF Init, ClusterRoutes, MaybeVpc, Routes
  <1>4. TypeOK
    <2>1. /\ cr \in [Resources -> {"none", "new", "held", "deleting"}]
          /\ group \in [Groups -> MaybeVpc] /\ faults \in 0 .. MaxFaults
      BY BoundsAssumption DEF Init, MaybeVpc
    <2>2. w \in [Resources -> Workers] /\ net \in [Vpcs -> Nets]
      BY IdleFacts, ZenonT(60) DEF Init
    <2>3. NoInst \in Insts
      BY DEF NoInst, Insts, MaybeVpc
    <2>4. inst \in [Resources -> Insts]
      BY <2>3, ZenonT(60) DEF Init
    <2> QED
      BY <1>3, <2>1, <2>2, <2>4, Types, ZenonT(60)
  <1>5. "idle" \notin TeardownSteps \cup {"d_net"} \cup DeleteSteps \cup WithVpc \cup Answered
    BY LabelFacts, ZenonT(60) DEF TeardownSteps
  <1>6. WorkerInv
    BY <1>1, <1>5, ZenonT(60) DEF WorkerInv
  <1>7. Live = {}
    BY <1>2, ZenonT(60) DEF Live
  <1>8. \A g \in Groups : group[g] = NoVpc
    BY ZenonT(60) DEF Init
  <1>9. SerialInv
    BY <1>1, <1>2, <1>3, <1>5, <1>7, <1>8, ZenonT(60) DEF SerialInv, Solo, OneVpc, Attached, NoneLeft, NoNetwork, Allowed
  <1> QED
    BY <1>4, <1>6, <1>9, Zenon DEF IInv

\* All steps of a creation.
LEMMA CreateKeeps ==
  ASSUME IInv, NEW r \in Resources, Create(r)
  PROVE  IInv'
  BY GetStandaloneVpcKeeps, CreateVpcKeeps, TagRouteTableKeeps, ListSubnetsKeeps, CreateSubnetKeeps,
     ReconcileSubnetGroupKeeps, CreatePeeringKeeps, AcceptPeeringKeeps, ReconcileSecurityGroupKeeps,
     AuthorizeIngressKeeps, CreateClusterRouteKeeps, CreateRouteKeeps, VpcGoneKeeps, CreateInstanceKeeps, ZenonT(60)
  DEF Create

\* All steps of a deletion.
LEMMA DeleteKeeps ==
  ASSUME IInv, NEW r \in Resources, Delete(r)
  PROVE  IInv'
  BY IsLastResourceKeeps, DeleteInstanceKeeps, GetPeeringKeeps, DeleteSecurityGroupKeeps,
     DeleteClusterRouteKeeps, DeletePeeringKeeps, ListForDeleteKeeps, DeleteSubnetKeeps,
     DeleteSubnetGroupKeeps, DeleteVpcKeeps, RemoveFinalizerKeeps, ZenonT(60)
  DEF Delete

\* Every step keeps the invariant.
LEMMA StepKeeps == IInv /\ [Next]_vars => IInv'
  <1> SUFFICES ASSUME IInv, [Next]_vars PROVE IInv'
    BY Zenon
  <1>1. ASSUME NEW r \in Resources,
               \/ Worker(r) \/ VpcWaitTimesOut(r) \/ CallFails(r)
               \/ UserCreates(r) \/ UserDeletes(r) \/ InstanceGoes(r)
        PROVE  IInv'
    BY <1>1, ReconcileKeeps, CreateKeeps, DeleteKeeps, VpcWaitTimesOutKeeps, CallFailsKeeps, UserKeeps,
       InstanceGoesKeeps, ZenonT(60) DEF Worker
  <1>2. CASE UNCHANGED vars
    <2>1. UNCHANGED <<cr, w, net, group, croute, inst, faults>>
      BY <1>2, Zenon DEF vars
    <2>2. Live' = Live /\ net' \in [Vpcs -> Nets] /\ inst' \in [Resources -> Insts] /\ (~Races => Attached')
      BY <2>1, Types, Zenon DEF Live, IInv, SerialInv, Attached
    <2> QED
      BY <2>1, <2>2, CloudKeeps, Zenon
  <1> QED
    BY <1>1, <1>2, PeeringProgressKeeps, CrashKeeps, Zenon DEF Next

\* The inductive invariant holds throughout.
THEOREM Invariance == Spec => []IInv
  BY InitHolds, StepKeeps, PTL DEF Spec

\* TeardownIsExclusive, however reconciles overlap: IsLastResource
\* (provider.go:72-90) says yes to one worker at a time, because a CR that is
\* being deleted still counts until its finalizer has gone.
THEOREM TeardownAlwaysExclusive == Spec => []TeardownIsExclusive
  <1>1. IInv => TeardownIsExclusive
    BY DEF IInv, WorkerInv, TeardownIsExclusive
  <1> QED
    BY <1>1, Invariance, PTL

\* AtMostOneVpc when one reconcile runs at a time: CreateNetwork's check that
\* there is no VPC (cluster_network_provider.go:153-166) holds until the VPC
\* has been made, and after any failed call or crash the next reconcile finds it.
THEOREM SerialOneVpc == ~Races => (Spec => []AtMostOneVpc)
  <1>1. ~Races /\ IInv => AtMostOneVpc
    <2> SUFFICES ASSUME ~Races, IInv PROVE AtMostOneVpc
      OBVIOUS
    <2>1. TypeOK /\ OneVpc
      BY DEF IInv, SerialInv
    <2>2. CASE Live = {}
      BY <2>1, <2>2, FS_EmptySet DEF AtMostOneVpc
    <2>3. CASE Live # {}
      <3>1. PICK v \in Live : TRUE
        BY <2>3, Zenon
      <3>2. Live = {v}
        BY <2>1, <3>1, Zenon DEF OneVpc
      <3>3. Cardinality(Live) = 1
        BY <3>2, FS_Singleton, ZenonT(60)
      <3> QED
        BY <2>1, <3>3 DEF AtMostOneVpc
    <2> QED
      BY <2>2, <2>3, Zenon
  <1>2. CASE ~Races
    <2>1. IInv => AtMostOneVpc
      BY <1>1, <1>2, Zenon
    <2> QED
      BY <2>1, Invariance, PTL
  <1> QED
    BY <1>2

\* NetworkGoesWithLastCR when one reconcile runs at a time: the deletion of the
\* last CR removes its finalizer only after VPC, subnet groups and the cluster's
\* route have gone (provider_postgres.go:604-634).
THEOREM SerialNetworkGoes == ~Races => (Spec => []NetworkGoesWithLastCR)
  <1>1. ~Races /\ IInv => NetworkGoesWithLastCR
    BY Zenon DEF IInv, SerialInv, NoneLeft, NoNetwork, NetworkGoesWithLastCR
  <1>2. CASE ~Races
    <2>1. IInv => NetworkGoesWithLastCR
      BY <1>1, <1>2
    <2> QED
      BY <2>1, Invariance, PTL
  <1> QED
    BY <1>2
----------------------------------------------------------------------------
(* NeverCutOff: what a step may do to a reachable instance.                *)

\* The VPC of a reachable instance is there, with all that leads to it.
LEMMA ReachFacts ==
  ASSUME IInv, ~Races, NEW r \in Resources, Reachable(r)
  PROVE  /\ inst[r].at \in Vpcs /\ inst[r].at \in Secured /\ inst[r].at \in Live
         /\ net[inst[r].at].sg = "open" /\ net[inst[r].at].peer = "active"
         /\ net[inst[r].at].route = "live"
         /\ croute = [to |-> inst[r].at, state |-> "live"] /\ croute.state = "live"
         /\ inst[r] # NoInst /\ ~inst[r].going
  <1>1. /\ inst \in [Resources -> Insts] /\ net \in [Vpcs -> Nets] /\ Attached
    BY RunFacts, Zenon
  <1>2. inst[r].at \in Vpcs
    BY <1>1, Zenon DEF Reachable, Insts, MaybeVpc
  <1>3. net[inst[r].at].up
    BY <1>1, <1>2, IdleFacts, Zenon DEF Reachable, Attached
  <1>4. inst[r] # NoInst
    BY SMTT(60) DEF Reachable, NoInst
  <1> QED
    BY <1>2, <1>3, <1>4, Zenon DEF Reachable, Live, Secured

\* A step that changes one VPC, and there nothing that leads to the instance.
LEMMA ContentsReach ==
  ASSUME IInv, ~Races, NEW r \in Resources, Reachable(r), NEW u \in Vpcs, NEW n \in Nets,
         net' = [net EXCEPT ![u] = n], inst'[r] = inst[r], croute' = croute,
         u = inst[r].at => n.sg = "open" /\ n.peer = "active" /\ n.route = "live"
  PROVE  Reachable(r)'
  <1>1. net \in [Vpcs -> Nets] /\ inst[r].at \in Vpcs
    BY RunFacts, ReachFacts, Zenon
  <1>2. /\ net'[inst[r].at].sg = "open" /\ net'[inst[r].at].peer = "active"
        /\ net'[inst[r].at].route = "live"
    BY <1>1, ReachFacts, Zenon
  <1> QED
    BY <1>2, Zenon DEF Reachable

\* A step that leaves the network alone.
LEMMA SameReach ==
  ASSUME NEW r \in Resources, Reachable(r), inst'[r] = inst[r], UNCHANGED <<net, croute>>
  PROVE  Reachable(r)'
  BY Zenon DEF Reachable

\* While r has a live CR nobody takes the network down.
LEMMA NoTeardown ==
  ASSUME IInv, ~Races, NEW r \in Resources, cr[r] = "held", NEW q \in Resources
  PROVE  w[q].pc \notin TeardownSteps \cup {"d_net"} /\ (w[q].pc = "d_inst" => q # r)
  <1>1. WorkerInv /\ Allowed(q)
    BY DEF IInv, SerialInv
  <1>2. "d_inst" \in DeleteSteps /\ TeardownSteps \cup {"d_net"} \subseteq Answered
        /\ Answered \subseteq DeleteSteps
    BY LabelFacts, Zenon DEF DeleteSteps
  <1> SUFFICES ASSUME w[q].pc \in TeardownSteps \cup {"d_net"} PROVE FALSE
    BY <1>1, <1>2, Zenon DEF WorkerInv
  <1>3. w[q].last /\ cr[q] = "deleting" /\ w[q].pc \in Answered
    BY <1>1, <1>2, Zenon DEF WorkerInv
  <1>4. \A p \in Resources \ {q} : cr[p] \in {"none", "new"}
    BY <1>1, <1>3, Zenon DEF Allowed
  <1> QED
    BY <1>3, <1>4, Zenon

\* A creation adds to the network and takes nothing from it.
LEMMA CreateReach ==
  ASSUME IInv, ~Races, NEW r \in Resources, Reachable(r), NEW q \in Resources, Create(q)
  PROVE  Reachable(r)'
  <1>1. /\ net \in [Vpcs -> Nets] /\ inst \in [Resources -> Insts]
        /\ w[q].pc \in WithVpc => w[q].vpc \in Vpcs
    BY RunFacts, Zenon
  <1> DEFINE v == inst[r].at
  <1>2. /\ v \in Vpcs /\ v \in Secured /\ v \in Live
        /\ net[v].sg = "open" /\ net[v].peer = "active" /\ net[v].route = "live"
        /\ croute.state # "none" /\ inst[r] # NoInst
    BY ReachFacts, Zenon
  <1>3. ASSUME w[q].pc \in WithVpc, NEW n \in Nets, InVpc(q, n), UNCHANGED <<croute, inst>>,
               Mine(q).sg = "open" => n.sg = "open",
               Mine(q).peer = "active" => n.peer = "active",
               Mine(q).route = "live" => n.route = "live"
        PROVE  Reachable(r)'
    <2>1. w[q].vpc \in Vpcs /\ net' = [net EXCEPT ![w[q].vpc] = n]
      BY <1>1, <1>3, Zenon DEF InVpc
    <2>2. w[q].vpc = v => n.sg = "open" /\ n.peer = "active" /\ n.route = "live"
      BY <1>2, <1>3, Zenon DEF Mine
    <2> QED
      BY <1>3, <2>1, <2>2, ContentsReach, Zenon
  <1>4. w[q].pc \in WithVpc => Mine(q) \in Nets
    BY <1>1, Zenon DEF Mine
  <1>5. CASE GetStandaloneVpc(q) \/ ListSubnets(q) \/ VpcGone(q)
    <2>1. UNCHANGED <<net, croute, inst>>
      BY <1>5, Zenon DEF GetStandaloneVpc, ListSubnets, VpcGone, cloud
    <2> QED
      BY <2>1, SameReach, Zenon
  <1>6. CASE CreateVpc(q)
    <2>1. UNCHANGED <<croute, inst>> /\ (UNCHANGED net \/ \E u \in Free : net' = [net EXCEPT ![u] = NewNet])
      BY <1>6, Zenon DEF CreateVpc
    <2>2. \A u \in Free : u \in Vpcs /\ u # v
      BY <1>2, Zenon DEF Free
    <2>3. CASE UNCHANGED net
      BY <2>1, <2>3, SameReach, Zenon
    <2>4. ASSUME NEW u \in Free, net' = [net EXCEPT ![u] = NewNet] PROVE Reachable(r)'
      <3>1. u \in Vpcs /\ u # inst[r].at /\ NewNet \in Nets
        BY <2>2, IdleFacts, Zenon
      <3> QED
        BY <2>1, <2>4, <3>1, ContentsReach, Zenon
    <2> QED
      BY <2>1, <2>3, <2>4, Zenon
  <1>7. CASE TagRouteTable(q)
    <2> DEFINE n == [Mine(q) EXCEPT !.tagged = TRUE]
    <2>1. w[q].pc \in WithVpc /\ InVpc(q, n) /\ UNCHANGED <<croute, inst>>
      BY <1>7, CreateLabels, Zenon DEF TagRouteTable
    <2>2. n \in Nets /\ n.sg = Mine(q).sg /\ n.peer = Mine(q).peer /\ n.route = Mine(q).route
      BY <1>4, <2>1, Zenon DEF Nets
    <2> HIDE DEF n
    <2> QED
      BY <1>3, <2>1, <2>2, Zenon
  <1>8. CASE CreateSubnet(q)
    <2>1. w[q].pc \in WithVpc /\ UNCHANGED <<croute, inst>>
      BY <1>8, CreateLabels, Zenon DEF CreateSubnet
    <2>2. CASE UNCHANGED net
      BY <2>1, <2>2, SameReach, Zenon
    <2>3. ASSUME NEW h \in Halves, InVpc(q, [Mine(q) EXCEPT !.subs = @ \cup {h}])
          PROVE  Reachable(r)'
      <3> DEFINE n == [Mine(q) EXCEPT !.subs = @ \cup {h}]
      <3>1. n \in Nets /\ n.sg = Mine(q).sg /\ n.peer = Mine(q).peer /\ n.route = Mine(q).route
        BY <1>4, <2>1, Zenon DEF Nets
      <3>2. InVpc(q, n)
        BY <2>3, Zenon
      <3> HIDE DEF n
      <3> QED
        BY <1>3, <2>1, <3>1, <3>2, ZenonT(60)
    <2> QED
      BY <1>8, <2>2, <2>3, ZenonT(60) DEF CreateSubnet
  <1>9. CASE \E g \in Groups : ReconcileSubnetGroup(q, g)
    <2>1. UNCHANGED <<net, croute, inst>>
      BY <1>9, Zenon DEF ReconcileSubnetGroup
    <2> QED
      BY <2>1, SameReach
  <1>10. CASE CreatePeering(q)
    <2>1. w[q].pc \in WithVpc /\ UNCHANGED <<croute, inst>>
      BY <1>10, CreateLabels, Zenon DEF CreatePeering
    <2>2. PICK s \in IF Mine(q).peer = "none" THEN {"initiating", "pending"} ELSE {Mine(q).peer} :
                 InVpc(q, [Mine(q) EXCEPT !.peer = s])
      BY <1>10, Zenon DEF CreatePeering
    <2>3. Mine(q) \in Nets /\ Mine(q).peer \in {"none", "initiating", "pending", "active"}
      BY <1>4, <2>1, Zenon DEF Nets
    <2>4. s \in {"none", "initiating", "pending", "active"} /\ (Mine(q).peer = "active" => s = "active")
      BY <2>2, <2>3, Zenon
    <2> DEFINE n == [Mine(q) EXCEPT !.peer = s]
    <2>5. n \in Nets /\ n.sg = Mine(q).sg /\ n.peer = s /\ n.route = Mine(q).route
      BY <2>3, <2>4, Zenon DEF Nets
    <2>6. InVpc(q, n)
      BY <2>2, Zenon
    <2> HIDE DEF n
    <2> QED
      BY <1>3, <2>1, <2>4, <2>5, <2>6, ZenonT(60)
  <1>11. CASE AcceptPeering(q)
    <2> DEFINE n == [Mine(q) EXCEPT !.peer = "active"]
    <2>1. /\ w[q].pc \in WithVpc /\ UNCHANGED <<croute, inst>>
          /\ InVpc(q, n) \/ UNCHANGED net
      BY <1>11, CreateLabels, Zenon DEF AcceptPeering
    <2>2. n \in Nets /\ n.sg = Mine(q).sg /\ n.peer = "active" /\ n.route = Mine(q).route
      BY <1>4, <2>1, Zenon DEF Nets
    <2> HIDE DEF n
    <2> QED
      BY <1>3, <2>1, <2>2, SameReach, Zenon
  <1>12. CASE ReconcileSecurityGroup(q)
    <2>1. UNCHANGED <<net, croute, inst>>
      BY <1>2, <1>12, Zenon DEF ReconcileSecurityGroup
    <2> QED
      BY <2>1, SameReach
  <1>13. CASE AuthorizeIngress(q)
    <2>1. /\ UNCHANGED <<croute, inst>>
          /\ UNCHANGED net \/ \E u \in Secured : net' = [net EXCEPT ![u].sg = "open"]
      BY <1>13, Zenon DEF AuthorizeIngress
    <2>2. CASE UNCHANGED net
      BY <2>1, <2>2, SameReach, Zenon
    <2>3. ASSUME NEW u \in Secured, net' = [net EXCEPT ![u].sg = "open"] PROVE Reachable(r)'
      <3> DEFINE n == [net[u] EXCEPT !.sg = "open"]
      <3>1. u \in Vpcs
        BY DEF Secured, Live
      <3>2. /\ n \in Nets /\ n.sg = "open" /\ n.peer = net[u].peer /\ n.route = net[u].route
            /\ net' = [net EXCEPT ![u] = n]
        BY <1>1, <2>3, <3>1 DEF Nets
      <3> HIDE DEF n
      <3>3. u = inst[r].at => n.sg = "open" /\ n.peer = "active" /\ n.route = "live"
        BY <1>2, <3>2, Zenon
      <3> QED
        BY <2>1, <3>1, <3>2, <3>3, ContentsReach, Zenon
    <2> QED
      BY <2>1, <2>2, <2>3, Zenon
  <1>14. CASE CreateClusterRoute(q)
    <2>1. UNCHANGED <<net, inst>> /\ croute' = croute
      BY <1>2, <1>14, Zenon DEF CreateClusterRoute
    <2> QED
      BY <2>1, SameReach, Zenon
  <1>15. CASE CreateRoute(q)
    <2> DEFINE n == [Mine(q) EXCEPT !.route = "live"]
    <2>1. /\ w[q].pc \in WithVpc /\ UNCHANGED <<croute, inst>>
          /\ InVpc(q, n) \/ UNCHANGED net
      BY <1>15, CreateLabels, Zenon DEF CreateRoute
    <2>2. n \in Nets /\ n.sg = Mine(q).sg /\ n.peer = Mine(q).peer /\ n.route = "live"
      BY <1>4, <2>1, Zenon DEF Nets, Routes
    <2> HIDE DEF n
    <2> QED
      BY <1>3, <2>1, <2>2, SameReach, Zenon
  <1>16. CASE CreateInstance(q)
    <2>1. UNCHANGED <<net, croute>>
      BY <1>16, Zenon DEF CreateInstance
    <2>2. inst'[r] = inst[r]
      <3>1. CASE q = r
        BY <1>2, <1>16, <3>1, Zenon DEF CreateInstance
      <3>2. CASE q # r
        BY <1>1, <1>16, <3>2, ZenonT(60) DEF CreateInstance
      <3> QED
        BY <3>1, <3>2, Zenon
    <2> QED
      BY <2>1, <2>2, SameReach, Zenon
  <1> QED
    BY <1>5, <1>6, <1>7, <1>8, <1>9, <1>10, <1>11, <1>12, <1>13, <1>14, <1>15, <1>16, ZenonT(60) DEF Create

\* A deletion takes the network down only when no other CR is held.
LEMMA DeleteReach ==
  ASSUME IInv, ~Races, NEW r \in Resources, Reachable(r), cr[r] = "held",
         NEW q \in Resources, Delete(q)
  PROVE  Reachable(r)'
  <1>1. w[q].pc \notin TeardownSteps \cup {"d_net"} /\ (w[q].pc = "d_inst" => q # r)
    BY NoTeardown, Zenon
  <1>2. IsLastResource(q) \/ DeleteInstance(q) \/ RemoveFinalizer(q)
    BY <1>1, Zenon DEF Delete, GetPeering, DeleteSecurityGroup, DeleteClusterRoute, DeletePeering, ListForDelete,
                DeleteSubnet, DeleteSubnetGroup, DeleteVpc, TeardownSteps
  <1>3. CASE IsLastResource(q) \/ RemoveFinalizer(q)
    <2>1. UNCHANGED <<net, croute, inst>>
      BY <1>3, Zenon DEF IsLastResource, RemoveFinalizer, cloud
    <2> QED
      BY <2>1, SameReach, Zenon
  <1>4. CASE DeleteInstance(q)
    <2>1. UNCHANGED <<net, croute>> /\ q # r
          /\ (inst' = [inst EXCEPT ![q].going = TRUE] \/ UNCHANGED inst)
      BY <1>1, <1>4, Zenon DEF DeleteInstance
    <2>2. inst \in [Resources -> Insts]
      BY RunFacts, Zenon
    <2>3. inst'[r] = inst[r]
      BY <2>1, <2>2, Zenon
    <2> QED
      BY <2>1, <2>3, SameReach, Zenon
  <1> QED
    BY <1>2, <1>3, <1>4, Zenon

\* NeverCutOff when one reconcile runs at a time: a reconcile of any CR leaves
\* the peering, the routes and the rules it finds in place, and nobody takes
\* them down while a CR is live (isLastResource, provider_postgres.go:605).
THEOREM SerialNeverCutOff == ~Races => (Spec => NeverCutOff)
  <1> DEFINE A == \A r \in Resources :
                    Reachable(r) /\ cr[r] = "held" /\ cr'[r] = "held" => Reachable(r)'
  <1>1. ASSUME ~Races, IInv, [Next]_vars PROVE [A]_vars
    <2> SUFFICES ASSUME NEW r \in Resources, Reachable(r), cr[r] = "held", Next
                 PROVE  Reachable(r)'
      BY <1>1, Zenon
    <2>1. /\ net \in [Vpcs -> Nets] /\ inst \in [Resources -> Insts]
      BY <1>1, RunFacts, ZenonT(60)
    <2>2. /\ inst[r].at \in Vpcs /\ inst[r].at \in Live /\ ~inst[r].going
          /\ net[inst[r].at].peer = "active"
      BY <1>1, ReachFacts, Zenon
    <2>3. ASSUME NEW q \in Resources, Reconcile(q) \/ CallFails(q) \/ UserCreates(q) \/ UserDeletes(q)
          PROVE  Reachable(r)'
      <3>1. UNCHANGED <<net, croute, inst>>
        BY <2>3, Zenon DEF Reconcile, CallFails, UserCreates, UserDeletes, cloud
      <3> QED
        BY <3>1, SameReach, Zenon
    <2>4. ASSUME NEW q \in Resources, VpcWaitTimesOut(q) PROVE Reachable(r)'
      <3>1. UNCHANGED <<croute, inst>>
            /\ \E u \in Free : net' = net \/ net' = [net EXCEPT ![u] = NewNet]
        BY <2>4, Zenon DEF VpcWaitTimesOut
      <3>2. PICK u \in Free : net' = net \/ net' = [net EXCEPT ![u] = NewNet]
        BY <3>1, Zenon
      <3>3. u \in Vpcs /\ u # inst[r].at /\ NewNet \in Nets
        BY <2>2, IdleFacts, Zenon DEF Free
      <3>4. CASE net' = net
        BY <3>1, <3>4, SameReach, Zenon
      <3>5. CASE net' = [net EXCEPT ![u] = NewNet]
        BY <1>1, <3>1, <3>3, <3>5, ContentsReach, Zenon
      <3> QED
        BY <3>2, <3>4, <3>5, Zenon
    <2>5. ASSUME NEW q \in Resources, InstanceGoes(q) PROVE Reachable(r)'
      <3>1. q # r /\ inst' = [inst EXCEPT ![q] = NoInst] /\ UNCHANGED <<net, croute>>
        BY <2>2, <2>5, Zenon DEF InstanceGoes
      <3>2. inst'[r] = inst[r]
        BY <2>1, <3>1, Zenon
      <3> QED
        BY <3>1, <3>2, SameReach, Zenon
    <2>6. ASSUME NEW u \in Vpcs, PeeringProgress(u) PROVE Reachable(r)'
      <3> DEFINE n == [net[u] EXCEPT !.peer = "pending"]
      <3>1. n \in Nets /\ net' = [net EXCEPT ![u] = n] /\ UNCHANGED <<croute, inst>>
        BY <2>1, <2>6, Zenon DEF PeeringProgress, Nets
      <3>2. u # inst[r].at
        BY <2>2, <2>6, Zenon DEF PeeringProgress
      <3> HIDE DEF n
      <3> QED
        BY <1>1, <3>1, <3>2, ContentsReach, Zenon
    <2>7. CASE Crash
      <3>1. UNCHANGED <<net, croute, inst>>
        BY <2>7 DEF Crash, cloud
      <3> QED
        BY <3>1, SameReach, Zenon
    <2> QED
      BY <1>1, <2>3, <2>4, <2>5, <2>6, <2>7, CreateReach, DeleteReach, ZenonT(60) DEF Next, Worker
  <1>2. CASE ~Races
    <2>1. IInv /\ [Next]_vars => [A]_vars
      BY <1>1, <1>2
    <2> QED
      BY <2>1, Invariance, PTL DEF Spec, NeverCutOff
  <1> QED
    BY <1>2, Zenon
==============================================================================
