--------------------------- MODULE SnapshotsProofs ---------------------------
(***************************************************************************)
(* The snapshot controllers for any number of snapshot CRs: a snapshot     *)
(* does not outlive its CR, a CR that is complete has a snapshot, and the  *)
(* schedule never expires the last export.  The model checker looks at two *)
(* CRs; the schedule keeps the latest of any number.                       *)
(***************************************************************************)
EXTENDS Snapshots, FiniteSetTheorems, WellFoundedInduction, TLAPS

\* The calls after the finalizer, and those after the snapshot's name, is known
\* to be stored; those that have seen the snapshot; those after the deletion
\* of the object; and those that rest on nothing.
Held == CreateSteps \ {"finalizer"}
Named == Held \ {"id"}
Seen == {"skip", "protect", "others", "clear", "complete"}
Emptied == {"d_list", "d_bucket", "d_fin"}
Loose == {"idle", "pin", "finalizer", "progress", "failed", "delprog"}

Lost == "snapshot lost" \in history
Twice == "exported twice" \in history
Disturbed == "schedule disturbed" \in history

\* A CR that is being deleted has the finalizer, and CRs are created one after
\* another, never twice.
CRInv ==
  /\ \A s \in Snaps : cr[s].life = "deleting" => cr[s].fin
  /\ \A s \in Snaps : cr[s].life = "none" => cr[s] = NoSnap /\ s \notin old
  /\ \E n \in Nat : Created = 1 .. n
  /\ kind = "cloudsql" => ~Lost /\ \A s \in Snaps : img[s] \in {"absent", "available"}
  /\ kind # "cloudsql" => exp = None

\* There is something of a snapshot, or will be when the export ends.
Leaves(s) == img[s] # "absent" \/ exp = s

\* A stored CR knows of its snapshot; one that is gone has told to leave it.
Kept(s) == IF Stored(s) THEN cr[s].fin /\ cr[s].id ELSE cr[s].life = "gone" /\ cr[s].skip

ImageInv ==
  ~Twice => /\ \A s \in Snaps : Leaves(s) => Kept(s)
            /\ exp # None => img[exp] = "absent"

\* For each snapshot that the schedule deletes there is a newer complete one.
Newer(s) == \E t \in Snaps : t > s /\ cr[t].life = "live" /\ cr[t].complete

ScheduleInv ==
  kind = "cloudsql" /\ ~Disturbed =>
    /\ \A s \in old : cr[s].life = "live" => cr[s].complete
    /\ \A s \in Snaps : cr[s].life = "deleting" \/ s \in sch.list => Newer(s)

\* What the worker relies on at each of its calls: a current copy is one of a
\* stored CR; past CreateFinalizer, and during its deletion, the CR cannot go;
\* and what was seen of the snapshot is still so.
Allowed(v) ==
  /\ v.pc # "idle" => v.s \in Snaps
  /\ v.fresh => v.s \in Snaps /\ Stored(v.s)
  /\ v.pc \in Held => Stored(v.s) /\ cr[v.s].fin
  /\ v.pc \in Named => cr[v.s].id
  /\ v.pc \in DeleteSteps => cr[v.s].life = "deleting"
  /\ ~Twice /\ v.pc \in Emptied => ~Leaves(v.s) \/ (v.pc = "d_fin" /\ cr[v.s].skip)
  /\ ~Lost /\ (v.pc \in Seen \/ (v.pc = "group" /\ v.seen = "available")) =>
       img[v.s] = "available"

IInv ==
  TypeOK /\ CRInv /\ ImageInv /\ CompleteIsUsable /\ ScheduleInv /\ Allowed(w)
----------------------------------------------------------------------------
CRs ==
  [life : {"none", "live", "deleting", "gone"}, fin : BOOLEAN, pinned : BOOLEAN,
   id : BOOLEAN, skip : BOOLEAN, complete : BOOLEAN]
Workers ==
  [pc : Steps, s : Snaps \cup {None}, fresh : BOOLEAN, par : Parents, seen : Images,
   latest : Snaps \cup {None}, clear : BOOLEAN, todo : SUBSET Snaps]

\* The names of snapshots are numbers, and there is a largest one.
LEMMA SnapsFacts ==
  Snaps \subseteq Nat /\ None \notin Snaps /\ \E m \in Nat : \A s \in Snaps : s <= m
  BY MaxAssumption DEF Snaps, None

\* The order of creation.
LEMMA Order ==
  /\ \A a, b \in Snaps : a > b => a # b
  /\ \A a, b, c \in Snaps : a > b /\ b > c => a > c
  /\ \A a, b \in Snaps : a <= b /\ a # b => b > a
  BY MaxAssumption DEF Snaps

\* How the sets of labels lie in each other.
LEMMA Labels ==
  /\ CreateSteps \subseteq Steps /\ DeleteSteps \subseteq Steps /\ StatusSteps \subseteq Steps
  /\ Loose \subseteq Steps /\ "idle" \in Steps /\ "idle" \in Loose
  /\ Loose \cap (Held \cup Named \cup DeleteSteps \cup Emptied \cup Seen \cup {"group"}) = {}
  /\ Named \subseteq Held /\ Held \subseteq CreateSteps /\ Emptied \subseteq DeleteSteps
  BY DEF Steps, CreateSteps, DeleteSteps, StatusSteps, Loose, Held, Named, Emptied, Seen

\* A jump keeps the CR, a return forgets it.
LEMMA AfterFacts ==
  ASSUME TypeOK, NEW l \in Steps, NEW f \in BOOLEAN
  PROVE  /\ After(l, f) \in Workers /\ After(l, f).pc = l
         /\ l = "idle" => ~After(l, f).fresh
         /\ l # "idle" => After(l, f).s = w.s /\ After(l, f).fresh = f
  <1>1. w \in Workers
    BY DEF TypeOK, Workers
  <1>2. Idle \in Workers /\ Idle.pc = "idle" /\ ~Idle.fresh
    BY DEF Idle, Workers, Steps, Images, Parents
  <1>3. CASE l = "idle"
    <2>1. l \notin StatusSteps
      BY <1>3 DEF StatusSteps
    <2>2. After(l, f) = Idle
      BY <1>3, <2>1, Zenon DEF After
    <2> QED
      BY <1>2, <1>3, <2>2
  <1>4. CASE l # "idle" /\ l \in StatusSteps
    <2>1. After(l, f) = [Idle EXCEPT !.pc = l, !.s = w.s, !.fresh = f]
      BY <1>4, Zenon DEF After
    <2> QED
      BY <1>1, <1>4, <2>1, ZenonT(60) DEF Workers, Idle, Images, Parents
  <1>5. CASE l # "idle" /\ l \notin StatusSteps
    <2>1. After(l, f) = [w EXCEPT !.pc = l, !.fresh = f]
      BY <1>5, Zenon DEF After
    <2> QED
      BY <1>1, <1>5, <2>1, Zenon DEF Workers
  <1> QED
    BY <1>3, <1>4, <1>5

\* The labels that rest on nothing are allowed after every call.
LEMMA LooseAllowed ==
  ASSUME IInv, w.pc # "idle", NEW l \in Loose, NEW f \in BOOLEAN, f => w.fresh
  PROVE  After(l, f) \in Workers /\ Allowed(After(l, f))
  <1>1. TypeOK /\ Allowed(w)
    BY DEF IInv
  <1>2. l \in Steps
    BY Labels
  <1> DEFINE v == After(l, f)
  <1>3. v \in Workers /\ v.pc = l /\ (l = "idle" => ~v.fresh) /\ (l # "idle" => v.s = w.s /\ v.fresh = f)
    BY <1>1, <1>2, AfterFacts
  <1> HIDE DEF v
  <1>4. Allowed(v)
    BY <1>1, <1>3, Labels DEF Allowed
  <1> QED
    BY <1>3, <1>4 DEF v

\* Nothing is asked of the worker after an error.
LEMMA OnErrorLoose ==
  ASSUME NEW l \in Steps
  PROVE  OnError(l) \in Loose
  BY DEF OnError, Loose
----------------------------------------------------------------------------
(* Steps by what they change.                                              *)

\* A step of the worker that changes nothing else but the bucket.
LEMMA MoveKeeps ==
  ASSUME IInv, w' \in Workers, Allowed(w'), bucket' \in BOOLEAN,
         UNCHANGED <<cr, img, exp, rest>>
  PROVE  IInv'
  <1>1. UNCHANGED <<cr, img, exp, kind, parent, sch, old, history, calm>>
    BY DEF rest, schedule
  <1>2. TypeOK'
    BY <1>1 DEF IInv, TypeOK, Workers
  <1>3. CRInv'
    BY <1>1 DEF IInv, CRInv, Created, Lost
  <1>4. ImageInv' /\ CompleteIsUsable'
    BY <1>1 DEF IInv, ImageInv, CompleteIsUsable, Leaves, Kept, Stored, Twice
  <1>5. ScheduleInv'
    BY <1>1 DEF IInv, ScheduleInv, Newer, Disturbed
  <1>6. Allowed(w)'
    BY <1>1 DEF Allowed, Stored, Leaves, Lost, Twice
  <1> QED
    BY <1>2, <1>3, <1>4, <1>5, <1>6 DEF IInv

\* A worker that goes where nothing is asked of it.
LEMMA LooseKeeps ==
  ASSUME IInv, w.pc # "idle", NEW l \in Loose, Branch(l)
  PROVE  IInv'
  <1>1. /\ w.fresh \in BOOLEAN /\ w' = After(l, w.fresh)
        /\ UNCHANGED <<cr, img, exp, rest>> /\ bucket' \in BOOLEAN
    BY DEF IInv, TypeOK, Branch, Goto, cloud
  <1> QED
    BY <1>1, LooseAllowed, MoveKeeps

\* An Update of a stored CR that keeps its finalizer and its snapshot's name.
\* When a complete CR that is not deleted stops being so, the schedule is
\* disturbed.
LEMMA UpdateKeeps ==
  ASSUME IInv, NEW s \in Snaps, Stored(s), NEW new \in CRs, cr' = [cr EXCEPT ![s] = new],
         new.life = cr[s].life, cr[s].fin => new.fin, cr[s].id => new.id,
         new.complete => cr[s].complete \/ Lost \/ img[s] = "available",
         history' \in {history, history \cup {"schedule disturbed"}},
         kind = "cloudsql" /\ new.life = "live" /\ cr[s].complete /\ ~new.complete =>
           "schedule disturbed" \in history',
         UNCHANGED <<img, bucket, exp, kind, parent, sch, old, calm>>,
         w' \in Workers, Allowed(w)'
  PROVE  IInv'
  <1>1. TypeOK /\ CRInv /\ ImageInv /\ CompleteIsUsable /\ ScheduleInv
    BY DEF IInv
  <1>2. cr \in [Snaps -> CRs] /\ cr' \in [Snaps -> CRs]
    BY <1>1 DEF TypeOK, CRs
  <1>3. /\ cr'[s] = new
        /\ \A t \in Snaps : cr'[t].life = cr[t].life /\ (t # s => cr'[t] = cr[t])
    BY <1>2
  <1>4. (Lost' <=> Lost) /\ (Twice' <=> Twice) /\ (Disturbed => Disturbed')
    BY DEF Lost, Twice, Disturbed
  <1>5. TypeOK'
    BY <1>1, <1>2 DEF TypeOK, CRs, Workers, Oddities
  <1>6. CRInv'
    <2>1. Created' = Created
      BY <1>3 DEF Created
    <2> QED
      BY <1>1, <1>3, <1>4, <2>1 DEF CRInv, Stored
  <1>7. ImageInv'
    BY <1>1, <1>2, <1>3, <1>4 DEF ImageInv, Leaves, Kept, Stored
  <1>8. CompleteIsUsable'
    BY <1>1, <1>3, <1>4, ZenonT(60) DEF CompleteIsUsable, Lost
  <1>9. ScheduleInv'
    <2> SUFFICES ASSUME kind = "cloudsql", ~Disturbed'
                 PROVE  /\ \A t \in old : cr'[t].life = "live" => cr'[t].complete
                        /\ \A t \in Snaps : cr'[t].life = "deleting" \/ t \in sch.list => Newer(t)'
      BY DEF ScheduleInv
    <2>1. \A t \in Snaps : cr[t].life = "live" /\ cr[t].complete => cr'[t].complete
      BY <1>3, ZenonT(60) DEF Disturbed
    <2>2. \A t \in Snaps : Newer(t) => Newer(t)'
      BY <1>3, <2>1 DEF Newer
    <2>3. old \subseteq Snaps
      BY <1>1 DEF TypeOK
    <2> QED
      BY <1>1, <1>3, <1>4, <2>1, <2>2, <2>3 DEF ScheduleInv
  <1> QED
    BY <1>5, <1>6, <1>7, <1>8, <1>9 DEF IInv

\* A deletion marks a CR with the finalizer and drops one without; the
\* schedule deletes only what has a newer one.
LEMMA DeleteKeeps ==
  ASSUME IInv, NEW s \in Snaps, Stored(s), Delete(s), Outdates(s),
         history' \in {history, history \cup {"schedule disturbed"}},
         sch' \in [busy : BOOLEAN, list : SUBSET Snaps], sch'.list \subseteq sch.list,
         kind = "cloudsql" /\ "schedule disturbed" \notin history' => s \in sch.list,
         UNCHANGED <<img, bucket, exp, kind, parent, old, calm>>
  PROVE  IInv'
  <1>1. TypeOK /\ CRInv /\ ImageInv /\ CompleteIsUsable /\ ScheduleInv /\ Allowed(w)
    BY DEF IInv
  <1>2. cr \in [Snaps -> CRs] /\ w \in Workers
    BY <1>1 DEF TypeOK, CRs, Workers
  <1>3. /\ cr' \in [Snaps -> CRs]
        /\ \A t \in Snaps : t # s => cr'[t] = cr[t]
        /\ cr[s].fin => /\ cr'[s].life = "deleting" /\ cr'[s].fin /\ cr'[s].id = cr[s].id
                        /\ cr'[s].skip = cr[s].skip
        /\ ~cr[s].fin => cr'[s].life = "gone" /\ cr[s].life = "live"
    <2> DEFINE new == IF cr[s].fin THEN [cr[s] EXCEPT !.life = "deleting"]
                      ELSE [NoSnap EXCEPT !.life = "gone"]
    <2>1. cr' = [cr EXCEPT ![s] = new]
      BY DEF Delete
    <2>2. new \in CRs
      BY <1>2, ZenonT(60) DEF CRs, NoSnap
    <2>3. cr[s].fin => new.life = "deleting" /\ new.fin /\ new.id = cr[s].id /\ new.skip = cr[s].skip
      BY <1>2 DEF CRs
    <2>4. ~cr[s].fin => new.life = "gone" /\ cr[s].life = "live"
      BY <1>1 DEF NoSnap, CRInv, Stored
    <2> HIDE DEF new
    <2> QED
      BY <1>2, <2>1, <2>2, <2>3, <2>4
  <1>4. (Lost' <=> Lost) /\ (Twice' <=> Twice) /\ (Disturbed => Disturbed')
    BY DEF Lost, Twice, Disturbed
  <1>5. /\ w' \in Workers /\ w'.pc = w.pc /\ w'.s = w.s /\ w'.seen = w.seen
        /\ w'.fresh => w.fresh /\ w.s # s
    BY <1>2 DEF Outdates, Workers
  <1>6. TypeOK'
    BY <1>1, <1>3, <1>5 DEF TypeOK, CRs, Workers, Oddities
  <1>7. CRInv'
    <2>1. Created' = Created
      BY <1>3 DEF Created, Stored
    <2> QED
      BY <1>1, <1>3, <1>4, <2>1 DEF CRInv, Stored
  <1>8. ImageInv'
    BY <1>1, <1>2, <1>3, <1>4, ZenonT(60) DEF ImageInv, Leaves, Kept, Stored
  <1>9. CompleteIsUsable'
    BY <1>1, <1>3, <1>4 DEF CompleteIsUsable, Lost
  <1>10. ScheduleInv'
    <2> SUFFICES ASSUME kind = "cloudsql", ~Disturbed'
                 PROVE  /\ \A t \in old : cr'[t].life = "live" => cr'[t].complete
                        /\ \A t \in Snaps : cr'[t].life = "deleting" \/ t \in sch'.list => Newer(t)'
      BY DEF ScheduleInv
    <2>1. /\ \A t \in old : cr[t].life = "live" => cr[t].complete
          /\ \A t \in Snaps : cr[t].life = "deleting" \/ t \in sch.list => Newer(t)
          /\ s \in sch.list /\ old \subseteq Snaps
      BY <1>1, <1>4 DEF ScheduleInv, TypeOK, Disturbed
    <2>2. PICK m \in Snaps : m > s /\ cr[m].life = "live" /\ cr[m].complete
      BY <2>1 DEF Newer
    <2>3. m # s
      BY <2>2, Order
    <2>4. ASSUME NEW t \in Snaps, Newer(t) PROVE Newer(t)'
      <3>1. PICK u \in Snaps : u > t /\ cr[u].life = "live" /\ cr[u].complete
        BY <2>4 DEF Newer
      <3>2. CASE u = s
        <4>1. m > t
          BY <2>2, <3>1, <3>2, Order
        <4> QED
          BY <1>3, <2>2, <2>3, <4>1 DEF Newer
      <3>3. CASE u # s
        BY <1>3, <3>1, <3>3 DEF Newer
      <3> QED
        BY <3>2, <3>3
    <2>5. \A t \in old : cr'[t].life = "live" => cr'[t].complete
      BY <1>3, <2>1
    <2> QED
      BY <1>3, <2>1, <2>4, <2>5
  <1>11. Allowed(w)'
    <2>1. \A t \in Snaps : (Leaves(t)' <=> Leaves(t)) /\ img'[t] = img[t]
      BY DEF Leaves
    <2>2. w.pc \in Held \cup DeleteSteps /\ w.s = s => cr[s].fin
      BY <1>1 DEF Allowed, CRInv
    <2>3. w.pc \in Held \cup DeleteSteps => w.s \in Snaps
      BY <1>1 DEF Allowed, Held, CreateSteps, DeleteSteps
    <2>4. w.pc \in Seen \cup Emptied \cup {"group"} => w.s \in Snaps
      BY <1>1 DEF Allowed, Seen, Emptied
    <2> QED
      BY <1>1, <1>3, <1>4, <1>5, <2>1, <2>2, <2>3, <2>4, Labels, ZenonT(60) DEF Allowed, Stored
  <1> QED
    BY <1>6, <1>7, <1>8, <1>9, <1>10, <1>11 DEF IInv

\* NewSnapshot creates a CR that never was.
LEMMA NewFacts ==
  ASSUME IInv, NewSnapshot
  PROVE  \E k \in Snaps : /\ cr[k] = NoSnap /\ k \notin old
                          /\ cr' = [cr EXCEPT ![k] = [NoSnap EXCEPT !.life = "live"]]
                          /\ \E n \in Nat : Created' = 1 .. n
  <1>1. TypeOK /\ CRInv
    BY DEF IInv
  <1>2. PICK n \in Nat : Created = 1 .. n
    BY <1>1 DEF CRInv
  <1>3. Cardinality(Created) = n
    <2>1. Cardinality(1 .. n) = IF 1 > n THEN 0 ELSE n - 1 + 1
      BY FS_Interval
    <2> QED
      BY <1>2, <2>1
  <1> DEFINE k == n + 1
  <1>4. n < (IF kind = "cloudsql" THEN MaxGCP ELSE MaxAWS)
    BY <1>3 DEF NewSnapshot
  <1>5. k \in Snaps /\ k \notin 1 .. n
    BY <1>4, MaxAssumption DEF Snaps
  <1>6. cr' = [cr EXCEPT ![k].life = "live"]
    BY <1>3 DEF NewSnapshot
  <1>7. 1 .. k = (1 .. n) \cup {k}
    OBVIOUS
  <1> HIDE DEF k
  <1>8. cr[k].life = "none"
    BY <1>2, <1>5, Zenon DEF Created
  <1>9. cr[k] = NoSnap /\ k \notin old
    BY <1>1, <1>5, <1>8 DEF CRInv
  <1>10. cr' = [cr EXCEPT ![k] = [NoSnap EXCEPT !.life = "live"]]
    BY <1>6, <1>9
  <1>11. cr'[k].life = "live" /\ \A s \in Snaps : s # k => cr'[s] = cr[s]
    BY <1>1, <1>5, <1>10 DEF TypeOK, NoSnap
  <1>12. Created' = Created \cup {k}
    BY <1>5, <1>11 DEF Created
  <1>13. Created' = 1 .. k /\ k \in Nat
    BY <1>2, <1>5, <1>7, <1>12, SnapsFacts, Zenon
  <1> QED
    BY <1>5, <1>9, <1>10, <1>13, Zenon

LEMMA NewKeeps ==
  ASSUME IInv, NewSnapshot,
         sch' \in [busy : BOOLEAN, list : SUBSET Snaps], sch'.list \subseteq sch.list,
         UNCHANGED <<w, img, bucket, exp, kind, parent, old, history, calm>>
  PROVE  IInv'
  <1>1. TypeOK /\ CRInv /\ ImageInv /\ CompleteIsUsable /\ ScheduleInv /\ Allowed(w)
    BY DEF IInv
  <1>2. PICK k \in Snaps : /\ cr[k] = NoSnap /\ k \notin old
                           /\ cr' = [cr EXCEPT ![k] = [NoSnap EXCEPT !.life = "live"]]
                           /\ \E n \in Nat : Created' = 1 .. n
    BY NewFacts
  <1> DEFINE new == [NoSnap EXCEPT !.life = "live"]
  <1>3. /\ new \in CRs /\ new.life = "live" /\ ~new.complete
        /\ cr[k].life = "none"
    <2>1. new \in CRs /\ new.life = "live" /\ ~new.complete /\ NoSnap.life = "none"
      BY Zenon DEF CRs, NoSnap
    <2> QED
      BY <1>2, <2>1
  <1>4. cr' = [cr EXCEPT ![k] = new] /\ cr \in [Snaps -> CRs]
    BY <1>1, <1>2 DEF TypeOK, CRs
  <1> HIDE DEF new
  <1>5. cr'[k] = new /\ (\A s \in Snaps : s # k => cr'[s] = cr[s]) /\ cr' \in [Snaps -> CRs]
    BY <1>3, <1>4, Zenon
  <1>6. TypeOK'
    BY <1>1, <1>5 DEF TypeOK, CRs
  <1>7. CRInv'
    BY <1>1, <1>2, <1>3, <1>5 DEF CRInv, Lost
  <1>8. ImageInv'
    BY <1>1, <1>3, <1>5 DEF ImageInv, Leaves, Kept, Stored, Twice
  <1>9. CompleteIsUsable'
    BY <1>1, <1>3, <1>5 DEF CompleteIsUsable
  <1>10. ScheduleInv'
    <2>1. \A s \in Snaps : Newer(s) => Newer(s)'
      BY <1>3, <1>5, Zenon DEF Newer
    <2>2. old \subseteq Snaps
      BY <1>1 DEF TypeOK
    <2>3. \A s \in old : cr'[s].life = "live" => cr[s].life = "live" /\ cr'[s].complete = cr[s].complete
      BY <1>2, <1>5, <2>2, Zenon
    <2>4. \A s \in Snaps : cr'[s].life = "deleting" => cr[s].life = "deleting"
      BY <1>3, <1>5, ZenonT(60)
    <2> QED
      BY <1>1, <2>1, <2>2, <2>3, <2>4 DEF ScheduleInv, Disturbed
  <1>11. Allowed(w)'
    <2>1. w.s \in Snaps /\ Stored(w.s) => w.s # k /\ cr'[w.s] = cr[w.s]
      BY <1>3, <1>5, Zenon DEF Stored
    <2>2. w.pc \in Held \cup DeleteSteps => w.s \in Snaps
      BY <1>1, ZenonT(60) DEF Allowed, Held, CreateSteps, DeleteSteps
    <2> QED
      BY <1>1, <2>1, <2>2, Labels DEF Allowed, Stored, Leaves, Lost, Twice
  <1> QED
    BY <1>6, <1>7, <1>8, <1>9, <1>10, <1>11, Zenon DEF IInv

\* An Update or a Status().Update with the worker's copy, after which the worker
\* goes on to ok.
LEMMA StoreKeeps ==
  ASSUME IInv, w.pc # "idle", NEW ok \in Steps, NEW new \in CRs, Store(new, ok),
         new.life = cr[w.s].life, cr[w.s].fin => new.fin, cr[w.s].id => new.id,
         new.complete => cr[w.s].complete \/ Lost \/ img[w.s] = "available",
         ok \in Held => new.fin, ok \in Named => new.id,
         ok \in DeleteSteps => new.life = "deleting",
         ok \in Emptied => ok = "d_fin" /\ new.skip,
         ok \in Seen => Lost \/ img[w.s] = "available", ok # "group"
  PROVE  IInv'
  <1>1. TypeOK /\ Allowed(w)
    BY DEF IInv
  <1>2. w.fresh /\ w.s \in Snaps /\ Stored(w.s) /\ w.pc \in Steps
    BY <1>1, ZenonT(60) DEF Store, Allowed, TypeOK
  <1>3. /\ cr' = [cr EXCEPT ![w.s] = new]
        /\ w' = After(ok, TRUE) \/ w' = After(OnError(w.pc), FALSE)
        /\ history' \in {history, history \cup {"schedule disturbed"}}
        /\ kind = "cloudsql" /\ new.life = "live" /\ cr[w.s].complete /\ ~new.complete =>
             "schedule disturbed" \in history'
        /\ UNCHANGED <<img, bucket, exp, kind, parent, sch, old, calm>>
    BY DEF Store, Note, cloud, schedule
  <1>4. (Lost' <=> Lost) /\ (Twice' <=> Twice)
    BY <1>3 DEF Lost, Twice
  <1>5. cr'[w.s] = new /\ cr'[w.s].life \in {"live", "deleting"}
    <2>1. cr'[w.s] = new
      BY <1>1, <1>2, <1>3 DEF TypeOK
    <2> QED
      BY <1>2, <2>1, Zenon DEF Stored
  <1>6. w' \in Workers /\ Allowed(w)'
    <2>1. CASE w' = After(ok, TRUE)
      <3>1. /\ w' \in Workers /\ w'.pc = ok /\ (ok = "idle" => ~w'.fresh)
            /\ ok # "idle" => w'.s = w.s /\ w'.fresh
        BY <1>1, <2>1, AfterFacts, Zenon
      <3> QED
        BY <1>2, <1>3, <1>4, <1>5, <3>1, Labels, ZenonT(60) DEF Allowed, Stored, Leaves
    <2>2. CASE w' = After(OnError(w.pc), FALSE)
      <3>1. OnError(w.pc) \in Loose
        BY <1>2, OnErrorLoose, Zenon
      <3>2. OnError(w.pc) \in Steps
        BY <3>1, Labels
      <3>3. /\ w' \in Workers /\ w'.pc = OnError(w.pc) /\ ~w'.fresh
            /\ w'.pc # "idle" => w'.s = w.s
        BY <1>1, <2>2, <3>2, AfterFacts, ZenonT(60)
      <3>4. w'.pc \in Loose
        BY <3>1, <3>3
      <3> HIDE <3>1
      <3> QED
        BY <1>2, <3>3, <3>4, Labels, Zenon DEF Allowed
    <2> QED
      BY <1>3, <2>1, <2>2, ZenonT(60)
  <1> QED
    BY <1>2, <1>3, <1>6, UpdateKeeps
----------------------------------------------------------------------------
(* The controllers.                                                        *)

\* The provider's deletion is called for a CR that is being deleted, and the
\* GCP provider goes straight to the finalizer when it is told to skip.
LEMMA FirstStepFacts ==
  ASSUME NEW s \in Snaps
  PROVE  /\ FirstStep(s) \in {"d_find", "d_object", "d_fin", "idle", "finalizer"}
         /\ FirstStep(s) \in DeleteSteps => cr[s].life = "deleting"
         /\ FirstStep(s) \in Emptied => FirstStep(s) = "d_fin" /\ cr[s].skip
  <1>1. CASE cr[s].life = "deleting" /\ kind # "cloudsql"
    <2>1. cr[s].life # "live"
      BY <1>1
    <2>2. FirstStep(s) = "d_find"
      BY <1>1, <2>1, Zenon DEF FirstStep
    <2> QED
      BY <1>1, <2>2 DEF Emptied
  <1>2. CASE cr[s].life = "deleting" /\ kind = "cloudsql"
    <2>1. cr[s].life # "live"
      BY <1>2
    <2>2. FirstStep(s) = IF cr[s].skip THEN "d_fin" ELSE "d_object"
      BY <1>2, <2>1, Zenon DEF FirstStep
    <2> QED
      BY <1>2, <2>2 DEF Emptied
  <1>3. CASE cr[s].life # "deleting" /\ kind = "elasticache" /\ cr[s].complete /\ cr[s].life = "live"
    <2>1. FirstStep(s) = "idle"
      BY <1>3, Zenon DEF FirstStep
    <2> QED
      BY <1>3, <2>1 DEF Emptied, DeleteSteps
  <1>4. CASE /\ cr[s].life # "deleting"
             /\ ~(kind = "elasticache" /\ cr[s].complete /\ cr[s].life = "live")
    <2>1. FirstStep(s) = "finalizer"
      BY <1>4, Zenon DEF FirstStep
    <2> QED
      BY <1>4, <2>1 DEF Emptied, DeleteSteps
  <1> QED
    BY <1>1, <1>2, <1>3, <1>4

\* The label that Reconcile goes to.
LEMMA DispatchFacts ==
  ASSUME NEW s \in Snaps, NEW l,
         l = CASE parent = "gone" -> "failed"
               [] kind = "elasticache" /\ parent = "new" -> "failed"
               [] kind \in PostgresKinds /\ parent # "gone" /\ ~cr[s].pinned -> "pin"
               [] OTHER -> FirstStep(s)
  PROVE  l \in {"failed", "pin", FirstStep(s)}
  <1>1. kind \in PostgresKinds => kind # "elasticache"
    BY DEF PostgresKinds
  <1>2. CASE parent = "gone"
    <2>1. parent # "new"
      BY <1>2
    <2>2. l = "failed"
      BY <1>2, <2>1, Zenon
    <2> QED
      BY <2>2
  <1>3. CASE parent # "gone" /\ kind = "elasticache" /\ parent = "new"
    <2>1. kind \notin PostgresKinds
      BY <1>1, <1>3
    <2>2. l = "failed"
      BY <1>3, <2>1, Zenon
    <2> QED
      BY <2>2
  <1>4. CASE /\ parent # "gone" /\ ~(kind = "elasticache" /\ parent = "new")
             /\ kind \in PostgresKinds /\ parent # "gone" /\ ~cr[s].pinned
    <2>1. l = "pin"
      BY <1>4, Zenon
    <2> QED
      BY <2>1
  <1>5. CASE /\ parent # "gone" /\ ~(kind = "elasticache" /\ parent = "new")
             /\ ~(kind \in PostgresKinds /\ parent # "gone" /\ ~cr[s].pinned)
    <2>1. l = FirstStep(s)
      BY <1>5, Zenon
    <2> QED
      BY <2>1
  <1> QED
    BY <1>2, <1>3, <1>4, <1>5

LEMMA ReconcileKeeps ==
  ASSUME IInv, NEW s \in Snaps, Reconcile(s)
  PROVE  IInv'
  <1>1. PICK l : /\ l = CASE parent = "gone" -> "failed"
                          [] kind = "elasticache" /\ parent = "new" -> "failed"
                          [] kind \in PostgresKinds /\ parent # "gone" /\ ~cr[s].pinned -> "pin"
                          [] OTHER -> FirstStep(s)
                 /\ \/ w' = IF l = "idle" THEN Idle
                            ELSE [Idle EXCEPT !.pc = l, !.s = s, !.fresh = TRUE, !.par = ParentPhase]
                    \/ w' = [Idle EXCEPT !.pc = "failed", !.s = s, !.fresh = TRUE]
    BY Zenon DEF Reconcile
  <1>2. l \in {"failed", "pin", FirstStep(s)}
    BY <1>1, DispatchFacts, Zenon
  <1>3. /\ l \in {"failed", "pin", "d_find", "d_object", "d_fin", "idle", "finalizer"}
        /\ l \in DeleteSteps => cr[s].life = "deleting"
        /\ l \in Emptied => l = "d_fin" /\ cr[s].skip
    <2>1. {"failed", "pin"} \cap (DeleteSteps \cup Emptied) = {}
      BY DEF DeleteSteps, Emptied
    <2> QED
      BY <1>2, <2>1, FirstStepFacts
  <1>4. Stored(s) /\ TypeOK /\ UNCHANGED <<cr, img, exp, rest>> /\ bucket' \in BOOLEAN
    BY DEF Reconcile, IInv, TypeOK, cloud
  <1>5. ParentPhase \in Parents
    BY <1>4 DEF ParentPhase, TypeOK, Parents
  <1>6. CASE w' = IF l = "idle" THEN Idle
                  ELSE [Idle EXCEPT !.pc = l, !.s = s, !.fresh = TRUE, !.par = ParentPhase]
    <2>1. /\ w' \in Workers /\ w'.pc = l
          /\ l = "idle" => ~w'.fresh
          /\ l # "idle" => w'.s = s /\ w'.fresh
      BY <1>3, <1>5, <1>6, ZenonT(60) DEF Workers, Idle, Steps, CreateSteps, DeleteSteps, StatusSteps, Images, Parents
    <2>2. l \notin Held \cup Named \cup Seen \cup {"group"}
      BY <1>3 DEF Held, Named, Seen, CreateSteps
    <2>3. "idle" \notin Emptied \cup DeleteSteps
      BY DEF Emptied, DeleteSteps
    <2>4. Allowed(w')
      BY <1>3, <1>4, <2>1, <2>2, <2>3 DEF Allowed
    <2> QED
      BY <1>4, <2>1, <2>4, MoveKeeps, Zenon
  <1>7. CASE w' = [Idle EXCEPT !.pc = "failed", !.s = s, !.fresh = TRUE]
    <2>1. w' \in Workers /\ w'.pc = "failed" /\ w'.s = s /\ w'.fresh
      BY <1>7, Zenon DEF Workers, Idle, Steps, StatusSteps, Images, Parents
    <2>2. "failed" \in Loose
      BY Zenon DEF Loose
    <2>3. Allowed(w')
      BY <1>4, <2>1, <2>2, Labels, Zenon DEF Allowed
    <2> QED
      BY <1>4, <2>1, <2>3, MoveKeeps, Zenon
  <1> QED
    BY <1>1, <1>6, <1>7, Zenon

\* What a current copy is a copy of.
LEMMA CopyFacts ==
  ASSUME IInv
  PROVE  /\ w.pc # "idle" => w.s \in Snaps /\ cr[w.s] \in CRs
         /\ w.pc \in Steps /\ Allowed(w) /\ TypeOK /\ cr \in [Snaps -> CRs] /\ w \in Workers
  <1>1. TypeOK /\ Allowed(w) /\ cr \in [Snaps -> CRs] /\ w \in Workers
    BY DEF IInv, TypeOK, CRs, Workers
  <1>2. w.pc \in Steps
    BY <1>1, Zenon DEF Workers
  <1>3. w.pc # "idle" => w.s \in Snaps
    BY <1>1, Zenon DEF Allowed
  <1> QED
    BY <1>1, <1>2, <1>3, Zenon

LEMMA PinStrategyKeeps ==
  ASSUME IInv, PinStrategy
  PROVE  IInv'
  <1> DEFINE new == [cr[w.s] EXCEPT !.pinned = TRUE]
  <1>1. w.pc = "pin" /\ Store(new, FirstStep(w.s))
    BY DEF PinStrategy, At
  <1>2. w.s \in Snaps /\ cr[w.s] \in CRs
    BY <1>1, CopyFacts
  <1>3. /\ new \in CRs /\ new.life = cr[w.s].life /\ new.fin = cr[w.s].fin
        /\ new.id = cr[w.s].id /\ new.skip = cr[w.s].skip /\ new.complete = cr[w.s].complete
    BY <1>2, Zenon DEF CRs
  <1>4. /\ FirstStep(w.s) \in {"d_find", "d_object", "d_fin", "idle", "finalizer"}
        /\ FirstStep(w.s) \in DeleteSteps => cr[w.s].life = "deleting"
        /\ FirstStep(w.s) \in Emptied => FirstStep(w.s) = "d_fin" /\ cr[w.s].skip
    BY <1>2, FirstStepFacts, Zenon
  <1>5. FirstStep(w.s) \in Steps /\ FirstStep(w.s) \notin Held \cup Named \cup Seen \cup {"group"}
    BY <1>4, Zenon DEF Steps, CreateSteps, DeleteSteps, Held, Named, Seen
  <1> HIDE DEF new
  <1> QED
    BY <1>1, <1>3, <1>4, <1>5, StoreKeeps, Zenon

LEMMA CreateFinalizerKeeps ==
  ASSUME IInv, CreateFinalizer
  PROVE  IInv'
  <1> DEFINE new == [cr[w.s] EXCEPT !.fin = TRUE]
  <1>1. w.pc = "finalizer" /\ Store(new, "id")
    BY DEF CreateFinalizer, At
  <1>2. w.s \in Snaps /\ cr[w.s] \in CRs
    BY <1>1, CopyFacts
  <1>3. /\ new \in CRs /\ new.life = cr[w.s].life /\ new.fin
        /\ new.id = cr[w.s].id /\ new.complete = cr[w.s].complete
    BY <1>2, Zenon DEF CRs
  <1>4. "id" \in Steps /\ "id" \notin Named \cup DeleteSteps \cup Emptied \cup Seen \cup {"group"}
    BY Zenon DEF Steps, CreateSteps, DeleteSteps, Emptied, Named, Held, Seen
  <1> HIDE DEF new
  <1> QED
    BY <1>1, <1>3, <1>4, StoreKeeps

LEMMA StoreSnapshotIDKeeps ==
  ASSUME IInv, StoreSnapshotID
  PROVE  IInv'
  <1> DEFINE new == [cr[w.s] EXCEPT !.id = TRUE]
             ok == IF kind = "cloudsql" THEN "meta" ELSE "find"
  <1>1. w.pc = "id" /\ (Branch("failed") \/ Store(new, ok))
    BY DEF StoreSnapshotID, At
  <1>2. w.s \in Snaps /\ cr[w.s] \in CRs /\ cr[w.s].fin
    <2>1. "id" \in Held
      BY DEF Held, CreateSteps
    <2> QED
      BY <1>1, <2>1, CopyFacts DEF Allowed
  <1>3. /\ new \in CRs /\ new.life = cr[w.s].life /\ new.fin
        /\ new.id /\ new.complete = cr[w.s].complete
    BY <1>2, Zenon DEF CRs
  <1>4. ok \in Steps /\ ok \notin DeleteSteps \cup Emptied \cup Seen \cup {"group"}
    BY DEF Steps, CreateSteps, DeleteSteps, Emptied, Seen
  <1>5. "failed" \in Loose
    BY Zenon DEF Loose
  <1> HIDE DEF new, ok
  <1> QED
    BY <1>1, <1>3, <1>4, <1>5, StoreKeeps, LooseKeeps, Zenon

LEMMA UpdateSnapshotPhaseKeeps ==
  ASSUME IInv, UpdateSnapshotPhase
  PROVE  IInv'
  <1> DEFINE new == [cr[w.s] EXCEPT !.complete = At("complete")]
  <1>1. w.pc \in StatusSteps /\ Store(new, "idle")
    BY DEF UpdateSnapshotPhase
  <1>2. w.pc # "idle"
    BY <1>1 DEF StatusSteps
  <1>3. w.s \in Snaps /\ cr[w.s] \in CRs /\ Allowed(w)
    BY <1>2, CopyFacts
  <1>4. /\ new \in CRs /\ new.life = cr[w.s].life /\ new.fin = cr[w.s].fin
        /\ new.id = cr[w.s].id /\ (new.complete <=> w.pc = "complete")
    BY <1>3, Zenon DEF CRs, At
  <1>5. w.pc = "complete" => Lost \/ img[w.s] = "available"
    BY <1>3 DEF Allowed, Seen
  <1> HIDE DEF new
  <1> QED
    BY <1>1, <1>2, <1>4, <1>5, StoreKeeps, Labels, Zenon

LEMMA ProtectKeeps ==
  ASSUME IInv, Protect
  PROVE  IInv'
  <1> DEFINE new == [cr[w.s] EXCEPT !.skip = TRUE]
  <1>1. w.pc = "protect" /\ Store(new, "others")
    BY DEF Protect, OnGCP, At
  <1>2. w.s \in Snaps /\ cr[w.s] \in CRs /\ Allowed(w)
    BY <1>1, CopyFacts
  <1>3. /\ new \in CRs /\ new.life = cr[w.s].life /\ new.fin = cr[w.s].fin
        /\ new.id = cr[w.s].id /\ new.complete = cr[w.s].complete
    BY <1>2, Zenon DEF CRs
  <1>4. /\ "protect" \in Held \cap Named \cap Seen
        /\ "others" \in Steps /\ "others" \notin DeleteSteps \cup Emptied \cup {"group"}
    BY DEF Steps, CreateSteps, DeleteSteps, Emptied, Seen, Held, Named
  <1>5. cr[w.s].fin /\ cr[w.s].id /\ (Lost \/ img[w.s] = "available")
    BY <1>1, <1>2, <1>4, Zenon DEF Allowed
  <1> HIDE DEF new
  <1> QED
    BY <1>1, <1>3, <1>4, <1>5, StoreKeeps, Zenon

\* RemoveFinalizer drops the CR; the worker goes on with an outdated copy.
LEMMA RemoveFinalizerKeeps ==
  ASSUME IInv, RemoveFinalizer
  PROVE  IInv'
  <1>1. w.pc = "d_fin" /\ w.fresh /\ UNCHANGED <<img, bucket, exp, kind, parent, sch, old, history, calm>>
    BY DEF RemoveFinalizer, At, cloud, rest, schedule
  <1>2. /\ TypeOK /\ CRInv /\ ImageInv /\ CompleteIsUsable /\ ScheduleInv /\ Allowed(w)
        /\ cr \in [Snaps -> CRs]
    BY CopyFacts, Zenon DEF IInv
  <1>3. /\ w.s \in Snaps /\ cr[w.s].life = "deleting"
        /\ ~Twice => ~Leaves(w.s) \/ cr[w.s].skip
    BY <1>1, <1>2 DEF Allowed, DeleteSteps, Emptied
  <1> DEFINE new == [NoSnap EXCEPT !.life = "gone", !.skip = cr[w.s].skip]
  <1>4. new \in CRs /\ new.life = "gone" /\ new.skip = cr[w.s].skip
    BY <1>2, <1>3, Zenon DEF CRs, NoSnap
  <1>5. cr' = [cr EXCEPT ![w.s] = new]
    BY Zenon DEF RemoveFinalizer
  <1> HIDE DEF new
  <1>6. /\ cr' \in [Snaps -> CRs] /\ cr'[w.s].life = "gone" /\ cr'[w.s].skip = cr[w.s].skip
        /\ \A s \in Snaps : s # w.s => cr'[s] = cr[s]
    BY <1>2, <1>3, <1>4, <1>5, Zenon
  <1>7. PICK l \in {"delprog", "failed"} : w' = After(l, FALSE)
    BY Zenon DEF RemoveFinalizer
  <1>8. l \in Loose /\ l \in Steps /\ l # "idle"
    BY <1>7 DEF Loose, Steps, StatusSteps
  <1>9. w' \in Workers /\ w'.pc = l /\ ~w'.fresh /\ w'.s = w.s
    BY <1>2, <1>7, <1>8, AfterFacts, Zenon
  <1>10. TypeOK'
    BY <1>1, <1>2, <1>6, <1>9, ZenonT(60) DEF TypeOK, CRs, Workers
  <1>11. CRInv'
    <2>1. Created' = Created
      BY <1>3, <1>6, ZenonT(60) DEF Created
    <2> QED
      BY <1>1, <1>2, <1>6, <2>1 DEF CRInv, Lost
  <1>12. ImageInv'
    BY <1>1, <1>2, <1>3, <1>6 DEF ImageInv, Leaves, Kept, Stored, Twice
  <1>13. CompleteIsUsable'
    BY <1>1, <1>2, <1>6 DEF CompleteIsUsable
  <1>14. ScheduleInv'
    <2>1. \A s \in Snaps : Newer(s) => Newer(s)'
      BY <1>3, <1>6, Zenon DEF Newer
    <2>2. old \subseteq Snaps /\ \A s \in Snaps : cr'[s].life \in {"live", "deleting"} => cr'[s] = cr[s]
      BY <1>2, <1>6, Zenon DEF TypeOK
    <2> QED
      BY <1>1, <1>2, <2>1, <2>2 DEF ScheduleInv, Disturbed
  <1>15. Allowed(w)'
    BY <1>3, <1>8, <1>9, Labels, Zenon DEF Allowed
  <1> QED
    BY <1>10, <1>11, <1>12, <1>13, <1>14, <1>15, Zenon DEF IInv

\* A call is refused, fails, or the process dies.
LEMMA InterruptionKeeps ==
  ASSUME IInv, Conflict \/ CallFails \/ Crash
  PROVE  IInv'
  <1>1. w.pc # "idle" /\ (Branch(OnError(w.pc)) \/ Branch("idle"))
    BY DEF Conflict, CallFails, Crash, At, StoreSteps, StatusSteps
  <1>2. OnError(w.pc) \in Loose
    BY CopyFacts, OnErrorLoose
  <1> QED
    BY <1>1, <1>2, LooseKeeps, Labels, Zenon

\* All steps of the controllers.
LEMMA ControllerKeeps ==
  ASSUME IInv, Controller
  PROVE  IInv'
  BY ReconcileKeeps, PinStrategyKeeps, CreateFinalizerKeeps, StoreSnapshotIDKeeps,
     UpdateSnapshotPhaseKeeps, RemoveFinalizerKeeps, InterruptionKeeps, Zenon DEF Controller

\* The user, the parent's controller and the end of the faults.
LEMMA EnvironmentKeeps ==
  ASSUME IInv, Environment
  PROVE  IInv'
  <1>0. TypeOK /\ sch \in [busy : BOOLEAN, list : SUBSET Snaps]
    BY DEF IInv, TypeOK
  <1>1. CASE UserCreates
    <2>1. NewSnapshot /\ UNCHANGED <<w, img, bucket, exp, kind, parent, sch, old, history, calm>>
      BY <1>1, Zenon DEF UserCreates, cloud, rest, schedule
    <2> QED
      BY <1>0, <2>1, NewKeeps, Zenon
  <1>2. ASSUME NEW s \in Snaps, UserDeletes(s) PROVE IInv'
    <2>1. /\ cr[s].life = "live" /\ Delete(s) /\ Outdates(s)
          /\ UNCHANGED <<img, bucket, exp, kind, parent, sch, old, calm>>
          /\ history' = IF kind = "cloudsql" THEN history \cup {"schedule disturbed"} ELSE history
      BY <1>2 DEF UserDeletes, Note, cloud, schedule
    <2>2. Stored(s)
      BY <2>1 DEF Stored
    <2> QED
      BY <1>0, <2>1, <2>2, DeleteKeeps
  <1>3. CASE ParentMoves \/ CalmDown
    <2>1. UNCHANGED <<cr, w, img, bucket, exp, kind, sch, old, history>>
      BY <1>3 DEF ParentMoves, CalmDown, cloud, schedule
    <2>2. parent' \in Parents
      <3>1. CASE CalmDown
        BY <1>0, <3>1 DEF CalmDown, TypeOK
      <3>2. CASE ParentMoves
        <4> DEFINE P == CASE parent = "new" -> {"progress", "starting", "gone"}
                          [] parent = "deleting" -> {"gone"}
                          [] parent = "gone" -> {}
                          [] OTHER -> Parents \ {"new", "gone"}
        <4>1. parent' \in P
          BY <3>2, Zenon DEF ParentMoves
        <4>2. CASE parent = "new"
          <5>1. parent # "deleting" /\ parent # "gone"
            BY <4>2
          <5>2. P = {"progress", "starting", "gone"}
            BY <4>2, <5>1, Zenon
          <5> QED
            BY <4>1, <5>2 DEF Parents
        <4>3. CASE parent = "deleting"
          <5>1. parent # "new" /\ parent # "gone"
            BY <4>3
          <5>2. P = {"gone"}
            BY <4>3, <5>1, Zenon
          <5> QED
            BY <4>1, <5>2 DEF Parents
        <4>4. CASE parent = "gone"
          <5>1. parent # "new" /\ parent # "deleting"
            BY <4>4
          <5>2. P = {}
            BY <4>4, <5>1, Zenon
          <5> QED
            BY <4>1, <5>2
        <4>5. CASE parent # "new" /\ parent # "deleting" /\ parent # "gone"
          <5>1. P = Parents \ {"new", "gone"}
            BY <4>5, Zenon
          <5> QED
            BY <4>1, <5>1
        <4> QED
          BY <4>2, <4>3, <4>4, <4>5
      <3> QED
        BY <1>3, <3>1, <3>2, Zenon
    <2>3. calm' \in BOOLEAN
      BY <1>0, <1>3, Zenon DEF ParentMoves, CalmDown, TypeOK
    <2>4. TypeOK'
      BY <1>0, <2>1, <2>2, <2>3, Zenon DEF TypeOK
    <2>5. CRInv' /\ ImageInv' /\ CompleteIsUsable'
      BY <2>1, ZenonT(60) DEF IInv, CRInv, Created, ImageInv, CompleteIsUsable, Leaves, Kept, Stored, Twice, Lost
    <2>6. ScheduleInv' /\ Allowed(w)'
      BY <2>1, ZenonT(60) DEF IInv, ScheduleInv, Newer, Disturbed, Allowed, Stored, Leaves, Lost, Twice
    <2> QED
      BY <2>4, <2>5, <2>6 DEF IInv
  <1> QED
    BY <1>1, <1>2, <1>3, InterruptionKeeps, Zenon DEF Environment
----------------------------------------------------------------------------
(* The providers' calls.                                                   *)

\* The worker goes on to a call for which it is ready.
LEMMA NextAllowed ==
  ASSUME IInv, w.pc # "idle", NEW v \in Workers, v.pc # "idle" => v.s = w.s,
         v.fresh => v.pc # "idle" /\ w.fresh, v.pc \in Held => w.pc \in Held, v.pc \in Named => w.pc \in Named,
         v.pc \in DeleteSteps => w.pc \in DeleteSteps,
         ~Twice /\ v.pc \in Emptied => ~Leaves(w.s),
         ~Lost /\ (v.pc \in Seen \/ (v.pc = "group" /\ v.seen = "available")) => img[w.s] = "available"
  PROVE  Allowed(v)
  <1>1. Allowed(w) /\ w.s \in Snaps
    BY CopyFacts, Zenon
  <1>2. "idle" \notin Held \cup Named \cup DeleteSteps \cup Emptied \cup Seen \cup {"group"}
    BY Zenon DEF Held, Named, CreateSteps, DeleteSteps, Emptied, Seen
  <1>3. v.pc = "idle" \/ v.s = w.s
    BY Zenon
  <1>4. CASE v.pc = "idle"
    BY <1>2, <1>4, Zenon DEF Allowed
  <1>5. CASE v.s = w.s
    BY <1>1, <1>5, Zenon DEF Allowed
  <1> QED
    BY <1>3, <1>4, <1>5

\* The same for a jump.
LEMMA GotoAllowed ==
  ASSUME IInv, w.pc # "idle", NEW l \in Steps, Goto(l),
         l \in Held => w.pc \in Held, l \in Named => w.pc \in Named,
         l \in DeleteSteps => w.pc \in DeleteSteps,
         ~Twice /\ l \in Emptied => ~Leaves(w.s),
         ~Lost /\ l \in Seen => img[w.s] = "available", l # "group"
  PROVE  w' \in Workers /\ Allowed(w')
  <1>1. w.fresh \in BOOLEAN /\ TypeOK
    BY CopyFacts, Zenon DEF Workers
  <1>2. /\ w' \in Workers /\ w'.pc = l
        /\ (l = "idle" => ~w'.fresh)
        /\ (l # "idle" => w'.s = w.s /\ w'.fresh = w.fresh)
    BY <1>1, AfterFacts, ZenonT(60) DEF Goto
  <1> QED
    BY <1>2, NextAllowed, Zenon

\* After a call with an effect the worker ends the provider's work, or has
\* lost the answer.
LEMMA LooseNext ==
  ASSUME IInv, w.pc # "idle", NEW l \in Loose, Reply(l) \/ Goto(l), UNCHANGED cr
  PROVE  w' \in Workers /\ Allowed(w)'
  <1>1. w.fresh \in BOOLEAN /\ TypeOK /\ Allowed(w) /\ w.s \in Snaps /\ OnError(w.pc) \in Loose
    BY CopyFacts, OnErrorLoose, Zenon DEF Workers
  <1>2. PICK k \in Loose : w' = After(k, w.fresh)
    BY <1>1, Zenon DEF Reply, Goto
  <1>3. k \in Steps
    BY Labels, Zenon
  <1>4. /\ w' \in Workers /\ w'.pc = k
        /\ (k = "idle" => ~w'.fresh)
        /\ (k # "idle" => w'.s = w.s /\ w'.fresh = w.fresh)
    BY <1>1, <1>2, <1>3, AfterFacts, Zenon
  <1> QED
    BY <1>1, <1>4, Labels, Zenon DEF Allowed, Stored

\* A step that changes a snapshot or an export.
LEMMA CloudKeeps ==
  ASSUME IInv, UNCHANGED <<cr, kind, parent, sch, old, calm>>,
         img' \in [Snaps -> Images], bucket' \in BOOLEAN, exp' \in Snaps \cup {None},
         history' \in SUBSET Oddities, Disturbed' <=> Disturbed,
         kind = "cloudsql" => ~Lost' /\ \A s \in Snaps : img'[s] \in {"absent", "available"},
         kind # "cloudsql" => exp' = None,
         ImageInv', CompleteIsUsable', w' \in Workers, Allowed(w)'
  PROVE  IInv'
  <1>1. TypeOK'
    BY Zenon DEF IInv, TypeOK, Workers
  <1>2. CRInv'
    BY Zenon DEF IInv, CRInv, Created
  <1>3. ScheduleInv'
    BY Zenon DEF IInv, ScheduleInv, Newer
  <1> QED
    BY <1>1, <1>2, <1>3, Zenon DEF IInv

LEMMA FindSnapshotInstanceKeeps ==
  ASSUME IInv, FindSnapshotInstance
  PROVE  IInv'
  <1> DEFINE l == CASE kind = "elasticache" -> "group"
                    [] kind = "rds" /\ img[w.s] = "available" -> "complete"
                    [] kind = "rds" /\ img[w.s] \in {"creating", "deleting"} -> "progress"
                    [] kind = "rds" /\ img[w.s] = "absent" /\ w.par = "progress" -> "progress"
                    [] kind = "rds" /\ img[w.s] = "absent" /\ w.par = "deleting" -> "failed"
                    [] OTHER -> "create"
  <1>1. w' = [w EXCEPT !.pc = l, !.seen = img[w.s]]
    BY Zenon DEF FindSnapshotInstance
  <1>2. w.pc = "find" /\ UNCHANGED <<cr, img, exp, rest>> /\ bucket' \in BOOLEAN
    BY Zenon DEF FindSnapshotInstance, OnAWS, At, NoCR, IInv, TypeOK
  <1>3. l \in {"group", "progress", "failed", "create"} \/ (l = "complete" /\ img[w.s] = "available")
    <2>1. CASE kind = "elasticache"
      <3>1. kind # "rds"
        BY <2>1
      <3>2. l = "group"
        BY <2>1, <3>1, Zenon
      <3> HIDE DEF l
      <3> QED
        BY <3>2
    <2>2. CASE kind # "elasticache" /\ kind = "rds" /\ img[w.s] = "available"
      <3>1. img[w.s] \notin {"creating", "deleting"} /\ img[w.s] # "absent"
        BY <2>2
      <3>2. l = "complete"
        BY <2>2, <3>1, Zenon
      <3> HIDE DEF l
      <3> QED
        BY <2>2, <3>2
    <2>3. CASE kind # "elasticache" /\ kind = "rds" /\ img[w.s] \in {"creating", "deleting"}
      <3>1. img[w.s] # "available" /\ img[w.s] # "absent"
        BY <2>3
      <3>2. l = "progress"
        BY <2>3, <3>1, Zenon
      <3> HIDE DEF l
      <3> QED
        BY <3>2
    <2>4. CASE /\ kind # "elasticache" /\ kind = "rds" /\ img[w.s] = "absent"
               /\ w.par = "progress"
      <3>1. img[w.s] # "available" /\ img[w.s] \notin {"creating", "deleting"} /\ w.par # "deleting"
        BY <2>4
      <3>2. l = "progress"
        BY <2>4, <3>1, Zenon
      <3> HIDE DEF l
      <3> QED
        BY <3>2
    <2>5. CASE /\ kind # "elasticache" /\ kind = "rds" /\ img[w.s] = "absent"
               /\ w.par = "deleting"
      <3>1. img[w.s] # "available" /\ img[w.s] \notin {"creating", "deleting"} /\ w.par # "progress"
        BY <2>5
      <3>2. l = "failed"
        BY <2>5, <3>1, Zenon
      <3> HIDE DEF l
      <3> QED
        BY <3>2
    <2>6. CASE /\ kind # "elasticache"
               /\ ~(kind = "rds" /\ img[w.s] = "available")
               /\ ~(kind = "rds" /\ img[w.s] \in {"creating", "deleting"})
               /\ ~(kind = "rds" /\ img[w.s] = "absent" /\ w.par = "progress")
               /\ ~(kind = "rds" /\ img[w.s] = "absent" /\ w.par = "deleting")
      <3>1. l = "create"
        BY <2>6, Zenon
      <3> HIDE DEF l
      <3> QED
        BY <3>1
    <2> HIDE DEF l
    <2> QED
      BY <2>1, <2>2, <2>3, <2>4, <2>5, <2>6, Zenon
  <1> HIDE DEF l
  <1>4. w.s \in Snaps /\ w \in Workers /\ img[w.s] \in Images
    BY <1>2, CopyFacts, Zenon DEF TypeOK
  <1>5. l \in Steps /\ l \notin DeleteSteps \cup Emptied \cup {"idle", "skip", "protect", "others", "clear"}
    BY <1>3 DEF Steps, CreateSteps, DeleteSteps, StatusSteps, Emptied
  <1>6. "find" \in Held \cap Named
    BY DEF Held, Named, CreateSteps
  <1>7. w' \in Workers /\ w'.pc = l /\ w'.s = w.s /\ w'.fresh = w.fresh /\ w'.seen = img[w.s]
    BY <1>1, <1>4, <1>5, Zenon DEF Workers
  <1>8. l \in Seen => img[w.s] = "available"
    BY <1>3, Zenon DEF Seen
  <1>9. Allowed(w')
    BY <1>2, <1>5, <1>6, <1>7, <1>8, NextAllowed, Zenon
  <1> QED
    BY <1>2, <1>7, <1>9, MoveKeeps, Zenon

LEMMA DescribeReplicationGroupsKeeps ==
  ASSUME IInv, DescribeReplicationGroups
  PROVE  IInv'
  <1> DEFINE l == CASE parent \in {"new", "starting", "gone"} -> "idle"
                    [] parent = "complete" /\ w.seen = "absent" -> "create"
                    [] parent = "complete" /\ w.seen = "available" -> "complete"
                    [] OTHER -> "progress"
  <1>1. Goto(l)
    BY Zenon DEF DescribeReplicationGroups
  <1>2. w.pc = "group" /\ UNCHANGED <<cr, img, exp, rest>> /\ bucket' \in BOOLEAN
    BY DEF DescribeReplicationGroups, OnAWS, At, NoCR, IInv, TypeOK
  <1>3. l \in {"idle", "progress", "create"} \/ (l = "complete" /\ w.seen = "available")
    <2>1. CASE parent \in {"new", "starting", "gone"}
      <3>1. parent # "complete"
        BY <2>1
      <3>2. l = "idle"
        BY <2>1, <3>1, Zenon
      <3> HIDE DEF l
      <3> QED
        BY <3>2
    <2>2. CASE parent \notin {"new", "starting", "gone"} /\ parent = "complete" /\ w.seen = "absent"
      <3>1. w.seen # "available"
        BY <2>2
      <3>2. l = "create"
        BY <2>2, <3>1, Zenon
      <3> HIDE DEF l
      <3> QED
        BY <3>2
    <2>3. CASE parent \notin {"new", "starting", "gone"} /\ parent = "complete" /\ w.seen = "available"
      <3>1. w.seen # "absent"
        BY <2>3
      <3>2. l = "complete"
        BY <2>3, <3>1, Zenon
      <3> HIDE DEF l
      <3> QED
        BY <2>3, <3>2
    <2>4. CASE /\ parent \notin {"new", "starting", "gone"}
               /\ ~(parent = "complete" /\ w.seen = "absent")
               /\ ~(parent = "complete" /\ w.seen = "available")
      <3>1. l = "progress"
        BY <2>4, Zenon
      <3> HIDE DEF l
      <3> QED
        BY <3>1
    <2> HIDE DEF l
    <2> QED
      BY <2>1, <2>2, <2>3, <2>4, Zenon
  <1> HIDE DEF l
  <1>4. l \in Steps /\ l \notin DeleteSteps \cup Emptied \cup {"group", "skip", "protect", "others", "clear"}
    BY <1>3 DEF Steps, CreateSteps, DeleteSteps, StatusSteps, Emptied
  <1>5. "group" \in Held \cap Named
    BY Zenon DEF Held, Named, CreateSteps
  <1>6. ~Lost /\ l \in Seen => img[w.s] = "available"
    <2>1. l \in Seen => w.seen = "available"
      BY <1>3, Zenon DEF Seen
    <2> QED
      BY <1>2, <2>1, CopyFacts DEF Allowed
  <1>7. w' \in Workers /\ Allowed(w')
    BY <1>1, <1>2, <1>4, <1>5, <1>6, GotoAllowed, Zenon
  <1> QED
    BY <1>2, <1>7, MoveKeeps, Zenon

LEMMA CreateSnapshotKeeps ==
  ASSUME IInv, CreateSnapshot
  PROVE  IInv'
  <1>1. /\ w.pc = "create" /\ kind # "cloudsql" /\ UNCHANGED <<cr, exp, rest, bucket>>
        /\ UNCHANGED <<kind, parent, sch, old, history, calm>>
    BY DEF CreateSnapshot, OnAWS, At, NoCR, rest, schedule
  <1>2. {"failed", "progress"} \subseteq Loose
    BY Zenon DEF Loose
  <1>3. CASE img[w.s] = "absent" /\ img' = [img EXCEPT ![w.s] = "creating"] /\ Reply("progress")
    <2>1. w' \in Workers /\ Allowed(w)'
      BY <1>1, <1>2, <1>3, LooseNext, Zenon
    <2>2. /\ w.s \in Snaps /\ img \in [Snaps -> Images] /\ bucket' \in BOOLEAN /\ exp = None
          /\ history \in SUBSET Oddities /\ ImageInv /\ CompleteIsUsable
      BY <1>1, CopyFacts, Zenon DEF TypeOK, CRInv, IInv
    <2>3. Kept(w.s)
      BY <1>1, CopyFacts, Zenon DEF Allowed, Held, Named, CreateSteps, Kept
    <2>4. /\ img' \in [Snaps -> Images] /\ img'[w.s] = "creating"
          /\ \A s \in Snaps : s # w.s => img'[s] = img[s]
      BY <1>3, <2>2, ZenonT(60) DEF Images
    <2>5. ImageInv'
      BY <1>1, <2>2, <2>3, <2>4 DEF ImageInv, Leaves, Kept, Stored, Twice
    <2>6. CompleteIsUsable'
      BY <1>1, <1>3, <2>2, <2>4 DEF CompleteIsUsable
    <2> QED
      BY <1>1, <2>1, <2>2, <2>4, <2>5, <2>6, CloudKeeps, Zenon DEF Disturbed
  <1>4. CASE Goto("failed") /\ UNCHANGED img
    <2>1. Branch("failed")
      BY <1>1, <1>4, Zenon DEF Branch, cloud
    <2> QED
      BY <1>1, <1>2, <2>1, LooseKeeps, Zenon
  <1> QED
    BY <1>3, <1>4, Zenon DEF CreateSnapshot

LEMMA FindForDeleteKeeps ==
  ASSUME IInv, FindForDelete
  PROVE  IInv'
  <1> DEFINE l == IF cr[w.s].id /\ img[w.s] # "absent" THEN "d_image" ELSE "d_fin"
  <1>1. /\ w.pc = "d_find" /\ kind # "cloudsql" /\ UNCHANGED <<cr, img, exp, rest>>
        /\ bucket' \in BOOLEAN /\ Goto(l)
    BY DEF FindForDelete, OnAWS, At, NoCR, IInv, TypeOK
  <1>2. l \in {"d_image", "d_fin"} /\ (l = "d_fin" => ~cr[w.s].id \/ img[w.s] = "absent")
    OBVIOUS
  <1> HIDE DEF l
  <1>3. l \in Steps /\ l \notin Held \cup Named \cup Seen \cup {"group"} /\ "d_find" \in DeleteSteps
    BY <1>2, Zenon DEF Steps, CreateSteps, DeleteSteps, Held, Named, Seen
  <1>4. w.s \in Snaps /\ exp # w.s
    BY <1>1, CopyFacts, SnapsFacts, Zenon DEF IInv, CRInv
  <1>5. ~Twice /\ l \in Emptied => ~Leaves(w.s)
    <2> SUFFICES ASSUME ~Twice, l = "d_fin" PROVE img[w.s] = "absent"
      BY <1>2, <1>4, Zenon DEF Emptied, Leaves
    <2>1. cr[w.s].life = "deleting"
      BY <1>1, <1>3, CopyFacts, Zenon DEF Allowed
    <2> QED
      BY <1>2, <1>4, <2>1, Zenon DEF IInv, ImageInv, Kept, Leaves, Stored
  <1>6. w' \in Workers /\ Allowed(w')
    BY <1>1, <1>3, <1>5, GotoAllowed, Zenon
  <1> QED
    BY <1>1, <1>6, MoveKeeps, Zenon

LEMMA DeleteSnapshotKeeps ==
  ASSUME IInv, DeleteSnapshot
  PROVE  IInv'
  <1>1. /\ w.pc = "d_image" /\ kind # "cloudsql" /\ UNCHANGED <<cr, exp, rest, bucket>>
        /\ UNCHANGED <<kind, parent, sch, old, history, calm>>
    BY DEF DeleteSnapshot, OnAWS, At, NoCR, rest, schedule
  <1>2. {"failed", "delprog"} \subseteq Loose
    BY Zenon DEF Loose
  <1>3. CASE img[w.s] = "available" /\ img' = [img EXCEPT ![w.s] = "deleting"] /\ Reply("delprog")
    <2>1. w' \in Workers /\ Allowed(w)'
      BY <1>1, <1>2, <1>3, LooseNext, Zenon
    <2>2. /\ w.s \in Snaps /\ img \in [Snaps -> Images] /\ bucket' \in BOOLEAN /\ exp = None
          /\ history \in SUBSET Oddities /\ ImageInv /\ CompleteIsUsable
      BY <1>1, CopyFacts, Zenon DEF TypeOK, CRInv, IInv
    <2>3. cr[w.s].life = "deleting"
      BY <1>1, CopyFacts, Zenon DEF Allowed, DeleteSteps
    <2>4. /\ img' \in [Snaps -> Images] /\ img'[w.s] = "deleting"
          /\ \A s \in Snaps : s # w.s => img'[s] = img[s]
      BY <1>3, <2>2, Zenon DEF Images
    <2>5. ImageInv'
      BY <1>1, <1>3, <2>2, <2>4 DEF ImageInv, Leaves, Kept, Stored, Twice
    <2>6. CompleteIsUsable'
      BY <1>1, <2>2, <2>3, <2>4 DEF CompleteIsUsable
    <2> QED
      BY <1>1, <2>1, <2>2, <2>4, <2>5, <2>6, CloudKeeps, Zenon DEF Disturbed
  <1>4. CASE Goto("failed") /\ UNCHANGED img
    <2>1. Branch("failed")
      BY <1>1, <1>4, Zenon DEF Branch, cloud
    <2> QED
      BY <1>1, <1>2, <2>1, LooseKeeps, Zenon
  <1> QED
    BY <1>3, <1>4, Zenon DEF DeleteSnapshot

\* What AWS does by itself, or someone does to it.
LEMMA AWSKeeps ==
  ASSUME IInv, SnapshotProgress \/ SnapshotLost
  PROVE  IInv'
  <1>1. /\ kind # "cloudsql" /\ UNCHANGED <<cr, w, exp, bucket, kind, parent, sch, old, calm>>
        /\ history' \in {history, history \cup {"snapshot lost"}}
        /\ SnapshotProgress => history' = history
    BY ZenonT(60) DEF SnapshotProgress, SnapshotLost, NoCR, rest, schedule
  <1>2. /\ img \in [Snaps -> Images] /\ bucket \in BOOLEAN /\ exp = None /\ exp \in Snaps \cup {None}
        /\ history \in SUBSET Oddities /\ ImageInv /\ CompleteIsUsable /\ Allowed(w) /\ w \in Workers
    BY <1>1, CopyFacts DEF TypeOK, CRInv, IInv
  <1>3. history' \in SUBSET Oddities /\ (Disturbed' <=> Disturbed) /\ (Twice' <=> Twice)
        /\ (Lost => Lost')
    BY <1>1, <1>2 DEF Oddities, Disturbed, Twice, Lost
  <1>4. /\ img' \in [Snaps -> Images]
        /\ \A s \in Snaps : img[s] = "absent" => img'[s] = "absent"
        /\ ~Lost' => \A s \in Snaps : img[s] = "available" => img'[s] = "available"
    <2>1. CASE SnapshotProgress
      <3>1. PICK s \in Snaps : \/ img[s] = "creating" /\ img' = [img EXCEPT ![s] = "available"]
                               \/ img[s] = "deleting" /\ img' = [img EXCEPT ![s] = "absent"]
        BY <2>1, Zenon DEF SnapshotProgress
      <3> QED
        BY <1>2, <3>1, Zenon DEF Images
    <2>2. CASE SnapshotLost
      <3>1. PICK s \in Snaps : img[s] = "available" /\ img' = [img EXCEPT ![s] = "absent"]
        BY <2>2 DEF SnapshotLost
      <3>2. Lost'
        BY <2>2 DEF SnapshotLost, Lost
      <3> QED
        BY <1>2, <3>1, <3>2, Zenon DEF Images
    <2> QED
      BY <2>1, <2>2, Zenon
  <1>5. ImageInv'
    BY <1>1, <1>2, <1>3, <1>4 DEF ImageInv, Leaves, Kept, Stored
  <1>6. CompleteIsUsable'
    BY <1>1, <1>2, <1>3, <1>4, ZenonT(60) DEF CompleteIsUsable, Lost
  <1>7. Allowed(w)'
    <2>1. w.pc \in Emptied \cup Seen \cup {"group"} => w.s \in Snaps
      BY <1>2, Zenon DEF Allowed, Emptied, Seen
    <2> QED
      BY <1>1, <1>2, <1>3, <1>4, <2>1, ZenonT(60) DEF Allowed, Stored, Leaves
  <1> QED
    BY <1>1, <1>2, <1>3, <1>4, <1>5, <1>6, <1>7, CloudKeeps
----------------------------------------------------------------------------
(* Google Cloud.                                                           *)

\* Of some CRs one is the newest.
LEMMA NewestExists ==
  ASSUME NEW T \in SUBSET Snaps, T # {}
  PROVE  \E s \in T : \A t \in T : t <= s
  <1>1. PICK m \in Nat : \A s \in Snaps : s \in Nat /\ s <= m
    BY SnapsFacts, Zenon
  <1> DEFINE U == {m - t : t \in T}
             R == OpToRel(<, Nat)
  <1>2. U \subseteq Nat /\ U # {}
    BY <1>1
  <1>3. PICK x \in U : \A y \in U : ~(<<y, x>> \in R)
    <2>1. IsWellFoundedOn(R, Nat)
      BY NatLessThanWellFounded
    <2> HIDE DEF U, R
    <2> QED
      BY <1>2, <2>1, WFMin, Zenon
  <1>4. PICK s \in T : x = m - s
    BY <1>3
  <1>5. ASSUME NEW t \in T PROVE t <= s
    <2>1. m - t \in Nat /\ m - s \in Nat /\ t \in Nat /\ s \in Nat
      BY <1>1
    <2>2. ~(<<m - t, m - s>> \in R)
      BY <1>3, <1>4
    <2>3. ~(m - t < m - s)
      BY <2>1, <2>2, Zenon DEF OpToRel
    <2> QED
      BY <2>1, <2>3
  <1> QED
    BY <1>5, Zenon

\* getLatestPostgresSnapshot finds the newest complete CR, if there is one.
LEMMA LatestFacts ==
  ASSUME LatestPostgresSnapshot # None
  PROVE  /\ LatestPostgresSnapshot \in Existing /\ cr[LatestPostgresSnapshot].complete
         /\ \A s \in Existing : cr[s].complete => s <= LatestPostgresSnapshot
  <1> DEFINE T == {s \in Existing : cr[s].complete}
  <1>1. T # {} /\ LatestPostgresSnapshot = CHOOSE s \in T : \A t \in T : t <= s
    BY DEF LatestPostgresSnapshot
  <1>2. T \in SUBSET Snaps
    BY DEF Existing
  <1>3. \E s \in T : \A t \in T : t <= s
    <2> HIDE DEF T
    <2> QED
      BY <1>1, <1>2, NewestExists, Zenon
  <1>4. LatestPostgresSnapshot \in T /\ \A t \in T : t <= LatestPostgresSnapshot
    <2> HIDE DEF T
    <2> QED
      BY <1>1, <1>3, Zenon
  <1> QED
    BY <1>4, Zenon

LEMMA GetObjectMetadataKeeps ==
  ASSUME IInv, GetObjectMetadata
  PROVE  IInv'
  <1> DEFINE l == CASE img[w.s] = "available" -> "skip"
                    [] img[w.s] # "available" /\ w.par = "complete" -> "bucket"
                    [] OTHER -> "failed"
  <1>1. Goto(l)
    BY Zenon DEF GetObjectMetadata
  <1>2. w.pc = "meta" /\ UNCHANGED <<cr, img, exp, rest>> /\ bucket' \in BOOLEAN
    BY Zenon DEF GetObjectMetadata, OnGCP, At, SameCR, cloud, IInv, TypeOK
  <1>3. l \in {"bucket", "failed"} \/ (l = "skip" /\ img[w.s] = "available")
    <2>1. CASE img[w.s] = "available"
      <3>1. l = "skip"
        BY <2>1, Zenon
      <3> HIDE DEF l
      <3> QED
        BY <2>1, <3>1
    <2>2. CASE img[w.s] # "available" /\ w.par = "complete"
      <3>1. l = "bucket"
        BY <2>2, Zenon
      <3> HIDE DEF l
      <3> QED
        BY <3>1
    <2>3. CASE img[w.s] # "available" /\ ~(img[w.s] # "available" /\ w.par = "complete")
      <3>1. l = "failed"
        BY <2>3, Zenon
      <3> HIDE DEF l
      <3> QED
        BY <3>1
    <2> HIDE DEF l
    <2> QED
      BY <2>1, <2>2, <2>3, Zenon
  <1> HIDE DEF l
  <1>4. /\ l \in Steps /\ l \notin DeleteSteps \cup Emptied \cup {"group"}
        /\ l \in Seen => l = "skip"
    BY <1>3, Zenon DEF Steps, CreateSteps, DeleteSteps, StatusSteps, Emptied, Seen
  <1>5. "meta" \in Held \cap Named
    BY Zenon DEF Held, Named, CreateSteps
  <1>6. w' \in Workers /\ Allowed(w')
    BY <1>1, <1>2, <1>3, <1>4, <1>5, GotoAllowed, Zenon
  <1> QED
    BY <1>2, <1>6, MoveKeeps

LEMMA CreateBucketKeeps ==
  ASSUME IInv, CreateBucket
  PROVE  IInv'
  <1>1. /\ w.pc = "bucket" /\ UNCHANGED <<cr, img, exp, rest>> /\ bucket' \in BOOLEAN
        /\ Goto("export") \/ Goto(OnError(w.pc))
    BY DEF CreateBucket, OnGCP, At, SameCR, Reply
  <1>2. OnError(w.pc) = "failed"
    BY <1>1, Zenon DEF OnError, CreateSteps
  <1>3. /\ {"export", "failed"} \subseteq Steps
        /\ {"export", "failed"} \cap (DeleteSteps \cup Emptied \cup Seen \cup {"group"}) = {}
        /\ "bucket" \in Held \cap Named
    BY Zenon DEF Steps, StatusSteps, CreateSteps, DeleteSteps, Emptied, Seen, Held, Named
  <1>4. w' \in Workers /\ Allowed(w')
    BY <1>1, <1>2, <1>3, GotoAllowed, Zenon
  <1> QED
    BY <1>1, <1>4, MoveKeeps, Zenon

LEMMA ExportDatabaseKeeps ==
  ASSUME IInv, ExportDatabase
  PROVE  IInv'
  <1>1. w.pc = "export" /\ kind = "cloudsql" /\ UNCHANGED <<cr, img, bucket, kind, parent, sch, old, calm>>
    BY Zenon DEF ExportDatabase, OnGCP, At, schedule
  <1>2. {"failed", "progress"} \subseteq Loose
    BY DEF Loose
  <1>3. CASE Export /\ Reply("progress")
    <2>1. w' \in Workers /\ Allowed(w)'
      BY <1>1, <1>2, <1>3, LooseNext, Zenon
    <2>2. /\ w.s \in Snaps /\ img \in [Snaps -> Images] /\ bucket \in BOOLEAN
          /\ \A s \in Snaps : img[s] \in {"absent", "available"}
          /\ exp \in Snaps \cup {None} /\ ~Lost
          /\ history \in SUBSET Oddities /\ ImageInv /\ CompleteIsUsable
      BY <1>1, CopyFacts, ZenonT(60) DEF TypeOK, CRInv, IInv
    <2>3. Kept(w.s)
      BY <1>1, CopyFacts, Zenon DEF Allowed, Held, Named, CreateSteps, Kept
    <2>4. /\ exp' \in {exp, w.s} /\ exp' \in Snaps \cup {None}
          /\ exp' # exp /\ img[w.s] = "available" => Twice'
          /\ history' \in SUBSET Oddities
          /\ (Disturbed' <=> Disturbed) /\ ~Lost' /\ (Twice => Twice')
      BY <1>3, <2>2 DEF Export, Note, Twice, Disturbed, Lost, Oddities
    <2>5. ImageInv'
      <3> SUFFICES ASSUME ~Twice' PROVE /\ \A s \in Snaps : Leaves(s)' => Kept(s)'
                                        /\ exp' # None => img[exp'] = "absent"
        BY <1>1, Zenon DEF ImageInv
      <3>1. /\ \A s \in Snaps : Leaves(s) => Kept(s)
            /\ exp # None => img[exp] = "absent"
        BY <2>2, <2>4, Zenon DEF ImageInv
      <3>2. \A s \in Snaps : Kept(s)' <=> Kept(s)
        BY <1>1, Zenon DEF Kept, Stored
      <3>3. \A s \in Snaps : Leaves(s)' => Leaves(s) \/ s = w.s
        BY <1>1, <2>4, Zenon DEF Leaves
      <3>4. exp' # None => img[exp'] = "absent"
        BY <2>2, <2>4, <3>1, Zenon
      <3> QED
        BY <2>3, <3>1, <3>2, <3>3, <3>4, Zenon
    <2>6. CompleteIsUsable'
      BY <1>1, <2>2 DEF CompleteIsUsable, Lost
    <2> QED
      BY <1>1, <2>1, <2>2, <2>4, <2>5, <2>6, CloudKeeps, Zenon
  <1>4. CASE Goto("failed") /\ UNCHANGED <<exp, history>>
    <2>1. Branch("failed")
      BY <1>1, <1>4, Zenon DEF Branch, cloud, rest, schedule
    <2> QED
      BY <1>1, <1>2, <2>1, LooseKeeps, Zenon
  <1> QED
    BY <1>3, <1>4, Zenon DEF ExportDatabase

LEMMA ReconcileSkipDeleteKeeps ==
  ASSUME IInv, ReconcileSkipDelete
  PROVE  IInv'
  <1> DEFINE l == LatestPostgresSnapshot
             p == CASE l = None -> "complete"
                    [] l = w.s -> "protect"
                    [] OTHER -> "others"
  <1>1. w' = [w EXCEPT !.latest = l, !.clear = l # None /\ cr[l].skip, !.pc = p]
    BY Zenon DEF ReconcileSkipDelete
  <1>2. w.pc = "skip" /\ UNCHANGED <<cr, img, exp, rest>> /\ bucket' \in BOOLEAN
    BY Zenon DEF ReconcileSkipDelete, OnGCP, At, SameCR, cloud, IInv, TypeOK
  <1>3. w.s \in Snaps /\ w \in Workers /\ Allowed(w) /\ cr \in [Snaps -> CRs]
    BY <1>2, CopyFacts, Zenon
  <1>4. l \in Snaps \cup {None}
    BY LatestFacts DEF Existing
  <1> HIDE DEF l
  <1>5. p \in {"complete", "protect", "others"}
    <2>1. CASE l = None
      <3>1. l # w.s
        BY <1>3, <2>1, SnapsFacts
      <3>2. p = "complete"
        BY <2>1, <3>1, Zenon
      <3> HIDE DEF p
      <3> QED
        BY <3>2
    <2>2. CASE l # None /\ l = w.s
      <3>1. p = "protect"
        BY <2>2, Zenon
      <3> HIDE DEF p
      <3> QED
        BY <3>1
    <2>3. CASE l # None /\ l # w.s
      <3>1. p = "others"
        BY <2>3, Zenon
      <3> HIDE DEF p
      <3> QED
        BY <3>1
    <2> HIDE DEF p
    <2> QED
      BY <2>1, <2>2, <2>3
  <1> HIDE DEF p
  <1>6. p \in Steps /\ p # "idle" /\ p # "group" /\ p \notin DeleteSteps \cup Emptied
    BY <1>5, Zenon DEF Steps, CreateSteps, DeleteSteps, StatusSteps, Emptied
  <1>7. (l # None /\ cr[l].skip) \in BOOLEAN
    BY <1>3, <1>4 DEF CRs
  <1>8. w' \in Workers /\ w'.pc = p /\ w'.s = w.s /\ w'.fresh = w.fresh
    BY <1>1, <1>3, <1>4, <1>6, <1>7, ZenonT(60) DEF Workers
  <1>9. "skip" \in Held \cap Named \cap Seen
    BY DEF Held, Named, CreateSteps, Seen
  <1>10. Allowed(w')
    BY <1>2, <1>3, <1>6, <1>8, <1>9, NextAllowed, Zenon DEF Allowed
  <1> QED
    BY <1>2, <1>8, <1>10, MoveKeeps, Zenon

LEMMA ListOthersKeeps ==
  ASSUME IInv, ListOthers
  PROVE  IInv'
  <1>1. w.pc = "others" /\ UNCHANGED <<cr, img, exp, rest>> /\ bucket' \in BOOLEAN
    BY Zenon DEF ListOthers, OnGCP, At, SameCR, cloud, IInv, TypeOK
  <1>2. w.s \in Snaps /\ w \in Workers /\ Allowed(w)
    BY <1>1, CopyFacts
  <1>3. (Existing \ {w.latest}) \in SUBSET Snaps
    BY DEF Existing
  <1>4. {"clear", "complete"} \subseteq Steps
    BY DEF Steps, CreateSteps, StatusSteps
  <1>5. w' \in Workers /\ w'.pc \in {"clear", "complete"} /\ w'.s = w.s /\ w'.fresh = w.fresh
    BY <1>2, <1>3, <1>4, ZenonT(60) DEF ListOthers, Workers
  <1>6. /\ "others" \in Held \cap Named \cap Seen
        /\ {"clear", "complete"} \cap (DeleteSteps \cup Emptied \cup {"idle", "group"}) = {}
    BY ZenonT(60) DEF Held, Named, CreateSteps, DeleteSteps, Emptied, Seen
  <1>7. Allowed(w')
    BY <1>1, <1>2, <1>5, <1>6, NextAllowed DEF Allowed
  <1> QED
    BY <1>1, <1>5, <1>7, MoveKeeps, Zenon

LEMMA ClearOtherKeeps ==
  ASSUME IInv, ClearOther
  PROVE  IInv'
  <1>1. w.pc = "clear" /\ UNCHANGED <<img, bucket, exp, rest>>
    BY Zenon DEF ClearOther, OnGCP, At, cloud
  <1>2. w.s \in Snaps /\ w \in Workers /\ Allowed(w) /\ cr \in [Snaps -> CRs] /\ bucket \in BOOLEAN
    BY <1>1, CopyFacts, Zenon DEF TypeOK
  <1>3. /\ "clear" \in Held \cap Named \cap Seen
        /\ "clear" \notin DeleteSteps \cup Emptied
        /\ "complete" \in Steps /\ "complete" \notin DeleteSteps \cup Emptied \cup {"group"}
        /\ "failed" \in Loose
    BY Zenon DEF Held, Named, Steps, StatusSteps, CreateSteps, DeleteSteps, Emptied, Seen, Loose
  <1>4. cr[w.s].fin /\ cr[w.s].id /\ Stored(w.s) /\ (~Lost => img[w.s] = "available")
    BY <1>1, <1>2, <1>3, Zenon DEF Allowed
  <1>5. CASE Goto("complete") /\ UNCHANGED cr
    <2>1. w' \in Workers /\ Allowed(w')
      BY <1>1, <1>3, <1>4, <1>5, GotoAllowed, Zenon
    <2> QED
      BY <1>1, <1>2, <1>5, <2>1, MoveKeeps, Zenon
  <1>6. CASE Goto("failed") /\ UNCHANGED cr
    <2>1. Branch("failed")
      BY <1>1, <1>6 DEF Branch, cloud
    <2> QED
      BY <1>1, <1>3, <2>1, LooseKeeps, Zenon
  <1>7. ASSUME NEW t \in w.todo, Stored(t), cr' = [cr EXCEPT ![t].skip = FALSE],
               w' = [w EXCEPT !.todo = @ \ {t}, !.fresh = @ /\ ~(t = w.s /\ cr[t].skip)]
        PROVE  IInv'
    <2> DEFINE new == [cr[t] EXCEPT !.skip = FALSE]
    <2>1. t \in Snaps
      BY <1>2 DEF Workers
    <2>2. cr[t] \in CRs /\ cr' = [cr EXCEPT ![t] = new]
      BY <1>2, <1>7, <2>1
    <2>3. /\ new \in CRs /\ new.life = cr[t].life /\ new.fin = cr[t].fin
          /\ new.id = cr[t].id /\ new.complete = cr[t].complete
      BY <2>2, Zenon DEF CRs
    <2> HIDE DEF new
    <2>4. w' \in Workers /\ w'.pc = w.pc /\ w'.s = w.s /\ (w'.fresh => w.fresh)
      BY <1>2, <1>7, ZenonT(60) DEF Workers
    <2>5. cr'[w.s].life = cr[w.s].life /\ cr'[w.s].fin = cr[w.s].fin /\ cr'[w.s].id = cr[w.s].id
      BY <1>2, <2>1, <2>2, <2>3, Zenon
    <2>6. UNCHANGED <<history, img, bucket, exp, kind, parent, sch, old, calm>>
      BY <1>1, SMTT(60) DEF rest, schedule
    <2>7. Allowed(w)'
      BY <1>1, <1>2, <1>3, <1>4, <2>4, <2>5, <2>6, Zenon DEF Allowed, Stored, Lost
    <2> QED
      BY <1>7, <2>1, <2>2, <2>3, <2>4, <2>6, <2>7, UpdateKeeps, ZenonT(60)
  <1> QED
    BY <1>5, <1>6, <1>7, ZenonT(60) DEF ClearOther

\* An object that is deleted is not written again by an export that runs.
LEMMA DeleteObjectKeeps ==
  ASSUME IInv, DeleteObject
  PROVE  IInv'
  <1>1. /\ w.pc = "d_object" /\ kind = "cloudsql" /\ UNCHANGED <<cr, exp, rest, bucket>>
        /\ UNCHANGED <<kind, parent, sch, old, history, calm>>
    BY DEF DeleteObject, OnGCP, At, SameCR, rest, schedule
  <1>2. "failed" \in Loose
    BY DEF Loose
  <1>3. CASE img[w.s] = "available" /\ img' = [img EXCEPT ![w.s] = "absent"] /\ Reply("d_list")
    <2>1. /\ w.s \in Snaps /\ img \in [Snaps -> Images] /\ bucket \in BOOLEAN /\ exp \in Snaps \cup {None}
          /\ history \in SUBSET Oddities /\ ImageInv /\ CompleteIsUsable /\ TypeOK /\ w.fresh \in BOOLEAN
          /\ ~Lost /\ (\A s \in Snaps : img[s] \in {"absent", "available"})
          /\ Allowed(w) /\ cr[w.s].life = "deleting"
      BY <1>1, CopyFacts, ZenonT(60) DEF TypeOK, CRInv, IInv, Workers, Allowed, DeleteSteps
    <2>2. /\ img' \in [Snaps -> Images] /\ img'[w.s] = "absent"
          /\ \A s \in Snaps : s # w.s => img'[s] = img[s]
      BY <1>3, <2>1, Zenon DEF Images
    <2>3. ~Twice => exp # w.s
      BY <1>3, <2>1, SnapsFacts, Zenon DEF ImageInv
    <2>4. ImageInv'
      BY <1>1, <1>3, <2>1, <2>2, <2>3, ZenonT(60) DEF ImageInv, Leaves, Kept, Stored, Twice
    <2>5. CompleteIsUsable'
      BY <1>1, <2>1, <2>2 DEF CompleteIsUsable
    <2>6. OnError(w.pc) = "failed"
      BY <1>1 DEF OnError, DeleteSteps
    <2>7. PICK l \in {"d_list", "failed"} : w' = After(l, w.fresh)
      BY <1>3, <2>6, Zenon DEF Reply, Goto
    <2>8. l \in Steps /\ l # "idle" /\ l \notin Held \cup Named \cup Seen \cup {"group"}
      BY <2>7, Zenon DEF Steps, StatusSteps, DeleteSteps, Held, Named, CreateSteps, Seen
    <2>9. w' \in Workers /\ w'.pc = l /\ w'.s = w.s /\ w'.fresh = w.fresh
      BY <2>1, <2>7, <2>8, AfterFacts, ZenonT(60)
    <2>10. ~Twice => ~Leaves(w.s)'
      BY <1>1, <2>2, <2>3, <2>9, Zenon DEF Leaves
    <2>11. Allowed(w)'
      BY <1>1, <2>1, <2>8, <2>9, <2>10 DEF Allowed, Stored, Twice
    <2> QED
      BY <1>1, <2>1, <2>2, <2>4, <2>5, <2>9, <2>11, CloudKeeps, ZenonT(60) DEF Disturbed, Lost
  <1>4. CASE Goto("failed") /\ UNCHANGED img
    <2>1. Branch("failed")
      BY <1>1, <1>4, Zenon DEF Branch, cloud
    <2> QED
      BY <1>1, <1>2, <2>1, LooseKeeps, Zenon
  <1> QED
    BY <1>3, <1>4, Zenon DEF DeleteObject

LEMMA ListObjectsKeeps ==
  ASSUME IInv, ListObjects
  PROVE  IInv'
  <1> DEFINE l == CASE w.s \in Objects -> "delprog"
                    [] Objects = {} -> IF bucket THEN "d_bucket" ELSE "failed"
                    [] OTHER -> "d_fin"
  <1>1. Goto(l)
    BY Zenon DEF ListObjects
  <1>2. w.pc = "d_list" /\ UNCHANGED <<cr, img, exp, rest>> /\ bucket' \in BOOLEAN
    BY DEF ListObjects, OnGCP, At, SameCR, cloud, IInv, TypeOK
  <1>3. l \in {"delprog", "d_bucket", "failed", "d_fin"}
    <2>1. CASE w.s \in Objects
      <3>1. Objects # {}
        BY <2>1
      <3>2. l = "delprog"
        BY <2>1, <3>1, Zenon
      <3> HIDE DEF l
      <3> QED
        BY <3>2
    <2>2. CASE w.s \notin Objects /\ Objects = {}
      <3>1. l = IF bucket THEN "d_bucket" ELSE "failed"
        BY <2>2, Zenon
      <3> HIDE DEF l
      <3> QED
        BY <3>1
    <2>3. CASE w.s \notin Objects /\ Objects # {}
      <3>1. l = "d_fin"
        BY <2>3, Zenon
      <3> HIDE DEF l
      <3> QED
        BY <3>1
    <2> HIDE DEF l
    <2> QED
      BY <2>1, <2>2, <2>3, Zenon
  <1> HIDE DEF l
  <1>4. /\ l \in Steps /\ l \notin Held \cup Named \cup Seen \cup {"group"}
        /\ "d_list" \in DeleteSteps \cap Emptied
    BY <1>3, Zenon DEF Steps, CreateSteps, DeleteSteps, StatusSteps, Emptied, Held, Named, Seen
  <1>5. ~Twice => ~Leaves(w.s)
    BY <1>2, <1>4, CopyFacts, Zenon DEF Allowed
  <1>6. w' \in Workers /\ Allowed(w')
    BY <1>1, <1>2, <1>4, <1>5, GotoAllowed, Zenon
  <1> QED
    BY <1>2, <1>6, MoveKeeps, Zenon

LEMMA DeleteBucketKeeps ==
  ASSUME IInv, DeleteBucket
  PROVE  IInv'
  <1>1. w.pc = "d_bucket" /\ UNCHANGED <<cr, img, exp, rest>>
    BY DEF DeleteBucket, OnGCP, At, SameCR
  <1>2. OnError(w.pc) = "failed"
    BY <1>1 DEF OnError, DeleteSteps
  <1>3. bucket' \in BOOLEAN /\ (Goto("d_fin") \/ Goto("failed"))
    BY <1>2, CopyFacts, ZenonT(60) DEF DeleteBucket, Reply, TypeOK
  <1>4. /\ {"d_fin", "failed"} \subseteq Steps
        /\ {"d_fin", "failed"} \cap (Held \cup Named \cup Seen \cup {"group"}) = {}
        /\ "d_bucket" \in DeleteSteps \cap Emptied
    BY Zenon DEF Steps, CreateSteps, DeleteSteps, StatusSteps, Emptied, Held, Named, Seen
  <1>5. ~Twice => ~Leaves(w.s)
    BY <1>1, <1>4, CopyFacts, Zenon DEF Allowed
  <1>6. w' \in Workers /\ Allowed(w')
    BY <1>1, <1>3, <1>4, <1>5, GotoAllowed, ZenonT(60)
  <1> QED
    BY <1>1, <1>3, <1>6, MoveKeeps, Zenon

LEMMA ExportEndsKeeps ==
  ASSUME IInv, ExportEnds
  PROVE  IInv'
  <1>1. /\ kind = "cloudsql" /\ exp # None /\ exp' = None
        /\ UNCHANGED <<cr, w, bucket, kind, parent, sch, old, history, calm>>
        /\ img' \in {img, [img EXCEPT ![exp] = "available"]}
    BY Zenon DEF ExportEnds, SameCR, rest, schedule
  <1>2. /\ img \in [Snaps -> Images] /\ bucket \in BOOLEAN /\ exp \in Snaps
        /\ ~Lost /\ (\A s \in Snaps : img[s] \in {"absent", "available"})
        /\ history \in SUBSET Oddities /\ ImageInv /\ CompleteIsUsable /\ Allowed(w) /\ w \in Workers
    BY <1>1, CopyFacts, Zenon DEF TypeOK, CRInv, IInv
  <1>3. /\ img' \in [Snaps -> Images]
        /\ \A s \in Snaps : /\ img'[s] \in {"absent", "available"}
                            /\ s # exp => img'[s] = img[s]
                            /\ img[s] = "available" => img'[s] = "available"
    BY <1>1, <1>2, Zenon DEF Images
  <1>4. \A s \in Snaps : Leaves(s)' => Leaves(s)
    BY <1>1, <1>3, SnapsFacts, ZenonT(60) DEF Leaves
  <1>5. ImageInv'
    BY <1>1, <1>2, <1>4 DEF ImageInv, Kept, Stored, Twice
  <1>6. CompleteIsUsable'
    BY <1>1, <1>2, <1>3, ZenonT(60) DEF CompleteIsUsable
  <1>7. Allowed(w)'
    <2>1. w.pc \in Emptied \cup Seen \cup {"group"} => w.s \in Snaps
      BY <1>2, ZenonT(60) DEF Allowed, Emptied, Seen
    <2>2. w.s \in Snaps => (Leaves(w.s)' => Leaves(w.s))
      BY <1>1, <1>4, ZenonT(60) DEF Leaves
    <2> QED
      BY <1>1, <1>2, <1>3, <2>1, <2>2, ZenonT(60) DEF Allowed, Stored, Lost, Twice
  <1> QED
    BY <1>1, <1>2, <1>3, <1>5, <1>6, <1>7, CloudKeeps DEF Disturbed, Lost
----------------------------------------------------------------------------
(* The schedule.                                                           *)

\* A step that changes what the schedule is to delete, or whose retention has
\* expired.
LEMMA ScheduleKeeps ==
  ASSUME IInv, UNCHANGED <<cr, w, img, bucket, exp, kind, parent, calm>>,
         sch' \in [busy : BOOLEAN, list : SUBSET Snaps], old' \in SUBSET Snaps,
         history' \in {history, history \cup {"schedule disturbed"}},
         \A s \in old' : cr[s].life # "none",
         kind = "cloudsql" /\ ~Disturbed' =>
           /\ \A s \in old' : cr[s].life = "live" => cr[s].complete
           /\ \A s \in sch'.list : Newer(s)
  PROVE  IInv'
  <1>1. TypeOK /\ CRInv /\ ImageInv /\ CompleteIsUsable /\ ScheduleInv /\ Allowed(w)
    BY DEF IInv
  <1>2. (Lost' <=> Lost) /\ (Twice' <=> Twice) /\ (Disturbed => Disturbed')
    BY DEF Lost, Twice, Disturbed
  <1>3. TypeOK'
    BY <1>1, ZenonT(60) DEF TypeOK, Oddities
  <1>4. CRInv'
    BY <1>1, <1>2, ZenonT(60) DEF CRInv, Created
  <1>5. ImageInv' /\ CompleteIsUsable' /\ Allowed(w)'
    BY <1>1, <1>2, ZenonT(60) DEF ImageInv, CompleteIsUsable, Allowed, Leaves, Kept, Stored, Lost
  <1>6. ScheduleInv'
    BY <1>1, <1>2, Zenon DEF ScheduleInv, Newer
  <1> QED
    BY <1>3, <1>4, <1>5, <1>6 DEF IInv

\* The latest complete CR is not being deleted, and what else the schedule lists
\* is older, or is being deleted already.
LEMMA ListedIsOlder ==
  ASSUME IInv, kind = "cloudsql", ~Disturbed, LatestPostgresSnapshot # None,
         NEW s \in (Existing \cap old) \ {LatestPostgresSnapshot}
  PROVE  Newer(s)
  <1> DEFINE l == LatestPostgresSnapshot
  <1>1. /\ l \in Existing /\ cr[l].complete /\ \A t \in Existing : cr[t].complete => t <= l
    BY LatestFacts
  <1>2. s \in Existing /\ s \in old /\ s # l
    BY Zenon
  <1> HIDE DEF l
  <1>3. /\ \A t \in old : cr[t].life = "live" => cr[t].complete
        /\ \A t \in Snaps : cr[t].life = "deleting" => Newer(t)
    BY Zenon DEF IInv, ScheduleInv
  <1>4. l \in Snaps /\ s \in Snaps /\ Stored(l) /\ Stored(s)
    BY <1>1, <1>2, Zenon DEF Existing
  <1>5. cr[l].life = "live"
    <2> SUFFICES ASSUME cr[l].life = "deleting" PROVE FALSE
      BY <1>4, Zenon DEF Stored
    <2>1. PICK t \in Snaps : t > l /\ cr[t].life = "live" /\ cr[t].complete
      BY <1>3, <1>4, Zenon DEF Newer
    <2>2. t <= l
      BY <1>1, <2>1, Zenon DEF Existing, Stored
    <2>3. t \in Nat /\ l \in Nat
      BY <1>4, SnapsFacts, Zenon
    <2> QED
      BY <2>1, <2>2, <2>3
  <1>6. CASE cr[s].life = "deleting"
    BY <1>3, <1>4, <1>6, Zenon
  <1>7. CASE cr[s].life = "live"
    <2>1. s <= l
      BY <1>1, <1>2, <1>3, <1>7, Zenon
    <2>2. l > s
      BY <1>2, <1>4, <2>1, Order, Zenon
    <2> QED
      BY <1>1, <1>4, <1>5, <2>2, Zenon DEF Newer
  <1> QED
    BY <1>4, <1>6, <1>7, Zenon DEF Stored

\* All steps of the schedule.
LEMMA PostgresWorkerKeeps ==
  ASSUME IInv, PostgresWorker
  PROVE  IInv'
  <1>1. /\ TypeOK /\ ScheduleInv /\ sch \in [busy : BOOLEAN, list : SUBSET Snaps] /\ old \in SUBSET Snaps
        /\ \A s \in old : cr[s].life # "none"
        /\ kind = "cloudsql" /\ ~Disturbed => \A s \in old : cr[s].life = "live" => cr[s].complete
    BY DEF IInv, TypeOK, CRInv, ScheduleInv
  <1>2. /\ kind = "cloudsql"
        /\ UNCHANGED <<kind, parent, img, bucket, exp, old, history, calm>>
    BY Zenon DEF PostgresWorker, ListSnapshots, ExpireSnapshot, ScheduleSnapshot, Scheduler, cloud
  <1>3. NoSchedule \in [busy : BOOLEAN, list : SUBSET Snaps] /\ NoSchedule.list = {}
    BY Zenon DEF NoSchedule
  <1>4. CASE ListSnapshots
    <2>1. CASE NewSnapshot /\ UNCHANGED <<sch, w>>
      BY <1>1, <1>2, <2>1, NewKeeps, Zenon
    <2>2. CASE /\ LatestPostgresSnapshot # None /\ UNCHANGED <<cr, w>>
               /\ sch' = [busy |-> TRUE, list |-> (Existing \cap old) \ {LatestPostgresSnapshot}]
      <3>1. /\ sch'.list = (Existing \cap old) \ {LatestPostgresSnapshot}
            /\ sch' \in [busy : BOOLEAN, list : SUBSET Snaps]
        BY <2>2, Zenon DEF Existing
      <3>2. ~Disturbed => \A s \in sch'.list : Newer(s)
        BY <1>2, <2>2, <3>1, ListedIsOlder, Zenon
      <3>3. Disturbed' <=> Disturbed
        BY <1>2, Zenon DEF Disturbed
      <3> QED
        BY <1>1, <1>2, <2>2, <3>1, <3>2, <3>3, ScheduleKeeps, Zenon
    <2> QED
      BY <1>4, <2>1, <2>2, Zenon DEF ListSnapshots
  <1>5. CASE ExpireSnapshot
    <2>1. PICK s \in sch.list :
            IF Stored(s)
            THEN Delete(s) /\ Outdates(s) /\ sch' = [sch EXCEPT !.list = @ \ {s}]
            ELSE sch' = NoSchedule /\ UNCHANGED <<cr, w>>
      BY <1>5, Zenon DEF ExpireSnapshot
    <2>2. s \in Snaps
      BY <1>1
    <2>3. CASE Stored(s)
      <3>1. sch' \in [busy : BOOLEAN, list : SUBSET Snaps] /\ sch'.list \subseteq sch.list
        BY <1>1, <2>1, <2>3, ZenonT(60)
      <3> QED
        BY <1>2, <2>1, <2>2, <2>3, <3>1, DeleteKeeps
    <2>4. CASE ~Stored(s)
      <3>1. Disturbed' <=> Disturbed
        BY <1>2 DEF Disturbed
      <3> QED
        BY <1>1, <1>2, <1>3, <2>1, <2>4, <3>1, ScheduleKeeps, Zenon
    <2> QED
      BY <2>3, <2>4, Zenon
  <1>6. CASE ScheduleSnapshot
    <2>1. sch' = NoSchedule /\ (NewSnapshot \/ UNCHANGED cr) /\ UNCHANGED w
      BY <1>6, Zenon DEF ScheduleSnapshot
    <2>2. Disturbed' <=> Disturbed
      BY <1>2 DEF Disturbed
    <2>3. CASE NewSnapshot
      BY <1>2, <1>3, <2>1, <2>3, NewKeeps, Zenon
    <2>4. CASE UNCHANGED cr
      BY <1>1, <1>2, <1>3, <2>1, <2>2, <2>4, ScheduleKeeps, Zenon
    <2> QED
      BY <2>1, <2>3, <2>4, Zenon
  <1> QED
    BY <1>4, <1>5, <1>6, ZenonT(60) DEF PostgresWorker

LEMMA ScheduleFailsKeeps ==
  ASSUME IInv, ScheduleFails
  PROVE  IInv'
  <1>1. /\ UNCHANGED <<cr, w, img, bucket, exp, kind, parent, old, history, calm>>
        /\ sch' = NoSchedule
    BY Zenon DEF ScheduleFails, cloud
  <1>2. NoSchedule \in [busy : BOOLEAN, list : SUBSET Snaps] /\ NoSchedule.list = {}
    BY DEF NoSchedule
  <1>3. old \in SUBSET Snaps /\ (\A s \in old : cr[s].life # "none") /\ (Disturbed' <=> Disturbed)
    BY <1>1, ZenonT(60) DEF IInv, TypeOK, CRInv, Disturbed
  <1>4. kind = "cloudsql" /\ ~Disturbed => \A s \in old : cr[s].life = "live" => cr[s].complete
    BY SMTT(60) DEF IInv, ScheduleInv
  <1> QED
    BY <1>1, <1>2, <1>3, <1>4, ScheduleKeeps, Zenon

LEMMA RetentionEndsKeeps ==
  ASSUME IInv, RetentionEnds
  PROVE  IInv'
  <1>1. PICK s \in Snaps : /\ cr[s].life # "none" /\ old' = old \cup {s}
                           /\ history' = IF Stored(s) /\ ~cr[s].complete
                                         THEN history \cup {"schedule disturbed"} ELSE history
    BY DEF RetentionEnds, Note
  <1>2. UNCHANGED <<cr, w, img, bucket, exp, kind, parent, sch, calm>>
    BY DEF RetentionEnds, cloud
  <1>3. /\ sch \in [busy : BOOLEAN, list : SUBSET Snaps] /\ sch.list \in SUBSET Snaps
        /\ old \in SUBSET Snaps /\ (\A t \in old : cr[t].life # "none")
    BY Zenon DEF IInv, TypeOK, CRInv
  <1>4. kind = "cloudsql" /\ ~Disturbed =>
          /\ \A t \in old : cr[t].life = "live" => cr[t].complete
          /\ \A t \in sch.list : Newer(t)
    BY <1>3, Zenon DEF IInv, ScheduleInv
  <1>5. ~Disturbed' => ~Disturbed /\ (cr[s].life = "live" => cr[s].complete)
    BY <1>1 DEF Disturbed, Stored
  <1> QED
    BY <1>1, <1>2, <1>3, <1>4, <1>5, ScheduleKeeps, ZenonT(60)
----------------------------------------------------------------------------
(* The theorems.                                                           *)

\* There is no snapshot CR at first.
LEMMA InitHolds == Init => IInv
  <1> SUFFICES ASSUME Init PROVE IInv
    BY Zenon
  <1>1. /\ cr = [s \in Snaps |-> NoSnap] /\ w = Idle /\ img = [s \in Snaps |-> "absent"]
        /\ exp = None /\ sch = NoSchedule /\ old = {} /\ history = {}
    BY Zenon DEF Init
  <1>2. NoSnap \in CRs /\ NoSnap.life = "none" /\ \A s \in Snaps : cr[s] = NoSnap
    BY <1>1, Zenon DEF NoSnap, CRs
  <1>3. Idle \in Workers /\ Idle.pc = "idle" /\ ~Idle.fresh
    BY Zenon DEF Idle, Workers, Steps, Parents, Images
  <1>4. TypeOK
    <2>1. cr \in [Snaps -> CRs] /\ w \in Workers /\ img \in [Snaps -> Images]
      BY <1>1, <1>2, <1>3, Zenon DEF Images
    <2>2. kind \in Kinds /\ bucket \in BOOLEAN /\ calm \in BOOLEAN /\ parent = "new"
      BY Zenon DEF Init
    <2>3. parent \in Parents /\ sch \in [busy : BOOLEAN, list : SUBSET Snaps]
      BY <1>1, <2>2, Zenon DEF Parents, NoSchedule
    <2> QED
      BY <1>1, <2>1, <2>2, <2>3, Zenon DEF TypeOK, CRs, Workers
  <1>5. CRInv
    <2>1. Created = {} /\ 0 \in Nat /\ 1 .. 0 = {}
      BY <1>2 DEF Created
    <2> QED
      BY <1>1, <1>2, <2>1, Zenon DEF CRInv, Lost
  <1>6. ImageInv /\ CompleteIsUsable
    BY <1>1, <1>2, SnapsFacts, Zenon DEF ImageInv, CompleteIsUsable, Leaves
  <1>7. ScheduleInv
    BY <1>1, <1>2, Zenon DEF ScheduleInv, NoSchedule
  <1>8. Allowed(w)
    BY <1>1, <1>3, Labels, Zenon DEF Allowed
  <1> QED
    BY <1>4, <1>5, <1>6, <1>7, <1>8, Zenon DEF IInv

\* Every step keeps the invariant.
LEMMA StepKeeps == IInv /\ [Next]_vars => IInv'
  <1> SUFFICES ASSUME IInv, [Next]_vars PROVE IInv'
    BY Zenon
  <1>1. CASE Worker
    BY <1>1, ControllerKeeps, FindSnapshotInstanceKeeps, DescribeReplicationGroupsKeeps,
       CreateSnapshotKeeps, FindForDeleteKeeps, DeleteSnapshotKeeps, GetObjectMetadataKeeps,
       CreateBucketKeeps, ExportDatabaseKeeps, ReconcileSkipDeleteKeeps, ProtectKeeps,
       ListOthersKeeps, ClearOtherKeeps, DeleteObjectKeeps, ListObjectsKeeps, DeleteBucketKeeps, ZenonT(60)
       DEF Worker, AWSWorker, GCPWorker
  <1>2. CASE PostgresWorker \/ CloudProgress
    BY <1>2, PostgresWorkerKeeps, AWSKeeps, ExportEndsKeeps, Zenon DEF CloudProgress
  <1>3. CASE SnapshotLost \/ ScheduleFails \/ RetentionEnds \/ Environment
    BY <1>3, AWSKeeps, ScheduleFailsKeeps, RetentionEndsKeeps, EnvironmentKeeps, Zenon
  <1>4. CASE UNCHANGED vars
    <2>1. UNCHANGED <<kind, parent, cr, w, img, bucket, exp, sch, old, history, calm>>
      BY <1>4, Zenon DEF vars, cloud, rest, schedule
    <2>2. TypeOK' /\ CRInv'
      BY <2>1, ZenonT(60) DEF IInv, TypeOK, CRInv, Created, Lost
    <2>3. ImageInv' /\ CompleteIsUsable' /\ ScheduleInv' /\ Allowed(w)'
      BY <2>1, ZenonT(60) DEF IInv, ImageInv, CompleteIsUsable, ScheduleInv, Allowed, Leaves, Kept, Stored,
                  Newer, Lost, Twice, Disturbed
    <2> QED
      BY <2>2, <2>3, Zenon DEF IInv
  <1> QED
    BY <1>1, <1>2, <1>3, <1>4, Zenon DEF Next

\* The inductive invariant.
THEOREM Invariance == Spec => []IInv
  BY InitHolds, StepKeeps, PTL DEF Spec

\* For any number of snapshot CRs none leaves its snapshot behind: the providers
\* give up the finalizer only after they have seen the snapshot gone, and what
\* the worker has created in between its CR knows of.
THEOREM NeverOrphaned == Spec => []NoOrphan
  <1>1. IInv => NoOrphan
    BY DEF IInv, NoOrphan, ImageInv, Leaves, Kept, Stored, Twice
  <1> QED
    BY <1>1, Invariance, PTL

\* For any number of snapshot CRs the phase complete is true of the snapshot.
THEOREM CompleteAlwaysUsable == Spec => []CompleteIsUsable
  <1>1. IInv => CompleteIsUsable
    BY DEF IInv
  <1> QED
    BY <1>1, Invariance, PTL

\* Only DeleteObject takes objects away.
LEMMA OtherSteps ==
  ASSUME kind = "cloudsql", [Next]_vars, ~DeleteObject, ~ExportEnds
  PROVE  img' = img
  <1>1. CASE Controller
    <2>1. CASE \E s \in Snaps : Reconcile(s)
      <3>1. UNCHANGED <<cr, cloud, rest>>
        BY <2>1, Zenon DEF Reconcile
      <3> QED
        BY <3>1 DEF cloud
    <2>2. CASE ~\E s \in Snaps : Reconcile(s)
      BY <1>1, <2>2, ZenonT(60) DEF Controller, PinStrategy, CreateFinalizer, StoreSnapshotID,
                        UpdateSnapshotPhase, RemoveFinalizer, Conflict, Store, Branch, cloud
    <2> QED
      BY <2>1, <2>2, Zenon
  <1>2. CASE AWSWorker \/ SnapshotProgress \/ SnapshotLost
    <2>1. ~(FindSnapshotInstance \/ DescribeReplicationGroups)
      BY DEF FindSnapshotInstance, DescribeReplicationGroups, OnAWS
    <2> QED
      BY <1>2, <2>1, Zenon DEF AWSWorker, CreateSnapshot, FindForDelete, DeleteSnapshot,
                        OnAWS, SnapshotProgress, SnapshotLost
  <1>3. CASE GCPWorker
    <2>1. CASE GetObjectMetadata \/ ReconcileSkipDelete \/ ListObjects
      <3>1. UNCHANGED cloud
        BY <2>1, ZenonT(60) DEF GetObjectMetadata, ReconcileSkipDelete, ListObjects
      <3> QED
        BY <3>1 DEF cloud
    <2>2. CASE ~(GetObjectMetadata \/ ReconcileSkipDelete \/ ListObjects)
      BY <1>3, <2>2, Zenon DEF GCPWorker, CreateBucket, ExportDatabase, Protect, ListOthers, ClearOther,
                        DeleteBucket, Store, cloud
    <2> QED
      BY <2>1, <2>2, Zenon
  <1>4. CASE PostgresWorker \/ ScheduleFails \/ RetentionEnds
    BY <1>4 DEF PostgresWorker, ListSnapshots, ExpireSnapshot, ScheduleSnapshot, Scheduler,
                ScheduleFails, RetentionEnds, cloud
  <1>5. CASE Environment
    <2>1. CASE ParentMoves
      <3>1. UNCHANGED <<kind, cr, w, cloud, schedule, history, calm>>
        BY <2>1, Zenon DEF ParentMoves
      <3> QED
        BY <3>1 DEF cloud
    <2>2. CASE ~ParentMoves
      BY <1>5, <2>2 DEF Environment, CallFails, Crash, UserCreates, CalmDown, UserDeletes, Branch, cloud
    <2> QED
      BY <2>1, <2>2, Zenon
  <1>6. CASE UNCHANGED vars
    BY <1>6 DEF vars, cloud
  <1> QED
    BY <1>1, <1>2, <1>3, <1>4, <1>5, <1>6, Zenon DEF Next, Worker, CloudProgress

\* For any number of scheduled snapshots the expiry leaves an export: the CR
\* whose object DeleteObject takes has a newer one that is complete, and the
\* object of that one is there.
THEOREM BackupAlwaysKept == Spec => BackupKept
  <1>1. IInv /\ [Next]_vars =>
          [kind = "cloudsql" /\ "schedule disturbed" \notin history /\ Objects # {} =>
             Objects' # {}]_vars
    <2> SUFFICES ASSUME IInv, [Next]_vars, kind = "cloudsql", ~Disturbed, Objects # {}
                 PROVE  Objects' # {}
      BY DEF Disturbed
    <2>1. CASE DeleteObject
      <3>1. w.pc = "d_object"
        BY <2>1, Zenon DEF DeleteObject, OnGCP, At
      <3>2. w.s \in Snaps /\ cr[w.s].life = "deleting"
        BY <3>1, CopyFacts, Zenon DEF Allowed, DeleteSteps
      <3>3. PICK t \in Snaps : t > w.s /\ cr[t].life = "live" /\ cr[t].complete
        BY <3>2, ZenonT(60) DEF IInv, ScheduleInv, Newer
      <3>4. img[t] = "available" /\ t # w.s /\ img \in [Snaps -> Images]
        BY <3>2, <3>3 DEF IInv, CompleteIsUsable, CRInv, Lost, TypeOK
      <3>5. img' \in {img, [img EXCEPT ![w.s] = "absent"]}
        BY <2>1, Zenon DEF DeleteObject
      <3>6. img'[t] = "available"
        BY <3>2, <3>4, <3>5, ZenonT(60)
      <3> QED
        BY <3>6, Zenon DEF Objects
    <2>2. CASE ExportEnds
      <3>1. img' \in {img, [img EXCEPT ![exp] = "available"]} /\ img \in [Snaps -> Images]
        BY <2>2, Zenon DEF ExportEnds, IInv, TypeOK
      <3>2. PICK t \in Snaps : img[t] = "available"
        BY Zenon DEF Objects
      <3>3. img'[t] = "available"
        BY <3>1, <3>2, Zenon
      <3> QED
        BY <3>3 DEF Objects
    <2>3. CASE ~DeleteObject /\ ~ExportEnds
      <3>1. img' = img
        BY <2>3, OtherSteps
      <3> QED
        BY <3>1, Zenon DEF Objects
    <2> QED
      BY <2>1, <2>2, <2>3, Zenon
  <1> QED
    BY <1>1, Invariance, PTL DEF Spec, BackupKept
==============================================================================
