------------------------- MODULE ControllersProofs --------------------------
(***************************************************************************)
(* The addresses of ClusterInterceptors and Interceptors, for any number   *)
(* of replicas, elections, restarts, edits and failed or conflicting       *)
(* updates.                                                                *)
(***************************************************************************)
EXTENDS InterceptorControllers, TLAPS

\* The obligations are large: SMT gets thirty seconds unless a leaf says otherwise
USE SMTT(30)

-----------------------------------------------------------------------------
(* The inductive invariant *)

ObjectFields == {"version", "labels", "deleting", "spec", "status"}

Object(o) == DOMAIN o = ObjectFields /\ o.version \in Nat /\ o.version <= revision

WorkFields == {"pc", "isLeader", "existing", "desired", "attempts", "failed"}

\* There is at most one object, and what informers have is not newer
Shapes ==
    /\ revision \in Nat /\ kind \in {"ClusterInterceptor", "Interceptor"}
    /\ \A o \in obj : Object(o)
    /\ \A o, p \in obj : o = p
    /\ DOMAIN lister = Replicas /\ \A r \in Replicas : \A o \in lister[r] : Object(o)
    /\ DOMAIN queued = Replicas
    /\ DOMAIN work = Replicas /\ \A r \in Replicas : DOMAIN work[r] = WorkFields

\* There is nothing left to do for an object
Settled(o) ==
    o.deleting \/ (o.status = ReconcileKind(kind, o).status /\ ~ReconcileKind(kind, o).failed)

\* A worker is about to see it, or to write it
Underway(r, o) == work[r].pc = "get" \/ (work[r].pc = "update" /\ work[r].existing = o.version)

\* A leader that has seen the object has the key in its queue, or works on the object, or
\* there is nothing left to do
LeadersWork ==
    \A r \in Replicas : r \in leaders /\ lister[r] = obj /\ ~queued[r] =>
        \A o \in obj : Settled(o) \/ Underway(r, o)

CtlInv == Shapes /\ LeadersWork

-----------------------------------------------------------------------------
(* Steps *)

\* Whoever writes the object makes it newer than all that informers have
LEMMA WriteInv ==
    ASSUME CtlInv, NEW objects, Write(objects),
           \A o \in objects : DOMAIN o = ObjectFields,
           \A o, p \in objects : o = p,
           UNCHANGED <<kind, lister>>, DOMAIN queued' = Replicas,
           DOMAIN work' = Replicas, \A r \in Replicas : DOMAIN work'[r] = WorkFields
    PROVE  CtlInv'
<1>1. revision \in Nat /\ revision' = revision + 1
  BY DEF CtlInv, Shapes, Write
<1>2. ASSUME NEW o \in obj' PROVE DOMAIN o = ObjectFields /\ o.version = revision'
  <2>1. PICK p \in objects : o = [p EXCEPT !.version = revision']
    BY DEF Write
  <2>2. DOMAIN p = ObjectFields
    OBVIOUS
  <2> QED BY <2>1, <2>2 DEF ObjectFields
<1>3. \A o, p \in obj' : o = p
  BY DEF Write
<1>4. ASSUME NEW r \in Replicas, NEW o \in lister[r] PROVE o.version \in Nat /\ o.version <= revision /\ DOMAIN o = ObjectFields
  BY DEF CtlInv, Shapes, Object
<1>5. Shapes'
  <2>1. \A o \in obj' : Object(o)'
    BY <1>1, <1>2 DEF Object
  <2>2. \A r \in Replicas : \A o \in lister'[r] : Object(o)'
    BY <1>1, <1>4 DEF Object
  <2> QED BY <1>1, <1>3, <2>1, <2>2 DEF CtlInv, Shapes
<1>6. LeadersWork'
  <2> SUFFICES ASSUME NEW r \in Replicas, lister'[r] = obj', NEW o \in obj' PROVE FALSE
    BY DEF LeadersWork
  <2>1. o \in lister[r]
    OBVIOUS
  <2> QED BY <1>1, <1>2, <1>4, <2>1
<1> QED BY <1>5, <1>6 DEF CtlInv

\* One replica takes a step, and nothing is written
LEMMA StepInv ==
    ASSUME CtlInv, NEW r \in Replicas, Shapes', UNCHANGED <<kind, obj>>,
           \A k \in Replicas \ {r} : /\ k \in leaders' => k \in leaders
                                     /\ lister'[k] = lister[k] /\ work'[k] = work[k]
                                     /\ queued[k] => queued'[k],
           r \in leaders' /\ lister'[r] = obj /\ ~queued'[r] =>
               \A o \in obj : \/ Settled(o) \/ work'[r].pc = "get"
                              \/ work'[r].pc = "update" /\ work'[r].existing = o.version
    PROVE  CtlInv'
<1>1. ASSUME NEW k \in Replicas, k \in leaders', lister'[k] = obj', ~queued'[k], NEW o \in obj'
      PROVE  Settled(o) \/ work'[k].pc = "get" \/ (work'[k].pc = "update" /\ work'[k].existing = o.version)
  <2>1. CASE k = r
    BY <1>1, <2>1
  <2>2. CASE k # r
    <3>1. k \in leaders /\ lister[k] = obj /\ ~queued[k] /\ work'[k] = work[k]
      BY <1>1, <2>2
    <3> QED BY <3>1 DEF CtlInv, LeadersWork, Underway
  <2> QED BY <2>1, <2>2
<1>2. \A o : Settled(o) => Settled(o)'
  BY DEF Settled
<1>3. LeadersWork'
  BY <1>1, <1>2 DEF LeadersWork, Underway
<1> QED BY <1>3 DEF CtlInv

\* What is known of the queue and of the work of a replica after a step of it
LEMMA QueueStep ==
    ASSUME Shapes, NEW r \in Replicas, NEW b, queued' = [queued EXCEPT ![r] = b]
    PROVE  DOMAIN queued' = Replicas /\ queued'[r] = b /\ \A k \in Replicas \ {r} : queued'[k] = queued[k]
BY Zenon DEF Shapes

LEMMA WorkStep ==
    ASSUME Shapes, NEW r \in Replicas, NEW w, DOMAIN w = WorkFields, work' = [work EXCEPT ![r] = w]
    PROVE  /\ DOMAIN work' = Replicas /\ work'[r] = w /\ \A k \in Replicas \ {r} : work'[k] = work[k]
           /\ \A k \in Replicas : DOMAIN work'[k] = WorkFields
<1>1. DOMAIN work' = Replicas /\ work'[r] = w /\ \A k \in Replicas \ {r} : work'[k] = work[k]
  BY Zenon DEF Shapes
<1> QED BY <1>1 DEF Shapes

LEMMA IdleShape == DOMAIN IdleWork = WorkFields /\ IdleWork.pc = "idle"
BY DEF IdleWork, WorkFields

\* Shapes after a step that writes nothing
LEMMA ShapesKept ==
    ASSUME Shapes, UNCHANGED <<kind, obj, revision>>,
           DOMAIN lister' = Replicas, \A r \in Replicas : lister'[r] \in {{}, obj, lister[r]},
           DOMAIN queued' = Replicas,
           DOMAIN work' = Replicas, \A r \in Replicas : DOMAIN work'[r] = WorkFields
    PROVE  Shapes'
<1>1. \A o : Object(o) => Object(o)'
  BY DEF Object
<1>2. \A r \in Replicas : \A o \in lister'[r] : Object(o)
  BY DEF Shapes
<1>3. \A o \in obj' : Object(o)
  BY DEF Shapes
<1> QED BY <1>1, <1>2, <1>3 DEF Shapes

LEMMA PromoteInv ==
    ASSUME CtlInv, NEW r \in Replicas, Promote(r)
    PROVE  CtlInv'
<1>1. /\ DOMAIN queued' = Replicas /\ queued'[r] = (queued[r] \/ lister[r] # {})
      /\ \A k \in Replicas \ {r} : queued'[k] = queued[k]
  <2>1. queued' = [queued EXCEPT ![r] = queued[r] \/ lister[r] # {}]
    BY DEF Promote
  <2> QED BY <2>1, QueueStep DEF CtlInv
<1>2. leaders' = {r} /\ UNCHANGED <<kind, obj, revision, lister, work>>
  BY DEF Promote
<1>3. Shapes'
  BY <1>1, <1>2, ShapesKept DEF CtlInv, Shapes
<1>4. lister'[r] = obj /\ ~queued'[r] => obj = {}
  BY <1>1, <1>2, Zenon
<1> QED BY <1>1, <1>2, <1>3, <1>4, StepInv

LEMMA DemoteInv ==
    ASSUME CtlInv, NEW r \in Replicas, Demote(r)
    PROVE  CtlInv'
<1>1. leaders' = leaders \ {r} /\ UNCHANGED <<kind, obj, revision, lister, queued, work>>
  BY DEF Demote
<1>2. Shapes'
  BY <1>1, ShapesKept DEF CtlInv, Shapes
<1> QED BY <1>1, <1>2, StepInv

LEMMA WatchInv ==
    ASSUME CtlInv, NEW r \in Replicas, Watch(r)
    PROVE  CtlInv'
<1>1. DOMAIN queued' = Replicas /\ queued'[r] = TRUE /\ \A k \in Replicas \ {r} : queued'[k] = queued[k]
  BY QueueStep, Zenon DEF Watch, CtlInv
<1>2. DOMAIN lister' = Replicas /\ lister'[r] = obj /\ \A k \in Replicas \ {r} : lister'[k] = lister[k]
  BY DEF Watch, CtlInv, Shapes
<1>3. UNCHANGED <<kind, obj, revision, leaders, work>>
  BY DEF Watch
<1>4. Shapes'
  BY <1>1, <1>2, <1>3, ShapesKept DEF CtlInv, Shapes
<1> QED BY <1>1, <1>2, <1>3, <1>4, StepInv

LEMMA RestartInv ==
    ASSUME CtlInv, NEW r \in Replicas, Restart(r)
    PROVE  CtlInv'
<1>1. DOMAIN queued' = Replicas /\ \A k \in Replicas \ {r} : queued'[k] = queued[k]
  BY QueueStep, Zenon DEF Restart, CtlInv
<1>2. DOMAIN lister' = Replicas /\ lister'[r] = {} /\ \A k \in Replicas \ {r} : lister'[k] = lister[k]
  BY DEF Restart, CtlInv, Shapes
<1>3. /\ DOMAIN work' = Replicas /\ \A k \in Replicas \ {r} : work'[k] = work[k]
      /\ \A k \in Replicas : DOMAIN work'[k] = WorkFields
  BY WorkStep, IdleShape, Zenon DEF Restart, CtlInv
<1>4. leaders' = leaders \ {r} /\ UNCHANGED <<kind, obj, revision>>
  BY DEF Restart
<1>5. Shapes'
  BY <1>1, <1>2, <1>3, <1>4, ShapesKept DEF CtlInv
<1> QED BY <1>1, <1>2, <1>3, <1>4, <1>5, StepInv

LEMMA TakeInv ==
    ASSUME CtlInv, NEW r \in Replicas, Take(r)
    PROVE  CtlInv'
<1> DEFINE w == IF isNotLeaderNorObserver(newState(r)) THEN IdleWork ELSE newState(r)
<1>1. DOMAIN queued' = Replicas /\ \A k \in Replicas \ {r} : queued'[k] = queued[k]
  BY QueueStep, Zenon DEF Take, CtlInv
<1>2. DOMAIN w = WorkFields /\ (r \in leaders => w.pc = "get")
  BY Zenon DEF newState, isNotLeaderNorObserver, IdleWork, WorkFields
<1>3. work' = [work EXCEPT ![r] = w]
  BY DEF Take
<1> HIDE DEF w
<1>4. /\ DOMAIN work' = Replicas /\ work'[r] = w /\ \A k \in Replicas \ {r} : work'[k] = work[k]
      /\ \A k \in Replicas : DOMAIN work'[k] = WorkFields
  BY <1>2, <1>3, WorkStep, Zenon DEF CtlInv
<1>5. UNCHANGED <<kind, obj, revision, leaders, lister>>
  BY DEF Take
<1>6. Shapes'
  BY <1>1, <1>4, <1>5, ShapesKept DEF CtlInv, Shapes
<1> QED BY <1>1, <1>2, <1>4, <1>5, <1>6, StepInv

\* The end of Reconcile, when the object is settled or the key is tried again
LEMMA FinishInv ==
    ASSUME CtlInv, NEW r \in Replicas, NEW failed, Finish(r, failed),
           UNCHANGED <<kind, obj, revision, leaders, lister>>,
           r \in leaders /\ lister[r] = obj /\ ~queued[r] /\ ~failed => \A o \in obj : Settled(o)
    PROVE  CtlInv'
<1>1. /\ DOMAIN queued' = Replicas /\ queued'[r] = (queued[r] \/ failed)
      /\ \A k \in Replicas \ {r} : queued'[k] = queued[k]
  <2>1. queued' = [queued EXCEPT ![r] = queued[r] \/ failed]
    BY DEF Finish
  <2> QED BY <2>1, QueueStep, Zenon DEF CtlInv
<1>2. /\ DOMAIN work' = Replicas /\ \A k \in Replicas \ {r} : work'[k] = work[k]
      /\ \A k \in Replicas : DOMAIN work'[k] = WorkFields
  BY WorkStep, IdleShape, Zenon DEF Finish, CtlInv
<1>3. Shapes'
  BY <1>1, <1>2, ShapesKept DEF CtlInv, Shapes
<1>4. ~queued'[r] => ~queued[r] /\ ~failed
  BY <1>1, Zenon
<1> QED BY <1>1, <1>2, <1>3, <1>4, StepInv

\* The worker goes on, and the queue stays as it is
LEMMA GoesOnInv ==
    ASSUME CtlInv, NEW r \in Replicas, NEW w, DOMAIN w = WorkFields, work' = [work EXCEPT ![r] = w],
           UNCHANGED <<kind, obj, revision, leaders, lister, queued>>,
           r \in leaders /\ lister[r] = obj /\ ~queued[r] =>
               \A o \in obj : Settled(o) \/ (w.pc = "update" /\ w.existing = o.version)
    PROVE  CtlInv'
<1>1. /\ DOMAIN work' = Replicas /\ work'[r] = w /\ \A k \in Replicas \ {r} : work'[k] = work[k]
      /\ \A k \in Replicas : DOMAIN work'[k] = WorkFields
  BY WorkStep, Zenon DEF CtlInv
<1>2. Shapes'
  BY <1>1, ShapesKept DEF CtlInv, Shapes
<1> QED BY <1>1, <1>2, StepInv

LEMMA ReconcileInv ==
    ASSUME CtlInv, NEW r \in Replicas, Reconcile(r)
    PROVE  CtlInv'
<1>u. UNCHANGED <<kind, obj, revision, leaders, lister>>
  BY Zenon DEF Reconcile
<1>1. CASE lister[r] = {} \/ \E o \in lister[r] : reconcileMethodFor(o) = "unknown"
  <2>1. work' = [work EXCEPT ![r] = IdleWork] /\ queued' = queued
    BY <1>1, Zenon DEF Reconcile
  <2>2. lister[r] = obj => \A o \in obj : Settled(o)
    BY <1>1 DEF Settled, reconcileMethodFor, CtlInv, Shapes
  <2> QED BY <1>u, <2>1, <2>2, IdleShape, GoesOnInv, Zenon
<1>2. CASE ~(lister[r] = {} \/ \E o \in lister[r] : reconcileMethodFor(o) = "unknown")
  <2>1. PICK o \in lister[r] :
            LET res == ReconcileKind(kind, o)
            IN  IF DeepEqual(o, res.status)
                THEN /\ work' = [work EXCEPT ![r] = IdleWork]
                     /\ queued' = [queued EXCEPT ![r] = @ \/ res.failed]
                ELSE /\ work' = [work EXCEPT ![r] = [@ EXCEPT !.pc = "update", !.existing = o.version,
                                                              !.desired = {res.status}, !.failed = res.failed]]
                     /\ queued' = queued
    BY <1>2, Zenon DEF Reconcile
  <2>2. lister[r] = obj => \A p \in obj : p = o
    BY DEF CtlInv, Shapes
  <2>3. CASE DeepEqual(o, ReconcileKind(kind, o).status)
    <3>1. Finish(r, ReconcileKind(kind, o).failed)
      BY <2>1, <2>3 DEF Finish
    <3>2. ~ReconcileKind(kind, o).failed => Settled(o)
      BY <2>3 DEF Settled, DeepEqual
    <3> QED BY <1>u, <2>2, <3>1, <3>2, FinishInv
  <2>4. CASE ~DeepEqual(o, ReconcileKind(kind, o).status)
    <3> DEFINE w == [work[r] EXCEPT !.pc = "update", !.existing = o.version,
                                    !.desired = {ReconcileKind(kind, o).status}, !.failed = ReconcileKind(kind, o).failed]
    <3>1. work' = [work EXCEPT ![r] = w] /\ queued' = queued
      BY <2>1, <2>4
    <3>2. DOMAIN work[r] = WorkFields
      BY DEF CtlInv, Shapes
    <3>3. DOMAIN w = WorkFields /\ w.pc = "update" /\ w.existing = o.version
      BY <3>2 DEF WorkFields
    <3> HIDE DEF w
    <3> QED BY <1>u, <2>2, <3>1, <3>3, GoesOnInv, Zenon
  <2> QED BY <2>3, <2>4
<1> QED BY <1>1, <1>2

\* A worker that is past its reading, and not about to write the object, has nothing left
\* to do with it, or has the key in its queue
LEMMA NothingLeft ==
    ASSUME CtlInv, NEW r \in Replicas, work[r].pc \in {"update", "fetch"},
           work[r].pc = "update" => \A o \in obj : o.version # work[r].existing
    PROVE  r \in leaders /\ lister[r] = obj /\ ~queued[r] => \A o \in obj : Settled(o)
BY DEF CtlInv, LeadersWork, Underway

LEMMA updateStatusInv ==
    ASSUME CtlInv, NEW r \in Replicas, updateStatus(r)
    PROVE  CtlInv'
<1>u. UNCHANGED <<kind, leaders, lister>> /\ work[r].pc = "update"
  BY DEF updateStatus
<1>1. CASE obj = {}
  <2>1. UNCHANGED <<obj, revision>> /\ Finish(r, TRUE)
    BY <1>1, Zenon DEF updateStatus
  <2> QED BY <1>u, <1>1, <2>1, FinishInv, Zenon
<1>2. CASE \E o \in obj : o.version = work[r].existing
  <2> DEFINE objects == {[o EXCEPT !.status = CHOOSE s \in work[r].desired : TRUE] : o \in obj}
  <2>1. Write(objects) /\ Finish(r, work[r].failed)
    BY <1>2, Zenon DEF updateStatus
  <2>2. \A o \in obj : DOMAIN o = ObjectFields
    BY DEF CtlInv, Shapes, Object
  <2>3. (\A o \in objects : DOMAIN o = ObjectFields) /\ \A o, p \in objects : o = p
    BY <2>2, Zenon DEF CtlInv, Shapes
  <2>4. DOMAIN queued' = Replicas
    BY <2>1 DEF Finish, CtlInv, Shapes
  <2>5. DOMAIN work' = Replicas /\ \A k \in Replicas : DOMAIN work'[k] = WorkFields
    BY <2>1, WorkStep, IdleShape, Zenon DEF Finish, CtlInv
  <2> HIDE DEF objects
  <2> QED BY <1>u, <2>1, <2>3, <2>4, <2>5, WriteInv
<1>3. CASE obj # {} /\ ~\E o \in obj : o.version = work[r].existing
  <2>1. UNCHANGED <<obj, revision>>
    BY <1>3, Zenon DEF updateStatus
  <2>2. r \in leaders /\ lister[r] = obj /\ ~queued[r] => \A o \in obj : Settled(o)
    BY <1>u, <1>3, NothingLeft
  <2>3. CASE MayRetry(work[r].attempts)
    <3> DEFINE w == [work[r] EXCEPT !.pc = "fetch", !.attempts = work[r].attempts + 1]
    <3>1. work' = [work EXCEPT ![r] = w] /\ queued' = queued
      BY <1>3, <2>3, Zenon DEF updateStatus
    <3>2. DOMAIN w = WorkFields
      BY DEF CtlInv, Shapes
    <3> HIDE DEF w
    <3> QED BY <1>u, <2>1, <2>2, <3>1, <3>2, GoesOnInv, Zenon
  <2>4. CASE ~MayRetry(work[r].attempts)
    <3>1. Finish(r, TRUE)
      BY <1>3, <2>4, Zenon DEF updateStatus
    <3> QED BY <1>u, <2>1, <3>1, FinishInv, Zenon
  <2> QED BY <2>3, <2>4
<1> QED BY <1>1, <1>2, <1>3

LEMMA updateStatusAgainInv ==
    ASSUME CtlInv, NEW r \in Replicas, updateStatusAgain(r)
    PROVE  CtlInv'
<1>u. UNCHANGED <<kind, obj, revision, leaders, lister>> /\ work[r].pc = "fetch"
  BY DEF updateStatusAgain
<1>1. r \in leaders /\ lister[r] = obj /\ ~queued[r] => \A o \in obj : Settled(o)
  BY <1>u, NothingLeft
<1>2. CASE Finish(r, TRUE) \/ Finish(r, work[r].failed)
  BY <1>u, <1>1, <1>2, FinishInv, Zenon
<1>3. CASE ~(Finish(r, TRUE) \/ Finish(r, work[r].failed))
  <2> DEFINE w == [work[r] EXCEPT !.pc = "update", !.existing = (CHOOSE o \in obj : TRUE).version]
  <2>1. work' = [work EXCEPT ![r] = w] /\ queued' = queued
    BY <1>3, Zenon DEF updateStatusAgain
  <2>2. DOMAIN w = WorkFields
    BY DEF CtlInv, Shapes
  <2> HIDE DEF w
  <2> QED BY <1>u, <1>1, <2>1, <2>2, GoesOnInv, Zenon
<1> QED BY <1>2, <1>3, Zenon

LEMMA UpdateFailedInv ==
    ASSUME CtlInv, NEW r \in Replicas, UpdateFailed(r)
    PROVE  CtlInv'
<1>1. UNCHANGED <<kind, obj, revision, leaders, lister>> /\ Finish(r, TRUE)
  BY Zenon DEF UpdateFailed
<1> QED BY <1>1, FinishInv, Zenon

LEMMA ApplyObjectInv ==
    ASSUME CtlInv, NEW config, ApplyObject(config)
    PROVE  CtlInv'
<1> DEFINE objects == IF obj = {}
                      THEN {[version |-> 0, labels |-> Defaulted(config.labels), deleting |-> FALSE,
                             spec |-> config.spec, status |-> [address |-> FALSE, url |-> {}]]}
                      ELSE {[o EXCEPT !.labels = Defaulted(config.labels), !.spec = config.spec] : o \in obj}
<1>1. Write(objects) /\ UNCHANGED <<kind, leaders, lister, queued, work>>
  BY Zenon DEF ApplyObject
<1>2. \A o \in obj : DOMAIN o = ObjectFields
  BY DEF CtlInv, Shapes, Object
<1>3. \A o \in objects : DOMAIN o = ObjectFields
  BY <1>2, ZenonT(30) DEF ObjectFields
<1>4. \A o, p \in objects : o = p
  BY Zenon DEF CtlInv, Shapes
<1> HIDE DEF objects
<1> QED BY <1>1, <1>3, <1>4, WriteInv DEF CtlInv, Shapes

LEMMA WriteCaBundleInv ==
    ASSUME CtlInv, WriteCaBundle
    PROVE  CtlInv'
<1>1. PICK o \in obj : Write({[o EXCEPT !.spec.caBundle = TRUE]})
  BY Zenon DEF WriteCaBundle
<1> DEFINE p == [o EXCEPT !.spec.caBundle = TRUE]
<1>2. DOMAIN p = ObjectFields
  BY DEF CtlInv, Shapes, Object
<1>3. Write({p}) /\ UNCHANGED <<kind, leaders, lister, queued, work>>
  BY <1>1 DEF WriteCaBundle
<1> HIDE DEF p
<1> QED BY <1>2, <1>3, WriteInv DEF CtlInv, Shapes

LEMMA DeleteInv ==
    ASSUME CtlInv, Delete
    PROVE  CtlInv'
<1>u. UNCHANGED <<kind, leaders, lister, queued, work>>
  BY DEF Delete
<1>1. CASE Write({})
  BY <1>u, <1>1, WriteInv DEF CtlInv, Shapes
<1>2. CASE \E o \in obj : Write({[o EXCEPT !.deleting = TRUE]})
  <2>1. PICK o \in obj : Write({[o EXCEPT !.deleting = TRUE]})
    BY <1>2
  <2> DEFINE p == [o EXCEPT !.deleting = TRUE]
  <2>2. DOMAIN p = ObjectFields /\ Write({p})
    BY <2>1 DEF CtlInv, Shapes, Object
  <2> HIDE DEF p
  <2> QED BY <1>u, <2>2, WriteInv DEF CtlInv, Shapes
<1> QED BY <1>1, <1>2 DEF Delete

-----------------------------------------------------------------------------
(* The theorem *)

LEMMA CtlInvInit == Init => CtlInv
<1> SUFFICES ASSUME Init PROVE CtlInv
  OBVIOUS
<1>1. Shapes
  BY IdleShape DEF Init, GenInit, Shapes
<1>2. LeadersWork
  BY DEF Init, GenInit, LeadersWork
<1> QED BY <1>1, <1>2 DEF CtlInv

LEMMA CtlInvNext == CtlInv /\ [Next]_genVars => CtlInv'
<1> SUFFICES ASSUME CtlInv, [Next]_genVars PROVE CtlInv'
  OBVIOUS
<1>1. CASE \E config \in left.configs : ApplyObject(config)
  BY <1>1, ApplyObjectInv
<1>2. CASE WriteCaBundle \/ Delete
  BY <1>2, WriteCaBundleInv, DeleteInv
<1>3. CASE Elect
  BY <1>3, PromoteInv DEF Elect, ClusterInterceptorPromote, InterceptorPromote
<1>4. ASSUME NEW r \in Replicas, Step(r) PROVE CtlInv'
  <2>1. Take(r) \/ Reconcile(r) \/ updateStatus(r) \/ updateStatusAgain(r)
    BY <1>4 DEF Step, ClusterInterceptorReconcile, ClusterInterceptorUpdateStatus, InterceptorNewState,
                InterceptorReconcile, InterceptorUpdateStatus
  <2> QED BY <2>1, TakeInv, ReconcileInv, updateStatusInv, updateStatusAgainInv
<1>5. ASSUME NEW r \in Replicas, Watch(r) \/ Demote(r) \/ Restart(r) \/ UpdateFailed(r) PROVE CtlInv'
  BY <1>5, WatchInv, DemoteInv, RestartInv, UpdateFailedInv
<1>6. CASE UNCHANGED genVars
  BY <1>6 DEF genVars, CtlInv, Shapes, Object, LeadersWork, Settled, Underway
<1> QED BY <1>1, <1>2, <1>3, <1>4, <1>5, <1>6 DEF Next

LEMMA LeadersAreReplicas == Spec => [](leaders \subseteq Replicas)
<1>1. Init => leaders \subseteq Replicas
  BY DEF Init, GenInit
<1>2. leaders \subseteq Replicas /\ [Next]_genVars => (leaders \subseteq Replicas)'
  <2> SUFFICES ASSUME leaders \subseteq Replicas, [Next]_genVars PROVE leaders' \subseteq Replicas
    OBVIOUS
  <2>1. ASSUME NEW r \in Replicas, Promote(r) \/ Demote(r) \/ Restart(r) PROVE leaders' \subseteq Replicas
    BY <2>1 DEF Promote, Demote, Restart
  <2>2. CASE UNCHANGED leaders
    BY <2>2
  <2>3. CASE (\E config \in left.configs : ApplyObject(config)) \/ WriteCaBundle \/ Delete \/ UNCHANGED genVars
    BY <2>2, <2>3, ZenonT(30) DEF ApplyObject, WriteCaBundle, Delete, genVars
  <2>4. ASSUME NEW r \in Replicas, Step(r) \/ Watch(r) \/ UpdateFailed(r) PROVE UNCHANGED leaders
    BY <2>4, Zenon DEF Step, ClusterInterceptorReconcile, ClusterInterceptorUpdateStatus, InterceptorNewState,
                InterceptorReconcile, InterceptorUpdateStatus, Take, Reconcile, updateStatus, updateStatusAgain,
                Watch, UpdateFailed
  <2> QED BY <2>1, <2>2, <2>3, <2>4 DEF Next, Elect, ClusterInterceptorPromote, InterceptorPromote
<1> QED BY <1>1, <1>2, PTL DEF Spec

\* With the ReconcileKind of the two controllers: when a leader has seen the object and no
\* replica has anything left to do, the status has the address that the clientConfig asks for,
\* however edits, bundles, conflicts, failed updates, elections and restarts were interleaved
\* (reconciler.go of both kinds, updateStatus, and ResolveAddress).
THEOREM AddressesSettleRight ==
    ASSUME \A k, it : ReconcileKind(k, it) = ReconcileEither(k, it)
    PROVE  Spec => []SettledAddressIsRight
<1>1. CtlInv /\ leaders \subseteq Replicas => SettledAddressIsRight
  <2> SUFFICES ASSUME CtlInv, leaders \subseteq Replicas, AtRest, Resolvable, NEW o \in obj, ~o.deleting
               PROVE  o.status = [address |-> TRUE, url |-> ClientConfigURL(o)]
    BY DEF SettledAddressIsRight, AddressIsRight
  <2>1. PICK r \in Replicas : r \in leaders /\ lister[r] = obj /\ ~queued[r] /\ work[r].pc = "idle"
    BY DEF AtRest
  <2>2. Settled(o)
    BY <2>1 DEF CtlInv, LeadersWork, Underway
  <2>3. kind \in {"ClusterInterceptor", "Interceptor"}
    BY DEF CtlInv, Shapes
  <2>4. o.status = ReconcileEither(kind, o).status /\ ~ReconcileEither(kind, o).failed
    BY <2>2 DEF Settled
  <2>5. CASE kind = "ClusterInterceptor"
    <3>1. ResolveAddress(o) # {} /\ o.status = [address |-> TRUE, url |-> ResolveAddress(o)]
      BY <2>4, <2>5, Zenon DEF ReconcileEither, ReconcileClusterInterceptor
    <3> QED BY <3>1 DEF ClientConfigURL, ResolveAddress, defaultHTTPSPort, defaultHTTPPort
  <2>6. CASE kind = "Interceptor"
    <3>1. ResolveInterceptorAddress(o) # {} /\ o.status = [address |-> TRUE, url |-> ResolveInterceptorAddress(o)]
      BY <2>4, <2>6, Zenon DEF ReconcileEither, ReconcileInterceptor
    <3> QED BY <3>1 DEF ClientConfigURL, ResolveInterceptorAddress, defaultHTTPSPort, defaultHTTPPort
  <2> QED BY <2>3, <2>5, <2>6
<1> QED BY <1>1, CtlInvInit, CtlInvNext, LeadersAreReplicas, PTL DEF Spec

=============================================================================
