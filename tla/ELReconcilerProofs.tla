------------------------- MODULE ELReconcilerProofs -------------------------
(***************************************************************************)
(* Proofs about ELReconciler: its types; the copies that are fresh are     *)
(* current, from which it follows that no scale is undone; and the         *)
(* reconciler, when it rests, has done what the EventListener asks for.    *)
(***************************************************************************)
EXTENDS ELReconciler, TLAPS

\* The obligations are large: SMT gets thirty seconds unless a leaf says otherwise
USE SMTT(30)

PC == {"idle", "deployment", "service", "ready", "status", "watch", "get",
       "delete deployment", "delete service", "update"}
WorkType == [pc : PC, el : ELType, status : StatusType, err : BOOLEAN, copy : CustomType]

-----------------------------------------------------------------------------
(* The operators keep the types *)

LEMMA NoneTyped ==
    /\ NewStatus \in StatusType /\ NoEL \in ELType /\ NoDep \in DepType /\ NoSvc \in SvcType
    /\ NoCustom \in CustomType /\ IdleWork \in WorkType
<1>1. NewStatus \in StatusType
  BY DEF NewStatus, StatusType
<1>2. NoEL \in ELType
  BY <1>1 DEF NoEL, ELType, NoSpec, ELSpec, NoNote
<1>3. NoDep \in DepType
  BY DEF NoDep, DepType, Conds, NoNote
<1>4. NoSvc \in SvcType
  BY DEF NoSvc, SvcType, Ports, NoNote
<1>5. NoCustom \in CustomType
  BY DEF NoCustom, CustomType, CustomConds, NoNote
<1> QED BY <1>1, <1>2, <1>3, <1>4, <1>5 DEF IdleWork, WorkType, PC

LEMMA StatusTyped ==
    ASSUME NEW s \in StatusType
    PROVE  /\ InitializeConditions(s) \in StatusType
           /\ \A c \in Conds : SetDeploymentConditions(s, c) \in StatusType
           /\ SetReadyCondition(s) \in StatusType
           /\ [s EXCEPT !.dep = TRUE] \in StatusType
           /\ \A a \in Ports : [s EXCEPT !.svc = TRUE, !.address = a] \in StatusType
           /\ [s EXCEPT !.ready = TRUE] \in StatusType
           /\ [s EXCEPT !.ready = TRUE, !.address = CustomURL] \in StatusType
<1>1. InitializeConditions(s) \in StatusType
  BY Zenon DEF InitializeConditions, StatusType
<1>2. ASSUME NEW c \in Conds PROVE SetDeploymentConditions(s, c) \in StatusType
  BY <1>2, Zenon DEF SetDeploymentConditions, StatusType, Conds
<1>3. SetReadyCondition(s) \in StatusType
  BY Zenon DEF SetReadyCondition, StatusType
<1>4. [s EXCEPT !.dep = TRUE] \in StatusType /\ [s EXCEPT !.ready = TRUE] \in StatusType
  BY Zenon DEF StatusType
<1>5. \A a \in Ports : [s EXCEPT !.svc = TRUE, !.address = a] \in StatusType
  BY Zenon DEF StatusType
<1>6. [s EXCEPT !.ready = TRUE, !.address = CustomURL] \in StatusType
  BY Zenon DEF StatusType
<1> QED BY <1>1, <1>2, <1>3, <1>4, <1>5, <1>6, Zenon

LEMMA WantedTyped ==
    ASSUME NEW spec \in ELSpec
    PROVE  /\ \A d \in DepType : MakeDeployment(spec, d) \in DepType
           /\ \A s \in SvcType : MakeService(spec, s) \in SvcType
           /\ \A c \in CustomType : MakeCustomObject(spec, c) \in CustomType
           /\ ListenerHostname(spec) \in Ports
<1>1. \A a, b \in {NoNote, "x", "y"} : UnionMaps(a, b) \in {NoNote, "x", "y"}
  BY DEF UnionMaps
<1>2. \A p \in Ports : ServicePort(spec, p) \in Ports
  BY DEF ServicePort, Ports, DefaultPort, ELSpec
<1>3. ASSUME NEW d \in DepType PROVE MakeDeployment(spec, d) \in DepType
  BY <1>1, Zenon DEF MakeDeployment, DepType, ELSpec
<1>4. ASSUME NEW s \in SvcType PROVE MakeService(spec, s) \in SvcType
  BY <1>1, <1>2, ELAssumption, Zenon DEF MakeService, SvcType, ELSpec
<1>5. ASSUME NEW c \in CustomType PROVE MakeCustomObject(spec, c) \in CustomType
  BY <1>1, Zenon DEF MakeCustomObject, CustomType, ELSpec
<1> QED BY <1>2, <1>3, <1>4, <1>5, ELAssumption DEF ListenerHostname

\* What Go does to the reconciliation
LEMMA GoDoes ==
    ASSUME work \in WorkType, NEW pc \in PC, NEW status \in StatusType, NEW err \in BOOLEAN,
           Go(pc, status, err)
    PROVE  /\ work' \in WorkType
           /\ work'.pc = pc /\ work'.status = status
           /\ work'.el = work.el /\ work'.copy = work.copy
           /\ (work.err => work'.err) /\ (err => work'.err)
<1>1. work' \in WorkType
  BY Zenon DEF Go, WorkType
<1>2. work'.pc = pc /\ work'.status = status /\ work'.el = work.el /\ work'.copy = work.copy
  BY DEF Go, WorkType
<1>3. (work.err => work'.err) /\ (err => work'.err)
  BY Zenon DEF Go, WorkType
<1> QED BY <1>1, <1>2, <1>3

-----------------------------------------------------------------------------
(* Types *)

ObjectsTyped == el \in ELType /\ dep \in DepType /\ svc \in SvcType /\ custom \in CustomType
CachesTyped == elc \in ELType /\ depc \in DepType /\ svcc \in SvcType
FreshTyped == fresh \subseteq {"el", "dep", "svc", "work", "copy"}
QueueTyped == queued \in BOOLEAN /\ watched \in {"no", "on", "failed", "other"}
CountTyped == count \in [uids : Nat, changes : Nat, outside : Nat, errors : Nat, crashes : Nat]

LEMMA TypeParts ==
    /\ TypeOK => ObjectsTyped /\ CachesTyped /\ FreshTyped /\ QueueTyped /\ CountTyped
                 /\ work \in WorkType
    /\ (ObjectsTyped /\ CachesTyped /\ FreshTyped /\ QueueTyped /\ CountTyped
        /\ work \in WorkType)' => TypeOK'
BY Zenon DEF TypeOK, ObjectsTyped, CachesTyped, FreshTyped, QueueTyped, CountTyped, WorkType, PC

LEMMA CountKept ==
    ASSUME CountTyped
    PROVE  /\ Error => CountTyped'
           /\ \A f \in {"uids", "changes", "outside", "errors", "crashes"} :
                \A max : Count(f, max) => CountTyped'
           /\ UNCHANGED count => CountTyped'
BY DEF CountTyped, Error, Count

\* The records that the steps write
LEMMA RecordsTyped ==
    /\ \A e \in ELType : /\ e.spec \in ELSpec /\ e.status \in StatusType /\ e.uid \in Nat
                         /\ [e EXCEPT !.finalizer = FALSE] \in ELType
                         /\ [e EXCEPT !.deleting = TRUE] \in ELType
                         /\ \A s \in StatusType : [e EXCEPT !.status = s] \in ELType
                         /\ \A s \in ELSpec : [e EXCEPT !.spec = s] \in ELType
    /\ \A n \in Nat, b \in BOOLEAN, s \in ELSpec :
          [NoEL EXCEPT !.uid = n, !.finalizer = b, !.spec = s] \in ELType
    /\ \A d \in DepType : /\ d.conds \in Conds
                          /\ \A n \in Nat : [d EXCEPT !.owner = n] \in DepType
                          /\ \A n \in Nat \ {0} : [d EXCEPT !.replicas = n] \in DepType
                          /\ \A c \in Conds : [d EXCEPT !.conds = c] \in DepType
    /\ \A s \in SvcType, n \in Nat : [s EXCEPT !.owner = n] \in SvcType
    /\ \A c \in CustomType : /\ \A n \in Nat : [c EXCEPT !.owner = n] \in CustomType
                             /\ \A x \in CustomConds : [c EXCEPT !.conds = x] \in CustomType
<1>1. ASSUME NEW e \in ELType
      PROVE  /\ e.spec \in ELSpec /\ e.status \in StatusType /\ e.uid \in Nat
             /\ [e EXCEPT !.finalizer = FALSE] \in ELType
             /\ [e EXCEPT !.deleting = TRUE] \in ELType
             /\ \A s \in StatusType : [e EXCEPT !.status = s] \in ELType
             /\ \A s \in ELSpec : [e EXCEPT !.spec = s] \in ELType
  BY Zenon DEF ELType
<1>2. ASSUME NEW n \in Nat, NEW b \in BOOLEAN, NEW s \in ELSpec
      PROVE  [NoEL EXCEPT !.uid = n, !.finalizer = b, !.spec = s] \in ELType
  BY NoneTyped, Zenon DEF ELType
<1>3. ASSUME NEW d \in DepType
      PROVE  /\ d.conds \in Conds
             /\ \A n \in Nat : [d EXCEPT !.owner = n] \in DepType
             /\ \A n \in Nat \ {0} : [d EXCEPT !.replicas = n] \in DepType
             /\ \A c \in Conds : [d EXCEPT !.conds = c] \in DepType
  BY Zenon DEF DepType
<1>4. ASSUME NEW s \in SvcType, NEW n \in Nat PROVE [s EXCEPT !.owner = n] \in SvcType
  BY Zenon DEF SvcType
<1>5. ASSUME NEW c \in CustomType
      PROVE  /\ \A n \in Nat : [c EXCEPT !.owner = n] \in CustomType
             /\ \A x \in CustomConds : [c EXCEPT !.conds = x] \in CustomType
  BY Zenon DEF CustomType
<1> QED BY <1>1, <1>2, <1>3, <1>4, <1>5, Zenon

-----------------------------------------------------------------------------
(* What the steps of the reconciler do, as far as the invariants tell *)

\* The status after a Deployment was found
SeenDeployment == [SetDeploymentConditions(work.status, depc.conds) EXCEPT !.dep = TRUE]
SeenService == [work.status EXCEPT !.svc = TRUE, !.address = ListenerHostname(work.el.spec)]

\* The parts of the state that the steps work with
LEMMA StateTyped ==
    ASSUME TypeOK
    PROVE  /\ ObjectsTyped /\ CachesTyped /\ FreshTyped /\ QueueTyped /\ CountTyped
           /\ work \in WorkType
           /\ work.el \in ELType /\ work.status \in StatusType /\ work.copy \in CustomType
           /\ work.el.spec \in ELSpec /\ work.el.uid \in Nat
           /\ SeenDeployment \in StatusType /\ SeenService \in StatusType
<1>1. ObjectsTyped /\ CachesTyped /\ FreshTyped /\ QueueTyped /\ CountTyped /\ work \in WorkType
  BY TypeParts, Zenon
<1>2. work.el \in ELType /\ work.status \in StatusType /\ work.copy \in CustomType
  BY <1>1, Zenon DEF WorkType
<1>3. work.el.spec \in ELSpec /\ work.el.uid \in Nat
  BY <1>2, RecordsTyped, Zenon
<1>4. depc.conds \in Conds
  BY <1>1, RecordsTyped, Zenon DEF CachesTyped
<1>5. SeenDeployment \in StatusType
  <2>1. SetDeploymentConditions(work.status, depc.conds) \in StatusType
    BY <1>2, <1>4, StatusTyped, Zenon
  <2> QED BY <2>1, StatusTyped, Zenon DEF SeenDeployment
<1>6. SeenService \in StatusType
  <2>1. ListenerHostname(work.el.spec) \in Ports
    BY <1>3, WantedTyped, Zenon
  <2> QED BY <1>2, <2>1, StatusTyped, Zenon DEF SeenService
<1> QED BY <1>1, <1>2, <1>3, <1>5, <1>6, Zenon

\* A step that writes one object of its own, fresh copies aside, keeps the types
LEMMA TypeNext ==
    ASSUME TypeOK, fresh' \in SUBSET {"el", "dep", "svc", "work", "copy"}, work' \in WorkType,
           ObjectsTyped', UNCHANGED <<elc, depc, svcc>>, QueueTyped', CountTyped'
    PROVE  TypeOK'
<1>1. CachesTyped'
  BY StateTyped DEF CachesTyped
<1>2. FreshTyped'
  BY DEF FreshTyped
<1> QED BY <1>1, <1>2, TypeParts

LEMMA DeploymentStep ==
    ASSUME TypeOK, ReconcileDeployment
    PROVE  /\ TypeOK'
           /\ work'.pc = "service" /\ work'.el = work.el /\ (work.err => work'.err)
           /\ fresh' = IF dep' = dep THEN fresh ELSE fresh \ {"dep"}
           /\ \/ work'.err
              \/ /\ depc.owner # 0
                 /\ work'.status = SeenDeployment
                 /\ \/ dep' = dep /\ depc = MakeDeployment(work.el.spec, depc)
                    \/ dep' = MakeDeployment(work.el.spec, depc) /\ "dep" \in fresh
              \/ dep.owner = 0 /\ dep'.owner = work.el.uid
<1> DEFINE spec == work.el.spec
           want == MakeDeployment(spec, depc)
           new == [MakeDeployment(spec, NoDep) EXCEPT !.owner = work.el.uid]
           made == [SetDeploymentConditions(work.status, "none") EXCEPT !.dep = TRUE]
<1>1. work \in WorkType /\ work.status \in StatusType /\ SeenDeployment \in StatusType
  BY StateTyped
<1>0. "none" \in Conds
  BY DEF Conds
<1>2. made \in StatusType
  <2>1. SetDeploymentConditions(work.status, "none") \in StatusType
    BY <1>1, <1>0, StatusTyped, Zenon
  <2> QED BY <2>1, StatusTyped, Zenon
<1>3. want \in DepType
  BY StateTyped, WantedTyped, Zenon DEF CachesTyped
<1>4. new \in DepType /\ new.owner = work.el.uid
  <2>1. MakeDeployment(spec, NoDep) \in DepType /\ work.el.uid \in Nat
    BY StateTyped, WantedTyped, NoneTyped, Zenon
  <2> QED BY <2>1, RecordsTyped, Zenon DEF DepType
<1>5. "service" \in PC /\ TRUE \in BOOLEAN /\ FALSE \in BOOLEAN
  BY DEF PC
<1>6. ASSUME dep' \in DepType, work' \in WorkType,
             fresh' = IF dep' = dep THEN fresh ELSE fresh \ {"dep"}
      PROVE  TypeOK'
  <2>1. UNCHANGED <<el, svc, custom, elc, depc, svcc, queued, watched>>
    BY DEF ReconcileDeployment, caches
  <2>2. CountTyped'
    BY StateTyped, CountKept, Zenon DEF ReconcileDeployment, UpdateDeployment, CreateDeployment
  <2>3. ObjectsTyped' /\ QueueTyped'
    BY <1>6, <2>1, StateTyped DEF ObjectsTyped, QueueTyped
  <2>4. fresh' \in SUBSET {"el", "dep", "svc", "work", "copy"}
    BY <1>6, StateTyped DEF FreshTyped
  <2> QED BY <1>6, <2>1, <2>2, <2>3, <2>4, TypeNext
<1>7. ASSUME NEW st \in StatusType, NEW err \in BOOLEAN, Go("service", st, err)
      PROVE  /\ work' \in WorkType /\ work'.pc = "service" /\ work'.el = work.el
             /\ work'.status = st /\ (work.err => work'.err) /\ (err => work'.err)
  BY <1>1, <1>5, <1>7, GoDoes, Zenon
<1>8. dep \in DepType
  BY StateTyped DEF ObjectsTyped
<1> HIDE DEF spec, want, new, made
<1>9. CASE UpdateDeployment
  <2>1. depc.owner # 0
    BY <1>9 DEF UpdateDeployment
  <2>2. CASE want = depc /\ Go("service", SeenDeployment, FALSE) /\ UNCHANGED <<dep, fresh>>
    BY <1>1, <1>5, <1>6, <1>7, <1>8, <2>1, <2>2, Zenon DEF want, spec
  <2>3. CASE Go("service", SeenDeployment, TRUE) /\ UNCHANGED <<dep, fresh>>
    BY <1>1, <1>5, <1>6, <1>7, <1>8, <2>3, Zenon
  <2>4. CASE /\ "dep" \in fresh /\ dep' = want /\ Touch(dep, want, {"dep"})
             /\ Go("service", SeenDeployment, FALSE)
    <3>1. fresh' = IF dep' = dep THEN fresh ELSE fresh \ {"dep"}
      BY <2>4, Zenon DEF Touch
    <3> QED BY <1>1, <1>3, <1>5, <1>6, <1>7, <2>1, <2>4, <3>1, Zenon DEF want, spec
  <2> QED BY <1>9, <2>2, <2>3, <2>4, Zenon DEF UpdateDeployment, SeenDeployment, want, spec
<1>10. CASE CreateDeployment
  <2>1. CASE Go("service", work.status, TRUE) /\ UNCHANGED <<dep, fresh>>
    BY <1>1, <1>5, <1>6, <1>7, <1>8, <2>1, Zenon
  <2>2. CASE dep.owner = 0 /\ dep' = new /\ Touch(dep, new, {"dep"}) /\ Go("service", made, FALSE)
    <3>1. fresh' = IF dep' = dep THEN fresh ELSE fresh \ {"dep"}
      BY <2>2, Zenon DEF Touch
    <3> QED BY <1>2, <1>4, <1>5, <1>6, <1>7, <2>2, <3>1, Zenon
  <2> QED BY <1>10, <2>1, <2>2, Zenon DEF CreateDeployment, new, made, spec
<1> QED BY <1>9, <1>10 DEF ReconcileDeployment

LEMMA ServiceStep ==
    ASSUME TypeOK, ReconcileService
    PROVE  /\ TypeOK'
           /\ work'.pc = "ready" /\ work'.el = work.el /\ (work.err => work'.err)
           /\ fresh' = IF svc' = svc THEN fresh ELSE fresh \ {"svc"}
           /\ \/ work'.err
              \/ /\ svcc.owner # 0
                 /\ work'.status = SeenService
                 /\ \/ svc' = svc /\ svcc = MakeService(work.el.spec, svcc)
                    \/ svc' = MakeService(work.el.spec, svcc) /\ "svc" \in fresh
              \/ svc.owner = 0 /\ svc'.owner = work.el.uid
<1> DEFINE spec == work.el.spec
           want == MakeService(spec, svcc)
           new == [MakeService(spec, NoSvc) EXCEPT !.owner = work.el.uid]
<1>1. work \in WorkType /\ work.status \in StatusType /\ SeenService \in StatusType
  BY StateTyped
<1>2. want \in SvcType
  BY StateTyped, WantedTyped, Zenon DEF CachesTyped
<1>3. new \in SvcType /\ new.owner = work.el.uid
  <2>1. MakeService(spec, NoSvc) \in SvcType /\ work.el.uid \in Nat
    BY StateTyped, WantedTyped, NoneTyped, Zenon
  <2> QED BY <2>1, RecordsTyped, Zenon DEF SvcType
<1>4. "ready" \in PC /\ TRUE \in BOOLEAN /\ FALSE \in BOOLEAN
  BY DEF PC
<1>5. ASSUME svc' \in SvcType, work' \in WorkType,
             fresh' = IF svc' = svc THEN fresh ELSE fresh \ {"svc"}
      PROVE  TypeOK'
  <2>1. UNCHANGED <<el, dep, custom, elc, depc, svcc, queued, watched>>
    BY DEF ReconcileService, caches
  <2>2. CountTyped'
    BY StateTyped, CountKept, Zenon DEF ReconcileService, UpdateService, CreateService
  <2>3. ObjectsTyped' /\ QueueTyped'
    BY <1>5, <2>1, StateTyped DEF ObjectsTyped, QueueTyped
  <2>4. fresh' \in SUBSET {"el", "dep", "svc", "work", "copy"}
    BY <1>5, StateTyped DEF FreshTyped
  <2> QED BY <1>5, <2>1, <2>2, <2>3, <2>4, TypeNext
<1>6. ASSUME NEW st \in StatusType, NEW err \in BOOLEAN, Go("ready", st, err)
      PROVE  /\ work' \in WorkType /\ work'.pc = "ready" /\ work'.el = work.el
             /\ work'.status = st /\ (work.err => work'.err) /\ (err => work'.err)
  BY <1>1, <1>4, <1>6, GoDoes, Zenon
<1>7. svc \in SvcType
  BY StateTyped DEF ObjectsTyped
<1> HIDE DEF spec, want, new
<1>8. CASE UpdateService
  <2>1. svcc.owner # 0
    BY <1>8 DEF UpdateService
  <2>2. CASE want = svcc /\ Go("ready", SeenService, FALSE) /\ UNCHANGED <<svc, fresh>>
    BY <1>1, <1>4, <1>5, <1>6, <1>7, <2>1, <2>2, Zenon DEF want, spec
  <2>3. CASE Go("ready", SeenService, TRUE) /\ UNCHANGED <<svc, fresh>>
    BY <1>1, <1>4, <1>5, <1>6, <1>7, <2>3, Zenon
  <2>4. CASE /\ "svc" \in fresh /\ svc' = want /\ Touch(svc, want, {"svc"})
             /\ Go("ready", SeenService, FALSE)
    <3>1. fresh' = IF svc' = svc THEN fresh ELSE fresh \ {"svc"}
      BY <2>4, Zenon DEF Touch
    <3> QED BY <1>1, <1>2, <1>4, <1>5, <1>6, <2>1, <2>4, <3>1, Zenon DEF want, spec
  <2> QED BY <1>8, <2>2, <2>3, <2>4, Zenon DEF UpdateService, SeenService, want, spec
<1>9. CASE CreateService
  <2>1. CASE Go("ready", work.status, TRUE) /\ UNCHANGED <<svc, fresh>>
    BY <1>1, <1>4, <1>5, <1>6, <1>7, <2>1, Zenon
  <2>2. CASE svc.owner = 0 /\ svc' = new /\ Touch(svc, new, {"svc"}) /\ Go("ready", SeenService, FALSE)
    <3>1. fresh' = IF svc' = svc THEN fresh ELSE fresh \ {"svc"}
      BY <2>2, Zenon DEF Touch
    <3> QED BY <1>1, <1>3, <1>4, <1>5, <1>6, <2>2, <3>1, Zenon
  <2> QED BY <1>9, <2>1, <2>2, Zenon DEF CreateService, SeenService, new, spec
<1> QED BY <1>8, <1>9 DEF ReconcileService

LEMMA FinalizerStep ==
    ASSUME TypeOK, RemoveFinalizer
    PROVE  /\ TypeOK'
           /\ work'.pc = "status" /\ work'.el = work.el /\ (work.err => work'.err)
           /\ work'.status = SetReadyCondition(work.status)
           /\ \/ el' = el /\ fresh' = fresh
              \/ fresh' = fresh \ {"el", "work"}
<1>1. SetReadyCondition(work.status) \in StatusType /\ work \in WorkType
  BY StateTyped, StatusTyped, Zenon
<1>2. "status" \in PC /\ FALSE \in BOOLEAN
  BY DEF PC
<1>3. /\ work' \in WorkType /\ work'.pc = "status" /\ work'.el = work.el
      /\ work'.status = SetReadyCondition(work.status) /\ (work.err => work'.err)
  BY <1>1, <1>2, GoDoes, Zenon DEF RemoveFinalizer
<1>4. \/ el' = el /\ fresh' = fresh
      \/ el' = [el EXCEPT !.finalizer = FALSE] /\ fresh' = fresh \ {"el", "work"}
  BY DEF RemoveFinalizer
<1>5. UNCHANGED <<dep, svc, custom, elc, depc, svcc, queued, watched>>
  BY DEF RemoveFinalizer, caches
<1>6. CountTyped'
  BY StateTyped, CountKept DEF RemoveFinalizer
<1>7. el' \in ELType
  BY <1>4, StateTyped, RecordsTyped, Zenon DEF ObjectsTyped
<1>8. ObjectsTyped' /\ QueueTyped'
  BY <1>5, <1>7, StateTyped DEF ObjectsTyped, QueueTyped
<1>9. fresh' \in SUBSET {"el", "dep", "svc", "work", "copy"}
  BY <1>4, StateTyped DEF FreshTyped
<1> QED BY <1>3, <1>4, <1>5, <1>6, <1>8, <1>9, TypeNext

LEMMA StatusStep ==
    ASSUME TypeOK, UpdateStatus
    PROVE  /\ TypeOK'
           /\ work' = IdleWork
           /\ fresh' = (IF el' = el THEN fresh ELSE fresh \ {"el"}) \ {"work", "copy"}
           /\ \/ queued'
              \/ ~queued /\ ~work.err /\ work.status = work.el.status
              \/ ~queued /\ ~work.err /\ el'.status = work.status
<1>1. IdleWork \in WorkType /\ work.status \in StatusType /\ el \in ELType
  BY StateTyped, NoneTyped DEF ObjectsTyped
<1>2. /\ work' = IdleWork
      /\ fresh' = (IF el' = el THEN fresh ELSE fresh \ {"el"}) \ {"work", "copy"}
      /\ UNCHANGED <<dep, svc, custom, elc, depc, svcc, watched>>
  BY DEF UpdateStatus, caches
<1>3. \/ queued' /\ el' = el
      \/ (queued' = (queued \/ work.err)) /\ el' = el /\ work.status = work.el.status
      \/ (queued' = (queued \/ work.err)) /\ el' = [el EXCEPT !.status = work.status]
  BY Zenon DEF UpdateStatus
<1>4. [el EXCEPT !.status = work.status] \in ELType
      /\ [el EXCEPT !.status = work.status].status = work.status
  BY <1>1, RecordsTyped, Zenon DEF ELType
<1>5. queued' \in BOOLEAN
  BY Zenon DEF UpdateStatus
<1>6. CountTyped'
  BY StateTyped, CountKept DEF UpdateStatus
<1>7. el' \in ELType
  BY <1>1, <1>3, <1>4, Zenon
<1>8. ObjectsTyped' /\ QueueTyped'
  BY <1>2, <1>5, <1>7, StateTyped DEF ObjectsTyped, QueueTyped
<1>9. fresh' \in SUBSET {"el", "dep", "svc", "work", "copy"}
  BY <1>2, StateTyped DEF FreshTyped
<1>10. TypeOK'
  BY <1>1, <1>2, <1>6, <1>8, <1>9, TypeNext
<1>11. \/ queued'
       \/ ~queued /\ ~work.err /\ work.status = work.el.status
       \/ ~queued /\ ~work.err /\ el'.status = work.status
  BY <1>3, <1>4, Zenon
<1> QED BY <1>2, <1>10, <1>11, Zenon

LEMMA BeginStep ==
    ASSUME TypeOK, Begin
    PROVE  /\ TypeOK' /\ ~queued' /\ work.pc = "idle"
           /\ UNCHANGED <<el, dep, svc, elc, depc, svcc>>
           /\ \/ (elc.uid = 0 \/ elc.deleting) /\ UNCHANGED <<work, fresh>>
              \/ /\ elc.uid # 0
                 /\ work'.el = elc
                 /\ \/ work'.pc = "watch" /\ elc.spec.kind = "custom"
                    \/ work'.pc = "deployment"
                 /\ fresh' = IF "el" \in fresh THEN fresh \union {"work"} ELSE fresh \ {"work"}
<1> DEFINE pc == IF elc.spec.kind = "custom" THEN "watch" ELSE "deployment"
           st == InitializeConditions(elc.status)
           new == [IdleWork EXCEPT !.pc = pc, !.el = elc, !.status = st]
<1>1. elc \in ELType
  BY StateTyped DEF CachesTyped
<1>2. pc \in PC /\ ((pc = "watch" /\ elc.spec.kind = "custom") \/ pc = "deployment")
  BY DEF PC
<1>3. st \in StatusType
  BY <1>1, RecordsTyped, StatusTyped, Zenon
<1>4. new \in WorkType /\ new.pc = pc /\ new.el = elc
  <2> HIDE DEF pc, st
  <2> QED BY <1>1, <1>2, <1>3, NoneTyped, Zenon DEF WorkType
<1>5. /\ UNCHANGED <<el, dep, svc, custom, elc, depc, svcc, watched, count>>
      /\ ~queued' /\ queued' \in BOOLEAN /\ work.pc = "idle"
  BY Zenon DEF Begin, objects, caches
<1>6. \/ (elc.uid = 0 \/ elc.deleting) /\ UNCHANGED <<work, fresh>>
      \/ /\ elc.uid # 0 /\ work' = new
         /\ fresh' = IF "el" \in fresh THEN fresh \union {"work"} ELSE fresh \ {"work"}
  BY Zenon DEF Begin
<1>7. ObjectsTyped' /\ QueueTyped' /\ CountTyped'
  BY <1>5, StateTyped DEF ObjectsTyped, QueueTyped, CountTyped
<1> HIDE DEF pc, st, new
<1>8. fresh' \in SUBSET {"el", "dep", "svc", "work", "copy"}
  BY <1>6, StateTyped DEF FreshTyped
<1>9. work' \in WorkType
  BY <1>4, <1>6, StateTyped, Zenon
<1>10. TypeOK'
  BY <1>5, <1>7, <1>8, <1>9, TypeNext
<1> QED BY <1>2, <1>4, <1>5, <1>6, <1>10, Zenon

-----------------------------------------------------------------------------
(* The inductive invariant *)

\* A copy that is of the current version is what the object is
Current ==
    /\ "el" \in fresh => elc = el
    /\ "dep" \in fresh => depc = dep
    /\ "svc" \in fresh => svcc = svc
    /\ "work" \in fresh => work.el = el

CustomPC == {"watch", "get", "delete deployment", "delete service", "update"}

\* A reconciliation is of the current EventListener, or another one is due
Started ==
    work.pc # "idle" =>
        /\ work.el.uid # 0
        /\ ~queued /\ "el" \in fresh => "work" \in fresh
        /\ work.pc \in CustomPC => work.el.spec.kind = "custom"

\* No other reconciliation is due for an EventListener that wants a Deployment
Undisturbed == ~queued /\ {"el", "dep", "svc"} \subseteq fresh /\ Live("kubernetes")

DeploymentDone(status) ==
    dep.owner # 0 /\ dep = MakeDeployment(el.spec, dep) /\ StatusOfDeployment(status)
ServiceDone(status) ==
    svc.owner # 0 /\ svc = MakeService(el.spec, svc) /\ StatusOfService(status, el.spec)
ReadyDone(status) == status.ready <=> status.avail # "no"

\* How far an undisturbed reconciliation has got
Progress ==
    Undisturbed =>
        /\ work.pc = "service" => work.err \/ DeploymentDone(work.status)
        /\ work.pc = "ready" => \/ work.err
                                \/ DeploymentDone(work.status) /\ ServiceDone(work.status)
        /\ work.pc = "status" => \/ work.err
                                 \/ /\ DeploymentDone(work.status) /\ ServiceDone(work.status)
                                    /\ ReadyDone(work.status)
        /\ work.pc = "idle" => /\ DeploymentDone(el.status) /\ ServiceDone(el.status)
                               /\ ReadyDone(el.status)

RInv == TypeOK /\ Current /\ Started /\ Progress

-----------------------------------------------------------------------------
(* What the other steps do *)

\* A step that makes no copy fresh, and changes nothing that a copy stays fresh of
Keeps ==
    /\ UNCHANGED <<elc, depc, svcc>>
    /\ "el" \in fresh' => "el" \in fresh /\ el' = el
    /\ "dep" \in fresh' => "dep" \in fresh /\ dep' = dep
    /\ "svc" \in fresh' => "svc" \in fresh /\ svc' = svc
    /\ "work" \in fresh' => "work" \in fresh /\ el' = el
    /\ "el" \in fresh' /\ "work" \in fresh => "work" \in fresh'

LEMMA NotifyKeeps ==
    ASSUME TypeOK, UNCHANGED queued \/ Notify
    PROVE  queued' \in BOOLEAN /\ (queued => queued')
<1>1. CASE UNCHANGED queued
  BY <1>1, StateTyped DEF QueueTyped
<1>2. CASE Notify
  BY <1>2, Zenon DEF Notify
<1> QED BY <1>1, <1>2

LEMMA WatchCustomStep ==
    ASSUME TypeOK, WatchCustom
    PROVE  /\ TypeOK' /\ Keeps /\ (queued => queued')
           /\ work'.el = work.el /\ work'.pc \in CustomPC \union {"status"}
<1>1. UNCHANGED <<el, dep, svc, custom, elc, depc, svcc, fresh>>
  BY DEF WatchCustom, objects, caches
<1>2. \E pc \in {"get", "status"}, err \in BOOLEAN : Go(pc, work.status, err)
  BY Zenon DEF WatchCustom
<1>3. PICK pc \in {"get", "status"}, err \in BOOLEAN : Go(pc, work.status, err)
  BY <1>2
<1>4. work' \in WorkType /\ work'.pc = pc /\ work'.el = work.el
  <2>1. pc \in PC
    BY Zenon DEF PC
  <2> QED BY <1>3, <2>1, GoDoes, StateTyped, Zenon
<1>5. queued' \in BOOLEAN /\ (queued => queued')
  <2>1. UNCHANGED queued \/ queued' = (queued \/ custom.owner # 0)
    BY Zenon DEF WatchCustom
  <2>2. ASSUME UNCHANGED queued PROVE queued' \in BOOLEAN /\ (queued => queued')
    BY <2>2, StateTyped DEF QueueTyped
  <2> QED BY <2>1, <2>2, Zenon
<1>6. watched' \in {"no", "on", "failed", "other"}
  BY StateTyped, Zenon DEF WatchCustom, QueueTyped
<1>7. CountTyped'
  BY StateTyped, CountKept, Zenon DEF WatchCustom
<1>8. ObjectsTyped' /\ QueueTyped'
  BY <1>1, <1>5, <1>6, StateTyped DEF ObjectsTyped, QueueTyped
<1>9. fresh' \in SUBSET {"el", "dep", "svc", "work", "copy"}
  BY <1>1, StateTyped DEF FreshTyped
<1>10. TypeOK'
  BY <1>1, <1>4, <1>7, <1>8, <1>9, TypeNext
<1>11. Keeps
  BY <1>1 DEF Keeps
<1> QED BY <1>4, <1>5, <1>10, <1>11, Zenon DEF CustomPC

LEMMA GetCustomStep ==
    ASSUME TypeOK, GetCustom
    PROVE  /\ TypeOK' /\ Keeps /\ (queued => queued')
           /\ work'.el = work.el /\ work'.pc \in CustomPC \union {"status"}
<1> DEFINE new == [MakeCustomObject(work.el.spec, NoCustom) EXCEPT !.owner = work.el.uid]
<1>1. UNCHANGED <<el, dep, svc, elc, depc, svcc, watched>>
  BY DEF GetCustom, caches
<1>2. new \in CustomType
  <2>1. MakeCustomObject(work.el.spec, NoCustom) \in CustomType /\ work.el.uid \in Nat
    BY StateTyped, WantedTyped, NoneTyped, Zenon
  <2> QED BY <2>1, RecordsTyped, Zenon
<1>3. /\ custom' = custom \/ custom' = new
      /\ fresh' = fresh \/ fresh' = fresh \union {"copy"}
  BY Zenon DEF GetCustom
<1>11. CountTyped'
  BY StateTyped, CountKept, Zenon DEF GetCustom
<1>4. queued' \in BOOLEAN /\ (queued => queued')
  <2>1. UNCHANGED queued \/ Notify
    BY Zenon DEF GetCustom
  <2> QED BY <2>1, NotifyKeeps
<1>5. "status" \in PC /\ "delete deployment" \in PC
  BY DEF PC
<1>6. /\ work' \in WorkType /\ work'.el = work.el
      /\ work'.pc = "status" \/ work'.pc = "delete deployment"
  <2>1. \/ \E err \in BOOLEAN : Go("status", work.status, err)
        \/ work' = [work EXCEPT !.pc = "delete deployment", !.copy = custom]
    BY Zenon DEF GetCustom
  <2>2. CASE \E err \in BOOLEAN : Go("status", work.status, err)
    BY <1>5, <2>2, GoDoes, StateTyped, Zenon
  <2>3. CASE work' = [work EXCEPT !.pc = "delete deployment", !.copy = custom]
    <3>1. custom \in CustomType
      BY StateTyped DEF ObjectsTyped
    <3> QED BY <1>5, <2>3, <3>1, StateTyped, Zenon DEF WorkType
  <2> QED BY <2>1, <2>2, <2>3, Zenon
<1> HIDE DEF new
<1>7. ObjectsTyped' /\ QueueTyped'
  BY <1>1, <1>2, <1>3, <1>4, StateTyped DEF ObjectsTyped, QueueTyped
<1>8. fresh' \in SUBSET {"el", "dep", "svc", "work", "copy"}
  BY <1>3, StateTyped DEF FreshTyped
<1>9. TypeOK'
  BY <1>1, <1>11, <1>6, <1>7, <1>8, TypeNext, Zenon
<1>10. Keeps
  BY <1>1, <1>3 DEF Keeps
<1> QED BY <1>4, <1>6, <1>9, <1>10, Zenon DEF CustomPC

LEMMA DeleteDeploymentStep ==
    ASSUME TypeOK, DeleteDeployment
    PROVE  /\ TypeOK' /\ Keeps /\ UNCHANGED queued
           /\ work'.el = work.el /\ work'.pc \in CustomPC \union {"status"}
<1>1. UNCHANGED <<el, svc, custom, elc, depc, svcc, queued, watched>>
  BY Zenon DEF DeleteDeployment, caches
<1>2. \E pc \in {"update", "delete service", "status"}, err \in BOOLEAN : Go(pc, work.status, err)
  BY Zenon DEF DeleteDeployment
<1>3. PICK pc \in {"update", "delete service", "status"}, err \in BOOLEAN : Go(pc, work.status, err)
  BY <1>2, Zenon
<1>4. work' \in WorkType /\ work'.pc = pc /\ work'.el = work.el
  <2>1. pc \in PC
    BY Zenon DEF PC
  <2> QED BY <1>3, <2>1, GoDoes, StateTyped, Zenon
<1>5. \/ dep' = dep /\ fresh' = fresh
      \/ dep' = NoDep /\ fresh' = IF NoDep = dep THEN fresh ELSE fresh \ {"dep"}
  BY Zenon DEF DeleteDeployment, Touch
<1>6. CountTyped'
  BY StateTyped, CountKept, Zenon DEF DeleteDeployment
<1>7. ObjectsTyped' /\ QueueTyped'
  BY <1>1, <1>5, NoneTyped, StateTyped, Zenon DEF ObjectsTyped, QueueTyped
<1>8. fresh' \in SUBSET {"el", "dep", "svc", "work", "copy"}
  BY <1>5, StateTyped, Zenon DEF FreshTyped
<1>9. TypeOK'
  BY <1>1, <1>4, <1>6, <1>7, <1>8, TypeNext, Zenon
<1>10. Keeps
  BY <1>1, <1>5, Zenon DEF Keeps
<1> QED BY <1>1, <1>4, <1>9, <1>10, Zenon DEF CustomPC

LEMMA DeleteServiceStep ==
    ASSUME TypeOK, DeleteService
    PROVE  /\ TypeOK' /\ Keeps /\ UNCHANGED queued
           /\ work'.el = work.el /\ work'.pc \in CustomPC \union {"status"}
<1>1. UNCHANGED <<el, dep, custom, elc, depc, svcc, queued, watched>>
  BY Zenon DEF DeleteService, caches
<1>2. \E pc \in {"update", "status"}, err \in BOOLEAN : Go(pc, work.status, err)
  BY Zenon DEF DeleteService
<1>3. PICK pc \in {"update", "status"}, err \in BOOLEAN : Go(pc, work.status, err)
  BY <1>2
<1>4. work' \in WorkType /\ work'.pc = pc /\ work'.el = work.el
  <2>1. pc \in PC
    BY Zenon DEF PC
  <2> QED BY <1>3, <2>1, GoDoes, StateTyped, Zenon
<1>5. \/ svc' = svc /\ fresh' = fresh
      \/ svc' = NoSvc /\ fresh' = IF NoSvc = svc THEN fresh ELSE fresh \ {"svc"}
  BY Zenon DEF DeleteService, Touch
<1>6. CountTyped'
  BY StateTyped, CountKept, Zenon DEF DeleteService
<1>7. ObjectsTyped' /\ QueueTyped'
  BY <1>1, <1>5, NoneTyped, StateTyped DEF ObjectsTyped, QueueTyped
<1>8. fresh' \in SUBSET {"el", "dep", "svc", "work", "copy"}
  BY <1>5, StateTyped DEF FreshTyped
<1>9. TypeOK'
  BY <1>1, <1>4, <1>6, <1>7, <1>8, TypeNext
<1>10. Keeps
  BY <1>1, <1>5 DEF Keeps
<1> QED BY <1>1, <1>4, <1>9, <1>10, Zenon DEF CustomPC

LEMMA UpdateCustomStep ==
    ASSUME TypeOK, UpdateCustom
    PROVE  /\ TypeOK' /\ Keeps /\ (queued => queued')
           /\ work'.el = work.el /\ work'.pc = "status"
<1> DEFINE want == MakeCustomObject(work.el.spec, work.copy)
<1>1. UNCHANGED <<el, dep, svc, elc, depc, svcc, watched>>
  BY DEF UpdateCustom, caches
<1>2. want \in CustomType
  BY StateTyped, WantedTyped, Zenon
<1>3. \/ \E c : SetConditionsForDynamicObjects(c)
      \/ Go("status", work.status, TRUE)
  BY Zenon DEF UpdateCustom
<1>4. \E st \in StatusType, err \in BOOLEAN : Go("status", st, err)
  <2>1. /\ work.status \in StatusType
        /\ [work.status EXCEPT !.ready = TRUE] \in StatusType
        /\ [work.status EXCEPT !.ready = TRUE, !.address = CustomURL] \in StatusType
    BY StateTyped, StatusTyped, Zenon
  <2>2. ASSUME NEW c, SetConditionsForDynamicObjects(c)
        PROVE  \E st \in StatusType, err \in BOOLEAN : Go("status", st, err)
    BY <2>1, <2>2, Zenon DEF SetConditionsForDynamicObjects
  <2> QED BY <1>3, <2>1, <2>2, Zenon
<1>5. work' \in WorkType /\ work'.pc = "status" /\ work'.el = work.el
  <2>1. "status" \in PC
    BY DEF PC
  <2> QED BY <1>4, <2>1, GoDoes, StateTyped, Zenon
<1>6. /\ custom' = custom \/ custom' = want
      /\ fresh' = fresh \/ fresh' = fresh \ {"copy"}
  BY Zenon DEF UpdateCustom
<1>7. CountTyped'
  BY StateTyped, CountKept, Zenon DEF UpdateCustom
<1>8. queued' \in BOOLEAN /\ (queued => queued')
  <2>1. UNCHANGED queued \/ Notify
    BY Zenon DEF UpdateCustom
  <2> QED BY <2>1, NotifyKeeps
<1> HIDE DEF want
<1>9. ObjectsTyped' /\ QueueTyped'
  BY <1>1, <1>2, <1>6, <1>8, StateTyped DEF ObjectsTyped, QueueTyped
<1>10. fresh' \in SUBSET {"el", "dep", "svc", "work", "copy"}
  BY <1>6, StateTyped DEF FreshTyped
<1>11. TypeOK'
  BY <1>1, <1>5, <1>7, <1>9, <1>10, TypeNext
<1>12. Keeps
  BY <1>1, <1>6 DEF Keeps
<1> QED BY <1>5, <1>8, <1>11, <1>12

\* Another actor writes one object, and its copies are not fresh any more
LEMMA OutsideStep ==
    ASSUME TypeOK, UNCHANGED <<elc, depc, svcc, work, watched>>, ObjectsTyped', CountTyped',
           UNCHANGED queued \/ Notify,
           \/ UNCHANGED <<el, dep, svc, fresh>>
           \/ UNCHANGED <<dep, svc>> /\ fresh' = fresh \ {"el", "work"}
           \/ UNCHANGED <<el, svc>> /\ fresh' = fresh \ {"dep"}
           \/ UNCHANGED <<el, dep>> /\ fresh' = fresh \ {"svc"}
           \/ UNCHANGED <<el, dep, svc>> /\ fresh' = fresh \ {"copy"}
    PROVE  TypeOK' /\ Keeps /\ UNCHANGED work /\ (queued => queued')
<1>1. queued' \in BOOLEAN /\ (queued => queued')
  BY NotifyKeeps
<1>2. QueueTyped'
  BY <1>1, StateTyped DEF QueueTyped
<1>3. fresh' \in SUBSET {"el", "dep", "svc", "work", "copy"}
  BY StateTyped DEF FreshTyped
<1>4. work' \in WorkType
  BY StateTyped
<1>5. TypeOK'
  BY <1>2, <1>3, <1>4, TypeNext
<1>6. Keeps
  BY DEF Keeps
<1> QED BY <1>1, <1>5, <1>6

LEMMA UserStep ==
    ASSUME TypeOK, Users
    PROVE  TypeOK' /\ Keeps /\ UNCHANGED work /\ (queued => queued')
<1>1. ObjectsTyped /\ CountTyped
  BY StateTyped
<1>2. ASSUME el' \in ELType, CountTyped', fresh' = fresh \ {"el", "work"},
             UNCHANGED <<dep, svc, custom, caches, reconciler>>
      PROVE  TypeOK' /\ Keeps /\ UNCHANGED work /\ (queued => queued')
  <2>1. UNCHANGED <<dep, svc, custom, elc, depc, svcc, queued, work, watched>>
    BY <1>2 DEF caches, reconciler
  <2>2. ObjectsTyped'
    BY <1>1, <1>2, <2>1 DEF ObjectsTyped
  <2> QED BY <1>2, <2>1, <2>2, OutsideStep
<1>3. ASSUME NEW spec \in UserSpecs, NEW f \in BOOLEAN, CreateEL(spec, f)
      PROVE  TypeOK' /\ Keeps /\ UNCHANGED work /\ (queued => queued')
  <2>1. spec \in ELSpec
    BY ELAssumption
  <2>2. count.uids + 1 \in Nat
    BY <1>1 DEF CountTyped
  <2>3. el' \in ELType
    BY <1>3, <2>1, <2>2, RecordsTyped, Zenon DEF CreateEL
  <2>4. CountTyped'
    BY <1>1, <1>3, CountKept, Zenon DEF CreateEL
  <2> QED BY <1>2, <1>3, <2>3, <2>4, Zenon DEF CreateEL
<1>4. ASSUME NEW spec \in UserSpecs, EditEL(spec)
      PROVE  TypeOK' /\ Keeps /\ UNCHANGED work /\ (queued => queued')
  <2>1. spec \in ELSpec
    BY ELAssumption
  <2>2. el' \in ELType
    BY <1>1, <1>4, <2>1, RecordsTyped, Zenon DEF EditEL, ObjectsTyped
  <2>3. CountTyped'
    BY <1>1, <1>4, CountKept, Zenon DEF EditEL
  <2> QED BY <1>2, <1>4, <2>2, <2>3, Zenon DEF EditEL
<1>5. ASSUME DeleteEL
      PROVE  TypeOK' /\ Keeps /\ UNCHANGED work /\ (queued => queued')
  <2>1. el' \in ELType
    BY <1>1, <1>5, RecordsTyped, NoneTyped, Zenon DEF DeleteEL, ObjectsTyped
  <2>2. CountTyped'
    BY <1>1, <1>5, CountKept, Zenon DEF DeleteEL
  <2> QED BY <1>2, <1>5, <2>1, <2>2, Zenon DEF DeleteEL
<1>6. ASSUME NEW new \in DepType, ChangeDeployment(new)
      PROVE  TypeOK' /\ Keeps /\ UNCHANGED work /\ (queued => queued')
  <2>1. /\ UNCHANGED <<el, svc, custom, elc, depc, svcc, queued, work, watched>>
        /\ dep' = new /\ fresh' = fresh \ {"dep"}
    BY <1>6 DEF ChangeDeployment, caches, reconciler
  <2>2. CountTyped'
    BY <1>1, <1>6, CountKept, Zenon DEF ChangeDeployment
  <2>3. ObjectsTyped'
    BY <1>1, <1>6, <2>1 DEF ObjectsTyped
  <2> QED BY <2>1, <2>2, <2>3, OutsideStep
<1>7. ASSUME DropService
      PROVE  TypeOK' /\ Keeps /\ UNCHANGED work /\ (queued => queued')
  <2>1. /\ UNCHANGED <<el, dep, custom, elc, depc, svcc, queued, work, watched>>
        /\ svc' = NoSvc /\ fresh' = fresh \ {"svc"}
    BY <1>7 DEF DropService, caches, reconciler
  <2>2. CountTyped'
    BY <1>1, <1>7, CountKept, Zenon DEF DropService
  <2>3. ObjectsTyped'
    BY <1>1, <2>1, NoneTyped DEF ObjectsTyped
  <2> QED BY <2>1, <2>2, <2>3, OutsideStep
<1>8. ASSUME NEW new \in CustomType, ChangeCustom(new)
      PROVE  TypeOK' /\ Keeps /\ UNCHANGED work /\ (queued => queued')
  <2>1. /\ UNCHANGED <<el, dep, svc, elc, depc, svcc, work, watched>>
        /\ custom' = new /\ fresh' = fresh \ {"copy"} /\ Notify
    BY <1>8, Zenon DEF ChangeCustom, caches
  <2>2. CountTyped'
    BY <1>1, <1>8, CountKept, Zenon DEF ChangeCustom
  <2>3. ObjectsTyped'
    BY <1>1, <1>8, <2>1 DEF ObjectsTyped
  <2> QED BY <2>1, <2>2, <2>3, OutsideStep
<1>9. /\ \A n \in Replicas : [dep EXCEPT !.replicas = n] \in DepType
      /\ \A c \in Conds : [dep EXCEPT !.conds = c] \in DepType
      /\ \A c \in CustomConds : [custom EXCEPT !.conds = c] \in CustomType
  <2>1. \A n \in Replicas : n \in Nat \ {0}
    BY ELAssumption
  <2> QED BY <1>1, <2>1, RecordsTyped, Zenon DEF ObjectsTyped
<1> QED BY <1>3, <1>4, <1>5, <1>6, <1>7, <1>8, <1>9, NoneTyped, Zenon DEF Users

LEMMA ClusterStep ==
    ASSUME TypeOK, Collect \/ WatchOther
    PROVE  TypeOK' /\ Keeps /\ UNCHANGED work /\ (queued => queued')
<1>1. ObjectsTyped /\ CountTyped
  BY StateTyped
<1>2. CASE CollectDeployment
  <2>1. /\ UNCHANGED <<el, svc, custom, elc, depc, svcc, queued, work, watched, count>>
        /\ dep' = NoDep /\ fresh' = fresh \ {"dep"}
    BY <1>2 DEF CollectDeployment, caches, reconciler
  <2>2. ObjectsTyped' /\ CountTyped'
    BY <1>1, <2>1, NoneTyped DEF ObjectsTyped, CountTyped
  <2> QED BY <2>1, <2>2, OutsideStep
<1>3. CASE CollectService
  <2>1. /\ UNCHANGED <<el, dep, custom, elc, depc, svcc, queued, work, watched, count>>
        /\ svc' = NoSvc /\ fresh' = fresh \ {"svc"}
    BY <1>3 DEF CollectService, caches, reconciler
  <2>2. ObjectsTyped' /\ CountTyped'
    BY <1>1, <2>1, NoneTyped DEF ObjectsTyped, CountTyped
  <2> QED BY <2>1, <2>2, OutsideStep
<1>4. CASE CollectCustom
  <2>1. /\ UNCHANGED <<el, dep, svc, elc, depc, svcc, work, watched, count>>
        /\ custom' = NoCustom /\ fresh' = fresh \ {"copy"} /\ Notify
    BY <1>4, Zenon DEF CollectCustom, caches
  <2>2. ObjectsTyped' /\ CountTyped'
    BY <1>1, <2>1, NoneTyped DEF ObjectsTyped, CountTyped
  <2> QED BY <2>1, <2>2, OutsideStep
<1>5. CASE WatchOther
  <2>1. /\ UNCHANGED <<el, dep, svc, custom, elc, depc, svcc, fresh, queued, work, count>>
        /\ watched' = "other"
    BY <1>5 DEF WatchOther, objects, caches
  <2>2. ObjectsTyped' /\ CountTyped' /\ QueueTyped' /\ work' \in WorkType
    BY <2>1, StateTyped DEF ObjectsTyped, CountTyped, QueueTyped
  <2>3. fresh' \in SUBSET {"el", "dep", "svc", "work", "copy"}
    BY <2>1, StateTyped DEF FreshTyped
  <2>4. TypeOK'
    BY <2>1, <2>2, <2>3, TypeNext
  <2> QED BY <2>1, <2>4 DEF Keeps
<1> QED BY <1>2, <1>3, <1>4, <1>5 DEF Collect

LEMMA SyncStep ==
    ASSUME TypeOK, Current, SyncEL \/ SyncDeployment \/ SyncService
    PROVE  TypeOK' /\ Current' /\ UNCHANGED work /\ queued'
<1>1. UNCHANGED <<el, dep, svc, custom, work, watched, count>> /\ queued' /\ queued' \in BOOLEAN
  BY Zenon DEF SyncEL, SyncDeployment, SyncService, objects
<1>2. \/ elc' = el /\ depc' = depc /\ svcc' = svcc /\ fresh' = fresh \union {"el"}
      \/ elc' = elc /\ depc' = dep /\ svcc' = svcc /\ fresh' = fresh \union {"dep"}
      \/ elc' = elc /\ depc' = depc /\ svcc' = svc /\ fresh' = fresh \union {"svc"}
  BY DEF SyncEL, SyncDeployment, SyncService
<1>3. ObjectsTyped' /\ CountTyped' /\ QueueTyped' /\ work' \in WorkType
  BY <1>1, StateTyped DEF ObjectsTyped, CountTyped, QueueTyped
<1>4. CachesTyped'
  BY <1>2, StateTyped DEF CachesTyped, ObjectsTyped
<1>5. FreshTyped'
  BY <1>2, StateTyped DEF FreshTyped
<1>6. Current'
  BY <1>1, <1>2 DEF Current
<1> QED BY <1>1, <1>3, <1>4, <1>5, <1>6, TypeParts

LEMMA CrashStep ==
    ASSUME TypeOK, Crash
    PROVE  TypeOK' /\ Current' /\ work'.pc = "idle" /\ queued'
<1>1. /\ UNCHANGED <<el, dep, svc, custom>> /\ queued' /\ queued' \in BOOLEAN
      /\ work' = IdleWork /\ watched' = "no" /\ fresh' = {"el", "dep", "svc"}
      /\ elc' = el /\ depc' = dep /\ svcc' = svc
  BY DEF Crash, objects
<1>2. CountTyped'
  BY StateTyped, CountKept, Zenon DEF Crash
<1>3. ObjectsTyped' /\ QueueTyped' /\ FreshTyped'
  BY <1>1, StateTyped DEF ObjectsTyped, QueueTyped, FreshTyped
<1>4. CachesTyped'
  BY <1>1, StateTyped DEF CachesTyped, ObjectsTyped
<1>5. work' \in WorkType /\ work'.pc = "idle"
  BY <1>1, NoneTyped DEF IdleWork
<1>6. Current'
  BY <1>1 DEF Current
<1> QED BY <1>1, <1>2, <1>3, <1>4, <1>5, <1>6, TypeParts

-----------------------------------------------------------------------------
(* The invariant is inductive *)

LEMMA KeepsCurrent ==
    ASSUME Current, Keeps, work'.el = work.el \/ "work" \notin fresh'
    PROVE  Current'
BY DEF Current, Keeps

LEMMA KeepsStarted ==
    ASSUME Started, Keeps, work.pc # "idle", work'.el = work.el, queued => queued',
           work'.pc \in CustomPC => work.pc \in CustomPC
    PROVE  Started'
BY DEF Started, Keeps

\* Where the invariant may assume something after a step, it may before
LEMMA KeepsUndisturbed ==
    ASSUME Keeps, Undisturbed', queued => queued'
    PROVE  Undisturbed /\ el' = el /\ dep' = dep /\ svc' = svc
<1>1. "el" \in fresh' /\ "dep" \in fresh' /\ "svc" \in fresh' /\ ~queued
  BY DEF Undisturbed
<1>2. el' = el /\ dep' = dep /\ svc' = svc /\ "el" \in fresh /\ "dep" \in fresh /\ "svc" \in fresh
  BY <1>1 DEF Keeps
<1> QED BY <1>1, <1>2 DEF Undisturbed, Live

LEMMA KeepsProgress ==
    ASSUME Progress, Keeps, UNCHANGED work, queued => queued'
    PROVE  Progress'
<1> SUFFICES ASSUME Undisturbed' PROVE Progress'
  BY DEF Progress
<1>1. Undisturbed /\ el' = el /\ dep' = dep /\ svc' = svc
  BY KeepsUndisturbed
<1> QED BY <1>1 DEF Progress, DeploymentDone, ServiceDone, ReadyDone, StatusOfDeployment, StatusOfService

\* A reconciliation that is not disturbed is of the current EventListener
LEMMA WorksOnCurrent ==
    ASSUME Current, Started, Undisturbed, work.pc # "idle"
    PROVE  work.el = el /\ elc = el /\ depc = dep /\ svcc = svc /\ work.pc \notin CustomPC
<1>1. "work" \in fresh /\ (work.pc \in CustomPC => work.el.spec.kind = "custom")
  BY DEF Started, Undisturbed
<1>2. work.el = el /\ elc = el /\ depc = dep /\ svcc = svc
  BY <1>1 DEF Current, Undisturbed
<1>3. el.spec.kind = "kubernetes"
  BY DEF Undisturbed, Live
<1> QED BY <1>1, <1>2, <1>3

LEMMA SeenDeploymentIs ==
    ASSUME TypeOK
    PROVE  /\ SeenDeployment.dep
           /\ depc.conds # "none" =>
                (SeenDeployment.avail = "no" <=> depc.conds \in {"no", "failing"})
           /\ SeenDeployment.failing <=> depc.conds = "failing"
<1>1. work.status \in StatusType /\ depc.conds \in Conds
  BY StateTyped, RecordsTyped, Zenon DEF CachesTyped
<1> DEFINE set == SetDeploymentConditions(work.status, depc.conds)
<1>2. set \in StatusType
  BY <1>1, StatusTyped, Zenon
<1>3. set.failing <=> depc.conds = "failing"
  BY <1>1, Zenon DEF SetDeploymentConditions, StatusType
<1>4. depc.conds # "none" => (set.avail = "no" <=> depc.conds \in {"no", "failing"})
  <2>1. CASE depc.conds = "yes"
    BY <1>1, <2>1 DEF SetDeploymentConditions, StatusType
  <2>2. CASE depc.conds \in {"no", "failing"}
    BY <1>1, <2>2 DEF SetDeploymentConditions, StatusType
  <2> QED BY <1>1, <2>1, <2>2 DEF Conds
<1> HIDE DEF set
<1>5. SeenDeployment.dep /\ SeenDeployment.avail = set.avail /\ SeenDeployment.failing = set.failing
  <2>1. SeenDeployment = [set EXCEPT !.dep = TRUE]
    BY DEF SeenDeployment, set
  <2> QED BY <1>2, <2>1, Zenon DEF StatusType
<1> QED BY <1>3, <1>4, <1>5, Zenon

LEMMA SeenServiceIs ==
    ASSUME TypeOK
    PROVE  /\ SeenService.svc /\ SeenService.address = ListenerHostname(work.el.spec)
           /\ SeenService.dep = work.status.dep /\ SeenService.avail = work.status.avail
           /\ SeenService.failing = work.status.failing
BY StateTyped, Zenon DEF SeenService, StatusType

LEMMA SetReadyIs ==
    ASSUME NEW s \in StatusType
    PROVE  /\ SetReadyCondition(s).ready <=> s.svc /\ s.dep /\ s.avail # "no"
           /\ SetReadyCondition(s).svc = s.svc /\ SetReadyCondition(s).dep = s.dep
           /\ SetReadyCondition(s).avail = s.avail /\ SetReadyCondition(s).failing = s.failing
           /\ SetReadyCondition(s).address = s.address
BY Zenon DEF SetReadyCondition, StatusType

LEMMA DeploymentProgress ==
    ASSUME RInv, ReconcileDeployment
    PROVE  RInv'
<1>1. TypeOK /\ Current /\ Started
  BY DEF RInv
<1>2. /\ TypeOK' /\ work'.pc = "service" /\ work'.el = work.el
      /\ fresh' = IF dep' = dep THEN fresh ELSE fresh \ {"dep"}
      /\ \/ work'.err
         \/ /\ depc.owner # 0
            /\ work'.status = SeenDeployment
            /\ \/ dep' = dep /\ depc = MakeDeployment(work.el.spec, depc)
               \/ dep' = MakeDeployment(work.el.spec, depc) /\ "dep" \in fresh
         \/ dep.owner = 0 /\ dep'.owner = work.el.uid
  BY <1>1, DeploymentStep, Zenon
<1>3. UNCHANGED <<el, svc, elc, depc, svcc, queued>> /\ work.pc = "deployment"
  BY DEF ReconcileDeployment, caches
<1>4. Keeps
  BY <1>2, <1>3 DEF Keeps
<1>5. Current' /\ Started'
  BY <1>1, <1>2, <1>3, <1>4, KeepsCurrent, KeepsStarted DEF CustomPC
<1>6. ASSUME Undisturbed', ~work'.err PROVE DeploymentDone(work.status)'
  <2>1. Undisturbed /\ el' = el /\ dep' = dep
    BY <1>3, <1>4, <1>6, KeepsUndisturbed
  <2>2. work.el = el /\ depc = dep /\ work.el.uid # 0
    BY <1>1, <1>3, <2>1, WorksOnCurrent DEF Started
  <2>3. /\ dep'.owner # 0 /\ dep' = MakeDeployment(el'.spec, dep')
        /\ work'.status = SeenDeployment
    BY <1>2, <1>6, <2>1, <2>2, Zenon
  <2>4. StatusOfDeployment(work.status)'
    BY <1>1, <2>1, <2>2, <2>3, SeenDeploymentIs, Zenon DEF StatusOfDeployment
  <2> QED BY <2>3, <2>4 DEF DeploymentDone
<1>7. Progress'
  BY <1>2, <1>6 DEF Progress
<1> QED BY <1>2, <1>5, <1>7 DEF RInv

LEMMA ServiceProgress ==
    ASSUME RInv, ReconcileService
    PROVE  RInv'
<1>1. TypeOK /\ Current /\ Started /\ Progress
  BY DEF RInv
<1>2. /\ TypeOK' /\ work'.pc = "ready" /\ work'.el = work.el /\ (work.err => work'.err)
      /\ fresh' = IF svc' = svc THEN fresh ELSE fresh \ {"svc"}
      /\ \/ work'.err
         \/ /\ svcc.owner # 0
            /\ work'.status = SeenService
            /\ \/ svc' = svc /\ svcc = MakeService(work.el.spec, svcc)
               \/ svc' = MakeService(work.el.spec, svcc) /\ "svc" \in fresh
         \/ svc.owner = 0 /\ svc'.owner = work.el.uid
  BY <1>1, ServiceStep, Zenon
<1>3. UNCHANGED <<el, dep, elc, depc, svcc, queued>> /\ work.pc = "service"
  BY DEF ReconcileService, caches
<1>4. Keeps
  BY <1>2, <1>3 DEF Keeps
<1>5. Current' /\ Started'
  BY <1>1, <1>2, <1>3, <1>4, KeepsCurrent, KeepsStarted DEF CustomPC
<1>6. ASSUME Undisturbed', ~work'.err
      PROVE  DeploymentDone(work.status)' /\ ServiceDone(work.status)'
  <2>1. Undisturbed /\ el' = el /\ dep' = dep /\ svc' = svc
    BY <1>3, <1>4, <1>6, KeepsUndisturbed
  <2>2. work.el = el /\ svcc = svc /\ work.el.uid # 0
    BY <1>1, <1>3, <2>1, WorksOnCurrent DEF Started
  <2>3. /\ svc'.owner # 0 /\ svc' = MakeService(el'.spec, svc')
        /\ work'.status = SeenService
    BY <1>2, <1>6, <2>1, <2>2, Zenon
  <2>4. DeploymentDone(work.status)
    BY <1>1, <1>2, <1>3, <1>6, <2>1 DEF Progress
  <2>5. DeploymentDone(work.status)'
    BY <1>1, <2>1, <2>3, <2>4, SeenServiceIs, Zenon DEF DeploymentDone, StatusOfDeployment
  <2>6. StatusOfService(work.status, el.spec)'
    BY <1>1, <2>1, <2>2, <2>3, SeenServiceIs, Zenon DEF StatusOfService
  <2> QED BY <2>3, <2>5, <2>6 DEF ServiceDone
<1>7. Progress'
  BY <1>2, <1>6 DEF Progress
<1> QED BY <1>2, <1>5, <1>7 DEF RInv

LEMMA FinalizerProgress ==
    ASSUME RInv, RemoveFinalizer
    PROVE  RInv'
<1>1. TypeOK /\ Current /\ Started /\ Progress
  BY DEF RInv
<1>2. /\ TypeOK' /\ work'.pc = "status" /\ work'.el = work.el /\ (work.err => work'.err)
      /\ work'.status = SetReadyCondition(work.status)
      /\ \/ el' = el /\ fresh' = fresh
         \/ fresh' = fresh \ {"el", "work"}
  BY <1>1, FinalizerStep, Zenon
<1>3. UNCHANGED <<dep, svc, elc, depc, svcc, queued>> /\ work.pc = "ready"
  BY DEF RemoveFinalizer, caches
<1>4. Keeps
  BY <1>2, <1>3 DEF Keeps
<1>5. Current' /\ Started'
  BY <1>1, <1>2, <1>3, <1>4, KeepsCurrent, KeepsStarted DEF CustomPC
<1>6. ASSUME Undisturbed', ~work'.err
      PROVE  (DeploymentDone(work.status) /\ ServiceDone(work.status) /\ ReadyDone(work.status))'
  <2>1. Undisturbed /\ el' = el /\ dep' = dep /\ svc' = svc
    BY <1>3, <1>4, <1>6, KeepsUndisturbed
  <2>2. DeploymentDone(work.status) /\ ServiceDone(work.status)
    BY <1>1, <1>2, <1>3, <1>6, <2>1 DEF Progress
  <2>3. work.status \in StatusType
    BY <1>1, StateTyped
  <2>8. /\ work'.status.ready <=> work.status.svc /\ work.status.dep /\ work.status.avail # "no"
        /\ work'.status.svc = work.status.svc /\ work'.status.dep = work.status.dep
        /\ work'.status.avail = work.status.avail /\ work'.status.failing = work.status.failing
        /\ work'.status.address = work.status.address
    <3>1. work'.status = SetReadyCondition(work.status)
      BY <1>2
    <3> QED BY <2>3, <3>1, SetReadyIs, Zenon
  <2>4. DeploymentDone(work.status)'
    BY <2>1, <2>2, <2>8, Zenon DEF DeploymentDone, StatusOfDeployment
  <2>5. ServiceDone(work.status)'
    BY <2>1, <2>2, <2>8, Zenon DEF ServiceDone, StatusOfService
  <2>6. work.status.dep /\ work.status.svc
    BY <2>2 DEF DeploymentDone, StatusOfDeployment, ServiceDone, StatusOfService
  <2>7. ReadyDone(work.status)'
    BY <2>6, <2>8, Zenon DEF ReadyDone
  <2> QED BY <2>4, <2>5, <2>7
<1>7. Progress'
  BY <1>2, <1>6 DEF Progress
<1> QED BY <1>2, <1>5, <1>7 DEF RInv

LEMMA StatusProgress ==
    ASSUME RInv, UpdateStatus
    PROVE  RInv'
<1>1. TypeOK /\ Current /\ Started /\ Progress
  BY DEF RInv
<1>2. /\ TypeOK' /\ work' = IdleWork
      /\ fresh' = (IF el' = el THEN fresh ELSE fresh \ {"el"}) \ {"work", "copy"}
      /\ \/ queued'
         \/ ~queued /\ ~work.err /\ work.status = work.el.status
         \/ ~queued /\ ~work.err /\ el'.status = work.status
  BY <1>1, StatusStep, Zenon
<1>3. UNCHANGED <<dep, svc, elc, depc, svcc>> /\ work.pc = "status"
  BY DEF UpdateStatus, caches
<1>4. work'.pc = "idle"
  BY <1>2 DEF IdleWork
<1>5. Current'
  BY <1>1, <1>2, <1>3 DEF Current
<1>6. Started'
  BY <1>4 DEF Started
<1>7. ASSUME Undisturbed'
      PROVE  (DeploymentDone(el.status) /\ ServiceDone(el.status) /\ ReadyDone(el.status))'
  <2>1. el' = el /\ {"el", "dep", "svc"} \subseteq fresh /\ ~queued'
    BY <1>2, <1>7 DEF Undisturbed
  <2>2. Undisturbed /\ ~work.err
    BY <1>2, <1>7, <2>1 DEF Undisturbed, Live
  <2>3. work.el = el
    BY <1>1, <1>3, <2>2, WorksOnCurrent
  <2>4. el.status = work.status
    BY <1>2, <2>1, <2>3
  <2>5. DeploymentDone(work.status) /\ ServiceDone(work.status) /\ ReadyDone(work.status)
    BY <1>1, <1>3, <2>2 DEF Progress
  <2>6. DeploymentDone(el.status)'
    BY <1>3, <2>1, <2>4, <2>5 DEF DeploymentDone, StatusOfDeployment
  <2>7. (ServiceDone(el.status) /\ ReadyDone(el.status))'
    BY <1>3, <2>1, <2>4, <2>5 DEF ServiceDone, StatusOfService, ReadyDone
  <2> QED BY <2>6, <2>7
<1>8. Progress'
  BY <1>4, <1>7 DEF Progress
<1> QED BY <1>2, <1>5, <1>6, <1>8 DEF RInv

LEMMA BeginProgress ==
    ASSUME RInv, Begin
    PROVE  RInv'
<1>1. TypeOK /\ Current
  BY DEF RInv
<1>2. /\ TypeOK' /\ ~queued' /\ work.pc = "idle"
      /\ UNCHANGED <<el, dep, svc, elc, depc, svcc>>
      /\ \/ (elc.uid = 0 \/ elc.deleting) /\ UNCHANGED <<work, fresh>>
         \/ /\ elc.uid # 0
            /\ work'.el = elc
            /\ \/ work'.pc = "watch" /\ elc.spec.kind = "custom"
               \/ work'.pc = "deployment"
            /\ fresh' = IF "el" \in fresh THEN fresh \union {"work"} ELSE fresh \ {"work"}
  BY <1>1, BeginStep, Zenon
<1>3. CASE (elc.uid = 0 \/ elc.deleting) /\ UNCHANGED <<work, fresh>>
  <2>1. Current' /\ Started'
    BY <1>1, <1>2, <1>3 DEF Current, Started
  <2>2. ~Undisturbed'
    BY <1>1, <1>2, <1>3 DEF Undisturbed, Live, Current
  <2> QED BY <1>2, <2>1, <2>2 DEF RInv, Progress
<1>4. CASE /\ elc.uid # 0
           /\ work'.el = elc
           /\ \/ work'.pc = "watch" /\ elc.spec.kind = "custom"
              \/ work'.pc = "deployment"
           /\ fresh' = IF "el" \in fresh THEN fresh \union {"work"} ELSE fresh \ {"work"}
  <2>1. Current'
    BY <1>1, <1>2, <1>4 DEF Current
  <2>2. Started'
    BY <1>2, <1>4, Zenon DEF Started, CustomPC
  <2>3. Progress'
    BY <1>4 DEF Progress
  <2> QED BY <1>2, <2>1, <2>2, <2>3 DEF RInv
<1> QED BY <1>2, <1>3, <1>4

LEMMA CustomProgress ==
    ASSUME RInv, WatchCustom \/ GetCustom \/ DeleteDeployment \/ DeleteService \/ UpdateCustom
    PROVE  RInv'
<1>1. TypeOK /\ Current /\ Started
  BY DEF RInv
<1>2. /\ TypeOK' /\ Keeps /\ (queued => queued')
      /\ work'.el = work.el /\ work'.pc \in CustomPC \union {"status"}
  BY <1>1, WatchCustomStep, GetCustomStep, DeleteDeploymentStep, DeleteServiceStep, UpdateCustomStep
<1>3. work.pc \in CustomPC /\ work.pc # "idle"
  BY Zenon DEF WatchCustom, GetCustom, DeleteDeployment, DeleteService, UpdateCustom, CustomPC
<1>4. Current' /\ Started'
  BY <1>1, <1>2, <1>3, KeepsCurrent, KeepsStarted
<1>5. ~Undisturbed'
  <2> SUFFICES ASSUME Undisturbed' PROVE FALSE
    OBVIOUS
  <2>1. Undisturbed
    BY <1>2, KeepsUndisturbed
  <2> QED BY <1>1, <1>3, <2>1, WorksOnCurrent
<1> QED BY <1>2, <1>4, <1>5 DEF RInv, Progress

LEMMA OtherProgress ==
    ASSUME RInv, Users \/ Collect \/ WatchOther
    PROVE  RInv'
<1>1. TypeOK /\ Current /\ Started /\ Progress
  BY DEF RInv
<1>2. TypeOK' /\ Keeps /\ UNCHANGED work /\ (queued => queued')
  BY <1>1, UserStep, ClusterStep
<1>3. Current' /\ Progress'
  BY <1>1, <1>2, KeepsCurrent, KeepsProgress
<1>4. Started'
  BY <1>1, <1>2 DEF Started, Keeps
<1> QED BY <1>2, <1>3, <1>4 DEF RInv

LEMMA SyncProgress ==
    ASSUME RInv, SyncEL \/ SyncDeployment \/ SyncService \/ Crash
    PROVE  RInv'
<1>1. TypeOK /\ Current /\ Started
  BY DEF RInv
<1>2. /\ TypeOK' /\ Current' /\ queued'
      /\ UNCHANGED work \/ work'.pc = "idle"
  BY <1>1, SyncStep, CrashStep
<1>3. Started' /\ Progress'
  BY <1>1, <1>2 DEF Started, Progress, Undisturbed
<1> QED BY <1>2, <1>3 DEF RInv

\* What RInv says of the initial state, of every step and of rest
LEMMA RInvInductive ==
    /\ Init => RInv
    /\ RInv /\ [Next]_vars => RInv'
    /\ RInv => RestsWhenDone
<1>1. ASSUME Init PROVE RInv
  <2>1. ObjectsTyped /\ CachesTyped /\ work \in WorkType
    BY <1>1, NoneTyped DEF Init, ObjectsTyped, CachesTyped
  <2>2. FreshTyped /\ QueueTyped /\ CountTyped
    BY <1>1, Zenon DEF Init, FreshTyped, QueueTyped, CountTyped
  <2>3. TypeOK
    BY <2>1, <2>2, Zenon DEF TypeOK, ObjectsTyped, CachesTyped, FreshTyped, QueueTyped, CountTyped,
                      WorkType, PC
  <2>4. Current
    BY <1>1 DEF Init, Current
  <2>5. work.pc = "idle" /\ el.uid = 0
    BY <1>1 DEF Init, IdleWork, NoEL
  <2> QED BY <2>3, <2>4, <2>5 DEF RInv, Started, Progress, Undisturbed, Live
<1>2. ASSUME RInv, Next PROVE RInv'
  BY <1>2, BeginProgress, DeploymentProgress, ServiceProgress, FinalizerProgress, StatusProgress,
     CustomProgress, OtherProgress, SyncProgress DEF Next, Reconcile
<1>3. ASSUME RInv, UNCHANGED vars PROVE RInv'
  <2>1. UNCHANGED <<el, dep, svc, custom, elc, depc, svcc, fresh, queued, work, watched, count>>
    BY <1>3 DEF vars
  <2>2. TypeOK /\ Current /\ Started /\ Progress
    BY <1>3 DEF RInv
  <2>3. TypeOK'
    BY <2>1, <2>2, Zenon DEF TypeOK
  <2>4. Keeps
    BY <2>1 DEF Keeps
  <2>5. Started'
    BY <2>1, <2>2 DEF Started
  <2>6. Current' /\ Progress'
    BY <2>1, <2>2, <2>4, KeepsCurrent, KeepsProgress
  <2> QED BY <2>3, <2>5, <2>6 DEF RInv
<1>4. ASSUME RInv, Quiet, Live("kubernetes") PROVE RestsWhenDone
  <2>1. DeploymentDone(el.status) /\ ServiceDone(el.status) /\ ReadyDone(el.status)
    BY <1>4 DEF RInv, Progress, Quiet, Undisturbed
  <2>2. dep.owner = el.uid /\ svc.owner = el.uid
    BY <1>4, <2>1 DEF Quiet, Garbage, DeploymentDone, ServiceDone
  <2> QED BY <2>1, <2>2 DEF RestsWhenDone, AsWanted, DeploymentDone, ServiceDone, ReadyDone
<1> QED BY <1>1, <1>2, <1>3, <1>4 DEF RestsWhenDone

\* Whatever the controller, users, other controllers and crashes do, every object, copy and
\* status is of its type: no reconciliation writes a status or an object out of nowhere.
THEOREM ReconcilerTypeCorrect == Spec => []TypeOK
<1>1. RInv => TypeOK
  BY DEF RInv
<1> QED BY <1>1, RInvInductive, PTL DEF Spec

\* Once nothing is going to happen by itself, the Deployment and the Service are the ones
\* that the EventListener asks for, and its status is of them (ReconcileKind and the
\* handlers of NewController), whatever happened before and in whatever order.
THEOREM RestsWhenDoneHolds == Spec => []RestsWhenDone
BY RInvInductive, PTL DEF Spec

\* Since an update carries the resource version of the copy it was made from, reconcileDeployment
\* never undoes a scale that the EventListener does not give.
THEOREM ReplicasKeptHolds == Spec => ReplicasKept
<1> DEFINE Kept == /\ work.pc = "deployment" /\ work' # work
                   /\ dep.owner # 0 /\ work.el.spec.replicas = 0
                   => dep'.replicas = dep.replicas
<1>1. ASSUME RInv, [Next]_vars, ~UNCHANGED vars PROVE Kept
  <2>1. CASE ReconcileDeployment
    <3>1. \/ dep' = dep \/ dep.owner = 0
          \/ dep' = MakeDeployment(work.el.spec, depc) /\ "dep" \in fresh
      BY <2>1, Zenon DEF ReconcileDeployment, UpdateDeployment, CreateDeployment
    <3>2. ASSUME dep' = MakeDeployment(work.el.spec, depc), "dep" \in fresh,
                 work.el.spec.replicas = 0
          PROVE  dep'.replicas = dep.replicas
      <4>1. depc = dep /\ dep \in DepType
        BY <1>1, <3>2, StateTyped DEF RInv, Current, ObjectsTyped
      <4> QED BY <3>2, <4>1, Zenon DEF MakeDeployment, DepType
    <3> QED BY <3>1, <3>2
  <2>2. CASE Crash
    BY <2>2 DEF Crash, objects
  <2>3. CASE ~ReconcileDeployment /\ ~Crash
    <3>1. CASE Reconcile
      <4>1. work.pc # "deployment"
        BY <2>3, <3>1, Zenon DEF Reconcile, Begin, ReconcileService, RemoveFinalizer, UpdateStatus,
           WatchCustom, GetCustom, DeleteDeployment, DeleteService, UpdateCustom
      <4> QED BY <4>1
    <3>2. CASE Users \/ Collect \/ WatchOther \/ SyncEL \/ SyncDeployment \/ SyncService
      <4>1. work' = work
        BY <1>1, <3>2, UserStep, ClusterStep, SyncStep DEF RInv
      <4> QED BY <4>1
    <3> QED BY <1>1, <2>3, <3>1, <3>2 DEF Next
  <2> QED BY <2>1, <2>2, <2>3
<1> QED BY <1>1, RInvInductive, PTL DEF Spec, ReplicasKept

-----------------------------------------------------------------------------
(* The same of a custom object *)

\* No other reconciliation is due for an EventListener that wants a custom object
CustomUndisturbed ==
    ~queued /\ {"el", "dep", "svc"} \subseteq fresh /\ Live("custom") /\ watched = "on"

CustomDone(status) ==
    /\ custom.owner # 0 /\ custom = MakeCustomObject(el.spec, custom)
    /\ dep.owner = 0
    /\ status.ready <=> custom.conds \in {"yes", "other"}

\* Which of its two ways a reconciliation is on
OnItsWay ==
    /\ work.pc \in CustomPC => ~work.status.ready
    /\ work.pc \in {"deployment", "service", "ready"} => work.el.spec.kind # "custom"

\* How far an undisturbed reconciliation has got.  It has not deleted anything, since that
\* is an event; nor updated or created the object.
CustomHalfway ==
    CustomUndisturbed =>
        /\ work.pc \in {"delete deployment", "update"} => work.copy = custom /\ custom.owner # 0
        /\ work.pc # "delete service"
        /\ work.pc = "update" => dep.owner = 0
        /\ work.pc = "status" => work.err \/ CustomDone(work.status)
        /\ work.pc = "idle" => CustomDone(el.status)

\* Steps other than WatchCustom do not start the watch; while it is on, a change of the
\* object is an event
KeepsCustom ==
    /\ watched' = "on" => watched = "on"
    /\ watched' = "on" /\ ~queued' => custom' = custom

LEMMA KeepsCustomUndisturbed ==
    ASSUME Keeps, KeepsCustom, CustomUndisturbed', queued => queued'
    PROVE  CustomUndisturbed /\ UNCHANGED <<el, dep, svc, custom>>
<1>1. "el" \in fresh' /\ "dep" \in fresh' /\ "svc" \in fresh' /\ ~queued' /\ watched' = "on"
  BY DEF CustomUndisturbed
<1>2. /\ el' = el /\ dep' = dep /\ svc' = svc /\ custom' = custom
      /\ "el" \in fresh /\ "dep" \in fresh /\ "svc" \in fresh /\ ~queued /\ watched = "on"
  BY <1>1 DEF Keeps, KeepsCustom
<1> QED BY <1>2 DEF CustomUndisturbed, Live

LEMMA CustomDoneKept ==
    ASSUME UNCHANGED <<el, dep, custom>>
    PROVE  /\ CustomDone(work.status) /\ work'.status = work.status => CustomDone(work.status)'
           /\ CustomDone(el.status) => CustomDone(el.status)'
BY DEF CustomDone

LEMMA NotifyKeepsCustom ==
    ASSUME UNCHANGED watched, UNCHANGED custom \/ Notify
    PROVE  KeepsCustom
<1>1. Notify => (watched = "on" => queued')
  BY Zenon DEF Notify
<1> QED BY <1>1 DEF KeepsCustom

\* A custom reconciliation that is not disturbed is of the current EventListener
LEMMA CustomWorksOnCurrent ==
    ASSUME Current, Started, OnItsWay, CustomUndisturbed, work.pc # "idle"
    PROVE  /\ work.el = el /\ depc = dep /\ el.spec.kind = "custom"
           /\ work.pc \notin {"deployment", "service", "ready"}
<1>1. "work" \in fresh
  BY DEF Started, CustomUndisturbed
<1>2. work.el = el /\ depc = dep /\ el.spec.kind = "custom"
  BY <1>1 DEF Current, CustomUndisturbed, Live
<1> QED BY <1>2 DEF OnItsWay

LEMMA OutsideCustom ==
    ASSUME TypeOK, OnItsWay, CustomHalfway, Users \/ Collect \/ WatchOther
    PROVE  OnItsWay' /\ CustomHalfway'
<1>1. Keeps /\ UNCHANGED work /\ (queued => queued')
  BY UserStep, ClusterStep
<1>2. KeepsCustom
  <2>1. CASE WatchOther
    BY <2>1 DEF WatchOther, KeepsCustom
  <2>2. CASE Users
    <3>1. UNCHANGED watched /\ (UNCHANGED custom \/ Notify)
      BY <2>2, Zenon DEF Users, CreateEL, EditEL, DeleteEL, ChangeDeployment, DropService,
         ChangeCustom, reconciler
    <3> QED BY <3>1, NotifyKeepsCustom
  <2>3. CASE Collect
    <3>1. UNCHANGED watched /\ (UNCHANGED custom \/ Notify)
      BY <2>3, Zenon DEF Collect, CollectDeployment, CollectService, CollectCustom, reconciler
    <3> QED BY <3>1, NotifyKeepsCustom
  <2> QED BY <2>1, <2>2, <2>3
<1>3. OnItsWay'
  BY <1>1 DEF OnItsWay
<1>4. ASSUME CustomUndisturbed' PROVE CustomHalfway'
  <2>1. CustomUndisturbed /\ UNCHANGED <<el, dep, svc, custom>>
    BY <1>1, <1>2, <1>4, KeepsCustomUndisturbed
  <2> QED BY <1>1, <2>1, CustomDoneKept, Zenon DEF CustomHalfway
<1> QED BY <1>3, <1>4, Zenon DEF CustomHalfway

LEMMA SyncCustom ==
    ASSUME TypeOK, Current, OnItsWay, CustomHalfway, SyncEL \/ SyncDeployment \/ SyncService \/ Crash
    PROVE  OnItsWay' /\ CustomHalfway'
<1>1. queued' /\ (UNCHANGED work \/ work'.pc = "idle")
  BY SyncStep, CrashStep
<1>2. OnItsWay'
  BY <1>1, Zenon DEF OnItsWay, CustomPC
<1> QED BY <1>1, <1>2, Zenon DEF CustomHalfway, CustomUndisturbed

LEMMA BeginCustom ==
    ASSUME TypeOK, Current, OnItsWay, Begin
    PROVE  OnItsWay' /\ CustomHalfway'
<1> DEFINE pc == IF elc.spec.kind = "custom" THEN "watch" ELSE "deployment"
           st == InitializeConditions(elc.status)
           new == [IdleWork EXCEPT !.pc = pc, !.el = elc, !.status = st]
<1>1. \/ (elc.uid = 0 \/ elc.deleting) /\ UNCHANGED <<work, fresh>>
      \/ work' = new
  BY Zenon DEF Begin
<1>2. UNCHANGED <<el, elc>> /\ work.pc = "idle"
  BY DEF Begin, objects, caches
<1>3. CASE (elc.uid = 0 \/ elc.deleting) /\ UNCHANGED <<work, fresh>>
  <2>1. ~CustomUndisturbed'
    BY <1>2, <1>3 DEF CustomUndisturbed, Live, Current
  <2> QED BY <1>3, <2>1, Zenon DEF OnItsWay, CustomHalfway
<1>4. CASE work' = new
  <2>1. elc \in ELType /\ elc.status \in StatusType
    BY StateTyped, RecordsTyped, Zenon DEF CachesTyped
  <2>2. ~st.ready
    BY <2>1, Zenon DEF InitializeConditions, StatusType
  <2>3. /\ pc = "watch" \/ (pc = "deployment" /\ elc.spec.kind # "custom")
    OBVIOUS
  <2>4. work'.pc = pc /\ work'.el = elc /\ work'.status = st
    <3> HIDE DEF pc, st
    <3> QED BY <1>4, Zenon DEF IdleWork
  <2> HIDE DEF pc, st
  <2>5. work'.pc \in {"watch", "deployment"}
    BY <2>3, <2>4
  <2>6. OnItsWay'
    BY <2>2, <2>3, <2>4, Zenon DEF OnItsWay, CustomPC
  <2>7. CustomHalfway'
    BY <2>5, Zenon DEF CustomHalfway
  <2> QED BY <2>6, <2>7
<1> QED BY <1>1, <1>3, <1>4

\* A reconciliation of a Deployment and a Service is not one of a custom object
LEMMA KubernetesCustom ==
    ASSUME TypeOK, Current, Started, OnItsWay, ReconcileDeployment \/ ReconcileService \/ RemoveFinalizer
    PROVE  OnItsWay' /\ CustomHalfway'
<1>1. /\ work'.el = work.el /\ work'.pc \in {"service", "ready", "status"}
      /\ Keeps /\ UNCHANGED <<queued, watched, custom>>
      /\ work.pc \in {"deployment", "service", "ready"}
  <2>1. CASE ReconcileDeployment
    <3>1. work'.pc = "service" /\ work'.el = work.el
          /\ fresh' = IF dep' = dep THEN fresh ELSE fresh \ {"dep"}
      BY <2>1, DeploymentStep, Zenon
    <3>2. UNCHANGED <<el, svc, custom, elc, depc, svcc, queued, watched>> /\ work.pc = "deployment"
      BY <2>1 DEF ReconcileDeployment, caches
    <3> QED BY <3>1, <3>2 DEF Keeps
  <2>2. CASE ReconcileService
    <3>1. work'.pc = "ready" /\ work'.el = work.el
          /\ fresh' = IF svc' = svc THEN fresh ELSE fresh \ {"svc"}
      BY <2>2, ServiceStep, Zenon
    <3>2. UNCHANGED <<el, dep, custom, elc, depc, svcc, queued, watched>> /\ work.pc = "service"
      BY <2>2 DEF ReconcileService, caches
    <3> QED BY <3>1, <3>2 DEF Keeps
  <2>3. CASE RemoveFinalizer
    <3>1. /\ work'.pc = "status" /\ work'.el = work.el
          /\ (el' = el /\ fresh' = fresh) \/ fresh' = fresh \ {"el", "work"}
      BY <2>3, FinalizerStep, Zenon
    <3>2. UNCHANGED <<dep, svc, custom, elc, depc, svcc, queued, watched>> /\ work.pc = "ready"
      BY <2>3 DEF RemoveFinalizer, caches
    <3> QED BY <3>1, <3>2 DEF Keeps
  <2> QED BY <2>1, <2>2, <2>3
<1>2. OnItsWay'
  BY <1>1, Zenon DEF OnItsWay, CustomPC
<1>3. ~CustomUndisturbed'
  <2> SUFFICES ASSUME CustomUndisturbed' PROVE FALSE
    OBVIOUS
  <2>1. KeepsCustom
    BY <1>1 DEF KeepsCustom
  <2>2. CustomUndisturbed
    BY <1>1, <2>1, KeepsCustomUndisturbed
  <2> QED BY <1>1, <2>2, CustomWorksOnCurrent
<1> QED BY <1>2, <1>3, Zenon DEF CustomHalfway

LEMMA StatusCustom ==
    ASSUME TypeOK, Current, Started, OnItsWay, CustomHalfway, UpdateStatus
    PROVE  OnItsWay' /\ CustomHalfway'
<1>1. /\ work' = IdleWork
      /\ fresh' = (IF el' = el THEN fresh ELSE fresh \ {"el"}) \ {"work", "copy"}
      /\ \/ queued'
         \/ ~queued /\ ~work.err /\ work.status = work.el.status
         \/ ~queued /\ ~work.err /\ el'.status = work.status
  BY StatusStep, Zenon
<1>2. UNCHANGED <<dep, svc, custom, watched>> /\ work.pc = "status"
  BY DEF UpdateStatus
<1>3. work'.pc = "idle"
  BY <1>1 DEF IdleWork
<1>4. ASSUME CustomUndisturbed' PROVE CustomDone(el.status)'
  <2>1. el' = el /\ {"el", "dep", "svc"} \subseteq fresh /\ ~queued'
    BY <1>1, <1>4 DEF CustomUndisturbed
  <2>2. CustomUndisturbed /\ ~work.err
    BY <1>1, <1>2, <1>4, <2>1 DEF CustomUndisturbed, Live
  <2>3. work.el = el
    BY <1>2, <2>2, CustomWorksOnCurrent
  <2>4. el.status = work.status
    BY <1>1, <2>1, <2>3
  <2>5. CustomDone(work.status)
    BY <1>2, <2>2 DEF CustomHalfway
  <2> QED BY <1>2, <2>1, <2>4, <2>5 DEF CustomDone
<1>5. OnItsWay'
  BY <1>3, Zenon DEF OnItsWay, CustomPC
<1> QED BY <1>3, <1>4, <1>5, Zenon DEF CustomHalfway

LEMMA GoesOn ==
    ASSUME TypeOK, NEW pc \in PC, NEW err \in BOOLEAN, Go(pc, work.status, err)
    PROVE  /\ work'.pc = pc /\ work'.status = work.status /\ work'.copy = work.copy
           /\ err => work'.err
BY StateTyped, GoDoes, Zenon

LEMMA FailedCustom ==
    ASSUME TypeOK, Go("status", work.status, TRUE)
    PROVE  OnItsWay' /\ CustomHalfway'
<1>1. work'.pc = "status" /\ work'.err
  BY GoesOn, Zenon DEF PC
<1> QED BY <1>1 DEF OnItsWay, CustomHalfway, CustomPC

LEMMA WatchCustomCustom ==
    ASSUME TypeOK, OnItsWay, WatchCustom
    PROVE  OnItsWay' /\ CustomHalfway'
<1>1. work.pc = "watch" /\ (Go("get", work.status, FALSE) \/ Go("status", work.status, TRUE))
  BY Zenon DEF WatchCustom
<1>2. CASE Go("get", work.status, FALSE)
  <2>1. work'.pc = "get" /\ work'.status = work.status
    BY <1>2, GoesOn, Zenon DEF PC
  <2> QED BY <1>1, <2>1 DEF OnItsWay, CustomHalfway, CustomPC
<1> QED BY <1>1, <1>2, FailedCustom, Zenon

LEMMA GetCustomCustom ==
    ASSUME TypeOK, OnItsWay, GetCustom
    PROVE  OnItsWay' /\ CustomHalfway'
<1>1. work.pc = "get" /\ UNCHANGED watched
  BY DEF GetCustom
<1>2. CASE Notify /\ Go("status", work.status, FALSE)
  <2>1. work'.pc = "status"
    BY <1>2, GoesOn, Zenon DEF PC
  <2>2. watched = "on" => queued'
    BY <1>2, Zenon DEF Notify
  <2> QED BY <1>1, <2>1, <2>2 DEF OnItsWay, CustomHalfway, CustomPC, CustomUndisturbed
<1>3. CASE /\ custom.owner # 0 /\ UNCHANGED custom
           /\ work' = [work EXCEPT !.pc = "delete deployment", !.copy = custom]
  <2>1. work'.pc = "delete deployment" /\ work'.copy = custom /\ work'.status = work.status
    BY <1>3, StateTyped, Zenon DEF WorkType
  <2> QED BY <1>1, <1>3, <2>1 DEF OnItsWay, CustomHalfway, CustomPC
<1> QED BY <1>2, <1>3, FailedCustom, Zenon DEF GetCustom

LEMMA DeleteCustom ==
    ASSUME TypeOK, Current, OnItsWay, CustomHalfway, DeleteDeployment \/ DeleteService
    PROVE  OnItsWay' /\ CustomHalfway'
<1>1. UNCHANGED <<watched, custom, queued>>
  BY Zenon DEF DeleteDeployment, DeleteService
<1>2. KeepsCustom /\ Keeps /\ (queued => queued')
  BY <1>1, DeleteDeploymentStep, DeleteServiceStep DEF KeepsCustom
<1>3. ASSUME NEW pc \in {"update", "delete service"}, Go(pc, work.status, FALSE),
             work.pc \in CustomPC
      PROVE  work'.pc = pc /\ work'.copy = work.copy /\ OnItsWay'
  <2>1. work'.pc = pc /\ work'.status = work.status /\ work'.copy = work.copy
    BY <1>3, GoesOn, Zenon DEF PC
  <2> QED BY <1>3, <2>1, Zenon DEF OnItsWay, CustomPC
<1>4. CASE DeleteDeployment
  <2>1. work.pc = "delete deployment" /\ work.pc \in CustomPC
    BY <1>4, Zenon DEF DeleteDeployment, CustomPC
  <2>2. CASE depc.owner = 0 /\ Go("update", work.status, FALSE)
    <3>1. work'.pc = "update" /\ work'.copy = work.copy /\ OnItsWay'
      BY <1>3, <2>1, <2>2, Zenon
    <3>2. ASSUME CustomUndisturbed'
          PROVE  work'.copy = custom' /\ custom'.owner # 0 /\ dep'.owner = 0
      <4>1. CustomUndisturbed /\ UNCHANGED <<dep, custom>>
        BY <1>2, <3>2, KeepsCustomUndisturbed
      <4>2. depc = dep
        BY <4>1 DEF Current, CustomUndisturbed
      <4> QED BY <2>1, <2>2, <3>1, <4>1, <4>2, Zenon DEF CustomHalfway
    <3> QED BY <3>1, <3>2, Zenon DEF CustomHalfway
  <2>3. CASE /\ depc.owner # 0 /\ dep' = NoDep /\ Touch(dep, NoDep, {"dep"})
             /\ Go("delete service", work.status, FALSE)
    <3>1. work'.pc = "delete service" /\ OnItsWay'
      BY <1>3, <2>1, <2>3, Zenon
    <3>2. ~CustomUndisturbed'
      <4> SUFFICES ASSUME CustomUndisturbed' PROVE FALSE
        OBVIOUS
      <4>1. CustomUndisturbed /\ UNCHANGED dep
        BY <1>2, KeepsCustomUndisturbed
      <4>2. depc = NoDep
        BY <2>3, <4>1, Zenon DEF Current, CustomUndisturbed
      <4> QED BY <2>3, <4>2, Zenon DEF NoDep
    <3> QED BY <3>1, <3>2, Zenon DEF CustomHalfway
  <2> QED BY <1>4, <2>2, <2>3, FailedCustom, Zenon DEF DeleteDeployment
<1>5. CASE DeleteService
  <2>1. work.pc = "delete service" /\ work.pc \in CustomPC
    BY <1>5, Zenon DEF DeleteService, CustomPC
  <2>2. CASE Go("update", work.status, FALSE)
    <3>1. OnItsWay'
      BY <1>3, <2>1, <2>2, Zenon
    <3>2. ~CustomUndisturbed'
      BY <1>2, <2>1, KeepsCustomUndisturbed, Zenon DEF CustomHalfway
    <3> QED BY <3>1, <3>2, Zenon DEF CustomHalfway
  <2> QED BY <1>5, <2>2, FailedCustom, Zenon DEF DeleteService
<1> QED BY <1>4, <1>5

LEMMA UpdateCustomCustom ==
    ASSUME TypeOK, Current, Started, OnItsWay, CustomHalfway, UpdateCustom
    PROVE  OnItsWay' /\ CustomHalfway'
<1> DEFINE want == MakeCustomObject(work.el.spec, work.copy)
<1>1. work.pc = "update" /\ UNCHANGED <<dep, el, watched>> /\ work'.pc = "status"
  BY UpdateCustomStep, Zenon DEF UpdateCustom
<1>2. OnItsWay'
  BY <1>1 DEF OnItsWay, CustomPC
<1>3. CASE Go("status", work.status, TRUE)
  BY <1>3, FailedCustom
<1>4. CASE Notify
  <2>1. watched = "on" => queued'
    BY <1>4, Zenon DEF Notify
  <2> QED BY <1>1, <1>2, <2>1, Zenon DEF CustomHalfway, CustomUndisturbed
<1>5. CASE /\ want = work.copy /\ SetConditionsForDynamicObjects(work.copy.conds)
           /\ UNCHANGED <<custom, fresh, queued>>
  <2>1. ASSUME CustomUndisturbed', ~work'.err PROVE CustomDone(work.status)'
    <3>1. CustomUndisturbed
      BY <1>1, <1>5, <2>1 DEF CustomUndisturbed, Live
    <3>2. work.el = el /\ work.copy = custom /\ custom.owner # 0 /\ dep.owner = 0
      BY <1>1, <3>1, CustomWorksOnCurrent DEF CustomHalfway
    <3>3. custom = MakeCustomObject(el.spec, custom)
      BY <1>5, <3>2
    <3>4. ~work.status.ready /\ work.status \in StatusType /\ custom.conds \in CustomConds
      BY <1>1, StateTyped, Zenon DEF OnItsWay, CustomPC, ObjectsTyped, CustomType
    <3>5. work'.status.ready <=> custom.conds \in {"yes", "other"}
      <4>1. ASSUME NEW st \in StatusType, NEW err \in BOOLEAN, Go("status", st, err)
            PROVE  work'.status = st /\ (err => work'.err)
        BY <4>1, StateTyped, GoDoes, Zenon DEF PC
      <4>2. /\ [work.status EXCEPT !.ready = TRUE] \in StatusType
            /\ [work.status EXCEPT !.ready = TRUE].ready
            /\ [work.status EXCEPT !.ready = TRUE, !.address = CustomURL] \in StatusType
            /\ [work.status EXCEPT !.ready = TRUE, !.address = CustomURL].ready
        BY <3>4, StatusTyped, Zenon DEF StatusType
      <4>3. CASE custom.conds = "none"
        <5>1. Go("status", work.status, FALSE)
          BY <1>5, <3>2, <4>3, Zenon DEF SetConditionsForDynamicObjects
        <5> QED BY <3>4, <4>1, <4>3, <5>1, Zenon
      <4>4. CASE custom.conds = "no"
        <5>1. Go("status", work.status, TRUE)
          BY <1>5, <3>2, <4>4, Zenon DEF SetConditionsForDynamicObjects
        <5> QED BY <2>1, <3>4, <4>1, <5>1, Zenon
      <4>5. CASE custom.conds = "yes"
        <5>1. Go("status", [work.status EXCEPT !.ready = TRUE, !.address = CustomURL], FALSE)
          BY <1>5, <3>2, <4>5, Zenon DEF SetConditionsForDynamicObjects
        <5> QED BY <4>1, <4>2, <4>5, <5>1, Zenon
      <4>6. CASE custom.conds = "other"
        <5>1. Go("status", [work.status EXCEPT !.ready = TRUE], FALSE)
          BY <1>5, <3>2, <4>6, Zenon DEF SetConditionsForDynamicObjects
        <5> QED BY <4>1, <4>2, <4>6, <5>1, Zenon
      <4> QED BY <3>4, <4>3, <4>4, <4>5, <4>6 DEF CustomConds
    <3> QED BY <1>1, <1>5, <3>2, <3>3, <3>5 DEF CustomDone
  <2> QED BY <1>1, <1>2, <2>1 DEF CustomHalfway
<1> QED BY <1>3, <1>4, <1>5, Zenon DEF UpdateCustom

CustomInv == RInv /\ OnItsWay /\ CustomHalfway

LEMMA CustomInvInductive ==
    /\ Init => CustomInv
    /\ CustomInv /\ [Next]_vars => CustomInv'
    /\ CustomInv => CustomRestsWhenDone
<1>1. ASSUME Init PROVE CustomInv
  <2>1. work.pc = "idle" /\ el.uid = 0
    BY <1>1 DEF Init, IdleWork, NoEL
  <2> QED BY <1>1, <2>1, RInvInductive DEF CustomInv, OnItsWay, CustomHalfway, CustomPC,
             CustomUndisturbed, Live
<1>2. ASSUME CustomInv, Next PROVE OnItsWay' /\ CustomHalfway'
  <2>1. TypeOK /\ Current /\ Started /\ OnItsWay /\ CustomHalfway
    BY <1>2 DEF CustomInv, RInv
  <2>2. CASE Reconcile
    BY <2>1, <2>2, BeginCustom, KubernetesCustom, StatusCustom, WatchCustomCustom,
       GetCustomCustom, DeleteCustom, UpdateCustomCustom DEF Reconcile
  <2>3. CASE SyncEL \/ SyncDeployment \/ SyncService \/ Crash
    BY <2>1, <2>3, SyncCustom
  <2>4. CASE Users \/ Collect \/ WatchOther
    BY <2>1, <2>4, OutsideCustom
  <2> QED BY <1>2, <2>2, <2>3, <2>4 DEF Next
<1>3. ASSUME CustomInv, UNCHANGED vars PROVE OnItsWay' /\ CustomHalfway'
  <2>1. UNCHANGED <<el, dep, svc, custom, fresh, queued, work, watched>>
    BY <1>3 DEF vars
  <2>2. OnItsWay /\ CustomHalfway
    BY <1>3 DEF CustomInv
  <2> QED BY <2>1, <2>2, Zenon DEF OnItsWay, CustomHalfway, CustomUndisturbed, Live, CustomDone
<1>4. CustomInv /\ [Next]_vars => CustomInv'
  BY <1>2, <1>3, RInvInductive DEF CustomInv
<1>5. ASSUME CustomInv, Quiet, Live("custom"), watched = "on" PROVE CustomRestsWhenDone
  <2>1. CustomDone(el.status) /\ custom \in CustomType /\ el.uid \in Nat
    BY <1>5, StateTyped, RecordsTyped, Zenon
       DEF CustomInv, RInv, CustomHalfway, Quiet, CustomUndisturbed, ObjectsTyped
  <2>2. custom.owner = el.uid
    BY <1>5, <2>1 DEF Quiet, Garbage, CustomDone
  <2>3. custom = [custom EXCEPT !.owner = el.uid]
    BY <2>1, <2>2 DEF CustomType
  <2>4. custom = [MakeCustomObject(el.spec, custom) EXCEPT !.owner = el.uid]
    BY <2>1, <2>3 DEF CustomDone
  <2> QED BY <2>1, <2>4 DEF CustomRestsWhenDone, CustomDone
<1> QED BY <1>1, <1>4, <1>5 DEF CustomRestsWhenDone

\* Once nothing is going to happen by itself and the events of custom objects are received,
\* the custom object is the one that the EventListener asks for and its own, no Deployment is
\* left over, and the EventListener is ready just when the object is (reconcileCustomObject).
THEOREM CustomRestsWhenDoneHolds == Spec => []CustomRestsWhenDone
BY CustomInvInductive, PTL DEF Spec

=============================================================================
