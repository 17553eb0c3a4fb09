---------------------------- MODULE ELReconciler ----------------------------
(***************************************************************************)
(* The controller of EventListeners (pkg/reconciler/eventlistener): from   *)
(* the EventListener in its informer it makes a Deployment and a Service,  *)
(* or the custom object that the EventListener asks for, and writes the    *)
(* status.  One EventListener, its name and the names of its objects being *)
(* fixed; it may be deleted and made anew, with another uid.               *)
(*                                                                         *)
(* An object that does not exist has owner (or uid) 0.  Every object has a *)
(* resource version: `fresh' names the copies that are of the current one, *)
(* and a request to update from any other copy is refused.  The code reads *)
(* a lister just before it sends the request that uses what it read; one   *)
(* step does both, since what could happen in between can as well happen   *)
(* before the informer sees it.                                            *)
(***************************************************************************)
EXTENDS Integers, FiniteSets

CONSTANTS
    UserSpecs,      \* the specs users give the EventListener
    Replicas,       \* the scales users and autoscalers give the Deployment
    OldObject,      \* may the EventListener be one that has the old finalizer?
    OtherResource,  \* may another EventListener want a custom object of another kind?
    Defaulting,     \* does the API server's defaulting make every comparison differ?
    ConfigPort,     \* the port the controller is configured with
    \* Bounds
    MaxUids,        \* how often the EventListener is made
    MaxChanges,     \* edits and deletions of the EventListener
    MaxOutside,     \* changes of the other objects by others
    MaxErrors,      \* requests that fail
    MaxCrashes      \* crashes of the controller

Ports == {80, 8080, 8443}
\* The conditions of a Deployment: none, Available is false or true, false and ReplicaFailure
Conds == {"none", "no", "yes", "failing"}
\* Those of a custom object: none, Ready is false or true, none of them is Ready
CustomConds == {"none", "no", "yes", "other"}
NoNote == "none"

ELSpec == [kind : {"kubernetes", "custom"},     \* spec.resources
           template : {"plain", "tls"},         \* what ends up in the pods
           port : {0} \union Ports,             \* servicePort; 0 when it is not given
           replicas : Nat,                      \* replicas; 0 when they are not given
           labels : {"l1", "l2"},
           note : {NoNote, "x", "y"}]           \* the value of an annotation

ASSUME ELAssumption ==
    /\ UserSpecs \subseteq ELSpec
    /\ Replicas \subseteq Nat \ {0}
    /\ OldObject \in BOOLEAN /\ OtherResource \in BOOLEAN /\ Defaulting \in BOOLEAN
    /\ ConfigPort \in Ports
    /\ {MaxUids, MaxChanges, MaxOutside, MaxErrors, MaxCrashes} \subseteq Nat

VARIABLES
    el, dep, svc, custom,   \* the objects in the API server
    elc, depc, svcc,        \* what the controller's informers show
    fresh,                  \* see above: "el", "dep" and "svc" are the informers' copies,
                            \* "work" and "copy" the ones work.el and work.copy
    queued,                 \* is the EventListener in the work queue?
    work,                   \* the reconciliation that is going on
    watched,                \* onlyOnce: "no", or what came of the watch on custom objects
    count                   \* of uids, changes, outside, errors, crashes, for the bounds

objects == <<el, dep, svc, custom>>
caches == <<elc, depc, svcc>>
vars == <<el, dep, svc, custom, elc, depc, svcc, fresh, queued, work, watched, count>>

-----------------------------------------------------------------------------
(* The status of an EventListener, pkg/apis/triggers/v1beta1/event_listener_types.go *)

NewStatus == [dep |-> FALSE, svc |-> FALSE, ready |-> FALSE, avail |-> "none",
              failing |-> FALSE, address |-> 0]

NoSpec == [kind |-> "kubernetes", template |-> "plain", port |-> 0, replicas |-> 0,
           labels |-> "l1", note |-> NoNote]
NoEL == [uid |-> 0, deleting |-> FALSE, finalizer |-> FALSE, spec |-> NoSpec, status |-> NewStatus]
NoDep == [owner |-> 0, template |-> "plain", labels |-> "l1", note |-> NoNote, replicas |-> 1,
          conds |-> "none"]
NoSvc == [owner |-> 0, port |-> 8080, labels |-> "l1", note |-> NoNote]
NoCustom == [owner |-> 0, template |-> "plain", labels |-> "l1", note |-> NoNote, conds |-> "none"]

InitializeConditions(status) ==
    [status EXCEPT !.dep = FALSE, !.svc = FALSE, !.ready = FALSE]

\* A condition that the Deployment does not have keeps the value it had
SetDeploymentConditions(status, conds) ==
    [status EXCEPT !.failing = (conds = "failing"),
                   !.avail = CASE conds = "none" -> @
                               [] conds = "yes"  -> "yes"
                               [] OTHER          -> "no"]

SetReadyCondition(status) ==
    [status EXCEPT !.ready = status.svc /\ status.dep /\ status.avail # "no"]

-----------------------------------------------------------------------------
(* What the reconciler wants the objects to be, its package resources *)

DefaultPort == 8080

ServicePort(spec, port) ==
    IF spec.template = "tls" /\ port = DefaultPort
      THEN 8443
      ELSE IF spec.port # 0 THEN spec.port ELSE port

ListenerHostname(spec) == ServicePort(spec, ConfigPort)

\* kmeta.UnionMaps(wanted, existing), for one annotation
UnionMaps(wanted, existing) == IF existing # NoNote THEN existing ELSE wanted

\* s as MakeService and the merging of what exists want it
MakeService(spec, s) ==
    [s EXCEPT !.port = ServicePort(spec, IF spec.port # 0 THEN spec.port ELSE ConfigPort),
              !.labels = spec.labels, !.note = UnionMaps(spec.note, @)]

\* Mutant: a scale that is not given is not copied from what exists
MakeDeploymentScales(spec, d) ==
    [d EXCEPT !.template = spec.template, !.labels = spec.labels,
              !.note = UnionMaps(spec.note, @), !.replicas = spec.replicas]

\* d as MakeDeployment and the merging of what exists want it.  A scale that is not
\* given stays what it is.
MakeDeployment(spec, d) ==
    [d EXCEPT !.template = spec.template, !.labels = spec.labels,
              !.note = UnionMaps(spec.note, @),
              !.replicas = IF spec.replicas # 0 THEN spec.replicas ELSE @]

\* c as MakeCustomObject, the merging of annotations and UpdateCustomObject want it
MakeCustomObject(spec, c) ==
    [c EXCEPT !.template = spec.template, !.labels = spec.labels,
              !.note = UnionMaps(spec.note, @)]

-----------------------------------------------------------------------------
IdleWork == [pc |-> "idle", el |-> NoEL, status |-> NewStatus, err |-> FALSE, copy |-> NoCustom]

Init ==
    /\ el = NoEL /\ dep = NoDep /\ svc = NoSvc /\ custom = NoCustom
    /\ elc = NoEL /\ depc = NoDep /\ svcc = NoSvc
    /\ fresh = {"el", "dep", "svc"}
    /\ queued = FALSE
    /\ work = IdleWork
    /\ watched = "no"
    /\ count = [uids |-> 0, changes |-> 0, outside |-> 0, errors |-> 0, crashes |-> 0]

\* The API server fails a request
Error ==
    /\ count.errors < MaxErrors
    /\ count' = [count EXCEPT !.errors = @ + 1]

\* Mutant: every write makes a new version
TouchAlways(old, new, copies) == fresh' = fresh \ copies

\* A write makes a new version, which the copies are not of, unless it changes nothing
Touch(old, new, copies) == fresh' = IF new = old THEN fresh ELSE fresh \ copies

\* Events of custom objects reach the work queue
Notify == queued' = (queued \/ watched = "on")

\* The reconciler goes on to pc with this status and this error
Go(pc, status, err) == work' = [work EXCEPT !.pc = pc, !.status = status, !.err = @ \/ err]

\* The beginning of Reconcile and of ReconcileKind.  Nothing is done for an
\* EventListener that is being deleted.
Begin ==
    /\ work.pc = "idle" /\ queued
    /\ queued' = FALSE
    /\ IF elc.uid = 0 \/ elc.deleting
         THEN UNCHANGED <<work, fresh>>
         ELSE /\ work' = [IdleWork EXCEPT
                            !.pc = IF elc.spec.kind = "custom" THEN "watch" ELSE "deployment",
                            !.el = elc, !.status = InitializeConditions(elc.status)]
              /\ fresh' = IF "el" \in fresh THEN fresh \union {"work"} ELSE fresh \ {"work"}
    /\ UNCHANGED <<objects, caches, watched, count>>

-----------------------------------------------------------------------------
(* A Deployment and a Service *)

\* Mutant: the update is sent without the resource version of the copy
UpdateDeploymentForced ==
    LET want == MakeDeployment(work.el.spec, depc)
        status == [SetDeploymentConditions(work.status, depc.conds) EXCEPT !.dep = TRUE]
    IN  /\ depc.owner # 0 /\ dep.owner # 0
        /\ dep' = [want EXCEPT !.conds = dep.conds]
        /\ Touch(dep, want, {"dep"})
        /\ Go("service", status, FALSE)
        /\ UNCHANGED count

UpdateDeployment ==
    LET want == MakeDeployment(work.el.spec, depc)
        status == [SetDeploymentConditions(work.status, depc.conds) EXCEPT !.dep = TRUE]
    IN  /\ depc.owner # 0
        /\ \/ /\ ~Defaulting /\ want = depc
              /\ Go("service", status, FALSE)
              /\ UNCHANGED <<dep, fresh, count>>
           \/ /\ Defaulting \/ want # depc
              /\ \/ Error
                 \/ "dep" \notin fresh /\ UNCHANGED count
              /\ Go("service", status, TRUE)
              /\ UNCHANGED <<dep, fresh>>
           \/ /\ Defaulting \/ want # depc
              /\ "dep" \in fresh
              /\ dep' = want
              /\ Touch(dep, want, {"dep"})
              /\ Go("service", status, FALSE)
              /\ UNCHANGED count

CreateDeployment ==
    LET new == [MakeDeployment(work.el.spec, NoDep) EXCEPT !.owner = work.el.uid]
    IN  /\ depc.owner = 0
        /\ \/ /\ \/ Error
                 \/ dep.owner # 0 /\ UNCHANGED count
              /\ Go("service", work.status, TRUE)
              /\ UNCHANGED <<dep, fresh>>
           \/ /\ dep.owner = 0
              /\ dep' = new
              /\ Touch(dep, new, {"dep"})
              /\ Go("service", [SetDeploymentConditions(work.status, "none") EXCEPT !.dep = TRUE],
                    FALSE)
              /\ UNCHANGED count

ReconcileDeployment ==
    /\ work.pc = "deployment"
    /\ UpdateDeployment \/ CreateDeployment
    /\ UNCHANGED <<el, svc, custom, caches, queued, watched>>

UpdateService ==
    LET want == MakeService(work.el.spec, svcc)
        status == [work.status EXCEPT !.svc = TRUE, !.address = ListenerHostname(work.el.spec)]
    IN  /\ svcc.owner # 0
        /\ \/ /\ ~Defaulting /\ want = svcc
              /\ Go("ready", status, FALSE)
              /\ UNCHANGED <<svc, fresh, count>>
           \/ /\ Defaulting \/ want # svcc
              /\ \/ Error
                 \/ "svc" \notin fresh /\ UNCHANGED count
              /\ Go("ready", status, TRUE)
              /\ UNCHANGED <<svc, fresh>>
           \/ /\ Defaulting \/ want # svcc
              /\ "svc" \in fresh
              /\ svc' = want
              /\ Touch(svc, want, {"svc"})
              /\ Go("ready", status, FALSE)
              /\ UNCHANGED count

CreateService ==
    LET new == [MakeService(work.el.spec, NoSvc) EXCEPT !.owner = work.el.uid]
    IN  /\ svcc.owner = 0
        /\ \/ /\ \/ Error
                 \/ svc.owner # 0 /\ UNCHANGED count
              /\ Go("ready", work.status, TRUE)
              /\ UNCHANGED <<svc, fresh>>
           \/ /\ svc.owner = 0
              /\ svc' = new
              /\ Touch(svc, new, {"svc"})
              /\ Go("ready", [work.status EXCEPT !.svc = TRUE,
                                                 !.address = ListenerHostname(work.el.spec)], FALSE)
              /\ UNCHANGED count

ReconcileService ==
    /\ work.pc = "service"
    /\ UpdateService \/ CreateService
    /\ UNCHANGED <<el, dep, custom, caches, queued, watched>>

\* The ready condition, then removeFinalizer, whose error is only logged
RemoveFinalizer ==
    /\ work.pc = "ready"
    /\ Go("status", SetReadyCondition(work.status), FALSE)
    /\ \/ /\ ~work.el.finalizer
          /\ UNCHANGED <<el, fresh, count>>
       \/ /\ work.el.finalizer
          /\ \/ Error
             \/ "work" \notin fresh /\ UNCHANGED count
          /\ UNCHANGED <<el, fresh>>
       \/ /\ work.el.finalizer
          /\ "work" \in fresh
          /\ el' = [el EXCEPT !.finalizer = FALSE]
          /\ fresh' = fresh \ {"el", "work"}
          /\ UNCHANGED count
    /\ UNCHANGED <<dep, svc, custom, caches, queued, watched>>

\* updateStatus, which tries again after a conflict, with the EventListener that is
\* there by then; and the end of Reconcile, which is called again after an error
UpdateStatus ==
    /\ work.pc = "status"
    /\ \/ /\ work.status = work.el.status
          /\ queued' = (queued \/ work.err)
          /\ UNCHANGED <<el, count>>
       \/ /\ work.status # work.el.status
          /\ \/ Error
             \/ el.uid = 0 /\ UNCHANGED count
          /\ queued' = TRUE
          /\ UNCHANGED el
       \/ /\ work.status # work.el.status
          /\ el.uid # 0
          /\ el' = [el EXCEPT !.status = work.status]
          /\ queued' = (queued \/ work.err)
          /\ UNCHANGED count
    /\ fresh' = (IF el' = el THEN fresh ELSE fresh \ {"el"}) \ {"work", "copy"}
    /\ work' = IdleWork
    /\ UNCHANGED <<dep, svc, custom, caches, watched>>

-----------------------------------------------------------------------------
(* A custom object *)

\* onlyOnce.Do: a watch that fails is not tried again
WatchCustom ==
    /\ work.pc = "watch"
    /\ \/ /\ watched # "no"
          /\ Go("get", work.status, FALSE)
          /\ UNCHANGED <<queued, watched, count>>
       \/ /\ watched = "no"
          /\ Error
          /\ watched' = "failed"
          /\ Go("status", work.status, TRUE)
          /\ UNCHANGED queued
       \/ /\ watched = "no"
          /\ watched' = "on"
          /\ Go("get", work.status, FALSE)
          /\ queued' = (queued \/ custom.owner # 0)
          /\ UNCHANGED count
    /\ UNCHANGED <<objects, caches, fresh>>

\* Get, and Create when there is none
GetCustom ==
    /\ work.pc = "get"
    /\ \/ /\ Error
          /\ Go("status", work.status, TRUE)
          /\ UNCHANGED <<custom, fresh, queued>>
       \/ /\ custom.owner = 0
          /\ custom' = [MakeCustomObject(work.el.spec, NoCustom) EXCEPT !.owner = work.el.uid]
          /\ Notify
          /\ Go("status", work.status, FALSE)
          /\ UNCHANGED <<fresh, count>>
       \/ /\ custom.owner # 0
          /\ work' = [work EXCEPT !.pc = "delete deployment", !.copy = custom]
          /\ fresh' = fresh \union {"copy"}
          /\ UNCHANGED <<custom, queued, count>>
    /\ UNCHANGED <<el, dep, svc, caches, watched>>

\* The Service is deleted only with a Deployment that the lister shows
DeleteDeployment ==
    /\ work.pc = "delete deployment"
    /\ \/ /\ depc.owner = 0
          /\ Go("update", work.status, FALSE)
          /\ UNCHANGED <<dep, fresh, count>>
       \/ /\ depc.owner # 0
          /\ Error
          /\ Go("status", work.status, TRUE)
          /\ UNCHANGED <<dep, fresh>>
       \/ /\ depc.owner # 0
          /\ dep' = NoDep
          /\ Touch(dep, NoDep, {"dep"})
          /\ Go("delete service", work.status, FALSE)
          /\ UNCHANGED count
    /\ UNCHANGED <<el, svc, custom, caches, queued, watched>>

DeleteService ==
    /\ work.pc = "delete service"
    /\ \/ /\ Error
          /\ Go("status", work.status, TRUE)
          /\ UNCHANGED <<svc, fresh>>
       \/ /\ svc' = NoSvc
          /\ Touch(svc, NoSvc, {"svc"})
          /\ Go("update", work.status, FALSE)
          /\ UNCHANGED count
    /\ UNCHANGED <<el, dep, custom, caches, queued, watched>>

CustomURL == 1

\* Mutant: an object that is not ready is taken for one that is
SetConditionsUnread(conds) ==
    Go("status", [work.status EXCEPT !.ready = conds # "none"], FALSE)

\* What the conditions of the custom object make of the status
SetConditionsForDynamicObjects(conds) ==
    CASE conds = "none" -> Go("status", work.status, FALSE)
      [] conds = "no"   -> Go("status", work.status, TRUE)
      [] conds = "yes"  -> Go("status", [work.status EXCEPT !.ready = TRUE, !.address = CustomURL],
                              FALSE)
      [] OTHER          -> Go("status", [work.status EXCEPT !.ready = TRUE], FALSE)

\* An object whose template is updated goes through a type that has no status, and
\* has no conditions afterwards
UpdateCustom ==
    LET want == MakeCustomObject(work.el.spec, work.copy)
    IN  /\ work.pc = "update"
        /\ \/ /\ want = work.copy
              /\ SetConditionsForDynamicObjects(work.copy.conds)
              /\ UNCHANGED <<custom, fresh, queued, count>>
           \/ /\ want # work.copy
              /\ \/ Error
                 \/ "copy" \notin fresh /\ UNCHANGED count
              /\ Go("status", work.status, TRUE)
              /\ UNCHANGED <<custom, fresh, queued>>
           \/ /\ want # work.copy
              /\ "copy" \in fresh
              /\ custom' = want
              /\ fresh' = fresh \ {"copy"}
              /\ Notify
              /\ SetConditionsForDynamicObjects(
                   IF want.template # work.copy.template THEN "none" ELSE work.copy.conds)
              /\ UNCHANGED count
        /\ UNCHANGED <<el, dep, svc, caches, watched>>

-----------------------------------------------------------------------------
(* Users, the other controllers of the cluster, and informers *)

Count(field, max) ==
    /\ count[field] < max
    /\ count' = [count EXCEPT ![field] = @ + 1]

reconciler == <<queued, work, watched>>

CreateEL(spec, finalizer) ==
    /\ el.uid = 0
    /\ Count("uids", MaxUids)
    /\ el' = [NoEL EXCEPT !.uid = count.uids + 1, !.finalizer = finalizer, !.spec = spec]
    /\ fresh' = fresh \ {"el", "work"}
    /\ UNCHANGED <<dep, svc, custom, caches, reconciler>>

EditEL(spec) ==
    /\ el.uid # 0 /\ ~el.deleting /\ spec # el.spec
    /\ Count("changes", MaxChanges)
    /\ el' = [el EXCEPT !.spec = spec]
    /\ fresh' = fresh \ {"el", "work"}
    /\ UNCHANGED <<dep, svc, custom, caches, reconciler>>

DeleteEL ==
    /\ el.uid # 0 /\ ~el.deleting
    /\ Count("changes", MaxChanges)
    /\ el' = IF el.finalizer THEN [el EXCEPT !.deleting = TRUE] ELSE NoEL
    /\ fresh' = fresh \ {"el", "work"}
    /\ UNCHANGED <<dep, svc, custom, caches, reconciler>>

\* A user or an autoscaler scales the Deployment, its controller reports, or a user
\* deletes it
ChangeDeployment(new) ==
    /\ dep.owner # 0 /\ new # dep
    /\ Count("outside", MaxOutside)
    /\ dep' = new
    /\ fresh' = fresh \ {"dep"}
    /\ UNCHANGED <<el, svc, custom, caches, reconciler>>

DropService ==
    /\ svc.owner # 0
    /\ Count("outside", MaxOutside)
    /\ svc' = NoSvc
    /\ fresh' = fresh \ {"svc"}
    /\ UNCHANGED <<el, dep, custom, caches, reconciler>>

ChangeCustom(new) ==
    /\ custom.owner # 0 /\ new # custom
    /\ Count("outside", MaxOutside)
    /\ custom' = new
    /\ fresh' = fresh \ {"copy"}
    /\ Notify
    /\ UNCHANGED <<el, dep, svc, caches, work, watched>>

\* The garbage collector deletes what an EventListener that is gone owned
Garbage(owner) == owner \notin {0, el.uid}

CollectDeployment ==
    /\ Garbage(dep.owner)
    /\ dep' = NoDep
    /\ fresh' = fresh \ {"dep"}
    /\ UNCHANGED <<el, svc, custom, caches, reconciler, count>>

CollectService ==
    /\ Garbage(svc.owner)
    /\ svc' = NoSvc
    /\ fresh' = fresh \ {"svc"}
    /\ UNCHANGED <<el, dep, custom, caches, reconciler, count>>

CollectCustom ==
    /\ Garbage(custom.owner)
    /\ custom' = NoCustom
    /\ fresh' = fresh \ {"copy"}
    /\ Notify
    /\ UNCHANGED <<el, dep, svc, caches, work, watched, count>>

\* An informer catches up, and its handler adds to the work queue (NewController)
SyncEL ==
    /\ "el" \notin fresh
    /\ elc' = el
    /\ fresh' = fresh \union {"el"}
    /\ queued' = TRUE
    /\ UNCHANGED <<objects, depc, svcc, work, watched, count>>

SyncDeployment ==
    /\ "dep" \notin fresh
    /\ depc' = dep
    /\ fresh' = fresh \union {"dep"}
    /\ queued' = TRUE
    /\ UNCHANGED <<objects, elc, svcc, work, watched, count>>

\* Mutant: events of Services are not handled
SyncServiceUnheard ==
    /\ "svc" \notin fresh
    /\ svcc' = svc
    /\ fresh' = fresh \union {"svc"}
    /\ UNCHANGED <<objects, elc, depc, queued, work, watched, count>>

SyncService ==
    /\ "svc" \notin fresh
    /\ svcc' = svc
    /\ fresh' = fresh \union {"svc"}
    /\ queued' = TRUE
    /\ UNCHANGED <<objects, elc, depc, work, watched, count>>

\* Another EventListener has used up onlyOnce, for its kind of custom objects
WatchOther ==
    /\ OtherResource /\ watched = "no"
    /\ watched' = "other"
    /\ UNCHANGED <<objects, caches, fresh, queued, work, count>>

\* The controller starts anew, with informers that have listed everything
Crash ==
    /\ Count("crashes", MaxCrashes)
    /\ elc' = el /\ depc' = dep /\ svcc' = svc
    /\ fresh' = {"el", "dep", "svc"}
    /\ queued' = TRUE
    /\ work' = IdleWork
    /\ watched' = "no"
    /\ UNCHANGED objects

-----------------------------------------------------------------------------
Reconcile ==
    \/ Begin
    \/ ReconcileDeployment \/ ReconcileService \/ RemoveFinalizer \/ UpdateStatus
    \/ WatchCustom \/ GetCustom \/ DeleteDeployment \/ DeleteService \/ UpdateCustom

Collect == CollectDeployment \/ CollectService \/ CollectCustom

Users ==
    \/ \E spec \in UserSpecs, finalizer \in BOOLEAN :
         (finalizer => OldObject) /\ CreateEL(spec, finalizer)
    \/ \E spec \in UserSpecs : EditEL(spec)
    \/ DeleteEL
    \/ \E n \in Replicas : ChangeDeployment([dep EXCEPT !.replicas = n])
    \/ \E c \in Conds \ {"none"} : ChangeDeployment([dep EXCEPT !.conds = c])
    \/ ChangeDeployment(NoDep)
    \/ DropService
    \/ \E c \in CustomConds \ {"none"} : ChangeCustom([custom EXCEPT !.conds = c])
    \/ ChangeCustom(NoCustom)

Next ==
    \/ Reconcile
    \/ SyncEL \/ SyncDeployment \/ SyncService
    \/ Collect
    \/ Users
    \/ WatchOther
    \/ Crash

\* Workers run, informers catch up, and the garbage collector runs
Fairness ==
    /\ WF_vars(Reconcile)
    /\ WF_vars(SyncEL) /\ WF_vars(SyncDeployment) /\ WF_vars(SyncService)
    /\ WF_vars(CollectDeployment) /\ WF_vars(CollectService) /\ WF_vars(CollectCustom)

Spec == Init /\ [][Next]_vars
FairSpec == Spec /\ Fairness

-----------------------------------------------------------------------------
(* Properties *)

StatusType == [dep : BOOLEAN, svc : BOOLEAN, ready : BOOLEAN, avail : {"none", "no", "yes"},
               failing : BOOLEAN, address : {0, CustomURL} \union Ports]
ELType == [uid : Nat, deleting : BOOLEAN, finalizer : BOOLEAN, spec : ELSpec, status : StatusType]
DepType == [owner : Nat, template : {"plain", "tls"}, labels : {"l1", "l2"},
            note : {NoNote, "x", "y"}, replicas : Nat \ {0}, conds : Conds]
SvcType == [owner : Nat, port : Ports, labels : {"l1", "l2"}, note : {NoNote, "x", "y"}]
CustomType == [owner : Nat, template : {"plain", "tls"}, labels : {"l1", "l2"},
               note : {NoNote, "x", "y"}, conds : CustomConds]

TypeOK ==
    /\ el \in ELType /\ dep \in DepType /\ svc \in SvcType /\ custom \in CustomType
    /\ elc \in ELType /\ depc \in DepType /\ svcc \in SvcType
    /\ fresh \subseteq {"el", "dep", "svc", "work", "copy"}
    /\ queued \in BOOLEAN
    /\ work \in [pc : {"idle", "deployment", "service", "ready", "status", "watch", "get",
                       "delete deployment", "delete service", "update"},
                 el : ELType, status : StatusType, err : BOOLEAN, copy : CustomType]
    /\ watched \in {"no", "on", "failed", "other"}
    /\ count \in [uids : Nat, changes : Nat, outside : Nat, errors : Nat, crashes : Nat]

\* The EventListener is there to be reconciled, as a Deployment or as a custom object
Live(kind) == el.uid # 0 /\ ~el.deleting /\ el.spec.kind = kind

\* Nothing is going to happen by itself any more
Quiet ==
    /\ work.pc = "idle" /\ ~queued
    /\ {"el", "dep", "svc"} \subseteq fresh
    /\ ~Garbage(dep.owner) /\ ~Garbage(svc.owner) /\ ~Garbage(custom.owner)

\* The Deployment and the Service are the ones that spec asks for
AsWanted(spec) ==
    /\ dep.owner # 0 /\ dep = MakeDeployment(spec, dep)
    /\ svc.owner # 0 /\ svc = MakeService(spec, svc)

\* The status is of the Deployment; conditions that it does not have yet are those of
\* the Deployment before it
StatusOfDeployment(status) ==
    /\ status.dep
    /\ dep.conds # "none" => (status.avail = "no" <=> dep.conds \in {"no", "failing"})
    /\ status.failing <=> dep.conds = "failing"

StatusOfService(status, spec) ==
    /\ status.svc
    /\ status.address = ListenerHostname(spec)

\* When the reconciler has come to rest after edits, failed requests, conflicts, changes
\* by others, a deletion and a new EventListener of the same name, or a crash half way:
\* the Deployment and the Service are the ones the EventListener asks for now and its own,
\* a scale it does not give excepted, and its status is of them.
RestsWhenDone ==
    Quiet /\ Live("kubernetes") =>
        /\ AsWanted(el.spec)
        /\ dep.owner = el.uid /\ svc.owner = el.uid
        /\ StatusOfDeployment(el.status) /\ StatusOfService(el.status, el.spec)
        /\ el.status.ready <=> el.status.avail # "no"

\* The same of a custom object whose events the controller receives; a Deployment that
\* the EventListener had before is gone.
CustomRestsWhenDone ==
    Quiet /\ Live("custom") /\ watched = "on" =>
        /\ custom = [MakeCustomObject(el.spec, custom) EXCEPT !.owner = el.uid]
        /\ dep.owner = 0
        /\ el.status.ready <=> custom.conds \in {"yes", "other"}

\* The reconciler comes to rest: its writes, the events they cause and its retries do not
\* go on for ever.  (With a custom object that is not ready it goes on by design.)
ComesToRest == <>[](Live("kubernetes") => Quiet)

\* A scale that the EventListener does not give is the one that users and autoscalers
\* gave the Deployment last, however old the informer's copy is.
ReplicasKept ==
    [][/\ work.pc = "deployment" /\ work' # work
       /\ dep.owner # 0 /\ work.el.spec.replicas = 0
       => dep'.replicas = dep.replicas]_vars

\* Comment of ServicePort: "This effectively makes 8443 the default HTTPS port unless a
\* user explicitly sets a different port."  The address in the status is that of the
\* Service.
AddressIsServed == Quiet /\ Live("kubernetes") => el.status.address = svc.port

=============================================================================
