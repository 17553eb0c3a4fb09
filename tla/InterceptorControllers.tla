----------------------- MODULE InterceptorControllers -----------------------
(***************************************************************************)
(* The controllers of ClusterInterceptors and Interceptors: one reconciler *)
(* in two copies, which gives an object the address that the sink calls.   *)
(* The object is edited, its CaBundle is written by the core interceptors' *)
(* server (InterceptorCerts), and the controller runs in several replicas. *)
(***************************************************************************)
EXTENDS GeneratedReconciler

-----------------------------------------------------------------------------
(* Types: cluster_interceptor_types.go, interceptor_types.go *)

URL == [scheme : STRING, host : STRING \X STRING, port : Nat]
ServiceReference == [name : STRING, namespace : STRING, port : SUBSET Nat]
ClientConfig == [caBundle : BOOLEAN, url : SUBSET URL, service : SUBSET ServiceReference]

\* The address is nil, empty or has a URL
ClusterInterceptorStatus == [address : BOOLEAN, url : SUBSET URL]
InterceptorStatus == [address : BOOLEAN, url : SUBSET URL]

ClusterInterceptor == [version : Nat, labels : SUBSET STRING, deleting : BOOLEAN, spec : ClientConfig,
                       status : ClusterInterceptorStatus]
Interceptor == [version : Nat, labels : SUBSET STRING, deleting : BOOLEAN, spec : ClientConfig,
                status : InterceptorStatus]

defaultHTTPSPort == 8443
defaultHTTPPort == 80

formURL(scheme, svc, port) == [scheme |-> scheme, host |-> <<svc.name, svc.namespace>>, port |-> port]

\* The URL, or the service with a scheme according to the CaBundle; {} is ErrNilURL
ResolveAddress(it) ==
    IF it.spec.url # {} THEN it.spec.url
    ELSE {LET default == IF it.spec.caBundle THEN defaultHTTPSPort ELSE defaultHTTPPort
              port == IF svc.port # {} THEN CHOOSE p \in svc.port : TRUE ELSE default
          IN  formURL(IF it.spec.caBundle THEN "https" ELSE "http", svc, port) : svc \in it.spec.service}

\* The same for an Interceptor
ResolveInterceptorAddress(it) ==
    LET url == it.spec.url
        scheme == IF it.spec.caBundle THEN "https" ELSE "http"
        default == IF it.spec.caBundle THEN defaultHTTPSPort ELSE defaultHTTPPort
    IN  IF url # {} THEN url
        ELSE {formURL(scheme, svc, IF svc.port # {} THEN CHOOSE p \in svc.port : TRUE ELSE default) :
                svc \in it.spec.service}

-----------------------------------------------------------------------------
(* Admission *)

validateClusterInterceptor(s) ==
    /\ s.url = {} \/ s.service = {}
    /\ \A svc \in s.service : svc.namespace # "" /\ svc.name # ""

validateInterceptorSpec(s) ==
    /\ ~(s.url # {} /\ s.service # {})
    /\ \A svc \in s.service : svc.namespace # "" /\ svc.name # ""

ServerTypes == {"server/type=http", "server/type=https"}

\* Without a server type the labels become this one, whatever they were
SetClusterInterceptorDefaults(labels) ==
    IF labels \cap ServerTypes = {} THEN {"server/type=http"} ELSE labels

SetInterceptorDefaults(labels) ==
    IF \E l \in labels : l \in ServerTypes THEN labels ELSE {"server/type=http"}

Admitted(config) ==
    IF kind = "ClusterInterceptor" THEN validateClusterInterceptor(config.spec) ELSE validateInterceptorSpec(config.spec)

Defaulted(labels) ==
    IF kind = "ClusterInterceptor" THEN SetClusterInterceptorDefaults(labels) ELSE SetInterceptorDefaults(labels)

-----------------------------------------------------------------------------
(* reconciler/clusterinterceptor, reconciler/interceptor *)

\* The address is initialized before it is resolved, and keeps its URL if that fails.  The
\* context does not ask for defaults.
ReconcileClusterInterceptor(it) ==
    [status |-> [address |-> TRUE, url |-> IF ResolveAddress(it) = {} THEN it.status.url ELSE ResolveAddress(it)],
     failed |-> ResolveAddress(it) = {}]

ReconcileInterceptor(it) ==
    LET url == ResolveInterceptorAddress(it)
    IN  [status |-> [address |-> TRUE, url |-> IF url = {} THEN it.status.url ELSE url], failed |-> url = {}]

ReconcileEither(k, it) ==
    IF k = "ClusterInterceptor" THEN ReconcileClusterInterceptor(it) ELSE ReconcileInterceptor(it)

-----------------------------------------------------------------------------
(* What happens to the object *)

Init == GenInit /\ kind \in {"ClusterInterceptor", "Interceptor"}

\* A user creates or replaces the object; its status is not theirs
ApplyObject(config) ==
    /\ Use("edits")
    /\ Admitted(config)
    /\ Write(IF obj = {}
             THEN {[version |-> 0, labels |-> Defaulted(config.labels), deleting |-> FALSE,
                    spec |-> config.spec, status |-> [address |-> FALSE, url |-> {}]]}
             ELSE {[o EXCEPT !.labels = Defaulted(config.labels), !.spec = config.spec] : o \in obj})
    /\ UNCHANGED <<kind, leaders, lister, queued, work>>

\* The server of the core interceptors writes its bundle into ClusterInterceptors of its label
WriteCaBundle ==
    /\ kind = "ClusterInterceptor"
    /\ \E o \in obj : /\ "server/type=https" \in o.labels /\ ~o.spec.caBundle
                      /\ Write({[o EXCEPT !.spec.caBundle = TRUE]})
    /\ UNCHANGED <<kind, left, leaders, lister, queued, work>>

\* A deletion waits for finalizers of others, if there are any
Delete ==
    /\ Use("edits")
    /\ \E o \in obj : Write({}) \/ Write({[o EXCEPT !.deleting = TRUE]})
    /\ UNCHANGED <<kind, leaders, lister, queued, work>>

-----------------------------------------------------------------------------
(* The two controllers: their generated code differs in the type alone *)

ClusterInterceptorPromote(r) == kind = "ClusterInterceptor" /\ Promote(r)
ClusterInterceptorReconcile(r) == kind = "ClusterInterceptor" /\ (Take(r) \/ Reconcile(r))
ClusterInterceptorUpdateStatus(r) == kind = "ClusterInterceptor" /\ (updateStatus(r) \/ updateStatusAgain(r))

InterceptorPromote(r) == kind = "Interceptor" /\ Promote(r)
InterceptorNewState(r) == kind = "Interceptor" /\ Take(r)
InterceptorReconcile(r) == kind = "Interceptor" /\ Reconcile(r)
InterceptorUpdateStatus(r) == kind = "Interceptor" /\ (updateStatus(r) \/ updateStatusAgain(r))

Step(r) ==
    \/ ClusterInterceptorReconcile(r) \/ ClusterInterceptorUpdateStatus(r)
    \/ InterceptorNewState(r) \/ InterceptorReconcile(r) \/ InterceptorUpdateStatus(r)

Elect == \E r \in Replicas : ClusterInterceptorPromote(r) \/ InterceptorPromote(r)

Next ==
    \/ \E config \in left.configs : ApplyObject(config)
    \/ WriteCaBundle \/ Delete \/ Elect
    \/ \E r \in Replicas : Step(r) \/ Watch(r) \/ Demote(r) \/ Restart(r) \/ UpdateFailed(r)

Spec == Init /\ [][Next]_genVars

\* Someone gets the lease in the end, informers and workers go on
Fairness ==
    /\ WF_genVars(Elect)
    /\ \A r \in Replicas : WF_genVars(Step(r)) /\ WF_genVars(Watch(r))

-----------------------------------------------------------------------------
(* Properties *)

\* The state has the shape of the code's data; no update is attempted more often than
\* RetryUpdateConflicts allows.
TypeOK ==
    /\ obj \subseteq (IF kind = "ClusterInterceptor" THEN ClusterInterceptor ELSE Interceptor)
    /\ Cardinality(obj) <= 1 /\ Cardinality(leaders) <= 1 /\ leaders \subseteq Replicas
    /\ \A r \in Replicas : /\ work[r].pc \in {"idle", "get", "update", "fetch"}
                           /\ work[r].attempts < MaxAttempts
                           /\ queued[r] \in BOOLEAN /\ Cardinality(lister[r]) <= 1

\* The address that the object's clientConfig asks for
ClientConfigURL(o) ==
    IF o.spec.url # {} THEN o.spec.url
    ELSE {formURL(IF o.spec.caBundle THEN "https" ELSE "http", svc,
                  IF svc.port # {} THEN CHOOSE p \in svc.port : TRUE
                  ELSE IF o.spec.caBundle THEN 8443 ELSE 80) : svc \in o.spec.service}
AddressIsRight ==
    \A o \in obj : o.deleting \/ o.status = [address |-> TRUE, url |-> ClientConfigURL(o)]

Resolvable == \A o \in obj : o.spec.url # {} \/ o.spec.service # {}

\* When a leader has seen the object and no replica has anything left to do, the status has
\* the address that the clientConfig asks for: edits, the CaBundle, conflicts, retries with
\* the status of an older spec, elections and restarts in between notwithstanding.
AtRest == /\ \A r \in Replicas : work[r].pc = "idle"
          /\ \E r \in leaders : lister[r] = obj /\ ~queued[r]
SettledAddressIsRight == AtRest /\ Resolvable => AddressIsRight

\* And that is reached: after the last edit the address of an object that has a URL or a
\* service becomes the right one and stays so.
AddressConverges == <>[](Resolvable => AddressIsRight)
=============================================================================
