----------------------------- MODULE Listeners ------------------------------
(***************************************************************************)
(* The controller's workers make the objects of EventListeners while the   *)
(* EventListeners and the ConfigMaps change.  What is at stake here is     *)
(* what the objects look like: the two workers share the security context  *)
(* of pods, a variable of the package resources, and every reconciliation  *)
(* has its own copy of the configuration.  That the informers lag behind   *)
(* and requests fail is left to ELReconciler.                              *)
(***************************************************************************)
EXTENDS ELResources

CONSTANTS
    Workers,        \* of the controller
    Flags,          \* its flags: port, setSecurityContext, setReadOnlyRootFilesystem
    Loads,          \* what may happen: ids of records of EventListeners, ConfigMaps, ...
    LoadOf(_),
    Submitted(_)    \* id -> EventListener

ASSUME FlagsAssumption == Flags \in ControllerConfig

\* The labels by which main has the informers of Deployments and Services select
Selectors == DefaultStaticResourceLabels

\* The Kubernetes default of baseSecurityPolicy
Base == [user |-> {}, group |-> {}, fsGroup |-> {}]

VARIABLES
    load,       \* which of the loads this is
    left,       \* changes that may still come
    maps,       \* the ConfigMaps
    store,      \* what the controller's store has of them
    process,    \* "starting", "up", "panicked", "fatal"
    policy,     \* baseSecurityPolicy: what was set of it
    els,        \* name -> set of at most one [gen, el]
    queue,      \* names
    work,       \* worker -> the reconciliation it is at
    deps, svcs, \* name -> set of at most one object, with the generation and configuration it is of
    customs,
    existing,   \* a custom object's spec: its containers and what of it differs
    loaded      \* the configurations that reconciliations began with

listenersVars == <<load, left, maps, store, process, policy, els, queue, work, deps, svcs, customs, existing, loaded>>

Names == DOMAIN els
IdleWork == [pc |-> "idle", name |-> "", el |-> {}, cfg |-> {}]

ListenersInit ==
    /\ load \in Loads
    /\ left = LoadOf(load).changes
    /\ maps = [defaults |-> <<>>, flags |-> <<>>]
    /\ store = [defaults |-> {}, flags |-> {}]
    /\ process = "starting"
    /\ policy = Base
    /\ els = [n \in {Submitted(id).name : id \in LoadOf(load).els} |-> {}]
    /\ deps = els /\ svcs = els /\ customs = els
    /\ queue = {}
    /\ work = [w \in Workers |-> IdleWork]
    /\ existing \in LoadOf(load).existing
    /\ loaded = {}

Change == left > 0 /\ left' = left - 1

-----------------------------------------------------------------------------
(* Users *)

\* The webhook defaults, with the ConfigMap that it has, and validates
Submit(id) ==
    \E d \in NewDefaultsFromMap(maps.defaults) :
        LET el == SetDefaultsOfEventListener(Submitted(id), d.serviceAccount)
        IN  /\ Change
            /\ ValidateEventListener(el)
            /\ els' = [els EXCEPT ![el.name] = {[gen |-> left, el |-> el]}]
            /\ queue' = queue \union {el.name}
            /\ UNCHANGED <<load, maps, store, process, policy, work, deps, svcs, customs, existing, loaded>>

\* The webhook validates the defaults
EditDefaults(cfgMap) ==
    /\ Change
    /\ NewDefaultsFromMap(cfgMap) # {}
    /\ maps' = [maps EXCEPT !.defaults = cfgMap]
    /\ UNCHANGED <<load, store, process, policy, els, queue, work, deps, svcs, customs, existing, loaded>>

\* Nobody validates the feature flags
EditFlags(cfgMap) ==
    /\ Change
    /\ maps' = [maps EXCEPT !.flags = cfgMap]
    /\ UNCHANGED <<load, store, process, policy, els, queue, work, deps, svcs, customs, existing, loaded>>

-----------------------------------------------------------------------------
(* The process and its store *)

\* UntypedStore: what cannot be read is logged, unless there is nothing yet
OnConfigChanged(name) ==
    /\ process \in {"starting", "up"}
    /\ LET value == Construct(name, maps[name])
       IN  \/ value \notin {{}, store[name]} /\ store' = [store EXCEPT ![name] = value] /\ process' = process
           \/ value = {} /\ store[name] = {} /\ process' = "fatal" /\ store' = store
    /\ UNCHANGED <<load, left, maps, policy, els, queue, work, deps, svcs, customs, existing, loaded>>

\* The workers start when both ConfigMaps have been read
Started ==
    /\ process = "starting"
    /\ store["defaults"] # {} /\ store["flags"] # {}
    /\ process' = "up"
    /\ queue' = {n \in Names : els[n] # {}}
    /\ UNCHANGED <<load, left, maps, store, policy, els, work, deps, svcs, customs, existing, loaded>>

\* The container is started again
Restart ==
    /\ LoadOf(load).restarts
    /\ Change
    /\ process # "starting"
    /\ process' = "starting"
    /\ store' = [defaults |-> {}, flags |-> {}]
    /\ policy' = Base
    /\ queue' = {}
    /\ work' = [w \in Workers |-> IdleWork]
    /\ UNCHANGED <<load, maps, els, deps, svcs, customs, existing, loaded>>

-----------------------------------------------------------------------------
(* A worker *)

\* Mutant: a name may be with two workers
ReconcileKindAny(w, n) ==
    /\ process = "up"
    /\ work[w].pc = "idle"
    /\ n \in queue
    /\ queue' = queue \ {n}
    /\ LET cfg == Load(store)
           copy == {[e EXCEPT !.el = SetDefaultsOfEventListener(@, cfg.defaults.serviceAccount)] : e \in els[n]}
       IN  /\ work' = [work EXCEPT ![w] = [pc |-> "make", name |-> n, el |-> copy, cfg |-> {cfg}]]
           /\ loaded' = loaded \union {cfg}
    /\ UNCHANGED <<load, left, maps, store, process, policy, els, deps, svcs, customs, existing>>

\* No name is with two workers.  The configuration is copied from the store, the copy of
\* the EventListener is defaulted with it.
ReconcileKind(w, n) ==
    /\ process = "up"
    /\ work[w].pc = "idle"
    /\ n \in queue
    /\ \A v \in Workers : work[v].name # n
    /\ queue' = queue \ {n}
    /\ LET cfg == Load(store)
           copy == {[e EXCEPT !.el = SetDefaultsOfEventListener(@, cfg.defaults.serviceAccount)] : e \in els[n]}
       IN  /\ work' = [work EXCEPT ![w] = [pc |-> "make", name |-> n, el |-> copy, cfg |-> {cfg}]]
           /\ loaded' = loaded \union {cfg}
    /\ UNCHANGED <<load, left, maps, store, process, policy, els, deps, svcs, customs, existing>>

Copy(w) == (CHOOSE e \in work[w].el : TRUE).el
Gen(w) == (CHOOSE e \in work[w].el : TRUE).gen
Cfg(w) == CHOOSE c \in work[w].cfg : TRUE

At(w, pc) == process = "up" /\ work[w].pc = pc
Go(w, pc) == work' = [work EXCEPT ![w].pc = pc]

\* The panic of a worker ends the process: a nil pointer, or a pattern in MustCompile
Make(w) ==
    /\ At(w, "make")
    /\ IF (Copy(w).spec.custom = {} /\ Panics(Copy(w))) \/ ~Compiles(Cfg(w).flags.labelsExclusionPattern)
       THEN process' = "panicked" /\ work' = work
       ELSE /\ process' = process
            /\ Go(w, CASE Copy(w).spec.custom # {} -> "custom"
                       [] UsesPolicy(Copy(w), Flags) -> "user"
                       [] OTHER -> "deployment")
    /\ UNCHANGED <<load, left, maps, store, policy, els, queue, deps, svcs, customs, existing, loaded>>

\* getStrongerSecurityPolicy sets one field after the other, for whoever holds the pointer
getStrongerSecurityPolicy(w) ==
    LET d == Cfg(w).defaults
        Set(pc, field, id, next) ==
            /\ At(w, pc)
            /\ policy' = IF id.empty THEN policy ELSE [policy EXCEPT ![field] = {id.value}]
            /\ Go(w, next)
    IN  /\ \/ Set("user", "user", d.runAsUser, "group")
           \/ Set("group", "group", d.runAsGroup, "fsGroup")
           \/ Set("fsGroup", "fsGroup", d.fsGroup, "deployment")
        /\ UNCHANGED <<load, left, maps, store, process, els, queue, deps, svcs, customs, existing, loaded>>

\* The API server's validation of Deployments, as far as it matters here
AcceptsDeployment(el, d) ==
    /\ d.volumes <= 1
    /\ d.tls.mount => d.volumes = 1
    /\ \A i \in DOMAIN Env(el) : HasSecret(Env(el)[i]) => Env(el)[i].key # ""
    /\ d.selector \subseteq d.podLabels

\* Mutant: the feature flags are read again
SnapshotAnew(w) == [Cfg(w) EXCEPT !.flags = Load(store).flags]

\* The configuration that the Deployment is made with
Snapshot(w) == Cfg(w)

\* reconcileDeployment; that it fails does not keep the Service from being reconciled
reconcileDeployment(w) ==
    /\ At(w, "deployment")
    /\ LET d == MakeDeployment(Copy(w), Flags, Snapshot(w), policy)
       IN  deps' = IF AcceptsDeployment(Copy(w), d)
                   THEN [deps EXCEPT ![work[w].name] = {[gen |-> Gen(w), cfg |-> Cfg(w), el |-> Copy(w), obj |-> d]}]
                   ELSE deps
    /\ Go(w, "service")
    /\ UNCHANGED <<load, left, maps, store, process, policy, els, queue, svcs, customs, existing, loaded>>

reconcileService(w) ==
    /\ At(w, "service")
    /\ svcs' = [svcs EXCEPT ![work[w].name] = {[gen |-> Gen(w), obj |-> MakeService(Copy(w), Flags, Cfg(w))]}]
    /\ work' = [work EXCEPT ![w] = IdleWork]
    /\ UNCHANGED <<load, left, maps, store, process, policy, els, queue, deps, customs, existing, loaded>>

\* reconcileCustomObject: the spec is merged; an update of the object, which is watched, has
\* the EventListener reconciled again
reconcileCustomObject(w) ==
    /\ At(w, "custom")
    /\ customs' = [customs EXCEPT ![work[w].name] =
                        {[el |-> Copy(w), obj |-> MakeCustomObject(Copy(w), Flags, Cfg(w))]}]
    /\ existing' = UpdateCustomObject(existing)
    /\ queue' = IF existing' = existing THEN queue ELSE queue \union {work[w].name}
    /\ work' = [work EXCEPT ![w] = IdleWork]
    /\ UNCHANGED <<load, left, maps, store, process, policy, els, deps, svcs, loaded>>

ListenersNext ==
    \/ left > 0 /\ \E id \in LoadOf(load).els : Submit(id)
    \/ \E m \in LoadOf(load).defaults : EditDefaults(m)
    \/ \E m \in LoadOf(load).flags : EditFlags(m)
    \/ \E name \in {"defaults", "flags"} : OnConfigChanged(name)
    \/ Started \/ Restart
    \/ \E w \in Workers : \/ \E n \in Names : ReconcileKind(w, n)
                          \/ Make(w) \/ getStrongerSecurityPolicy(w)
                          \/ reconcileDeployment(w) \/ reconcileService(w) \/ reconcileCustomObject(w)

-----------------------------------------------------------------------------
(* Properties *)

\* The state has the shape of the code's data; no EventListener is with two workers.
ListenersTypeOK ==
    /\ process \in {"starting", "up", "panicked", "fatal"}
    /\ store.defaults \subseteq Defaults /\ store.flags \subseteq FeatureFlags
    /\ \A n \in Names : els[n] \subseteq [gen : Nat, el : EventListener]
    /\ queue \subseteq Names
    /\ \A v, w \in Workers : v # w /\ work[v].name = work[w].name => work[v].pc = "idle"
    /\ existing.containers \in Nat

\* A Deployment and a custom object are made from one configuration: labels, arguments and
\* the container's security context are those of one pair of ConfigMaps that was in the
\* store, whatever arrives in it while they are made (store.go Load, container.go:61-82,
\* meta.go FilterLabels).
OneSnapshot ==
    \A n \in Names :
        /\ \A d \in deps[n] : \E cfg \in loaded :
              /\ d.obj.labels = ObjectMeta(d.el, cfg.flags)
              /\ d.obj.container = MakeContainer(d.el, Flags, cfg.defaults)
        /\ \A o \in customs[n] : \E cfg \in loaded : o.obj = MakeCustomObject(o.el, Flags, cfg)

\* The pod's security context is shared by all EventListeners and workers and never reset.
\* Still a value in it is one that some configuration of this process set: an empty text
\* does not bring in the default (deployment.go:48-63, default.go:102-105).
PodValuesConfigured ==
    \A n \in Names : \A d \in deps[n] : \A p \in d.obj.securityContext :
        /\ p.user \subseteq UNION {Ids(cfg.defaults.runAsUser) : cfg \in loaded}
        /\ p.group \subseteq UNION {Ids(cfg.defaults.runAsGroup) : cfg \in loaded}
        /\ p.fsGroup \subseteq UNION {Ids(cfg.defaults.fsGroup) : cfg \in loaded}

\* TLS is found in three places: the mount and the arguments, the volume, the port of the
\* Service.  For a Deployment and a Service of one EventListener that the API server took
\* they agree, and so do the probes that are not given (deployment.go:86-98 and 207-264,
\* service.go:105-123, event_listener_validation.go:159-178).
TLSAgrees ==
    \A n \in Names : \A d \in deps[n] : \A s \in svcs[n] :
        d.gen = s.gen =>
            LET tls == d.obj.tls.mount
            IN  /\ tls <=> s.obj.port.name = "https-listener"
                /\ tls <=> d.obj.volumes = 1
                /\ {d.obj.tls.live, d.obj.tls.ready} \subseteq {"given", IF tls THEN "HTTPS" ELSE "HTTP"}

\* What validation lets through makes a worker panic in one case only: TLS_CERT or TLS_KEY
\* without a secret.  A pattern for labels never does (feature_flags.go:75-84, meta.go:59).
PanicsForTLSOnly ==
    process = "panicked" =>
        \E w \in Workers : /\ work[w].pc = "make"
                           /\ \E i \in DOMAIN Env(Copy(w)) : /\ Env(Copy(w))[i].name \in reservedEnvVars
                                                             /\ ~HasSecret(Env(Copy(w))[i])

\* The informers of Deployments and Services see only those with the static labels
\* (controller.go:51): whatever labels an EventListener has, what the controller writes is
\* among them, so that it finds it again.
WrittenIsSeen ==
    \A n \in Names : \A o \in deps[n] \union svcs[n] : Selectors \subseteq o.obj.labels

\* When the controller has no more to do for the EventListener of a custom object, nothing
\* of the object differs that it looks at, whatever others had made of it
\* (custom.go UpdateCustomObject: with several containers it takes two updates).
CustomSettles ==
    process = "up" =>
        \A n \in Names : customs[n] # {} /\ n \notin queue /\ (\A w \in Workers : work[w].name # n) =>
            existing.containers = 1 /\ existing.differs \subseteq OtherFields

\* Whatever EventListeners and ConfigMaps change while its workers make them, the objects the
\* controller has written are of one configuration, agree on TLS, are among those its
\* informers see, and a custom object is as asked once the controller rests (deployment.go,
\* service.go, custom.go).
ObjectsAsAsked == OneSnapshot /\ PodValuesConfigured /\ TLSAgrees /\ WrittenIsSeen /\ CustomSettles

\* The controller may be restarted whatever happened to config-defaults-triggers: only the
\* feature flags, which no webhook validates, can keep it from starting (webhook main.go:121).
\* So a process that ended there has none yet, whichever ConfigMap came first.
StartsWithDefaults == process = "fatal" => store["flags"] = {}
=============================================================================
