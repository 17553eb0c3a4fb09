---------------------------- MODULE ELResources -----------------------------
(***************************************************************************)
(* pkg/reconciler/eventlistener/resources: the objects that the controller *)
(* makes from an EventListener.  Of the flags of the controller, c, and of *)
(* the objects there is what differs between EventListeners, ConfigMaps    *)
(* and flags; a pointer is a set, empty for nil.                           *)
(***************************************************************************)
EXTENDS V1beta1, Config

DefaultPort == 8080

DefaultStaticResourceLabels == {<<"app.kubernetes.io/managed-by", "EventListener">>,
                                <<"app.kubernetes.io/part-of", "Triggers">>}

\* The flags of the controller, and their defaults
ControllerConfig == [port : Nat, setSecurityContext : BOOLEAN, setReadOnlyRootFilesystem : BOOLEAN]
MakeConfig == [port |-> DefaultPort, setSecurityContext |-> TRUE, setReadOnlyRootFilesystem |-> TRUE]

-----------------------------------------------------------------------------
(* Labels *)

Keys(labels) == {l[1] : l \in labels}

\* kmeta.UnionMaps: the second of two values counts
UnionMaps(labels, others) == others \union {l \in labels : l[1] \notin Keys(others)}

\* regexp.MatchString, for the pattern that occurs
Matches(pattern, key) == pattern = "^team$" /\ key = "team"

GenerateLabels(name) == DefaultStaticResourceLabels \union {<<"eventlistener", name>>}

FilterLabels(flags, labels) ==
    IF flags.labelsExclusionPattern = "" THEN labels
    ELSE {l \in labels : ~Matches(flags.labelsExclusionPattern, l[1])}

\* The labels of ObjectMeta
ObjectMeta(el, flags) == UnionMaps(FilterLabels(flags, el.labels), GenerateLabels(el.name))

-----------------------------------------------------------------------------
(* Containers *)

\* The container that the EventListener gives, of which there is at most one
Given(el) == UNION {{k.template.containers[i] : i \in DOMAIN k.template.containers} : k \in el.spec.kubernetes}

Env(el) == IF Given(el) = {} THEN <<>> ELSE (CHOOSE g \in Given(el) : TRUE).env

HasSecret(env) == env.valueFrom = {{"secretKeyRef"}}

\* certEnv: of several variables with a name the last one counts
certEnv(el, name) ==
    LET at == {i \in DOMAIN Env(el) : Env(el)[i].name = name}
    IN  {Env(el)[i] : i \in {i \in at : \A j \in at : j <= i}}

\* The values that are set, unless the text was empty
Ids(id) == IF id.empty THEN {} ELSE {id.value}

ContainerContext(c, d) ==
    [own |-> FALSE, user |-> Ids(d.runAsUser), group |-> Ids(d.runAsGroup), nonRoot |-> d.runAsNonRoot,
     readOnly |-> c.setReadOnlyRootFilesystem]

OwnContext == [own |-> TRUE, user |-> {}, group |-> {}, nonRoot |-> FALSE, readOnly |-> FALSE]

\* Mutant: the selectors of groups are forgotten
isMultiNSUngrouped(el) == el.spec.namespaces # <<>>

isMultiNS(el) ==
    el.spec.namespaces # <<>> \/ \E n \in DOMAIN el.spec.triggerGroups : el.spec.triggerGroups[n].namespaces # <<>>

\* The arguments and the security context
MakeContainer(el, c, d) ==
    [multiNS |-> isMultiNS(el),
     payloadValidation |-> el.payloadValidation # "false",
     securityContext |->
        IF ~c.setSecurityContext THEN {}
        ELSE IF \E g \in Given(el) : "securityContext" \in g.fields THEN {OwnContext}
        ELSE {ContainerContext(c, d)}]

\* The scheme of the probes that are not given, the mount and the arguments
addCertsForSecureConnection(el) ==
    LET cert == {e.key : e \in certEnv(el, "TLS_CERT")}
        key == {e.key : e \in certEnv(el, "TLS_KEY")}
        probe(name) == IF \E g \in Given(el) : name \in g.fields THEN "given"
                       ELSE IF cert # {} /\ key # {} THEN "HTTPS" ELSE "HTTP"
    IN  [mount |-> cert # {} /\ key # {}, cert |-> cert, key |-> key,
         live |-> probe("livenessProbe"), ready |-> probe("readinessProbe")]

-----------------------------------------------------------------------------
(* The Deployment and the Service *)

\* secretKeyRef is nil in one of the three places where it is used
Panics(el) ==
    \/ \E i \in DOMAIN Env(el) : Env(el)[i].name = "TLS_CERT" /\ ~HasSecret(Env(el)[i])
    \/ \E e \in certEnv(el, "TLS_KEY") : ~HasSecret(e)

\* The keys of the secrets that are volumes, one for each TLS_CERT
Volumes(el) == SelectSeq(Env(el), LAMBDA e : e.name = "TLS_CERT")

GivesPodField(el, field) == \E k \in el.spec.kubernetes : field \in k.template.fields

\* Does the pod's security context come from getStrongerSecurityPolicy?
UsesPolicy(el, c) == c.setSecurityContext /\ ~GivesPodField(el, "securityContext")

podlabels(el, flags) ==
    IF el.spec.kubernetes = {} THEN ObjectMeta(el, flags)
    ELSE UnionMaps(ObjectMeta(el, flags), UNION {k.template.labels : k \in el.spec.kubernetes})

\* policy: what the shared security context holds when the object is sent
MakeDeployment(el, c, cfg, policy) ==
    [labels |-> ObjectMeta(el, cfg.flags), selector |-> GenerateLabels(el.name),
     podLabels |-> podlabels(el, cfg.flags),
     serviceAccountName |-> IF GivesPodField(el, "serviceAccountName") THEN "given" ELSE el.spec.serviceAccountName,
     replicas |-> UNION {k.replicas : k \in el.spec.kubernetes},
     container |-> MakeContainer(el, c, cfg.defaults),
     tls |-> addCertsForSecureConnection(el),
     volumes |-> Len(Volumes(el)),
     securityContext |-> IF UsesPolicy(el, c) THEN {policy} ELSE {}]

\* The port and its name
ServicePort(el, c) ==
    LET key(name) == {e.key : e \in certEnv(el, name)} \ {""}
        given == UNION {k.servicePort : k \in el.spec.kubernetes}
        tls == key("TLS_CERT") # {} /\ key("TLS_KEY") # {}
    IN  [name |-> IF tls THEN "https-listener" ELSE "http-listener",
         port |-> IF tls /\ c.port = DefaultPort THEN 8443
                  ELSE IF given # {} THEN CHOOSE p \in given : TRUE ELSE c.port,
         nodePort |-> IF \E k \in el.spec.kubernetes : k.serviceType = "NodePort" THEN given ELSE {}]

MakeService(el, c, cfg) ==
    LET given == UNION {k.servicePort : k \in el.spec.kubernetes}
    IN  [labels |-> ObjectMeta(el, cfg.flags), selector |-> GenerateLabels(el.name),
         type |-> {k.serviceType : k \in el.spec.kubernetes} \ {""},
         port |-> ServicePort(el, IF given = {} THEN c ELSE [c EXCEPT !.port = CHOOSE p \in given : TRUE])]

-----------------------------------------------------------------------------
(* Custom objects *)

\* The labels of the custom object count, its container is the controller's
MakeCustomObject(el, c, cfg) ==
    LET custom == CHOOSE x \in el.spec.custom : TRUE
    IN  [labels |-> UnionMaps(ObjectMeta(el, cfg.flags), custom.template.labels),
         container |-> MakeContainer(el, c, cfg.defaults)]

TemplateFields == {"name", "labels", "annotations", "serviceAccountName", "tolerations", "nodeSelector",
                   "affinity", "topologySpreadConstraints"}
ContainerFields == {"container.name", "image", "ports", "args", "command", "resources", "env",
                    "readinessProbe", "volumeMounts"}
\* Fields that are not compared
OtherFields == {"livenessProbe", "containerConcurrency"}

\* What of an existing object still differs: the container's fields and the volumes are
\* looked at if there is one container, otherwise the containers are replaced
UpdateCustomObject(existing) ==
    [containers |-> 1,
     differs |-> (existing.differs \ TemplateFields) \
                 (IF existing.containers = 1 THEN ContainerFields \union {"volumes"}
                  ELSE ContainerFields \union {"livenessProbe"})]
=============================================================================
