------------------------------ MODULE V1beta1 -------------------------------
(***************************************************************************)
(* pkg/apis/triggers/v1beta1: the types of the API, their defaults and     *)
(* their validation.  A pointer is a set, empty for nil.  Of fields that   *)
(* no property tells apart only their names remain.  The types are what    *)
(* the webhook can decode: it refuses fields that they do not have.  The   *)
(* validations give TRUE where the code returns no error.                  *)
(***************************************************************************)
EXTENDS Integers, TemplateText

-----------------------------------------------------------------------------
(* Types *)

Text == Seq([t : STRING, n : STRING])

\* Names that Kubernetes accepts for objects and labels are the others
BadName == {"", "Not_A_Name", "name-of-64"}
BadLabel == {"not a label"}

\* Keys and values
Labels == SUBSET (STRING \X STRING)

Param == [name : STRING, value : Text]
TriggerBindingSpec == [params : Seq(Param)]
TriggerBinding == [name : STRING, spec : TriggerBindingSpec]
ClusterTriggerBinding == [name : STRING, spec : TriggerBindingSpec]

\* A resource template: whether it parses, with a kind, and has an apiVersion
TriggerResourceTemplate == [parses : BOOLEAN, apiVersion : BOOLEAN, raw : Text]
ParamSpec == [name : STRING, default : SUBSET Text]
TriggerTemplateSpec == [params : Seq(ParamSpec), resourcetemplates : Seq(TriggerResourceTemplate)]
TriggerTemplate == [name : STRING, oldEscape : BOOLEAN, spec : TriggerTemplateSpec]

TriggerSpecTemplate == [ref : SUBSET STRING, apiversion : STRING, spec : SUBSET TriggerTemplateSpec]
TriggerSpecBinding == [name : STRING, value : SUBSET Text, ref : STRING, kind : STRING]

InterceptorRef == [name : STRING, kind : STRING]
ObjectReference == [kind : STRING, apiVersion : STRING, name : STRING]
WebhookInterceptor == [objectRef : SUBSET ObjectReference, url : BOOLEAN,
                       header : Seq([name : STRING, empty : BOOLEAN])]
InterceptorParams == [name : STRING, value : SUBSET STRING]
\* The deprecated fields are those of v1alpha1
TriggerInterceptor == [ref : InterceptorRef, params : Seq(InterceptorParams),
                       webhook : SUBSET WebhookInterceptor, deprecated : {{}}]
TriggerSpec == [bindings : Seq(TriggerSpecBinding), template : TriggerSpecTemplate,
                interceptors : Seq(SUBSET TriggerInterceptor)]
Trigger == [name : STRING, spec : TriggerSpec]

EventListenerTrigger == [bindings : Seq(TriggerSpecBinding), template : SUBSET TriggerSpecTemplate,
                         triggerRef : STRING, name : STRING,
                         interceptors : Seq(SUBSET TriggerInterceptor)]
EventListenerTriggerGroup == [interceptors : Seq(SUBSET TriggerInterceptor),
                              labelSelector : BOOLEAN, namespaces : Seq(STRING)]
\* valueFrom: the fields that a source has; the key of its secretKeyRef
EnvVar == [name : STRING, value : BOOLEAN, valueFrom : SUBSET SUBSET STRING, key : STRING]
Container == [fields : SUBSET STRING, env : Seq(EnvVar)]
PodSpec == [labels : Labels, fields : SUBSET STRING, containers : Seq(Container)]
KubernetesResource == [replicas : SUBSET Int, serviceType : STRING, servicePort : SUBSET Nat,
                       serviceLoadBalancerClass : BOOLEAN, template : PodSpec]
CustomResource == [decodes : BOOLEAN, template : PodSpec]
EventListenerSpec == [serviceAccountName : STRING, triggers : Seq(EventListenerTrigger),
                      triggerGroups : Seq(EventListenerTriggerGroup), namespaces : Seq(STRING),
                      labelSelector : BOOLEAN, kubernetes : SUBSET KubernetesResource,
                      custom : SUBSET CustomResource]
EventListener == [name : STRING, labels : Labels, payloadValidation : STRING, spec : EventListenerSpec]

\* k8s validation.IsDNS1123Subdomain and the length of a name
ObjectMetadata(name) == name \notin BadName

-----------------------------------------------------------------------------
(* Bindings *)

\* Only the last expression of a value may lack its closing bracket
validateParamValue(in) ==
    \A n \in DOMAIN Pieces(in) : n < Len(Pieces(in)) => Ends(Pieces(in)[n]) # {}

validateParams(params) ==
    /\ \A i, j \in DOMAIN params : params[i].name = params[j].name => i = j
    /\ \A i \in DOMAIN params : validateParamValue(params[i].value)

ValidateTriggerBindingSpec(s) == s.params # <<>> /\ validateParams(s.params)

ValidateTriggerBinding(tb) == ObjectMetadata(tb.name) /\ ValidateTriggerBindingSpec(tb.spec)

ValidateClusterTriggerBinding(ctb) == ObjectMetadata(ctb.name) /\ ValidateTriggerBindingSpec(ctb.spec)

-----------------------------------------------------------------------------
(* Templates *)

\* The names that paramsRegexp finds: they start with a letter or _
paramsRegexp(raw) ==
    {n \in {raw[i].n : i \in {i \in DOMAIN raw : raw[i].t = "tt.params"}} :
        n # "0" /\ \E i \in DOMAIN raw : IsAt(raw, ParamVariable(n), i)}

validateResourceTemplates(templates) ==
    \A i \in DOMAIN templates : templates[i].parses /\ templates[i].apiVersion

\* Every param of the resource templates is declared
verifyParamDeclarations(params, templates) ==
    \A i \in DOMAIN templates :
        paramsRegexp(templates[i].raw) \subseteq {params[j].name : j \in DOMAIN params}

validateTriggerTemplateSpec(s) ==
    /\ s.resourcetemplates # <<>>
    /\ validateResourceTemplates(s.resourcetemplates)
    /\ verifyParamDeclarations(s.params, s.resourcetemplates)

ValidateTriggerTemplate(tt) == ObjectMetadata(tt.name) /\ validateTriggerTemplateSpec(tt.spec)

-----------------------------------------------------------------------------
(* Triggers *)

validateTemplate(t) ==
    /\ t.apiversion \in {"", "v1alpha1", "v1beta1"}
    /\ (t.spec = {}) # (t.ref = {})
    /\ \A s \in t.spec : validateTriggerTemplateSpec(s)
    /\ "" \notin t.ref

\* Mutant: a name needs no value
validateBindingsNoValue(bs) ==
    \A i \in DOMAIN bs :
        \/ bs[i].ref # "" /\ bs[i].name = "" /\ bs[i].kind \in {"TriggerBinding", "ClusterTriggerBinding"}
        \/ bs[i].ref = "" /\ bs[i].name # ""

\* Either a reference of a known kind, or a name with a value
validateBindings(bs) ==
    \A i \in DOMAIN bs :
        \/ bs[i].ref # "" /\ bs[i].name = "" /\ bs[i].kind \in {"TriggerBinding", "ClusterTriggerBinding"}
        \/ bs[i].ref = "" /\ bs[i].name # "" /\ bs[i].value # {}

ValidHeader(h) == h.name = "X-Token" /\ ~h.empty

\* A webhook needs a v1 Service, even if it has a URL
validateInterceptor(i) ==
    /\ i.webhook = {} => i.ref.name # ""
    /\ \A w \in i.webhook :
          /\ \E o \in w.objectRef : o.kind = "Service" /\ o.apiVersion = "v1"
          /\ \A n \in DOMAIN w.header : ValidHeader(w.header[n])

\* An interceptor that is nil makes the handler panic: the request is not admitted either
validateTriggerSpec(s) ==
    /\ validateBindings(s.bindings)
    /\ validateTemplate(s.template)
    /\ \A n \in DOMAIN s.interceptors : \E i \in s.interceptors[n] : validateInterceptor(i)

ValidateTrigger(t) == ObjectMetadata(t.name) /\ validateTriggerSpec(t.spec)

-----------------------------------------------------------------------------
(* EventListeners: the masks keep the fields that are allowed *)

podSpecMask ==
    {"serviceAccountName", "containers", "tolerations", "nodeSelector", "affinity",
     "topologySpreadConstraints", "imagePullSecrets", "securityContext"}

containerFieldMaskForCustomResource == {"resources", "env", "securityContext"}

containerFieldMaskForKubernetes ==
    {"resources", "env", "livenessProbe", "readinessProbe", "startupProbe", "securityContext"}

envVarSourceMask == {"secretKeyRef"}

validateEnvVar(env) == ~env.value /\ \A source \in env.valueFrom : source \subseteq envVarSourceMask

reservedEnvVars == {"TLS_CERT", "TLS_KEY"}

\* TLS_CERT and TLS_KEY: not exactly one of them
validateEnv(vars) ==
    /\ \A i \in DOMAIN vars : validateEnvVar(vars[i])
    /\ Cardinality({i \in DOMAIN vars : vars[i].name \in reservedEnvVars}) # 1

validatePodSpec(spec, containerMask) ==
    /\ Len(spec.containers) <= 1
    /\ spec.fields \subseteq podSpecMask
    /\ \A i \in DOMAIN spec.containers :
          spec.containers[i].fields \subseteq containerMask /\ validateEnv(spec.containers[i].env)

validateCustomObject(custom) ==
    custom.decodes /\ validatePodSpec(custom.template, containerFieldMaskForCustomResource)

validateKubernetesObject(orig) ==
    /\ \A r \in orig.replicas : r >= 0
    /\ validatePodSpec(orig.template, containerFieldMaskForKubernetes)
    /\ orig.serviceLoadBalancerClass => orig.serviceType = "LoadBalancer"

\* The group's interceptors themselves are not validated
validateTriggerGroup(g) == (g.labelSelector \/ g.namespaces # <<>>) /\ g.interceptors # <<>>

validateEventListenerTrigger(t) ==
    /\ t.template # {} \/ t.triggerRef # ""
    /\ t.triggerRef # "" => t.template = {} /\ t.bindings = <<>> /\ t.interceptors = <<>>
    /\ validateBindings(t.bindings)
    /\ \A tt \in t.template : validateTemplate(tt)
    /\ \A n \in DOMAIN t.interceptors : \E i \in t.interceptors[n] : validateInterceptor(i)
    /\ t.name \notin BadLabel

validateEventListenerSpec(s) ==
    /\ s.labelSelector \/ s.namespaces # <<>> \/ s.triggerGroups # <<>> \/ s.triggers # <<>>
    /\ \A n \in DOMAIN s.triggers : validateEventListenerTrigger(s.triggers[n])
    /\ s.kubernetes = {} \/ s.custom = {}
    /\ \A k \in s.kubernetes : validateKubernetesObject(k)
    /\ \A c \in s.custom : validateCustomObject(c)
    /\ \A n \in DOMAIN s.triggerGroups : validateTriggerGroup(s.triggerGroups[n])

ValidateAnnotations(value) == value \in {"unset", "true", "false"}

\* el- is put before the name, so three characters fewer are allowed
ValidateEventListener(e) ==
    /\ e.name \notin {"name-of-61", "name-of-64"}
    /\ ValidateAnnotations(e.payloadValidation)
    /\ validateEventListenerSpec(e.spec)

-----------------------------------------------------------------------------
(* Defaults *)

defaultInterceptorKind(i) == IF i.ref.kind = "" THEN [i EXCEPT !.ref.kind = "ClusterInterceptor"] ELSE i

DefaultInterceptors(is) == [n \in DOMAIN is |-> {defaultInterceptorKind(i) : i \in is[n]}]

\* Inline values are given a kind as well
defaultBindings(bs) ==
    [n \in DOMAIN bs |-> IF bs[n].kind = "" THEN [bs[n] EXCEPT !.kind = "TriggerBinding"] ELSE bs[n]]

SetDefaultsOfTrigger(t) ==
    [t EXCEPT !.spec.bindings = defaultBindings(@), !.spec.interceptors = DefaultInterceptors(@)]

SetDefaultsOfEventListener(el, defaultSA) ==
    [el EXCEPT !.spec.serviceAccountName = IF @ = "" THEN defaultSA ELSE @,
               !.spec.kubernetes = {[k EXCEPT !.replicas = {IF r = 0 THEN 1 ELSE r : r \in @}] : k \in @},
               !.spec.triggers = [n \in DOMAIN @ |->
                    [@[n] EXCEPT !.bindings = defaultBindings(@), !.interceptors = DefaultInterceptors(@)]],
               !.spec.triggerGroups = [n \in DOMAIN @ |->
                    [@[n] EXCEPT !.interceptors = DefaultInterceptors(@)]]]

-----------------------------------------------------------------------------
(* Objects of a kind *)

SetDefaults(kind, obj, defaultSA) ==
    CASE kind = "Trigger" -> SetDefaultsOfTrigger(obj)
      [] kind = "EventListener" -> SetDefaultsOfEventListener(obj, defaultSA)
      [] OTHER -> obj

Validate(kind, obj) ==
    CASE kind = "TriggerBinding" -> ValidateTriggerBinding(obj)
      [] kind = "ClusterTriggerBinding" -> ValidateClusterTriggerBinding(obj)
      [] kind = "TriggerTemplate" -> ValidateTriggerTemplate(obj)
      [] kind = "Trigger" -> ValidateTrigger(obj)
      [] kind = "EventListener" -> ValidateEventListener(obj)

Types(kind) ==
    CASE kind = "TriggerBinding" -> TriggerBinding
      [] kind = "ClusterTriggerBinding" -> ClusterTriggerBinding
      [] kind = "TriggerTemplate" -> TriggerTemplate
      [] kind = "Trigger" -> Trigger
      [] kind = "EventListener" -> EventListener
=============================================================================
