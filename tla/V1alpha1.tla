------------------------------ MODULE V1alpha1 ------------------------------
(***************************************************************************)
(* pkg/apis/triggers/v1alpha1: the older version of the API, with its own  *)
(* defaults and validation.  The webhook serves both versions; everything  *)
(* else in the repository reads the objects as v1beta1.  The conventions   *)
(* are those of V1beta1.                                                   *)
(***************************************************************************)
EXTENDS Integers, TemplateText

-----------------------------------------------------------------------------
(* Types *)

Text == Seq([t : STRING, n : STRING])
Labels == SUBSET (STRING \X STRING)

BadName == {"", "Not_A_Name", "name-of-64"}
BadLabel == {"not a label"}

TriggerBindingSpec == [params : Seq([name : STRING, value : Text])]
TriggerBinding == [name : STRING, spec : TriggerBindingSpec]
ClusterTriggerBinding == [name : STRING, spec : TriggerBindingSpec]

TriggerResourceTemplate == [parses : BOOLEAN, apiVersion : BOOLEAN, raw : Text]
TriggerTemplateSpec == [params : Seq([name : STRING, default : SUBSET Text]),
                        resourcetemplates : Seq(TriggerResourceTemplate)]
TriggerTemplate == [name : STRING, oldEscape : BOOLEAN, spec : TriggerTemplateSpec]

TriggerSpecTemplate == [ref : SUBSET STRING, apiversion : STRING, spec : SUBSET TriggerTemplateSpec]
TriggerSpecBinding == [name : STRING, value : SUBSET Text, ref : STRING, kind : STRING]

InterceptorRef == [name : STRING, kind : STRING]
WebhookInterceptor == [objectRef : SUBSET [kind : STRING, apiVersion : STRING, name : STRING],
                       url : BOOLEAN, header : Seq([name : STRING, empty : BOOLEAN])]
\* A github, gitlab, bitbucket or cel field: secretRef and eventTypes, or filter and overlays
DeprecatedInterceptor == [name : {"github", "gitlab", "bitbucket", "cel"},
                          first : SUBSET STRING, second : SUBSET STRING, parses : BOOLEAN]
InterceptorParams == [name : STRING, value : SUBSET STRING]
TriggerInterceptor == [ref : InterceptorRef, params : Seq(InterceptorParams),
                       webhook : SUBSET WebhookInterceptor, deprecated : SUBSET DeprecatedInterceptor]
TriggerSpec == [bindings : Seq(TriggerSpecBinding), template : TriggerSpecTemplate,
                interceptors : Seq(SUBSET TriggerInterceptor)]
Trigger == [name : STRING, spec : TriggerSpec]

EventListenerTrigger == [bindings : Seq(TriggerSpecBinding), template : SUBSET TriggerSpecTemplate,
                         triggerRef : STRING, name : STRING,
                         interceptors : Seq(SUBSET TriggerInterceptor)]
EnvVar == [name : STRING, value : BOOLEAN, valueFrom : SUBSET SUBSET STRING, key : STRING]
PodSpec == [labels : Labels, fields : SUBSET STRING, containers : Seq([fields : SUBSET STRING, env : Seq(EnvVar)])]
KubernetesResource == [replicas : SUBSET Int, serviceType : STRING, servicePort : {{}},
                       serviceLoadBalancerClass : {FALSE}, template : PodSpec]
CustomResource == [decodes : BOOLEAN, template : PodSpec]
EventListenerSpec == [serviceAccountName : STRING, triggers : Seq(EventListenerTrigger),
                      triggerGroups : {<<>>}, namespaces : Seq(STRING), labelSelector : BOOLEAN,
                      kubernetes : SUBSET KubernetesResource, custom : SUBSET CustomResource]
EventListener == [name : STRING, labels : Labels, payloadValidation : STRING, spec : EventListenerSpec]

ObjectMetadata(name) == name \notin BadName

-----------------------------------------------------------------------------
(* Bindings *)

validateParamValue(in) ==
    \A n \in DOMAIN Pieces(in) : n < Len(Pieces(in)) => Ends(Pieces(in)[n]) # {}

validateParams(params) ==
    /\ \A i, j \in DOMAIN params : params[i].name = params[j].name => i = j
    /\ \A i \in DOMAIN params : validateParamValue(params[i].value)

ValidateTriggerBindingSpec(s) == s.params # <<>> /\ validateParams(s.params)

ValidateTriggerBinding(tb) == ObjectMetadata(tb.name) /\ ValidateTriggerBindingSpec(tb.spec)

ValidateClusterTriggerBinding(ctb) == ObjectMetadata(ctb.name) /\ ValidateTriggerBindingSpec(ctb.spec)

-----------------------------------------------------------------------------
(* Templates *)

paramsRegexp(raw) ==
    {n \in {raw[i].n : i \in {i \in DOMAIN raw : raw[i].t = "tt.params"}} :
        n # "0" /\ \E i \in DOMAIN raw : IsAt(raw, ParamVariable(n), i)}

validateResourceTemplates(templates) ==
    \A i \in DOMAIN templates : templates[i].parses /\ templates[i].apiVersion

verifyParamDeclarations(params, templates) ==
    \A i \in DOMAIN templates :
        paramsRegexp(templates[i].raw) \subseteq {params[j].name : j \in DOMAIN params}

validateTriggerTemplateSpec(s) ==
    /\ s.resourcetemplates # <<>>
    /\ validateResourceTemplates(s.resourcetemplates)
    /\ verifyParamDeclarations(s.params, s.resourcetemplates)

ValidateTriggerTemplate(tt) == ObjectMetadata(tt.name) /\ validateTriggerTemplateSpec(tt.spec)

-----------------------------------------------------------------------------
(* Triggers *)

validateTemplate(t) ==
    /\ t.apiversion \in {"", "v1alpha1"}
    /\ (t.spec = {}) # (t.ref = {})
    /\ \A s \in t.spec : validateTriggerTemplateSpec(s)
    /\ "" \notin t.ref

validateBindings(bs) ==
    \A i \in DOMAIN bs :
        \/ bs[i].ref # "" /\ bs[i].name = "" /\ bs[i].kind \in {"TriggerBinding", "ClusterTriggerBinding"}
        \/ bs[i].ref = "" /\ bs[i].name # "" /\ bs[i].value # {}

Named(i, name) == {d \in i.deprecated : d.name = name}

\* Mutant: the version of the webhook's object is not looked at
validateInterceptorAnyVersion(i) ==
    /\ i.webhook = {} /\ i.deprecated = {} => i.ref.name # ""
    /\ \A w \in i.webhook : \E o \in w.objectRef : o.name # "" /\ o.kind = "Service"

\* At most one of webhook, github, gitlab and bitbucket; a cel is not counted.  Without an
\* object the validation of a webhook panics, and the request is not admitted either.
validateInterceptor(i) ==
    /\ i.webhook = {} /\ i.deprecated = {} => i.ref.name # ""
    /\ Cardinality(i.webhook) + Cardinality(i.deprecated \ Named(i, "cel")) <= 1
    /\ \A w \in i.webhook :
          /\ \E o \in w.objectRef : o.name # "" /\ o.kind = "Service" /\ o.apiVersion = "v1"
          /\ \A n \in DOMAIN w.header : w.header[n].name = "X-Token" /\ ~w.header[n].empty
    /\ \A c \in Named(i, "cel") : c.first \union c.second # {} /\ c.parses

validateTriggerSpec(s) ==
    /\ validateBindings(s.bindings)
    /\ validateTemplate(s.template)
    /\ \A n \in DOMAIN s.interceptors : \E i \in s.interceptors[n] : validateInterceptor(i)

ValidateTrigger(t) == ObjectMetadata(t.name) /\ validateTriggerSpec(t.spec)

-----------------------------------------------------------------------------
(* EventListeners *)

podSpecMask == {"serviceAccountName", "containers", "tolerations", "nodeSelector"}

containerFieldMaskForKubernetes ==
    {"resources", "env", "livenessProbe", "readinessProbe", "startupProbe"}

containerFieldMaskForCustomResource == {"resources", "env"}

envVarSourceMask == {"secretKeyRef"}

validateEnvVar(env) == ~env.value /\ \A source \in env.valueFrom : source \subseteq envVarSourceMask

reservedEnvVars == {"TLS_CERT", "TLS_KEY"}

validateEnv(vars) ==
    /\ \A i \in DOMAIN vars : validateEnvVar(vars[i])
    /\ Cardinality({i \in DOMAIN vars : vars[i].name \in reservedEnvVars}) # 1

validatePodSpec(spec, containerMask) ==
    /\ Len(spec.containers) <= 1
    /\ spec.fields \subseteq podSpecMask
    /\ \A i \in DOMAIN spec.containers :
          spec.containers[i].fields \subseteq containerMask /\ validateEnv(spec.containers[i].env)

validateCustomObject(custom) ==
    custom.decodes /\ validatePodSpec(custom.template, containerFieldMaskForCustomResource)

validateKubernetesObject(orig) ==
    /\ \A r \in orig.replicas : r >= 0
    /\ validatePodSpec(orig.template, containerFieldMaskForKubernetes)

validateEventListenerTrigger(t) ==
    /\ t.template # {} \/ t.triggerRef # ""
    /\ t.triggerRef # "" => t.template = {} /\ t.bindings = <<>> /\ t.interceptors = <<>>
    /\ validateBindings(t.bindings)
    /\ \A tt \in t.template : validateTemplate(tt)
    /\ \A n \in DOMAIN t.interceptors : \E i \in t.interceptors[n] : validateInterceptor(i)
    /\ t.name \notin BadLabel

validateEventListenerSpec(s) ==
    /\ s.labelSelector \/ s.namespaces # <<>> \/ s.triggers # <<>>
    /\ \A n \in DOMAIN s.triggers : validateEventListenerTrigger(s.triggers[n])
    /\ s.kubernetes = {} \/ s.custom = {}
    /\ \A k \in s.kubernetes : validateKubernetesObject(k)
    /\ \A c \in s.custom : validateCustomObject(c)

ValidateEventListener(e) ==
    /\ e.name \notin {"name-of-61", "name-of-64"}
    /\ e.payloadValidation \in {"unset", "true", "false"}
    /\ validateEventListenerSpec(e.spec)

-----------------------------------------------------------------------------
(* Defaults *)

defaultInterceptorKind(i) == IF i.ref.kind = "" THEN [i EXCEPT !.ref.kind = "ClusterInterceptor"] ELSE i

\* The first of the deprecated fields that is set, in this order
GetName(i) ==
    LET set == SelectSeq(<<"bitbucket", "cel", "github", "gitlab">>, LAMBDA n : Named(i, n) # {})
    IN  IF i.ref.name # "" THEN i.ref.name ELSE IF set = <<>> THEN "" ELSE set[1]

addToParams(d) ==
    IF d.name = "cel" THEN <<[name |-> "filter", value |-> d.first], [name |-> "overlays", value |-> d.second]>>
    ELSE <<[name |-> "secretRef", value |-> d.first], [name |-> "eventTypes", value |-> d.second]>>

\* A deprecated field becomes a reference to the core interceptor with params.  If several
\* are set, the others stay.
updateCoreInterceptors(i) ==
    LET name == GetName(i)
    IN  IF i.ref.name # "" THEN i
        ELSE IF Named(i, name) = {} THEN [i EXCEPT !.params = <<>>]
        ELSE [i EXCEPT !.ref.name = name, !.params = addToParams(CHOOSE d \in Named(i, name) : TRUE),
                       !.deprecated = @ \ Named(i, name)]

DefaultInterceptors(is) ==
    [n \in DOMAIN is |-> {updateCoreInterceptors(defaultInterceptorKind(i)) : i \in is[n]}]

defaultBindings(bs) ==
    [n \in DOMAIN bs |-> IF bs[n].kind = "" THEN [bs[n] EXCEPT !.kind = "TriggerBinding"] ELSE bs[n]]

SetDefaultsOfTrigger(t) ==
    [t EXCEPT !.spec.bindings = defaultBindings(@), !.spec.interceptors = DefaultInterceptors(@)]

SetDefaultsOfEventListener(el, defaultSA) ==
    [el EXCEPT !.spec.serviceAccountName = IF @ = "" THEN defaultSA ELSE @,
               !.spec.kubernetes = {[k EXCEPT !.replicas = {IF r = 0 THEN 1 ELSE r : r \in @}] : k \in @},
               !.spec.triggers = [n \in DOMAIN @ |->
                    [@[n] EXCEPT !.bindings = defaultBindings(@), !.interceptors = DefaultInterceptors(@)]]]

-----------------------------------------------------------------------------
(* Objects of a kind *)

SetDefaults(kind, obj, defaultSA) ==
    CASE kind = "Trigger" -> SetDefaultsOfTrigger(obj)
      [] kind = "EventListener" -> SetDefaultsOfEventListener(obj, defaultSA)
      [] OTHER -> obj

Validate(kind, obj) ==
    CASE kind = "TriggerBinding" -> ValidateTriggerBinding(obj)
      [] kind = "ClusterTriggerBinding" -> ValidateClusterTriggerBinding(obj)
      [] kind = "TriggerTemplate" -> ValidateTriggerTemplate(obj)
      [] kind = "Trigger" -> ValidateTrigger(obj)
      [] kind = "EventListener" -> ValidateEventListener(obj)

Types(kind) ==
    CASE kind = "TriggerBinding" -> TriggerBinding
      [] kind = "ClusterTriggerBinding" -> ClusterTriggerBinding
      [] kind = "TriggerTemplate" -> TriggerTemplate
      [] kind = "Trigger" -> Trigger
      [] kind = "EventListener" -> EventListener
=============================================================================
