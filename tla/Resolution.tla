----------------------------- MODULE Resolution -----------------------------
(***************************************************************************)
(* Admission of the objects of the API and what the sink makes of them for *)
(* an event.  The webhook (cmd/webhook) defaults and validates objects of  *)
(* both versions; the sink reads them as v1beta1, each at its own moment,  *)
(* while they may be replaced and deleted (sink.go, pkg/template).         *)
(***************************************************************************)
EXTENDS Template

CONSTANTS
    Scenarios,      \* what is submitted and received, and how often
    ScenarioOf(_),
    ObjectOf(_),    \* the object of an id
    RequestOf(_)    \* the request of an id

VARIABLES
    scenario,
    stored,         \* kind -> name -> the object
    via,            \* kind -> name -> the version it was last applied through
    defaultSA,      \* default-service-account of the webhook's configuration
    changes,        \* of the objects
    run             \* the processing of an event for one trigger

resolutionVars == <<scenario, stored, via, defaultSA, changes, run>>

Alpha == INSTANCE V1alpha1
Beta == INSTANCE V1beta1

\* types of cmd/webhook, less the kinds that have no references
Kinds == {"TriggerBinding", "ClusterTriggerBinding", "TriggerTemplate", "Trigger", "EventListener"}

NoRun == [pc |-> "none", why |-> "", request |-> <<>>, trigger |-> {}, next |-> 1, params |-> <<>>,
          template |-> {}, values |-> <<>>, resources |-> <<>>]

ResolutionInit ==
    /\ scenario \in Scenarios
    /\ stored = [k \in Kinds |-> <<>>]
    /\ via = [k \in Kinds |-> <<>>]
    /\ defaultSA \in ScenarioOf(scenario).accounts
    /\ changes = 0
    /\ run = NoRun

-----------------------------------------------------------------------------
(* cmd/webhook *)

Decodes(version, kind, obj) ==
    IF version = "v1alpha1" THEN obj \in Alpha!Types(kind) ELSE obj \in Beta!Types(kind)

Defaulted(version, kind, obj) ==
    IF version = "v1alpha1" THEN Alpha!SetDefaults(kind, obj, defaultSA)
    ELSE Beta!SetDefaults(kind, obj, defaultSA)

Valid(version, kind, obj) ==
    IF version = "v1alpha1" THEN Alpha!Validate(kind, obj) ELSE Beta!Validate(kind, obj)

\* Mutant: fields that the version does not have are ignored
AdmitUnknown(version, kind, obj) ==
    IF Valid(version, kind, Defaulted(version, kind, obj)) THEN {Defaulted(version, kind, obj)} ELSE {}

\* The defaulting controller, then the validating one
Admit(version, kind, obj) ==
    IF Decodes(version, kind, obj) /\ Valid(version, kind, Defaulted(version, kind, obj))
    THEN {Defaulted(version, kind, obj)} ELSE {}

Apply(version, kind, id) ==
    /\ \E obj \in Admit(version, kind, ObjectOf(id)) :
          /\ stored' = [stored EXCEPT ![kind] = (obj.name :> obj) @@ @]
          /\ via' = [via EXCEPT ![kind] = (obj.name :> version) @@ @]
    /\ changes' = changes + 1
    /\ UNCHANGED <<scenario, defaultSA, run>>

\* The webhook's store of the configuration has a new default-service-account
ChangeDefault(sa) ==
    /\ sa # defaultSA
    /\ defaultSA' = sa
    /\ changes' = changes + 1
    /\ UNCHANGED <<scenario, stored, via, run>>

\* Both versions admit every deletion
Delete(kind, name) ==
    /\ stored' = [stored EXCEPT ![kind] = [n \in DOMAIN @ \ {name} |-> @[n]]]
    /\ via' = [via EXCEPT ![kind] = [n \in DOMAIN @ \ {name} |-> @[n]]]
    /\ changes' = changes + 1
    /\ UNCHANGED <<scenario, defaultSA, run>>

-----------------------------------------------------------------------------
(* What the sink does with a trigger, after its interceptors *)

Starting(trigger, id) == [NoRun EXCEPT !.pc = "chain", !.trigger = {trigger}, !.request = id]

\* A Trigger that the EventListener's selectors find
SelectTrigger(name, id) ==
    /\ run.pc = "none"
    /\ run' = Starting(stored["Trigger"][name], id)
    /\ UNCHANGED <<scenario, stored, via, defaultSA, changes>>

\* A trigger of the EventListener itself
MergeTrigger(t, id) ==
    CASE t.template = {} /\ t.triggerRef # "" ->
            IF t.triggerRef \in DOMAIN stored["Trigger"] THEN Starting(stored["Trigger"][t.triggerRef], id)
            ELSE [NoRun EXCEPT !.pc = "failed", !.why = "not found"]
      [] t.template # {} ->
            Starting([name |-> t.name, spec |-> [bindings |-> t.bindings, interceptors |-> t.interceptors,
                                                  template |-> CHOOSE tt \in t.template : TRUE]], id)
      [] OTHER -> [NoRun EXCEPT !.pc = "failed", !.why = "undefined"]

Merge(name, id) ==
    /\ run.pc = "none"
    /\ \E n \in DOMAIN stored["EventListener"][name].spec.triggers :
          run' = MergeTrigger(stored["EventListener"][name].spec.triggers[n], id)
    /\ UNCHANGED <<scenario, stored, via, defaultSA, changes>>

Fail(why) == run' = [run EXCEPT !.pc = "failed", !.why = why]

ReadsOnly == UNCHANGED <<scenario, stored, via, defaultSA, changes>>

TheTrigger == CHOOSE t \in run.trigger : TRUE

\* getURI of pkg/interceptors/webhook: a URL, or the Service
getURI(webhook) ==
    CASE webhook.url -> "ok"
      [] webhook.objectRef = {} -> "nil"
      [] \E o \in webhook.objectRef : o.kind = "Service" /\ o.apiVersion = "v1" -> "ok"
      [] OTHER -> "invalid objRef"

\* Where ExecuteInterceptors calls an interceptor; a nil interceptor would end the sink
Target(i) == IF i = {} THEN "nil" ELSE LET x == CHOOSE y \in i : TRUE IN
    IF x.webhook # {} THEN getURI(CHOOSE w \in x.webhook : TRUE)
    ELSE IF x.ref.name = "" THEN "no name"
    ELSE IF x.ref.kind \notin {"ClusterInterceptor", "NamespacedInterceptor"} THEN "no url" ELSE "ok"

\* ExecuteInterceptors; the calls themselves are modelled in Sink
ExecuteInterceptors ==
    /\ run.pc = "chain"
    /\ LET bad == {n \in DOMAIN TheTrigger.spec.interceptors : Target(TheTrigger.spec.interceptors[n]) # "ok"}
       IN  IF bad = {} THEN run' = [run EXCEPT !.pc = "bindings"]
           ELSE Fail(Target(TheTrigger.spec.interceptors[Min(bad)]))
    /\ ReadsOnly

\* The params of the next binding; the kinds of a reference have a lister each
ResolveBinding ==
    /\ run.pc = "bindings"
    /\ run.next <= Len(TheTrigger.spec.bindings)
    /\ LET b == TheTrigger.spec.bindings[run.next]
           lister == IF b.kind = "ClusterTriggerBinding" THEN stored["ClusterTriggerBinding"]
                     ELSE stored["TriggerBinding"]
           Append2(params) == run' = [run EXCEPT !.next = @ + 1, !.params = @ \o params]
       IN  CASE b.name # "" /\ b.value # {} ->
                    Append2(<<[name |-> b.name, value |-> CHOOSE v \in b.value : TRUE]>>)
             [] b.ref # "" -> IF b.ref \in DOMAIN lister THEN Append2(lister[b.ref].spec.params)
                              ELSE Fail("not found")
             [] OTHER -> Fail("invalid binding")
    /\ ReadsOnly

\* The end of resolveBindingsToParams
CheckDuplicates ==
    /\ run.pc = "bindings"
    /\ run.next > Len(TheTrigger.spec.bindings)
    /\ IF Duplicates(run.params) # {} THEN Fail("duplicate") ELSE run' = [run EXCEPT !.pc = "template"]
    /\ ReadsOnly

\* The rest of ResolveTrigger
GetTemplate ==
    /\ run.pc = "template"
    /\ LET t == TheTrigger.spec.template
           Use(template) == run' = [run EXCEPT !.pc = "params", !.template = {template}]
       IN  IF t.spec # {} THEN Use([name |-> "", oldEscape |-> FALSE, spec |-> CHOOSE s \in t.spec : TRUE])
           ELSE IF \E n \in t.ref : n \in DOMAIN stored["TriggerTemplate"]
           THEN Use(stored["TriggerTemplate"][CHOOSE n \in t.ref : TRUE])
           ELSE Fail("not found")
    /\ ReadsOnly

TheTemplate == CHOOSE t \in run.template : TRUE

EventID == <<Lit("event")>>
UUID == <<Lit("uuid")>>

GetParams ==
    /\ run.pc = "params"
    /\ LET values == ResolveParams([params |-> run.params, template |-> TheTemplate],
                                   RequestOf(run.request), EventID)
       IN  IF values.ok THEN run' = [run EXCEPT !.pc = "resources", !.values = values.value]
           ELSE Fail(values.why)
    /\ ReadsOnly

\* A text is JSON if, outside of its strings, it has only what JSON is made of
IsJSON(text) ==
    LET quotes(i) == Cardinality({j \in 1..i : text[j] = Quote})
    IN  /\ quotes(Len(text)) % 2 = 0
        /\ \A i \in DOMAIN text : text[i] # Quote /\ quotes(i) % 2 = 0 => text[i].t = "json"

\* ResolveResources; Create refuses what is not JSON
GetResources ==
    /\ run.pc = "resources"
    /\ \E params \in convertParamMapToArray(run.values) :
          LET resources == ResolveResources(TheTemplate, params, UUID)
          IN  run' = [run EXCEPT !.resources = resources,
                                 !.pc = IF \A i \in DOMAIN resources : IsJSON(resources[i])
                                        THEN "done" ELSE "failed",
                                 !.why = IF \A i \in DOMAIN resources : IsJSON(resources[i])
                                         THEN "" ELSE "json"]
    /\ ReadsOnly

ResolutionNext ==
    \/ /\ changes < ScenarioOf(scenario).changes
       /\ \/ \E version \in {"v1alpha1", "v1beta1"}, k \in DOMAIN ScenarioOf(scenario).objects :
                \E id \in ScenarioOf(scenario).objects[k] : Apply(version, k, id)
          \/ \E sa \in ScenarioOf(scenario).accounts : ChangeDefault(sa)
          \/ \E k \in ScenarioOf(scenario).deleted : \E name \in DOMAIN stored[k] : Delete(k, name)
    \/ \E name \in DOMAIN stored["Trigger"], id \in ScenarioOf(scenario).requests : SelectTrigger(name, id)
    \/ \E name \in DOMAIN stored["EventListener"], id \in ScenarioOf(scenario).requests : Merge(name, id)
    \/ ExecuteInterceptors \/ ResolveBinding \/ CheckDuplicates \/ GetTemplate \/ GetParams \/ GetResources

-----------------------------------------------------------------------------
(* Properties *)

\* The state has the shape of the code's data, and every stored object is one of the
\* version it was applied through.
ResolutionTypeOK ==
    /\ scenario \in Scenarios
    /\ defaultSA \in STRING
    /\ changes \in 0..ScenarioOf(scenario).changes
    /\ run.pc \in {"none", "chain", "bindings", "template", "params", "resources", "done", "failed"}
    /\ \A k \in Kinds : /\ DOMAIN stored[k] = DOMAIN via[k]
                        /\ \A n \in DOMAIN stored[k] : /\ stored[k][n].name = n
                                                      /\ Decodes(via[k][n], k, stored[k][n])

\* Every value of the event is one string
AllStrings(request) ==
    \A v \in {request.values, request.extensions} : \A p \in DOMAIN v :
        Len(v[p]) = 1 /\ v[p][1].type = "string"

\* What was admitted, through either version, and at whatever moments its parts are read,
\* fails in the sink only for what admission cannot know: a reference without an object; two
\* bindings that share a name, never one binding by itself (validateParams); an expression
\* without a value whose param has no default (event.go:125-141); a body that is not JSON, or
\* a value that does not stay JSON, which no string does, quotes included, unless the
\* template asks for the old escaping (jsonpath.go:86-119); or for the kind of an
\* interceptor, which nobody looks at before the sink.  It never fails for the shape of the
\* trigger otherwise (sink.go merge and ExecuteInterceptors, webhook.go getURI, resource.go
\* resolveBindingsToParams).
AdmittedResolves ==
    /\ run.why \in {"", "not found", "duplicate", "body", "jsonpath", "json", "no url"}
    /\ run.why = "duplicate" => Len(TheTrigger.spec.bindings) > 1
    /\ run.why = "jsonpath" =>
           \E p \in ToSet(run.params) : p.name \notin DOMAIN DefaultsOf(TheTemplate.spec.params)
    /\ run.why = "json" => TheTemplate.oldEscape \/ ~AllStrings(RequestOf(run.request))

\* Defaulting what is stored once more, as every later update does, changes nothing but the
\* service account, which follows the configuration (SetDefaults of both versions).
DefaultingIdempotent ==
    \A k \in Kinds : \A n \in DOMAIN stored[k] :
        LET again == Defaulted(via[k][n], k, stored[k][n])
        IN  again = stored[k][n] \/ (k = "EventListener" /\ stored[k][n].spec.serviceAccountName = "")

\* An object that was admitted as v1alpha1 and has kept no deprecated field can be updated as
\* v1beta1: there is no conversion between the versions that could repair it.
Undeprecated(is) == \A n \in DOMAIN is : \A i \in is[n] : i.deprecated = {}
UpgradeKeepsAdmitted ==
    \A k \in Kinds : \A n \in DOMAIN stored[k] :
        LET obj == stored[k][n]
            free == CASE k = "Trigger" -> Undeprecated(obj.spec.interceptors)
                      [] k = "EventListener" -> \A i \in DOMAIN obj.spec.triggers :
                                                    Undeprecated(obj.spec.triggers[i].interceptors)
                      [] OTHER -> TRUE
        IN  free => Admit("v1beta1", k, obj) # {}

\* What the variables of a template stand for, all replaced at once
Substituted(raw, values, oldEscape) ==
    LET names == DOMAIN values
        value(n) == escapeTektonVariables(IF oldEscape THEN EscapeQuotes(values[n]) ELSE values[n])
        inside(i) == \E d \in 1..2 : \/ \E n \in names : IsAt(raw, ParamVariable(n), i - d)
                                     \/ IsAt(raw, uidMatch, i - d)
        at(i) == {n \in names : IsAt(raw, ParamVariable(n), i)}
    IN  FlattenSeq([i \in 1..Len(raw) |->
            IF at(i) # {} THEN value(CHOOSE n \in at(i) : TRUE)
            ELSE IF IsAt(raw, uidMatch, i) THEN UUID
            ELSE IF inside(i) THEN <<>> ELSE <<raw[i]>>])

Mentions(text) == \E i \in DOMAIN text : text[i].t \in {"tt.params", "uid"}

\* The code replaces one param after the other, in the order in which Go ranges over a map.
\* As long as no value mentions a variable itself, the resources are those of replacing all
\* of them at once, whatever the order (resource.go:124-157).
SubstitutionSimultaneous ==
    run.resources # <<>> /\ (\A n \in DOMAIN run.values : ~Mentions(run.values[n])) =>
        run.resources = [i \in DOMAIN TheTemplate.spec.resourcetemplates |->
            Substituted(TheTemplate.spec.resourcetemplates[i].raw, run.values, TheTemplate.oldEscape)]

\* A variable that is left in a resource was declared, and neither its default nor the
\* bindings gave it a value: admission found all the others (verifyParamDeclarations), except
\* for the names its expression does not match.
OnlyUnboundLeft ==
    (\A n \in DOMAIN run.values : ~Mentions(run.values[n])) =>
        \A i \in DOMAIN run.resources :
            LET left == {run.resources[i][j].n : j \in {j \in DOMAIN run.resources[i] :
                            run.resources[i][j].t = "tt.params"}}
                unbound == {s.name : s \in {s \in ToSet(TheTemplate.spec.params) :
                                s.default = {} /\ s.name \notin {p.name : p \in ToSet(run.params)}}}
            IN  left \subseteq unbound \union {"0"}

\* What the sink makes of a template is the template with all its variables replaced at
\* once, and every variable that has a value is (resource.go:124-157).
TemplatesFilled == SubstitutionSimultaneous /\ OnlyUnboundLeft

\* What is stored can be stored again: defaulting leaves it alone, and the newer version's
\* validation takes it (SetDefaults and Validate of both versions).
StoredStaysValid == DefaultingIdempotent /\ UpgradeKeepsAdmitted
=============================================================================
