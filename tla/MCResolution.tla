---------------------------- MODULE MCResolution ----------------------------
(***************************************************************************)
(* What Resolution is tried with.  Each scenario submits objects that      *)
(* differ in what the defaults and the validations look at, through both   *)
(* versions.                                                               *)
(***************************************************************************)
EXTENDS Resolution

\* Texts of params: a literal, expressions on the event, several of them, one left open
TextOf(id) ==
    LET Expr(t, n) == <<Open, Tok(t, n), Close>>
    IN  CASE id = "plain" -> <<Lit("v")>>
          [] id = "body" -> Expr("body", "x")
          [] id = "header" -> Expr("header", "x-event")
          [] id = "context" -> Expr("context", "eventID")
          [] id = "two" -> Expr("extensions", "e") \o <<Lit("-")>> \o Expr("body", "x")
          [] id = "braces" -> <<Open, Tok("{", ""), Tok(".", ""), Tok("body", "x"), Tok("}", ""), Close>>
          [] id = "filter" -> <<Open, Tok("body", "y"), Paren, Lit("@"), Close, Close>>
          [] id = "open" -> <<Open, Tok("body", "x")>>
          [] id = "openfirst" -> <<Open, Tok("body", "x")>> \o Expr("body", "x")

RequestTable ==
    LET string(text) == <<[type |-> "string", text |-> text]>>
        object == <<[type |-> "object", text |-> <<Tok("json", "{"), Quote, Lit("k"), Quote, Tok("json", ":1}")>>]>>
        x == <<Tok("body", "x")>>
        e == <<Tok("extensions", "e")>>
        req(body, xs, es) == [body |-> body, values |-> IF xs = <<>> THEN <<>> ELSE x :> xs,
                              headers |-> ("X-Event" :> <<<<Lit("push")>>, <<Lit("tag")>>>>),
                              extensions |-> IF es = <<>> THEN <<>> ELSE e :> es]
    IN  [plain |-> req("json", string(<<Lit("v")>>), string(<<Lit("w")>>)),
         quoted |-> req("json", string(<<Lit("a"), Quote, Lit("b")>>), string(<<Lit("w")>>)),
         object |-> req("json", object, object \o string(<<Quote>>)),
         variable |-> req("json", string(ParamVariable("b")), string(uidMatch)),
         empty |-> req("empty", string(<<Lit("v")>>), <<>>),
         malformed |-> req("malformed", string(<<Lit("v")>>), <<>>)]
MCRequestOf(id) == RequestTable[id]

BindingOf(name, ps) ==
    [name |-> name, spec |-> [params |-> [i \in DOMAIN ps |-> [name |-> ps[i][1], value |-> TextOf(ps[i][2])]]]]

\* {kind:"K",a:"$(tt.params.a)",...}
RawOf(names) ==
    <<Tok("json", "{")>> \o
    FlattenSeq([i \in DOMAIN names |-> <<Quote>> \o
        (IF names[i] = "uid" THEN uidMatch ELSE ParamVariable(names[i])) \o <<Quote, Tok("json", ",")>>])
    \o <<Tok("json", "}")>>

\* Params that are declared, with a default or not, and the variables of the resources
TemplateSpecOf(declared, resources) ==
    [params |-> [i \in DOMAIN declared |->
        [name |-> declared[i][1], default |-> IF declared[i][2] = "" THEN {} ELSE {TextOf(declared[i][2])}]],
     resourcetemplates |-> [i \in DOMAIN resources |->
        [parses |-> TRUE, apiVersion |-> resources[i] # <<"0">>, raw |-> RawOf(resources[i])]]]

SpecBindingOf(id) ==
    CASE id = "inline" -> [name |-> "a", value |-> {TextOf("body")}, ref |-> "", kind |-> ""]
      [] id = "novalue" -> [name |-> "a", value |-> {}, ref |-> "", kind |-> ""]
      [] id = "both" -> [name |-> "a", value |-> {TextOf("plain")}, ref |-> "tb", kind |-> ""]
      [] id = "cluster" -> [name |-> "", value |-> {}, ref |-> "ctb", kind |-> "ClusterTriggerBinding"]
      [] id = "otherkind" -> [name |-> "", value |-> {}, ref |-> "tb", kind |-> "Binding"]
      [] OTHER -> [name |-> "", value |-> {}, ref |-> id, kind |-> ""]

InterceptorOf(id) ==
    LET none == [ref |-> [name |-> "", kind |-> ""], params |-> <<>>, webhook |-> {}, deprecated |-> {}]
        hook(objects, url) == [none EXCEPT !.webhook =
            {[objectRef |-> objects, url |-> url, header |-> <<[name |-> "X-Token", empty |-> FALSE]>>]}]
        service(version, kind) == {[kind |-> kind, apiVersion |-> version, name |-> "svc"]}
        old(name) == [name |-> name, first |-> {"s"}, second |-> {"t"}, parses |-> name # "cel"]
    IN  CASE id = "ref" -> {[none EXCEPT !.ref = [name |-> "cel", kind |-> "NamespacedInterceptor"],
                                         !.params = <<[name |-> "filter", value |-> {"f"}]>>]}
          [] id = "kind" -> {[none EXCEPT !.ref = [name |-> "cel", kind |-> "Interceptor"]]}
          [] id = "none" -> {none}
          [] id = "nil" -> {}
          [] id = "service" -> {hook(service("v1", "Service"), FALSE)}
          [] id = "route" -> {hook(service("v1", "Route"), FALSE)}
          [] id = "v2" -> {hook(service("v2", "Service"), FALSE)}
          [] id = "url" -> {hook({}, TRUE)}
          [] id = "nowhere" -> {hook({}, FALSE)}
          [] id = "github" -> {[none EXCEPT !.deprecated = {old("github")}]}
          [] id = "cel" -> {[none EXCEPT !.deprecated = {old("cel")}]}
          [] id = "celgitlab" -> {[none EXCEPT !.deprecated = {old("cel"), old("gitlab")}]}
          [] id = "bitbucketref" -> {[none EXCEPT !.deprecated = {old("bitbucket")}, !.ref.name = "cel"]}

TemplateRefOf(id) ==
    CASE id = "inline" -> [ref |-> {}, apiversion |-> "",
                           spec |-> {TemplateSpecOf(<< <<"a", "">> >>, << <<"a">> >>)}]
      [] id = "neither" -> [ref |-> {}, apiversion |-> "", spec |-> {}]
      [] id = "newer" -> [ref |-> {"tt"}, apiversion |-> "v1beta1", spec |-> {}]
      [] id = "unknown" -> [ref |-> {"tt"}, apiversion |-> "v2", spec |-> {}]
      [] OTHER -> [ref |-> {id}, apiversion |-> "", spec |-> {}]

SpecOf(bs, is, template) ==
    [bindings |-> [i \in DOMAIN bs |-> SpecBindingOf(bs[i])], template |-> TemplateRefOf(template),
     interceptors |-> [i \in DOMAIN is |-> InterceptorOf(is[i])]]

\* A trigger of an EventListener: without a template unless it is given one
ELTriggerOf(bs, is, template, ref) ==
    [bindings |-> [i \in DOMAIN bs |-> SpecBindingOf(bs[i])],
     template |-> IF template = "" THEN {} ELSE {TemplateRefOf(template)}, triggerRef |-> ref,
     name |-> "t", interceptors |-> [i \in DOMAIN is |-> InterceptorOf(is[i])]]

ListenerOf(trigger, sa, replicas) ==
    [name |-> "el", labels |-> {}, payloadValidation |-> "unset",
     spec |-> [serviceAccountName |-> sa, triggers |-> <<trigger>>, triggerGroups |-> <<>>,
               namespaces |-> <<>>, labelSelector |-> FALSE, custom |-> {},
               kubernetes |-> {[replicas |-> replicas, serviceType |-> "", servicePort |-> {}, serviceLoadBalancerClass |-> FALSE,
                                template |-> [labels |-> {}, fields |-> {}, containers |-> <<>>]]}]]

MCObjectOf(id) ==
    CASE id[1] = "TriggerBinding" -> BindingOf("tb", id[2])
      [] id[1] = "ClusterTriggerBinding" -> BindingOf("ctb", id[2])
      [] id[1] = "TriggerTemplate" ->
            [name |-> "tt", oldEscape |-> id[4], spec |-> TemplateSpecOf(id[2], id[3])]
      [] id[1] = "Trigger" -> [name |-> "t", spec |-> SpecOf(id[2], id[3], id[4])]
      [] id[1] = "EventListener" ->
            ListenerOf(ELTriggerOf(id[2], id[3], id[4], id[5]), id[6], id[7])

-----------------------------------------------------------------------------

Bindings(kind) == {<<kind, ps>> : ps \in
    {<<>>, << <<"a", "plain">> >>, << <<"a", "body">>, <<"b", "two">> >>, << <<"a", "plain">>, <<"a", "body">> >>,
     << <<"b", "context">>, <<"c", "header">> >>, << <<"b", "braces">> >>, << <<"c", "filter">> >>,
     << <<"a", "open">> >>, << <<"a", "openfirst">> >>}}

Templates == {<<"TriggerTemplate", d, r, FALSE>> : d \in {<<>>, << <<"a", "">>, <<"b", "">> >>, << <<"a", "plain">>, <<"b", "">>, <<"c", "plain">> >>},
                                                r \in {<<>>, << <<"a", "b", "uid">>, <<"c">> >>, << <<"a">>, <<"uid">> >>, << <<"0">> >>}}
             \union {<<"TriggerTemplate", << <<"a", "">>, <<"b", "">> >>, << <<"a", "b">> >>, TRUE>>}

\* The interceptors and the bindings of Triggers
Shapes == {<<"Trigger", <<b>>, <<i>>, t>> :
    b \in {"inline", "novalue", "both", "cluster", "otherkind", "tb"},
    i \in {"ref", "kind", "none", "nil", "service", "route", "v2", "url", "nowhere", "github", "cel", "celgitlab", "bitbucketref"},
    t \in {"tt", "inline", "neither", "newer", "unknown"}}

Listeners == {<<"EventListener", b, i, t, r, sa, n>> :
    b \in {<<>>, <<"novalue">>}, i \in {<<>>, <<"url">>, <<"cel">>}, t \in {"", "inline"},
    r \in {"", "t"}, sa \in {"", "own"}, n \in {{}, {0}, {-1}}}

ScenarioTable == [
    none |-> [objects |-> <<>>, deleted |-> {}, changes |-> 0, requests |-> {}, accounts |-> {"default"}],
    shapes |-> [objects |-> [Trigger |-> Shapes], deleted |-> {}, changes |-> 2,
                requests |-> {"plain"}, accounts |-> {"default"}],
    listeners |-> [objects |-> [EventListener |-> Listeners,
                                Trigger |-> {<<"Trigger", <<"inline">>, <<>>, "inline">>}],
                   deleted |-> {"Trigger"}, changes |-> 3,
                   requests |-> {"plain"}, accounts |-> {"default", ""}],
    values |-> [objects |-> [TriggerBinding |-> Bindings("TriggerBinding"), TriggerTemplate |-> Templates,
                             Trigger |-> {<<"Trigger", <<"tb">>, <<>>, "tt">>}],
                deleted |-> {}, changes |-> 3, requests |-> DOMAIN RequestTable, accounts |-> {"default"}],
    races |-> [objects |-> [TriggerBinding |-> {<<"TriggerBinding", << <<"a", "body">> >> >>,
                                                <<"TriggerBinding", << <<"b", "two">> >> >>},
                            ClusterTriggerBinding |-> {<<"ClusterTriggerBinding", << <<"a", "plain">> >> >>,
                                                       <<"ClusterTriggerBinding", << <<"c", "header">> >> >>},
                            TriggerTemplate |-> {<<"TriggerTemplate", << <<"a", "">>, <<"b", "">> >>, << <<"a", "b", "uid">> >>, FALSE>>,
                                                 <<"TriggerTemplate", << <<"b", "plain">>, <<"c", "">> >>, << <<"c">>, <<"b">> >>, FALSE>>},
                            Trigger |-> {<<"Trigger", <<"tb", "cluster">>, <<>>, "tt">>}],
               deleted |-> {"TriggerBinding", "TriggerTemplate"}, changes |-> 5,
               requests |-> {"quoted", "empty"}, accounts |-> {"default"}]]

MCScenarioOf(id) == ScenarioTable[id]
MCScenarios == DOMAIN ScenarioTable
=============================================================================
