---------------------------- MODULE MCListeners -----------------------------
(***************************************************************************)
(* The instance of Listeners and Resolution.  A behaviour is either of a   *)
(* load, with the EventListeners and the ConfigMaps that one part of the   *)
(* controller tells apart, or of a scenario of MCResolution.               *)
(***************************************************************************)
EXTENDS Listeners, MCResolution

MCFlags == MakeConfig

\* A variable with a secret that has a key, one without the key, one without a secret
Secret(name) == [name |-> name, value |-> FALSE, valueFrom |-> {{"secretKeyRef"}}, key |-> "k"]
Keyless(name) == [Secret(name) EXCEPT !.key = ""]
Bare(name) == [name |-> name, value |-> FALSE, valueFrom |-> {}, key |-> ""]

EnvOf(id) ==
    CASE id = "pair" -> <<Secret("TLS_CERT"), Secret("TLS_KEY")>>
      [] id = "cert" -> <<Secret("TLS_CERT")>>
      [] id = "certs" -> <<Secret("TLS_CERT"), Secret("TLS_CERT")>>
      [] id = "keys" -> <<Secret("TLS_KEY"), Secret("TLS_KEY")>>
      [] id = "keyless" -> <<Keyless("TLS_CERT"), Secret("TLS_KEY")>>
      [] id = "bare" -> <<Bare("TLS_KEY"), Secret("TLS_CERT")>>
      [] id = "later" -> <<Secret("TLS_CERT"), Bare("TLS_KEY"), Secret("TLS_KEY")>>
      [] OTHER -> <<>>

\* id: name, env, fields of the container, fields of the pod, port, labels, labels of the pods
MCSubmitted(id) ==
    LET env == EnvOf(id.env)
        container == [fields |-> id.container \union (IF env = <<>> THEN {} ELSE {"env"}), env |-> env]
        template == [labels |-> id.podLabels, fields |-> id.pod,
                     containers |-> IF container.fields = {} THEN <<>> ELSE <<container>>]
    IN  [name |-> id.name, labels |-> id.labels, payloadValidation |-> "unset",
         spec |-> [serviceAccountName |-> "", triggers |-> <<>>, triggerGroups |-> <<>>, namespaces |-> <<"ns">>,
                   labelSelector |-> FALSE,
                   kubernetes |-> IF id.custom THEN {}
                                  ELSE {[replicas |-> {}, serviceType |-> "NodePort", servicePort |-> id.port,
                                         serviceLoadBalancerClass |-> FALSE, template |-> template]},
                   custom |-> IF id.custom THEN {[decodes |-> TRUE, template |-> template]} ELSE {}]]

Plain(name) == [name |-> name, env |-> "", container |-> {}, pod |-> {}, port |-> {}, labels |-> {},
                podLabels |-> {}, custom |-> FALSE]

TLS == {[Plain("a") EXCEPT !.env = env, !.container = fields, !.port = port] :
            env \in {"", "pair", "cert", "certs", "keys", "keyless", "bare", "later"},
            fields \in {{}, {"livenessProbe"}}, port \in {{}, {9090}}}

Team == {<<"team", "blue">>}
Labelled == {[Plain("a") EXCEPT !.labels = Team],
             [Plain("a") EXCEPT !.labels = {<<"app.kubernetes.io/part-of", "mine">>}],
             [Plain("a") EXCEPT !.podLabels = {<<"eventlistener", "b">>}],
             [Plain("a") EXCEPT !.labels = Team, !.custom = TRUE]}

Untouched == [containers |-> 1, differs |-> {}]

Table ==
    LET base == [els |-> {}, defaults |-> {}, flags |-> {}, changes |-> 0, restarts |-> TRUE, existing |-> {Untouched}]
        user(u) == "default-run-as-user" :> u
    IN  [none |-> base,
         tls |-> [base EXCEPT !.els = TLS, !.changes = 2],
         labels |-> [base EXCEPT !.els = Labelled, !.changes = 3,
                                 !.flags = {"labels-exclusion-pattern" :> p : p \in {"^team$", "("}} \union
                                           {"enable-api-fields" :> v : v \in {"Alpha", "beta"}}],
         policy |-> [base EXCEPT !.els = {Plain("a"), [Plain("b") EXCEPT !.pod = {"serviceAccountName"}],
                                          [Plain("b") EXCEPT !.pod = {"securityContext"}]},
                                 !.changes = 4, !.restarts = FALSE,
                                 !.defaults = {user(""), user("1000") @@ ("default-run-as-group" :> ""), user("x"),
                                               ("default-run-as-non-root" :> "false") @@ ("default-fs-group" :> "0")}],
         custom |-> [base EXCEPT !.els = {[Plain("a") EXCEPT !.custom = TRUE]}, !.changes = 2,
                                 !.existing = {[containers |-> n, differs |-> d] : n \in 0..2,
                                               d \in {{x, y, z} : x \in TemplateFields \union ContainerFields,
                                                                  y \in {"volumes", "command"}, z \in OtherFields}}]]

MCLoadOf(id) == Table[id]
MCLoads == DOMAIN Table
Symmetry == Permutations(Workers)

MCInit ==
    /\ ListenersInit /\ ResolutionInit
    /\ (load = "none") # (scenario = "none")

MCNext ==
    \/ load # "none" /\ ListenersNext /\ UNCHANGED resolutionVars
    \/ scenario # "none" /\ ResolutionNext /\ UNCHANGED listenersVars

MCSpec == MCInit /\ [][MCNext]_<<listenersVars, resolutionVars>>

\* The state has the shape of the code's data, and every stored object is one of the version
\* it was applied through.
TypeOK == ListenersTypeOK /\ ResolutionTypeOK

\* What was admitted works: it fails no event in the sink, ends no controller and keeps none
\* from starting, but for the causes that the parts name (the Validate methods against
\* sink.go, resource.go, container.go, meta.go and store.go).
AdmittedWorks == AdmittedResolves /\ PanicsForTLSOnly /\ StartsWithDefaults
=============================================================================
