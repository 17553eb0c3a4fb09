--------------------------- MODULE MCInterceptors ---------------------------
(***************************************************************************)
(* The server of the core interceptors under a load, or one of the command *)
(* line tools: bootstrap, or a tool that tries out Triggers.               *)
(***************************************************************************)
EXTENDS CoreInterceptors, Bootstrap, TriggerTools

CONSTANTS r1, r2, v1, v2, alice, bob

Hook == [secretName |-> "hook", secretKey |-> "token"]
SecretRefs == {<<ns, "hook", "token">> : ns \in {"ns1", "ns2"}}

NoParams ==
    [eventTypes |-> {}, secretRef |-> {}, changed |-> [enabled |-> FALSE, token |-> {}],
     owners |-> [enabled |-> FALSE, token |-> {}, checkType |-> "none"],
     requestedFields |-> {}, filter |-> {}, overlays |-> <<>>]

\* A complete payload of bob's
Payload ==
    [has |-> {"json", "repository", "full_name", "slash", "sender", "number", "issue", "issue number",
              "comment", "comment body", "commit files"},
     sender |-> bob, okToTest |-> TRUE, commits |-> <<>>, fields |-> <<>>]

Symbol(s) == [text |-> <<s>>]
Text(s) == [text |-> [i \in DOMAIN s |-> [char |-> s[i]]]]

Vars ==
    [body       |-> [map |-> [n |-> [int |-> 1], l |-> [list |-> <<>>]]],
     header     |-> [map |-> (<<"X-A", "canonical">> :> [list |-> <<Text(<<"a">>), Text(<<"b">>)>>])],
     extensions |-> [map |-> <<>>],
     requestURL |-> Symbol([url |-> [scheme |-> <<[char |-> "h"]>>, host |-> <<>>, path |-> <<>>, user |-> {},
                                    query |-> [q |-> <<<<[char |-> "a"]>>, <<[char |-> "b"]>>>>]]])]

Base ==
    [path |-> "github", readable |-> TRUE, decodes |-> TRUE, form |-> FALSE, paramsParse |-> TRUE,
     event |-> "pull_request", canonical |-> TRUE, signature |-> NoValue, enterprise |-> "none",
     context |-> {<<"namespaces", "ns1", "triggers", "t">>}, params |-> NoParams, payload |-> Payload, vars |-> Vars]

Lit(v) == [lit |-> v]
Fn(f, args) == [fn |-> f, args |-> args]

\* What the filter or the overlay of a CEL interceptor may be
Expressions ==
    <<Lit([bool |-> TRUE]), Lit([int |-> 1]),
      Fn("match", <<[var |-> "header"], Lit(Symbol([header |-> <<"X-A", "other">>])), Lit(Text(<<"a">>))>>),
      Fn("canonical", <<[var |-> "header"], Lit(Symbol([header |-> <<"X-A", "other">>]))>>),
      Fn("canonical", <<[var |-> "body"], Lit(Symbol([header |-> <<"X-A", "other">>]))>>),
      Fn("truncate", <<Lit(Text(<<"a", "b">>)), Lit([int |-> 1])>>),
      Fn("truncate", <<Lit(Text(<<"a", "b">>)), Lit([int |-> 3])>>),
      Fn("truncate", <<Lit(Text(<<"a", "b">>)), Lit([int |-> -1])>>),
      Fn("truncate", <<[var |-> "body"], Lit([int |-> 1])>>),
      Fn("marshalJSON", <<[var |-> "body"]>>),
      Fn("parseJSON", <<Lit(Symbol([json |-> Vars.body]))>>),
      Fn("parseJSON", <<Lit(Symbol([yaml |-> Vars.body]))>>),
      Fn("parseYAML", <<Lit(Symbol([yaml |-> Vars.body]))>>),
      Fn("parseURL", <<[var |-> "requestURL"]>>),
      Fn("first", <<Lit([list |-> <<Text(<<"a">>), Text(<<"b">>)>>])>>),
      Fn("last", <<Lit([list |-> <<Text(<<"a">>), Text(<<"b">>)>>])>>),
      Fn("last", <<Lit([list |-> <<>>])>>),
      Fn("translate", <<Lit(Text(<<"a", "b">>)), Lit(Text(<<"a">>)), Lit(Text(<<"x">>))>>),
      Fn("translate", <<Lit(Text(<<"a", "b">>)), Lit(Text(<<"[">>)), Lit(Text(<<"x">>))>>)>>

Overlay(k, e) == [key |-> k, expression |-> e]
Cel == [Base EXCEPT !.path = "cel"]

CelCalls ==
    [x \in {"filter"} \X DOMAIN Expressions |-> [Cel EXCEPT !.params.filter = {Expressions[x[2]]}]]
    @@ [x \in {"overlay"} \X {"", "j", "k"} \X DOMAIN Expressions |->
          [Cel EXCEPT !.params.overlays = <<Overlay(x[2], Lit([int |-> 1])), Overlay("k", Expressions[x[3]])>>]]
    @@ [x \in {"context"} \X {1} |-> [Cel EXCEPT !.context = {}]]
    @@ [x \in {"body"} \X {{}, {"empty"}} |->
          [Cel EXCEPT !.payload.has = x[2], !.params.overlays = <<Overlay("k", [var |-> "body"])>>]]

Compares ==
    [x \in {"compare"} \X {v1} |->
        [Cel EXCEPT !.params.filter = {[compare |-> x[2], secretRef |-> Hook]},
                    !.params.overlays = <<Overlay("k", Lit([int |-> 1]))>>]]

Webhooks == {"github", "gitlab", "bitbucket"}

\* Requests that the server or an interceptor refuses at once, or lets pass
Plain ==
    [x \in {"served"} \X BOOLEAN \X BOOLEAN |-> [Base EXCEPT !.readable = x[2], !.decodes = x[3]]]
    @@ [x \in {"params"} \X (Webhooks \cup {"slack", "cel", "none"}) \X BOOLEAN \X BOOLEAN |->
          [Base EXCEPT !.path = x[2], !.form = x[3], !.paramsParse = x[4]]]
    @@ [x \in {"event"} \X Webhooks \X {"push", "pull_request"} \X BOOLEAN |->
          [Base EXCEPT !.path = x[2], !.params.eventTypes = {{x[3]}}, !.canonical = x[4]]]
    @@ [x \in {"no key"} \X Webhooks |->
          [Base EXCEPT !.path = x[2], !.params.secretRef = {[Hook EXCEPT !.secretKey = ""]}]]
    @@ [x \in {"no context"} \X Webhooks \X {v1, NoValue} |->
          [Base EXCEPT !.path = x[2], !.params.secretRef = {Hook}, !.signature = x[3], !.context = {}]]
    @@ [x \in {"slack"} \X {{}, {{"a"}}, {{"a", "b"}}} |->
          [Base EXCEPT !.path = "slack", !.form = TRUE, !.signature = v1, !.params.requestedFields = x[2],
                       !.payload.fields = [a |-> <<"x">>]]]

\* Signed with v1, by the trigger of a namespace or by one that names none
Signed ==
    [x \in {"signed"} \X ({<<"namespaces", ns, "triggers", "t">> : ns \in {"ns1", "ns2"}} \cup {<<"t">>})
              \X {"gitlab", "bitbucket"} |->
        [Base EXCEPT !.path = x[3], !.signature = v1, !.params.secretRef = {Hook}, !.context = {x[2]}]]

OwnersCalls ==
    [x \in {"owners"} \X {"pull_request", "issue_comment", "push"} \X {"orgMembers", "repoMembers", "all", "none"} \X {{Hook}, {}} |->
        [Base EXCEPT !.event = x[2], !.params.owners = [enabled |-> TRUE, token |-> x[4], checkType |-> x[3]]]]
    @@ [x \in {"comment"} \X BOOLEAN |->
        [Base EXCEPT !.event = "issue_comment", !.payload.okToTest = x[2],
                     !.params.owners = [enabled |-> TRUE, token |-> {}, checkType |-> "none"]]]
    @@ [x \in {"section"} \X {"slash", "number"} |->
        [Base EXCEPT !.payload.has = @ \ {x[2]}, !.params.owners = [enabled |-> TRUE, token |-> {}, checkType |-> "none"]]]
    @@ [x \in {"token"} \X {"none"} |->
        [Base EXCEPT !.params.owners = [enabled |-> TRUE, token |-> {[Hook EXCEPT !.secretKey = ""]}, checkType |-> x[2]]]]

ChangedCalls ==
    [x \in {"changed"} \X {"pull_request", "push", "issue_comment"} |->
        [Base EXCEPT !.event = x[2], !.params.changed = [enabled |-> TRUE, token |-> {}],
                     !.payload.commits = <<[added |-> <<"f">>, modified |-> <<>>, removed |-> <<"g">>]>>]]
    @@ [x \in {"changed and signed"} \X {v1} |->
        [Base EXCEPT !.signature = v1, !.params.secretRef = {Hook}, !.params.changed = [enabled |-> TRUE, token |-> {Hook}]]]
    @@ [x \in {"changed with"} \X {"", "token"} \X {"none", "not a host"} \X {{}, {"repository"}, {"slash"}} |->
        [Base EXCEPT !.enterprise = x[3], !.payload.has = @ \ x[4],
                     !.params.changed = [enabled |-> TRUE, token |-> IF x[2] = "" THEN {[Hook EXCEPT !.secretKey = ""]} ELSE {}]]]
    @@ [x \in {"changed without"} \X {"context"} |->
        [Base EXCEPT !.context = {}, !.params.changed = [enabled |-> TRUE, token |-> {}]]]

MCCalls == CelCalls @@ Compares @@ Plain @@ Signed @@ OwnersCalls @@ ChangedCalls

SignedIn(ns, by) == <<"signed", <<"namespaces", ns, "triggers", "t">>, by>>

\* GitHub before and after bob joins the organisation and pushes to the pull request
Before ==
    [org |-> {alice}, repo |-> {alice}, owners |-> {}, pages |-> <<<<"f1">>, <<"f2">>>>]
Joined ==
    [org |-> {alice, bob}, repo |-> {}, owners |-> {bob}, pages |-> <<<<"f1">>, <<"f3">>, <<"f2">>>>]
States == {Before, Joined}

AllV1 == [s \in SecretRefs |-> v1]

\* Each call by itself, secrets that change under two connections, GitHub changing, and no call
MCLoads ==
    <<[calls |-> (r1 :> DOMAIN CelCalls \cup DOMAIN Plain) @@ (r2 :> {}), secrets |-> AllV1, github |-> Before,
       requests |-> 1, time |-> 0, changes |-> 0, errors |-> 0],
      [calls |-> (r1 :> {SignedIn("ns1", "gitlab"), <<"signed", <<"t">>, "bitbucket">>} \cup DOMAIN Compares)
                 @@ (r2 :> {SignedIn("ns2", "bitbucket")}), secrets |-> AllV1, github |-> Before,
       requests |-> 3, time |-> 2, changes |-> 1, errors |-> 0],
      [calls |-> (r1 :> DOMAIN OwnersCalls \cup DOMAIN ChangedCalls) @@ (r2 :> {}), secrets |-> AllV1, github |-> Before,
       requests |-> 1, time |-> 2, changes |-> 1, errors |-> 1],
      [calls |-> (r1 :> {}) @@ (r2 :> {}), secrets |-> AllV1, github |-> Before,
       requests |-> 0, time |-> 0, changes |-> 0, errors |-> 0]>>

MCCallOf(x) == MCCalls[x]
MCLoadOf(l) == MCLoads[l]

-----------------------------------------------------------------------------
(* Clusters for bootstrap, files for the tools that try out Triggers *)

Tekton(names) == {"tekton-pipelines"} \X names
OpenShift(names) == {"openshift-pipelines"} \X names
Pipelines == {"pipelines-controller", "pipelines-webhook"}

Budget(runs, troubles, home, other) ==
    [runs |-> runs, troubles |-> troubles, installed |-> [home |-> home, other |-> other]]

NoBootstrap == Budget(0, 0, {}, {})

MCBudgets ==
    {NoBootstrap, Budget(3, 2, {}, {}), Budget(2, 2, Tekton(Pipelines), {}), Budget(2, 2, OpenShift(Pipelines), {}),
     Budget(2, 1, OpenShift(Deployments), Tekton(Deployments))}

-----------------------------------------------------------------------------

B == T("b")
Bodies == {<<>>, <<B>>, <<B, B, LF>>, <<B, LF, B>>, <<B, LF, LF, B>>, <<B, CR, LF, CR, LF, B>>, <<LF, LF, B>>}

\* A request: the header, perhaps a length that is off by some, and the body
TextOf(eol, spelling, off, body) ==
    LET length == IF spelling = "" THEN <<>> ELSE <<[is |-> spelling, n |-> Len(body) + off]>> \o eol
    IN  <<T("h")>> \o eol \o length \o eol \o body

Documents ==
    [plain |-> [decodes |-> TRUE, name |-> "t", namespace |-> "", errs |-> FALSE, resources |->
         <<[valid |-> TRUE, labels |-> {<<"triggers.tekton.dev/trigger", "mine">>, <<"a", "b">>}, namespace |-> "",
            apiVersion |-> "tekton.dev/v1", kind |-> "PipelineRun"],
           [valid |-> TRUE, labels |-> {}, namespace |-> "own", apiVersion |-> "v1", kind |-> "ConfigMap"]>>],
     placed |-> [decodes |-> TRUE, name |-> "u", namespace |-> "ns", errs |-> FALSE, resources |->
         <<[valid |-> TRUE, labels |-> {}, namespace |-> "", apiVersion |-> "v1", kind |-> "ConfigMap"],
           [valid |-> TRUE, labels |-> {}, namespace |-> "", apiVersion |-> "v1", kind |-> "Unknown"]>>],
     erring |-> [decodes |-> TRUE, name |-> "v", namespace |-> "", errs |-> TRUE, resources |-> <<>>],
     broken |-> [decodes |-> FALSE, name |-> "", namespace |-> "", errs |-> FALSE, resources |-> <<>>]]

MCDocumentOf(id) == Documents[id]

MCAPI == [v \in {"v1", "tekton.dev/v1"} |->
            IF v = "v1" THEN <<[kind |-> "ConfigMap", name |-> "configmaps", group |-> "", version |-> "v1"]>>
            ELSE <<[kind |-> "PipelineRun", name |-> "pipelineruns", group |-> "", version |-> ""]>>]

\* id: tool, end of lines, spelling, how much the length is off, body, documents, action
MCJobOf(id) ==
    [tool |-> id[1], text |-> TextOf(id[2], id[3], id[4], id[5]), body |-> id[5], documents |-> id[6],
     action |-> id[7], api |-> MCAPI]

NoJob == <<"eval", <<LF>>, "", 0, <<>>, <<>>, "">>

MCJobs ==
    {<<"eval", eol, spelling, off, body, <<>>, "">> :
        eol \in {<<LF>>, <<CR, LF>>}, spelling \in {"", "length", "Length"}, off \in {-1, 0, 1}, body \in Bodies}
    \union
    {<<"triggerrun", <<LF>>, "Length", off, <<B, B>>, documents, action>> :
        off \in {-1, 1}, documents \in UNION {[1..n -> DOMAIN Documents] : n \in 0..3}, action \in {"show", "create"}}

-----------------------------------------------------------------------------

Unloaded == load = Len(MCLoads)

MCInit ==
    /\ CoreInit
    /\ BootstrapInit /\ (Unloaded \/ left = NoBootstrap)
    /\ ToolInit /\ ((Unloaded /\ left = NoBootstrap) \/ job = NoJob)

MCNext ==
    \/ ~Unloaded /\ CoreNext /\ UNCHANGED <<bootstrapVars, toolVars>>
    \/ Unloaded /\ BootstrapNext /\ UNCHANGED <<coreVars, toolVars>>
    \/ Unloaded /\ left = NoBootstrap /\ ToolNext /\ UNCHANGED <<coreVars, bootstrapVars>>

MCSpec ==
    /\ MCInit /\ [][MCNext]_<<coreVars, bootstrapVars, toolVars>>
    /\ CoreFairness /\ BootstrapFairness

\* The state has the shape of the code's data.
TypeOK == CoreTypeOK /\ BootstrapTypeOK
=============================================================================
