----------------------------- MODULE Bootstrap ------------------------------
(***************************************************************************)
(* tkn triggers bootstrap (cmd/tkn-triggers, pkg/bootstrap): it installs   *)
(* Tekton Pipelines and Triggers, applies the files of the tutorial and    *)
(* creates a webhook at GitHub.  Requests fail, pods come and go, a run is *)
(* ended by its user, and bootstrap is run again on what is there.         *)
(*                                                                         *)
(* The client of the API has the cluster that --kubeconfig names, kubectl  *)
(* always that of the user's own configuration.                            *)
(***************************************************************************)
EXTENDS Integers, Sequences, FiniteSets

CONSTANTS Budgets   \* [runs, troubles, installed]: bounds, and where Pipelines and Triggers are at first

VARIABLES
    clusters,   \* cluster -> [deployed, spaces, applied, secret]
    hooks,      \* at GitHub, for the repository: the secrets of the hooks
    run,        \* the process: [pc, target, ns, given, secret, number]
    left        \* how many runs and troubles may still come

bootstrapVars == <<clusters, hooks, run, left>>

\* In the order in which they are tried
TektonNamespaces == <<"openshift-pipelines", "tekton-pipelines">>
Spaces == {"openshift-pipelines", "tekton-pipelines", "getting-started"}

Deployments == {"pipelines-controller", "pipelines-webhook", "triggers-controller"}
Places == {TektonNamespaces[i] : i \in 1..2} \X Deployments

\* The files of the tutorial; interceptors.yaml is part of a release
RBACFiles == {"admin-role.yaml", "clusterrolebinding.yaml", "webhook-role.yaml"}
Files == RBACFiles \union {"triggers.yaml", "pipeline.yaml"}
Manifests == {"pipelines release", "triggers release", "interceptors release"}

\* The details of the webhook, in the order of the prompts
Details == <<"repo", "domain", "token">>

\* A secret: none, the one of the flag, or one that a run generated
Secret(kind, number) == [kind |-> kind, number |-> number]
EmptySecret == Secret("empty", 0)

PipelinesWaits == {"pipelines space", "pipelines-controller", "pipelines-webhook"}
TriggersWaits == {"triggers space", "triggers-controller"}
Waits == PipelinesWaits \union TriggersWaits
Questions == {"lookup", "pipelines?", "triggers?"}
APIRequests == {"namespace", "secret", "prompts", "hook"}
RunOver == {"none", "done", "error"}

\* Bootstrapper.Run: what follows a step that has succeeded
After(pc) ==
    CASE pc = "pipelines release" -> "pipelines space"
      [] pc = "pipelines space" -> "pipelines-controller"
      [] pc = "pipelines-controller" -> "pipelines-webhook"
      [] pc = "pipelines-webhook" -> "triggers?"
      [] pc = "triggers release" -> "interceptors release"
      [] pc = "interceptors release" -> "triggers space"
      [] pc = "triggers space" -> "triggers-controller"
      [] pc = "triggers-controller" -> "namespace"
      [] pc = "namespace" -> "admin-role.yaml"
      [] pc = "admin-role.yaml" -> "clusterrolebinding.yaml"
      [] pc = "clusterrolebinding.yaml" -> "webhook-role.yaml"
      [] pc = "webhook-role.yaml" -> "triggers.yaml"
      [] pc = "triggers.yaml" -> "pipeline.yaml"
      [] pc = "pipeline.yaml" -> "secret"
      [] pc = "secret" -> "prompts"

-----------------------------------------------------------------------------

NoCluster == [deployed |-> [p \in Places |-> "absent"], spaces |-> {}, applied |-> {}, secret |-> {}]

\* A cluster in which the places are ready
WithInstalled(places) ==
    [NoCluster EXCEPT !.deployed = [p \in Places |-> IF p \in places THEN "ready" ELSE "absent"],
                      !.spaces = {p[1] : p \in places}]

BootstrapInit ==
    /\ left \in Budgets
    /\ clusters = [c \in {"home", "other"} |-> WithInstalled(left.installed[c])]
    /\ hooks = {}
    /\ run = [pc |-> "none", target |-> "home", ns |-> "", given |-> {}, secret |-> EmptySecret, number |-> 0]

Home == clusters["home"]
Target == clusters[run.target]
At(pc) == run.pc = pc
Go(pc) == run' = [run EXCEPT !.pc = pc]
Trouble == left.troubles > 0 /\ left' = [left EXCEPT !.troubles = @ - 1]
Fails == Trouble /\ Go("error")

\* The command is given, with some of its flags
StartBootstrap(target, given, secret) ==
    /\ run.pc \in RunOver
    /\ left.runs > 0
    /\ left' = [left EXCEPT !.runs = @ - 1]
    /\ run' = [pc |-> "lookup", target |-> target, ns |-> "", given |-> given, secret |-> secret,
               number |-> run.number + 1]
    /\ UNCHANGED <<clusters, hooks>>

\* The user ends it
Kill ==
    /\ run.pc \notin RunOver
    /\ Fails
    /\ UNCHANGED <<clusters, hooks>>

-----------------------------------------------------------------------------
(* The installer *)

\* Mutant: nothing is chosen if nothing is found
getTektonNamespaceOnly ==
    /\ At("lookup")
    /\ LET found == SelectSeq(TektonNamespaces, LAMBDA ns : Target.deployed[<<ns, "pipelines-controller">>] # "absent")
       IN  run' = [run EXCEPT !.ns = IF found = <<>> THEN "" ELSE found[1], !.pc = "pipelines?"]
    /\ UNCHANGED <<clusters, hooks, left>>

\* A request that fails is as if nothing were there; the result is kept
getTektonNamespace ==
    /\ At("lookup")
    /\ \E missed \in SUBSET {TektonNamespaces[i] : i \in 1..2} :
         LET found == SelectSeq(TektonNamespaces,
                                LAMBDA ns : ns \notin missed /\ Target.deployed[<<ns, "pipelines-controller">>] # "absent")
         IN  /\ Cardinality(missed) <= left.troubles
             /\ left' = [left EXCEPT !.troubles = @ - Cardinality(missed)]
             /\ run' = [run EXCEPT !.ns = IF found = <<>> THEN "tekton-pipelines" ELSE found[1], !.pc = "pipelines?"]
    /\ UNCHANGED <<clusters, hooks>>

IsReady(name) == Target.deployed[<<run.ns, name>>] = "ready"

\* isPipelinesInstalled and isTriggersInstalled: ready, not merely there; an error is a no
Ask(question, name, yes, no) ==
    /\ At(question)
    /\ \/ Go(IF IsReady(name) THEN yes ELSE no) /\ left' = left
       \/ Trouble /\ Go(no)
    /\ UNCHANGED <<clusters, hooks>>

InstallTektonPipelines == Ask("pipelines?", "pipelines-controller", "triggers?", "pipelines release")
InstallTriggers == Ask("triggers?", "triggers-controller", "namespace", "triggers release")

\* What a manifest deploys, in tekton-pipelines whatever the namespace that was found
Deploys(manifest) ==
    {"tekton-pipelines"} \X CASE manifest = "pipelines release" -> {"pipelines-controller", "pipelines-webhook"}
                              [] manifest = "triggers release" -> {"triggers-controller"}
                              [] OTHER -> {}

\* kubectl apply with the user's own configuration
Applied(manifest) ==
    [clusters EXCEPT !["home"].spaces = @ \union {"tekton-pipelines"},
                     !["home"].deployed = [p \in Places |-> IF p \in Deploys(manifest) /\ @[p] = "absent"
                                                            THEN "starting" ELSE @[p]]]

\* kubectl may have applied a manifest although it fails
downloadAndApplyManifest(manifest) ==
    /\ At(manifest)
    /\ \/ Go(After(manifest)) /\ left' = left /\ clusters' = Applied(manifest)
       \/ Fails /\ clusters' \in {clusters, Applied(manifest)}
    /\ hooks' = hooks

\* waitForNamespace, waitForDeployment: is what is waited for there, and can it still come?
Condition(wait) == IF wait \in Deployments THEN IsReady(wait) ELSE run.ns \in Target.spaces
MayCome(wait) == IF wait \in Deployments THEN Target.deployed[<<run.ns, wait>>] # "absent" ELSE Condition(wait)

\* Mutant: there is no deadline
TimedOutNever(wait) == FALSE

\* The deadline passes: what is starting is ready before, unless there is trouble
TimedOut(wait) ==
    /\ Go("error")
    /\ ~Condition(wait)
    /\ \/ ~MayCome(wait) /\ left' = left
       \/ Trouble

\* Not found and not ready are asked again every five seconds, other errors end the wait
pollUntilReady(wait) ==
    /\ At(wait)
    /\ \/ Condition(wait) /\ Go(After(wait)) /\ left' = left
       \/ TimedOut(wait)
       \/ Fails
    /\ UNCHANGED <<clusters, hooks>>

-----------------------------------------------------------------------------
(* The resources of the tutorial *)

CreateNamespace ==
    /\ At("namespace")
    /\ \/ /\ Go(After("namespace")) /\ left' = left
          /\ clusters' = [clusters EXCEPT ![run.target].spaces = @ \union {"getting-started"}]
       \/ Fails /\ clusters' = clusters
    /\ hooks' = hooks

\* kubectl, again with the user's own configuration, needs the namespace
applyFileFromGitHub(file) ==
    /\ At(file)
    /\ LET applied == [clusters EXCEPT !["home"].applied = @ \union {file}]
       IN  IF "getting-started" \notin Home.spaces THEN Go("error") /\ UNCHANGED <<left, clusters>>
           ELSE \/ Go(After(file)) /\ left' = left /\ clusters' = applied
                \/ Fails /\ clusters' \in {clusters, applied}
    /\ hooks' = hooks

\* A secret that exists is left as it is.  Run is given no secret: it creates an empty one.
CreateWebhookSecret ==
    /\ At("secret")
    /\ \/ /\ Go(After("secret")) /\ left' = left
          /\ clusters' = [clusters EXCEPT ![run.target].secret = IF @ = {} THEN {EmptySecret} ELSE @]
       \/ Fails /\ clusters' = clusters
    /\ hooks' = hooks

-----------------------------------------------------------------------------
(* The webhook *)

\* Prompts for what no flag gives, until an answer is blank
Have(typed) ==
    {Details[i] : i \in {i \in 1..3 : \A j \in 1..i : Details[j] \in run.given \union typed}} \union run.given

runInteractiveSetup(typed) ==
    /\ At("prompts")
    /\ run' = [run EXCEPT !.given = Have(typed),
                          !.pc = IF Have(typed) = {Details[i] : i \in 1..3} THEN "hook" ELSE "done"]
    /\ UNCHANGED <<clusters, hooks, left>>

\* The hook is created with the secret of the flag or a generated one; GitHub has one hook of
\* a URL; its answer may be lost
SetupWebhook ==
    LET secret == IF run.secret = EmptySecret THEN Secret("generated", run.number) ELSE run.secret
    IN  /\ At("hook")
        /\ \/ hooks # {} /\ Go("error") /\ UNCHANGED <<hooks, left>>
           \/ hooks = {} /\ Go("done") /\ hooks' = {secret} /\ left' = left
           \/ Fails /\ hooks' \in {hooks, IF hooks = {} THEN {secret} ELSE hooks}
        /\ clusters' = clusters

-----------------------------------------------------------------------------
(* The clusters *)

Rollout(c, p) ==
    /\ clusters[c].deployed[p] = "starting"
    /\ clusters' = [clusters EXCEPT ![c].deployed[p] = "ready"]
    /\ UNCHANGED <<hooks, run, left>>

Disrupt(c, p) ==
    /\ clusters[c].deployed[p] = "ready"
    /\ Trouble
    /\ clusters' = [clusters EXCEPT ![c].deployed[p] = "starting"]
    /\ UNCHANGED <<hooks, run>>

-----------------------------------------------------------------------------

BootstrapStep ==
    \/ getTektonNamespace
    \/ InstallTektonPipelines
    \/ InstallTriggers
    \/ \E manifest \in Manifests : downloadAndApplyManifest(manifest)
    \/ \E wait \in Waits : pollUntilReady(wait)
    \/ CreateNamespace
    \/ \E file \in Files : applyFileFromGitHub(file)
    \/ CreateWebhookSecret
    \/ \E typed \in SUBSET {Details[i] : i \in 1..3} : runInteractiveSetup(typed)
    \/ SetupWebhook

BootstrapNext ==
    \/ \E target \in {"home", "other"}, given \in {{}, {"repo", "token"}, {"repo", "domain", "token"}},
          secret \in {EmptySecret, Secret("flag", 0)} : StartBootstrap(target, given, secret)
    \/ Kill
    \/ BootstrapStep
    \/ \E c \in {"home", "other"}, p \in Places : Rollout(c, p) \/ Disrupt(c, p)

\* Steps of the process and rollouts happen; what fails does so at a cost
BootstrapFairness ==
    /\ WF_bootstrapVars(BootstrapStep)
    /\ WF_bootstrapVars(\E c \in {"home", "other"}, p \in Places : Rollout(c, p))

-----------------------------------------------------------------------------
(* Properties *)

\* The state has the shape of the code's data; a namespace is chosen before it is used.
BootstrapTypeOK ==
    /\ run.pc \in Waits \union Questions \union APIRequests \union Files \union Manifests \union RunOver
    /\ run.pc \in Waits \union (Questions \ {"lookup"}) => run.ns \in {"openshift-pipelines", "tekton-pipelines"}
    /\ \A c \in {"home", "other"} :
         /\ clusters[c].deployed \in [Places -> {"absent", "starting", "ready"}]
         /\ clusters[c].spaces \subseteq Spaces
         /\ clusters[c].applied \subseteq Files
         /\ Cardinality(clusters[c].secret) <= 1
    /\ Cardinality(hooks) <= 1

\* A run that ends without an error has left everything in the user's cluster, whatever
\* earlier runs had done of it before they failed or were ended (bootstrap.go Run).
DoneMeansAll ==
    run.pc = "done" /\ run.target = "home" =>
        /\ Files \subseteq Home.applied
        /\ Home.secret # {}
        /\ \A name \in {"pipelines-controller", "triggers-controller"} : Home.deployed[<<run.ns, name>>] # "absent"
        /\ {Details[i] : i \in 1..3} \subseteq run.given => hooks # {}

\* Nobody finds the EventListener before its ServiceAccount and roles, and Triggers' own
\* controller, have been there (the order of bootstrap.go Run), also after a run that failed.
ListenerComesLast ==
    "triggers.yaml" \in Home.applied =>
        /\ RBACFiles \subseteq Home.applied
        /\ "getting-started" \in Home.spaces
        /\ \E c \in {"home", "other"} :
             \E i \in 1..2 : clusters[c].deployed[<<TektonNamespaces[i], "triggers-controller">>] # "absent"

\* The process comes to an end: what never becomes ready ends it too (pollUntilReady).
BootstrapEnds == []<>(run.pc \in RunOver)

\* Running it again is the remedy for every failure: a run that meets no further trouble does
\* not fail before the resources are complete, whatever there is already, if Pipelines are
\* not OpenShift's (rbac.go:53 and 118, kubectl apply).
Calm == /\ run.pc \notin RunOver /\ run.target = "home" /\ left.troubles = 0
        /\ Home.deployed[<<"openshift-pipelines", "pipelines-controller">>] = "absent"

AnotherRunCompletes ==
    [][Calm /\ run'.pc = "error" => Files \subseteq Home.applied /\ Home.secret # {}]_bootstrapVars

\* bootstrap ends and does all of its work: in order, wholly if it ends without an error, and
\* if not, another run completes it (bootstrap.go Run).
BootstrapCompletes == []DoneMeansAll /\ []ListenerComesLast /\ AnotherRunCompletes /\ BootstrapEnds
=============================================================================
