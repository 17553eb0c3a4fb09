---------------------------- MODULE SinkProcess -----------------------------
(***************************************************************************)
(* The process of a sink (cmd/eventlistenersink, pkg/adapter), from the    *)
(* arguments that the controller writes into the Deployment to the events  *)
(* that it sends.  Nothing in it looks at the context once it serves: told *)
(* to stop, it goes on with informers that have stopped until it is        *)
(* killed.  What happens between a request and its resources is in Sink,   *)
(* the polling for certificates in InterceptorCerts.                       *)
(***************************************************************************)
EXTENDS Settings

CONSTANTS
    Loads,      \* ids of what may happen: EventListeners, flags, requests, changes
    LoadOf(_),
    Retries     \* that SendCloudEvents asks for

VARIABLES
    sload, sleft,
    flags,      \* the controller's command line
    el,         \* the EventListener, with its generation
    deployment, \* what the Deployment was made from, and the arguments
    proc,       \* what the pod was made from, with the state of its process
    seen,       \* the EventListener in the sink's lister: a set of at most one
    reqs,       \* request -> where it is
    ces,        \* CloudEvents whose goroutines run: request, type, attempts
    made        \* with whose credentials resources were created: request, account

sinkVars == <<sload, sleft, flags, el, deployment, proc, seen, reqs, ces, made>>

Requests == LoadOf(sload).requests

\* What Deployments and pods are made from
Source == [gen |-> el.gen, flags |-> flags]

NewProc(d) == [pc |-> "start", from |-> d.from, args |-> d.args, a |-> {}, scope |-> {}, synced |-> FALSE,
               stopped |-> FALSE, why |-> ""]

NoRequest == [pc |-> "none", gen |-> 0, from |-> 0, needs |-> {}, scope |-> {}, synced |-> FALSE, stopped |-> FALSE]

MakeArgs == [from |-> Source, args |-> ContainerArgs(el.obj, ElConfig(flags))]

SinkInit ==
    /\ sload \in Loads
    /\ sleft = LoadOf(sload).changes
    /\ flags \in LoadOf(sload).flags
    /\ \E o \in LoadOf(sload).els : el = [gen |-> 1, obj |-> o]
    /\ deployment = MakeArgs
    /\ proc = NewProc(deployment)
    /\ seen = {}
    /\ reqs = [r \in Requests |-> NoRequest]
    /\ ces = {} /\ made = {}

SinkChange == sleft > 0 /\ sleft' = sleft - 1

-----------------------------------------------------------------------------
(* The controller and the kubelet *)

\* The EventListener is changed, or the controller started with other flags
Edit ==
    /\ SinkChange
    /\ \/ \E o \in LoadOf(sload).els \ {el.obj} : el' = [gen |-> el.gen + 1, obj |-> o] /\ flags' = flags
       \/ \E f \in LoadOf(sload).flags \ {flags} : flags' = f /\ el' = el
    /\ UNCHANGED <<sload, deployment, proc, seen, reqs, ces, made>>

\* Mutant: a Deployment is brought up to date only when its EventListener has changed
UpdateDeploymentOnEdits ==
    /\ deployment.from.gen # el.gen
    /\ deployment' = MakeArgs
    /\ UNCHANGED <<sload, sleft, flags, el, proc, seen, reqs, ces, made>>

UpdateDeployment ==
    /\ deployment.from # Source
    /\ deployment' = MakeArgs
    /\ UNCHANGED <<sload, sleft, flags, el, proc, seen, reqs, ces, made>>

\* The signal to stop: the context ends, and with it the informers
Terminate ==
    /\ proc.pc # "ended" /\ ~proc.stopped
    /\ (deployment.args # proc.args /\ sleft' = sleft) \/ SinkChange
    /\ proc' = [proc EXCEPT !.stopped = TRUE]
    /\ UNCHANGED <<sload, flags, el, deployment, seen, reqs, ces, made>>

\* The process is killed, or has ended, and another takes its place
Replace ==
    /\ proc.stopped \/ proc.pc = "ended"
    /\ proc' = NewProc(deployment)
    /\ seen' = {} /\ ces' = {}
    /\ reqs' = [r \in Requests |-> IF reqs[r].pc = "none" THEN reqs[r] ELSE [reqs[r] EXCEPT !.pc = "ended"]]
    /\ UNCHANGED <<sload, sleft, flags, el, deployment, made>>

-----------------------------------------------------------------------------
(* main *)

Exits(why) == proc' = [proc EXCEPT !.pc = "ended", !.why = why]

\* The flags are parsed, the arguments taken from them, the recorder made
StartMain ==
    /\ proc.pc = "start"
    /\ LET parsed == FlagParse(proc.args)
           got == UNION {GetArgs(f) : f \in parsed}
       IN  IF got = {} THEN Exits("arguments")
           ELSE proc' = [proc EXCEPT !.pc = "informers", !.a = got,
                            !.scope = IF (CHOOSE a \in got : TRUE).IsMultiNS THEN {"*"}
                                      ELSE {(CHOOSE a \in got : TRUE).ElNamespace}]
    /\ UNCHANGED <<sload, sleft, flags, el, deployment, seen, reqs, ces, made>>

A == CHOOSE a \in proc.a : TRUE

\* StartInformers waits for the caches, and fails if the context ends
StartInformers ==
    /\ proc.pc = "informers"
    /\ IF proc.stopped THEN Exits("informers") /\ seen' = seen
       ELSE proc' = [proc EXCEPT !.pc = "client", !.synced = TRUE] /\ seen' = {el}
    /\ UNCHANGED <<sload, sleft, flags, el, deployment, reqs, ces, made>>

\* getHTTPClient: the certificates are there, or time is up; then Start listens
Start ==
    /\ proc.pc = "client"
    /\ \/ proc' = [proc EXCEPT !.pc = "serving"] /\ sleft' = sleft
       \/ SinkChange /\ Exits("certificates")
    /\ UNCHANGED <<sload, flags, el, deployment, seen, reqs, ces, made>>

\* The informer of EventListeners, until the context ends
See ==
    /\ proc.synced /\ ~proc.stopped /\ proc.pc # "ended"
    /\ seen # {el}
    /\ seen' = {el}
    /\ UNCHANGED <<sload, sleft, flags, el, deployment, proc, reqs, ces, made>>

-----------------------------------------------------------------------------
(* Requests and what they send *)

\* Mutant: one attempt more than asked for
SendCloudEventsOnceMore(c, answer) ==
    /\ c \in ces
    /\ ces' = (ces \ {c}) \union (IF answer = "lost" /\ c.tries <= Retries THEN {[c EXCEPT !.tries = @ + 1]} ELSE {})
    /\ UNCHANGED <<sload, sleft, flags, el, deployment, proc, seen, reqs, made>>

\* An attempt: it is made again if nothing comes back, or one of the codes that mean so
SendCloudEvents(c, answer) ==
    /\ c \in ces
    /\ ces' = (ces \ {c}) \union (IF answer = "lost" /\ c.tries < Retries THEN {[c EXCEPT !.tries = @ + 1]} ELSE {})
    /\ UNCHANGED <<sload, sleft, flags, el, deployment, proc, seen, reqs, made>>

\* sendCloudEvents: nothing without a target
Sends(r, types) ==
    ces' = IF A.CloudEventURI = "" THEN ces ELSE ces \union {[r |-> r, type |-> t, tries |-> 0] : t \in types}

HandleEvent(r) ==
    /\ proc.pc = "serving"
    /\ reqs[r].pc = "none"
    /\ reqs' = [reqs EXCEPT ![r].pc = "open"]
    /\ Sends(r, {"started"})
    /\ UNCHANGED <<sload, sleft, flags, el, deployment, proc, seen, made>>

\* The namespaces of which the selectors need Triggers
Needs(o) ==
    {o.namespace} \union {o.spec.namespaces[n] : n \in DOMAIN o.spec.namespaces}
    \union UNION {{o.spec.triggerGroups[g].namespaces[n] : n \in DOMAIN o.spec.triggerGroups[g].namespaces} :
                    g \in DOMAIN o.spec.triggerGroups}

\* The EventListener comes from the lister
SelectFor(r) ==
    /\ reqs[r].pc = "open"
    /\ IF seen = {} THEN reqs' = [reqs EXCEPT ![r].pc = "ended"] /\ Sends(r, {"failed"})
       ELSE \E e \in seen :
              /\ reqs' = [reqs EXCEPT ![r] = [pc |-> "trigger", gen |-> e.gen, from |-> proc.from.gen,
                                              needs |-> Needs(e.obj), scope |-> proc.scope,
                                              synced |-> proc.synced, stopped |-> proc.stopped]]
              /\ Sends(r, {"done"})
    /\ UNCHANGED <<sload, sleft, flags, el, deployment, proc, seen, made>>

\* The clients that OverrideAuthentication returns when one of its steps fails, and
\* whether it returns an error
OverrideAuthentication(sa, fails) ==
    [discovery |-> IF fails = "" THEN sa ELSE "sink",
     dynamic |-> CASE fails = "config" -> "sink" [] fails = "dynamic" -> "" [] OTHER -> sa,
     err |-> fails # ""]

\* CreateResources, with the account of the Trigger if it has one
CreateResources(r, fails) ==
    /\ reqs[r].pc = "trigger"
    /\ reqs' = [reqs EXCEPT ![r].pc = "ended"]
    /\ LET sa == LoadOf(sload).account[r]
           clients == IF sa = "" THEN [discovery |-> "sink", dynamic |-> "sink", err |-> FALSE]
                      ELSE OverrideAuthentication(sa, fails)
       IN  IF clients.err THEN made' = made /\ ces' = ces
           ELSE made' = made \union {<<r, clients.dynamic>>} /\ Sends(r, {"successful"})
    /\ UNCHANGED <<sload, sleft, flags, el, deployment, proc, seen>>

Answers == {"given", "lost"}

SinkMain == StartMain \/ StartInformers \/ Start

SinkNext ==
    \/ Edit \/ UpdateDeployment \/ Terminate \/ Replace \/ SinkMain \/ See
    \/ \E c \in ces, answer \in Answers : SendCloudEvents(c, answer)
    \/ \E r \in Requests : \/ HandleEvent(r) \/ SelectFor(r)
                           \/ \E fails \in {"", "config", "dynamic", "kube"} : CreateResources(r, fails)

\* The controller, the kubelet and the process go on (main besides, where it is run); an
\* attempt to send ends
SinkFairness ==
    /\ WF_sinkVars(UpdateDeployment) /\ WF_sinkVars(Terminate /\ deployment.args # proc.args) /\ WF_sinkVars(Replace)
    /\ WF_sinkVars(See)
    /\ WF_sinkVars(\E c \in ces, answer \in Answers : SendCloudEvents(c, answer))

-----------------------------------------------------------------------------
(* Properties *)

\* The state has the shape of the code's data; nothing is served before main got there.
SinkTypeOK ==
    /\ proc.pc \in {"start", "informers", "client", "serving", "ended"}
    /\ proc.pc \in {"client", "serving"} => proc.a # {}
    /\ \A c \in ces : c.r \in Requests /\ c.tries \in 0..Retries
    /\ made \subseteq Requests \X STRING

\* Whatever EventListener and flags the controller made the arguments from, the sink knows
\* all of them and finds those that it cannot do without (container.go:91-107,
\* deployment.go:262, initialization.go:41-75 and 125-136).
ArgumentsUnderstood == proc.why # "arguments"

\* A sink serves, and calls interceptors, with the timeouts that the controller that made
\* its Deployment was started with; and with TLS just when the EventListener says so
\* (main.go:71-90, container.go:95-103, initialization.go:138-155, adapter.go:131-144 and
\* 253-276).
ServesAsConfigured ==
    proc.pc = "serving" =>
        LET p == Promised(proc.from.flags)
            s == HTTPServer(A)
        IN  /\ HTTPClient(A) = p.client
            /\ [f \in DOMAIN p.server |-> s[f]] = p.server
            /\ (proc.from.gen = el.gen /\ deployment.from = proc.from) =>
                 (s.TLS <=> addCertsForSecureConnection(el.obj).mount)

\* A request for which the sink uses the EventListener from which its arguments were made
\* finds informers that have synced, and watch every namespace the selectors name: the
\* controller decides on one reading of the selectors, the sink acts on another
\* (container.go:32-42, eventlistenersink main.go:64-71, sink.go:359-406).
SelectorsWatched ==
    \A r \in Requests : reqs[r].gen # 0 /\ reqs[r].gen = reqs[r].from =>
        /\ reqs[r].synced
        /\ reqs[r].scope = {"*"} \/ reqs[r].needs \subseteq reqs[r].scope

\* Resources are made with the service account of the Trigger if it has one, never with
\* the sink's own, whatever fails (sink.go:590-602, auth_override.go:46-76).
MadeWithAccount ==
    \A m \in made : m[2] = IF LoadOf(sload).account[m[1]] = "" THEN "sink" ELSE LoadOf(sload).account[m[1]]

\* The EventListener as it is now is served by a process that was made for it and sees it
CaughtUp ==
    /\ proc.pc = "serving" /\ ~proc.stopped /\ seen = {el}
    /\ proc.args = ContainerArgs(el.obj, ElConfig(flags))

\* No goroutine goes on sending a CloudEvent for ever: it is acknowledged, given up or lost
\* with its process (cloudevent.go:46-74).
CloudEventsSettle == \A r \in UNION {LoadOf(l).requests : l \in Loads} : []<>(\A c \in ces : c.r # r)

\* A sink acts on its EventListener as the controller that made its Deployment read it, from
\* its arguments to the account its resources are made with (container.go, initialization.go,
\* adapter.go, auth_override.go).
SinkAsConfigured == ArgumentsUnderstood /\ ServesAsConfigured /\ SelectorsWatched /\ MadeWithAccount
=============================================================================
