-------------------------------- MODULE Sink --------------------------------
(***************************************************************************)
(* The EventListener sink (pkg/sink/sink.go): the HTTP handler that turns  *)
(* one incoming event into a set of goroutines, one per selected Trigger   *)
(* and one per TriggerGroup, each of which runs an interceptor chain,      *)
(* resolves its template and creates resources.                            *)
(*                                                                         *)
(* A goroutine is named <<event, group, job>>.  The group is NoGroup for   *)
(* the ungrouped triggers; the job is NoJob for the goroutine of a group   *)
(* itself.  A job <<src, n, trigger>> is one occurrence of a Trigger in a  *)
(* list the code builds, so a Trigger that is listed twice has two jobs.   *)
(*                                                                         *)
(* The value of an extension is the goroutine whose interceptor set it,    *)
(* which is all that the properties tell apart.                            *)
(***************************************************************************)
EXTENDS Integers, Sequences, FiniteSets

CONSTANTS
    Event,              \* the HTTP requests
    Group,              \* the TriggerGroups
    Trigger,            \* Trigger objects: in the lister, or inlined in the EventListener
    Namespace, Label,
    ELNamespace,        \* the namespace of the EventListener
    Star,               \* the entry "*" of matchNames
    TriggerNS,          \* [Trigger -> Namespace]
    TriggerLabels,      \* [Trigger -> SUBSET Label]
    Interceptors,       \* [Trigger -> Seq({"webhook", "ref"})]
    GroupInterceptors,  \* [Group -> Seq({"webhook", "ref"})]
    GroupSelector,      \* [Group -> Selector]
    NumResources,       \* [Trigger -> Nat], the resources its template makes
    ELSpec,             \* the EventListener specs the lister may hold
    PayloadValidation,  \* the sink's --payload-validation flag
    Body, JSONBody,     \* payloads, and those that parse as a JSON object
    FormBody, AsJSON,   \* payloads that parse as a form of several keys; their JSON
    Header, FormHeader, \* headers, and those with the form Content-Type
    ExtKey,             \* the keys of extensions
    MaxListerChanges,   \* bound on the changes of the Trigger informer's cache
    NoGroup, NoJob, NoSelector, InvalidSelector, NoValue

InterceptorKind == {"webhook", "ref"}

Selector ==
    [names  : Seq(Namespace \union {Star}),
     labels : SUBSET Label \union {NoSelector, InvalidSelector}]

ELTrigger == [kind : {"ref", "inline", "undefined"}, t : Trigger]

ASSUME SinkAssumption ==
    /\ TriggerNS \in [Trigger -> Namespace]
    /\ TriggerLabels \in [Trigger -> SUBSET Label]
    /\ Interceptors \in [Trigger -> Seq(InterceptorKind)]
    /\ GroupInterceptors \in [Group -> Seq(InterceptorKind)]
    /\ GroupSelector \in [Group -> Selector]
    /\ NumResources \in [Trigger -> Nat]
    /\ \A s \in ELSpec : /\ s.triggers \in Seq(ELTrigger)
                         /\ s.select \in Selector
                         /\ s.groups \subseteq Group
    /\ JSONBody \subseteq Body
    /\ FormBody \subseteq Body
    /\ AsJSON \in [FormBody -> Body]
    /\ FormHeader \subseteq Header
    /\ PayloadValidation \in BOOLEAN
    /\ MaxListerChanges \in Nat

Job == {"selected", "merged"} \X Nat \X Trigger

Goroutine ==
    (Event \X Group \X {NoJob}) \union (Event \X (Group \union {NoGroup}) \X Job)

ASSUME NamesAssumption ==
    /\ NoGroup \notin Group
    /\ NoJob \notin Job
    /\ NoValue \notin Goroutine

ASSUME FiniteAssumption == IsFiniteSet(Trigger) /\ IsFiniteSet(Group)

Extensions == [ExtKey -> Goroutine \union {NoValue}]

NoExtensions == [k \in ExtKey |-> NoValue]

VARIABLES
    cache,      \* Trigger objects in the TriggerLister's informer
    changes,    \* number of changes of cache, for the bound
    spec,       \* the EventListener in the lister: its spec, or NoValue
    hpc,        \* where the handler of each event is
    request,    \* the body and header of each event
    el,         \* the EventListener spec the handler holds
    jobs,       \* the Triggers the handler has selected
    buffered,   \* status the handler has written into the TimeoutHandler's buffer
    client,     \* status the client has received; 0 while it waits
    received,   \* eventlistener_event_received_total, per event and status
    emitted,    \* Kubernetes events and CloudEvents emitted, per event and type
    procs,      \* the goroutines, by name
    wg,         \* the counter of WGProcessTriggers
    verdicts,   \* the answers of interceptors: <<goroutine, position, answer>>
    created,    \* the resources made: <<goroutine, number>>
    recorded    \* eventlistener_triggered_resources_total

vars == <<cache, changes, spec, hpc, request, el, jobs, buffered, client,
          received, emitted, procs, wg, verdicts, created, recorded>>

handlerVars == <<hpc, request, el, jobs, buffered, client, received>>
listerVars == <<cache, changes, spec>>

EventOf(p) == p[1]
GroupOf(p) == p[2]
JobOf(p) == p[3]
TriggerOf(p) == p[3][3]

IsGroup(p) == JobOf(p) = NoJob
InGroup(p) == GroupOf(p) # NoGroup /\ JobOf(p) # NoJob

\* The goroutine of the group that started p
GroupGoroutine(p) == <<EventOf(p), GroupOf(p), NoJob>>

Chain(p) ==
    IF IsGroup(p) THEN GroupInterceptors[GroupOf(p)] ELSE Interceptors[TriggerOf(p)]

-----------------------------------------------------------------------------
(* Types *)

HandlerPC == {"idle", "validate", "get", "select", "merge", "respond", "return", "end"}

PC == {"start", "call", "select", "resolve", "create", "return", "end"}

Outcome == {"running", "stopped", "failed", "done"}

\* request.Extensions is ext; shared is the map a goroutine allocates and hands to
\* the triggers it starts (a group) or to its own chain (an ungrouped trigger)
\* next is the position in the chain, made the position in the list of resources
Proc == [pc : PC, next : Nat \ {0}, body : Body, header : Header,
         ext : Extensions, shared : Extensions, made : Nat, outcome : Outcome]

Status == {0, 202, 400, 500, 503}

EmittedType == {"started", "failed", "done", "successful"}

ListerType ==
    /\ cache \subseteq Trigger
    /\ changes \in 0..MaxListerChanges
    /\ spec \in ELSpec \union {NoValue}

HandlerType ==
    /\ hpc \in [Event -> HandlerPC]
    /\ request \in [Event -> [body : Body, header : Header]]
    /\ el \in [Event -> ELSpec \union {NoValue}]
    /\ jobs \in [Event -> SUBSET Job]
    /\ buffered \in [Event -> Status]
    /\ client \in [Event -> Status]
    /\ received \in [Event -> [succeeded : Nat, failed : Nat]]

WorkType ==
    /\ emitted \in [Event -> [EmittedType -> Nat]]
    /\ DOMAIN procs \subseteq Goroutine
    /\ \A p \in DOMAIN procs : procs[p] \in Proc
    /\ wg \in Int
    /\ verdicts \subseteq Goroutine \X Nat \X {"ok", "stop", "error"}
    /\ created \subseteq Goroutine \X Nat
    /\ recorded \in Nat

\* The variables of the sink hold what the code's types say: statuses of the responses
\* it can write, positions within chains and lists, counters that never go below zero.
TypeOK == ListerType /\ HandlerType /\ WorkType

-----------------------------------------------------------------------------
(* Selecting triggers *)

Matches(labels, t) == labels = NoSelector \/ labels \subseteq TriggerLabels[t]

\* selectTriggers, for a selector that is valid: one job per element of the list
SelectTriggers(s) ==
    LET match == {t \in cache : Matches(s.labels, t)}
        In(ns) == {t \in match : TriggerNS[t] = ns}
        Listed(n, ts) == {"selected"} \X {n} \X ts
    IN  IF s.names = <<Star>>
          THEN Listed(1, match)
        ELSE IF s.names # <<>>
          THEN UNION {Listed(n, In(s.names[n])) : n \in DOMAIN s.names}
        ELSE IF s.labels # NoSelector
          THEN Listed(1, In(ELNamespace))
        ELSE {}

\* merge: a reference that is not in the lister is skipped
Merge(ts, selected) ==
    selected \union
    {<<"merged", n, ts[n].t>> : n \in
        {m \in DOMAIN ts : \/ ts[m].kind = "inline"
                           \/ /\ ts[m].kind = "ref"
                              /\ ts[m].t \in cache
                              /\ TriggerNS[ts[m].t] = ELNamespace}}

MergeFails(ts) == \E n \in DOMAIN ts : ts[n].kind = "undefined"

-----------------------------------------------------------------------------
(* The handler *)

Init ==
    /\ cache \in SUBSET Trigger
    /\ changes = 0
    /\ spec \in ELSpec
    /\ hpc = [e \in Event |-> "idle"]
    /\ request \in [Event -> [body : Body, header : Header]]
    /\ el = [e \in Event |-> NoValue]
    /\ jobs = [e \in Event |-> {}]
    /\ buffered = [e \in Event |-> 0]
    /\ client = [e \in Event |-> 0]
    /\ received = [e \in Event |-> [succeeded |-> 0, failed |-> 0]]
    /\ emitted = [e \in Event |-> [t \in EmittedType |-> 0]]
    /\ procs = [p \in {} |-> NoValue]
    /\ wg = 0
    /\ verdicts = {}
    /\ created = {}
    /\ recorded = 0

\* The informer delivers a change of the Triggers
ChangeTriggers ==
    /\ changes < MaxListerChanges
    /\ \E t \in Trigger :
          cache' = IF t \in cache THEN cache \ {t} ELSE cache \union {t}
    /\ changes' = changes + 1
    /\ UNCHANGED <<spec, handlerVars, emitted, procs, wg, verdicts, created, recorded>>

\* The informer delivers a new EventListener spec, or its deletion while the pod runs
ChangeEventListener ==
    /\ changes < MaxListerChanges
    /\ spec' \in (ELSpec \union {NoValue}) \ {spec}
    /\ changes' = changes + 1
    /\ UNCHANGED <<cache, handlerVars, emitted, procs, wg, verdicts, created, recorded>>

Emit(e, type) == emitted' = [emitted EXCEPT ![e][type] = @ + 1]

Goto(e, pc) == hpc' = [hpc EXCEPT ![e] = pc]

\* WriteHeader into the TimeoutHandler's buffer: only the first one counts, and none
\* once the timeout has fired
Write(e, status) ==
    buffered' = [buffered EXCEPT ![e] = IF client[e] = 0 /\ @ = 0 THEN status ELSE @]

Receive(e) ==
    /\ hpc[e] = "idle"
    /\ Goto(e, "validate")
    /\ UNCHANGED <<listerVars, request, el, jobs, buffered, client, received,
                   emitted, procs, wg, verdicts, created, recorded>>

\* IsValidPayload refuses the event: its body cannot be read, or is not JSON
RefusePayload(e) ==
    /\ hpc[e] = "validate"
    /\ \/ Write(e, 500)
       \/ /\ PayloadValidation
          /\ request[e].body \notin JSONBody
          /\ Write(e, 400)
    /\ received' = [received EXCEPT ![e].failed = @ + 1]
    /\ Goto(e, "return")
    /\ UNCHANGED <<listerVars, request, el, jobs, client, emitted, procs, wg,
                   verdicts, created, recorded>>

\* IsValidPayload passes the event on to HandleEvent
AcceptPayload(e) ==
    /\ hpc[e] = "validate"
    /\ PayloadValidation => request[e].body \in JSONBody
    /\ Emit(e, "started")
    /\ Goto(e, "get")
    /\ UNCHANGED <<listerVars, request, el, jobs, buffered, client, received,
                   procs, wg, verdicts, created, recorded>>

GetEventListener(e) ==
    /\ hpc[e] = "get"
    /\ \/ /\ spec # NoValue
          /\ el' = [el EXCEPT ![e] = spec]
          /\ Goto(e, "select")
          /\ UNCHANGED <<buffered, received, emitted>>
       \/ /\ spec = NoValue
          /\ received' = [received EXCEPT ![e].failed = @ + 1]
          /\ Write(e, 500)
          /\ Emit(e, "failed")
          /\ Goto(e, "return")
          /\ UNCHANGED el
    /\ UNCHANGED <<listerVars, request, jobs, client, procs, wg, verdicts, created, recorded>>

\* Mutant: the return after the error response is missing
RefuseWithoutReturn(e) ==
    /\ Write(e, 500)
    /\ Emit(e, "failed")
    /\ Goto(e, "respond")
    /\ UNCHANGED <<jobs, procs, wg>>

\* The two error returns after the EventListener is known: no metric is recorded
Refuse(e) ==
    /\ Write(e, 500)
    /\ Emit(e, "failed")
    /\ Goto(e, "return")
    /\ UNCHANGED <<jobs, procs, wg>>

SelectForEvent(e) ==
    /\ hpc[e] = "select"
    /\ \/ /\ el[e].select.labels = InvalidSelector
          /\ Refuse(e)
       \/ /\ el[e].select.labels # InvalidSelector
          /\ jobs' = [jobs EXCEPT ![e] = SelectTriggers(el[e].select)]
          /\ Goto(e, "merge")
          /\ UNCHANGED <<buffered, emitted, procs, wg>>
    /\ UNCHANGED <<listerVars, request, el, client, received, verdicts, created, recorded>>

\* Mutant: the chain is indexed from 0
NewProcFromZero(e, header) ==
    [pc |-> "start", next |-> 0, body |-> request[e].body, header |-> header,
     ext |-> NoExtensions, shared |-> NoExtensions, made |-> 0, outcome |-> "running"]

\* A goroutine works on the event's own body and on the header of the request it clones
NewProc(e, header) ==
    [pc |-> "start", next |-> 1, body |-> request[e].body, header |-> header,
     ext |-> NoExtensions, shared |-> NoExtensions, made |-> 0, outcome |-> "running"]

\* old, with a goroutine started for every name in new
Started(old, new, e, header) ==
    [p \in DOMAIN old \union new |-> IF p \in new THEN NewProc(e, header) ELSE old[p]]

\* merge, then one goroutine per trigger and one per group
StartGoroutines(e) ==
    /\ hpc[e] = "merge"
    /\ \/ /\ MergeFails(el[e].triggers)
          /\ Refuse(e)
       \/ /\ ~MergeFails(el[e].triggers)
          /\ jobs' = [jobs EXCEPT ![e] = Merge(el[e].triggers, @)]
          /\ LET new == ({e} \X {NoGroup} \X jobs'[e]) \union ({e} \X el[e].groups \X {NoJob})
             IN  /\ procs' = Started(procs, new, e, request[e].header)
                 /\ wg' = wg + Cardinality(new)
          /\ Goto(e, "respond")
          /\ UNCHANGED <<buffered, emitted>>
    /\ UNCHANGED <<listerVars, request, el, client, received, verdicts, created, recorded>>

\* The 202 response.  A write after the timeout fails, and the handler reports
\* that with a failed event before it reports done.
Respond(e) ==
    /\ hpc[e] = "respond"
    /\ received' = [received EXCEPT ![e].succeeded = @ + 1]
    /\ Write(e, 202)
    /\ emitted' = [emitted EXCEPT
                      ![e]["failed"] = IF client[e] = 0 THEN @ ELSE @ + 1,
                      ![e]["done"] = @ + 1]
    /\ Goto(e, "return")
    /\ UNCHANGED <<listerVars, request, el, jobs, client, procs, wg, verdicts, created, recorded>>

\* The handler returns and http.TimeoutHandler copies its buffer to the client
HandlerReturns(e) ==
    /\ hpc[e] = "return"
    /\ client' = [client EXCEPT ![e] = IF @ = 0 THEN buffered[e] ELSE @]
    /\ Goto(e, "end")
    /\ UNCHANGED <<listerVars, request, el, jobs, buffered, received, emitted,
                   procs, wg, verdicts, created, recorded>>

\* http.TimeoutHandler answers in the handler's place; the handler goes on
TimeOut(e) ==
    /\ hpc[e] \notin {"idle", "end"}
    /\ client[e] = 0
    /\ client' = [client EXCEPT ![e] = 503]
    /\ UNCHANGED <<listerVars, hpc, request, el, jobs, buffered, received, emitted,
                   procs, wg, verdicts, created, recorded>>

-----------------------------------------------------------------------------
(* The goroutines *)

Update(p, r) == procs' = [procs EXCEPT ![p] = r]

\* The deferred Done is a step of its own
Leave(p, outcome) == Update(p, [procs[p] EXCEPT !.pc = "return", !.outcome = outcome])

\* Mutant: the extensions of the group are not handed on
PassedExtensionsOwn(p) == procs[p].shared

\* The extensions map that p hands to ExecuteInterceptors
PassedExtensions(p) ==
    IF InGroup(p) THEN procs[GroupGoroutine(p)].shared ELSE procs[p].shared

FormToJSON(body, header) ==
    IF header \in FormHeader /\ body \in FormBody THEN AsJSON[body] ELSE body

AfterChain(p) == IF IsGroup(p) THEN "select" ELSE "resolve"

\* ExecuteInterceptors up to its loop: an empty chain returns the event as it is,
\* otherwise the passed extensions are copied and a form becomes JSON
StartChain(p) ==
    /\ procs[p].pc = "start"
    /\ Update(p, IF Chain(p) = <<>>
                   THEN [procs[p] EXCEPT !.ext = PassedExtensions(p), !.pc = AfterChain(p)]
                   ELSE [procs[p] EXCEPT !.ext = PassedExtensions(p), !.pc = "call",
                                         !.body = FormToJSON(@, procs[p].header)])
    /\ UNCHANGED <<listerVars, handlerVars, emitted, wg, verdicts, created, recorded>>

Answer(p, answer) == verdicts' = verdicts \union {<<p, procs[p].next, answer>>}

\* The map m with the keys of ext laid over it
Overlay(m, ext) == [k \in ExtKey |-> IF ext[k] = NoValue THEN m[k] ELSE ext[k]]

\* r has passed the interceptor at its position.  After the last one a group
\* copies the extensions it has gathered into the map its triggers share.
Passed(p, r) ==
    IF r.next < Len(Chain(p))
      THEN [r EXCEPT !.next = @ + 1]
      ELSE [r EXCEPT !.next = @ + 1, !.pc = AfterChain(p),
                     !.shared = IF IsGroup(p) THEN Overlay(@, r.ext) ELSE @]

\* Mutant: a failed webhook starts the chain again
CallWebhookRetries(p) ==
    /\ procs[p].pc = "call"
    /\ Chain(p)[procs[p].next] = "webhook"
    /\ \/ \E body \in Body, header \in Header :
             /\ Update(p, Passed(p, [procs[p] EXCEPT !.body = body, !.header = header]))
             /\ Answer(p, "ok")
       \/ /\ Update(p, [procs[p] EXCEPT !.pc = "start", !.next = 1])
          /\ Answer(p, "error")
    /\ UNCHANGED <<listerVars, handlerVars, emitted, wg, created, recorded>>

\* A webhook interceptor: its response replaces body and header
CallWebhook(p) ==
    /\ procs[p].pc = "call"
    /\ Chain(p)[procs[p].next] = "webhook"
    /\ \/ \E body \in Body, header \in Header :
             /\ Update(p, Passed(p, [procs[p] EXCEPT !.body = body, !.header = header]))
             /\ Answer(p, "ok")
       \/ /\ Leave(p, "failed")
          /\ Answer(p, "error")
    /\ UNCHANGED <<listerVars, handlerVars, emitted, wg, created, recorded>>

\* Mutant: Continue is not looked at
CallInterceptorIgnoresStop(p) ==
    /\ procs[p].pc = "call"
    /\ Chain(p)[procs[p].next] = "ref"
    /\ \/ /\ Update(p, Passed(p, procs[p]))
          /\ \E answer \in {"ok", "stop"} : Answer(p, answer)
       \/ /\ Leave(p, "failed")
          /\ Answer(p, "error")
    /\ UNCHANGED <<listerVars, handlerVars, emitted, wg, created, recorded>>

\* Mutant: the passed extensions are not copied, so the map of the group is written
CallInterceptorAliasing(p) ==
    /\ procs[p].pc = "call"
    /\ Chain(p)[procs[p].next] = "ref"
    /\ \E keys \in SUBSET ExtKey :
          LET Set(m) == [k \in ExtKey |-> IF k \in keys THEN p ELSE m[k]]
              q == IF InGroup(p) THEN GroupGoroutine(p) ELSE p
          IN  procs' = [procs EXCEPT ![q].shared = Set(@),
                                     ![p] = Passed(p, [procs[p] EXCEPT !.ext = Set(@)])]
    /\ Answer(p, "ok")
    /\ UNCHANGED <<listerVars, handlerVars, emitted, wg, created, recorded>>

\* A ClusterInterceptor or Interceptor: its response continues, with extensions for
\* the rest of the chain, or stops it
CallInterceptor(p) ==
    /\ procs[p].pc = "call"
    /\ Chain(p)[procs[p].next] = "ref"
    /\ \/ \E keys \in SUBSET ExtKey :
             /\ Update(p, Passed(p, [procs[p] EXCEPT
                    !.ext = [k \in ExtKey |-> IF k \in keys THEN p ELSE @[k]]]))
             /\ Answer(p, "ok")
       \/ /\ Leave(p, "stopped")
          /\ Answer(p, "stop")
       \/ /\ Leave(p, "failed")
          /\ Answer(p, "error")
    /\ UNCHANGED <<listerVars, handlerVars, emitted, wg, created, recorded>>

\* Mutant: no wg.Add for the triggers of the group
StartGroupTriggersNoAdd(p) ==
    /\ procs[p].pc = "select"
    /\ LET selector == GroupSelector[GroupOf(p)]
           new == {EventOf(p)} \X {GroupOf(p)} \X SelectTriggers(selector)
       IN  /\ selector.labels # InvalidSelector
           /\ procs' = Started([procs EXCEPT ![p].pc = "return", ![p].outcome = "done"],
                               new, EventOf(p), procs[p].header)
    /\ UNCHANGED <<listerVars, handlerVars, emitted, wg, verdicts, created, recorded>>

\* The rest of processTriggerGroups: select now, not when the event came in
StartGroupTriggers(p) ==
    /\ procs[p].pc = "select"
    /\ LET selector == GroupSelector[GroupOf(p)]
       IN  \/ /\ selector.labels = InvalidSelector
              /\ Leave(p, "failed")
              /\ UNCHANGED wg
           \/ /\ selector.labels # InvalidSelector
              /\ LET new == {EventOf(p)} \X {GroupOf(p)} \X SelectTriggers(selector)
                 IN  /\ procs' = Started([procs EXCEPT ![p].pc = "return", ![p].outcome = "done"],
                                         new, EventOf(p), procs[p].header)
                     /\ wg' = wg + Cardinality(new)
    /\ UNCHANGED <<listerVars, handlerVars, emitted, verdicts, created, recorded>>

\* ResolveTrigger, ResolveParams and ResolveResources
Resolve(p) ==
    /\ procs[p].pc = "resolve"
    /\ \/ Update(p, [procs[p] EXCEPT !.pc = "create"])
       \/ Leave(p, "failed")
    /\ UNCHANGED <<listerVars, handlerVars, emitted, wg, verdicts, created, recorded>>

\* Mutant: an error of the API server is logged and the loop goes on
CreateResourceGoesOn(p) ==
    /\ procs[p].pc = "create"
    /\ procs[p].made < NumResources[TriggerOf(p)]
    /\ \/ created' = created \union {<<p, procs[p].made + 1>>}
       \/ UNCHANGED created
    /\ Update(p, [procs[p] EXCEPT !.made = @ + 1])
    /\ UNCHANGED <<listerVars, handlerVars, emitted, wg, verdicts, recorded>>

\* CreateResources: one call of the API server per resource, up to the first error
CreateResource(p) ==
    /\ procs[p].pc = "create"
    /\ procs[p].made < NumResources[TriggerOf(p)]
    /\ \/ /\ created' = created \union {<<p, procs[p].made + 1>>}
          /\ Update(p, [procs[p] EXCEPT !.made = @ + 1])
       \/ /\ Leave(p, "failed")
          /\ UNCHANGED created
    /\ UNCHANGED <<listerVars, handlerVars, emitted, wg, verdicts, recorded>>

\* Mutant: success is announced before the loop is through
TriggerSucceedsEarly(p) ==
    /\ procs[p].pc = "create"
    /\ recorded' = recorded + NumResources[TriggerOf(p)]
    /\ Emit(EventOf(p), "successful")
    /\ Leave(p, "done")
    /\ UNCHANGED <<listerVars, handlerVars, wg, verdicts, created>>

\* CreateResources has returned without an error
TriggerSucceeds(p) ==
    /\ procs[p].pc = "create"
    /\ procs[p].made = NumResources[TriggerOf(p)]
    /\ recorded' = recorded + NumResources[TriggerOf(p)]
    /\ Emit(EventOf(p), "successful")
    /\ Leave(p, "done")
    /\ UNCHANGED <<listerVars, handlerVars, wg, verdicts, created>>

\* defer wg.Done()
GoroutineReturns(p) ==
    /\ procs[p].pc = "return"
    /\ wg' = wg - 1
    /\ Update(p, [procs[p] EXCEPT !.pc = "end"])
    /\ UNCHANGED <<listerVars, handlerVars, emitted, verdicts, created, recorded>>

-----------------------------------------------------------------------------
(* The specification *)

HandlerStep(e) ==
    \/ RefusePayload(e)
    \/ AcceptPayload(e)
    \/ GetEventListener(e)
    \/ SelectForEvent(e)
    \/ StartGoroutines(e)
    \/ Respond(e)
    \/ HandlerReturns(e)

GoroutineStep(p) ==
    \/ StartChain(p)
    \/ CallWebhook(p)
    \/ CallInterceptor(p)
    \/ StartGroupTriggers(p)
    \/ Resolve(p)
    \/ CreateResource(p)
    \/ TriggerSucceeds(p)
    \/ GoroutineReturns(p)

\* Every event has been answered and every goroutine has returned
Quiescent ==
    /\ \A e \in Event : hpc[e] = "end"
    /\ \A p \in DOMAIN procs : procs[p].pc = "end"
    /\ UNCHANGED vars

Next ==
    \/ \E e \in Event : Receive(e) \/ HandlerStep(e) \/ TimeOut(e)
    \/ \E p \in DOMAIN procs : GoroutineStep(p)
    \/ ChangeTriggers
    \/ ChangeEventListener
    \/ Quiescent

\* The Go scheduler runs every runnable goroutine; the handler's own steps never
\* block, and a call of an interceptor returns (webhook: 5s client timeout; others:
\* the transport's timeouts, and the peer completing its response)
Fairness ==
    /\ \A e \in Event : WF_vars(HandlerStep(e))
    /\ WF_vars(\E p \in DOMAIN procs : GoroutineStep(p))

Spec == Init /\ [][Next]_vars

FairSpec == Spec /\ Fairness

-----------------------------------------------------------------------------
(* Properties *)

Live == {p \in DOMAIN procs : procs[p].pc # "end"}

\* Every interceptor of p's chain has let the event pass
ChainPassed(p) == \A n \in 1..Len(Chain(p)) : <<p, n, "ok">> \in verdicts

\* A resource exists only for a trigger whose own interceptors, and those of the
\* group it was selected by, have all let the event pass (processTrigger and
\* processTriggerGroups return on an error and on Continue = false).
CreatedOnlyAfterWholeChain ==
    \A c \in created :
        /\ ChainPassed(c[1])
        /\ InGroup(c[1]) => ChainPassed(GroupGoroutine(c[1]))

\* A goroutine sees no extension but those of its own chain and of its group's
\* chain: the maps that goroutines share are copied before they are written
\* (ExecuteInterceptors), whatever the order in which triggers of one group, or of
\* two events, run.
ExtensionsIsolated ==
    \A p \in DOMAIN procs : \A k \in ExtKey :
        /\ procs[p].ext[k] \in {NoValue, p, GroupGoroutine(p)}
        /\ procs[p].shared[k] \in {NoValue, p}

\* Every extension the group's interceptors added is there when a trigger of the
\* group is resolved (docs/eventlisteners.md: "passed to the downstream Trigger").
GroupExtensionsReachTriggers ==
    \A p \in DOMAIN procs : \A k \in ExtKey :
        (InGroup(p) /\ procs[p].pc \in {"resolve", "create"}
                    /\ procs[GroupGoroutine(p)].ext[k] # NoValue)
            => procs[p].ext[k] # NoValue

\* The WaitGroup counts the goroutines that have not returned: it is zero only
\* when all triggers and groups of all events are through, never negative (which
\* would panic), and a group's Done never lets it reach zero before the Add for the
\* triggers of the group.
WaitGroupCountsGoroutines == wg = Cardinality(Live)

\* A successful event stands for one trigger all of whose resources exist, and those are
\* the resources that eventlistener_triggered_resources_total counts; the resources of
\* a trigger that failed are a proper prefix of its list.
SuccessfulMeansAllCreated ==
    /\ recorded = Cardinality({c \in created : procs[c[1]].outcome = "done"})
    /\ \A e \in Event :
          emitted[e]["successful"] =
              Cardinality({p \in DOMAIN procs : /\ EventOf(p) = e
                                                /\ ~IsGroup(p)
                                                /\ procs[p].outcome = "done"})
    /\ \A p \in DOMAIN procs : ~IsGroup(p) =>
          LET n == NumResources[TriggerOf(p)]
              made == {m \in 1..n : <<p, m>> \in created}
          IN  /\ procs[p].outcome = "done" => made = 1..n
              /\ procs[p].outcome = "failed" => \E m \in 0..n : made = 1..m /\ (m = n => n = 0)
              /\ procs[p].outcome = "stopped" => made = {}

\* What the client was told agrees with what was done: an event answered with 400
\* or 500 starts no trigger and is reported neither done nor successful; an event
\* answered with 202 is counted as succeeded, reported done once and never failed.
AnswerMatchesWork ==
    \A e \in Event :
        /\ client[e] \in {400, 500} =>
              /\ \A p \in DOMAIN procs : EventOf(p) # e
              /\ emitted[e]["done"] = 0
              /\ received[e].succeeded = 0
        /\ client[e] = 202 =>
              /\ emitted[e]["failed"] = 0
              /\ emitted[e]["done"] = 1
              /\ received[e] = [succeeded |-> 1, failed |-> 0]

\* All goroutines of e have returned
Settled(e) == \A p \in DOMAIN procs : EventOf(p) = e => procs[p].pc = "end"

\* Every request is answered, by the handler or by the timeout, and every event that has
\* come in comes to rest for good: the handler returns and all the goroutines it started,
\* and those these started, return.
EventSettles ==
    \A e \in Event :
        /\ []<>(hpc[e] = "idle" \/ client[e] # 0)
        /\ <>[](hpc[e] = "idle" \/ (hpc[e] = "end" /\ Settled(e)))

-----------------------------------------------------------------------------
(* The promise of TriggerRuns *)

ChainLength(p) == Len(Chain(p))

ResourcesOf(p) == IF IsGroup(p) THEN 0 ELSE NumResources[TriggerOf(p)]

RunState(outcome) ==
    CASE outcome = "running" -> "open"
      [] outcome = "done" -> "done"
      [] outcome \in {"stopped", "failed"} -> "dropped"

RunsOf == [p \in DOMAIN procs |->
              [passed |-> procs[p].next - 1, made |-> procs[p].made,
               state |-> RunState(procs[p].outcome)]]

AnnouncedOf == [e \in Event |-> emitted[e]["successful"]]

TR == INSTANCE TriggerRuns WITH
          Owner <- Event, OwnerOf <- EventOf, Gates <- ChainLength, Size <- ResourcesOf,
          IsParent <- IsGroup, Parent <- GroupGoroutine, HasParent <- InGroup,
          runs <- RunsOf, announced <- AnnouncedOf

\* The sink implements TriggerRuns: every goroutine of a trigger or group passes its
\* whole chain in order, makes each resource of its list once and in order, and is
\* announced once, at the end; it is never restarted, and never goes on after it has
\* been dropped (processTriggerGroups, processTrigger, CreateResources).
ImplementsTriggerRuns == TR!TRSpec

-----------------------------------------------------------------------------
(* What the repository says and the code does not do *)

\* sink.go:341-342: the request with the body "from any interceptors in the
\* TriggerGroup" is "passed on to the triggers in this group".
GroupBodyReachesTriggers ==
    \A p \in DOMAIN procs :
        InGroup(p) /\ procs[p].pc = "start"
            => procs[p].body = procs[GroupGoroutine(p)].body

=============================================================================
