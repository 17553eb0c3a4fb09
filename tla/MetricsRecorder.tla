-------------------------- MODULE MetricsRecorder ---------------------------
(***************************************************************************)
(* The metrics of the controller and of the sink.  The controller's        *)
(* recorder is made once and put into the context, with no recorder if the *)
(* instruments could not be made; an informer of its own starts the        *)
(* goroutine that counts objects every minute until the stop channel       *)
(* closes.  The sink counts requests, their durations and the resources    *)
(* they make, in goroutines of their own.                                  *)
(***************************************************************************)
EXTENDS Integers, Sequences, FiniteSets

CONSTANTS
    Injections,     \* contexts into which the controller's recorder is put
    Posts,          \* requests to a sink
    MaxObjects, Updates, ListErrors

\* The gauges, as initMetrics makes them
Instruments == <<"el", "tb", "ctb", "tt", "ci">>
Kinds == {Instruments[i] : i \in DOMAIN Instruments}

\* The order in which CountMetrics lists
Listed == <<"el", "ci", "tb", "ctb", "tt">>

None == "none"
Unrecorded == -1

VARIABLES
    mleft,      \* changes and failed lists to come
    once,       \* the instruments that were made, once initMetrics ran
    recorder,   \* r
    contexts,   \* injection -> the recorder in its context
    reporter,   \* injection -> its goroutine
    objects,    \* kind -> how many there are in the lister
    gauges,     \* kind -> recorded
    posts, durations, received, triggered   \* of a sink

metricsVars == <<mleft, once, recorder, contexts, reporter, objects, gauges, posts, durations, received, triggered>>

Idle == [pc |-> "none", closed |-> FALSE, cancelled |-> FALSE, fired |-> FALSE, next |-> 1]

NoPost == [pc |-> "none", status |-> 200, resources |-> <<>>, elapsed |-> FALSE]

MetricsInit ==
    /\ mleft = [updates |-> Updates, errors |-> ListErrors]
    /\ once = {} /\ recorder = None
    /\ contexts = [i \in Injections |-> "unset"]
    /\ reporter = [i \in Injections |-> Idle]
    /\ objects = [k \in Kinds |-> 0]
    /\ gauges = [k \in Kinds |-> Unrecorded]
    /\ posts = [p \in Posts |-> NoPost]
    /\ durations = {} /\ received = [status \in {"succeeded", "failed"} |-> 0]
    /\ triggered = [kind \in {"run", "other"} |-> 0]

-----------------------------------------------------------------------------
(* The controller *)

\* initMetrics: the instruments that there are, up to the one that could not be made
initMetrics(failing) == {Instruments[j] : j \in 1..(failing - 1)}

\* WithClient: the recorder that NewRecorder returns, if any; initMetrics runs once
WithClient(i, failing) ==
    /\ contexts[i] = "unset"
    /\ once' = IF once = {} THEN {initMetrics(failing)} ELSE once
    /\ recorder' = IF once = {} /\ initMetrics(failing) = Kinds THEN i ELSE recorder
    /\ contexts' = [contexts EXCEPT ![i] = recorder']
    /\ UNCHANGED <<mleft, reporter, objects, gauges, posts, durations, received, triggered>>

\* recorderInformer.Run: a process runs the informers of one of its contexts
RunRecorder(i) ==
    /\ contexts[i] # "unset" /\ \A j \in Injections : reporter[j].pc = "none"
    /\ reporter' = [reporter EXCEPT ![i].pc = "select"]
    /\ UNCHANGED <<mleft, once, recorder, contexts, objects, gauges, posts, durations, received, triggered>>

\* ReportCountMetrics comes to its select: the period is read from the recorder, so without
\* one the process ends; then a context that has ended is ahead of the period
Panicked == \E i \in Injections : reporter[i].pc = "panic"

Select(i) ==
    /\ reporter[i].pc = "select"
    /\ reporter' = [reporter EXCEPT ![i].fired = FALSE,
                        ![i].pc = IF contexts[i] = None THEN "panic" ELSE IF reporter[i].cancelled THEN "done" ELSE "waits"]
    /\ UNCHANGED <<mleft, once, recorder, contexts, objects, gauges, posts, durations, received, triggered>>

\* The stop channel closes; the goroutine of Run cancels the context
CloseStop(i) ==
    /\ reporter[i].pc # "none" /\ ~reporter[i].closed
    /\ reporter' = [reporter EXCEPT ![i].closed = TRUE]
    /\ UNCHANGED <<mleft, once, recorder, contexts, objects, gauges, posts, durations, received, triggered>>

Cancel(i) ==
    /\ reporter[i].closed /\ ~reporter[i].cancelled
    /\ reporter' = [reporter EXCEPT ![i].cancelled = TRUE]
    /\ UNCHANGED <<mleft, once, recorder, contexts, objects, gauges, posts, durations, received, triggered>>

\* The period is over
Fire(i) ==
    /\ reporter[i].pc = "waits" /\ ~reporter[i].fired
    /\ reporter' = [reporter EXCEPT ![i].fired = TRUE]
    /\ UNCHANGED <<mleft, once, recorder, contexts, objects, gauges, posts, durations, received, triggered>>

\* If both get ready, either branch
ReportDone(i) ==
    /\ reporter[i].pc = "waits" /\ reporter[i].cancelled
    /\ reporter' = [reporter EXCEPT ![i].pc = "done"]
    /\ UNCHANGED <<mleft, once, recorder, contexts, objects, gauges, posts, durations, received, triggered>>

ReportTimer(i) ==
    /\ reporter[i].pc = "waits" /\ reporter[i].fired
    /\ reporter' = [reporter EXCEPT ![i].pc = "counts", ![i].next = 1]
    /\ UNCHANGED <<mleft, once, recorder, contexts, objects, gauges, posts, durations, received, triggered>>

Counted(i) ==
    reporter' = [reporter EXCEPT ![i].next = IF @ = Len(Listed) THEN 1 ELSE @ + 1,
                                 ![i].pc = IF reporter[i].next = Len(Listed) THEN "select" ELSE @]

\* CountMetrics: one kind after the other, and recordGaugeMetrics
CountMetrics(i) ==
    /\ reporter[i].pc = "counts"
    /\ LET k == Listed[reporter[i].next]
       IN  gauges' = [gauges EXCEPT ![k] = objects[k]]
    /\ Counted(i)
    /\ UNCHANGED <<mleft, once, recorder, contexts, objects, posts, durations, received, triggered>>

\* A list that fails is logged
ListFails(i) ==
    /\ reporter[i].pc = "counts"
    /\ mleft.errors > 0 /\ mleft' = [mleft EXCEPT !.errors = @ - 1]
    /\ Counted(i)
    /\ UNCHANGED <<once, recorder, contexts, objects, gauges, posts, durations, received, triggered>>

ObjectsChange(k, n) ==
    /\ mleft.updates > 0 /\ mleft' = [mleft EXCEPT !.updates = @ - 1]
    /\ objects[k] # n
    /\ objects' = [objects EXCEPT ![k] = n]
    /\ UNCHANGED <<once, recorder, contexts, reporter, gauges, posts, durations, received, triggered>>

-----------------------------------------------------------------------------
(* The sink *)

controllerMetrics == <<mleft, once, recorder, contexts, reporter, objects, gauges>>

\* The handler of NewMetricsRecorderInterceptor calls the next one, which counts the event
\* (recordCountMetrics) unless selecting fails, and answers
Handle(p, outcome, status, resources) ==
    /\ posts[p].pc = "none"
    /\ (status = 200) = (outcome = "succeeded")
    /\ outcome = "succeeded" \/ resources = <<>>
    /\ received' = IF outcome = "uncounted" THEN received ELSE [received EXCEPT ![outcome] = @ + 1]
    /\ posts' = [posts EXCEPT ![p] = [pc |-> "handled", status |-> status, resources |-> resources, elapsed |-> TRUE]]
    /\ UNCHANGED <<controllerMetrics, durations, triggered>>

\* The goroutine of the deferred function
recordDurationMetrics(p) ==
    /\ posts[p].elapsed
    /\ posts' = [posts EXCEPT ![p].elapsed = FALSE]
    /\ durations' = durations \union {p}
    /\ UNCHANGED <<controllerMetrics, received, triggered>>

\* The goroutine that processTrigger starts: a resource that is no object is skipped
recordResourceCreation(p) ==
    /\ posts[p].resources # <<>>
    /\ posts' = [posts EXCEPT ![p].resources = Tail(@)]
    /\ triggered' = LET kind == Head(posts[p].resources)
                    IN  IF kind = "no object" THEN triggered ELSE [triggered EXCEPT ![kind] = @ + 1]
    /\ UNCHANGED <<controllerMetrics, durations, received>>

ControllerMetricsNext ==
    /\ ~Panicked
    /\ \/ \E i \in Injections :
            \/ \E failing \in 1..(Len(Instruments) + 1) : WithClient(i, failing)
            \/ RunRecorder(i) \/ Select(i) \/ CloseStop(i) \/ Cancel(i) \/ Fire(i) \/ ReportDone(i)
            \/ ReportTimer(i) \/ CountMetrics(i) \/ ListFails(i)
       \/ \E k \in Kinds, n \in 0..MaxObjects : ObjectsChange(k, n)

SinkMetricsNext ==
    \E p \in Posts :
         \/ \E outcome \in {"succeeded", "failed", "uncounted"}, status \in {200, 400, 500},
              resources \in {<<>>, <<"run", "no object">>, <<"other", "run">>} : Handle(p, outcome, status, resources)
         \/ recordDurationMetrics(p) \/ recordResourceCreation(p)

\* Goroutines go on, and periods end
MetricsFairness ==
    \A i \in Injections :
        /\ WF_metricsVars(~Panicked /\ (Select(i) \/ CountMetrics(i) \/ ReportTimer(i) \/ ReportDone(i)))
        /\ WF_metricsVars(~Panicked /\ Fire(i)) /\ WF_metricsVars(~Panicked /\ Cancel(i))

SinkMetricsFairness ==
    \A p \in Posts : WF_metricsVars(recordDurationMetrics(p)) /\ WF_metricsVars(recordResourceCreation(p))

-----------------------------------------------------------------------------
(* Properties *)

\* The state has the shape of the code's data.
MetricsTypeOK ==
    /\ contexts \in [Injections -> {"unset", None} \union Injections]
    /\ \A i \in Injections : reporter[i].pc \in {"none", "select", "waits", "counts", "done", "panic"}
                             /\ reporter[i].next \in 1..Len(Listed)
    /\ gauges \in [Kinds -> {Unrecorded} \union (0..MaxObjects)]
    /\ durations \subseteq Posts

\* While a reporter runs, the gauges come to say how many objects of each kind there are,
\* whatever changed and whichever lists failed before (metrics.go:139-190).
GaugesConverge == \A i \in Injections : <>[](reporter[i].pc \in {"none", "done", "panic"} \/ reporter[i].closed \/ gauges = objects)

\* A reporter whose stop channel is closed ends, though a period may end at the same time
\* (metrics.go:140-148, injection.go:79-88).
ReportsStop == \A i \in Injections : []<>(~reporter[i].closed \/ reporter[i].pc = "done" \/ Panicked)

\* Every request gets its duration recorded, and every object made by it counted, whatever
\* the answer (metrics.go:80-126).
DurationsRecorded == \A p \in Posts : []<>(posts[p].pc = "handled" => p \in durations /\ posts[p].resources = <<>>)
=============================================================================
