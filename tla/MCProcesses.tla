---------------------------- MODULE MCProcesses -----------------------------
(***************************************************************************)
(* One of the processes, or what processes are made from, at a time.       *)
(***************************************************************************)
EXTENDS SinkProcess, InterceptorServer, InformerFactory, MetricsRecorder, InterceptorClient, CachedObjects

VARIABLE part

Parts == {"sink", "server", "factory", "controller metrics", "sink metrics", "client", "copies"}

-----------------------------------------------------------------------------

\* An EventListener: namespaces of its own selector and of its groups', whether it has TLS,
\* whether payloads are validated, and the target of CloudEvents
EL(own, groups, tls, validate, uri) ==
    LET FromSecret(name) == [name |-> name, value |-> FALSE, valueFrom |-> {{"secretKeyRef"}}, key |-> name]
        container == [fields |-> {"env"}, env |-> <<FromSecret("TLS_CERT"), FromSecret("TLS_KEY")>>]
    IN  [name |-> "el", namespace |-> "ns", payloadValidation |-> validate,
         spec |-> [namespaces |-> own, cloudEventURI |-> uri,
                   triggerGroups |-> [g \in DOMAIN groups |-> [namespaces |-> groups[g]]],
                   kubernetes |-> {[template |-> [containers |-> IF tls THEN <<container>> ELSE <<>>]]}]]

Other == [f \in DOMAIN ControllerFlags |->
            CASE f = "el-readtimeout" -> 7 [] f = "el-writetimeout" -> 140 [] f = "el-idletimeout" -> 0
              [] f = "el-timeouthandler" -> 21 [] f = "el-httpclient-readtimeout" -> 8
              [] f = "el-httpclient-responseheadertimeout" -> 1000 [] OTHER -> ControllerFlags[f]]

SinkLoads ==
    LET load(changes, flagss, els, accounts) ==
          [changes |-> changes, flags |-> flagss, els |-> els, requests |-> DOMAIN accounts, account |-> accounts]
        plain == EL(<<>>, <<>>, FALSE, "unset", "")
    IN  [idle |-> load(0, {ControllerFlags}, {plain}, [r \in {} |-> ""]),
         flags |-> load(2, {ControllerFlags, Other}, {plain, EL(<<>>, <<>>, TRUE, "false", "")}, [r1 |-> ""]),
         selectors |-> load(2, {ControllerFlags},
                            {plain, EL(<<"ns", "b">>, <<>>, FALSE, "unset", ""),
                             EL(<<>>, <<<<>>, <<"b">>>>, FALSE, "true", ""), EL(<<>>, <<<<>>>>, FALSE, "true", "")},
                            [r1 |-> ""]),
         events |-> load(1, {ControllerFlags}, {EL(<<>>, <<>>, FALSE, "unset", "uri")}, [r1 |-> "sa", r2 |-> ""])]

MCLoadOf(id) == SinkLoads[id]
MCLoads == DOMAIN SinkLoads

-----------------------------------------------------------------------------

MCInit ==
    /\ part \in Parts
    /\ SinkInit /\ (part # "sink" <=> sload = "idle")
    /\ ServerInit /\ FactoryInit /\ MetricsInit /\ ClientInit
    /\ CopyInit /\ (part # "copies" => object = <<"v1beta1", "Trigger">> /\ reference = <<"ObjectMeta", "data">>)

\* One of the parts takes a step, which leaves the others where they are
Alone(p) ==
    /\ part = p /\ UNCHANGED part
    /\ p # "sink" => UNCHANGED sinkVars
    /\ p # "server" => UNCHANGED serverVars
    /\ p # "factory" => UNCHANGED factoryVars
    /\ p \notin {"controller metrics", "sink metrics"} => UNCHANGED metricsVars
    /\ p # "client" => UNCHANGED clientVars
    /\ p # "copies" => UNCHANGED copyVars

MCNext ==
    \/ Alone("sink") /\ SinkNext
    \/ Alone("server") /\ ServerNext
    \/ Alone("factory") /\ FactoryNext
    \/ Alone("controller metrics") /\ ControllerMetricsNext
    \/ Alone("sink metrics") /\ SinkMetricsNext
    \/ Alone("client") /\ ClientNext
    \/ Alone("copies") /\ CopyNext

allVars == <<part, sinkVars, serverVars, factoryVars, metricsVars, clientVars, copyVars>>

MCSpec ==
    /\ MCInit /\ [][MCNext]_allVars
    /\ WF_sinkVars(part = "sink" /\ SinkMain) /\ SinkFairness
    /\ WF_serverVars(part = "server" /\ MainServer) /\ ServerFairness
    /\ FactoryFairness /\ MetricsFairness /\ SinkMetricsFairness /\ ClientFairness

\* The state has the shape of the code's data.
TypeOK ==
    /\ SinkTypeOK /\ ServerTypeOK /\ FactoryTypeOK /\ MetricsTypeOK /\ ClientTypeOK /\ CopyTypeOK

\* Whatever changes and ends, the EventListener as it then is comes to be served by a
\* process that was made for it and sees it (eventlistener.go reconcileDeployment, adapter.go
\* Start).
SinkCatchesUp == <>[](part = "sink" => CaughtUp)

\* Whoever waits for others before going on waits for all of them: the server that stops for
\* its requests, Shutdown for its goroutines, WaitForCacheSync for the informers (main.go
\* startServer, factory.go).
WaitsAreForAll == StopWaits /\ NothingRunsAfterShutdown /\ WaitIsForAllStarted

\* And nobody waits for ever: CloudEvents, processes that were told to stop, Shutdowns, calls
\* and reporters come to their end, and the metrics to what they measure (cloudevent.go,
\* main.go, factory.go, webhook.go, metrics.go).
AllSettle ==
    /\ CloudEventsSettle /\ EndsAfterSignal /\ ShutdownEnds /\ CallsEnd
    /\ ReportsStop /\ GaugesConverge /\ DurationsRecorded
=============================================================================
