------------------------------ MODULE Settings ------------------------------
(***************************************************************************)
(* How a setting gets from the command line of the controller to the       *)
(* server of the sink: the controller's main, the arguments of the         *)
(* container, the flags of the sink, its Args, its HTTP server and the     *)
(* client with which it calls interceptors.  Numbers travel as digits; all *)
(* of them are seconds.  What is not told apart by any of these steps (the *)
(* image, probes, security contexts) is left to ELResources.               *)
(***************************************************************************)
EXTENDS ELResources, SequencesExt

eventListenerContainerPort == 8080

\* strconv.FormatInt and what the package flag makes of it
FormatInt(n) == LET digits[m \in 0..n] == IF m < 10 THEN <<m>> ELSE Append(digits[m \div 10], m % 10) IN digits[n]
ParseDigits(s) == FoldLeft(LAMBDA n, d : 10 * n + d, 0, s)
FormatBool(b) == IF b THEN "true" ELSE "false"

-----------------------------------------------------------------------------
(* The controller *)

ControllerFlags ==
    ("el-events" :> "disable") @@ ("el-readtimeout" :> 5) @@ ("el-writetimeout" :> 40) @@ ("el-idletimeout" :> 30)
    @@ ("el-timeouthandler" :> 5) @@ ("el-httpclient-readtimeout" :> 30) @@ ("el-httpclient-keep-alive" :> 30)
    @@ ("el-httpclient-tlshandshaketimeout" :> 10) @@ ("el-httpclient-responseheadertimeout" :> 10)
    @@ ("el-httpclient-expectcontinuetimeout" :> 1)

\* main: the Config that NewController gets
ElConfig(flags) ==
    [SetEventListenerEvent |-> flags["el-events"],
     ReadTimeOut |-> flags["el-readtimeout"], WriteTimeOut |-> flags["el-writetimeout"],
     IdleTimeOut |-> flags["el-idletimeout"], TimeOutHandler |-> flags["el-timeouthandler"],
     HTTPClientReadTimeOut |-> flags["el-httpclient-readtimeout"],
     HTTPClientKeepAlive |-> flags["el-httpclient-keep-alive"],
     HTTPClientTLSHandshakeTimeout |-> flags["el-httpclient-tlshandshaketimeout"],
     HTTPClientResponseHeaderTimeout |-> flags["el-httpclient-responseheadertimeout"],
     HTTPClientExpectContinueTimeout |-> flags["el-httpclient-expectcontinuetimeout"]]

\* The file of a secret's key, which is the directory if that is empty; "" without the
\* variable
CertFile(el, name) ==
    IF certEnv(el, name) = {} THEN ""
    ELSE LET key == CHOOSE k \in {e.key : e \in certEnv(el, name)} : TRUE
         IN  IF key = "" THEN "/etc/triggers/tls/" ELSE key

\* The arguments of the container, those of addCertsForSecureConnection included
ContainerArgs(el, c) ==
    ("el-name" :> el.name) @@ ("el-namespace" :> el.namespace) @@ ("port" :> FormatInt(eventListenerContainerPort))
    @@ ("readtimeout" :> FormatInt(c.ReadTimeOut)) @@ ("writetimeout" :> FormatInt(c.WriteTimeOut))
    @@ ("idletimeout" :> FormatInt(c.IdleTimeOut)) @@ ("timeouthandler" :> FormatInt(c.TimeOutHandler))
    @@ ("httpclient-readtimeout" :> FormatInt(c.HTTPClientReadTimeOut))
    @@ ("httpclient-keep-alive" :> FormatInt(c.HTTPClientKeepAlive))
    @@ ("httpclient-tlshandshaketimeout" :> FormatInt(c.HTTPClientTLSHandshakeTimeout))
    @@ ("httpclient-responseheadertimeout" :> FormatInt(c.HTTPClientResponseHeaderTimeout))
    @@ ("httpclient-expectcontinuetimeout" :> FormatInt(c.HTTPClientExpectContinueTimeout))
    @@ ("is-multi-ns" :> FormatBool(isMultiNS(el)))
    @@ ("payload-validation" :> FormatBool(el.payloadValidation # "false"))
    @@ ("cloudevent-uri" :> el.spec.cloudEventURI)
    @@ ("tls-cert" :> CertFile(el, "TLS_CERT")) @@ ("tls-key" :> CertFile(el, "TLS_KEY"))

-----------------------------------------------------------------------------
(* The sink *)

SinkFlags ==
    ("el-name" :> "") @@ ("el-namespace" :> "") @@ ("port" :> "")
    @@ ("readtimeout" :> 5) @@ ("writetimeout" :> 40) @@ ("idletimeout" :> 30) @@ ("timeouthandler" :> 5)
    @@ ("httpclient-readtimeout" :> 30) @@ ("httpclient-keep-alive" :> 30)
    @@ ("httpclient-tlshandshaketimeout" :> 10) @@ ("httpclient-responseheadertimeout" :> 10)
    @@ ("httpclient-expectcontinuetimeout" :> 1) @@ ("is-multi-ns" :> FALSE) @@ ("tls-cert" :> "")
    @@ ("tls-key" :> "") @@ ("payload-validation" :> TRUE) @@ ("cloudevent-uri" :> "")

Strings == {"el-name", "el-namespace", "port", "tls-cert", "tls-key", "cloudevent-uri"}
Bools == {"is-multi-ns", "payload-validation"}

\* flag.Parse: the set is empty if a flag is not known, in which case the process exits
FlagParse(args) ==
    IF ~(DOMAIN args \subseteq DOMAIN SinkFlags) THEN {}
    ELSE {[f \in DOMAIN SinkFlags |->
             CASE f \notin DOMAIN args -> SinkFlags[f]
               [] f \in Strings -> args[f]
               [] f \in Bools -> args[f] = "true"
               [] OTHER -> ParseDigits(args[f])]}

\* GetArgs: name, namespace and port have to be there
GetArgs(f) ==
    IF f["el-name"] = "" \/ f["el-namespace"] = "" \/ f["port"] = "" THEN {}
    ELSE {[ElName |-> f["el-name"], ElNamespace |-> f["el-namespace"], Port |-> f["port"],
           IsMultiNS |-> f["is-multi-ns"], PayloadValidation |-> f["payload-validation"],
           ELReadTimeOut |-> f["readtimeout"], ELWriteTimeOut |-> f["writetimeout"],
           ELIdleTimeOut |-> f["idletimeout"], ELTimeOutHandler |-> f["timeouthandler"],
           ElHTTPClientReadTimeOut |-> f["httpclient-readtimeout"],
           ElHTTPClientKeepAlive |-> f["httpclient-keep-alive"],
           ElHTTPClientTLSHandshakeTimeout |-> f["httpclient-tlshandshaketimeout"],
           ElHTTPClientResponseHeaderTimeout |-> f["httpclient-responseheadertimeout"],
           ElHTTPClientExpectContinueTimeout |-> f["httpclient-expectcontinuetimeout"],
           Cert |-> f["tls-cert"], Key |-> f["tls-key"], CloudEventURI |-> f["cloudevent-uri"]]}

\* The client that getHTTPClient makes
HTTPClient(a) ==
    [DialTimeout |-> a.ElHTTPClientReadTimeOut, KeepAlive |-> a.ElHTTPClientKeepAlive,
     TLSHandshakeTimeout |-> a.ElHTTPClientTLSHandshakeTimeout,
     ResponseHeaderTimeout |-> a.ElHTTPClientResponseHeaderTimeout,
     ExpectContinueTimeout |-> a.ElHTTPClientExpectContinueTimeout]

\* The server that Start makes, and whether it is served with TLS
HTTPServer(a) ==
    [Addr |-> a.Port, ReadHeaderTimeout |-> a.ELReadTimeOut, ReadTimeout |-> a.ELReadTimeOut,
     WriteTimeout |-> a.ELWriteTimeOut, IdleTimeout |-> a.ELIdleTimeOut, TimeoutHandler |-> a.ELTimeOutHandler,
     TLS |-> ~(a.Cert = "" /\ a.Key = "")]

\* What the flags of the controller promise of a sink (cmd/controller/main.go:41-66)
Promised(flags) ==
    [server |-> [Addr |-> FormatInt(eventListenerContainerPort),
                 ReadHeaderTimeout |-> flags["el-readtimeout"], ReadTimeout |-> flags["el-readtimeout"],
                 WriteTimeout |-> flags["el-writetimeout"], IdleTimeout |-> flags["el-idletimeout"],
                 TimeoutHandler |-> flags["el-timeouthandler"]],
     client |-> [DialTimeout |-> flags["el-httpclient-readtimeout"], KeepAlive |-> flags["el-httpclient-keep-alive"],
                 TLSHandshakeTimeout |-> flags["el-httpclient-tlshandshaketimeout"],
                 ResponseHeaderTimeout |-> flags["el-httpclient-responseheadertimeout"],
                 ExpectContinueTimeout |-> flags["el-httpclient-expectcontinuetimeout"]]]
=============================================================================
