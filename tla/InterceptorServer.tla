------------------------- MODULE InterceptorServer --------------------------
(***************************************************************************)
(* The process of the core interceptors (cmd/interceptors): how it starts, *)
(* serves and stops.  startServer waits for the signal on two channels     *)
(* that close together: the first leads to a shutdown that waits for the   *)
(* requests, the second out of the process.  What it serves is in          *)
(* CoreInterceptors, its certificates are in InterceptorCerts.             *)
(***************************************************************************)
EXTENDS Naturals

CONSTANTS Calls     \* requests to the server

VARIABLES
    main,       \* where main is; "waits" is eg.Wait
    exit,       \* why and with which code the process ended
    signals,    \* received: the first closes stop, the second ends the process
    listener,   \* the goroutine of ListenAndServeTLS
    shutdown,   \* the goroutine of Shutdown
    errgroup,   \* its context has ended
    inflight    \* call -> where it is

serverVars == <<main, exit, signals, listener, shutdown, errgroup, inflight>>

Running == [why |-> "", code |-> 0]

ServerInit ==
    /\ main = "start" /\ exit = Running /\ signals = 0
    /\ listener = "none" /\ shutdown = "none" /\ errgroup = FALSE
    /\ inflight = [c \in Calls |-> "none"]

\* The process ends, and with it every connection
Exit(why, code) ==
    /\ main' = "ended"
    /\ exit' = [why |-> why, code |-> code]
    /\ inflight' = [c \in Calls |-> IF inflight[c] = "open" THEN "lost" ELSE inflight[c]]

\* main up to startServer: an error of NewWithCoreInterceptors or of the client returns,
\* with code 0; an error with the certificates is fatal
MainServer ==
    /\ main = "start"
    /\ \/ main' = "select" /\ listener' = "listening" /\ UNCHANGED <<exit, inflight>>
       \/ Exit("init", 0) /\ listener' = listener
       \/ Exit("certs", 1) /\ listener' = listener
    /\ errgroup' = (signals > 0)
    /\ UNCHANGED <<signals, shutdown>>

\* ListenAndServeTLS fails, and the context of the group ends
ListenFails ==
    /\ main = "select" /\ listener = "listening"
    /\ inflight = [c \in Calls |-> "none"]
    /\ listener' = "failed" /\ errgroup' = TRUE
    /\ UNCHANGED <<main, exit, signals, shutdown, inflight>>

Signal ==
    /\ main # "ended"
    /\ signals < 2
    /\ signals' = signals + 1
    /\ IF signals = 0 THEN errgroup' = (main # "start" \/ errgroup) /\ UNCHANGED <<main, exit, inflight>>
       ELSE Exit("second signal", 1) /\ errgroup' = errgroup
    /\ UNCHANGED <<listener, shutdown>>

\* <-stop
StopBranch ==
    /\ main = "select" /\ signals > 0
    /\ main' = "waits" /\ shutdown' = "closing"
    /\ UNCHANGED <<exit, signals, listener, errgroup, inflight>>

\* <-ctx.Done()
DoneBranch ==
    /\ main = "select" /\ errgroup
    /\ Exit("bootstrap failed", 1)
    /\ UNCHANGED <<signals, listener, shutdown, errgroup>>

\* Shutdown closes the listener
CloseListener ==
    /\ main = "waits" /\ shutdown = "closing"
    /\ shutdown' = "draining"
    /\ listener' = IF listener = "listening" THEN "closed" ELSE listener
    /\ UNCHANGED <<main, exit, signals, errgroup, inflight>>

\* and returns when no connection is active
Drain ==
    /\ main = "waits" /\ shutdown = "draining"
    /\ \A c \in Calls : inflight[c] # "open"
    /\ shutdown' = "drained"
    /\ UNCHANGED <<main, exit, signals, listener, errgroup, inflight>>

\* Both goroutines have ended; the error is that the server is closed, which is fatal
Wait ==
    /\ main = "waits"
    /\ listener # "listening" /\ shutdown = "drained"
    /\ Exit("drained", 1)
    /\ UNCHANGED <<signals, listener, shutdown, errgroup>>

\* A request gets in while the server listens, and its handler, whose context may have
\* ended, answers
Arrive(c) ==
    /\ main # "ended" /\ listener = "listening"
    /\ inflight[c] = "none"
    /\ inflight' = [inflight EXCEPT ![c] = "open"]
    /\ UNCHANGED <<main, exit, signals, listener, shutdown, errgroup>>

ServeHTTP(c) ==
    /\ main # "ended"
    /\ inflight[c] = "open"
    /\ inflight' = [inflight EXCEPT ![c] = "answered"]
    /\ UNCHANGED <<main, exit, signals, listener, shutdown, errgroup>>

ServerNext ==
    \/ MainServer \/ ListenFails \/ Signal \/ StopBranch \/ DoneBranch \/ CloseListener \/ Drain \/ Wait
    \/ \E c \in Calls : Arrive(c) \/ ServeHTTP(c)

\* Goroutines go on (main besides, where it is run); handlers answer, their calls end with
\* the context
ServerFairness ==
    /\ WF_serverVars(StopBranch \/ DoneBranch)
    /\ WF_serverVars(CloseListener) /\ WF_serverVars(Drain) /\ WF_serverVars(Wait)
    /\ \A c \in Calls : WF_serverVars(ServeHTTP(c))

-----------------------------------------------------------------------------
(* Properties *)

\* The state has the shape of the code's data.
ServerTypeOK ==
    /\ main \in {"start", "select", "waits", "ended"}
    /\ listener \in {"none", "listening", "failed", "closed"}
    /\ shutdown \in {"none", "closing", "draining", "drained"}
    /\ signals \in 0..2 /\ errgroup \in BOOLEAN
    /\ inflight \in [Calls -> {"none", "open", "answered", "lost"}]

\* A process that leaves startServer through eg.Wait has answered every request that got in,
\* those that came while it was told to stop included (main.go:127-138).
StopWaits == exit.why = "drained" => \A c \in Calls : inflight[c] # "lost"

\* After a signal the process ends, whatever its requests and goroutines do and whenever
\* the signal comes (main.go:47-90 and 126-142).
EndsAfterSignal == []<>(signals = 0 \/ main = "ended")
=============================================================================
