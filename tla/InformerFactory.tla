-------------------------- MODULE InformerFactory ---------------------------
(***************************************************************************)
(* The generated sharedInformerFactory: informers are asked for, started,  *)
(* waited for and shut down by several callers.  What a method does under  *)
(* the lock is one step.  An informer's goroutine runs until the channel   *)
(* that it was started with is closed.                                     *)
(***************************************************************************)
EXTENDS Naturals, FiniteSets

CONSTANTS
    Callers,
    InformerTypes,          \* of informers
    Channels,       \* stop channels
    CustomResync,   \* types for which WithCustomResyncConfig gives a period
    MaxCalls        \* in all

VARIABLES
    informers,      \* type -> the period it was made with; types asked for so far
    startedInformers,
    runs,           \* informers' goroutines: type, channel
    wg,             \* counter of the WaitGroup
    shuttingDown,
    synced,         \* types whose caches have synced
    closed,         \* channels
    calls,          \* caller -> the call it is in
    callsLeft            \* calls to be made

factoryVars == <<informers, startedInformers, runs, wg, shuttingDown, synced, closed, calls, callsLeft>>

NoCall == [pc |-> "none", channel |-> "", asked |-> {}, waits |-> {}, res |-> {}]

\* NewSharedInformerFactoryWithOptions
FactoryInit ==
    /\ informers = {}
    /\ startedInformers = {} /\ runs = {} /\ wg = 0
    /\ shuttingDown = FALSE
    /\ synced = {} /\ closed = {}
    /\ calls = [c \in Callers |-> NoCall] /\ callsLeft = MaxCalls

MayCall(c) == calls[c].pc \notin {"stopping", "waiting"} /\ callsLeft > 0 /\ callsLeft' = callsLeft - 1

Returned(c) == calls' = [calls EXCEPT ![c] = [NoCall EXCEPT !.pc = "returned"]]

\* An informer is made once, with the type's own period if it has one
InformerFor(c, t) ==
    /\ MayCall(c)
    /\ informers' = IF \E i \in informers : i.type = t THEN informers
                    ELSE informers \union {[type |-> t, resync |-> IF t \in CustomResync THEN "custom" ELSE "default"]}
    /\ Returned(c)
    /\ UNCHANGED <<startedInformers, runs, wg, shuttingDown, synced, closed>>

\* Mutant: the factory may be shutting down
StartFactoryAnyway(c, ch) ==
    LET new == {i.type : i \in informers} \ startedInformers
    IN  /\ MayCall(c)
        /\ wg' = wg + Cardinality(new)
        /\ runs' = runs \union (new \X {ch})
        /\ startedInformers' = startedInformers \union new
        /\ Returned(c)
        /\ UNCHANGED <<informers, shuttingDown, synced, closed>>

\* Start: those that have not been started
StartFactory(c, ch) ==
    LET new == IF shuttingDown THEN {} ELSE {i.type : i \in informers} \ startedInformers
    IN  /\ MayCall(c)
        /\ wg' = wg + Cardinality(new)
        /\ runs' = runs \union (new \X {ch})
        /\ startedInformers' = startedInformers \union new
        /\ Returned(c)
        /\ UNCHANGED <<informers, shuttingDown, synced, closed>>

\* Shutdown, up to the wait
Shutdown(c) ==
    /\ MayCall(c)
    /\ shuttingDown' = TRUE
    /\ calls' = [calls EXCEPT ![c] = [NoCall EXCEPT !.pc = "stopping"]]
    /\ UNCHANGED <<informers, startedInformers, runs, wg, synced, closed>>

ShutdownReturns(c) ==
    /\ calls[c].pc = "stopping"
    /\ wg = 0
    /\ calls' = [calls EXCEPT ![c].pc = "stopped"]
    /\ UNCHANGED <<informers, startedInformers, runs, wg, shuttingDown, synced, closed, callsLeft>>

\* WaitForCacheSync: those that have been started by now are waited for
WaitForCacheSync(c, ch) ==
    /\ MayCall(c)
    /\ calls' = [calls EXCEPT ![c] = [NoCall EXCEPT !.pc = "waiting", !.channel = ch, !.asked = startedInformers,
                                        !.waits = startedInformers]]
    /\ UNCHANGED <<informers, startedInformers, runs, wg, shuttingDown, synced, closed>>

\* One after the other, in any order
WaitForOne(c, t) ==
    /\ calls[c].pc = "waiting"
    /\ t \in calls[c].waits
    /\ t \in synced \/ calls[c].channel \in closed
    /\ calls' = [calls EXCEPT ![c].waits = @ \ {t},
                              ![c].res = @ \union (IF t \in synced THEN {t} ELSE {})]
    /\ UNCHANGED <<informers, startedInformers, runs, wg, shuttingDown, synced, closed, callsLeft>>

WaitReturns(c) ==
    /\ calls[c].pc = "waiting" /\ calls[c].waits = {}
    /\ calls' = [calls EXCEPT ![c].pc = "waited"]
    /\ UNCHANGED <<informers, startedInformers, runs, wg, shuttingDown, synced, closed, callsLeft>>

-----------------------------------------------------------------------------
(* The goroutines and the channels *)

Sync(t) ==
    /\ \E run \in runs : run[1] = t
    /\ synced' = synced \union {t}
    /\ UNCHANGED <<informers, startedInformers, runs, wg, shuttingDown, closed, calls, callsLeft>>

\* Mutant: the end is not counted if the cache never synced
RunEndsUncounted(run) ==
    /\ run \in runs
    /\ run[2] \in closed
    /\ runs' = runs \ {run}
    /\ wg' = IF run[1] \in synced THEN wg - 1 ELSE wg
    /\ UNCHANGED <<informers, startedInformers, shuttingDown, synced, closed, calls, callsLeft>>

RunEnds(run) ==
    /\ run \in runs
    /\ run[2] \in closed
    /\ runs' = runs \ {run}
    /\ wg' = wg - 1
    /\ UNCHANGED <<informers, startedInformers, shuttingDown, synced, closed, calls, callsLeft>>

CloseChannel(ch) ==
    /\ ch \notin closed
    /\ closed' = closed \union {ch}
    /\ UNCHANGED <<informers, startedInformers, runs, wg, shuttingDown, synced, calls, callsLeft>>

FactoryNext ==
    \/ \E c \in Callers : \/ \E t \in InformerTypes : InformerFor(c, t) \/ WaitForOne(c, t)
                          \/ \E ch \in Channels : StartFactory(c, ch) \/ WaitForCacheSync(c, ch)
                          \/ Shutdown(c) \/ ShutdownReturns(c) \/ WaitReturns(c)
    \/ \E t \in InformerTypes : Sync(t)
    \/ \E run \in InformerTypes \X Channels : RunEnds(run)
    \/ \E ch \in Channels : CloseChannel(ch)

\* Goroutines end once their channel is closed, and waits return
FactoryFairness ==
    /\ \A run \in InformerTypes \X Channels : WF_factoryVars(RunEnds(run))
    /\ \A c \in Callers : /\ WF_factoryVars(ShutdownReturns(c))
                          /\ WF_factoryVars(WaitReturns(c) \/ \E t \in InformerTypes : WaitForOne(c, t))

-----------------------------------------------------------------------------
(* Properties *)

\* The state has the shape of the code's data; every type has at most one informer, and
\* that at most one goroutine.
FactoryTypeOK ==
    /\ \A i, j \in informers : i.type = j.type => i = j
    /\ \A a, b \in runs : a[1] = b[1] => a = b
    /\ startedInformers \subseteq {i.type : i \in informers}
    /\ wg \in Nat

\* "All such calls will block until all goroutines have terminated" (factory.go:243), and none starts after that, whoever
\* calls Start, and when (factory.go:125-156).
NothingRunsAfterShutdown == (\E c \in Callers : calls[c].pc = "stopped") => runs = {}

\* "WaitForCacheSync blocks until all started informers' caches were synced or the stop
\* channel gets closed" (factory.go:247): what was started when it was called, however
\* Starts and Shutdowns interleave, is synced or reported as not synced.
WaitIsForAllStarted ==
    \A c \in Callers : calls[c].pc = "waited" =>
        \/ calls[c].channel \in closed
        \/ calls[c].asked = calls[c].res /\ calls[c].res \subseteq synced

\* Every Shutdown returns, once the channels are closed that informers were started with
\* ("either before Shutdown gets called or while it is waiting", factory.go:241).
ShutdownEnds == \A c \in Callers : []<>(calls[c].pc # "stopping" \/ closed # Channels)
=============================================================================
