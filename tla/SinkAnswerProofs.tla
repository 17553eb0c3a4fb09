-------------------------- MODULE SinkAnswerProofs --------------------------
(***************************************************************************)
(* What the sink tells agrees with what it does: the response of a request *)
(* and the events and metrics of its handler, and the events and metrics   *)
(* of the triggers.                                                        *)
(***************************************************************************)
EXTENDS SinkProofs

\* Zenon proves most leaves; those with arithmetic, or with large sets, name SMT
USE ZenonT(30)

-----------------------------------------------------------------------------
(* The response *)

\* Where the handler is before it has written a response
Before == {"idle", "validate", "get", "select", "merge", "respond"}

Untold(e) ==
    /\ emitted[e]["failed"] = 0 /\ emitted[e]["done"] = 0
    /\ received[e] = [succeeded |-> 0, failed |-> 0]

Refused(e) ==
    /\ \A p \in DOMAIN procs : EventOf(p) # e
    /\ emitted[e]["done"] = 0 /\ received[e].succeeded = 0

Accepted(e) ==
    /\ emitted[e]["failed"] = 0 /\ emitted[e]["done"] = 1
    /\ received[e] = [succeeded |-> 1, failed |-> 0]

\* The buffer of the TimeoutHandler says what was done, and the client is told just that,
\* or that the time is over
Told(e) ==
    /\ hpc[e] \in Before => buffered[e] = 0 /\ client[e] \in {0, 503} /\ Untold(e)
    /\ buffered[e] \in {400, 500} => Refused(e)
    /\ buffered[e] = 202 => Accepted(e)
    /\ buffered[e] # 503
    /\ client[e] \in {0, 503, buffered[e]}

AnswerInv == \A e \in Event : Told(e)

LEMMA AnswerInit == Init => AnswerInv
BY SMTT(30) DEF Init, AnswerInv, Told, Untold, Before, EmittedType

\* What the handler has written and told of e, and the goroutines of e
SameAnswer(e) ==
    /\ hpc'[e] = hpc[e] /\ buffered'[e] = buffered[e] /\ client'[e] = client[e]
    /\ received'[e] = received[e]
    /\ emitted'[e]["failed"] = emitted[e]["failed"] /\ emitted'[e]["done"] = emitted[e]["done"]
    /\ (\A p \in DOMAIN procs : EventOf(p) # e) => \A p \in DOMAIN procs' : EventOf(p) # e

LEMMA SameAnswerTold ==
    ASSUME NEW e, Told(e), SameAnswer(e)
    PROVE  Told(e)'
BY SMTT(30) DEF Told, SameAnswer, Untold, Refused, Accepted

\* The variables of Told, typed
LEMMA AnswerTyped ==
    ASSUME TypeInv
    PROVE  /\ hpc \in [Event -> HandlerPC]
           /\ buffered \in [Event -> Status] /\ client \in [Event -> Status]
           /\ received \in [Event -> [succeeded : Nat, failed : Nat]]
           /\ emitted \in [Event -> [EmittedType -> Nat]]
           /\ \A p \in DOMAIN procs : EventOf(p) \in Event
BY GoroutineKinds DEF TypeInv, TypeOK, HandlerType, WorkType

\* The events of another request, and the other events of a request, are left alone
LEMMA Emits ==
    ASSUME TypeInv, NEW e \in Event, NEW t \in EmittedType, Emit(e, t)
    PROVE  /\ \A f \in Event \ {e} : emitted'[f] = emitted[f]
           /\ \A u \in EmittedType : emitted'[e][u] = IF u = t THEN emitted[e][u] + 1
                                                               ELSE emitted[e][u]
BY AnswerTyped DEF Emit

\* A goroutine announces its success and nothing else of the request
LEMMA AnswerGoroutine ==
    ASSUME TypeInv, Sound, AnswerInv, NEW p \in DOMAIN procs, GoroutineStep(p)
    PROVE  AnswerInv'
<1> USE DEF handlerVars, listerVars
<1>1. UNCHANGED <<hpc, buffered, client, received>>
  BY DEF GoroutineStep, StartChain, CallWebhook, CallInterceptor, StartGroupTriggers, Resolve,
         CreateResource, TriggerSucceeds, GoroutineReturns
<1>2. p \in Goroutine /\ EventOf(p) \in Event
  BY AnswerTyped DEF TypeInv, TypeOK, WorkType
<1>3. \A e \in Event : /\ emitted'[e]["failed"] = emitted[e]["failed"]
                       /\ emitted'[e]["done"] = emitted[e]["done"]
  <2>1. CASE TriggerSucceeds(p)
    <3>1. Emit(EventOf(p), "successful")
      BY <2>1 DEF TriggerSucceeds
    <3> QED BY <1>2, <3>1, Emits DEF EmittedType
  <2>2. CASE ~TriggerSucceeds(p)
    BY <2>2 DEF GoroutineStep, StartChain, CallWebhook, CallInterceptor, StartGroupTriggers,
                Resolve, CreateResource, GoroutineReturns
  <2> QED BY <2>1, <2>2
<1>4. \A q \in DOMAIN procs' : q \in DOMAIN procs \/ EventOf(q) = EventOf(p)
  <2>1. CASE StartGroupTriggers(p)
    BY <2>1 DEF StartGroupTriggers, Started, Leave, Update, EventOf
  <2>2. CASE ~StartGroupTriggers(p)
    BY <2>2 DEF GoroutineStep, StartChain, CallWebhook, CallInterceptor, Resolve,
                CreateResource, TriggerSucceeds, GoroutineReturns, Leave, Update
  <2> QED BY <2>1, <2>2
<1>5. ASSUME NEW e \in Event PROVE SameAnswer(e)
  BY <1>1, <1>3, <1>4 DEF SameAnswer
<1> QED BY <1>5, SameAnswerTold DEF AnswerInv

\* The handler of one request leaves what was told of another alone
LEMMA AnswerOthers ==
    ASSUME TypeInv, Sound, NEW e \in Event, Receive(e) \/ HandlerStep(e) \/ TimeOut(e),
           NEW f \in Event, f # e
    PROVE  SameAnswer(f)
<1> USE DEF handlerVars, listerVars
<1>1. hpc'[f] = hpc[f] /\ buffered'[f] = buffered[f] /\ client'[f] = client[f]
  BY AnswerTyped DEF Receive, HandlerStep, TimeOut, RefusePayload, AcceptPayload,
     GetEventListener, SelectForEvent, StartGoroutines, Refuse, Respond, HandlerReturns, Goto,
     Write
<1>2. received'[f] = received[f]
  BY AnswerTyped DEF Receive, HandlerStep, TimeOut, RefusePayload, AcceptPayload,
     GetEventListener, SelectForEvent, StartGoroutines, Refuse, Respond, HandlerReturns
<1>3. emitted'[f] = emitted[f]
  BY AnswerTyped DEF Receive, HandlerStep, TimeOut, RefusePayload, AcceptPayload,
     GetEventListener, SelectForEvent, StartGoroutines, Refuse, Respond, HandlerReturns, Emit
<1>4. \A p \in DOMAIN procs' : p \in DOMAIN procs \/ EventOf(p) = e
  <2>1. CASE UNCHANGED procs
    BY <2>1
  <2>2. CASE StartGoroutines(e) /\ ~Refuse(e)
    BY <2>2 DEF StartGoroutines, Started, EventOf
  <2> QED BY <2>1, <2>2 DEF Receive, HandlerStep, TimeOut, RefusePayload, AcceptPayload,
        GetEventListener, SelectForEvent, StartGoroutines, Refuse, Respond, HandlerReturns
<1> QED BY <1>1, <1>2, <1>3, <1>4 DEF SameAnswer

\* No goroutine of e runs before its handler has started them
LEMMA NoneBefore ==
    ASSUME Sound, NEW e \in Event, hpc[e] \in Before \ {"respond"}
    PROVE  \A p \in DOMAIN procs : EventOf(p) # e
BY DEF Sound, SoundProc, Origin, Before

\* The handler writes a response that says that nothing was done
LEMMA AnswerRefuses ==
    ASSUME TypeInv, Sound, NEW e \in Event, Told(e), hpc[e] \in Before \ {"respond"},
           NEW status \in {400, 500}, Write(e, status), UNCHANGED <<client, procs>>,
           hpc'[e] = "return",
           emitted'[e]["done"] = emitted[e]["done"],
           received'[e].succeeded = received[e].succeeded
    PROVE  Told(e)'
<1>1. /\ buffered[e] = 0 /\ client[e] \in {0, 503} /\ emitted[e]["done"] = 0
      /\ received[e].succeeded = 0
  BY SMTT(30) DEF Told, Untold
<1>2. buffered'[e] = IF client[e] = 0 THEN status ELSE 0
  BY <1>1, AnswerTyped, SMTT(30) DEF Write
<1>3. Refused(e)'
  BY <1>1, NoneBefore, SMTT(30) DEF Refused
<1>4. hpc'[e] \notin Before /\ buffered'[e] \in {0, 400, 500} /\ client'[e] \in {0, 503}
  BY <1>1, <1>2, SMTT(30) DEF Before
<1> QED BY <1>3, <1>4, SMTT(30) DEF Told

\* The handler goes on without a response
LEMMA AnswerGoesOn ==
    ASSUME NEW e \in Event, Told(e), hpc[e] \in Before, hpc'[e] \in Before,
           buffered'[e] = buffered[e], client'[e] \in {0, 503}, received'[e] = received[e],
           emitted'[e]["failed"] = emitted[e]["failed"], emitted'[e]["done"] = emitted[e]["done"]
    PROVE  Told(e)'
BY SMTT(30) DEF Told, Untold

LEMMA AnswerHandler ==
    ASSUME TypeInv, Sound, NEW e \in Event, Told(e), Receive(e) \/ HandlerStep(e) \/ TimeOut(e)
    PROVE  Told(e)'
<1> USE DEF handlerVars, listerVars
<1>1. CASE Receive(e)
  <2>1. hpc[e] \in Before /\ hpc'[e] \in Before /\ UNCHANGED <<buffered, client, received, emitted>>
    BY <1>1, AnswerTyped DEF Receive, Goto, Before
  <2>2. client'[e] \in {0, 503}
    BY <2>1 DEF Told
  <2> QED BY <2>1, <2>2, AnswerGoesOn
<1>2. CASE RefusePayload(e)
  <2>1. /\ hpc[e] \in Before \ {"respond"} /\ hpc'[e] = "return"
        /\ UNCHANGED <<client, procs, emitted>>
    BY <1>2, AnswerTyped DEF RefusePayload, Goto, Before
  <2>2. received'[e].succeeded = received[e].succeeded
    BY <1>2, AnswerTyped DEF RefusePayload
  <2>3. Write(e, 400) \/ Write(e, 500)
    BY <1>2 DEF RefusePayload
  <2> QED BY <2>1, <2>2, <2>3, AnswerRefuses, SMTT(30)
<1>3. CASE AcceptPayload(e)
  <2>1. /\ hpc[e] \in Before /\ hpc'[e] \in Before /\ UNCHANGED <<buffered, client, received>>
        /\ Emit(e, "started")
    BY <1>3, AnswerTyped DEF AcceptPayload, Goto, Before
  <2>2. emitted'[e]["failed"] = emitted[e]["failed"] /\ emitted'[e]["done"] = emitted[e]["done"]
    BY <2>1, Emits DEF EmittedType
  <2>3. client'[e] \in {0, 503}
    BY <2>1 DEF Told
  <2> QED BY <2>1, <2>2, <2>3, AnswerGoesOn
<1>4. ASSUME Emit(e, "failed") PROVE emitted'[e]["done"] = emitted[e]["done"]
  BY <1>4, Emits DEF EmittedType
<1>5. CASE GetEventListener(e)
  <2>0. hpc[e] \in Before \ {"respond"} /\ UNCHANGED <<client, procs>>
    BY <1>5 DEF GetEventListener, Before
  <2>1. CASE spec # NoValue
    <3>1. hpc'[e] \in Before /\ UNCHANGED <<buffered, received, emitted>>
      BY <1>5, <2>1, AnswerTyped DEF GetEventListener, Goto, Before
    <3>2. client'[e] \in {0, 503}
      BY <2>0 DEF Told
    <3> QED BY <2>0, <3>1, <3>2, AnswerGoesOn
  <2>2. CASE spec = NoValue
    <3>1. hpc'[e] = "return" /\ Write(e, 500) /\ Emit(e, "failed")
      BY <1>5, <2>2, AnswerTyped DEF GetEventListener, Goto
    <3>2. received'[e].succeeded = received[e].succeeded
      BY <1>5, <2>2, AnswerTyped DEF GetEventListener
    <3> QED BY <1>4, <2>0, <3>1, <3>2, AnswerRefuses
  <2> QED BY <2>1, <2>2
<1>6. ASSUME Refuse(e), hpc[e] \in Before \ {"respond"}, UNCHANGED <<client, received>>
      PROVE  Told(e)'
  <2>1. hpc'[e] = "return" /\ Write(e, 500) /\ Emit(e, "failed") /\ UNCHANGED procs
    BY <1>6, AnswerTyped DEF Refuse, Goto
  <2> QED BY <1>4, <1>6, <2>1, AnswerRefuses, SMTT(30)
<1>7. CASE SelectForEvent(e) \/ StartGoroutines(e)
  <2>1. hpc[e] \in Before \ {"respond"} /\ UNCHANGED <<client, received>>
    BY <1>7 DEF SelectForEvent, StartGoroutines, Before
  <2>2. CASE Refuse(e)
    BY <1>6, <2>1, <2>2
  <2>3. CASE ~Refuse(e)
    <3>1. hpc'[e] \in Before /\ UNCHANGED <<buffered, emitted>>
      BY <1>7, <2>3, AnswerTyped DEF SelectForEvent, StartGoroutines, Goto, Before
    <3>2. client'[e] \in {0, 503}
      BY <2>1 DEF Told
    <3> QED BY <2>1, <3>1, <3>2, AnswerGoesOn
  <2> QED BY <2>2, <2>3
<1>8. CASE Respond(e)
  <2>1. /\ buffered[e] = 0 /\ client[e] \in {0, 503} /\ Untold(e)
    BY <1>8 DEF Respond, Told, Before
  <2>2. hpc'[e] = "return" /\ UNCHANGED client
    BY <1>8, AnswerTyped DEF Respond, Goto
  <2>3. buffered'[e] = IF client[e] = 0 THEN 202 ELSE 0
    BY <1>8, <2>1, AnswerTyped, SMTT(30) DEF Respond, Write
  <2>4. received'[e] = [succeeded |-> 1, failed |-> 0]
    BY <1>8, <2>1, AnswerTyped, SMTT(30) DEF Respond, Untold
  <2>5. emitted'[e]["done"] = 1 /\ (client[e] = 0 => emitted'[e]["failed"] = 0)
    BY <1>8, <2>1, AnswerTyped, SMTT(30) DEF Respond, Untold, EmittedType
  <2>6. buffered'[e] = 202 => Accepted(e)'
    BY <2>1, <2>3, <2>4, <2>5, SMTT(30) DEF Accepted
  <2> QED BY <2>1, <2>2, <2>3, <2>6, SMTT(30) DEF Told, Before
<1>9. CASE HandlerReturns(e)
  <2>1. /\ hpc'[e] = "end" /\ UNCHANGED <<buffered, received, emitted, procs>>
        /\ client'[e] = IF client[e] = 0 THEN buffered[e] ELSE client[e]
    BY <1>9, AnswerTyped DEF HandlerReturns, Goto
  <2>2. client'[e] \in {0, 503, buffered'[e]} /\ hpc'[e] \notin Before
    BY <2>1 DEF Told, Before
  <2> QED BY <2>1, <2>2, SMTT(30) DEF Told, Refused, Accepted
<1>10. CASE TimeOut(e)
  <2>1. /\ UNCHANGED <<hpc, buffered, received, emitted, procs>>
        /\ client'[e] = 503
    BY <1>10, AnswerTyped, SMTT(30) DEF TimeOut
  <2> QED BY <2>1, SMTT(30) DEF Told, Refused, Accepted, Untold
<1> QED BY <1>1, <1>2, <1>3, <1>5, <1>7, <1>8, <1>9, <1>10 DEF HandlerStep

LEMMA AnswerStep == Inv /\ AnswerInv /\ [Next]_vars => AnswerInv'
<1> SUFFICES ASSUME TypeInv, Sound, AnswerInv, [Next]_vars PROVE AnswerInv'
  BY DEF Inv
<1>1. CASE \E e \in Event : Receive(e) \/ HandlerStep(e) \/ TimeOut(e)
  <2>1. PICK e \in Event : Receive(e) \/ HandlerStep(e) \/ TimeOut(e)
    BY <1>1
  <2>2. Told(e)'
    BY <2>1, AnswerHandler DEF AnswerInv
  <2>3. ASSUME NEW f \in Event, f # e PROVE Told(f)'
    BY <2>1, <2>3, AnswerOthers, SameAnswerTold DEF AnswerInv
  <2> QED BY <2>2, <2>3 DEF AnswerInv
<1>2. CASE \E p \in DOMAIN procs : GoroutineStep(p)
  BY <1>2, AnswerGoroutine
<1>3. CASE ChangeTriggers \/ ChangeEventListener \/ UNCHANGED vars
  <2>1. UNCHANGED <<hpc, buffered, client, received, emitted, procs>>
    BY <1>3 DEF ChangeTriggers, ChangeEventListener, vars, handlerVars
  <2>2. \A e \in Event : SameAnswer(e)
    BY <2>1 DEF SameAnswer
  <2> QED BY <2>2, SameAnswerTold DEF AnswerInv
<1> QED BY <1>1, <1>2, <1>3 DEF Next, Quiescent

\* The client is never told one thing and the operator another, however the timeout, the
\* handler and the goroutines of all events interleave: 400 and 500 stand for an event that
\* started nothing, 202 for one that is counted as succeeded and reported done once
\* (HandleEvent and the http.TimeoutHandler around it).
THEOREM AnswersAgree == Spec => []AnswerMatchesWork
<1>1. Init => AnswerInv
  BY AnswerInit
<1>2. AnswerInv => AnswerMatchesWork
  <2> SUFFICES ASSUME AnswerInv, NEW e \in Event
               PROVE  /\ client[e] \in {400, 500} => Refused(e)
                      /\ client[e] = 202 => Accepted(e)
    BY SMTT(30) DEF AnswerMatchesWork, Refused, Accepted
  <2> QED BY SMTT(30) DEF AnswerInv, Told
<1> QED BY <1>1, <1>2, AnswerStep, Invariance, PTL DEF Spec

-----------------------------------------------------------------------------
(* The announcements of success *)

\* The triggers that are through, those of one event, and what they have made
SuccessfulRuns == {p \in DOMAIN procs : ~IsGroup(p) /\ procs[p].outcome = "done"}
SuccessfulFor(e) == {p \in SuccessfulRuns : EventOf(p) = e}
TheirResources == {c \in created : c[1] \in SuccessfulRuns}

CountInv ==
    /\ IsFiniteSet(created)
    /\ recorded = Cardinality(TheirResources)
    /\ \A e \in Event : emitted[e]["successful"] = Cardinality(SuccessfulFor(e))

LEMMA CountInit == Init => CountInv
<1> SUFFICES ASSUME Init PROVE CountInv
  OBVIOUS
<1>1. created = {} /\ TheirResources = {} /\ \A e \in Event : SuccessfulFor(e) = {}
  BY DEF Init, TheirResources, SuccessfulFor, SuccessfulRuns
<1>2. \A e \in Event : emitted[e]["successful"] = 0
  BY DEF Init, EmittedType
<1> QED BY <1>1, <1>2, FS_EmptySet DEF Init, CountInv

\* A step in which no trigger succeeds; it may make a resource for one that runs
LEMMA CountSame ==
    ASSUME CountInv, SuccessfulRuns' = SuccessfulRuns, UNCHANGED recorded,
           \A e \in Event : emitted'[e]["successful"] = emitted[e]["successful"],
           \/ UNCHANGED created
           \/ \E c : created' = created \union {c} /\ c[1] \notin SuccessfulRuns
    PROVE  CountInv'
<1>1. TheirResources' = TheirResources
  BY DEF TheirResources
<1>2. IsFiniteSet(created')
  BY FS_AddElement DEF CountInv
<1>3. \A e \in Event : SuccessfulFor(e)' = SuccessfulFor(e)
  BY DEF SuccessfulFor
<1> QED BY <1>1, <1>2, <1>3 DEF CountInv

\* The record of one goroutine changes, and it does not become a successful one
LEMMA SuccessfulUpdate ==
    ASSUME NEW p \in DOMAIN procs, NEW r, Update(p, r),
           \/ procs[p].outcome # "done" /\ r.outcome # "done"
           \/ procs[p].outcome = r.outcome
    PROVE  SuccessfulRuns' = SuccessfulRuns
BY DEF SuccessfulRuns, Update

LEMMA SuccessfulSame ==
    ASSUME Inv, NEW p \in DOMAIN procs, GoroutineStep(p), ~TriggerSucceeds(p)
    PROVE  SuccessfulRuns' = SuccessfulRuns
<1>1. procs[p] \in Proc /\ p \in Goroutine /\ SoundProc(p)
  BY DEF Inv, TypeInv, TypeOK, WorkType, Sound
<1>2. procs[p].pc # "end" /\ procs[p].pc # "return" => procs[p].outcome = "running"
  BY <1>1 DEF SoundProc, PointSound
<1>3. ASSUME NEW outcome \in {"stopped", "failed"}, Leave(p, outcome), procs[p].outcome = "running"
      PROVE  SuccessfulRuns' = SuccessfulRuns
  <2>1. [procs[p] EXCEPT !.pc = "return", !.outcome = outcome].outcome = outcome
    BY <1>1 DEF Proc
  <2> QED BY <1>3, <2>1, SuccessfulUpdate DEF Leave
<1>4. ASSUME NEW r \in Proc, r.outcome = procs[p].outcome, Update(p, Passed(p, r))
      PROVE  SuccessfulRuns' = SuccessfulRuns
  <2>1. Passed(p, r).outcome = r.outcome
    BY <1>4 DEF Passed, Proc
  <2> QED BY <1>4, <2>1, SuccessfulUpdate
<1>5. CASE StartChain(p)
  <2>1. /\ [procs[p] EXCEPT !.ext = PassedExtensions(p), !.pc = AfterChain(p)].outcome
               = procs[p].outcome
        /\ [procs[p] EXCEPT !.ext = PassedExtensions(p), !.pc = "call",
                            !.body = FormToJSON(@, procs[p].header)].outcome = procs[p].outcome
    BY <1>1 DEF Proc
  <2> QED BY <1>5, <2>1, SuccessfulUpdate DEF StartChain
<1>6. CASE CallWebhook(p)
  <2>1. ASSUME NEW body \in Body, NEW header \in Header
        PROVE  /\ [procs[p] EXCEPT !.body = body, !.header = header] \in Proc
               /\ [procs[p] EXCEPT !.body = body, !.header = header].outcome = procs[p].outcome
    BY <1>1 DEF Proc
  <2>2. procs[p].outcome = "running"
    BY <1>2, <1>6 DEF CallWebhook
  <2> QED BY <1>3, <1>4, <1>6, <2>1, <2>2 DEF CallWebhook
<1>7. CASE CallInterceptor(p)
  <2>1. ASSUME NEW keys \in SUBSET ExtKey,
               Update(p, Passed(p, [procs[p] EXCEPT
                   !.ext = [k \in ExtKey |-> IF k \in keys THEN p ELSE @[k]]]))
        PROVE  SuccessfulRuns' = SuccessfulRuns
    <3> DEFINE r == [procs[p] EXCEPT !.ext = [k \in ExtKey |-> IF k \in keys THEN p ELSE @[k]]]
    <3>1. [k \in ExtKey |-> IF k \in keys THEN p ELSE procs[p].ext[k]] \in Extensions
      BY <1>1 DEF Proc, Extensions
    <3>2. r \in Proc /\ r.outcome = procs[p].outcome
      BY <1>1, <3>1 DEF Proc
    <3> QED BY <1>4, <2>1, <3>2
  <2>2. procs[p].outcome = "running"
    BY <1>2, <1>7 DEF CallInterceptor
  <2> QED BY <1>3, <1>7, <2>1, <2>2 DEF CallInterceptor
<1>8. CASE StartGroupTriggers(p)
  <2> DEFINE selector == GroupSelector[GroupOf(p)]
             new == {EventOf(p)} \X {GroupOf(p)} \X SelectTriggers(selector)
             old == [procs EXCEPT ![p].pc = "return", ![p].outcome = "done"]
  <2>1. procs[p].outcome = "running" /\ IsGroup(p) /\ GroupOf(p) \in Group
    BY <1>1, <1>2, <1>8, GoroutineKinds DEF StartGroupTriggers, SoundProc, PointSound
  <2>2. CASE selector.labels = InvalidSelector
    BY <1>3, <1>8, <2>1, <2>2 DEF StartGroupTriggers
  <2>3. CASE selector.labels # InvalidSelector
    <3>1. procs' = Started(old, new, EventOf(p), procs[p].header)
      BY <1>8, <2>3 DEF StartGroupTriggers
    <3>2. new \intersect DOMAIN procs = {}
      <4> SUFFICES ASSUME NEW q \in new, q \in DOMAIN procs PROVE FALSE
        OBVIOUS
      <4>1. InGroup(q) /\ GroupGoroutine(q) = p
        <5>1. SelectTriggers(selector) \subseteq Job
          BY <2>1, SelectTriggersType, SinkAssumption DEF Inv, TypeInv, TypeOK, ListerType
        <5>2. GroupGoroutine(p) = p
          BY <1>1, <2>1, GoroutineKinds
        <5> QED BY <2>1, <5>1, <5>2, NamesAssumption
                DEF InGroup, GroupOf, JobOf, EventOf, GroupGoroutine
      <4>2. procs[p].outcome = "done"
        BY <4>1 DEF Inv, Sound, SoundProc, Origin
      <4> QED BY <2>1, <4>2
    <3>3. /\ DOMAIN old = DOMAIN procs
          /\ \A q \in DOMAIN procs : q # p => old[q] = procs[q]
      OBVIOUS
    <3> HIDE DEF new, old
    <3>4. /\ DOMAIN procs' = DOMAIN procs \union new
          /\ \A q \in DOMAIN procs : q # p => procs'[q] = procs[q]
          /\ \A q \in new : procs'[q].outcome = "running"
      BY <3>1, <3>2, <3>3 DEF Started, NewProc
    <3> QED BY <2>1, <3>2, <3>4 DEF SuccessfulRuns
  <2> QED BY <2>2, <2>3
<1>9. CASE Resolve(p)
  <2>1. [procs[p] EXCEPT !.pc = "create"].outcome = procs[p].outcome
    BY <1>1 DEF Proc
  <2>2. procs[p].outcome = "running"
    BY <1>2, <1>9 DEF Resolve
  <2> QED BY <1>3, <1>9, <2>1, <2>2, SuccessfulUpdate DEF Resolve
<1>10. CASE CreateResource(p)
  <2>1. [procs[p] EXCEPT !.made = @ + 1].outcome = procs[p].outcome
    BY <1>1 DEF Proc
  <2>2. procs[p].outcome = "running"
    BY <1>2, <1>10 DEF CreateResource
  <2> QED BY <1>3, <1>10, <2>1, <2>2, SuccessfulUpdate DEF CreateResource
<1>11. CASE GoroutineReturns(p)
  <2>1. [procs[p] EXCEPT !.pc = "end"].outcome = procs[p].outcome
    BY <1>1 DEF Proc
  <2> QED BY <1>11, <2>1, SuccessfulUpdate DEF GoroutineReturns
<1> QED BY <1>5, <1>6, <1>7, <1>8, <1>9, <1>10, <1>11 DEF GoroutineStep

\* A trigger of n resources, when it is through, has made those and no other
LEMMA ResourcesOfOne ==
    ASSUME Inv, NEW p \in DOMAIN procs, ~IsGroup(p),
           procs[p].made = NumResources[TriggerOf(p)]
    PROVE  /\ IsFiniteSet({c \in created : c[1] = p})
           /\ Cardinality({c \in created : c[1] = p}) = NumResources[TriggerOf(p)]
<1> DEFINE n == NumResources[TriggerOf(p)]
           f == [m \in 1..n |-> <<p, m>>]
           S == {c \in created : c[1] = p}
<1>1. SoundProc(p) /\ p \in Goroutine /\ created \subseteq Goroutine \X Nat
  BY DEF Inv, TypeInv, TypeOK, WorkType, Sound
<1>2. n \in Nat
  BY <1>1, GoroutineKinds
<1>3. \A m \in Nat : <<p, m>> \in created <=> m \in 1..n
  BY <1>1 DEF SoundProc, MadeSound
<1>4. S = {<<p, m>> : m \in 1..n}
  <2>1. \A c \in S : c[2] \in Nat /\ c = <<p, c[2]>>
    BY <1>1, SMTT(30)
  <2> QED BY <1>2, <1>3, <2>1, SMTT(30)
<1>5. f \in Bijection(1..n, S)
  BY <1>4 DEF Bijection, Injection, Surjection, IsInjective
<1>6. IsFiniteSet(1..n) /\ Cardinality(1..n) = n
  <2>1. IsFiniteSet(1..n) /\ Cardinality(1..n) = IF 1 > n THEN 0 ELSE n - 1 + 1
    <3>1. 1 \in Int /\ n \in Int
      BY <1>2, SMTT(30)
    <3> QED BY <3>1, FS_Interval
  <2> QED BY <1>2, <2>1, SMTT(30)
<1>7. IsFiniteSet(S) /\ Cardinality(S) = Cardinality(1..n)
  <2>1. ExistsBijection(1..n, S)
    BY <1>5 DEF ExistsBijection
  <2> HIDE DEF n, S
  <2> QED BY <1>6, <2>1, FS_Bijection
<1> QED BY <1>6, <1>7

\* A trigger succeeds: it and its resources are counted, once
LEMMA CountSucceeds ==
    ASSUME Inv, CountInv, NEW p \in DOMAIN procs, TriggerSucceeds(p)
    PROVE  CountInv'
<1>1. procs[p] \in Proc /\ p \in Goroutine /\ SoundProc(p)
  BY DEF Inv, TypeInv, TypeOK, WorkType, Sound
<1>2. /\ ~IsGroup(p) /\ procs[p].outcome = "running" /\ EventOf(p) \in Event
      /\ procs[p].made = NumResources[TriggerOf(p)] /\ NumResources[TriggerOf(p)] \in Nat
  BY <1>1, GoroutineKinds DEF TriggerSucceeds, SoundProc, PointSound
<1>3. p \notin SuccessfulRuns /\ SuccessfulRuns' = SuccessfulRuns \union {p}
  <2>1. [procs[p] EXCEPT !.pc = "return", !.outcome = "done"].outcome = "done"
    BY <1>1 DEF Proc
  <2>2. /\ DOMAIN procs' = DOMAIN procs /\ procs'[p].outcome = "done"
        /\ \A q \in DOMAIN procs \ {p} : procs'[q] = procs[q]
    BY <2>1 DEF TriggerSucceeds, Leave, Update
  <2> QED BY <1>2, <2>2 DEF SuccessfulRuns
<1>4. UNCHANGED created /\ recorded' = recorded + NumResources[TriggerOf(p)]
  BY DEF TriggerSucceeds
<1>5. IsFiniteSet(TheirResources) /\ IsFiniteSet(created')
  BY <1>4, FS_Subset DEF CountInv, TheirResources
<1>6. recorded' = Cardinality(TheirResources')
  <2> DEFINE S == {c \in created : c[1] = p}
  <2>1. TheirResources' = TheirResources \union S /\ TheirResources \intersect S = {}
    BY <1>3, <1>4 DEF TheirResources
  <2>2. IsFiniteSet(S) /\ Cardinality(S) = NumResources[TriggerOf(p)]
    BY <1>2, ResourcesOfOne
  <2> HIDE DEF S
  <2>3. Cardinality(TheirResources') = Cardinality(TheirResources) + Cardinality(S)
    BY <1>5, <2>1, <2>2, DisjointCardinality
  <2> QED BY <1>4, <2>2, <2>3 DEF CountInv
<1>7. ASSUME NEW e \in Event
      PROVE  emitted'[e]["successful"] = Cardinality(SuccessfulFor(e)')
  <2>1. emitted'[e]["successful"] = IF e = EventOf(p) THEN emitted[e]["successful"] + 1
                                                      ELSE emitted[e]["successful"]
    <3>1. Emit(EventOf(p), "successful")
      BY DEF TriggerSucceeds
    <3> QED BY <1>2, <3>1, Emits DEF Inv, EmittedType
  <2>2. CASE e = EventOf(p)
    <3>1. SuccessfulFor(e)' = SuccessfulFor(e) \union {p} /\ p \notin SuccessfulFor(e)
      BY <1>3, <2>2 DEF SuccessfulFor
    <3>2. IsFiniteSet(SuccessfulFor(e))
      BY FS_Subset DEF SuccessfulFor, SuccessfulRuns, Inv, TypeInv, Finite
    <3>3. Cardinality(SuccessfulFor(e)') = Cardinality(SuccessfulFor(e)) + 1
      BY <3>1, <3>2, FS_AddElement
    <3> QED BY <2>1, <2>2, <3>3 DEF CountInv
  <2>3. CASE e # EventOf(p)
    <3>1. SuccessfulFor(e)' = SuccessfulFor(e)
      BY <1>3, <2>3 DEF SuccessfulFor
    <3> QED BY <2>1, <2>3, <3>1 DEF CountInv
  <2> QED BY <2>2, <2>3
<1> QED BY <1>5, <1>6, <1>7 DEF CountInv

LEMMA CountGoroutine ==
    ASSUME Inv, CountInv, NEW p \in DOMAIN procs, GoroutineStep(p)
    PROVE  CountInv'
<1>1. CASE TriggerSucceeds(p)
  BY <1>1, CountSucceeds
<1>2. CASE ~TriggerSucceeds(p)
  <2>1. SuccessfulRuns' = SuccessfulRuns
    BY <1>2, SuccessfulSame
  <2>2. UNCHANGED <<recorded, emitted>>
    BY <1>2 DEF GoroutineStep, StartChain, CallWebhook, CallInterceptor, StartGroupTriggers,
                Resolve, CreateResource, GoroutineReturns
  <2>3. CASE CreateResource(p)
    <3>1. p \notin SuccessfulRuns
      BY <2>3 DEF CreateResource, SuccessfulRuns, Inv, Sound, SoundProc, PointSound
    <3>2. <<p, procs[p].made + 1>>[1] \notin SuccessfulRuns
      BY <3>1
    <3>3. UNCHANGED created \/ created' = created \union {<<p, procs[p].made + 1>>}
      BY <2>3 DEF CreateResource
    <3>4. \/ UNCHANGED created
          \/ \E c : created' = created \union {c} /\ c[1] \notin SuccessfulRuns
      BY <3>2, <3>3, Zenon
    <3> QED BY <2>1, <2>2, <3>4, CountSame
  <2>4. CASE ~CreateResource(p)
    <3>1. UNCHANGED created
      BY <1>2, <2>4 DEF GoroutineStep, StartChain, CallWebhook, CallInterceptor,
                        StartGroupTriggers, Resolve, GoroutineReturns
    <3> QED BY <2>1, <2>2, <3>1, CountSame
  <2> QED BY <2>3, <2>4
<1> QED BY <1>1, <1>2

LEMMA CountHandler ==
    ASSUME Inv, CountInv, NEW e \in Event, Receive(e) \/ HandlerStep(e) \/ TimeOut(e)
    PROVE  CountInv'
<1> USE DEF handlerVars, listerVars
<1>1. UNCHANGED <<recorded, created>>
  BY DEF Receive, HandlerStep, TimeOut, RefusePayload, AcceptPayload, GetEventListener,
         SelectForEvent, StartGoroutines, Respond, HandlerReturns
<1>2. \A f \in Event : emitted'[f]["successful"] = emitted[f]["successful"]
  <2>1. emitted \in [Event -> [EmittedType -> Nat]]
    BY AnswerTyped DEF Inv
  <2>2. CASE Respond(e)
    BY <2>1, <2>2 DEF Respond, EmittedType
  <2>3. CASE \E t \in {"started", "failed"} : Emit(e, t)
    BY <2>1, <2>3, SMTT(30) DEF Emit, EmittedType
  <2> QED BY <2>2, <2>3 DEF Receive, HandlerStep, TimeOut, RefusePayload, AcceptPayload,
             GetEventListener, SelectForEvent, StartGoroutines, Refuse, HandlerReturns
<1>3. SuccessfulRuns' = SuccessfulRuns
  <2>1. CASE UNCHANGED procs
    BY <2>1 DEF SuccessfulRuns
  <2>2. CASE StartGoroutines(e) /\ ~Refuse(e)
    <3> DEFINE new == ({e} \X {NoGroup} \X jobs'[e]) \union ({e} \X el[e].groups \X {NoJob})
    <3>1. procs' = Started(procs, new, e, request[e].header) /\ hpc[e] = "merge"
      BY <2>2 DEF StartGoroutines
    <3>2. \A p \in new : EventOf(p) = e
      BY DEF EventOf
    <3> HIDE DEF new
    <3>3. new \intersect DOMAIN procs = {}
      BY <3>1, <3>2 DEF Inv, Sound, SoundProc, Origin
    <3>4. /\ DOMAIN procs' = DOMAIN procs \union new
          /\ \A p \in new : procs'[p].outcome = "running"
          /\ \A p \in DOMAIN procs : procs'[p] = procs[p]
      BY <3>1, <3>3 DEF Started, NewProc
    <3> QED BY <3>4 DEF SuccessfulRuns
  <2> QED BY <2>1, <2>2 DEF Receive, HandlerStep, TimeOut, RefusePayload, AcceptPayload,
             GetEventListener, SelectForEvent, StartGoroutines, Refuse, Respond, HandlerReturns
<1> QED BY <1>1, <1>2, <1>3, CountSame

\* Every announcement of success, and every resource that the metric counts, stands for a
\* trigger that made its whole list; one that failed made a proper prefix of it, one that
\* was stopped nothing (CreateResources, processTrigger), for any number of events,
\* groups, triggers and resources.
THEOREM SuccessIsWhole == Spec => []SuccessfulMeansAllCreated
<1>1. Inv /\ CountInv /\ [Next]_vars => CountInv'
  <2> SUFFICES ASSUME Inv, CountInv, [Next]_vars PROVE CountInv'
    OBVIOUS
  <2>1. CASE ChangeTriggers \/ ChangeEventListener \/ UNCHANGED vars
    <3>1. UNCHANGED <<procs, created, recorded, emitted>>
      BY <2>1 DEF ChangeTriggers, ChangeEventListener, vars, handlerVars
    <3>2. SuccessfulRuns' = SuccessfulRuns
      BY <3>1 DEF SuccessfulRuns
    <3> QED BY <3>1, <3>2, CountSame
  <2> QED BY <2>1, CountHandler, CountGoroutine DEF Next, Quiescent
<1>2. ASSUME Inv, CountInv PROVE SuccessfulMeansAllCreated
  <2>1. ASSUME NEW p \in DOMAIN procs
        PROVE  SoundProc(p) /\ procs[p].made \in Nat /\ p \in Goroutine
    BY <1>2 DEF Inv, TypeInv, TypeOK, WorkType, Sound, Proc
  <2>2. {c \in created : procs[c[1]].outcome = "done"} = TheirResources
    <3>1. ASSUME NEW c \in created PROVE c[1] \in DOMAIN procs /\ ~IsGroup(c[1])
      <4>1. c[1] \in DOMAIN procs /\ c[2] \in Nat /\ c = <<c[1], c[2]>>
        BY <1>2, <3>1, SMTT(30) DEF Inv, TypeInv, TypeOK, WorkType, Sound
      <4>2. c[2] \in 1..procs[c[1]].made
        BY <2>1, <4>1 DEF SoundProc, MadeSound
      <4> QED BY <2>1, <4>1, <4>2, SMTT(30) DEF SoundProc, MadeSound
    <3> QED BY <3>1 DEF TheirResources, SuccessfulRuns
  <2>3. ASSUME NEW e \in Event
        PROVE  {p \in DOMAIN procs : /\ EventOf(p) = e
                                     /\ ~IsGroup(p)
                                     /\ procs[p].outcome = "done"} = SuccessfulFor(e)
    BY DEF SuccessfulFor, SuccessfulRuns
  <2>4. ASSUME NEW p \in DOMAIN procs, ~IsGroup(p)
        PROVE  LET n == NumResources[TriggerOf(p)]
                   made == {m \in 1..n : <<p, m>> \in created}
               IN  /\ procs[p].outcome = "done" => made = 1..n
                   /\ procs[p].outcome = "failed"
                         => \E m \in 0..n : made = 1..m /\ (m = n => n = 0)
                   /\ procs[p].outcome = "stopped" => made = {}
    <3> DEFINE n == NumResources[TriggerOf(p)]
               k == procs[p].made
               made == {m \in 1..n : <<p, m>> \in created}
    <3>1. n \in Nat /\ k \in Nat
      BY <2>1, <2>4, GoroutineKinds
    <3>2. /\ \A m \in Nat : <<p, m>> \in created <=> m \in 1..k
          /\ k <= n
          /\ procs[p].outcome = "done" => k = n
          /\ procs[p].outcome = "failed" => k < n \/ k = 0
          /\ procs[p].outcome = "stopped" => k = 0
      BY <2>1, <2>4 DEF SoundProc, MadeSound
    <3> HIDE DEF n, k
    <3>3. made = 1..k
      BY <3>1, <3>2, SMTT(30)
    <3> HIDE DEF made
    <3>4. k \in 0..n /\ (procs[p].outcome = "failed" => (k = n => n = 0))
      BY <3>1, <3>2, SMTT(30)
    <3>5. procs[p].outcome = "stopped" => made = {}
      BY <3>2, <3>3, SMTT(30)
    <3>6. procs[p].outcome = "failed" => \E m \in 0..n : made = 1..m /\ (m = n => n = 0)
      BY <3>3, <3>4, Zenon
    <3>7. procs[p].outcome = "done" => made = 1..n
      BY <3>2, <3>3
    <3> QED BY <3>5, <3>6, <3>7 DEF n, made
  <2> QED BY <1>2, <2>2, <2>3, <2>4 DEF CountInv, SuccessfulMeansAllCreated
<1> QED BY <1>1, <1>2, CountInit, Invariance, PTL DEF Spec

=============================================================================
