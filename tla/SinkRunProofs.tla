---------------------------- MODULE SinkRunProofs ----------------------------
(***************************************************************************)
(* The goroutines of the sink together, for any number of events, groups   *)
(* and triggers: what they share, the WaitGroup and the extensions of a    *)
(* group, and that every step of Sink is a step of TriggerRuns or leaves   *)
(* its state alone.                                                        *)
(***************************************************************************)
EXTENDS SinkProofs

\* Zenon proves most leaves; those with arithmetic, or with large sets, name SMT
USE ZenonT(30)

-----------------------------------------------------------------------------
(* The WaitGroup *)

LEMMA WaitGroupInit == Init => WaitGroupCountsGoroutines
<1> SUFFICES ASSUME Init PROVE WaitGroupCountsGoroutines
  OBVIOUS
<1>1. Live = {}
  BY DEF Init, Live
<1> QED BY <1>1, FS_EmptySet DEF Init, WaitGroupCountsGoroutines

\* Add before the goroutines start
LEMMA WaitGroupAdd ==
    ASSUME Inv, WaitGroupCountsGoroutines, NEW new, IsFiniteSet(new),
           new \intersect DOMAIN procs = {}, Live' = Live \union new,
           wg' = wg + Cardinality(new)
    PROVE  WaitGroupCountsGoroutines'
<1>1. IsFiniteSet(Live) /\ Live \intersect new = {}
  BY FS_Subset DEF Inv, TypeInv, Finite, Live
<1>3. Cardinality(Live \union new) = Cardinality(Live) + Cardinality(new)
  BY <1>1, DisjointCardinality
<1> QED BY <1>3 DEF WaitGroupCountsGoroutines

LEMMA WaitGroupHandler ==
    ASSUME Inv, WaitGroupCountsGoroutines, NEW e \in Event,
           Receive(e) \/ HandlerStep(e) \/ TimeOut(e)
    PROVE  WaitGroupCountsGoroutines'
<1>1. CASE ~StartGoroutines(e) \/ Refuse(e)
  <2>1. UNCHANGED <<procs, wg>>
    BY <1>1 DEF Receive, HandlerStep, TimeOut, RefusePayload, AcceptPayload, GetEventListener,
                SelectForEvent, StartGoroutines, Refuse, Respond, HandlerReturns
  <2> QED BY <2>1 DEF WaitGroupCountsGoroutines, Live
<1>2. CASE StartGoroutines(e) /\ ~Refuse(e)
  <2> DEFINE new == ({e} \X {NoGroup} \X jobs'[e]) \union ({e} \X el[e].groups \X {NoJob})
  <2>1. /\ procs' = Started(procs, new, e, request[e].header)
        /\ wg' = wg + Cardinality(new)
        /\ hpc[e] = "merge"
    BY <1>2 DEF StartGoroutines
  <2>2. \A p \in new : EventOf(p) = e
    BY DEF EventOf
  <2>3. TypeInv'
    BY TypeHandler DEF Inv
  <2> HIDE DEF new
  <2>4. new \intersect DOMAIN procs = {}
    BY <2>1, <2>2 DEF Inv, Sound, SoundProc, Origin
  <2>5. /\ DOMAIN procs' = DOMAIN procs \union new
        /\ \A p \in new : procs'[p].pc = "start"
        /\ \A p \in DOMAIN procs : procs'[p] = procs[p]
    BY <2>1, <2>4 DEF Started, NewProc
  <2>6. Live' = Live \union new
    BY <2>5 DEF Live
  <2>7. IsFiniteSet(new)
    BY <2>3, <2>5, FS_Subset DEF TypeInv, Finite
  <2> QED BY <2>1, <2>4, <2>6, <2>7, WaitGroupAdd
<1> QED BY <1>1, <1>2

LEMMA WaitGroupGoroutine ==
    ASSUME Inv, WaitGroupCountsGoroutines, NEW p \in DOMAIN procs, GoroutineStep(p)
    PROVE  WaitGroupCountsGoroutines'
<1>1. procs[p] \in Proc /\ p \in Goroutine /\ SoundProc(p)
  BY DEF Inv, TypeInv, TypeOK, WorkType, Sound
<1>2. ASSUME UNCHANGED wg, NEW r, Update(p, r), r.pc # "end", procs[p].pc # "end"
      PROVE  WaitGroupCountsGoroutines'
  <2>1. Live' = Live
    BY <1>2 DEF Live, Update
  <2> QED BY <1>2, <2>1 DEF WaitGroupCountsGoroutines
<1>3. ASSUME UNCHANGED wg, NEW outcome, Leave(p, outcome), procs[p].pc # "end"
      PROVE  WaitGroupCountsGoroutines'
  <2>1. [procs[p] EXCEPT !.pc = "return", !.outcome = outcome].pc = "return"
    BY <1>1 DEF Proc
  <2> QED BY <1>2, <1>3, <2>1 DEF Leave
<1>4. CASE StartChain(p)
  <2>1. AfterChain(p) # "end"
    BY DEF AfterChain
  <2>2. /\ [procs[p] EXCEPT !.ext = PassedExtensions(p), !.pc = AfterChain(p)].pc # "end"
        /\ [procs[p] EXCEPT !.ext = PassedExtensions(p), !.pc = "call",
                            !.body = FormToJSON(@, procs[p].header)].pc # "end"
    BY <1>1, <2>1 DEF Proc
  <2> QED BY <1>2, <1>4, <2>2 DEF StartChain
<1>5. ASSUME NEW r \in Proc, r.pc = "call"
      PROVE  Passed(p, r).pc # "end"
  BY <1>5, SMTT(30) DEF Passed, Proc, AfterChain
<1>6. CASE CallWebhook(p)
  <2>1. ASSUME NEW body \in Body, NEW header \in Header
        PROVE  Passed(p, [procs[p] EXCEPT !.body = body, !.header = header]).pc # "end"
    <3>1. /\ [procs[p] EXCEPT !.body = body, !.header = header] \in Proc
          /\ [procs[p] EXCEPT !.body = body, !.header = header].pc = "call"
      BY <1>1, <1>6 DEF CallWebhook, Proc
    <3> QED BY <1>5, <3>1
  <2> QED BY <1>2, <1>3, <1>6, <2>1 DEF CallWebhook
<1>7. CASE CallInterceptor(p)
  <2>1. ASSUME NEW keys \in SUBSET ExtKey
        PROVE  Passed(p, [procs[p] EXCEPT
                   !.ext = [k \in ExtKey |-> IF k \in keys THEN p ELSE @[k]]]).pc # "end"
    <3> DEFINE r == [procs[p] EXCEPT !.ext = [k \in ExtKey |-> IF k \in keys THEN p ELSE @[k]]]
    <3>1. [k \in ExtKey |-> IF k \in keys THEN p ELSE procs[p].ext[k]] \in Extensions
      BY <1>1 DEF Proc, Extensions
    <3>2. r \in Proc /\ r.pc = "call"
      BY <1>1, <1>7, <3>1 DEF CallInterceptor, Proc
    <3> QED BY <1>5, <3>2
  <2> QED BY <1>2, <1>3, <1>7, <2>1 DEF CallInterceptor
<1>8. CASE StartGroupTriggers(p)
  <2> DEFINE selector == GroupSelector[GroupOf(p)]
             new == {EventOf(p)} \X {GroupOf(p)} \X SelectTriggers(selector)
             old == [procs EXCEPT ![p].pc = "return", ![p].outcome = "done"]
  <2>1. CASE selector.labels = InvalidSelector
    BY <1>3, <1>8, <2>1 DEF StartGroupTriggers
  <2>2. CASE selector.labels # InvalidSelector
    <3>1. /\ procs' = Started(old, new, EventOf(p), procs[p].header)
          /\ wg' = wg + Cardinality(new)
          /\ procs[p].pc = "select"
      BY <1>8, <2>2 DEF StartGroupTriggers
    <3>2. /\ DOMAIN old = DOMAIN procs
          /\ \A q \in DOMAIN procs : q # p => old[q] = procs[q]
          /\ old[p].pc = "return"
      BY <1>1 DEF Proc
    <3>3. IsGroup(p) /\ procs[p].outcome = "running" /\ GroupOf(p) \in Group
      BY <1>1, <3>1, GoroutineKinds DEF SoundProc, PointSound
    <3>4. SelectTriggers(selector) \subseteq Job
      BY <3>3, SelectTriggersType, SinkAssumption DEF Inv, TypeInv, TypeOK, ListerType
    <3>5. \A q \in new : InGroup(q) /\ GroupGoroutine(q) = p
      <4>1. GroupGoroutine(p) = p
        BY <1>1, <3>3, GoroutineKinds
      <4> QED BY <3>3, <3>4, <4>1, NamesAssumption DEF InGroup, GroupOf, JobOf, EventOf, GroupGoroutine
    <3>6. TypeInv'
      BY TypeGoroutine DEF Inv
    <3> HIDE DEF new, old, selector
    <3>7. new \intersect DOMAIN procs = {}
      BY <3>3, <3>5 DEF Inv, Sound, SoundProc, Origin
    <3>8. /\ DOMAIN procs' = DOMAIN procs \union new
          /\ \A q \in new : procs'[q].pc = "start"
          /\ \A q \in DOMAIN procs : procs'[q] = old[q]
      BY <3>1, <3>2, <3>7 DEF Started, NewProc
    <3>9. Live' = Live \union new
      BY <3>1, <3>2, <3>8, SMTT(30) DEF Live
    <3>10. IsFiniteSet(new)
      BY <3>6, <3>8, FS_Subset DEF TypeInv, Finite
    <3> QED BY <3>1, <3>7, <3>9, <3>10, WaitGroupAdd
  <2> QED BY <2>1, <2>2
<1>9. CASE Resolve(p)
  <2>1. [procs[p] EXCEPT !.pc = "create"].pc # "end"
    BY <1>1 DEF Proc
  <2> QED BY <1>2, <1>3, <1>9, <2>1 DEF Resolve
<1>10. CASE CreateResource(p)
  <2>1. [procs[p] EXCEPT !.made = @ + 1].pc = procs[p].pc
    BY <1>1 DEF Proc
  <2> QED BY <1>2, <1>3, <1>10, <2>1 DEF CreateResource
<1>11. CASE TriggerSucceeds(p)
  BY <1>3, <1>11 DEF TriggerSucceeds
<1>12. CASE GoroutineReturns(p)
  <2>1. procs' = [procs EXCEPT ![p] = [procs[p] EXCEPT !.pc = "end"]] /\ wg' = wg - 1 /\ procs[p].pc = "return"
    BY <1>12 DEF GoroutineReturns, Update
  <2>2. [procs[p] EXCEPT !.pc = "end"].pc = "end"
    BY <1>1 DEF Proc
  <2>3. p \in Live /\ Live' = Live \ {p}
    BY <2>1, <2>2 DEF Live
  <2>4. IsFiniteSet(Live)
    BY FS_Subset DEF Inv, TypeInv, Finite, Live
  <2> QED BY <2>1, <2>3, <2>4, FS_RemoveElement DEF WaitGroupCountsGoroutines
<1> QED BY <1>4, <1>6, <1>7, <1>8, <1>9, <1>10, <1>11, <1>12 DEF GoroutineStep

\* WGProcessTriggers counts the goroutines that have not returned, whatever the
\* number of events, groups and triggers: it never goes below zero, and is zero
\* only when all of them are through.
THEOREM WaitGroupCorrect == Spec => []WaitGroupCountsGoroutines
<1>1. Inv /\ WaitGroupCountsGoroutines /\ [Next]_vars => WaitGroupCountsGoroutines'
  <2> SUFFICES ASSUME Inv, WaitGroupCountsGoroutines, [Next]_vars
               PROVE  WaitGroupCountsGoroutines'
    OBVIOUS
  <2>1. CASE UNCHANGED vars \/ ChangeTriggers \/ ChangeEventListener
    BY <2>1 DEF vars, ChangeTriggers, ChangeEventListener, WaitGroupCountsGoroutines, Live
  <2>2. CASE \E e \in Event : Receive(e) \/ HandlerStep(e) \/ TimeOut(e)
    BY <2>2, WaitGroupHandler
  <2>3. CASE \E p \in DOMAIN procs : GoroutineStep(p)
    BY <2>3, WaitGroupGoroutine
  <2> QED BY <2>1, <2>2, <2>3 DEF Next, Quiescent
<1> QED BY <1>1, WaitGroupInit, Invariance, PTL DEF Spec

-----------------------------------------------------------------------------
(* The extensions *)

Flow(p, k) ==
    \* A group that has passed its chain has copied what it gathered into the shared map
    /\ IsGroup(p) /\ (procs[p].pc = "select" \/ procs[p].outcome = "done")
          => (procs[p].ext[k] # NoValue => procs[p].shared[k] # NoValue)
    \* A trigger of the group has copied the shared map
    /\ InGroup(p) /\ procs[p].pc \in {"call", "resolve", "create"}
          => (procs[GroupGoroutine(p)].shared[k] # NoValue => procs[p].ext[k] # NoValue)

ExtInv ==
    /\ ExtensionsIsolated
    /\ \A p \in DOMAIN procs : \A k \in ExtKey : Flow(p, k)

LEMMA ExtInit == Init => ExtInv
BY DEF Init, ExtInv, ExtensionsIsolated

LEMMA ExtUnchanged == ExtInv /\ UNCHANGED procs => ExtInv'
BY SMTT(30) DEF ExtInv, ExtensionsIsolated, Flow

LEMMA ExtUpdate ==
    ASSUME Inv, ExtInv, NEW p \in DOMAIN procs, NEW r, Update(p, r),
           procs[p].outcome = "done" => r.shared = procs[p].shared,
           \A k \in ExtKey :
               /\ r.ext[k] \in {NoValue, p, GroupGoroutine(p)}
               /\ r.shared[k] \in {NoValue, p}
               /\ IsGroup(p) /\ (r.pc = "select" \/ r.outcome = "done")
                     => (r.ext[k] # NoValue => r.shared[k] # NoValue)
               /\ InGroup(p) /\ r.pc \in {"call", "resolve", "create"}
                     => (procs[GroupGoroutine(p)].shared[k] # NoValue => r.ext[k] # NoValue)
    PROVE  ExtInv'
<1>1. /\ DOMAIN procs' = DOMAIN procs
      /\ procs'[p] = r
      /\ \A q \in DOMAIN procs : q # p => procs'[q] = procs[q]
  BY DEF Update
<1>2. ExtensionsIsolated'
  BY <1>1 DEF ExtInv, ExtensionsIsolated
<1>3. ASSUME NEW q \in DOMAIN procs, NEW k \in ExtKey PROVE Flow(q, k)'
  <2>1. Flow(q, k)
    BY DEF ExtInv
  <2>2. InGroup(q) => /\ GroupGoroutine(q) \in DOMAIN procs
                      /\ procs'[GroupGoroutine(q)].shared = procs[GroupGoroutine(q)].shared
    BY <1>1, SMTT(30) DEF Inv, Sound, SoundProc, Origin
  <2>3. CASE q = p
    BY <1>1, <2>2, <2>3 DEF Flow
  <2>4. CASE q # p
    BY <1>1, <2>1, <2>2, <2>4 DEF Flow
  <2> QED BY <2>3, <2>4
<1> QED BY <1>1, <1>2, <1>3 DEF ExtInv

\* A step that leaves the extensions alone
LEMMA ExtSame ==
    ASSUME Inv, ExtInv, NEW p \in DOMAIN procs, NEW r, Update(p, r),
           r.ext = procs[p].ext, r.shared = procs[p].shared,
           r.pc # "select",
           IsGroup(p) /\ r.outcome = "done" => procs[p].outcome = "done",
           r.pc \in {"call", "resolve", "create"} => procs[p].pc \in {"call", "resolve", "create"}
    PROVE  ExtInv'
<1>1. \A k \in ExtKey : /\ Flow(p, k)
                        /\ procs[p].ext[k] \in {NoValue, p, GroupGoroutine(p)}
                        /\ procs[p].shared[k] \in {NoValue, p}
  BY DEF ExtInv, ExtensionsIsolated
<1>2. \A k \in ExtKey :
          /\ r.ext[k] \in {NoValue, p, GroupGoroutine(p)}
          /\ r.shared[k] \in {NoValue, p}
          /\ IsGroup(p) /\ (r.pc = "select" \/ r.outcome = "done")
                => (r.ext[k] # NoValue => r.shared[k] # NoValue)
          /\ InGroup(p) /\ r.pc \in {"call", "resolve", "create"}
                => (procs[GroupGoroutine(p)].shared[k] # NoValue => r.ext[k] # NoValue)
  BY <1>1 DEF Flow
<1> QED BY <1>2, ExtUpdate

LEMMA ExtLeave ==
    ASSUME Inv, ExtInv, NEW p \in DOMAIN procs, NEW outcome \in Outcome, Leave(p, outcome),
           IsGroup(p) => outcome # "done"
    PROVE  ExtInv'
<1> DEFINE r == [procs[p] EXCEPT !.pc = "return", !.outcome = outcome]
<1>1. /\ r.ext = procs[p].ext /\ r.shared = procs[p].shared
      /\ r.pc = "return" /\ r.outcome = outcome
  BY DEF Inv, TypeInv, TypeOK, WorkType, Proc
<1>2. Update(p, r)
  BY DEF Leave
<1> HIDE DEF r
<1> QED BY <1>1, <1>2, ExtSame

\* An interceptor lets the event pass, and may have set extensions
LEMMA ExtPassed ==
    ASSUME Inv, ExtInv, NEW p \in DOMAIN procs, NEW r \in Proc, Update(p, Passed(p, r)),
           procs[p].pc = "call", r.pc = "call", r.outcome = procs[p].outcome,
           r.shared = procs[p].shared,
           \A k \in ExtKey : r.ext[k] \in {procs[p].ext[k], p}
    PROVE  ExtInv'
<1> DEFINE s == Passed(p, r)
<1>1. p \in Goroutine /\ SoundProc(p) /\ procs[p] \in Proc
  BY DEF Inv, TypeInv, TypeOK, WorkType, Sound
<1>2. p # NoValue /\ (IsGroup(p) => GroupGoroutine(p) = p) /\ ~(IsGroup(p) /\ InGroup(p))
  BY <1>1, GoroutineKinds, NamesAssumption DEF IsGroup, InGroup
<1>3. \A k \in ExtKey : /\ Flow(p, k)
                        /\ procs[p].ext[k] \in {NoValue, p, GroupGoroutine(p)}
                        /\ procs[p].shared[k] \in {NoValue, p}
  BY DEF ExtInv, ExtensionsIsolated
<1>4. procs[p].outcome = "running"
  BY <1>1 DEF SoundProc, PointSound
<1>5. s.ext = r.ext /\ s.outcome = "running"
  BY <1>4 DEF Passed, Proc
<1>6. CASE ~IsGroup(p) \/ r.next < Len(Chain(p))
  <2>1. s.shared = procs[p].shared /\ s.pc \in {"call", AfterChain(p)}
    BY <1>6 DEF Passed, Proc
  <2>2. s.pc = "select" => ~IsGroup(p)
    BY <1>6 DEF Passed, Proc
  <2> HIDE DEF s
  <2>3. \A k \in ExtKey :
          /\ s.ext[k] \in {NoValue, p, GroupGoroutine(p)}
          /\ s.shared[k] \in {NoValue, p}
          /\ IsGroup(p) /\ (s.pc = "select" \/ s.outcome = "done")
                => (s.ext[k] # NoValue => s.shared[k] # NoValue)
          /\ InGroup(p) /\ s.pc \in {"call", "resolve", "create"}
                => (procs[GroupGoroutine(p)].shared[k] # NoValue => s.ext[k] # NoValue)
    BY <1>2, <1>3, <1>5, <2>1, <2>2 DEF Flow
  <2> QED BY <1>4, <2>3, ExtUpdate, SMTT(30) DEF s
<1>7. CASE IsGroup(p) /\ ~(r.next < Len(Chain(p)))
  <2>1. s.shared = Overlay(procs[p].shared, r.ext)
    BY <1>7 DEF Passed, Proc
  <2> HIDE DEF s
  <2>2. \A k \in ExtKey :
          s.shared[k] = IF r.ext[k] = NoValue THEN procs[p].shared[k] ELSE r.ext[k]
    BY <2>1 DEF Overlay
  <2>3. \A k \in ExtKey :
          /\ s.ext[k] \in {NoValue, p, GroupGoroutine(p)}
          /\ s.shared[k] \in {NoValue, p}
          /\ IsGroup(p) /\ (s.pc = "select" \/ s.outcome = "done")
                => (s.ext[k] # NoValue => s.shared[k] # NoValue)
          /\ InGroup(p) /\ s.pc \in {"call", "resolve", "create"}
                => (procs[GroupGoroutine(p)].shared[k] # NoValue => s.ext[k] # NoValue)
    BY <1>2, <1>3, <1>5, <1>7, <2>2
  <2> QED BY <1>4, <2>3, ExtUpdate, SMTT(30) DEF s
<1> QED BY <1>6, <1>7

\* Goroutines are started with no extensions; the others keep theirs
LEMMA ExtStart ==
    ASSUME Inv, ExtInv, NEW new,
           DOMAIN procs' = DOMAIN procs \union new, new \intersect DOMAIN procs = {},
           \A q \in new : /\ procs'[q].ext = NoExtensions /\ procs'[q].shared = NoExtensions
                          /\ procs'[q].pc = "start" /\ procs'[q].outcome = "running",
           \A q \in DOMAIN procs :
               /\ procs'[q].ext = procs[q].ext /\ procs'[q].shared = procs[q].shared
               /\ \/ procs'[q].pc = procs[q].pc /\ procs'[q].outcome = procs[q].outcome
                  \/ procs[q].pc = "select" /\ procs'[q].pc = "return"
    PROVE  ExtInv'
<1>1. \A k \in ExtKey : NoExtensions[k] = NoValue
  BY DEF NoExtensions
<1>2. ExtensionsIsolated'
  BY <1>1 DEF ExtInv, ExtensionsIsolated
<1>3. ASSUME NEW q \in DOMAIN procs, NEW k \in ExtKey PROVE Flow(q, k)'
  <2>1. Flow(q, k)
    BY DEF ExtInv
  <2>2. InGroup(q) => GroupGoroutine(q) \in DOMAIN procs
    BY DEF Inv, Sound, SoundProc, Origin
  <2> QED BY <2>1, <2>2 DEF Flow
<1>4. ASSUME NEW q \in new, NEW k \in ExtKey PROVE Flow(q, k)'
  BY DEF Flow
<1> QED BY <1>2, <1>3, <1>4 DEF ExtInv

LEMMA ExtHandler ==
    ASSUME Inv, ExtInv, NEW e \in Event, Receive(e) \/ HandlerStep(e) \/ TimeOut(e)
    PROVE  ExtInv'
<1>1. CASE ~StartGoroutines(e) \/ Refuse(e)
  <2>1. UNCHANGED procs
    BY <1>1 DEF Receive, HandlerStep, TimeOut, RefusePayload, AcceptPayload, GetEventListener,
                SelectForEvent, StartGoroutines, Refuse, Respond, HandlerReturns
  <2> QED BY <2>1, ExtUnchanged
<1>2. CASE StartGoroutines(e) /\ ~Refuse(e)
  <2> DEFINE new == ({e} \X {NoGroup} \X jobs'[e]) \union ({e} \X el[e].groups \X {NoJob})
  <2>1. procs' = Started(procs, new, e, request[e].header) /\ hpc[e] = "merge"
    BY <1>2 DEF StartGoroutines
  <2>2. \A p \in new : EventOf(p) = e
    BY DEF EventOf
  <2> HIDE DEF new
  <2>3. new \intersect DOMAIN procs = {}
    BY <2>1, <2>2 DEF Inv, Sound, SoundProc, Origin
  <2>4. /\ DOMAIN procs' = DOMAIN procs \union new
        /\ \A q \in new : procs'[q] = NewProc(e, request[e].header)
        /\ \A q \in DOMAIN procs : procs'[q] = procs[q]
    BY <2>1, <2>3 DEF Started
  <2>5. \A q \in new : /\ procs'[q].ext = NoExtensions /\ procs'[q].shared = NoExtensions
                       /\ procs'[q].pc = "start" /\ procs'[q].outcome = "running"
    BY <2>4, SMTT(30) DEF NewProc
  <2> QED BY <2>3, <2>4, <2>5, ExtStart
<1> QED BY <1>1, <1>2

LEMMA ExtGoroutine ==
    ASSUME Inv, ExtInv, NEW p \in DOMAIN procs, GoroutineStep(p)
    PROVE  ExtInv'
<1>1. procs[p] \in Proc /\ p \in Goroutine /\ SoundProc(p)
  BY DEF Inv, TypeInv, TypeOK, WorkType, Sound
<1>2. \A k \in ExtKey : /\ procs[p].ext[k] \in {NoValue, p, GroupGoroutine(p)}
                        /\ procs[p].shared[k] \in {NoValue, p}
  BY DEF ExtInv, ExtensionsIsolated
<1>3. procs[p].pc \notin {"return", "end"} => procs[p].outcome = "running"
  BY <1>1 DEF SoundProc, PointSound
<1>4. CASE StartChain(p)
  <2> DEFINE r == IF Chain(p) = <<>>
                    THEN [procs[p] EXCEPT !.ext = PassedExtensions(p), !.pc = AfterChain(p)]
                    ELSE [procs[p] EXCEPT !.ext = PassedExtensions(p), !.pc = "call",
                                          !.body = FormToJSON(@, procs[p].header)]
  <2>1. Update(p, r) /\ procs[p].pc = "start"
    BY <1>4 DEF StartChain
  <2>2. /\ r.ext = PassedExtensions(p) /\ r.shared = procs[p].shared
        /\ r.outcome = procs[p].outcome
    BY <1>1 DEF Proc
  <2> HIDE DEF r
  <2>3. InGroup(p) => /\ GroupGoroutine(p) \in DOMAIN procs
                      /\ GroupGoroutine(GroupGoroutine(p)) = GroupGoroutine(p)
    BY <1>1 DEF SoundProc, Origin, GroupGoroutine, EventOf, GroupOf
  <2>4. ~InGroup(p) => PassedExtensions(p) = procs[p].shared
    BY DEF PassedExtensions
  <2>5. InGroup(p) => PassedExtensions(p) = procs[GroupGoroutine(p)].shared
    BY DEF PassedExtensions
  <2>6. InGroup(p) => ~IsGroup(p)
    BY DEF InGroup, IsGroup
  <2>7. \A k \in ExtKey :
          InGroup(p) => procs[GroupGoroutine(p)].shared[k] \in {NoValue, GroupGoroutine(p)}
    BY <2>3 DEF ExtInv, ExtensionsIsolated
  <2>8. \A k \in ExtKey :
          /\ r.ext[k] \in {NoValue, p, GroupGoroutine(p)}
          /\ r.shared[k] \in {NoValue, p}
          /\ IsGroup(p) /\ (r.pc = "select" \/ r.outcome = "done")
                => (r.ext[k] # NoValue => r.shared[k] # NoValue)
          /\ InGroup(p) /\ r.pc \in {"call", "resolve", "create"}
                => (procs[GroupGoroutine(p)].shared[k] # NoValue => r.ext[k] # NoValue)
    BY <1>2, <2>2, <2>4, <2>5, <2>6, <2>7, SMTT(30)
  <2> QED BY <2>1, <2>2, <2>8, ExtUpdate, SMTT(30)
<1>5. CASE CallWebhook(p)
  <2>1. ASSUME NEW body \in Body, NEW header \in Header,
               Update(p, Passed(p, [procs[p] EXCEPT !.body = body, !.header = header]))
        PROVE  ExtInv'
    <3> DEFINE r == [procs[p] EXCEPT !.body = body, !.header = header]
    <3>1. /\ r \in Proc /\ r.pc = "call" /\ r.outcome = procs[p].outcome
          /\ r.shared = procs[p].shared /\ r.ext = procs[p].ext /\ procs[p].pc = "call"
      BY <1>1, <1>5 DEF CallWebhook, Proc
    <3>2. Update(p, Passed(p, r))
      BY <2>1
    <3> HIDE DEF r
    <3> QED BY <3>1, <3>2, ExtPassed, SMTT(30)
  <2> QED BY <1>5, <2>1, ExtLeave DEF CallWebhook, Outcome
<1>6. CASE CallInterceptor(p)
  <2>1. ASSUME NEW keys \in SUBSET ExtKey,
               Update(p, Passed(p, [procs[p] EXCEPT
                   !.ext = [k \in ExtKey |-> IF k \in keys THEN p ELSE @[k]]]))
        PROVE  ExtInv'
    <3> DEFINE x == [k \in ExtKey |-> IF k \in keys THEN p ELSE procs[p].ext[k]]
               r == [procs[p] EXCEPT !.ext = x]
    <3>1. x \in Extensions /\ \A k \in ExtKey : x[k] \in {procs[p].ext[k], p}
      BY <1>1 DEF Proc, Extensions
    <3>2. Update(p, Passed(p, r))
      BY <2>1
    <3> HIDE DEF x
    <3>3. /\ r \in Proc /\ r.pc = "call" /\ r.outcome = procs[p].outcome
          /\ r.shared = procs[p].shared /\ r.ext = x /\ procs[p].pc = "call"
      BY <1>1, <1>6, <3>1 DEF CallInterceptor, Proc
    <3> HIDE DEF r
    <3> QED BY <3>1, <3>2, <3>3, ExtPassed
  <2> QED BY <1>6, <2>1, ExtLeave DEF CallInterceptor, Outcome
<1>7. CASE StartGroupTriggers(p)
  <2> DEFINE selector == GroupSelector[GroupOf(p)]
             new == {EventOf(p)} \X {GroupOf(p)} \X SelectTriggers(selector)
             old == [procs EXCEPT ![p].pc = "return", ![p].outcome = "done"]
  <2>1. CASE selector.labels = InvalidSelector
    BY <1>7, <2>1, ExtLeave DEF StartGroupTriggers, Outcome
  <2>2. CASE selector.labels # InvalidSelector
    <3>1. /\ procs' = Started(old, new, EventOf(p), procs[p].header)
          /\ procs[p].pc = "select"
      BY <1>7, <2>2 DEF StartGroupTriggers
    <3>2. /\ DOMAIN old = DOMAIN procs
          /\ \A q \in DOMAIN procs : q # p => old[q] = procs[q]
          /\ old[p].pc = "return" /\ old[p].ext = procs[p].ext /\ old[p].shared = procs[p].shared
      BY <1>1 DEF Proc
    <3>3. IsGroup(p) /\ procs[p].outcome = "running" /\ GroupOf(p) \in Group
      BY <1>1, <3>1, GoroutineKinds DEF SoundProc, PointSound
    <3>4. SelectTriggers(selector) \subseteq Job
      BY <3>3, SelectTriggersType, SinkAssumption DEF Inv, TypeInv, TypeOK, ListerType
    <3>5. \A q \in new : InGroup(q) /\ GroupGoroutine(q) = p
      <4>1. GroupGoroutine(p) = p
        BY <1>1, <3>3, GoroutineKinds
      <4> QED BY <3>3, <3>4, <4>1, NamesAssumption DEF InGroup, GroupOf, JobOf, EventOf, GroupGoroutine
    <3> HIDE DEF new, old, selector
    <3>6. new \intersect DOMAIN procs = {}
      BY <3>3, <3>5 DEF Inv, Sound, SoundProc, Origin
    <3>7. /\ DOMAIN procs' = DOMAIN procs \union new
          /\ \A q \in new : procs'[q] = NewProc(EventOf(p), procs[p].header)
          /\ \A q \in DOMAIN procs : procs'[q] = old[q]
      BY <3>1, <3>2, <3>6 DEF Started
    <3>8. \A q \in new : /\ procs'[q].ext = NoExtensions /\ procs'[q].shared = NoExtensions
                         /\ procs'[q].pc = "start" /\ procs'[q].outcome = "running"
      BY <3>7, SMTT(30) DEF NewProc
    <3> QED BY <3>1, <3>2, <3>6, <3>7, <3>8, ExtStart, SMTT(30)
  <2> QED BY <2>1, <2>2
<1>8. CASE Resolve(p)
  <2> DEFINE r == [procs[p] EXCEPT !.pc = "create"]
  <2>1. /\ r.ext = procs[p].ext /\ r.shared = procs[p].shared /\ r.pc = "create"
        /\ r.outcome = procs[p].outcome /\ procs[p].pc = "resolve"
    BY <1>1, <1>8 DEF Resolve, Proc
  <2>2. Update(p, r) \/ Leave(p, "failed")
    BY <1>8 DEF Resolve
  <2> HIDE DEF r
  <2> QED BY <2>1, <2>2, ExtSame, ExtLeave DEF Outcome
<1>9. CASE CreateResource(p)
  <2> DEFINE r == [procs[p] EXCEPT !.made = @ + 1]
  <2>1. /\ r.ext = procs[p].ext /\ r.shared = procs[p].shared /\ r.pc = "create"
        /\ r.outcome = procs[p].outcome /\ procs[p].pc = "create"
    BY <1>1, <1>9 DEF CreateResource, Proc
  <2>2. Update(p, r) \/ Leave(p, "failed")
    BY <1>9 DEF CreateResource
  <2> HIDE DEF r
  <2> QED BY <2>1, <2>2, ExtSame, ExtLeave DEF Outcome
<1>10. CASE TriggerSucceeds(p)
  <2>1. ~IsGroup(p)
    BY <1>1, <1>10 DEF TriggerSucceeds, SoundProc, PointSound
  <2> QED BY <1>10, <2>1, ExtLeave DEF TriggerSucceeds, Outcome
<1>11. CASE GoroutineReturns(p)
  <2> DEFINE r == [procs[p] EXCEPT !.pc = "end"]
  <2>1. /\ r.ext = procs[p].ext /\ r.shared = procs[p].shared /\ r.pc = "end"
        /\ r.outcome = procs[p].outcome
    BY <1>1 DEF Proc
  <2>2. Update(p, r)
    BY <1>11 DEF GoroutineReturns
  <2> HIDE DEF r
  <2> QED BY <2>1, <2>2, ExtSame
<1> QED BY <1>4, <1>5, <1>6, <1>7, <1>8, <1>9, <1>10, <1>11 DEF GoroutineStep

LEMMA ExtInvariance == Spec => []ExtInv
<1>1. Inv /\ ExtInv /\ [Next]_vars => ExtInv'
  <2>1. UNCHANGED vars \/ ChangeTriggers \/ ChangeEventListener => UNCHANGED procs
    BY DEF vars, ChangeTriggers, ChangeEventListener
  <2>2. ASSUME Inv, ExtInv, NEW e \in Event, Receive(e) \/ HandlerStep(e) \/ TimeOut(e)
        PROVE  ExtInv'
    BY <2>2, ExtHandler
  <2>3. ASSUME Inv, ExtInv, NEW p \in DOMAIN procs, GoroutineStep(p)
        PROVE  ExtInv'
    BY <2>3, ExtGoroutine
  <2> QED BY <2>1, <2>2, <2>3, ExtUnchanged DEF Next, Quiescent
<1> QED BY <1>1, ExtInit, Invariance, PTL DEF Spec

\* Goroutines see their own extensions and their group's only: the copy that
\* ExecuteInterceptors makes keeps concurrent triggers of a group apart.
THEOREM Isolation == Spec => []ExtensionsIsolated
<1>1. ExtInv => ExtensionsIsolated
  BY DEF ExtInv
<1> QED BY <1>1, ExtInvariance, PTL

\* What the interceptors of a group have set is there for each of its triggers.
THEOREM GroupExtensions == Spec => []GroupExtensionsReachTriggers
<1>1. Inv /\ ExtInv => GroupExtensionsReachTriggers
  <2> SUFFICES ASSUME Inv, ExtInv, NEW p \in DOMAIN procs, NEW k \in ExtKey, InGroup(p),
                      procs[p].pc \in {"resolve", "create"},
                      procs[GroupGoroutine(p)].ext[k] # NoValue
               PROVE  procs[p].ext[k] # NoValue
    BY DEF GroupExtensionsReachTriggers
  <2> DEFINE g == GroupGoroutine(p)
  <2>1. g \in DOMAIN procs /\ procs[g].outcome = "done"
    BY DEF Inv, Sound, SoundProc, Origin
  <2>2. IsGroup(g)
    BY DEF IsGroup, JobOf, GroupGoroutine
  <2>3. Flow(g, k) /\ Flow(p, k)
    BY <2>1 DEF ExtInv
  <2>4. procs[g].shared[k] # NoValue
    BY <2>1, <2>2, <2>3 DEF Flow
  <2> QED BY <2>3, <2>4 DEF Flow
<1> QED BY <1>1, Invariance, ExtInvariance, PTL

-----------------------------------------------------------------------------
(* The refinement of TriggerRuns *)

\* The run that the record of a goroutine stands for
RunOf(r) == [passed |-> r.next - 1, made |-> r.made, state |-> RunState(r.outcome)]

LEMMA RunsAre ==
    /\ DOMAIN RunsOf = DOMAIN procs
    /\ \A p \in DOMAIN procs : RunsOf[p] = RunOf(procs[p])
BY DEF RunsOf, RunOf

LEMMA StateOf ==
    /\ RunState("running") = "open"
    /\ RunState("done") = "done"
    /\ RunState("stopped") = "dropped"
    /\ RunState("failed") = "dropped"
BY DEF RunState

LEMMA RunsUpdate ==
    ASSUME NEW p \in DOMAIN procs, NEW r, Update(p, r)
    PROVE  RunsOf' = [RunsOf EXCEPT ![p] = RunOf(r)]
BY DEF RunsOf, RunOf, Update

LEMMA RefinesInit == Init => TR!TRInit
BY SMTT(30) DEF Init, TR!TRInit, RunsOf, AnnouncedOf, EmittedType

LEMMA RefinesHandler ==
    ASSUME Inv, NEW e \in Event, Receive(e) \/ HandlerStep(e) \/ TimeOut(e)
    PROVE  [TR!TRNext]_<<RunsOf, AnnouncedOf>>
<1>1. AnnouncedOf' = AnnouncedOf
  <2>1. \A f \in Event : emitted'[f]["successful"] = emitted[f]["successful"]
    <3>1. emitted \in [Event -> [EmittedType -> Nat]]
      BY DEF Inv, TypeInv, TypeOK, WorkType
    <3>2. \A t \in EmittedType \ {"successful"} : Emit(e, t) =>
             \A f \in Event : emitted'[f]["successful"] = emitted[f]["successful"]
      BY <3>1, SMTT(30) DEF Emit, EmittedType
    <3>3. \/ UNCHANGED emitted
          \/ \E t \in EmittedType \ {"successful"} : Emit(e, t)
          \/ Respond(e)
      BY DEF EmittedType, Receive, HandlerStep, TimeOut, RefusePayload, AcceptPayload,
             GetEventListener, SelectForEvent, StartGoroutines, Refuse, HandlerReturns
    <3>4. ASSUME Respond(e)
          PROVE  \A f \in Event : emitted'[f]["successful"] = emitted[f]["successful"]
      BY <3>1, <3>4 DEF Respond, EmittedType
    <3> QED BY <3>2, <3>3, <3>4
  <2> QED BY <2>1 DEF AnnouncedOf
<1>2. CASE ~StartGoroutines(e) \/ Refuse(e)
  <2>1. UNCHANGED procs
    BY <1>2 DEF Receive, HandlerStep, TimeOut, RefusePayload, AcceptPayload, GetEventListener,
                SelectForEvent, StartGoroutines, Refuse, Respond, HandlerReturns
  <2> QED BY <1>1, <2>1 DEF RunsOf
<1>3. CASE StartGoroutines(e) /\ ~Refuse(e)
  <2> DEFINE new == ({e} \X {NoGroup} \X jobs'[e]) \union ({e} \X el[e].groups \X {NoJob})
  <2>1. procs' = Started(procs, new, e, request[e].header) /\ hpc[e] = "merge"
    BY <1>3 DEF StartGoroutines
  <2>2. \A p \in new : EventOf(p) = e /\ ~InGroup(p)
    BY DEF EventOf, InGroup, GroupOf, JobOf
  <2> HIDE DEF new
  <2>3. new \intersect DOMAIN procs = {}
    BY <2>1, <2>2 DEF Inv, Sound, SoundProc, Origin
  <2>4. /\ DOMAIN procs' = DOMAIN procs \union new
        /\ \A q \in new : procs'[q] = NewProc(e, request[e].header)
        /\ \A q \in DOMAIN procs : procs'[q] = procs[q]
    BY <2>1, <2>3 DEF Started
  <2>5. TR!New = new
    BY <2>3, <2>4 DEF TR!New, RunsOf
  <2>6. RunsOf' = TR!StartAll(RunsOf, new)
    <3>1. \A q \in new : RunOf(procs'[q]) = TR!Open
      BY <2>4, StateOf, SMTT(30) DEF RunOf, NewProc, TR!Open
    <3>2. RunsOf' = [q \in DOMAIN procs \union new |-> RunOf(procs'[q])]
      BY <2>4 DEF RunsOf, RunOf
    <3>3. TR!StartAll(RunsOf, new) =
             [q \in DOMAIN procs \union new |-> IF q \in new THEN TR!Open ELSE RunsOf[q]]
      BY RunsAre DEF TR!StartAll
    <3>4. \A q \in DOMAIN procs \union new :
             RunOf(procs'[q]) = IF q \in new THEN TR!Open ELSE RunsOf[q]
      BY <2>4, <3>1, RunsAre
    <3> QED BY <3>2, <3>3, <3>4
  <2>7. TR!Begin(TR!New)
    BY <1>1, <2>2, <2>3, <2>5, <2>6, RunsAre DEF TR!Begin
  <2> QED BY <2>7 DEF TR!TRNext
<1> QED BY <1>2, <1>3

LEMMA RefinesGoroutine ==
    ASSUME Inv, NEW p \in DOMAIN procs, GoroutineStep(p)
    PROVE  [TR!TRNext]_<<RunsOf, AnnouncedOf>>
<1>1. procs[p] \in Proc /\ p \in Goroutine /\ SoundProc(p)
  BY DEF Inv, TypeInv, TypeOK, WorkType, Sound
<1>2. p \in DOMAIN RunsOf /\ RunsOf[p] = RunOf(procs[p])
  BY RunsAre
<1>3. ChainLength(p) \in Nat /\ ChainLength(p) = Len(Chain(p))
  BY <1>1, GoroutineKinds DEF ChainLength
<1>4. UNCHANGED emitted => AnnouncedOf' = AnnouncedOf
  BY DEF AnnouncedOf
<1>5. procs[p].pc \notin {"return", "end"} => RunsOf[p].state = "open"
  BY <1>1, <1>2, StateOf, SMTT(30) DEF SoundProc, PointSound, RunOf
<1>6. ASSUME NEW r, Update(p, r), UNCHANGED emitted,
             r.next = procs[p].next, r.made = procs[p].made, r.outcome = procs[p].outcome
      PROVE  UNCHANGED <<RunsOf, AnnouncedOf>>
  BY <1>4, <1>6 DEF RunsOf, Update
<1>7. ASSUME NEW outcome \in {"stopped", "failed"}, Leave(p, outcome), UNCHANGED emitted,
             procs[p].pc \notin {"return", "end"}
      PROVE  TR!Drop(p)
  <2> DEFINE r == [procs[p] EXCEPT !.pc = "return", !.outcome = outcome]
  <2>1. /\ r.next = procs[p].next /\ r.made = procs[p].made /\ r.outcome = outcome
        /\ Update(p, r)
    BY <1>1, <1>7 DEF Proc, Leave
  <2> HIDE DEF r
  <2>2. RunsOf' = [RunsOf EXCEPT ![p] = RunOf(r)]
    BY <2>1, RunsUpdate
  <2>3. RunOf(r) = [RunsOf[p] EXCEPT !.state = "dropped"]
    BY <1>2, <1>7, <2>1, StateOf, SMTT(30) DEF RunOf
  <2>4. RunsOf' = [RunsOf EXCEPT ![p].state = "dropped"]
    BY <2>2, <2>3
  <2> QED BY <1>4, <1>5, <1>7, <2>4 DEF TR!Drop
<1>8. ASSUME NEW r \in Proc, Update(p, Passed(p, r)), UNCHANGED emitted, procs[p].pc = "call",
             r.next = procs[p].next, r.made = procs[p].made, r.outcome = procs[p].outcome
      PROVE  TR!Pass(p)
  <2> DEFINE s == Passed(p, r)
  <2>1. s.next = r.next + 1 /\ s.made = r.made /\ s.outcome = r.outcome
    BY DEF Passed, Proc
  <2>2. Update(p, s)
    BY <1>8
  <2> HIDE DEF s
  <2>3. RunsOf' = [RunsOf EXCEPT ![p] = RunOf(s)]
    BY <2>2, RunsUpdate
  <2>4. procs[p].next \in Nat \ {0} /\ procs[p].next <= Len(Chain(p))
    BY <1>1, <1>8 DEF SoundProc, ChainSound, Proc
  <2>5. RunOf(s) = [RunsOf[p] EXCEPT !.passed = @ + 1]
    BY <1>2, <1>8, <2>1, <2>4, SMTT(30) DEF RunOf
  <2>6. RunsOf' = [RunsOf EXCEPT ![p].passed = @ + 1]
    BY <2>3, <2>5
  <2>7. RunsOf[p].passed < ChainLength(p)
    BY <1>2, <1>3, <2>4, SMTT(30) DEF RunOf
  <2> QED BY <1>4, <1>5, <1>8, <2>6, <2>7 DEF TR!Pass
<1>9. (TR!Pass(p) \/ TR!Drop(p) \/ TR!Fork(p, TR!New) \/ TR!Make(p) \/ TR!Announce(p)) => TR!TRNext
  BY <1>2 DEF TR!TRNext
<1>10. CASE StartChain(p)
  <2> DEFINE r == IF Chain(p) = <<>>
                    THEN [procs[p] EXCEPT !.ext = PassedExtensions(p), !.pc = AfterChain(p)]
                    ELSE [procs[p] EXCEPT !.ext = PassedExtensions(p), !.pc = "call",
                                          !.body = FormToJSON(@, procs[p].header)]
  <2>1. /\ r.next = procs[p].next /\ r.made = procs[p].made /\ r.outcome = procs[p].outcome
        /\ Update(p, r) /\ UNCHANGED emitted
    BY <1>1, <1>10, SMTT(30) DEF StartChain, Proc
  <2> HIDE DEF r
  <2> QED BY <1>6, <2>1
<1>11. CASE CallWebhook(p)
  <2>1. procs[p].pc = "call" /\ UNCHANGED emitted
    BY <1>11 DEF CallWebhook
  <2>2. ASSUME NEW body \in Body, NEW header \in Header,
               Update(p, Passed(p, [procs[p] EXCEPT !.body = body, !.header = header]))
        PROVE  TR!Pass(p)
    <3> DEFINE r == [procs[p] EXCEPT !.body = body, !.header = header]
    <3>1. /\ r \in Proc /\ r.next = procs[p].next /\ r.made = procs[p].made
          /\ r.outcome = procs[p].outcome
      BY <1>1 DEF Proc
    <3>2. Update(p, Passed(p, r))
      BY <2>2
    <3> HIDE DEF r
    <3> QED BY <1>8, <2>1, <3>1, <3>2
  <2> QED BY <1>7, <1>9, <1>11, <2>1, <2>2, ZenonT(40) DEF CallWebhook
<1>12. CASE CallInterceptor(p)
  <2>1. procs[p].pc = "call" /\ UNCHANGED emitted
    BY <1>12 DEF CallInterceptor
  <2>2. ASSUME NEW keys \in SUBSET ExtKey,
               Update(p, Passed(p, [procs[p] EXCEPT
                   !.ext = [k \in ExtKey |-> IF k \in keys THEN p ELSE @[k]]]))
        PROVE  TR!Pass(p)
    <3> DEFINE x == [k \in ExtKey |-> IF k \in keys THEN p ELSE procs[p].ext[k]]
               r == [procs[p] EXCEPT !.ext = x]
    <3>1. x \in Extensions
      BY <1>1 DEF Proc, Extensions
    <3>2. Update(p, Passed(p, r))
      BY <2>2
    <3> HIDE DEF x
    <3>3. /\ r \in Proc /\ r.next = procs[p].next /\ r.made = procs[p].made
          /\ r.outcome = procs[p].outcome
      BY <1>1, <3>1 DEF Proc
    <3> HIDE DEF r
    <3> QED BY <1>8, <2>1, <3>2, <3>3
  <2> QED BY <1>7, <1>9, <1>12, <2>1, <2>2 DEF CallInterceptor
<1>13. CASE StartGroupTriggers(p)
  <2> DEFINE selector == GroupSelector[GroupOf(p)]
             new == {EventOf(p)} \X {GroupOf(p)} \X SelectTriggers(selector)
             r == [procs[p] EXCEPT !.pc = "return", !.outcome = "done"]
             old == [procs EXCEPT ![p].pc = "return", ![p].outcome = "done"]
  <2>1. procs[p].pc = "select" /\ UNCHANGED emitted
    BY <1>13 DEF StartGroupTriggers
  <2>2. CASE selector.labels = InvalidSelector
    BY <1>7, <1>9, <1>13, <2>1, <2>2 DEF StartGroupTriggers
  <2>3. CASE selector.labels # InvalidSelector
    <3>1. IsGroup(p) /\ procs[p].outcome = "running" /\ GroupOf(p) \in Group /\ GroupGoroutine(p) = p
      BY <1>1, <2>1, GoroutineKinds DEF SoundProc, PointSound
    <3>2. procs' = Started(old, new, EventOf(p), procs[p].header)
      BY <1>13, <2>3 DEF StartGroupTriggers
    <3>3. old = [procs EXCEPT ![p] = r]
      OBVIOUS
    <3>4. SelectTriggers(selector) \subseteq Job
      BY <3>1, SelectTriggersType, SinkAssumption DEF Inv, TypeInv, TypeOK, ListerType
    <3>5. \A q \in new : InGroup(q) /\ GroupGoroutine(q) = p
      BY <3>1, <3>4, NamesAssumption DEF InGroup, GroupOf, JobOf, EventOf, GroupGoroutine
    <3>6. r.next = procs[p].next /\ r.made = procs[p].made /\ r.outcome = "done"
      BY <1>1 DEF Proc
    <3> HIDE DEF new, old, r, selector
    <3>7. new \intersect DOMAIN procs = {}
      BY <3>1, <3>5 DEF Inv, Sound, SoundProc, Origin
    <3>8. /\ DOMAIN procs' = DOMAIN procs \union new
          /\ procs'[p] = r
          /\ \A q \in DOMAIN procs : q # p => procs'[q] = procs[q]
          /\ \A q \in new : procs'[q] = NewProc(EventOf(p), procs[p].header)
      BY <3>2, <3>3, <3>7 DEF Started
    <3>9. TR!New = new
      BY <3>7, <3>8 DEF TR!New, RunsOf
    <3>10. RunOf(r) = [RunsOf[p] EXCEPT !.state = "done"]
      BY <1>2, <3>6, StateOf, SMTT(30) DEF RunOf
    <3>11. \A q \in new : RunOf(procs'[q]) = TR!Open
      BY <3>8, StateOf, SMTT(30) DEF RunOf, NewProc, TR!Open
    <3>12. RunsOf' = TR!StartAll([RunsOf EXCEPT ![p].state = "done"], new)
      <4> DEFINE R == TR!StartAll([RunsOf EXCEPT ![p].state = "done"], new)
      <4>1. /\ DOMAIN RunsOf' = DOMAIN procs \union new
            /\ \A q \in DOMAIN procs' : RunsOf'[q] = RunOf(procs'[q])
        BY <3>8 DEF RunsOf, RunOf
      <4>2. /\ DOMAIN R = DOMAIN procs \union new
            /\ \A q \in new : R[q] = TR!Open
            /\ \A q \in DOMAIN procs : q # p => R[q] = RunOf(procs[q])
            /\ R[p] = [RunsOf[p] EXCEPT !.state = "done"]
        BY <1>2, <3>7, RunsAre DEF TR!StartAll
      <4> HIDE DEF R
      <4>3. \A q \in DOMAIN procs \union new : RunsOf'[q] = R[q]
        <5>1. \A q \in new : RunsOf'[q] = R[q]
          BY <3>8, <3>11, <4>1, <4>2
        <5>2. \A q \in DOMAIN procs : q # p => RunsOf'[q] = R[q]
          BY <3>8, <4>1, <4>2, SMTT(30)
        <5>3. RunsOf'[p] = R[p]
          BY <3>8, <3>10, <4>1, <4>2
        <5> QED BY <5>1, <5>2, <5>3
      <4>4. R = [q \in DOMAIN procs \union new |-> R[q]]
        BY RunsAre DEF TR!StartAll, R
      <4>5. RunsOf' = [q \in DOMAIN procs \union new |-> RunsOf'[q]]
        BY <3>8 DEF RunsOf
      <4>6. RunsOf' = R
        BY <4>3, <4>4, <4>5
      <4> QED BY <4>6 DEF R
    <3>13. RunsOf[p].passed = ChainLength(p)
      BY <1>1, <1>2, <1>3, <2>1, SMTT(30) DEF SoundProc, ChainSound, RunOf, Proc
    <3>14. TR!Fork(p, TR!New)
      BY <1>4, <1>5, <2>1, <3>1, <3>5, <3>7, <3>9, <3>12, <3>13, RunsAre DEF TR!Fork
    <3> QED BY <1>9, <3>14
  <2> QED BY <2>2, <2>3
<1>14. CASE Resolve(p)
  <2> DEFINE r == [procs[p] EXCEPT !.pc = "create"]
  <2>1. /\ r.next = procs[p].next /\ r.made = procs[p].made /\ r.outcome = procs[p].outcome
        /\ UNCHANGED emitted /\ procs[p].pc = "resolve"
    BY <1>1, <1>14 DEF Resolve, Proc
  <2>2. Update(p, r) \/ Leave(p, "failed")
    BY <1>14 DEF Resolve
  <2> HIDE DEF r
  <2> QED BY <1>6, <1>7, <1>9, <2>1, <2>2
<1>15. CASE CreateResource(p)
  <2> DEFINE r == [procs[p] EXCEPT !.made = @ + 1]
  <2>1. /\ r.next = procs[p].next /\ r.made = procs[p].made + 1 /\ r.outcome = procs[p].outcome
        /\ UNCHANGED emitted /\ procs[p].pc = "create"
        /\ procs[p].made < NumResources[TriggerOf(p)]
    BY <1>1, <1>15 DEF CreateResource, Proc
  <2>2. Update(p, r) \/ Leave(p, "failed")
    BY <1>15 DEF CreateResource
  <2> HIDE DEF r
  <2>3. ASSUME Update(p, r) PROVE TR!Make(p)
    <3>1. ~IsGroup(p) /\ procs[p].next = Len(Chain(p)) + 1
      BY <1>1, <2>1 DEF SoundProc, PointSound, ChainSound
    <3>2. RunsOf' = [RunsOf EXCEPT ![p] = RunOf(r)]
      BY <2>3, RunsUpdate
    <3>3. RunOf(r) = [RunsOf[p] EXCEPT !.made = @ + 1]
      BY <1>2, <2>1, SMTT(30) DEF RunOf
    <3>4. RunsOf' = [RunsOf EXCEPT ![p].made = @ + 1]
      BY <3>2, <3>3
    <3>5. RunsOf[p].passed = ChainLength(p) /\ RunsOf[p].made < ResourcesOf(p)
      BY <1>1, <1>2, <1>3, <2>1, <3>1, SMTT(30) DEF RunOf, ResourcesOf, Proc
    <3> QED BY <1>4, <1>5, <2>1, <3>1, <3>4, <3>5 DEF TR!Make
  <2> QED BY <1>7, <1>9, <2>1, <2>2, <2>3
<1>16. CASE TriggerSucceeds(p)
  <2> DEFINE r == [procs[p] EXCEPT !.pc = "return", !.outcome = "done"]
  <2>1. /\ r.next = procs[p].next /\ r.made = procs[p].made /\ r.outcome = "done"
        /\ Update(p, r) /\ procs[p].pc = "create"
        /\ procs[p].made = NumResources[TriggerOf(p)]
    BY <1>1, <1>16 DEF TriggerSucceeds, Leave, Proc
  <2> HIDE DEF r
  <2>2. ~IsGroup(p) /\ procs[p].next = Len(Chain(p)) + 1 /\ EventOf(p) \in Event
    BY <1>1, <2>1, GoroutineKinds DEF SoundProc, PointSound, ChainSound
  <2>3. RunsOf' = [RunsOf EXCEPT ![p] = RunOf(r)]
    BY <2>1, RunsUpdate
  <2>4. RunOf(r) = [RunsOf[p] EXCEPT !.state = "done"]
    BY <1>2, <2>1, StateOf, SMTT(30) DEF RunOf
  <2>5. RunsOf' = [RunsOf EXCEPT ![p].state = "done"]
    BY <2>3, <2>4
  <2>6. AnnouncedOf' = [AnnouncedOf EXCEPT ![EventOf(p)] = @ + 1]
    <3>1. /\ emitted \in [Event -> [EmittedType -> Nat]]
          /\ emitted' = [emitted EXCEPT ![EventOf(p)]["successful"] = @ + 1]
      BY <1>16 DEF TriggerSucceeds, Emit, Inv, TypeInv, TypeOK, WorkType
    <3> QED BY <2>2, <3>1 DEF AnnouncedOf, EmittedType
  <2>7. RunsOf[p].passed = ChainLength(p) /\ RunsOf[p].made = ResourcesOf(p)
    BY <1>1, <1>2, <1>3, <2>1, <2>2, SMTT(30) DEF RunOf, ResourcesOf, Proc
  <2>8. TR!Announce(p)
    BY <1>5, <2>1, <2>2, <2>5, <2>6, <2>7 DEF TR!Announce
  <2> QED BY <1>9, <2>8
<1>17. CASE GoroutineReturns(p)
  <2> DEFINE r == [procs[p] EXCEPT !.pc = "end"]
  <2>1. /\ r.next = procs[p].next /\ r.made = procs[p].made /\ r.outcome = procs[p].outcome
        /\ Update(p, r) /\ UNCHANGED emitted
    BY <1>1, <1>17 DEF GoroutineReturns, Proc
  <2> HIDE DEF r
  <2> QED BY <1>6, <2>1
<1> QED BY <1>10, <1>11, <1>12, <1>13, <1>14, <1>15, <1>16, <1>17 DEF GoroutineStep

\* The sink implements TriggerRuns: a run passes its whole chain in order, makes each
\* resource of its list once and in order, is announced once, at the end, and never
\* goes on after it was dropped.
THEOREM Refinement == Spec => ImplementsTriggerRuns
<1>1. Inv /\ [Next]_vars => [TR!TRNext]_<<RunsOf, AnnouncedOf>>
  <2> SUFFICES ASSUME Inv, [Next]_vars
               PROVE  [TR!TRNext]_<<RunsOf, AnnouncedOf>>
    OBVIOUS
  <2>1. CASE UNCHANGED vars \/ ChangeTriggers \/ ChangeEventListener
    BY <2>1 DEF vars, ChangeTriggers, ChangeEventListener, RunsOf, AnnouncedOf
  <2>2. CASE \E e \in Event : Receive(e) \/ HandlerStep(e) \/ TimeOut(e)
    BY <2>2, RefinesHandler
  <2>3. CASE \E p \in DOMAIN procs : GoroutineStep(p)
    BY <2>3, RefinesGoroutine
  <2> QED BY <2>1, <2>2, <2>3 DEF Next, Quiescent
<1> QED BY <1>1, RefinesInit, Invariance, PTL DEF Spec, ImplementsTriggerRuns, TR!TRSpec

=============================================================================
