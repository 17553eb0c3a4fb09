--------------------------- MODULE SinkTypeProofs ---------------------------
(***************************************************************************)
(* The inductive invariant of Sink and the first half of its proof, the    *)
(* types, for any number of events, groups and triggers.                   *)
(***************************************************************************)
EXTENDS Sink, FiniteSetTheorems, TLAPS

\* Zenon proves most leaves; those with arithmetic, or with large sets, name SMT
USE ZenonT(30)

-----------------------------------------------------------------------------
(* Types *)

\* A handler that selects triggers holds an EventListener
HoldsEL == \A e \in Event : hpc[e] \in {"select", "merge"} => el[e] \in ELSpec

\* The code's lists and its set of goroutines are finite, so that wg is a number
Finite ==
    /\ \A e \in Event : IsFiniteSet(jobs[e])
    /\ IsFiniteSet(DOMAIN procs)

TypeInv == TypeOK /\ HoldsEL /\ Finite

LEMMA DisjointCardinality ==
    ASSUME NEW S, NEW T, IsFiniteSet(S), IsFiniteSet(T), S \intersect T = {}
    PROVE  Cardinality(S \union T) = Cardinality(S) + Cardinality(T)
<1>1. Cardinality(S) \in Nat /\ Cardinality(T) \in Nat
  BY FS_CardinalityType
<1>2. Cardinality(S \intersect T) = 0
  BY FS_EmptySet
<1>3. Cardinality(S \union T) = Cardinality(S) + Cardinality(T) - Cardinality(S \intersect T)
  BY FS_Union
<1> QED BY <1>1, <1>2, <1>3, SMTT(30)

LEMMA TripleFinite ==
    ASSUME NEW A, NEW B, NEW C, IsFiniteSet(A), IsFiniteSet(B), IsFiniteSet(C)
    PROVE  IsFiniteSet(A \X B \X C)
<1> DEFINE f == [t \in A \X B \X C |-> <<t[1], <<t[2], t[3]>>>>]
<1>1. IsFiniteSet(A \X (B \X C))
  BY FS_Product
<1>2. f \in Injection(A \X B \X C, A \X (B \X C))
  BY SMTT(30) DEF Injection, IsInjective
<1> QED BY <1>1, <1>2, FS_Injection

\* selectTriggers lists triggers of the cache
LEMMA SelectTriggersType ==
    ASSUME cache \subseteq Trigger, NEW s \in Selector
    PROVE  SelectTriggers(s) \subseteq Job
BY SMTT(30) DEF SelectTriggers, Selector, Job

LEMMA SelectTriggersFinite ==
    ASSUME cache \subseteq Trigger, NEW s \in Selector
    PROVE  IsFiniteSet(SelectTriggers(s))
<1> DEFINE All == {"selected"} \X (1..(Len(s.names) + 1)) \X Trigger
<1>1. s.names \in Seq(Namespace \union {Star})
  BY DEF Selector
<1>2. Len(s.names) \in Nat /\ DOMAIN s.names = 1..Len(s.names)
  BY <1>1, SMTT(30)
<1>3. IsFiniteSet(All)
  <2>1. IsFiniteSet({"selected"})
    BY FS_Singleton
  <2>2. IsFiniteSet(1..(Len(s.names) + 1))
    <3>1. 1 \in Int /\ Len(s.names) + 1 \in Int
      BY <1>2, SMTT(30)
    <3> QED BY <3>1, FS_Interval
  <2> QED BY <2>1, <2>2, FiniteAssumption, TripleFinite
<1>4. SelectTriggers(s) \subseteq All
  BY <1>2, SMTT(30) DEF SelectTriggers
<1> QED BY <1>3, <1>4, FS_Subset

\* merge lists triggers of the EventListener beside the selected ones
LEMMA MergeType ==
    ASSUME NEW ts \in Seq(ELTrigger), NEW selected \in SUBSET Job
    PROVE  Merge(ts, selected) \subseteq Job
<1> SUFFICES ASSUME NEW n \in DOMAIN ts
              PROVE  <<"merged", n, ts[n].t>> \in Job
  BY DEF Merge
<1>1. n \in Nat /\ ts[n] \in ELTrigger
  BY SMTT(30)
<1> QED BY <1>1 DEF ELTrigger, Job

LEMMA MergeFinite ==
    ASSUME NEW ts \in Seq(ELTrigger), NEW selected, IsFiniteSet(selected)
    PROVE  IsFiniteSet(Merge(ts, selected))
<1> DEFINE All == {"merged"} \X (1..Len(ts)) \X Trigger
<1>1. IsFiniteSet(All)
  <2>1. IsFiniteSet({"merged"})
    BY FS_Singleton
  <2>2. IsFiniteSet(1..Len(ts))
    <3>1. 1 \in Int /\ Len(ts) \in Int
      BY SMTT(30)
    <3> QED BY <3>1, FS_Interval
  <2> QED BY <2>1, <2>2, FiniteAssumption, TripleFinite
<1>2. IsFiniteSet(selected \union All)
  BY <1>1, FS_Union
<1>3. Merge(ts, selected) \subseteq selected \union All
  <2> SUFFICES ASSUME NEW n \in DOMAIN ts
               PROVE  <<"merged", n, ts[n].t>> \in All
    BY DEF Merge
  <2>1. n \in 1..Len(ts) /\ ts[n] \in ELTrigger
    BY SMTT(30)
  <2> QED BY <2>1 DEF ELTrigger
<1> QED BY <1>2, <1>3, FS_Subset

LEMMA EmitType ==
    ASSUME WorkType, NEW e \in Event, NEW type \in EmittedType, Emit(e, type)
    PROVE  emitted' \in [Event -> [EmittedType -> Nat]]
<1>1. emitted \in [Event -> [EmittedType -> Nat]]
  BY DEF WorkType
<1>2. [emitted[e] EXCEPT ![type] = @ + 1] \in [EmittedType -> Nat]
  BY <1>1, SMTT(30)
<1> QED BY <1>1, <1>2 DEF Emit

LEMMA WriteType ==
    ASSUME HandlerType, NEW e \in Event, NEW status \in Status, Write(e, status)
    PROVE  buffered' \in [Event -> Status]
BY DEF HandlerType, Write

LEMMA CountType ==
    ASSUME HandlerType, NEW e \in Event,
           \/ received' = [received EXCEPT ![e].failed = @ + 1]
           \/ received' = [received EXCEPT ![e].succeeded = @ + 1]
    PROVE  received' \in [Event -> [succeeded : Nat, failed : Nat]]
<1> DEFINE Count == [succeeded : Nat, failed : Nat]
<1>1. received \in [Event -> Count] /\ received[e] \in Count
  BY DEF HandlerType
<1>2. /\ [received[e] EXCEPT !.failed = @ + 1] \in Count
      /\ [received[e] EXCEPT !.succeeded = @ + 1] \in Count
  BY <1>1, SMTT(30)
<1>3. \E c \in Count : received' = [received EXCEPT ![e] = c]
  BY <1>2
<1> HIDE DEF Count
<1>4. received' \in [Event -> Count]
  BY <1>1, <1>3
<1> QED BY <1>4 DEF Count

LEMMA UpdateType ==
    ASSUME WorkType, NEW p \in DOMAIN procs, NEW r \in Proc, Update(p, r)
    PROVE  /\ DOMAIN procs' = DOMAIN procs
           /\ \A q \in DOMAIN procs' : procs'[q] \in Proc
BY DEF WorkType, Update

LEMMA StartedType ==
    ASSUME NEW e \in Event, NEW h \in Header, NEW new, NEW old,
           request \in [Event -> [body : Body, header : Header]],
           \A p \in DOMAIN old : old[p] \in Proc
    PROVE  /\ DOMAIN Started(old, new, e, h) = DOMAIN old \union new
           /\ \A p \in DOMAIN old \union new : Started(old, new, e, h)[p] \in Proc
<1>1. NewProc(e, h) \in Proc
  BY SMTT(30) DEF NewProc, Proc, PC, Outcome, NoExtensions, Extensions
<1> QED BY <1>1 DEF Started

\* What a goroutine hands to its interceptors are extensions
LEMMA PassedExtensionsType ==
    ASSUME WorkType, NEW p \in DOMAIN procs,
           InGroup(p) => GroupGoroutine(p) \in DOMAIN procs
    PROVE  PassedExtensions(p) \in Extensions
BY SMTT(30) DEF WorkType, PassedExtensions, Proc

LEMMA PassedType ==
    ASSUME NEW p \in Goroutine, NEW r \in Proc
    PROVE  Passed(p, r) \in Proc
<1>1. Overlay(r.shared, r.ext) \in Extensions
  BY DEF Overlay, Proc, Extensions
<1>2. AfterChain(p) \in PC
  BY DEF AfterChain, PC
<1>3. r.next + 1 \in Nat \ {0}
  BY SMTT(30) DEF Proc
<1>4. [r EXCEPT !.next = @ + 1] \in Proc
  BY <1>3 DEF Proc
<1>5. ASSUME NEW sh \in Extensions
      PROVE  [r EXCEPT !.next = @ + 1, !.pc = AfterChain(p), !.shared = sh] \in Proc
  BY <1>2, <1>3 DEF Proc
<1>6. r.shared \in Extensions
  BY DEF Proc
<1> QED BY <1>1, <1>4, <1>5, <1>6 DEF Passed

LEMMA GoroutineKinds ==
    ASSUME NEW p \in Goroutine
    PROVE  /\ EventOf(p) \in Event
           /\ IsGroup(p) => GroupOf(p) \in Group /\ GroupGoroutine(p) = p
           /\ ~IsGroup(p) => TriggerOf(p) \in Trigger /\ NumResources[TriggerOf(p)] \in Nat
           /\ InGroup(p) => GroupOf(p) \in Group /\ GroupGoroutine(p) \in Goroutine
           /\ Len(Chain(p)) \in Nat
<1>1. EventOf(p) \in Event
  BY DEF Goroutine, EventOf
<1>2. IsGroup(p) => GroupOf(p) \in Group /\ GroupGoroutine(p) = p
  BY NamesAssumption, SMTT(30) DEF Goroutine, IsGroup, GroupOf, GroupGoroutine, JobOf, EventOf
<1>3. ~IsGroup(p) => TriggerOf(p) \in Trigger
  BY DEF Goroutine, IsGroup, TriggerOf, JobOf, Job
<1>4. InGroup(p) => GroupOf(p) \in Group /\ GroupGoroutine(p) \in Goroutine
  BY <1>1 DEF Goroutine, InGroup, GroupOf, GroupGoroutine
<1>5. Chain(p) \in Seq(InterceptorKind)
  BY <1>2, <1>3, SinkAssumption DEF Chain
<1> QED BY <1>1, <1>2, <1>3, <1>4, <1>5, SinkAssumption, SMTT(30)

LEMMA TypeInit == Init => TypeInv
<1> SUFFICES ASSUME Init PROVE TypeInv
  OBVIOUS
<1>1. ListerType
  BY SinkAssumption, SMTT(30) DEF Init, ListerType
<1>2. HandlerType
  BY DEF Init, HandlerType, HandlerPC, Status
<1>3. WorkType
  BY SMTT(30) DEF Init, WorkType, EmittedType
<1>4. HoldsEL /\ Finite
  BY FS_EmptySet DEF Init, HoldsEL, Finite
<1> QED BY <1>1, <1>2, <1>3, <1>4 DEF TypeInv, TypeOK

LEMMA TypeHandler ==
    ASSUME TypeInv, NEW e \in Event, Receive(e) \/ HandlerStep(e) \/ TimeOut(e)
    PROVE  TypeInv'
<1>1. ListerType /\ HandlerType /\ WorkType /\ HoldsEL /\ Finite
  BY DEF TypeInv, TypeOK
<1>2. ListerType'
  <2>1. UNCHANGED <<cache, changes, spec>>
    BY DEF Receive, HandlerStep, TimeOut, RefusePayload, AcceptPayload, GetEventListener,
           SelectForEvent, StartGoroutines, Respond, HandlerReturns, listerVars
  <2> QED BY <1>1, <2>1 DEF ListerType
<1>3. ASSUME NEW pc \in HandlerPC, Goto(e, pc), UNCHANGED request,
             el' \in [Event -> ELSpec \union {NoValue}], jobs' \in [Event -> SUBSET Job],
             buffered' \in [Event -> Status], client' \in [Event -> Status],
             received' \in [Event -> [succeeded : Nat, failed : Nat]]
      PROVE  HandlerType'
  <2>1. hpc' \in [Event -> HandlerPC]
    BY <1>1, <1>3 DEF Goto, HandlerType
  <2> QED BY <1>1, <1>3, <2>1 DEF HandlerType
<1>4. ASSUME NEW pc, Goto(e, pc), pc \in {"select", "merge"} => el'[e] \in ELSpec,
             \A f \in Event : f # e => el'[f] = el[f]
      PROVE  HoldsEL'
  <2>1. hpc' = [hpc EXCEPT ![e] = pc] /\ hpc \in [Event -> HandlerPC]
    BY <1>1, <1>4 DEF Goto, HandlerType
  <2>2. hpc'[e] = pc /\ \A f \in Event : f # e => hpc'[f] = hpc[f]
    BY <2>1
  <2> QED BY <1>1, <1>4, <2>2 DEF HoldsEL
<1>5. ASSUME UNCHANGED <<procs, wg, verdicts, created, recorded>>,
             emitted' \in [Event -> [EmittedType -> Nat]]
      PROVE  WorkType'
  BY <1>1, <1>5 DEF WorkType
<1>6. ASSUME UNCHANGED <<procs, jobs>> PROVE Finite'
  BY <1>1, <1>6 DEF Finite
<1>7. /\ el \in [Event -> ELSpec \union {NoValue}] /\ jobs \in [Event -> SUBSET Job]
      /\ buffered \in [Event -> Status] /\ client \in [Event -> Status]
      /\ received \in [Event -> [succeeded : Nat, failed : Nat]]
      /\ emitted \in [Event -> [EmittedType -> Nat]]
  BY <1>1 DEF HandlerType, WorkType
<1>8. HandlerType' /\ HoldsEL' /\ WorkType' /\ Finite' => TypeInv'
  BY <1>2 DEF TypeInv, TypeOK
<1>9. ASSUME Refuse(e), UNCHANGED <<request, el, client, received, verdicts, created, recorded>>
      PROVE  TypeInv'
  <2>1. emitted' \in [Event -> [EmittedType -> Nat]]
    BY <1>1, <1>9, EmitType DEF Refuse, EmittedType
  <2>2. buffered' \in [Event -> Status]
    BY <1>1, <1>9, WriteType, SMTT(30) DEF Refuse, Status
  <2>3. Goto(e, "return") /\ UNCHANGED <<jobs, procs, wg>>
    BY <1>9 DEF Refuse
  <2>4. HandlerType'
    BY <1>3, <1>7, <1>9, <2>2, <2>3 DEF HandlerPC
  <2>5. HoldsEL' /\ WorkType' /\ Finite'
    BY <1>4, <1>5, <1>6, <1>9, <2>1, <2>3
  <2> QED BY <1>8, <2>4, <2>5
<1>10. CASE Receive(e)
  <2>1. /\ Goto(e, "validate")
        /\ UNCHANGED <<request, el, jobs, buffered, client, received, emitted, procs, wg,
                       verdicts, created, recorded>>
    BY <1>10 DEF Receive
  <2>2. HandlerType'
    BY <1>3, <1>7, <2>1 DEF HandlerPC
  <2>3. HoldsEL' /\ WorkType' /\ Finite'
    BY <1>4, <1>5, <1>6, <1>7, <2>1
  <2> QED BY <1>8, <2>2, <2>3
<1>11. CASE RefusePayload(e)
  <2>1. /\ Goto(e, "return")
        /\ UNCHANGED <<request, el, jobs, client, emitted, procs, wg, verdicts, created, recorded>>
    BY <1>11 DEF RefusePayload
  <2>2. received' \in [Event -> [succeeded : Nat, failed : Nat]]
    <3>1. received' = [received EXCEPT ![e].failed = @ + 1]
      BY <1>11 DEF RefusePayload
    <3> QED BY <1>1, <3>1, CountType
  <2>3. buffered' \in [Event -> Status]
    <3>1. Write(e, 500) \/ Write(e, 400)
      BY <1>11 DEF RefusePayload
    <3> QED BY <1>1, <3>1, WriteType, SMTT(30) DEF Status
  <2>4. HandlerType'
    BY <1>3, <1>7, <2>1, <2>2, <2>3 DEF HandlerPC
  <2>5. HoldsEL' /\ WorkType' /\ Finite'
    BY <1>4, <1>5, <1>6, <1>7, <2>1
  <2> QED BY <1>8, <2>4, <2>5
<1>12. CASE AcceptPayload(e)
  <2>1. /\ Goto(e, "get") /\ Emit(e, "started")
        /\ UNCHANGED <<request, el, jobs, buffered, client, received, procs, wg, verdicts,
                       created, recorded>>
    BY <1>12 DEF AcceptPayload
  <2>2. emitted' \in [Event -> [EmittedType -> Nat]]
    BY <1>1, <2>1, EmitType DEF EmittedType
  <2>3. HandlerType'
    BY <1>3, <1>7, <2>1 DEF HandlerPC
  <2>4. HoldsEL' /\ WorkType' /\ Finite'
    BY <1>4, <1>5, <1>6, <2>1, <2>2
  <2> QED BY <1>8, <2>3, <2>4
<1>13. CASE GetEventListener(e)
  <2>1. UNCHANGED <<request, jobs, client, procs, wg, verdicts, created, recorded>>
    BY <1>13 DEF GetEventListener
  <2>2. CASE spec # NoValue
    <3>1. /\ el' = [el EXCEPT ![e] = spec] /\ Goto(e, "select")
          /\ UNCHANGED <<buffered, received, emitted>>
      BY <1>13, <2>2 DEF GetEventListener
    <3>2. spec \in ELSpec
      BY <1>1, <2>2 DEF ListerType
    <3>3. /\ el' \in [Event -> ELSpec \union {NoValue}]
          /\ el'[e] \in ELSpec
          /\ \A f \in Event : f # e => el'[f] = el[f]
      BY <1>7, <3>1, <3>2
    <3>4. HandlerType'
      BY <1>3, <1>7, <2>1, <3>1, <3>3 DEF HandlerPC
    <3>5. HoldsEL' /\ WorkType' /\ Finite'
      BY <1>4, <1>5, <1>6, <1>7, <2>1, <3>1, <3>3
    <3> QED BY <1>8, <3>4, <3>5
  <2>3. CASE spec = NoValue
    <3>1. /\ received' = [received EXCEPT ![e].failed = @ + 1]
          /\ Write(e, 500) /\ Emit(e, "failed") /\ Goto(e, "return") /\ UNCHANGED el
      BY <1>13, <2>3 DEF GetEventListener
    <3>2. emitted' \in [Event -> [EmittedType -> Nat]]
      BY <1>1, <3>1, EmitType DEF EmittedType
    <3>3. buffered' \in [Event -> Status]
      BY <1>1, <3>1, WriteType, SMTT(30) DEF Status
    <3>4. received' \in [Event -> [succeeded : Nat, failed : Nat]]
      BY <1>1, <3>1, CountType
    <3>5. HandlerType'
      BY <1>3, <1>7, <2>1, <3>1, <3>3, <3>4 DEF HandlerPC
    <3>6. HoldsEL' /\ WorkType' /\ Finite'
      BY <1>4, <1>5, <1>6, <2>1, <3>1, <3>2
    <3> QED BY <1>8, <3>5, <3>6
  <2> QED BY <2>2, <2>3
<1>14. CASE SelectForEvent(e)
  <2>1. hpc[e] = "select" /\ UNCHANGED <<request, el, client, received, verdicts, created, recorded>>
    BY <1>14 DEF SelectForEvent
  <2>2. CASE Refuse(e)
    BY <1>9, <2>1, <2>2
  <2>3. CASE ~Refuse(e)
    <3>1. /\ jobs' = [jobs EXCEPT ![e] = SelectTriggers(el[e].select)]
          /\ Goto(e, "merge") /\ UNCHANGED <<buffered, emitted, procs, wg>>
      BY <1>14, <2>3 DEF SelectForEvent
    <3>2. el[e] \in ELSpec
      BY <1>1, <2>1 DEF HoldsEL
    <3>3. /\ SelectTriggers(el[e].select) \subseteq Job
          /\ IsFiniteSet(SelectTriggers(el[e].select))
      BY <1>1, <3>2, SelectTriggersType, SelectTriggersFinite, SinkAssumption DEF ListerType
    <3>4. /\ jobs' \in [Event -> SUBSET Job]
          /\ \A f \in Event : IsFiniteSet(jobs'[f])
      BY <1>1, <1>7, <3>1, <3>3 DEF Finite
    <3>5. HandlerType'
      BY <1>3, <1>7, <2>1, <3>1, <3>4 DEF HandlerPC
    <3>6. HoldsEL' /\ WorkType'
      BY <1>4, <1>5, <1>7, <2>1, <3>1, <3>2
    <3>7. Finite'
      BY <1>1, <3>1, <3>4 DEF Finite
    <3> QED BY <1>8, <3>5, <3>6, <3>7
  <2> QED BY <2>2, <2>3
<1>15. CASE StartGoroutines(e)
  <2>1. hpc[e] = "merge" /\ UNCHANGED <<request, el, client, received, verdicts, created, recorded>>
    BY <1>15 DEF StartGoroutines
  <2>2. CASE Refuse(e)
    BY <1>9, <2>1, <2>2
  <2>3. CASE ~Refuse(e)
    <3> DEFINE new == ({e} \X {NoGroup} \X jobs'[e]) \union ({e} \X el[e].groups \X {NoJob})
    <3>1. /\ jobs' = [jobs EXCEPT ![e] = Merge(el[e].triggers, @)]
          /\ procs' = Started(procs, new, e, request[e].header)
          /\ wg' = wg + Cardinality(new)
          /\ Goto(e, "respond") /\ UNCHANGED <<buffered, emitted>>
      BY <1>15, <2>3 DEF StartGoroutines
    <3>2. /\ el[e] \in ELSpec /\ el[e].triggers \in Seq(ELTrigger) /\ el[e].groups \subseteq Group
      BY <1>1, <2>1, SinkAssumption DEF HoldsEL
    <3>3. jobs[e] \in SUBSET Job /\ IsFiniteSet(jobs[e])
      BY <1>1, <1>7 DEF Finite
    <3>4. /\ Merge(el[e].triggers, jobs[e]) \subseteq Job
          /\ IsFiniteSet(Merge(el[e].triggers, jobs[e]))
      BY <3>2, <3>3, MergeType, MergeFinite
    <3>5. /\ jobs' \in [Event -> SUBSET Job]
          /\ \A f \in Event : IsFiniteSet(jobs'[f])
      BY <1>1, <1>7, <3>1, <3>4 DEF Finite
    <3>6. IsFiniteSet(new)
      <4>1. IsFiniteSet(el[e].groups) /\ IsFiniteSet(jobs'[e])
        BY <3>2, <3>5, FiniteAssumption, FS_Subset
      <4>2. IsFiniteSet({e}) /\ IsFiniteSet({NoGroup}) /\ IsFiniteSet({NoJob})
        BY FS_Singleton
      <4>3. /\ IsFiniteSet({e} \X {NoGroup} \X jobs'[e])
            /\ IsFiniteSet({e} \X el[e].groups \X {NoJob})
        BY <4>1, <4>2, TripleFinite
      <4> QED BY <4>3, FS_Union
    <3>7. new \subseteq Goroutine
      <4>1. jobs'[e] \subseteq Job
        BY <3>5
      <4> QED BY <3>2, <4>1 DEF Goroutine
    <3>8. /\ request[e].header \in Header
          /\ request \in [Event -> [body : Body, header : Header]]
      BY <1>1 DEF HandlerType
    <3>9. /\ \A p \in DOMAIN procs : procs[p] \in Proc
          /\ DOMAIN procs \subseteq Goroutine
          /\ IsFiniteSet(DOMAIN procs)
          /\ wg \in Int
      BY <1>1 DEF WorkType, Finite
    <3> HIDE DEF new
    <3>10. /\ DOMAIN procs' = DOMAIN procs \union new
           /\ \A p \in DOMAIN procs' : procs'[p] \in Proc
      <4>1. /\ DOMAIN Started(procs, new, e, request[e].header) = DOMAIN procs \union new
            /\ \A p \in DOMAIN procs \union new :
                  Started(procs, new, e, request[e].header)[p] \in Proc
        BY <3>8, <3>9, StartedType
      <4> QED BY <3>1, <4>1
    <3>11. wg' \in Int /\ IsFiniteSet(DOMAIN procs')
      <4>1. Cardinality(new) \in Nat
        BY <3>6, FS_CardinalityType
      <4>2. IsFiniteSet(DOMAIN procs \union new)
        <5>1. IsFiniteSet(DOMAIN procs)
          BY <3>9
        <5> QED BY <3>6, <5>1, FS_Union, ZenonT(40)
      <4>3. wg' \in Int
        BY <3>1, <3>9, <4>1, SMTT(30)
      <4> QED BY <3>10, <4>2, <4>3
    <3>12. HandlerType'
      BY <1>3, <1>7, <2>1, <3>1, <3>5 DEF HandlerPC
    <3>13. HoldsEL'
      <4>1. Goto(e, "respond") /\ UNCHANGED el
        BY <2>1, <3>1
      <4> QED BY <1>4, <2>1, <4>1
    <3>14. WorkType'
      BY <1>1, <2>1, <3>1, <3>7, <3>9, <3>10, <3>11 DEF WorkType
    <3>15. Finite'
      BY <3>5, <3>11 DEF Finite
    <3> QED BY <1>8, <3>12, <3>13, <3>14, <3>15
  <2> QED BY <2>2, <2>3
<1>16. CASE Respond(e)
  <2>1. /\ received' = [received EXCEPT ![e].succeeded = @ + 1]
        /\ Write(e, 202) /\ Goto(e, "return")
        /\ UNCHANGED <<request, el, jobs, client, procs, wg, verdicts, created, recorded>>
    BY <1>16 DEF Respond
  <2>2. emitted' \in [Event -> [EmittedType -> Nat]]
    <3>1. emitted[e] \in [EmittedType -> Nat]
      BY <1>7
    <3>2. [emitted[e] EXCEPT !["failed"] = IF client[e] = 0 THEN @ ELSE @ + 1,
                             !["done"] = @ + 1] \in [EmittedType -> Nat]
      BY <3>1, SMTT(30) DEF EmittedType
    <3>3. emitted' = [emitted EXCEPT
                         ![e] = [emitted[e] EXCEPT
                                    !["failed"] = IF client[e] = 0 THEN @ ELSE @ + 1,
                                    !["done"] = @ + 1]]
      BY <1>16 DEF Respond
    <3> QED BY <1>7, <3>2, <3>3
  <2>3. buffered' \in [Event -> Status]
    BY <1>1, <2>1, WriteType, SMTT(30) DEF Status
  <2>4. received' \in [Event -> [succeeded : Nat, failed : Nat]]
    BY <1>1, <2>1, CountType
  <2>5. HandlerType'
    BY <1>3, <1>7, <2>1, <2>3, <2>4 DEF HandlerPC
  <2>6. HoldsEL' /\ WorkType' /\ Finite'
    BY <1>4, <1>5, <1>6, <2>1, <2>2
  <2> QED BY <1>8, <2>5, <2>6
<1>17. CASE HandlerReturns(e)
  <2>1. /\ client' = [client EXCEPT ![e] = IF @ = 0 THEN buffered[e] ELSE @]
        /\ Goto(e, "end")
        /\ UNCHANGED <<request, el, jobs, buffered, received, emitted, procs, wg, verdicts,
                       created, recorded>>
    BY <1>17 DEF HandlerReturns
  <2>2. client' \in [Event -> Status]
    BY <1>7, <2>1
  <2>3. HandlerType'
    BY <1>3, <1>7, <2>1, <2>2 DEF HandlerPC
  <2>4. HoldsEL' /\ WorkType' /\ Finite'
    BY <1>4, <1>5, <1>6, <1>7, <2>1
  <2> QED BY <1>8, <2>3, <2>4
<1>18. CASE TimeOut(e)
  <2>1. /\ client' = [client EXCEPT ![e] = 503]
        /\ UNCHANGED <<hpc, request, el, jobs, buffered, received, emitted, procs, wg, verdicts,
                       created, recorded>>
    BY <1>18 DEF TimeOut
  <2>2. client' \in [Event -> Status]
    BY <1>7, <2>1, SMTT(30) DEF Status
  <2>3. HandlerType' /\ HoldsEL'
    BY <1>1, <2>1, <2>2 DEF HandlerType, HoldsEL
  <2>4. WorkType' /\ Finite'
    BY <1>5, <1>6, <1>7, <2>1
  <2> QED BY <1>8, <2>3, <2>4
<1> QED BY <1>10, <1>11, <1>12, <1>13, <1>14, <1>15, <1>16, <1>17, <1>18 DEF HandlerStep

-----------------------------------------------------------------------------
(***************************************************************************)
(* The inductive invariant of Sink: what the record of a goroutine implies *)
(* about the answers of its chain and the resources it has made.           *)
(***************************************************************************)

\* Where a goroutine is, and whether it is still running
PointSound(p, r) ==
    /\ r.pc = "select" => IsGroup(p)
    /\ r.pc \in {"resolve", "create"} => ~IsGroup(p)
    /\ r.outcome = "running" <=> r.pc \notin {"return", "end"}

\* The chain is passed in order, and wholly before anything else is done
ChainSound(p, r, answers) ==
    /\ r.pc = "start" => r.next = 1
    /\ r.pc = "call" => r.next <= Len(Chain(p))
    /\ r.pc \in {"select", "resolve", "create"} \/ r.outcome = "done" \/ r.made > 0
          => r.next = Len(Chain(p)) + 1
    /\ \A n \in 1..(r.next - 1) : <<p, n, "ok">> \in answers

\* The resources are made in order, and no more than the list holds
MadeSound(p, r, resources) ==
    /\ \A m \in Nat : <<p, m>> \in resources <=> m \in 1..r.made
    /\ IsGroup(p) \/ r.outcome = "stopped" \/ r.pc \in {"start", "call", "select", "resolve"}
          => r.made = 0
    /\ ~IsGroup(p) =>
          LET size == NumResources[TriggerOf(p)]
          IN  /\ r.made <= size
              /\ r.outcome = "done" => r.made = size
              /\ r.outcome = "failed" => r.made < size \/ r.made = 0

\* A goroutine is started by its handler, or by its group, which is then done
Origin(p) ==
    /\ hpc[EventOf(p)] \in {"respond", "return", "end"}
    /\ InGroup(p) => /\ GroupGoroutine(p) \in DOMAIN procs
                     /\ procs[GroupGoroutine(p)].outcome = "done"

SoundProc(p) ==
    /\ PointSound(p, procs[p])
    /\ ChainSound(p, procs[p], verdicts)
    /\ MadeSound(p, procs[p], created)
    /\ Origin(p)

Sound ==
    /\ \A p \in DOMAIN procs : SoundProc(p)
    /\ \A c \in created : c[1] \in DOMAIN procs

LEMMA LeaveType ==
    ASSUME WorkType, NEW p \in DOMAIN procs, NEW outcome \in Outcome, Leave(p, outcome)
    PROVE  /\ DOMAIN procs' = DOMAIN procs
           /\ \A q \in DOMAIN procs' : procs'[q] \in Proc
<1>1. [procs[p] EXCEPT !.pc = "return", !.outcome = outcome] \in Proc
  BY DEF WorkType, Proc, PC
<1> QED BY <1>1, UpdateType DEF Leave

LEMMA TypeGoroutine ==
    ASSUME TypeInv, Sound, NEW p \in DOMAIN procs, GoroutineStep(p)
    PROVE  TypeInv'
<1> DEFINE ProcsType == /\ DOMAIN procs' = DOMAIN procs
                        /\ \A q \in DOMAIN procs' : procs'[q] \in Proc
<1> USE DEF handlerVars, listerVars
<1>1. ListerType /\ HandlerType /\ WorkType /\ HoldsEL /\ Finite
  BY DEF TypeInv, TypeOK
<1>2. procs[p] \in Proc /\ p \in Goroutine
  BY <1>1 DEF WorkType
<1>0. /\ emitted \in [Event -> [EmittedType -> Nat]] /\ wg \in Int
      /\ verdicts \subseteq Goroutine \X Nat \X {"ok", "stop", "error"}
      /\ created \subseteq Goroutine \X Nat /\ recorded \in Nat
  BY <1>1 DEF WorkType
<1>3. ASSUME ProcsType, UNCHANGED <<cache, changes, spec, hpc, request, el, jobs, buffered, client, received>>,
             emitted' \in [Event -> [EmittedType -> Nat]], wg' \in Int,
             verdicts' \subseteq Goroutine \X Nat \X {"ok", "stop", "error"},
             created' \subseteq Goroutine \X Nat, recorded' \in Nat
      PROVE  TypeInv'
  <2>1. ListerType' /\ HandlerType'
    BY <1>1, <1>3 DEF ListerType, HandlerType
  <2>2. WorkType'
    BY <1>1, <1>3 DEF WorkType
  <2>3. HoldsEL' /\ Finite'
    BY <1>1, <1>3 DEF HoldsEL, Finite
  <2> QED BY <2>1, <2>2, <2>3 DEF TypeInv, TypeOK
<1>4. ASSUME NEW answer \in {"ok", "stop", "error"}, Answer(p, answer)
      PROVE  verdicts' \subseteq Goroutine \X Nat \X {"ok", "stop", "error"}
  <2>1. procs[p].next \in Nat
    BY <1>2 DEF Proc
  <2>2. <<p, procs[p].next, answer>> \in Goroutine \X Nat \X {"ok", "stop", "error"}
    BY <1>2, <2>1
  <2> QED BY <1>0, <1>4, <2>2 DEF Answer
<1>5. CASE StartChain(p)
  <2>1. PassedExtensions(p) \in Extensions
    BY <1>1, PassedExtensionsType DEF Sound, SoundProc, Origin
  <2>2. AfterChain(p) \in PC
    BY DEF AfterChain, PC
  <2>3. FormToJSON(procs[p].body, procs[p].header) \in Body
    BY <1>2, SinkAssumption DEF FormToJSON, Proc
  <2>4. /\ [procs[p] EXCEPT !.ext = PassedExtensions(p), !.pc = AfterChain(p)] \in Proc
        /\ [procs[p] EXCEPT !.ext = PassedExtensions(p), !.pc = "call",
                            !.body = FormToJSON(@, procs[p].header)] \in Proc
    BY <1>2, <2>1, <2>2, <2>3 DEF Proc, PC
  <2>5. ProcsType
    BY <1>1, <1>5, <2>4, UpdateType DEF StartChain
  <2> QED BY <1>0, <1>3, <1>5, <2>5 DEF StartChain
<1>6. CASE CallWebhook(p)
  <2>1. ASSUME NEW body \in Body, NEW header \in Header
        PROVE  Passed(p, [procs[p] EXCEPT !.body = body, !.header = header]) \in Proc
    <3>1. [procs[p] EXCEPT !.body = body, !.header = header] \in Proc
      BY <1>2 DEF Proc
    <3> QED BY <1>2, <3>1, PassedType
  <2>2. ProcsType
    BY <1>1, <1>6, <2>1, UpdateType, LeaveType DEF CallWebhook, Outcome
  <2>3. verdicts' \subseteq Goroutine \X Nat \X {"ok", "stop", "error"}
    BY <1>4, <1>6 DEF CallWebhook
  <2> QED BY <1>0, <1>3, <1>6, <2>2, <2>3 DEF CallWebhook
<1>7. CASE CallInterceptor(p)
  <2>1. ASSUME NEW keys \in SUBSET ExtKey
        PROVE  Passed(p, [procs[p] EXCEPT
                   !.ext = [k \in ExtKey |-> IF k \in keys THEN p ELSE @[k]]]) \in Proc
    <3>1. [k \in ExtKey |-> IF k \in keys THEN p ELSE procs[p].ext[k]] \in Extensions
      BY <1>2 DEF Proc, Extensions
    <3>2. [procs[p] EXCEPT !.ext = [k \in ExtKey |-> IF k \in keys THEN p ELSE @[k]]] \in Proc
      BY <1>2, <3>1 DEF Proc
    <3> QED BY <1>2, <3>2, PassedType
  <2>2. ProcsType
    BY <1>1, <1>7, <2>1, UpdateType, LeaveType DEF CallInterceptor, Outcome
  <2>3. verdicts' \subseteq Goroutine \X Nat \X {"ok", "stop", "error"}
    BY <1>4, <1>7 DEF CallInterceptor
  <2> QED BY <1>0, <1>3, <1>7, <2>2, <2>3 DEF CallInterceptor
<1>8. CASE StartGroupTriggers(p)
  <2> DEFINE selector == GroupSelector[GroupOf(p)]
             new == {EventOf(p)} \X {GroupOf(p)} \X SelectTriggers(selector)
             old == [procs EXCEPT ![p].pc = "return", ![p].outcome = "done"]
  <2>1. CASE selector.labels = InvalidSelector
    <3>1. ProcsType
      BY <1>1, <1>8, <2>1, LeaveType DEF StartGroupTriggers, Outcome
    <3> QED BY <1>0, <1>3, <1>8, <2>1, <3>1 DEF StartGroupTriggers
  <2>2. CASE selector.labels # InvalidSelector
    <3>1. IsGroup(p)
      BY <1>8 DEF StartGroupTriggers, Sound, SoundProc, PointSound
    <3>2. EventOf(p) \in Event /\ GroupOf(p) \in Group /\ selector \in Selector
      BY <1>2, <3>1, GoroutineKinds, SinkAssumption
    <3>3. SelectTriggers(selector) \subseteq Job /\ IsFiniteSet(SelectTriggers(selector))
      BY <1>1, <3>2, SelectTriggersType, SelectTriggersFinite DEF ListerType
    <3>4. new \subseteq Goroutine
      BY <3>2, <3>3 DEF Goroutine
    <3>5. IsFiniteSet(new)
      BY <3>3, TripleFinite, FS_Singleton
    <3>6. /\ procs' = Started(old, new, EventOf(p), procs[p].header)
          /\ wg' = wg + Cardinality(new)
          /\ UNCHANGED <<cache, changes, spec, hpc, request, el, jobs, buffered, client,
                         received, emitted, verdicts, created, recorded>>
      BY <1>8, <2>2 DEF StartGroupTriggers
    <3>7. DOMAIN old = DOMAIN procs /\ \A q \in DOMAIN old : old[q] \in Proc
      <4>1. [procs[p] EXCEPT !.pc = "return", !.outcome = "done"] \in Proc
        BY <1>2 DEF Proc, PC, Outcome
      <4>2. old = [procs EXCEPT ![p] = [procs[p] EXCEPT !.pc = "return", !.outcome = "done"]]
        OBVIOUS
      <4> QED BY <1>1, <4>1, <4>2 DEF WorkType
    <3>8. procs[p].header \in Header /\ request \in [Event -> [body : Body, header : Header]]
      BY <1>1, <1>2 DEF HandlerType, Proc
    <3> HIDE DEF new, old, selector
    <3>9. /\ DOMAIN procs' = DOMAIN procs \union new
          /\ \A q \in DOMAIN procs' : procs'[q] \in Proc
      <4>1. /\ DOMAIN Started(old, new, EventOf(p), procs[p].header) = DOMAIN old \union new
            /\ \A q \in DOMAIN old \union new :
                  Started(old, new, EventOf(p), procs[p].header)[q] \in Proc
        BY <3>2, <3>7, <3>8, StartedType
      <4> QED BY <3>6, <3>7, <4>1
    <3>10. wg' \in Int /\ IsFiniteSet(DOMAIN procs')
      <4>1. Cardinality(new) \in Nat
        BY <3>5, FS_CardinalityType
      <4>2. IsFiniteSet(DOMAIN procs \union new)
        BY <1>1, <3>5, FS_Union DEF Finite
      <4>3. wg' \in Int
        BY <1>0, <3>6, <4>1, SMTT(30)
      <4> QED BY <3>9, <4>2, <4>3
    <3>11. ListerType' /\ HandlerType'
      BY <1>1, <3>6 DEF ListerType, HandlerType
    <3>12. WorkType'
      BY <1>1, <3>4, <3>6, <3>9, <3>10 DEF WorkType
    <3>13. HoldsEL' /\ Finite'
      BY <1>1, <3>6, <3>10 DEF HoldsEL, Finite
    <3> QED BY <3>11, <3>12, <3>13 DEF TypeInv, TypeOK
  <2> QED BY <2>1, <2>2
<1>9. CASE Resolve(p)
  <2>1. [procs[p] EXCEPT !.pc = "create"] \in Proc
    BY <1>2 DEF Proc, PC
  <2>2. ProcsType
    BY <1>1, <1>9, <2>1, UpdateType, LeaveType DEF Resolve, Outcome
  <2> QED BY <1>0, <1>3, <1>9, <2>2 DEF Resolve
<1>10. CASE CreateResource(p)
  <2>1. /\ [procs[p] EXCEPT !.made = @ + 1] \in Proc
        /\ <<p, procs[p].made + 1>> \in Goroutine \X Nat
    BY <1>2, SMTT(30) DEF Proc
  <2>2. ProcsType
    BY <1>1, <1>10, <2>1, UpdateType, LeaveType DEF CreateResource, Outcome
  <2>3. created' \subseteq Goroutine \X Nat
    BY <1>0, <1>10, <2>1 DEF CreateResource
  <2> QED BY <1>0, <1>3, <1>10, <2>2, <2>3 DEF CreateResource
<1>11. CASE TriggerSucceeds(p)
  <2>1. ~IsGroup(p)
    BY <1>11 DEF TriggerSucceeds, Sound, SoundProc, PointSound
  <2>2. EventOf(p) \in Event /\ NumResources[TriggerOf(p)] \in Nat
    BY <1>2, <2>1, GoroutineKinds
  <2>3. ProcsType
    BY <1>1, <1>11, LeaveType DEF TriggerSucceeds, Outcome
  <2>4. emitted' \in [Event -> [EmittedType -> Nat]]
    BY <1>1, <1>11, <2>2, EmitType DEF TriggerSucceeds, EmittedType
  <2>5. recorded' \in Nat
    BY <1>0, <1>11, <2>2, SMTT(30) DEF TriggerSucceeds
  <2> QED BY <1>0, <1>3, <1>11, <2>3, <2>4, <2>5 DEF TriggerSucceeds
<1>12. CASE GoroutineReturns(p)
  <2>1. [procs[p] EXCEPT !.pc = "end"] \in Proc
    BY <1>2 DEF Proc, PC
  <2>2. ProcsType
    BY <1>1, <1>12, <2>1, UpdateType DEF GoroutineReturns
  <2> QED BY <1>0, <1>3, <1>12, <2>2, SMTT(30) DEF GoroutineReturns
<1> QED BY <1>5, <1>6, <1>7, <1>8, <1>9, <1>10, <1>11, <1>12 DEF GoroutineStep
=============================================================================
