----------------------------- MODULE SinkProofs -----------------------------
(***************************************************************************)
(* The inductive invariant of Sink, for any number of events, groups and   *)
(* triggers: what the record of a goroutine implies about the answers of   *)
(* its chain and the resources it has made.                                *)
(***************************************************************************)
EXTENDS SinkTypeProofs

\* Zenon proves most leaves; those with arithmetic, or with large sets, name SMT
USE ZenonT(30)

-----------------------------------------------------------------------------
(* The goroutines *)

Under == {"respond", "return", "end"}

LEMMA SoundInit == Init => Sound
BY DEF Init, Sound

\* A step of someone else
LEMMA SoundOther ==
    ASSUME NEW q, SoundProc(q), procs'[q] = procs[q], verdicts \subseteq verdicts',
           \A m \in Nat : <<q, m>> \in created' <=> <<q, m>> \in created,
           hpc[EventOf(q)] \in Under => hpc'[EventOf(q)] \in Under,
           InGroup(q) => /\ GroupGoroutine(q) \in DOMAIN procs'
                         /\ procs'[GroupGoroutine(q)].outcome = "done"
    PROVE  SoundProc(q)'
<1>1. ChainSound(q, procs[q], verdicts')
  BY DEF SoundProc, ChainSound
<1>2. MadeSound(q, procs[q], created')
  BY DEF SoundProc, MadeSound
<1>3. Origin(q)'
  BY DEF SoundProc, Origin, Under
<1> QED BY <1>1, <1>2, <1>3 DEF SoundProc

\* A goroutine that has just been started
LEMMA SoundNew ==
    ASSUME NEW q \in Goroutine, NEW e \in Event, NEW h, procs'[q] = NewProc(e, h),
           \A m \in Nat : <<q, m>> \notin created',
           hpc'[EventOf(q)] \in Under,
           InGroup(q) => /\ GroupGoroutine(q) \in DOMAIN procs'
                         /\ procs'[GroupGoroutine(q)].outcome = "done"
    PROVE  SoundProc(q)'
<1> DEFINE r == NewProc(e, h)
<1>1. r.pc = "start" /\ r.next = 1 /\ r.made = 0 /\ r.outcome = "running"
  BY DEF NewProc
<1> HIDE DEF r
<1>2. ~IsGroup(q) => NumResources[TriggerOf(q)] \in Nat
  BY GoroutineKinds
<1>3. PointSound(q, r)
  BY <1>1 DEF PointSound
<1>4. ChainSound(q, r, verdicts')
  BY <1>1, SMTT(30) DEF ChainSound
<1>5. MadeSound(q, r, created')
  BY <1>1, <1>2, SMTT(30) DEF MadeSound
<1>6. Origin(q)'
  BY DEF Origin, Under
<1>7. procs'[q] = r
  BY DEF r
<1> QED BY <1>3, <1>4, <1>5, <1>6, <1>7 DEF SoundProc

LEMMA SoundHandler ==
    ASSUME TypeInv, Sound, NEW e \in Event, Receive(e) \/ HandlerStep(e) \/ TimeOut(e)
    PROVE  Sound'
<1> USE DEF handlerVars, listerVars
<1>1. hpc \in [Event -> HandlerPC]
  BY DEF TypeInv, TypeOK, HandlerType
<1>2. \A p \in DOMAIN procs : EventOf(p) \in Event
  BY GoroutineKinds DEF TypeInv, TypeOK, WorkType
<1>3. ASSUME UNCHANGED <<procs, verdicts, created>>,
             \A f \in Event : hpc[f] \in Under => hpc'[f] \in Under
      PROVE  Sound'
  <2>1. ASSUME NEW q \in DOMAIN procs PROVE SoundProc(q)'
    <3>1. SoundProc(q)
      BY DEF Sound
    <3>2. hpc[EventOf(q)] \in Under => hpc'[EventOf(q)] \in Under
      BY <1>2, <1>3
    <3>3. InGroup(q) => /\ GroupGoroutine(q) \in DOMAIN procs'
                        /\ procs'[GroupGoroutine(q)].outcome = "done"
      BY <1>3, <3>1 DEF SoundProc, Origin
    <3> QED BY <1>3, <3>1, <3>2, <3>3, SoundOther
  <2> QED BY <1>3, <2>1 DEF Sound
<1>4. CASE ~StartGoroutines(e) \/ Refuse(e)
  <2>1. UNCHANGED <<procs, verdicts, created>>
    BY <1>4 DEF Receive, HandlerStep, TimeOut, RefusePayload, AcceptPayload, GetEventListener,
                SelectForEvent, StartGoroutines, Refuse, Respond, HandlerReturns
  <2>2. \A f \in Event : hpc[f] \in Under => hpc'[f] \in Under
    BY <1>1, <1>4, SMTT(30) DEF Receive, HandlerStep, TimeOut, RefusePayload, AcceptPayload, GetEventListener,
                SelectForEvent, StartGoroutines, Refuse, Respond, HandlerReturns, Goto, Under
  <2> QED BY <1>3, <2>1, <2>2
<1>5. CASE StartGoroutines(e) /\ ~Refuse(e)
  <2> DEFINE new == ({e} \X {NoGroup} \X jobs'[e]) \union ({e} \X el[e].groups \X {NoJob})
  <2>1. /\ procs' = Started(procs, new, e, request[e].header)
        /\ UNCHANGED <<verdicts, created>>
        /\ hpc' = [hpc EXCEPT ![e] = "respond"]
        /\ hpc[e] = "merge"
    BY <1>5 DEF StartGoroutines, Goto
  <2>2. TypeInv'
    BY TypeHandler
  <2>3. \A p \in new : ~InGroup(p) /\ EventOf(p) = e
    BY DEF InGroup, GroupOf, JobOf, EventOf
  <2> HIDE DEF new
  <2>4. /\ DOMAIN procs' = DOMAIN procs \union new
        /\ \A p \in new : procs'[p] = NewProc(e, request[e].header)
        /\ \A p \in DOMAIN procs \ new : procs'[p] = procs[p]
    BY <2>1 DEF Started
  <2>5. new \intersect DOMAIN procs = {}
    BY <2>1, <2>3 DEF Sound, SoundProc, Origin
  <2>6. ASSUME NEW q \in DOMAIN procs PROVE SoundProc(q)'
    <3>1. SoundProc(q) /\ procs'[q] = procs[q]
      BY <2>4, <2>5 DEF Sound
    <3>2. hpc[EventOf(q)] \in Under => hpc'[EventOf(q)] \in Under
      BY <1>1, <1>2, <2>1 DEF Under
    <3>3. InGroup(q) => /\ GroupGoroutine(q) \in DOMAIN procs'
                        /\ procs'[GroupGoroutine(q)].outcome = "done"
      BY <2>4, <2>5, <3>1 DEF SoundProc, Origin
    <3> QED BY <2>1, <3>1, <3>2, <3>3, SoundOther
  <2>7. ASSUME NEW q \in new PROVE SoundProc(q)'
    <3>1. q \in Goroutine
      BY <2>2, <2>4 DEF TypeInv, TypeOK, WorkType
    <3>2. \A m \in Nat : <<q, m>> \notin created'
      BY <2>1, <2>5 DEF Sound
    <3>3. hpc'[EventOf(q)] \in Under
      BY <1>1, <2>1, <2>3 DEF Under
    <3> QED BY <2>3, <2>4, <3>1, <3>2, <3>3, SoundNew
  <2> QED BY <2>1, <2>4, <2>6, <2>7 DEF Sound
<1> QED BY <1>4, <1>5

\* A goroutine's step is a matter of its own record
LEMMA SoundUpdate ==
    ASSUME TypeInv, Sound, NEW p \in DOMAIN procs, NEW r, Update(p, r),
           verdicts \subseteq verdicts', UNCHANGED hpc,
           \/ created' = created
           \/ created' = created \union {<<p, procs[p].made + 1>>},
           procs[p].outcome = "done" => r.outcome = "done",
           PointSound(p, r), ChainSound(p, r, verdicts'), MadeSound(p, r, created')
    PROVE  Sound'
<1>1. /\ DOMAIN procs' = DOMAIN procs
      /\ procs'[p] = r
      /\ \A q \in DOMAIN procs \ {p} : procs'[q] = procs[q]
  BY DEF Update
<1>2. ASSUME NEW q \in DOMAIN procs, InGroup(q)
      PROVE  /\ GroupGoroutine(q) \in DOMAIN procs'
             /\ procs'[GroupGoroutine(q)].outcome = "done"
  <2>1. GroupGoroutine(q) \in DOMAIN procs /\ procs[GroupGoroutine(q)].outcome = "done"
    BY <1>2 DEF Sound, SoundProc, Origin
  <2> QED BY <1>1, <2>1
<1>3. SoundProc(p)'
  <2>1. Origin(p)'
    BY <1>2 DEF Sound, SoundProc, Origin
  <2> QED BY <1>1, <2>1 DEF SoundProc
<1>4. ASSUME NEW q \in DOMAIN procs \ {p} PROVE SoundProc(q)'
  <2>1. SoundProc(q)
    BY DEF Sound
  <2>2. \A m \in Nat : <<q, m>> \in created' <=> <<q, m>> \in created
    BY SMTT(30)
  <2> QED BY <1>1, <1>2, <2>1, <2>2, SoundOther
<1>5. \A c \in created' : c[1] \in DOMAIN procs'
  BY <1>1, SMTT(30) DEF Sound
<1> QED BY <1>1, <1>3, <1>4, <1>5 DEF Sound

LEMMA SoundLeave ==
    ASSUME TypeInv, Sound, NEW p \in DOMAIN procs, NEW outcome \in {"stopped", "failed"},
           procs[p].outcome = "running", Leave(p, outcome),
           procs[p].pc = "create" =>
               outcome = "failed" /\ procs[p].made < NumResources[TriggerOf(p)],
           verdicts \subseteq verdicts', UNCHANGED <<hpc, created>>
    PROVE  Sound'
<1> DEFINE r == [procs[p] EXCEPT !.pc = "return", !.outcome = outcome]
<1>1. procs[p] \in Proc /\ p \in Goroutine /\ SoundProc(p)
  BY DEF TypeInv, TypeOK, WorkType, Sound
<1>2. /\ r.pc = "return" /\ r.outcome = outcome
      /\ r.next = procs[p].next /\ r.made = procs[p].made
  BY <1>1 DEF Proc
<1>3. Update(p, r)
  BY DEF Leave
<1>4. procs[p].pc \in {"start", "call", "select", "resolve", "create"}
  BY <1>1 DEF SoundProc, PointSound, Proc, PC
<1> HIDE DEF r
<1>5. PointSound(p, r)
  BY <1>2 DEF PointSound
<1>6. ChainSound(p, r, verdicts')
  BY <1>1, <1>2 DEF SoundProc, ChainSound
<1>7. MadeSound(p, r, created')
  BY <1>1, <1>2, <1>4 DEF SoundProc, MadeSound
<1> QED BY <1>3, <1>5, <1>6, <1>7, SoundUpdate

\* An interceptor lets the event pass
LEMMA SoundPassed ==
    ASSUME TypeInv, Sound, NEW p \in DOMAIN procs, NEW r \in Proc,
           procs[p].pc = "call", r.pc = "call", r.next = procs[p].next,
           r.made = procs[p].made, r.outcome = procs[p].outcome,
           Update(p, Passed(p, r)), Answer(p, "ok"), UNCHANGED <<hpc, created>>
    PROVE  Sound'
<1> DEFINE s == Passed(p, r)
<1>1. procs[p] \in Proc /\ p \in Goroutine /\ SoundProc(p)
  BY DEF TypeInv, TypeOK, WorkType, Sound
<1>2. Len(Chain(p)) \in Nat /\ procs[p].next \in Nat
  BY <1>1, GoroutineKinds DEF Proc
<1>3. /\ s.next = r.next + 1 /\ s.made = r.made /\ s.outcome = r.outcome
      /\ r.next < Len(Chain(p)) => s.pc = "call"
      /\ ~(r.next < Len(Chain(p))) => s.pc = AfterChain(p)
  BY DEF Passed, Proc
<1>4. Update(p, s)
  OBVIOUS
<1>5. verdicts' = verdicts \union {<<p, procs[p].next, "ok">>}
  BY DEF Answer
<1> HIDE DEF s
<1>6. procs[p].outcome = "running" /\ procs[p].made = 0 /\ procs[p].next <= Len(Chain(p))
  BY <1>1 DEF SoundProc, PointSound, ChainSound, MadeSound
<1>7. PointSound(p, s)
  BY <1>3, <1>6 DEF PointSound, AfterChain
<1>8. ChainSound(p, s, verdicts')
  <2>1. \A n \in 1..(procs[p].next - 1) : <<p, n, "ok">> \in verdicts
    BY <1>1 DEF SoundProc, ChainSound
  <2>2. \A n \in 1..procs[p].next : n = procs[p].next \/ n \in 1..(procs[p].next - 1)
    BY <1>2, SMTT(30)
  <2>3. \A n \in 1..procs[p].next : <<p, n, "ok">> \in verdicts'
    BY <1>5, <2>1, <2>2
  <2>4. s.next - 1 = procs[p].next /\ s.next = procs[p].next + 1
    BY <1>2, <1>3, SMTT(30)
  <2>5. s.pc = "call" => s.next <= Len(Chain(p))
    BY <1>2, <1>3, <2>4, SMTT(30) DEF AfterChain
  <2>6. s.pc # "call" => s.next = Len(Chain(p)) + 1
    BY <1>2, <1>3, <1>6, <2>4, SMTT(30)
  <2>7. s.pc # "start"
    BY <1>3 DEF AfterChain
  <2>8. s.outcome # "done" /\ ~(s.made > 0)
    BY <1>3, <1>6, SMTT(30)
  <2> QED BY <2>3, <2>4, <2>5, <2>6, <2>7, <2>8 DEF ChainSound
<1>9. MadeSound(p, s, created')
  BY <1>1, <1>3, <1>6 DEF SoundProc, MadeSound
<1>10. procs[p].outcome = "done" => s.outcome = "done"
  BY <1>6
<1>11. verdicts \subseteq verdicts'
  BY <1>5
<1> QED BY <1>4, <1>7, <1>8, <1>9, <1>10, <1>11, SoundUpdate

LEMMA SoundGoroutine ==
    ASSUME TypeInv, Sound, NEW p \in DOMAIN procs, GoroutineStep(p)
    PROVE  Sound'
<1> USE DEF handlerVars, listerVars
<1>1. procs[p] \in Proc /\ p \in Goroutine /\ SoundProc(p)
  BY DEF TypeInv, TypeOK, WorkType, Sound
<1>2. Len(Chain(p)) \in Nat /\ procs[p].next \in Nat /\ procs[p].made \in Nat
  BY <1>1, GoroutineKinds DEF Proc
<1>3. procs[p].pc \notin {"return", "end"} => procs[p].outcome = "running"
  BY <1>1 DEF SoundProc, PointSound
<1>0. /\ PointSound(p, procs[p]) /\ ChainSound(p, procs[p], verdicts)
      /\ MadeSound(p, procs[p], created) /\ Origin(p)
  BY <1>1 DEF SoundProc
<1>4. ASSUME NEW answer, Answer(p, answer)
      PROVE  verdicts \subseteq verdicts'
  BY <1>4 DEF Answer
<1>5. CASE StartChain(p)
  <2> DEFINE r == IF Chain(p) = <<>>
                    THEN [procs[p] EXCEPT !.ext = PassedExtensions(p), !.pc = AfterChain(p)]
                    ELSE [procs[p] EXCEPT !.ext = PassedExtensions(p), !.pc = "call",
                                          !.body = FormToJSON(@, procs[p].header)]
  <2>1. /\ procs[p].pc = "start" /\ Update(p, r)
        /\ UNCHANGED <<hpc, verdicts, created>>
    BY <1>5 DEF StartChain
  <2>2. /\ r.next = procs[p].next /\ r.made = procs[p].made /\ r.outcome = procs[p].outcome
        /\ Chain(p) = <<>> => r.pc = AfterChain(p)
        /\ Chain(p) # <<>> => r.pc = "call"
    BY <1>1 DEF Proc
  <2>3. Chain(p) # <<>> => Len(Chain(p)) >= 1
    <3>1. Chain(p) \in Seq(InterceptorKind)
      BY <1>1, GoroutineKinds, SinkAssumption DEF Chain
    <3> QED BY <3>1, SMTT(30)
  <2>4. Chain(p) = <<>> => Len(Chain(p)) = 0
    BY SMTT(30)
  <2> HIDE DEF r
  <2>5. procs[p].next = 1 /\ procs[p].made = 0 /\ procs[p].outcome = "running"
    BY <1>0, <1>3, <2>1 DEF ChainSound, MadeSound
  <2>6. PointSound(p, r)
    BY <2>2, <2>5 DEF PointSound, AfterChain
  <2>7. ChainSound(p, r, verdicts')
    BY <2>2, <2>3, <2>4, <2>5, SMTT(30) DEF ChainSound, AfterChain
  <2>8. MadeSound(p, r, created')
    BY <1>0, <2>1, <2>2, <2>5, SMTT(30) DEF MadeSound
  <2> QED BY <2>1, <2>2, <2>6, <2>7, <2>8, SoundUpdate
<1>6. CASE CallWebhook(p)
  <2>1. procs[p].pc = "call" /\ UNCHANGED <<hpc, created>>
    BY <1>6 DEF CallWebhook
  <2>2. ASSUME NEW body \in Body, NEW header \in Header, Answer(p, "ok"),
               Update(p, Passed(p, [procs[p] EXCEPT !.body = body, !.header = header]))
        PROVE  Sound'
    <3> DEFINE r == [procs[p] EXCEPT !.body = body, !.header = header]
    <3>1. /\ r \in Proc /\ r.pc = "call" /\ r.next = procs[p].next
          /\ r.made = procs[p].made /\ r.outcome = procs[p].outcome
      BY <1>1, <2>1 DEF Proc
    <3> HIDE DEF r
    <3>2. Update(p, Passed(p, r))
      BY <2>2 DEF r
    <3> QED BY <2>1, <2>2, <3>1, <3>2, SoundPassed
  <2>3. ASSUME Leave(p, "failed"), Answer(p, "error")
        PROVE  Sound'
    BY <1>3, <1>4, <2>1, <2>3, SoundLeave
  <2> QED BY <1>6, <2>2, <2>3, ZenonT(40) DEF CallWebhook
<1>7. CASE CallInterceptor(p)
  <2>1. procs[p].pc = "call" /\ UNCHANGED <<hpc, created>>
    BY <1>7 DEF CallInterceptor
  <2>2. ASSUME NEW keys \in SUBSET ExtKey, Answer(p, "ok"),
               Update(p, Passed(p, [procs[p] EXCEPT
                   !.ext = [k \in ExtKey |-> IF k \in keys THEN p ELSE @[k]]]))
        PROVE  Sound'
    <3> DEFINE r == [procs[p] EXCEPT !.ext = [k \in ExtKey |-> IF k \in keys THEN p ELSE @[k]]]
    <3>1. [k \in ExtKey |-> IF k \in keys THEN p ELSE procs[p].ext[k]] \in Extensions
      BY <1>1 DEF Proc, Extensions
    <3>2. /\ r \in Proc /\ r.pc = "call" /\ r.next = procs[p].next
          /\ r.made = procs[p].made /\ r.outcome = procs[p].outcome
      BY <1>1, <2>1, <3>1 DEF Proc
    <3> HIDE DEF r
    <3>3. Update(p, Passed(p, r))
      BY <2>2 DEF r
    <3> QED BY <2>1, <2>2, <3>2, <3>3, SoundPassed
  <2>3. ASSUME NEW outcome \in {"stopped", "failed"}, NEW answer,
               Leave(p, outcome), Answer(p, answer)
        PROVE  Sound'
    BY <1>3, <1>4, <2>1, <2>3, SoundLeave
  <2> QED BY <1>7, <2>2, <2>3 DEF CallInterceptor
<1>8. CASE StartGroupTriggers(p)
  <2> DEFINE selector == GroupSelector[GroupOf(p)]
             new == {EventOf(p)} \X {GroupOf(p)} \X SelectTriggers(selector)
             r == [procs[p] EXCEPT !.pc = "return", !.outcome = "done"]
             old == [procs EXCEPT ![p].pc = "return", ![p].outcome = "done"]
  <2>1. procs[p].pc = "select" /\ UNCHANGED <<hpc, verdicts, created>>
    BY <1>8 DEF StartGroupTriggers
  <2>2. CASE selector.labels = InvalidSelector
    BY <1>3, <1>8, <2>1, <2>2, SoundLeave DEF StartGroupTriggers
  <2>3. CASE selector.labels # InvalidSelector
    <3>1. IsGroup(p) /\ GroupOf(p) \in Group /\ EventOf(p) \in Event /\ GroupGoroutine(p) = p
      BY <1>0, <1>1, <2>1, GoroutineKinds DEF PointSound
    <3>2. procs' = Started(old, new, EventOf(p), procs[p].header)
      BY <1>8, <2>3 DEF StartGroupTriggers
    <3>3. old = [procs EXCEPT ![p] = r]
      OBVIOUS
    <3>4. SelectTriggers(selector) \subseteq Job
      BY <3>1, SelectTriggersType, SinkAssumption DEF TypeInv, TypeOK, ListerType
    <3>5. \A q \in new : /\ q \in Goroutine /\ InGroup(q) /\ EventOf(q) = EventOf(p)
                         /\ GroupGoroutine(q) = GroupGoroutine(p)
      BY <3>1, <3>4, NamesAssumption DEF InGroup, GroupOf, JobOf, EventOf, GroupGoroutine, Goroutine
    <3>6. /\ r.pc = "return" /\ r.outcome = "done"
          /\ r.next = procs[p].next /\ r.made = procs[p].made
      BY <1>1 DEF Proc
    <3> HIDE DEF new, old, r, selector
    <3>7. new \intersect DOMAIN procs = {}
      <4> SUFFICES ASSUME NEW q \in new, q \in DOMAIN procs PROVE FALSE
        OBVIOUS
      <4>1. Origin(q)
        BY DEF Sound, SoundProc
      <4>2. procs[p].outcome = "done"
        BY <3>1, <3>5, <4>1 DEF Origin
      <4> QED BY <1>3, <2>1, <4>2
    <3>8. /\ DOMAIN procs' = DOMAIN procs \union new
          /\ procs'[p] = r
          /\ \A q \in DOMAIN procs \ {p} : procs'[q] = procs[q]
          /\ \A q \in new : procs'[q] = NewProc(EventOf(p), procs[p].header)
      BY <3>2, <3>3, <3>7 DEF Started
    <3>9. ASSUME NEW q \in DOMAIN procs', InGroup(q)
          PROVE  /\ GroupGoroutine(q) \in DOMAIN procs'
                 /\ procs'[GroupGoroutine(q)].outcome = "done"
      <4>1. CASE q \in new
        BY <3>1, <3>5, <3>6, <3>8, <4>1
      <4>2. CASE q \in DOMAIN procs
        <5>1. GroupGoroutine(q) \in DOMAIN procs /\ procs[GroupGoroutine(q)].outcome = "done"
          BY <3>9, <4>2 DEF Sound, SoundProc, Origin
        <5> QED BY <3>6, <3>8, <5>1
      <4> QED BY <3>8, <4>1, <4>2
    <3>10. SoundProc(p)'
      <4>1. procs[p].next = Len(Chain(p)) + 1 /\ procs[p].made = 0
        BY <1>0, <2>1 DEF ChainSound, MadeSound
      <4>2. PointSound(p, r)
        BY <3>6 DEF PointSound
      <4>3. ChainSound(p, r, verdicts')
        BY <1>0, <2>1, <3>6, <4>1 DEF ChainSound
      <4>4. MadeSound(p, r, created')
        BY <1>0, <2>1, <3>1, <3>6, <4>1 DEF MadeSound
      <4>5. Origin(p)'
        BY <1>0, <2>1, <3>8, <3>9 DEF Origin
      <4> QED BY <3>8, <4>2, <4>3, <4>4, <4>5 DEF SoundProc
    <3>11. ASSUME NEW q \in DOMAIN procs \ {p} PROVE SoundProc(q)'
      <4>1. SoundProc(q)
        BY DEF Sound
      <4>2. InGroup(q) => /\ GroupGoroutine(q) \in DOMAIN procs'
                          /\ procs'[GroupGoroutine(q)].outcome = "done"
        BY <3>8, <3>9
      <4> QED BY <2>1, <3>8, <4>1, <4>2, SoundOther
    <3>12. ASSUME NEW q \in new PROVE SoundProc(q)'
      <4>1. \A m \in Nat : <<q, m>> \notin created'
        BY <2>1, <3>7 DEF Sound
      <4>2. hpc'[EventOf(q)] \in Under
        BY <1>0, <2>1, <3>5 DEF Origin, Under
      <4>3. InGroup(q) => /\ GroupGoroutine(q) \in DOMAIN procs'
                          /\ procs'[GroupGoroutine(q)].outcome = "done"
        BY <3>8, <3>9
      <4> QED BY <3>1, <3>5, <3>8, <4>1, <4>2, <4>3, SoundNew
    <3> QED BY <2>1, <3>8, <3>10, <3>11, <3>12 DEF Sound
  <2> QED BY <2>2, <2>3
<1>9. CASE Resolve(p)
  <2>1. procs[p].pc = "resolve" /\ UNCHANGED <<hpc, verdicts, created>>
    BY <1>9 DEF Resolve
  <2>2. ASSUME Update(p, [procs[p] EXCEPT !.pc = "create"])
        PROVE  Sound'
    <3> DEFINE r == [procs[p] EXCEPT !.pc = "create"]
    <3>1. /\ r.pc = "create" /\ r.next = procs[p].next
          /\ r.made = procs[p].made /\ r.outcome = procs[p].outcome
      BY <1>1 DEF Proc
    <3>2. Update(p, r)
      BY <2>2
    <3> HIDE DEF r
    <3>3. PointSound(p, r)
      BY <1>0, <1>3, <2>1, <3>1 DEF PointSound
    <3>4. ChainSound(p, r, verdicts')
      BY <1>0, <2>1, <3>1 DEF ChainSound
    <3>5. MadeSound(p, r, created')
      BY <1>0, <1>3, <2>1, <3>1 DEF MadeSound
    <3> QED BY <2>1, <3>1, <3>2, <3>3, <3>4, <3>5, SoundUpdate
  <2>3. ASSUME Leave(p, "failed") PROVE Sound'
    BY <1>3, <2>1, <2>3, SoundLeave
  <2> QED BY <1>9, <2>2, <2>3 DEF Resolve
<1>10. CASE CreateResource(p)
  <2>1. /\ procs[p].pc = "create" /\ UNCHANGED <<hpc, verdicts>>
        /\ procs[p].made < NumResources[TriggerOf(p)]
    BY <1>10 DEF CreateResource
  <2>2. ASSUME created' = created \union {<<p, procs[p].made + 1>>},
               Update(p, [procs[p] EXCEPT !.made = @ + 1])
        PROVE  Sound'
    <3> DEFINE r == [procs[p] EXCEPT !.made = @ + 1]
    <3>1. /\ r.pc = "create" /\ r.next = procs[p].next
          /\ r.made = procs[p].made + 1 /\ r.outcome = procs[p].outcome
      BY <1>1, <2>1 DEF Proc
    <3>2. Update(p, r)
      BY <2>2
    <3> HIDE DEF r
    <3>3. procs[p].made \in Nat /\ ~IsGroup(p) /\ NumResources[TriggerOf(p)] \in Nat
      BY <1>0, <1>1, <1>2, <2>1, GoroutineKinds DEF PointSound
    <3>4. \A m \in Nat : <<p, m>> \in created' <=> m \in 1..r.made
      <4>1. \A m \in Nat : <<p, m>> \in created <=> m \in 1..procs[p].made
        BY <1>0 DEF MadeSound
      <4> QED BY <2>2, <3>1, <3>3, <4>1, SMTT(30)
    <3>5. PointSound(p, r)
      BY <1>3, <2>1, <3>1, <3>3 DEF PointSound
    <3>6. ChainSound(p, r, verdicts')
      BY <1>0, <2>1, <3>1 DEF ChainSound
    <3>7. MadeSound(p, r, created')
      BY <1>3, <2>1, <3>1, <3>3, <3>4, SMTT(30) DEF MadeSound
    <3> QED BY <2>1, <2>2, <3>1, <3>2, <3>5, <3>6, <3>7, SoundUpdate
  <2>3. ASSUME Leave(p, "failed"), UNCHANGED created
        PROVE  Sound'
    BY <1>3, <2>1, <2>3, SoundLeave
  <2> QED BY <1>10, <2>2, <2>3 DEF CreateResource
<1>11. CASE TriggerSucceeds(p)
  <2> DEFINE r == [procs[p] EXCEPT !.pc = "return", !.outcome = "done"]
  <2>1. /\ procs[p].pc = "create" /\ procs[p].made = NumResources[TriggerOf(p)]
        /\ Update(p, r) /\ UNCHANGED <<hpc, verdicts, created>>
    BY <1>11 DEF TriggerSucceeds, Leave
  <2>2. /\ r.pc = "return" /\ r.next = procs[p].next
        /\ r.made = procs[p].made /\ r.outcome = "done"
    BY <1>1 DEF Proc
  <2> HIDE DEF r
  <2>3. ~IsGroup(p) /\ NumResources[TriggerOf(p)] \in Nat
    BY <1>0, <1>1, <2>1, GoroutineKinds DEF PointSound
  <2>4. PointSound(p, r)
    BY <2>2 DEF PointSound
  <2>5. ChainSound(p, r, verdicts')
    BY <1>0, <2>1, <2>2 DEF ChainSound
  <2>6. MadeSound(p, r, created')
    BY <1>0, <2>1, <2>2, <2>3 DEF MadeSound
  <2> QED BY <2>1, <2>2, <2>4, <2>5, <2>6, SoundUpdate
<1>12. CASE GoroutineReturns(p)
  <2> DEFINE r == [procs[p] EXCEPT !.pc = "end"]
  <2>1. /\ procs[p].pc = "return" /\ Update(p, r) /\ UNCHANGED <<hpc, verdicts, created>>
    BY <1>12 DEF GoroutineReturns
  <2>2. /\ r.pc = "end" /\ r.next = procs[p].next
        /\ r.made = procs[p].made /\ r.outcome = procs[p].outcome
    BY <1>1 DEF Proc
  <2> HIDE DEF r
  <2>3. PointSound(p, r)
    BY <1>0, <2>1, <2>2 DEF PointSound
  <2>4. ChainSound(p, r, verdicts')
    BY <1>0, <2>1, <2>2 DEF ChainSound
  <2>5. MadeSound(p, r, created')
    BY <1>0, <2>1, <2>2 DEF MadeSound
  <2> QED BY <2>1, <2>2, <2>3, <2>4, <2>5, SoundUpdate
<1> QED BY <1>5, <1>6, <1>7, <1>8, <1>9, <1>10, <1>11, <1>12 DEF GoroutineStep

-----------------------------------------------------------------------------
(* The theorems *)

Inv == TypeInv /\ Sound

LEMMA InvStep == Inv /\ [Next]_vars => Inv'
<1> SUFFICES ASSUME TypeInv, Sound, [Next]_vars PROVE TypeInv' /\ Sound'
  BY DEF Inv
<1>1. CASE UNCHANGED vars
  <2>1. TypeInv'
    BY <1>1 DEF vars, TypeInv, TypeOK, ListerType, HandlerType, WorkType, HoldsEL, Finite
  <2>2. \A p \in DOMAIN procs : SoundProc(p)'
    BY <1>1 DEF vars, Sound, SoundProc, Origin
  <2> QED BY <1>1, <2>1, <2>2 DEF vars, Sound
<1>2. CASE \E e \in Event : Receive(e) \/ HandlerStep(e) \/ TimeOut(e)
  BY <1>2, TypeHandler, SoundHandler
<1>3. CASE \E p \in DOMAIN procs : GoroutineStep(p)
  BY <1>3, TypeGoroutine, SoundGoroutine
<1>4. CASE ChangeTriggers \/ ChangeEventListener
  <2>1. TypeInv'
    <3>1. UNCHANGED <<hpc, request, el, jobs, buffered, client, received,
                      emitted, procs, wg, verdicts, created, recorded>>
      BY <1>4 DEF ChangeTriggers, ChangeEventListener, handlerVars
    <3>2. ListerType'
      BY <1>4, SinkAssumption, SMTT(30) DEF ChangeTriggers, ChangeEventListener, TypeInv, TypeOK, ListerType
    <3>3. HandlerType' /\ WorkType'
      BY <3>1 DEF TypeInv, TypeOK, HandlerType, WorkType
    <3>4. HoldsEL' /\ Finite'
      BY <3>1 DEF TypeInv, HoldsEL, Finite
    <3> QED BY <3>2, <3>3, <3>4 DEF TypeInv, TypeOK
  <2>2. \A p \in DOMAIN procs : SoundProc(p)'
    BY <1>4 DEF ChangeTriggers, ChangeEventListener, handlerVars, Sound, SoundProc, Origin
  <2> QED BY <1>4, <2>1, <2>2 DEF ChangeTriggers, ChangeEventListener, Sound
<1> QED BY <1>1, <1>2, <1>3, <1>4 DEF Next, Quiescent

\* Inv, the types together with what every goroutine's record implies about the answers
\* its chain has had and the resources it has made, is an invariant of the sink.
THEOREM Invariance == Spec => []Inv
<1>1. Init => Inv
  BY TypeInit, SoundInit DEF Inv
<1> QED BY <1>1, InvStep, PTL DEF Spec

\* The types of the sink's state, whatever the events, groups and triggers.
THEOREM TypeCorrect == Spec => []TypeOK
<1>1. Inv => TypeOK
  BY DEF Inv, TypeInv
<1> QED BY <1>1, Invariance, PTL

\* No resource is created past an interceptor of the trigger, or of the group that
\* selected it, that has not let the event pass (processTrigger, processTriggerGroups).
THEOREM ChainBeforeCreation == Spec => []CreatedOnlyAfterWholeChain
<1>1. Inv => CreatedOnlyAfterWholeChain
  <2> SUFFICES ASSUME Inv, NEW c \in created
               PROVE  /\ ChainPassed(c[1])
                      /\ InGroup(c[1]) => ChainPassed(GroupGoroutine(c[1]))
    BY DEF CreatedOnlyAfterWholeChain
  <2> DEFINE p == c[1]
  <2>1. p \in DOMAIN procs /\ SoundProc(p) /\ p \in Goroutine /\ procs[p] \in Proc
    BY DEF Inv, TypeInv, TypeOK, WorkType, Sound
  <2>2. c[2] \in Nat /\ c = <<p, c[2]>>
    BY SMTT(30) DEF Inv, TypeInv, TypeOK, WorkType
  <2> HIDE DEF p
  <2>3. c[2] \in 1..procs[p].made
    BY <2>1, <2>2 DEF SoundProc, MadeSound
  <2>4. procs[p].next = Len(Chain(p)) + 1
    <3>1. procs[p].made > 0
      BY <2>1, <2>3, SMTT(30) DEF Proc
    <3> QED BY <2>1, <3>1 DEF SoundProc, ChainSound
  <2>5. ChainPassed(p)
    <3>1. procs[p].next - 1 = Len(Chain(p))
      BY <2>1, <2>4, GoroutineKinds, SMTT(30)
    <3> QED BY <2>1, <3>1 DEF SoundProc, ChainSound, ChainPassed
  <2>6. ASSUME InGroup(p) PROVE ChainPassed(GroupGoroutine(p))
    <3> DEFINE g == GroupGoroutine(p)
    <3>1. g \in DOMAIN procs /\ procs[g].outcome = "done"
      BY <2>1, <2>6 DEF SoundProc, Origin
    <3>2. SoundProc(g) /\ g \in Goroutine
      BY <3>1 DEF Inv, TypeInv, TypeOK, WorkType, Sound
    <3> HIDE DEF g
    <3>3. procs[g].next = Len(Chain(g)) + 1
      BY <3>1, <3>2 DEF SoundProc, ChainSound
    <3>4. ChainPassed(g)
      <4>1. procs[g].next - 1 = Len(Chain(g))
        BY <3>2, <3>3, GoroutineKinds, SMTT(30)
      <4> QED BY <3>2, <4>1 DEF SoundProc, ChainSound, ChainPassed
    <3> QED BY <3>4 DEF g
  <2> QED BY <2>5, <2>6 DEF p
<1> QED BY <1>1, Invariance, PTL

=============================================================================
