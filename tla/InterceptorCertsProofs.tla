----------------------- MODULE InterceptorCertsProofs -----------------------
(***************************************************************************)
(* Proofs about InterceptorCerts, for any number of pods, sinks and core   *)
(* ClusterInterceptors, and for any values of the bounds.                  *)
(***************************************************************************)
EXTENDS InterceptorCerts, TLAPS

\* The obligations are large: SMT gets thirty seconds unless a leaf says otherwise
USE SMTT(30)

\* What TypeOK says of the workers
WorkersTyped(ws) ==
    /\ ws \in [Worker -> WorkerState]
    /\ \A w \in Worker : ws[w].pc = "store" => ws[w].new \in Cert

LEMMA WorkerNames ==
    ASSUME NEW p \in Pod
    PROVE  Checker(p) \in Worker /\ Updater(p) \in Worker /\ Checker(p) # Updater(p)
BY DEF Worker, Checker, Updater

LEMMA IdleType == Idle \in WorkerState /\ Idle.pc = "off"
BY DEF Idle, WorkerState, NoCert

\* A worker's record is replaced
LEMMA SetType ==
    ASSUME WorkersTyped(worker), NEW w \in Worker, NEW r \in WorkerState,
           r.pc = "store" => r.new \in Cert, worker' = [worker EXCEPT ![w] = r]
    PROVE  WorkersTyped(worker')
BY DEF WorkersTyped

LEMMA IdleAt ==
    ASSUME NEW pc \in {"list", "tick", "dead"}, NEW ca \in Nat
    PROVE  /\ [Idle EXCEPT !.pc = pc, !.ca = ca] \in WorkerState
           /\ [Idle EXCEPT !.pc = pc] \in WorkerState
           /\ [Idle EXCEPT !.pc = pc, !.ca = ca].pc = pc
           /\ [Idle EXCEPT !.pc = pc].pc = pc
BY Zenon DEF Idle, WorkerState, NoCert

LEMMA ForgetType ==
    ASSUME NEW w, Forget(w), fresh \subseteq Worker \X (0..NumCore)
    PROVE  fresh' \subseteq Worker \X (0..NumCore)
BY DEF Forget

LEMMA EndBootType ==
    ASSUME WorkersTyped(worker), NEW p \in Pod, NEW pc \in {"tick", "dead"}, EndBoot(p, pc)
    PROVE  WorkersTyped(worker')
<1> DEFINE r == [Idle EXCEPT !.pc = pc, !.ca = worker[Checker(p)].ca]
           s == [worker[Updater(p)] EXCEPT !.pc = "tick"]
<1>1. /\ r \in WorkerState /\ r.pc = pc
  BY WorkerNames, IdleAt, Zenon DEF WorkersTyped, WorkerState
<1>2. s \in WorkerState /\ s.pc = "tick"
  BY WorkerNames DEF WorkersTyped, WorkerState
<1>3. worker' = [worker EXCEPT ![Checker(p)] = r, ![Updater(p)] = s]
  BY WorkerNames, Zenon DEF EndBoot, WorkersTyped
<1> HIDE DEF r, s
<1> QED BY <1>1, <1>2, <1>3, WorkerNames DEF WorkersTyped

LEMMA ReturnType ==
    ASSUME WorkersTyped(worker), NEW w \in Worker, NEW ok \in BOOLEAN, Return(w, ok),
           fresh \subseteq Worker \X (0..NumCore)
    PROVE  WorkersTyped(worker') /\ fresh' \subseteq Worker \X (0..NumCore)
<1>1. ASSUME NEW p \in Pod, EndBoot(p, IF ok THEN "tick" ELSE "dead")
      PROVE  WorkersTyped(worker') /\ fresh' \subseteq Worker \X (0..NumCore)
  <2>1. (IF ok THEN "tick" ELSE "dead") \in {"tick", "dead"}
    OBVIOUS
  <2>2. Forget(Checker(p))
    BY <1>1 DEF EndBoot
  <2> QED BY <1>1, <2>1, <2>2, EndBootType, ForgetType
<1>2. ASSUME NEW pc \in {"tick", "dead"}, NEW ca \in Nat, Forget(w),
             worker' = [worker EXCEPT ![w] = [Idle EXCEPT !.pc = pc, !.ca = ca]]
      PROVE  WorkersTyped(worker') /\ fresh' \subseteq Worker \X (0..NumCore)
  <2> DEFINE r == [Idle EXCEPT !.pc = pc, !.ca = ca]
  <2>1. r \in WorkerState /\ r.pc = pc /\ worker' = [worker EXCEPT ![w] = r]
    BY <1>2, IdleAt, Zenon
  <2> HIDE DEF r
  <2> QED BY <1>2, <2>1, SetType, ForgetType, Zenon
<1>3. ASSUME NEW pc \in {"tick", "dead"}, Forget(w),
             worker' = [worker EXCEPT ![w] = [Idle EXCEPT !.pc = pc]]
      PROVE  WorkersTyped(worker') /\ fresh' \subseteq Worker \X (0..NumCore)
  <2> DEFINE r == [Idle EXCEPT !.pc = pc]
  <2>1. r \in WorkerState /\ r.pc = pc /\ worker' = [worker EXCEPT ![w] = r]
    BY <1>3, IdleAt, Zenon
  <2> HIDE DEF r
  <2> QED BY <1>3, <2>1, SetType, ForgetType, Zenon
<1>4. worker[w].ca \in Nat
  BY DEF WorkersTyped, WorkerState
<1>5. (IF ok THEN "tick" ELSE "dead") \in {"tick", "dead"}
  OBVIOUS
<1> QED BY <1>1, <1>2, <1>3, <1>4, <1>5, Zenon DEF Return

-----------------------------------------------------------------------------
(* Types *)

\* TypeOK in three parts: the secret and its copies, the other objects, the sinks
Counts == [expiries : Nat, errors : Nat, changes : Nat, stops : Nat, surges : Nat]
SecretTyped ==
    /\ made \in Nat /\ expired \subseteq Cert /\ secret \in Seq(Cert)
    /\ cached \in [Pod -> Nat] /\ \A p \in Pod : cached[p] <= Len(secret)
    /\ count \in Counts
ObjectsTyped ==
    /\ bundle \in [Core -> Nat] /\ user \in {"set", "empty"}
    /\ fresh \subseteq Worker \X (0..NumCore)
SinksTyped ==
    /\ sink \in [Listener -> [up : BOOLEAN, pool : SUBSET Cert]]
    /\ seen \in [Listener -> [core : [Core -> Nat], user : {"set", "empty"}]]

LEMMA TypeParts == TypeOK <=> SecretTyped /\ ObjectsTyped /\ WorkersTyped(worker) /\ SinksTyped
BY DEF TypeOK, SecretTyped, ObjectsTyped, WorkersTyped, SinksTyped, Counts

LEMMA TypePartsNext ==
    TypeOK' <=> SecretTyped' /\ ObjectsTyped' /\ WorkersTyped(worker') /\ SinksTyped'
BY DEF TypeOK, SecretTyped, ObjectsTyped, WorkersTyped, SinksTyped, Counts

LEMMA TypeInit == Init => TypeOK
<1> SUFFICES ASSUME Init PROVE TypeOK
  OBVIOUS
<1>1. SecretTyped
  BY DEF Init, SecretTyped, Counts
<1>2. ObjectsTyped
  BY DEF Init, ObjectsTyped, NoCert
<1>3. WorkersTyped(worker)
  BY IdleType DEF Init, WorkersTyped
<1>4. SinksTyped
  BY <1>2 DEF Init, SinksTyped, ObjectsTyped, Current, Down
<1> QED BY <1>1, <1>2, <1>3, <1>4, TypeParts

LEMMA Counted ==
    ASSUME count \in Counts
    PROVE  /\ [count EXCEPT !.expiries = @ + 1] \in Counts
           /\ [count EXCEPT !.errors = @ + 1] \in Counts
           /\ [count EXCEPT !.changes = @ + 1] \in Counts
           /\ [count EXCEPT !.stops = @ + 1] \in Counts
           /\ [count EXCEPT !.surges = @ + 1] \in Counts
<1>1. [count EXCEPT !.expiries = @ + 1] \in Counts
  BY DEF Counts
<1>2. [count EXCEPT !.errors = @ + 1] \in Counts
  BY DEF Counts
<1>3. [count EXCEPT !.changes = @ + 1] \in Counts
  BY DEF Counts
<1>4. [count EXCEPT !.stops = @ + 1] \in Counts
  BY DEF Counts
<1>5. [count EXCEPT !.surges = @ + 1] \in Counts
  BY DEF Counts
<1> QED BY <1>1, <1>2, <1>3, <1>4, <1>5

\* Of the counters only the errors change
LEMMA CountType ==
    ASSUME SecretTyped, UNCHANGED <<expired, secret, cached>>, made' \in Nat,
           Error \/ UNCHANGED count
    PROVE  SecretTyped'
<1>1. count' \in Counts
  BY Counted, Zenon DEF SecretTyped, Error
<1> QED BY <1>1 DEF SecretTyped

LEMMA TypeChecker ==
    ASSUME TypeOK, NEW p \in Pod, CheckerStep(p)
    PROVE  TypeOK'
<1> DEFINE w == Checker(p)
<1> USE DEF sinkVars
<1>1. SecretTyped /\ ObjectsTyped /\ WorkersTyped(worker) /\ SinksTyped /\ w \in Worker
  BY TypeParts, WorkerNames
<1>2. worker[w] \in WorkerState /\ worker[w].ca \in Nat /\ worker[w].new \in Nat
  BY <1>1 DEF WorkersTyped, WorkerState
<1>3. SinksTyped'
  BY <1>1 DEF SinksTyped, CheckerStep, BootCerts, CheckCertValidity, StoreSecret
<1>4. ASSUME MakeCerts(p), UNCHANGED <<expired, secret, cached, count, bundle, user>>
      PROVE  TypeOK'
  <2> DEFINE r == [worker[w] EXCEPT !.new = made + 1, !.pc = "store"]
  <2>1. r \in WorkerState /\ r.new \in Cert
    <3>1. made + 1 \in Nat /\ made + 1 # 0
      BY <1>1 DEF SecretTyped
    <3> HIDE <1>1
    <3>2. r \in WorkerState /\ r.new = made + 1
      BY <1>2, <3>1, Zenon DEF WorkerState
    <3> QED BY <3>1, <3>2 DEF Cert, NoCert
  <2>2. worker' = [worker EXCEPT ![w] = r]
    BY <1>1, <1>4, Zenon DEF MakeCerts, WorkersTyped
  <2> HIDE DEF r
  <2>3. WorkersTyped(worker')
    BY <1>1, <2>1, <2>2, SetType, Zenon
  <2>4. SecretTyped'
    BY <1>1, <1>4, CountType DEF MakeCerts, SecretTyped
  <2>5. ObjectsTyped'
    BY <1>1, <1>4, CertsAssumption DEF MakeCerts, ObjectsTyped, Secret
  <2> QED BY <1>3, <2>3, <2>4, <2>5, TypePartsNext
<1>5. ASSUME NEW ca \in Nat, worker' = [worker EXCEPT ![w].ca = ca, ![w].pc = "list"]
      PROVE  WorkersTyped(worker')
  <2> DEFINE r == [worker[w] EXCEPT !.ca = ca, !.pc = "list"]
  <2>1. r \in WorkerState /\ r.pc = "list"
    BY <1>2, Zenon DEF WorkerState
  <2>2. worker' = [worker EXCEPT ![w] = r]
    BY <1>1, <1>5, Zenon DEF WorkersTyped
  <2> HIDE DEF r
  <2> QED BY <1>1, <2>1, <2>2, SetType, Zenon
<1>6. ASSUME NEW ca \in Nat, worker' = [worker EXCEPT ![w] = [Idle EXCEPT !.pc = "list", !.ca = ca]]
      PROVE  WorkersTyped(worker')
  <2> DEFINE r == [Idle EXCEPT !.pc = "list", !.ca = ca]
  <2>1. r \in WorkerState /\ r.pc = "list" /\ worker' = [worker EXCEPT ![w] = r]
    BY <1>6, IdleAt, Zenon
  <2> HIDE DEF r
  <2> QED BY <1>1, <2>1, SetType, Zenon
<1>7. CASE BootCerts(p)
  <2>1. ASSUME Error, EndBoot(p, "dead"), UNCHANGED made PROVE TypeOK'
    <3>1. Forget(w)
      BY <2>1 DEF EndBoot
    <3>2. ObjectsTyped'
      BY <1>1, <1>7, <3>1, ForgetType DEF BootCerts, ObjectsTyped
    <3>3. SecretTyped'
      BY <1>1, <1>7, <2>1, CountType DEF BootCerts, SecretTyped
    <3> QED BY <1>1, <1>3, <2>1, <3>2, <3>3, EndBootType, TypePartsNext
  <2>2. ASSUME secret # <<>>, UNCHANGED <<made, fresh, count>>,
               worker' = [worker EXCEPT ![w].ca = secret[Len(secret)], ![w].pc = "list"]
        PROVE  TypeOK'
    <3>1. secret[Len(secret)] \in Nat
      BY <1>1, <2>2 DEF SecretTyped, Cert
    <3>2. WorkersTyped(worker')
      BY <1>5, <2>2, <3>1, Zenon
    <3>3. SecretTyped' /\ ObjectsTyped'
      BY <1>1, <1>7, <2>2 DEF BootCerts, SecretTyped, ObjectsTyped
    <3> QED BY <1>3, <3>2, <3>3, TypePartsNext
  <2> QED BY <1>4, <1>7, <2>1, <2>2 DEF BootCerts
<1>8. CASE CheckCertValidity(p)
  <2>1. ASSUME Error, UNCHANGED <<made, fresh>>,
               worker' = [worker EXCEPT ![w].ca = NoCert, ![w].pc = "list"]
        PROVE  TypeOK'
    <3>1. WorkersTyped(worker')
      BY <1>5, <2>1, Zenon DEF NoCert
    <3>2. ObjectsTyped'
      BY <1>1, <1>8, <2>1 DEF CheckCertValidity, ObjectsTyped
    <3>3. SecretTyped'
      BY <1>1, <1>8, <2>1, CountType DEF CheckCertValidity, SecretTyped
    <3> QED BY <1>3, <3>1, <3>2, <3>3, TypePartsNext
  <2> QED BY <1>4, <1>8, <2>1 DEF CheckCertValidity
<1>9. CASE StoreSecret(p)
  <2>1. UNCHANGED <<made, expired, bundle, user, cached>> /\ worker[w].pc = "store"
    BY <1>9 DEF StoreSecret
  <2>2. ASSUME secret' = Append(secret, worker[w].new),
               fresh' = fresh \ (Worker \X {Secret}), UNCHANGED count,
               worker' = [worker EXCEPT ![w] = [Idle EXCEPT !.pc = "list", !.ca = worker[w].new]]
        PROVE  TypeOK'
    <3>1. worker[w].new \in Cert
      BY <1>1, <2>1 DEF WorkersTyped
    <3>2. secret' \in Seq(Cert) /\ Len(secret') = Len(secret) + 1 /\ Len(secret) \in Nat
      BY <1>1, <2>2, <3>1 DEF SecretTyped
    <3>3. SecretTyped'
      BY <1>1, <2>1, <2>2, <3>2 DEF SecretTyped
    <3>4. ObjectsTyped'
      BY <1>1, <2>1, <2>2 DEF ObjectsTyped
    <3> QED BY <1>2, <1>3, <1>6, <2>2, <3>3, <3>4, TypePartsNext, Zenon
  <2>3. ASSUME Error \/ UNCHANGED count, UNCHANGED secret, EndBoot(p, "dead")
        PROVE  TypeOK'
    <3>1. Forget(w)
      BY <2>3 DEF EndBoot
    <3>2. ObjectsTyped'
      BY <1>1, <2>1, <3>1, ForgetType DEF ObjectsTyped
    <3>3. SecretTyped'
      BY <1>1, <2>1, <2>3, CountType DEF SecretTyped
    <3> QED BY <1>1, <1>3, <2>3, <3>2, <3>3, EndBootType, TypePartsNext
  <2>4. ASSUME Error \/ UNCHANGED count, UNCHANGED secret, Forget(w),
               worker' = [worker EXCEPT ![w] = [Idle EXCEPT !.pc = "list"]]
        PROVE  TypeOK'
    <3>1. WorkersTyped(worker')
      <4> DEFINE r == [Idle EXCEPT !.pc = "list"]
      <4>1. r \in WorkerState /\ r.pc = "list" /\ worker' = [worker EXCEPT ![w] = r]
        BY <2>4, IdleAt, Zenon
      <4> HIDE DEF r
      <4> QED BY <1>1, <4>1, SetType, Zenon
    <3>2. ObjectsTyped'
      BY <1>1, <2>1, <2>4, ForgetType DEF ObjectsTyped
    <3>3. SecretTyped'
      BY <1>1, <2>1, <2>4, CountType DEF SecretTyped
    <3> QED BY <1>3, <3>1, <3>2, <3>3, TypePartsNext
  <2> QED BY <1>9, <2>2, <2>3, <2>4 DEF StoreSecret
<1> QED BY <1>7, <1>8, <1>9 DEF CheckerStep

LEMMA TypeWorker ==
    ASSUME TypeOK, NEW w \in Worker, WorkerStep(w)
    PROVE  TypeOK'
<1> USE DEF sinkVars
<1>1. SecretTyped /\ ObjectsTyped /\ WorkersTyped(worker) /\ SinksTyped
  BY TypeParts
<1>2. worker[w] \in WorkerState /\ worker[w].ca \in Nat
  BY <1>1 DEF WorkersTyped, WorkerState
<1>3. SinksTyped' /\ SecretTyped'
  <2>1. UNCHANGED <<made, expired, secret, cached, sink, seen>> /\ (Error \/ UNCHANGED count)
    BY Zenon DEF WorkerStep, ListInterceptors, UpdateInterceptor
  <2>2. SecretTyped'
    BY <1>1, <2>1, CountType DEF SecretTyped
  <2> QED BY <1>1, <2>1, <2>2 DEF SinksTyped
<1>4. ASSUME NEW ok \in BOOLEAN, Return(w, ok), UNCHANGED <<bundle, user>>
      PROVE  TypeOK'
  <2>1. WorkersTyped(worker') /\ fresh' \subseteq Worker \X (0..NumCore)
    BY <1>1, <1>4, ReturnType DEF ObjectsTyped
  <2>2. ObjectsTyped'
    BY <1>1, <1>4, <2>1 DEF ObjectsTyped
  <2> QED BY <1>3, <2>1, <2>2, TypePartsNext
<1>5. CASE ListInterceptors(w)
  <2>1. UNCHANGED <<bundle, user>>
    BY <1>5 DEF ListInterceptors
  <2>2. ASSUME worker' = [worker EXCEPT ![w].view = bundle, ![w].at = 1, ![w].pc = "push"],
               fresh' = fresh \union ({w} \X Core)
        PROVE  TypeOK'
    <3> DEFINE r == [worker[w] EXCEPT !.view = bundle, !.at = 1, !.pc = "push"]
    <3>1. r \in WorkerState /\ r.pc = "push"
      BY <1>1, <1>2, Zenon DEF WorkerState, ObjectsTyped
    <3>2. worker' = [worker EXCEPT ![w] = r]
      BY <1>1, <2>2, Zenon DEF WorkersTyped
    <3> HIDE DEF r
    <3>3. WorkersTyped(worker')
      BY <1>1, <3>1, <3>2, SetType, Zenon
    <3>4. ObjectsTyped'
      <4>1. {w} \X Core \subseteq Worker \X (0..NumCore)
        BY CertsAssumption DEF Core
      <4> QED BY <1>1, <2>1, <2>2, <4>1 DEF ObjectsTyped
    <3> QED BY <1>3, <3>3, <3>4, TypePartsNext
  <2> QED BY <1>4, <1>5, <2>1, <2>2, Zenon DEF ListInterceptors
<1>6. CASE UpdateInterceptor(w)
  <2>1. UNCHANGED user
    BY <1>6 DEF UpdateInterceptor
  <2>2. ASSUME NEW i \in Core, bundle' = [bundle EXCEPT ![i] = worker[w].ca],
               fresh' = fresh \ (Worker \X {i}), worker' = [worker EXCEPT ![w].at = i + 1],
               worker[w].pc = "push"
        PROVE  TypeOK'
    <3> DEFINE r == [worker[w] EXCEPT !.at = i + 1]
    <3>1. r \in WorkerState /\ r.pc = "push"
      <4>1. i + 1 \in Nat
        BY CertsAssumption DEF Core
      <4> QED BY <1>2, <2>2, <4>1 DEF WorkerState
    <3>2. worker' = [worker EXCEPT ![w] = r]
      BY <1>1, <2>2 DEF WorkersTyped
    <3> HIDE DEF r
    <3>3. WorkersTyped(worker')
      BY <1>1, <3>1, <3>2, SetType, Zenon
    <3>4. ObjectsTyped'
      BY <1>1, <1>2, <2>1, <2>2 DEF ObjectsTyped
    <3> QED BY <1>3, <3>3, <3>4, TypePartsNext
  <2>3. ToUpdate(w) \subseteq Core
    BY DEF ToUpdate
  <2> QED BY <1>4, <1>6, <2>1, <2>2, <2>3, Zenon DEF UpdateInterceptor
<1> QED BY <1>5, <1>6 DEF WorkerStep

LEMMA TypePod ==
    ASSUME TypeOK, NEW p \in Pod,
           WatchSecret(p) \/ SyncSecret(p) \/ RestartPod(p) \/ SurgePod(p) \/ StopPod(p)
    PROVE  TypeOK'
<1> USE DEF sinkVars, serverVars
<1>1. SecretTyped /\ ObjectsTyped /\ WorkersTyped(worker) /\ SinksTyped
  BY TypeParts
<1>2. /\ Checker(p) \in Worker /\ Updater(p) \in Worker /\ Checker(p) # Updater(p)
      /\ worker[Checker(p)] \in WorkerState /\ worker[Updater(p)] \in WorkerState
  BY <1>1, WorkerNames DEF WorkersTyped
<1>3. SinksTyped'
  BY <1>1 DEF SinksTyped, WatchSecret, SyncSecret, RestartPod, SurgePod, StartPod, StopPod
<1>4. Len(secret) \in Nat /\ cached[p] \in 0..Len(secret)
  BY <1>1 DEF SecretTyped
<1>5. CASE WatchSecret(p)
  <2> DEFINE pc == IF cached[p] = 0 THEN "dead" ELSE "list"
             ca == IF cached[p] = 0 THEN NoCert ELSE secret[cached[p]]
             r == [worker[Updater(p)] EXCEPT !.pc = pc, !.ca = ca]
  <2>1. ca \in Nat /\ pc \in {"dead", "list"}
    BY <1>1, <1>4 DEF SecretTyped, Cert, NoCert
  <2>2. worker' = [worker EXCEPT ![Updater(p)] = r]
    BY <1>1, <1>5, Zenon DEF WatchSecret, WorkersTyped
  <2> HIDE DEF pc, ca
  <2>3. r \in WorkerState /\ r.pc = pc
    BY <1>2, <2>1, Zenon DEF WorkerState
  <2> HIDE DEF r
  <2>4. WorkersTyped(worker')
    BY <1>1, <1>2, <2>1, <2>2, <2>3, SetType, Zenon
  <2>5. SecretTyped' /\ ObjectsTyped'
    BY <1>1, <1>5 DEF WatchSecret, SecretTyped, ObjectsTyped
  <2> QED BY <1>3, <2>4, <2>5, TypePartsNext
<1>6. CASE SyncSecret(p)
  <2>1. WorkersTyped(worker') /\ ObjectsTyped'
    BY <1>1, <1>6 DEF SyncSecret, WorkersTyped, ObjectsTyped
  <2>2. SecretTyped'
    BY <1>1, <1>4, <1>6 DEF SyncSecret, SecretTyped
  <2> QED BY <1>3, <2>1, <2>2, TypePartsNext
<1>7. CASE RestartPod(p) \/ SurgePod(p)
  <2>0. StartPod(p) /\ count' \in Counts
    BY <1>1, <1>7, Counted, Zenon DEF RestartPod, SurgePod, SecretTyped
  <2> DEFINE r == [worker[Checker(p)] EXCEPT !.pc = "boot"]
  <2>1. r \in WorkerState /\ r.pc = "boot"
    BY <1>2 DEF WorkerState
  <2>2. worker' = [worker EXCEPT ![Checker(p)] = r]
    BY <1>1, <2>0 DEF StartPod, WorkersTyped
  <2> HIDE DEF r
  <2>3. WorkersTyped(worker')
    BY <1>1, <1>2, <2>1, <2>2, SetType, Zenon
  <2>4. SecretTyped' /\ ObjectsTyped'
    BY <1>1, <1>4, <2>0 DEF StartPod, SecretTyped, ObjectsTyped
  <2> QED BY <1>3, <2>3, <2>4, TypePartsNext
<1>8. CASE StopPod(p)
  <2>1. WorkersTyped(worker')
    BY <1>1, <1>2, <1>8, IdleType DEF StopPod, WorkersTyped
  <2>2. SecretTyped'
    <3>1. count' \in Counts
      BY <1>1, <1>8, Counted DEF StopPod, SecretTyped
    <3> QED BY <1>1, <1>8, <3>1 DEF StopPod, SecretTyped
  <2>3. ObjectsTyped'
    BY <1>1, <1>8 DEF StopPod, ObjectsTyped
  <2> QED BY <1>3, <2>1, <2>2, <2>3, TypePartsNext
<1> QED BY <1>5, <1>6, <1>7, <1>8

LEMMA TypeSink ==
    ASSUME TypeOK, NEW s \in Listener, StartSink(s) \/ RefreshPool(s) \/ SyncSink(s)
    PROVE  TypeOK'
<1> USE DEF serverVars
<1>1. SecretTyped /\ ObjectsTyped /\ WorkersTyped(worker) /\ SinksTyped
  BY TypeParts
<1>2. SecretTyped' /\ ObjectsTyped' /\ WorkersTyped(worker')
  BY <1>1 DEF SecretTyped, ObjectsTyped, WorkersTyped, StartSink, RefreshPool, SyncSink
<1>3. Current \in [core : [Core -> Nat], user : {"set", "empty"}]
  BY <1>1 DEF Current, ObjectsTyped
<1>4. ASSUME NEW b \in [core : [Core -> Nat], user : {"set", "empty"}], BundlesAvailable(b)
      PROVE  CAs(b) \subseteq Cert
  BY <1>4 DEF BundlesAvailable, CAs, Cert
<1>5. Down \in [up : BOOLEAN, pool : SUBSET Cert]
  BY DEF Down
<1>6. seen' \in [Listener -> [core : [Core -> Nat], user : {"set", "empty"}]]
  BY <1>1, <1>3, Zenon DEF SinksTyped, StartSink, RefreshPool, SyncSink
<1>7. sink' \in [Listener -> [up : BOOLEAN, pool : SUBSET Cert]]
  <2>1. CASE StartSink(s)
    <3> DEFINE r == IF BundlesAvailable(Current) THEN [up |-> TRUE, pool |-> CAs(Current)] ELSE Down
    <3>1. r \in [up : BOOLEAN, pool : SUBSET Cert]
      BY <1>3, <1>4, <1>5
    <3>2. sink' = [sink EXCEPT ![s] = r]
      BY <2>1 DEF StartSink
    <3> HIDE DEF r
    <3> QED BY <1>1, <3>1, <3>2 DEF SinksTyped
  <2>2. CASE RefreshPool(s)
    <3> DEFINE grown == [up |-> TRUE, pool |-> sink[s].pool \union CAs(seen[s])]
               r == IF BundlesAvailable(seen[s]) THEN grown ELSE Down
    <3>1. sink[s] \in [up : BOOLEAN, pool : SUBSET Cert]
      BY <1>1 DEF SinksTyped
    <3>2. BundlesAvailable(seen[s]) => CAs(seen[s]) \subseteq Cert
      BY <1>1, <1>4 DEF SinksTyped
    <3>3. BundlesAvailable(seen[s]) => grown \in [up : BOOLEAN, pool : SUBSET Cert]
      BY <3>1, <3>2
    <3>4. r \in [up : BOOLEAN, pool : SUBSET Cert]
      BY <1>5, <3>3
    <3>5. sink' = [sink EXCEPT ![s] = r]
      BY <2>2 DEF RefreshPool
    <3> HIDE DEF r
    <3> QED BY <1>1, <3>4, <3>5 DEF SinksTyped
  <2>3. CASE SyncSink(s)
    BY <1>1, <2>3 DEF SyncSink, SinksTyped
  <2> QED BY <2>1, <2>2, <2>3
<1>8. SinksTyped'
  BY <1>6, <1>7 DEF SinksTyped
<1> QED BY <1>2, <1>8, TypePartsNext

LEMMA TypeOther ==
    ASSUME TypeOK, Expire \/ ChangeUser \/ (\E i \in Core : Reinstall(i))
    PROVE  TypeOK'
<1> USE DEF serverVars, sinkVars
<1>1. SecretTyped /\ ObjectsTyped /\ WorkersTyped(worker) /\ SinksTyped
  BY TypeParts
<1>2. SinksTyped' /\ WorkersTyped(worker')
  BY <1>1 DEF SinksTyped, WorkersTyped, Expire, ChangeUser, Reinstall
<1>3. ObjectsTyped'
  BY <1>1 DEF ObjectsTyped, Expire, ChangeUser, Reinstall, NoCert
<1>4. count' \in Counts
  BY <1>1, Counted DEF SecretTyped, Expire, ChangeUser, Reinstall
<1>5. expired' \subseteq Cert /\ UNCHANGED <<made, secret, cached>>
  BY <1>1 DEF SecretTyped, Expire, ChangeUser, Reinstall
<1>6. SecretTyped'
  BY <1>1, <1>4, <1>5 DEF SecretTyped
<1> QED BY <1>2, <1>3, <1>6, TypePartsNext

-----------------------------------------------------------------------------
(* What is published was stored *)

LEMMA StoredGrows ==
    /\ UNCHANGED secret => Stored' = Stored
    /\ \A c : secret \in Seq(Cert) /\ secret' = Append(secret, c) => Stored' = Stored \union {c}
<1>1. UNCHANGED secret => Stored' = Stored
  BY DEF Stored
<1>2. ASSUME NEW c, secret \in Seq(Cert), secret' = Append(secret, c)
      PROVE  Stored' = Stored \union {c}
  <2>1. /\ Len(secret') = Len(secret) + 1 /\ Len(secret) \in Nat
        /\ \A n \in 1..Len(secret) : secret'[n] = secret[n]
        /\ secret'[Len(secret) + 1] = c
    BY <1>2
  <2>2. Stored' = {secret'[n] : n \in 1..(Len(secret) + 1)}
    BY <2>1 DEF Stored
  <2>3. 1..(Len(secret) + 1) = (1..Len(secret)) \union {Len(secret) + 1}
    BY <2>1
  <2> QED BY <2>1, <2>2, <2>3 DEF Stored
<1> QED BY <1>1, <1>2

LEMMA PublishedInit == Init => PublishedWasStored
BY DEF Init, PublishedWasStored, Idle, Current, CAs, Down

\* Returning changes the CA of no one, except that an updater forgets its own
LEMMA ReturnKeeps ==
    ASSUME WorkersTyped(worker), NEW w \in Worker, NEW ok, NEW p \in Pod,
           Return(w, ok) \/ EndBoot(p, ok)
    PROVE  \A v \in Worker : worker'[v].ca \in {worker[v].ca, NoCert}
<1>1. /\ Checker(p) \in Worker /\ Updater(p) \in Worker /\ \A v \in Worker : worker[v] \in WorkerState
  BY WorkerNames DEF WorkersTyped
<1>2. ASSUME NEW q \in Pod, NEW pc, EndBoot(q, pc)
      PROVE  \A v \in Worker : worker'[v].ca \in {worker[v].ca, NoCert}
  <2> DEFINE r == [Idle EXCEPT !.pc = pc, !.ca = worker[Checker(q)].ca]
             u == [worker[Updater(q)] EXCEPT !.pc = "tick"]
  <2>1. Checker(q) \in Worker /\ Updater(q) \in Worker /\ Checker(q) # Updater(q)
    BY WorkerNames
  <2>2. r.ca = worker[Checker(q)].ca /\ u.ca = worker[Updater(q)].ca
    BY <1>1, <2>1 DEF Idle, WorkerState
  <2>3. worker' = [worker EXCEPT ![Checker(q)] = r, ![Updater(q)] = u]
    BY <1>2, <2>1, Zenon DEF EndBoot, WorkersTyped
  <2> HIDE DEF r, u
  <2> QED BY <2>1, <2>2, <2>3 DEF WorkersTyped
<1>3. ASSUME NEW pc, NEW ca \in {worker[w].ca, NoCert}, NEW r, r.ca = ca,
             worker' = [worker EXCEPT ![w] = r]
      PROVE  \A v \in Worker : worker'[v].ca \in {worker[v].ca, NoCert}
  BY <1>3 DEF WorkersTyped
<1>4. ASSUME NEW pc PROVE /\ [Idle EXCEPT !.pc = pc, !.ca = worker[w].ca].ca = worker[w].ca
                          /\ [Idle EXCEPT !.pc = pc].ca = NoCert
  BY DEF Idle
<1> QED BY <1>2, <1>3, <1>4, Zenon DEF Return

LEMMA PublishedWorker ==
    ASSUME TypeOK, PublishedWasStored, NEW w \in Worker, WorkerStep(w)
    PROVE  PublishedWasStored'
<1>1. WorkersTyped(worker) /\ ObjectsTyped /\ Pod # {}
  BY TypeParts DEF Worker
<1>2. UNCHANGED <<secret, sink, seen>>
  BY Zenon DEF WorkerStep, ListInterceptors, UpdateInterceptor, sinkVars
<1>3. Stored' = Stored
  BY <1>2, StoredGrows
<1>4. \A v \in Worker : worker'[v].ca \in {worker[v].ca, NoCert}
  <2>1. ASSUME NEW ok, Return(w, ok)
        PROVE  \A v \in Worker : worker'[v].ca \in {worker[v].ca, NoCert}
    BY <1>1, <2>1, ReturnKeeps
  <2>2. ASSUME worker' = [worker EXCEPT ![w].view = bundle, ![w].at = 1, ![w].pc = "push"]
        PROVE  \A v \in Worker : worker'[v].ca = worker[v].ca
    BY <1>1, <2>2 DEF WorkersTyped, WorkerState
  <2>3. ASSUME NEW n, worker' = [worker EXCEPT ![w].at = n]
        PROVE  \A v \in Worker : worker'[v].ca = worker[v].ca
    BY <1>1, <2>3 DEF WorkersTyped, WorkerState
  <2> QED BY <2>1, <2>2, <2>3, Zenon DEF WorkerStep, ListInterceptors, UpdateInterceptor
<1>5. \A i \in Core : bundle'[i] \in {bundle[i], worker[w].ca}
  BY <1>1, Zenon DEF WorkerStep, ListInterceptors, UpdateInterceptor, ObjectsTyped, ToUpdate
<1> QED BY <1>2, <1>3, <1>4, <1>5 DEF PublishedWasStored, CAs

LEMMA PublishedPod ==
    ASSUME TypeOK, PublishedWasStored, NEW p \in Pod,
           CheckerStep(p) \/ WatchSecret(p) \/ SyncSecret(p) \/ StartPod(p) \/ StopPod(p)
    PROVE  PublishedWasStored'
<1> DEFINE w == Checker(p)
<1>1. SecretTyped /\ WorkersTyped(worker) /\ w \in Worker /\ Updater(p) \in Worker
  BY TypeParts, WorkerNames
<1>2. UNCHANGED <<bundle, sink, seen>>
  BY DEF CheckerStep, BootCerts, CheckCertValidity, StoreSecret, WatchSecret, SyncSecret,
         StartPod, StopPod, sinkVars, serverVars
<1>3. Stored \subseteq Stored'
  <2>1. UNCHANGED secret \/ secret' = Append(secret, worker[w].new)
    BY DEF CheckerStep, BootCerts, CheckCertValidity, StoreSecret, WatchSecret, SyncSecret,
           StartPod, StopPod, sinkVars, serverVars
  <2> QED BY <1>1, <2>1, StoredGrows DEF SecretTyped
<1>4. \A n \in 1..Len(secret) : secret[n] \in Stored
  BY DEF Stored
<1>5. ASSUME NEW v \in Worker, NEW ca \in Stored' \union {NoCert}, NEW r, r.ca = ca,
             worker' = [worker EXCEPT ![v] = r]
      PROVE  \A u \in Worker : worker'[u].ca \in Stored' \union {NoCert}
  BY <1>1, <1>3, <1>5 DEF WorkersTyped, PublishedWasStored
<1>6. ASSUME \A u \in Worker : worker'[u].ca \in {worker[u].ca, NoCert}
      PROVE  \A u \in Worker : worker'[u].ca \in Stored' \union {NoCert}
  BY <1>3, <1>6 DEF PublishedWasStored
<1>7. ASSUME NEW ok, EndBoot(p, ok)
      PROVE  \A u \in Worker : worker'[u].ca \in {worker[u].ca, NoCert}
  BY <1>1, <1>7, ReturnKeeps
<1>8. ASSUME NEW ca \in Stored' \union {NoCert},
             worker' = [worker EXCEPT ![w].ca = ca, ![w].pc = "list"]
      PROVE  \A u \in Worker : worker'[u].ca \in Stored' \union {NoCert}
  <2> DEFINE r == [worker[w] EXCEPT !.ca = ca, !.pc = "list"]
  <2>1. r.ca = ca /\ worker' = [worker EXCEPT ![w] = r]
    BY <1>1, <1>8, Zenon DEF WorkersTyped, WorkerState
  <2> HIDE DEF r
  <2> QED BY <1>1, <1>5, <2>1, Zenon
<1>9. MakeCerts(p) => \A u \in Worker : worker'[u].ca \in {worker[u].ca, NoCert}
  BY <1>1 DEF MakeCerts, WorkersTyped, WorkerState
<1>10. \A u \in Worker : worker'[u].ca \in Stored' \union {NoCert}
  <2>1. CASE BootCerts(p)
    <3>1. ASSUME secret # <<>>,
                 worker' = [worker EXCEPT ![w].ca = secret[Len(secret)], ![w].pc = "list"]
          PROVE  \A u \in Worker : worker'[u].ca \in Stored' \union {NoCert}
      <4>1. secret[Len(secret)] \in Stored'
        BY <1>1, <1>3, <1>4, <3>1 DEF SecretTyped
      <4> QED BY <1>8, <3>1, <4>1, Zenon
    <3> QED BY <1>6, <1>7, <1>9, <2>1, <3>1 DEF BootCerts
  <2>2. CASE CheckCertValidity(p)
    BY <1>6, <1>8, <1>9, <2>2 DEF CheckCertValidity
  <2>3. CASE StoreSecret(p)
    <3>1. ASSUME secret' = Append(secret, worker[w].new),
                 worker' = [worker EXCEPT ![w] = [Idle EXCEPT !.pc = "list", !.ca = worker[w].new]]
          PROVE  \A u \in Worker : worker'[u].ca \in Stored' \union {NoCert}
      <4>1. worker[w].new \in Stored'
        BY <1>1, <3>1, StoredGrows DEF SecretTyped
      <4>2. [Idle EXCEPT !.pc = "list", !.ca = worker[w].new].ca = worker[w].new
        BY DEF Idle
      <4> QED BY <1>1, <1>5, <3>1, <4>1, <4>2, Zenon
    <3>2. ASSUME worker' = [worker EXCEPT ![w] = [Idle EXCEPT !.pc = "list"]]
          PROVE  \A u \in Worker : worker'[u].ca \in Stored' \union {NoCert}
      <4>1. [Idle EXCEPT !.pc = "list"].ca = NoCert
        BY DEF Idle
      <4> QED BY <1>1, <1>5, <3>2, <4>1, Zenon
    <3> QED BY <1>6, <1>7, <2>3, <3>1, <3>2 DEF StoreSecret
  <2>4. CASE WatchSecret(p)
    <3> DEFINE ca == IF cached[p] = 0 THEN NoCert ELSE secret[cached[p]]
               r == [worker[Updater(p)] EXCEPT
                        !.pc = IF cached[p] = 0 THEN "dead" ELSE "list", !.ca = ca]
    <3>1. ca \in Stored' \union {NoCert}
      BY <1>1, <1>3, <1>4 DEF SecretTyped
    <3>2. r.ca = ca /\ worker' = [worker EXCEPT ![Updater(p)] = r]
      BY <1>1, <2>4, Zenon DEF WatchSecret, WorkersTyped, WorkerState
    <3> HIDE DEF ca, r
    <3> QED BY <1>1, <1>5, <3>1, <3>2, Zenon
  <2>5. CASE SyncSecret(p)
    BY <1>6, <2>5 DEF SyncSecret, serverVars
  <2>6. CASE StartPod(p)
    BY <1>1, <1>6, <2>6 DEF StartPod, WorkersTyped, WorkerState
  <2>7. CASE StopPod(p)
    <3>1. Idle.ca = NoCert
      BY DEF Idle
    <3> QED BY <1>1, <1>6, <2>7, <3>1 DEF StopPod, WorkersTyped
  <2> QED BY <2>1, <2>2, <2>3, <2>4, <2>5, <2>6, <2>7 DEF CheckerStep
<1> QED BY <1>2, <1>3, <1>10 DEF PublishedWasStored, CAs

LEMMA PublishedSink ==
    ASSUME TypeOK, PublishedWasStored, NEW s \in Listener,
           StartSink(s) \/ RefreshPool(s) \/ SyncSink(s)
    PROVE  PublishedWasStored'
<1>1. SinksTyped /\ ObjectsTyped
  BY TypeParts
<1>2. UNCHANGED <<secret, bundle, worker>>
  BY DEF StartSink, RefreshPool, SyncSink, serverVars
<1>3. Stored' = Stored
  BY <1>2, StoredGrows
<1>4. CAs(Current) \subseteq Stored \union {NoCert}
  BY <1>1 DEF PublishedWasStored, CAs, Current
<1>5. \A view : BundlesAvailable(view) => NoCert \notin CAs(view)
  BY DEF BundlesAvailable, CAs
<1>6. \A t \in Listener : CAs(seen'[t]) \subseteq Stored \union {NoCert}
  BY <1>1, <1>4 DEF StartSink, RefreshPool, SyncSink, SinksTyped, PublishedWasStored
<1>7. \A t \in Listener : sink'[t].pool \subseteq Stored
  BY <1>1, <1>4, <1>5 DEF StartSink, RefreshPool, SyncSink, SinksTyped, PublishedWasStored, Down
<1> QED BY <1>2, <1>3, <1>6, <1>7 DEF PublishedWasStored

LEMMA PublishedOther ==
    ASSUME TypeOK, PublishedWasStored, Expire \/ ChangeUser \/ (\E i \in Core : Reinstall(i))
    PROVE  PublishedWasStored'
<1>1. UNCHANGED <<secret, worker, sink, seen>>
  BY DEF Expire, ChangeUser, Reinstall, serverVars, sinkVars
<1>2. Stored' = Stored
  BY <1>1, StoredGrows
<1>3. \A i \in Core : bundle'[i] \in {bundle[i], NoCert}
  BY TypeParts DEF Expire, ChangeUser, Reinstall, ObjectsTyped
<1> QED BY <1>1, <1>2, <1>3 DEF PublishedWasStored, CAs

\* The invariant of the proofs: the types and PublishedWasStored together are inductive
LEMMA Invariance ==
    ASSUME TypeOK, PublishedWasStored, [Next]_vars
    PROVE  TypeOK' /\ PublishedWasStored'
<1>1. ASSUME NEW p \in Pod,
             \/ CheckerStep(p) \/ WatchSecret(p) \/ SyncSecret(p)
             \/ RestartPod(p) \/ SurgePod(p) \/ StopPod(p)
      PROVE  TypeOK' /\ PublishedWasStored'
  BY <1>1, TypeChecker, TypePod, PublishedPod DEF RestartPod, SurgePod
<1>2. ASSUME NEW w \in Worker, WorkerStep(w)
      PROVE  TypeOK' /\ PublishedWasStored'
  BY <1>2, TypeWorker, PublishedWorker
<1>3. ASSUME NEW s \in Listener, StartSink(s) \/ RefreshPool(s) \/ SyncSink(s)
      PROVE  TypeOK' /\ PublishedWasStored'
  BY <1>3, TypeSink, PublishedSink
<1>4. CASE Expire \/ ChangeUser \/ (\E i \in Core : Reinstall(i))
  BY <1>4, TypeOther, PublishedOther
<1>5. CASE UNCHANGED vars
  <2>1. TypeOK'
    BY <1>5 DEF vars, TypeOK
  <2>2. Stored' = Stored
    BY <1>5, StoredGrows DEF vars
  <2>3. UNCHANGED <<worker, bundle, sink, seen>>
    BY <1>5 DEF vars
  <2>4. PublishedWasStored'
    BY <2>2, <2>3 DEF PublishedWasStored, CAs
  <2> QED BY <2>1, <2>4
<1> QED BY <1>1, <1>2, <1>3, <1>4, <1>5 DEF Next

\* The state of the server, of the secret, of the ClusterInterceptors and of the sinks
\* stays within its types in every behaviour (server.go, adapter.go).
THEOREM CertsTypeCorrect == Spec => []TypeOK
<1>1. Init => TypeOK /\ PublishedWasStored
  BY TypeInit, PublishedInit
<1>2. TypeOK /\ PublishedWasStored /\ [Next]_vars => (TypeOK /\ PublishedWasStored)'
  BY Invariance
<1> QED BY <1>1, <1>2, PTL DEF Spec

\* A CA that the server holds, that a CaBundle carries or that a sink trusts belongs to a
\* certificate that the secret has held: for any number of pods, sinks and interceptors,
\* any number of expiries, failed requests, restarts and changes (createCerts,
\* checkCertValidity, updateCRDWithCaCert, getCertFromInterceptor).
THEOREM OnlyStoredPublished == Spec => []PublishedWasStored
<1>1. Init => TypeOK /\ PublishedWasStored
  BY TypeInit, PublishedInit
<1>2. TypeOK /\ PublishedWasStored /\ [Next]_vars => (TypeOK /\ PublishedWasStored)'
  BY Invariance
<1> QED BY <1>1, <1>2, PTL DEF Spec

-----------------------------------------------------------------------------
(* Sinks stay up.  The strengthening: while nothing has disturbed the server, one pod runs,   *)
(* the copy of the secret of a checker that is about to store is the current one, so that no  *)
(* update is refused and no worker goes on with an empty CA, and where a sink is up all       *)
(* bundles are there.                                                                         *)

OnePod == \A p, q \in Pod : Running(p) /\ Running(q) => p = q
StoresFresh == \A p \in Pod : worker[Checker(p)].pc = "store" => <<Checker(p), Secret>> \in fresh
PublishesCAs == \A w \in Worker : worker[w].pc \in {"list", "push"} => worker[w].ca # NoCert
BundlesStay ==
    /\ user = "set"
    /\ \A s \in Listener :
          /\ seen[s].user = "set"
          /\ sink[s].up => \A i \in Core : seen[s].core[i] # NoCert /\ bundle[i] # NoCert
Steady == OnePod /\ StoresFresh /\ PublishesCAs /\ BundlesStay

\* Errors, changes and surges are counted, so that what is undisturbed has been so before
LEMMA NoError ==
    ASSUME TypeOK, Undisturbed'
    PROVE  ~Error
BY DEF TypeOK, Undisturbed, Error

LEMMA NoDisturbance ==
    ASSUME TypeOK, Undisturbed', [Next]_vars
    PROVE  /\ Undisturbed
           /\ \A p \in Pod : ~SurgePod(p)
           /\ \A i \in Core : ~Reinstall(i)
           /\ ~ChangeUser \/ user = "empty"
<1>1. count \in Counts
  BY TypeParts DEF SecretTyped
<1>2. /\ count.errors \in Nat /\ count.changes \in Nat /\ count.surges \in Nat
      /\ count.stops \in Nat /\ count.expiries \in Nat
  BY <1>1 DEF Counts
<1>3. /\ count'.errors \in {count.errors, count.errors + 1}
      /\ count'.changes \in {count.changes, count.changes + 1}
      /\ count'.surges \in {count.surges, count.surges + 1}
  <2>1. \/ UNCHANGED count
        \/ count' = [count EXCEPT !.expiries = @ + 1]
        \/ count' = [count EXCEPT !.errors = @ + 1]
        \/ count' = [count EXCEPT !.changes = @ + 1]
        \/ count' = [count EXCEPT !.stops = @ + 1]
        \/ count' = [count EXCEPT !.surges = @ + 1]
    BY Zenon DEF Next, CheckerStep, BootCerts, CheckCertValidity, StoreSecret, WatchSecret, SyncSecret,
           RestartPod, SurgePod, StopPod, WorkerStep, ListInterceptors, UpdateInterceptor, StartSink,
           RefreshPool, SyncSink, Expire, ChangeUser, Reinstall, Error, vars
  <2> QED BY <1>1, <2>1 DEF Counts
<1>4. Undisturbed
  BY <1>2, <1>3 DEF Undisturbed
<1>5. \A p \in Pod : ~SurgePod(p)
  BY <1>1, <1>4 DEF SurgePod, Undisturbed, Counts
<1>6. \A i \in Core : ~Reinstall(i)
  BY <1>1, <1>4 DEF Reinstall, Undisturbed, Counts
<1>7. ~ChangeUser \/ user = "empty"
  BY <1>1, <1>4 DEF ChangeUser, Undisturbed, Counts
<1> QED BY <1>4, <1>5, <1>6, <1>7

LEMMA SteadyInit == Init => Steady
<1> SUFFICES ASSUME Init PROVE Steady
  OBVIOUS
<1>1. \A w \in Worker : worker[w].pc = "off"
  BY IdleType DEF Init
<1>2. OnePod /\ StoresFresh /\ PublishesCAs
  BY <1>1, WorkerNames DEF OnePod, Running, StoresFresh, PublishesCAs
<1>3. BundlesStay
  BY DEF Init, BundlesStay, Current, Down
<1> QED BY <1>2, <1>3 DEF Steady

\* Where a step leaves the objects and the sinks alone
LEMMA BundlesKept ==
    ASSUME BundlesStay, UNCHANGED <<user, bundle, sink, seen>>
    PROVE  BundlesStay'
BY DEF BundlesStay

\* One worker goes on, and a checker only if it was running
LEMMA OnePodKept ==
    ASSUME OnePod, \A p \in Pod : Running(p)' => Running(p)
    PROVE  OnePod'
BY DEF OnePod

LEMMA SteadyChecker ==
    ASSUME TypeOK, Steady, Undisturbed', NEW p \in Pod, CheckerStep(p)
    PROVE  Steady'
<1> DEFINE w == Checker(p)
<1>1. SecretTyped /\ WorkersTyped(worker) /\ w \in Worker /\ ~Error
  BY TypeParts, WorkerNames, NoError
<1>2. worker[w] \in WorkerState /\ worker[w].pc # "off" /\ Running(p)
  BY <1>1 DEF WorkersTyped, CheckerStep, BootCerts, CheckCertValidity, StoreSecret, Running
<1>3. BundlesStay'
  <2>1. UNCHANGED <<user, bundle, sink, seen>>
    BY DEF CheckerStep, BootCerts, CheckCertValidity, StoreSecret, sinkVars
  <2> QED BY <2>1, BundlesKept DEF Steady
<1>4. ASSUME NEW r, worker' = [worker EXCEPT ![w] = r]
      PROVE  /\ OnePod'
             /\ \A v \in Worker : worker'[v] = IF v = w THEN r ELSE worker[v]
  <2>1. \A v \in Worker : worker'[v] = IF v = w THEN r ELSE worker[v]
    BY <1>1, <1>4 DEF WorkersTyped
  <2>2. \A q \in Pod : Running(q)' => Running(q)
    BY <1>2, <2>1, WorkerNames DEF Running
  <2> QED BY <2>1, <2>2, OnePodKept DEF Steady
<1>5. \A q \in Pod : Checker(q) = w => q = p
  BY DEF Checker
<1>6. ASSUME MakeCerts(p) PROVE Steady'
  <2> DEFINE r == [worker[w] EXCEPT !.new = made + 1, !.pc = "store"]
  <2>1. r.pc = "store" /\ worker' = [worker EXCEPT ![w] = r]
    BY <1>1, <1>2, <1>6, Zenon DEF MakeCerts, WorkersTyped, WorkerState
  <2> HIDE DEF r
  <2>2. StoresFresh'
    BY <1>4, <1>6, <2>1, WorkerNames, Zenon DEF MakeCerts, StoresFresh, Steady
  <2>3. PublishesCAs'
    BY <1>4, <2>1 DEF PublishesCAs, Steady
  <2> QED BY <1>3, <1>4, <2>1, <2>2, <2>3, Zenon DEF Steady
<1>7. ASSUME NEW r, worker' = [worker EXCEPT ![w] = r], r.pc = "list", r.ca # NoCert,
             fresh' = fresh \/ fresh' = fresh \ (Worker \X {Secret})
      PROVE  Steady'
  <2>1. StoresFresh'
    <3> SUFFICES ASSUME NEW q \in Pod, worker'[Checker(q)].pc = "store"
                 PROVE  <<Checker(q), Secret>> \in fresh'
      BY DEF StoresFresh
    <3>0. worker'[Checker(q)] = IF Checker(q) = w THEN r ELSE worker[Checker(q)]
      BY <1>4, <1>7, WorkerNames, Zenon
    <3>1. Checker(q) # w /\ worker[Checker(q)].pc = "store"
      BY <1>7, <3>0
    <3>2. q = p
      BY <1>2, <3>1 DEF Steady, OnePod, Running
    <3> QED BY <3>1, <3>2
  <2>2. PublishesCAs'
    BY <1>4, <1>7 DEF PublishesCAs, Steady
  <2> QED BY <1>3, <1>4, <1>7, <2>1, <2>2, Zenon DEF Steady
<1>8. CASE BootCerts(p)
  <2>1. ASSUME secret # <<>>, UNCHANGED fresh,
               worker' = [worker EXCEPT ![w].ca = secret[Len(secret)], ![w].pc = "list"]
        PROVE  Steady'
    <3> DEFINE r == [worker[w] EXCEPT !.ca = secret[Len(secret)], !.pc = "list"]
    <3>1. secret[Len(secret)] # NoCert
      BY <1>1, <2>1 DEF SecretTyped, Cert
    <3>2. r.pc = "list" /\ r.ca = secret[Len(secret)] /\ worker' = [worker EXCEPT ![w] = r]
      BY <1>1, <1>2, <2>1, Zenon DEF WorkersTyped, WorkerState
    <3> HIDE DEF r
    <3> QED BY <1>7, <2>1, <3>1, <3>2, Zenon
  <2> QED BY <1>1, <1>6, <1>8, <2>1 DEF BootCerts
<1>9. CASE CheckCertValidity(p)
  BY <1>1, <1>6, <1>9 DEF CheckCertValidity
<1>10. CASE StoreSecret(p)
  <2> DEFINE r == [Idle EXCEPT !.pc = "list", !.ca = worker[w].new]
  <2>1. worker[w].pc = "store" /\ worker[w].new \in Cert /\ <<w, Secret>> \in fresh
    BY <1>1, <1>10 DEF StoreSecret, WorkersTyped, Steady, StoresFresh
  <2>2. worker' = [worker EXCEPT ![w] = r] /\ fresh' = fresh \ (Worker \X {Secret})
    BY <1>1, <1>10, <2>1 DEF StoreSecret
  <2>3. r.pc = "list" /\ r.ca # NoCert
    BY <2>1 DEF Idle, Cert
  <2> HIDE DEF r
  <2> QED BY <1>7, <2>2, <2>3, Zenon
<1> QED BY <1>8, <1>9, <1>10 DEF CheckerStep

\* Returning to the ticker, or ending, is all that Return does
LEMMA ReturnMoves ==
    ASSUME WorkersTyped(worker), NEW w \in Worker, NEW ok \in BOOLEAN, Return(w, ok)
    PROVE  /\ \A v \in Worker : worker'[v] = worker[v] \/ worker'[v].pc \in {"tick", "dead"}
           /\ \A p \in Pod : Checker(p) # w => worker'[Checker(p)] = worker[Checker(p)]
           /\ Forget(w) /\ worker'[w].pc \in {"tick", "dead"}
<1>1. ASSUME NEW pc \in {"tick", "dead"}, NEW r, r.pc = pc, worker' = [worker EXCEPT ![w] = r]
      PROVE  /\ \A v \in Worker : worker'[v] = worker[v] \/ worker'[v].pc \in {"tick", "dead"}
             /\ \A p \in Pod : Checker(p) # w => worker'[Checker(p)] = worker[Checker(p)]
             /\ worker'[w].pc \in {"tick", "dead"}
  BY <1>1, WorkerNames DEF WorkersTyped
<1>2. ASSUME NEW pc, NEW ca
      PROVE  [Idle EXCEPT !.pc = pc, !.ca = ca].pc = pc /\ [Idle EXCEPT !.pc = pc].pc = pc
  BY DEF Idle
<1>3. (IF ok THEN "tick" ELSE "dead") \in {"tick", "dead"}
  OBVIOUS
<1>4. ASSUME NEW q \in Pod, w = Checker(q), NEW pc \in {"tick", "dead"}, EndBoot(q, pc)
      PROVE  /\ \A v \in Worker : worker'[v] = worker[v] \/ worker'[v].pc \in {"tick", "dead"}
             /\ \A p \in Pod : Checker(p) # w => worker'[Checker(p)] = worker[Checker(p)]
             /\ Forget(w) /\ worker'[w].pc \in {"tick", "dead"}
  <2> DEFINE r == [Idle EXCEPT !.pc = pc, !.ca = worker[Checker(q)].ca]
             u == [worker[Updater(q)] EXCEPT !.pc = "tick"]
  <2>1. /\ Checker(q) \in Worker /\ Updater(q) \in Worker /\ Checker(q) # Updater(q)
        /\ \A p \in Pod : Checker(p) # Updater(q) /\ Checker(p) \in Worker
    BY WorkerNames, Zenon DEF Checker, Updater
  <2>2. r.pc = pc /\ u.pc = "tick"
    BY <1>2, <2>1 DEF WorkersTyped, WorkerState
  <2>3. worker' = [worker EXCEPT ![Checker(q)] = r, ![Updater(q)] = u] /\ Forget(w)
    BY <1>4, <2>1, Zenon DEF EndBoot, WorkersTyped
  <2> HIDE DEF r, u
  <2> QED BY <1>4, <2>1, <2>2, <2>3 DEF WorkersTyped
<1> QED BY <1>1, <1>2, <1>3, <1>4, ZenonT(30) DEF Return

LEMMA SteadyWorker ==
    ASSUME TypeOK, Steady, Undisturbed', NEW w \in Worker, WorkerStep(w)
    PROVE  Steady'
<1>1. ObjectsTyped /\ SinksTyped /\ WorkersTyped(worker)
  BY TypeParts
<1>2. worker[w] \in WorkerState /\ worker[w].pc \in {"list", "push"} /\ worker[w].ca # NoCert
  BY <1>1, Zenon DEF WorkersTyped, WorkerStep, ListInterceptors, UpdateInterceptor, Steady, PublishesCAs
<1>3. UNCHANGED <<user, sink, seen>>
  BY Zenon DEF WorkerStep, ListInterceptors, UpdateInterceptor, sinkVars
<1>4. BundlesStay'
  <2>1. \A i \in Core : bundle'[i] \in {bundle[i], worker[w].ca}
    BY <1>1, Zenon DEF WorkerStep, ListInterceptors, UpdateInterceptor, ObjectsTyped, ToUpdate
  <2> QED BY <1>2, <1>3, <2>1 DEF Steady, BundlesStay
<1>5. ASSUME \A v \in Worker : \/ worker'[v] = worker[v]
                               \/ worker'[v].pc \in {"tick", "dead"}
                               \/ v = w /\ worker'[v].pc = "push" /\ worker'[v].ca = worker[v].ca,
             \A p \in Pod : Checker(p) # w => worker'[Checker(p)] = worker[Checker(p)],
             \A p \in Pod : <<Checker(p), Secret>> \in fresh =>
                               <<Checker(p), Secret>> \in fresh' \/ Checker(p) = w,
             worker'[w].pc # "store"
      PROVE  Steady'
  <2>1. \A p \in Pod : Running(p)' => Running(p)
    BY <1>2, <1>5 DEF Running
  <2>2. OnePod'
    BY <2>1, OnePodKept DEF Steady
  <2>3. StoresFresh'
    BY <1>5, WorkerNames DEF StoresFresh, Steady
  <2>4. PublishesCAs'
    BY <1>2, <1>5 DEF PublishesCAs, Steady
  <2> QED BY <1>4, <2>2, <2>3, <2>4 DEF Steady
<1>6. ASSUME NEW ok \in BOOLEAN, Return(w, ok) PROVE Steady'
  <2>1. /\ \A v \in Worker : worker'[v] = worker[v] \/ worker'[v].pc \in {"tick", "dead"}
        /\ \A p \in Pod : Checker(p) # w => worker'[Checker(p)] = worker[Checker(p)]
        /\ Forget(w) /\ worker'[w].pc \in {"tick", "dead"}
    BY <1>1, <1>6, ReturnMoves
  <2>2. \A p \in Pod : <<Checker(p), Secret>> \in fresh =>
                          <<Checker(p), Secret>> \in fresh' \/ Checker(p) = w
    BY <2>1 DEF Forget
  <2>3. worker'[w].pc # "store"
    BY <2>1
  <2> QED BY <1>5, <2>1, <2>2, <2>3
<1>7. ASSUME NEW r, r.pc = "push", r.ca = worker[w].ca, worker' = [worker EXCEPT ![w] = r],
             NEW i \in Core, fresh' = fresh \union ({w} \X Core) \/ fresh' = fresh \ (Worker \X {i})
      PROVE  Steady'
  <2>1. \A v \in Worker : worker'[v] = IF v = w THEN r ELSE worker[v]
    BY <1>1, <1>7 DEF WorkersTyped
  <2>2. Secret \notin Core
    BY CertsAssumption DEF Secret, Core
  <2>3. \A p \in Pod : <<Checker(p), Secret>> \in fresh => <<Checker(p), Secret>> \in fresh'
    BY <1>7, <2>2
  <2>4. /\ \A p \in Pod : Checker(p) # w => worker'[Checker(p)] = worker[Checker(p)]
        /\ worker'[w] = r
    BY <2>1, WorkerNames
  <2>5. worker'[w].pc # "store"
    BY <1>7, <2>4
  <2>6. \A v \in Worker : \/ worker'[v] = worker[v]
                          \/ v = w /\ worker'[v].pc = "push" /\ worker'[v].ca = worker[v].ca
    BY <1>7, <2>1
  <2> QED BY <1>5, <2>3, <2>4, <2>5, <2>6
<1>8. CASE ListInterceptors(w)
  <2>1. ASSUME worker' = [worker EXCEPT ![w].view = bundle, ![w].at = 1, ![w].pc = "push"],
               fresh' = fresh \union ({w} \X Core)
        PROVE  Steady'
    <3> DEFINE r == [worker[w] EXCEPT !.view = bundle, !.at = 1, !.pc = "push"]
    <3>1. r.pc = "push" /\ r.ca = worker[w].ca /\ worker' = [worker EXCEPT ![w] = r]
      BY <1>1, <1>2, <2>1, Zenon DEF WorkersTyped, WorkerState
    <3>2. 1 \in Core
      BY CertsAssumption DEF Core
    <3> HIDE DEF r
    <3> QED BY <1>7, <2>1, <3>1, <3>2, Zenon
  <2> QED BY <1>6, <1>8, <2>1, Zenon DEF ListInterceptors
<1>9. CASE UpdateInterceptor(w)
  <2>1. ASSUME NEW i \in Core, fresh' = fresh \ (Worker \X {i}), worker[w].pc = "push",
               worker' = [worker EXCEPT ![w].at = i + 1]
        PROVE  Steady'
    <3> DEFINE r == [worker[w] EXCEPT !.at = i + 1]
    <3>1. r.pc = "push" /\ r.ca = worker[w].ca /\ worker' = [worker EXCEPT ![w] = r]
      BY <1>1, <1>2, <2>1 DEF WorkersTyped, WorkerState
    <3> HIDE DEF r
    <3> QED BY <1>7, <2>1, <3>1, Zenon
  <2>2. ToUpdate(w) \subseteq Core
    BY DEF ToUpdate
  <2> QED BY <1>6, <1>9, <2>1, <2>2, Zenon DEF UpdateInterceptor
<1> QED BY <1>8, <1>9 DEF WorkerStep

LEMMA SteadyPod ==
    ASSUME TypeOK, Steady, Undisturbed', NEW p \in Pod,
           WatchSecret(p) \/ SyncSecret(p) \/ RestartPod(p) \/ StopPod(p)
    PROVE  Steady'
<1> USE DEF sinkVars, serverVars
<1>1. SecretTyped /\ WorkersTyped(worker)
  BY TypeParts
<1>2. /\ Checker(p) \in Worker /\ Updater(p) \in Worker
      /\ \A q \in Pod : Checker(q) \in Worker /\ Checker(q) # Updater(p)
      /\ \A q \in Pod : Checker(q) = Checker(p) => q = p
  BY DEF Worker, Checker, Updater
<1>3. BundlesStay'
  <2>1. UNCHANGED <<user, bundle, sink, seen>>
    BY DEF WatchSecret, SyncSecret, RestartPod, StartPod, StopPod
  <2> QED BY <2>1, BundlesKept DEF Steady
<1>4. CASE WatchSecret(p)
  <2> DEFINE pc == IF cached[p] = 0 THEN "dead" ELSE "list"
             ca == IF cached[p] = 0 THEN NoCert ELSE secret[cached[p]]
             r == [worker[Updater(p)] EXCEPT !.pc = pc, !.ca = ca]
  <2>1. pc = "dead" \/ (pc = "list" /\ ca # NoCert)
    BY <1>1 DEF SecretTyped, Cert
  <2>2. r.pc = pc /\ r.ca = ca /\ worker' = [worker EXCEPT ![Updater(p)] = r]
    BY <1>1, <1>2, <1>4, Zenon DEF WatchSecret, WorkersTyped, WorkerState
  <2> HIDE DEF pc, ca, r
  <2>3. \A v \in Worker : worker'[v] = IF v = Updater(p) THEN r ELSE worker[v]
    BY <1>1, <2>2 DEF WorkersTyped
  <2>4. \A q \in Pod : worker'[Checker(q)] = worker[Checker(q)]
    BY <1>2, <2>3
  <2>5. OnePod'
    BY <2>4, OnePodKept DEF Steady, Running
  <2>6. StoresFresh'
    BY <1>4, <2>4 DEF WatchSecret, StoresFresh, Steady
  <2>7. PublishesCAs'
    BY <2>1, <2>2, <2>3 DEF PublishesCAs, Steady
  <2> QED BY <1>3, <2>5, <2>6, <2>7 DEF Steady
<1>5. CASE SyncSecret(p)
  <2>1. UNCHANGED <<worker, fresh>>
    BY <1>5 DEF SyncSecret
  <2> QED BY <1>3, <2>1 DEF Steady, OnePod, Running, StoresFresh, PublishesCAs
<1>6. CASE RestartPod(p)
  <2> DEFINE r == [worker[Checker(p)] EXCEPT !.pc = "boot"]
  <2>1. r.pc = "boot" /\ worker' = [worker EXCEPT ![Checker(p)] = r] /\ fresh' = fresh
    BY <1>1, <1>2, <1>6 DEF RestartPod, StartPod, WorkersTyped, WorkerState
  <2> HIDE DEF r
  <2>2. \A v \in Worker : worker'[v] = IF v = Checker(p) THEN r ELSE worker[v]
    BY <1>1, <2>1 DEF WorkersTyped
  <2>3. \A q \in Pod : q # p => worker'[Checker(q)] = worker[Checker(q)]
    BY <1>2, <2>2
  <2>4. \A q \in Pod : Running(q)' => q = p
    BY <1>6, <2>3 DEF RestartPod, Running
  <2>5. OnePod'
    BY <2>4 DEF OnePod
  <2>6. StoresFresh'
    BY <1>2, <2>1, <2>2 DEF StoresFresh, Steady
  <2>7. PublishesCAs'
    BY <2>1, <2>2 DEF PublishesCAs, Steady
  <2> QED BY <1>3, <2>5, <2>6, <2>7 DEF Steady
<1>7. CASE StopPod(p)
  <2>1. \A v \in Worker : worker'[v] = IF v \in {Checker(p), Updater(p)} THEN Idle ELSE worker[v]
    BY <1>1, <1>2, <1>7 DEF StopPod, WorkersTyped
  <2>2. \A q \in Pod : worker'[Checker(q)] = IF q = p THEN Idle ELSE worker[Checker(q)]
    BY <1>2, <2>1
  <2>3. \A q \in Pod : Running(q)' => Running(q)
    BY <2>2, IdleType DEF Running
  <2>4. OnePod'
    BY <2>3, OnePodKept DEF Steady
  <2>5. StoresFresh'
    <3> SUFFICES ASSUME NEW q \in Pod, worker'[Checker(q)].pc = "store"
                 PROVE  <<Checker(q), Secret>> \in fresh'
      BY DEF StoresFresh
    <3>1. q # p /\ <<Checker(q), Secret>> \in fresh
      BY <2>2, IdleType DEF StoresFresh, Steady
    <3>2. <<Checker(q), Secret>>[1][2] = q
      BY DEF Checker
    <3> QED BY <1>7, <3>1, <3>2 DEF StopPod
  <2>6. PublishesCAs'
    BY <2>1, IdleType DEF PublishesCAs, Steady
  <2> QED BY <1>3, <2>4, <2>5, <2>6 DEF Steady
<1> QED BY <1>4, <1>5, <1>6, <1>7

LEMMA SteadySink ==
    ASSUME TypeOK, Steady, NEW s \in Listener, StartSink(s) \/ RefreshPool(s) \/ SyncSink(s)
    PROVE  Steady' /\ \A t \in Listener : sink[t].up => sink'[t].up
<1>1. SinksTyped
  BY TypeParts
<1>2. UNCHANGED <<worker, fresh, user, bundle>>
  BY DEF StartSink, RefreshPool, SyncSink, serverVars
<1>3. OnePod' /\ StoresFresh' /\ PublishesCAs'
  BY <1>2 DEF Steady, OnePod, Running, StoresFresh, PublishesCAs
<1>4. Current.core = bundle /\ Current.user = user
  BY DEF Current
<1>5. CASE StartSink(s)
  <2>1. /\ \A t \in Listener : seen'[t] = IF t = s THEN Current ELSE seen[t]
        /\ \A t \in Listener : t # s => sink'[t] = sink[t]
        /\ sink'[s].up => BundlesAvailable(Current)
    BY <1>1, <1>5 DEF StartSink, SinksTyped, Down
  <2>2. BundlesStay'
    BY <1>2, <1>4, <2>1 DEF Steady, BundlesStay, BundlesAvailable
  <2> QED BY <1>3, <1>5, <2>1, <2>2 DEF Steady, StartSink
<1>6. CASE RefreshPool(s)
  <2>1. BundlesAvailable(seen[s])
    BY <1>6 DEF RefreshPool, Steady, BundlesStay, BundlesAvailable
  <2>2. seen' = seen /\ \A t \in Listener : sink'[t].up <=> sink[t].up
    BY <1>1, <1>6, <2>1 DEF RefreshPool, SinksTyped
  <2>3. BundlesStay'
    BY <1>2, <2>2 DEF Steady, BundlesStay
  <2> QED BY <1>3, <2>2, <2>3 DEF Steady
<1>7. CASE SyncSink(s)
  <2>1. sink' = sink /\ \A t \in Listener : seen'[t] = IF t = s THEN Current ELSE seen[t]
    BY <1>1, <1>7 DEF SyncSink, SinksTyped
  <2>2. BundlesStay'
    BY <1>2, <1>4, <2>1 DEF Steady, BundlesStay
  <2> QED BY <1>3, <2>1, <2>2 DEF Steady
<1> QED BY <1>5, <1>6, <1>7

LEMMA SteadyStep ==
    ASSUME TypeOK, Undisturbed => Steady, [Next]_vars
    PROVE  /\ (Undisturbed => Steady)'
           /\ Undisturbed' => \A s \in Listener : sink[s].up => sink'[s].up
<1> SUFFICES ASSUME Undisturbed'
             PROVE  Steady' /\ \A s \in Listener : sink[s].up => sink'[s].up
  OBVIOUS
<1>1. Steady /\ user = "set"
  BY NoDisturbance DEF Steady, BundlesStay
<1>2. ASSUME NEW p \in Pod,
             \/ CheckerStep(p) \/ WatchSecret(p) \/ SyncSecret(p)
             \/ RestartPod(p) \/ SurgePod(p) \/ StopPod(p)
      PROVE  Steady' /\ UNCHANGED sink
  <2>1. UNCHANGED sink
    BY <1>2, NoDisturbance DEF CheckerStep, BootCerts, CheckCertValidity, StoreSecret, WatchSecret,
           SyncSecret, RestartPod, StartPod, StopPod, sinkVars
  <2> QED BY <1>1, <1>2, <2>1, NoDisturbance, SteadyChecker, SteadyPod
<1>3. ASSUME NEW w \in Worker, WorkerStep(w)
      PROVE  Steady' /\ UNCHANGED sink
  <2>1. UNCHANGED sink
    BY <1>3, Zenon DEF WorkerStep, ListInterceptors, UpdateInterceptor, sinkVars
  <2> QED BY <1>1, <1>3, <2>1, SteadyWorker
<1>4. ASSUME NEW s \in Listener, StartSink(s) \/ RefreshPool(s) \/ SyncSink(s)
      PROVE  Steady' /\ \A t \in Listener : sink[t].up => sink'[t].up
  BY <1>1, <1>4, SteadySink
<1>5. CASE Expire \/ UNCHANGED vars
  <2>1. UNCHANGED <<worker, fresh, user, bundle, sink, seen>>
    BY <1>5 DEF Expire, vars, serverVars, sinkVars
  <2>2. BundlesStay'
    BY <1>1, <2>1, BundlesKept DEF Steady
  <2> QED BY <1>1, <2>1, <2>2 DEF Steady, OnePod, Running, StoresFresh, PublishesCAs
<1>6. CASE ChangeUser
  BY <1>1, <1>6, NoDisturbance
<1>7. CASE \E i \in Core : Reinstall(i)
  BY <1>7, NoDisturbance
<1> QED BY <1>2, <1>3, <1>4, <1>5, <1>6, <1>7 DEF Next

\* As long as no request to the API server fails, no one else changes a bundle and no two
\* pods run at a time, a sink that came up never exits on account of a bundle
\* (adapter.go:getHTTPClient), through any number of expiries and restarts, each at any
\* point of a rotation.
THEOREM SinksStayUp == Spec => SinkStaysUp
<1>1. Init => TypeOK /\ PublishedWasStored /\ (Undisturbed => Steady)
  BY TypeInit, PublishedInit, SteadyInit
<1>2. TypeOK /\ PublishedWasStored /\ (Undisturbed => Steady) /\ [Next]_vars
        => (TypeOK /\ PublishedWasStored /\ (Undisturbed => Steady))'
  BY Invariance, SteadyStep
<1>3. TypeOK /\ (Undisturbed => Steady) /\ [Next]_vars
        => [Undisturbed' => \A s \in Listener : sink[s].up => sink'[s].up]_vars
  BY SteadyStep
<1> QED BY <1>1, <1>2, <1>3, PTL DEF Spec, SinkStaysUp

=============================================================================
