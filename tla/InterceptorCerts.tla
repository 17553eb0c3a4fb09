-------------------------- MODULE InterceptorCerts --------------------------
(***************************************************************************)
(* How the server of the core interceptors and the sinks that call it come *)
(* to agree on a CA: the server keeps its certificate in a secret and puts *)
(* the CA into the CaBundle of every core ClusterInterceptor; a sink adds  *)
(* the bundles it sees to the pool of CAs it trusts                        *)
(* (pkg/interceptors/server/server.go, cmd/interceptors/main.go,           *)
(* pkg/adapter/adapter.go).                                                *)
(*                                                                         *)
(* A certificate, its key and its CA are made and stored together and are  *)
(* one number here; NoCert is empty data.  Objects of the API server have  *)
(* resource versions: `fresh' holds <<w, o>> while worker w's copy of      *)
(* object o is the current version, and an update from any other copy is   *)
(* refused.                                                                *)
(***************************************************************************)
EXTENDS Integers, Sequences

CONSTANTS
    Pod,            \* the pods of the interceptors' server
    Listener,       \* the sinks
    NumCore,        \* the number of core ClusterInterceptors
    \* Bounds
    MaxExpiries,    \* certificates that expire
    MaxErrors,      \* requests the API server fails
    MaxChanges,     \* changes of ClusterInterceptors by users
    MaxStops,       \* pods that are stopped
    MaxSurges       \* pods that are started beside another

ASSUME CertsAssumption ==
    /\ NumCore \in Nat \ {0}
    /\ MaxExpiries \in Nat /\ MaxErrors \in Nat /\ MaxChanges \in Nat
    /\ MaxStops \in Nat /\ MaxSurges \in Nat

NoCert == 0
Secret == 0
\* The core ClusterInterceptors, in the order in which they are listed
Core == 1..NumCore
\* The goroutines of a pod that write: main, which goes on as the goroutine of
\* checkCertValidity, and the goroutine of UpdateCACertToClusterInterceptorCRD
Worker == {"checker", "updater"} \X Pod
Checker(p) == <<"checker", p>>
Updater(p) == <<"updater", p>>

VARIABLES
    made,       \* how many certificates have been made
    expired,    \* the certificates that no longer verify
    secret,     \* what the secret has held so far; its last element is what it holds
    bundle,     \* bundle[i]: the CaBundle of ClusterInterceptor i
    user,       \* the CaBundle of an https (Cluster)Interceptor that users manage
    fresh,      \* see above
    worker,     \* the goroutines of the server
    cached,     \* cached[p]: how much of secret p's informer has seen
    sink,       \* sink[s]: is it serving, and the pool of CAs it trusts
    seen,       \* seen[s]: the bundles in the informers of sink s
    count       \* of expiries, errors, changes, stops and surges, for the bounds

serverVars == <<made, secret, fresh, worker>>
sinkVars == <<sink, seen>>
vars == <<made, expired, secret, bundle, user, fresh, worker, cached, sink, seen, count>>

-----------------------------------------------------------------------------
Down == [up |-> FALSE, pool |-> {}]
\* What an informer in sync shows a sink
Current == [core |-> bundle, user |-> user]

Idle == [pc |-> "off", ca |-> NoCert, new |-> NoCert, view |-> [i \in Core |-> NoCert], at |-> 1]

Init ==
    /\ made = 0
    /\ expired = {}
    /\ secret = <<>>
    /\ bundle = [i \in Core |-> NoCert]
    /\ user = "set"
    /\ fresh = {}
    /\ worker = [w \in Worker |-> Idle]
    /\ cached = [p \in Pod |-> 0]
    /\ sink = [s \in Listener |-> Down]
    /\ seen = [s \in Listener |-> Current]
    /\ count = [expiries |-> 0, errors |-> 0, changes |-> 0, stops |-> 0, surges |-> 0]

\* The API server fails a request
Error ==
    /\ count.errors < MaxErrors
    /\ count' = [count EXCEPT !.errors = @ + 1]

Running(p) == worker[Checker(p)].pc # "off"
\* main has not yet returned from CreateAndValidateCerts
Booting(p) == Running(p) /\ worker[Updater(p)].pc = "off"

\* w is through with the copies it holds
Forget(w) == fresh' = {h \in fresh : h[1] # w}

\* CreateAndValidateCerts returns; without having started the goroutine of
\* checkCertValidity when that is "dead".  main starts the updater.
EndBoot(p, checker) ==
    /\ worker' = [worker EXCEPT ![Checker(p)] = [Idle EXCEPT !.pc = checker, !.ca = worker[Checker(p)].ca],
                                ![Updater(p)].pc = "tick"]
    /\ Forget(Checker(p))

-----------------------------------------------------------------------------
(* createCerts *)

\* Get and CreateCerts
MakeCerts(p) ==
    /\ made' = made + 1
    /\ worker' = [worker EXCEPT ![Checker(p)].new = made + 1, ![Checker(p)].pc = "store"]
    /\ fresh' = fresh \union {<<Checker(p), Secret>>}

\* certsExpire is false: a secret that has data is used as it is
BootCerts(p) ==
    /\ worker[Checker(p)].pc = "boot"
    /\ \/ /\ Error
          /\ EndBoot(p, "dead")
          /\ UNCHANGED made
       \/ /\ secret # <<>>
          /\ worker' = [worker EXCEPT ![Checker(p)].ca = secret[Len(secret)],
                                      ![Checker(p)].pc = "list"]
          /\ UNCHANGED <<made, fresh, count>>
       \/ /\ secret = <<>>
          /\ MakeCerts(p)
          /\ UNCHANGED count
    /\ UNCHANGED <<expired, secret, bundle, user, cached, sinkVars>>

\* The ticker of checkCertValidity fires and the certificate does not verify, or
\* there is none.  When createCerts fails, the empty CA it returns is kept and
\* published all the same.
CheckCertValidity(p) ==
    /\ worker[Checker(p)].pc = "tick"
    /\ worker[Checker(p)].ca \in expired \union {NoCert}
    /\ \/ /\ Error
          /\ worker' = [worker EXCEPT ![Checker(p)].ca = NoCert, ![Checker(p)].pc = "list"]
          /\ UNCHANGED <<made, fresh>>
       \/ /\ MakeCerts(p)
          /\ UNCHANGED count
    /\ UNCHANGED <<expired, secret, bundle, user, cached, sinkVars>>

\* Mutant: a certificate that could not be stored is used all the same
StoreSecretIgnoresError(p) ==
    LET w == Checker(p)
    IN  /\ worker[w].pc = "store"
        /\ worker' = [worker EXCEPT ![w].ca = worker[w].new, ![w].pc = "list"]
        /\ \/ /\ <<w, Secret>> \in fresh
              /\ secret' = Append(secret, worker[w].new)
              /\ fresh' = fresh \ (Worker \X {Secret})
              /\ UNCHANGED count
           \/ /\ \/ Error
                 \/ <<w, Secret>> \notin fresh /\ UNCHANGED count
              /\ UNCHANGED <<secret, fresh>>
        /\ UNCHANGED <<made, expired, bundle, user, cached, sinkVars>>

\* Mutant: the secret is updated with the certificate from memory, not the new one
StoreSecretOld(p) ==
    LET w == Checker(p)
    IN  /\ worker[w].pc = "store"
        /\ secret' = Append(secret, worker[w].ca)
        /\ fresh' = fresh \ (Worker \X {Secret})
        /\ worker' = [worker EXCEPT ![w].ca = worker[w].new, ![w].pc = "list"]
        /\ UNCHANGED <<made, expired, bundle, user, cached, sinkVars, count>>

\* The update of the secret, which fails when it was written since it was read
StoreSecret(p) ==
    LET w == Checker(p)
    IN  /\ worker[w].pc = "store"
        /\ \/ /\ <<w, Secret>> \in fresh
              /\ secret' = Append(secret, worker[w].new)
              /\ fresh' = fresh \ (Worker \X {Secret})
              /\ worker' = [worker EXCEPT ![w] = [Idle EXCEPT !.pc = "list", !.ca = worker[w].new]]
              /\ UNCHANGED count
           \/ /\ \/ Error
                 \/ <<w, Secret>> \notin fresh /\ UNCHANGED count
              /\ \/ /\ Booting(p)
                    /\ EndBoot(p, "dead")
                 \/ /\ ~Booting(p)
                    /\ worker' = [worker EXCEPT ![w] = [Idle EXCEPT !.pc = "list"]]
                    /\ Forget(w)
              /\ UNCHANGED secret
        /\ UNCHANGED <<made, expired, bundle, user, cached, sinkVars>>

-----------------------------------------------------------------------------
(* listAndUpdateClusterInterceptorCRD *)

\* What the caller does with the result: main goes on, the checker waits for its
\* ticker, and the updater does so only if there was no error
Return(w, ok) ==
    \/ /\ \E p \in Pod : w = Checker(p) /\ Booting(p) /\ EndBoot(p, IF ok THEN "tick" ELSE "dead")
    \/ /\ \E p \in Pod : w = Checker(p) /\ ~Booting(p)
       /\ worker' = [worker EXCEPT ![w] = [Idle EXCEPT !.pc = "tick", !.ca = worker[w].ca]]
       /\ Forget(w)
    \/ /\ \E p \in Pod : w = Updater(p)
       /\ worker' = [worker EXCEPT ![w] = [Idle EXCEPT !.pc = IF ok THEN "tick" ELSE "dead"]]
       /\ Forget(w)

ListInterceptors(w) ==
    /\ worker[w].pc = "list"
    /\ \/ /\ worker' = [worker EXCEPT ![w].view = bundle, ![w].at = 1, ![w].pc = "push"]
          /\ fresh' = fresh \union ({w} \X Core)
          /\ UNCHANGED count
       \/ /\ Error
          /\ Return(w, FALSE)
    /\ UNCHANGED <<made, expired, secret, bundle, user, cached, sinkVars>>

\* Mutant: only empty bundles are filled in
ToUpdateEmpty(w) == {i \in Core : i >= worker[w].at /\ worker[w].view[i] = NoCert}

\* The ClusterInterceptors that updateCRDWithCaCert has yet to update: those whose
\* bundle is empty or another one
ToUpdate(w) ==
    {i \in Core : i >= worker[w].at /\ worker[w].view[i] \notin {worker[w].ca} \ {NoCert}}

UpdateInterceptor(w) ==
    /\ worker[w].pc = "push"
    /\ \/ /\ ToUpdate(w) = {}
          /\ Return(w, TRUE)
          /\ UNCHANGED <<bundle, count>>
       \/ \E i \in ToUpdate(w) :
             /\ \A j \in ToUpdate(w) : i <= j
             /\ \/ /\ <<w, i>> \in fresh
                   /\ bundle' = [bundle EXCEPT ![i] = worker[w].ca]
                   /\ fresh' = fresh \ (Worker \X {i})
                   /\ worker' = [worker EXCEPT ![w].at = i + 1]
                   /\ UNCHANGED count
                \/ /\ \/ Error
                      \/ <<w, i>> \notin fresh /\ UNCHANGED count
                   /\ Return(w, FALSE)
                   /\ UNCHANGED bundle
    /\ UNCHANGED <<made, expired, secret, user, cached, sinkVars>>

\* The ticker of the updater fires.  It takes the CA from its informer, and ends
\* when there is none.
WatchSecret(p) ==
    /\ worker[Updater(p)].pc = "tick"
    /\ worker' = [worker EXCEPT
                     ![Updater(p)].pc = IF cached[p] = 0 THEN "dead" ELSE "list",
                     ![Updater(p)].ca = IF cached[p] = 0 THEN NoCert ELSE secret[cached[p]]]
    /\ UNCHANGED <<made, expired, secret, bundle, user, fresh, cached, sinkVars, count>>

-----------------------------------------------------------------------------
(* The sinks *)

\* The condition that getCertFromInterceptor polls; it is an error, and the end of
\* the polling, when it does not hold
BundlesAvailable(bundles) ==
    /\ \A i \in Core : bundles.core[i] # NoCert
    /\ bundles.user # "empty"

CAs(bundles) == {bundles.core[i] : i \in Core}

\* Mutant: the sink does not wait for the bundles
StartSinkEager(s) ==
    /\ ~sink[s].up
    /\ seen' = [seen EXCEPT ![s] = Current]
    /\ sink' = [sink EXCEPT ![s] = [up |-> TRUE, pool |-> CAs(Current) \ {NoCert}]]
    /\ UNCHANGED <<serverVars, expired, bundle, user, cached, count>>

\* The process starts, with informers that are in sync, and serves only if all
\* bundles are there; otherwise it exits, and is started again
StartSink(s) ==
    /\ ~sink[s].up
    /\ seen' = [seen EXCEPT ![s] = Current]
    /\ sink' = [sink EXCEPT ![s] = IF BundlesAvailable(Current)
                                     THEN [up |-> TRUE, pool |-> CAs(Current)] ELSE Down]
    /\ UNCHANGED <<serverVars, expired, bundle, user, cached, count>>

\* The ticker of getHTTPClient: the pool only grows, or the process exits
RefreshPool(s) ==
    /\ sink[s].up
    /\ sink' = [sink EXCEPT ![s] = IF BundlesAvailable(seen[s])
                                     THEN [up |-> TRUE, pool |-> sink[s].pool \union CAs(seen[s])]
                                     ELSE Down]
    /\ UNCHANGED <<serverVars, expired, bundle, user, cached, seen, count>>

-----------------------------------------------------------------------------
(* The environment *)

SyncSecret(p) ==
    /\ Running(p)
    /\ cached[p] < Len(secret)
    /\ cached' = [cached EXCEPT ![p] = @ + 1]
    /\ UNCHANGED <<serverVars, expired, bundle, user, sinkVars, count>>

SyncSink(s) ==
    /\ sink[s].up
    /\ seen[s] # Current
    /\ seen' = [seen EXCEPT ![s] = Current]
    /\ UNCHANGED <<serverVars, expired, bundle, user, cached, sink, count>>

\* The certificate in the secret expires
Expire ==
    /\ count.expiries < MaxExpiries
    /\ secret # <<>>
    /\ secret[Len(secret)] \notin expired
    /\ expired' = expired \union {secret[Len(secret)]}
    /\ count' = [count EXCEPT !.expiries = @ + 1]
    /\ UNCHANGED <<serverVars, bundle, user, cached, sinkVars>>

\* A core ClusterInterceptor is installed anew, without a bundle
Reinstall(i) ==
    /\ count.changes < MaxChanges
    /\ bundle' = [bundle EXCEPT ![i] = NoCert]
    /\ fresh' = fresh \ (Worker \X {i})
    /\ count' = [count EXCEPT !.changes = @ + 1]
    /\ UNCHANGED <<made, expired, secret, user, worker, cached, sinkVars>>

\* A user adds an https interceptor without a bundle, or fills that in
ChangeUser ==
    /\ \/ /\ user # "empty"
          /\ count.changes < MaxChanges
          /\ user' = "empty"
          /\ count' = [count EXCEPT !.changes = @ + 1]
       \/ /\ user = "empty"
          /\ user' = "set"
          /\ UNCHANGED count
    /\ UNCHANGED <<serverVars, expired, bundle, cached, sinkVars>>

StartPod(p) ==
    /\ ~Running(p)
    /\ worker' = [worker EXCEPT ![Checker(p)].pc = "boot"]
    /\ cached' = [cached EXCEPT ![p] = Len(secret)]
    /\ UNCHANGED <<made, expired, secret, bundle, user, fresh, sinkVars>>

\* The Deployment's pod is started, or started again
RestartPod(p) ==
    /\ \A q \in Pod : ~Running(q)
    /\ StartPod(p)
    /\ UNCHANGED count

\* In a rolling update the new pod is started beside the old one
SurgePod(p) ==
    /\ \E q \in Pod : Running(q)
    /\ count.surges < MaxSurges
    /\ count' = [count EXCEPT !.surges = @ + 1]
    /\ StartPod(p)

StopPod(p) ==
    /\ Running(p)
    /\ count.stops < MaxStops
    /\ count' = [count EXCEPT !.stops = @ + 1]
    /\ worker' = [worker EXCEPT ![Checker(p)] = Idle, ![Updater(p)] = Idle]
    /\ fresh' = {h \in fresh : h[1][2] # p}
    /\ UNCHANGED <<made, expired, secret, bundle, user, cached, sinkVars>>

-----------------------------------------------------------------------------
CheckerStep(p) ==
    BootCerts(p) \/ CheckCertValidity(p) \/ StoreSecret(p)

WorkerStep(w) == ListInterceptors(w) \/ UpdateInterceptor(w)

Next ==
    \/ \E p \in Pod : CheckerStep(p) \/ WatchSecret(p) \/ SyncSecret(p)
                     \/ RestartPod(p) \/ SurgePod(p) \/ StopPod(p)
    \/ \E w \in Worker : WorkerStep(w)
    \/ \E s \in Listener : StartSink(s) \/ RefreshPool(s) \/ SyncSink(s)
    \/ Expire \/ ChangeUser
    \/ \E i \in Core : Reinstall(i)

\* Goroutines run, tickers fire, informers catch up, and Kubernetes restarts what
\* has exited
Fairness ==
    /\ \A p \in Pod : WF_vars(CheckerStep(p)) /\ WF_vars(WatchSecret(p)) /\ WF_vars(SyncSecret(p))
    /\ WF_vars(\E p \in Pod : RestartPod(p))
    /\ \A w \in Worker : WF_vars(WorkerStep(w))
    /\ \A s \in Listener : WF_vars(StartSink(s)) /\ WF_vars(RefreshPool(s)) /\ WF_vars(SyncSink(s))

Spec == Init /\ [][Next]_vars
FairSpec == Spec /\ Fairness

-----------------------------------------------------------------------------
(* Properties *)

Cert == Nat \ {NoCert}
WorkerState ==
    [pc : {"off", "boot", "store", "list", "push", "tick", "dead"},
     ca : Nat, new : Nat, view : [Core -> Nat], at : Nat]

\* The types of the state
TypeOK ==
    /\ made \in Nat
    /\ expired \subseteq Cert
    /\ secret \in Seq(Cert)
    /\ bundle \in [Core -> Nat]
    /\ user \in {"set", "empty"}
    /\ fresh \subseteq Worker \X (0..NumCore)
    /\ worker \in [Worker -> WorkerState]
    /\ \A w \in Worker : worker[w].pc = "store" => worker[w].new \in Cert
    /\ cached \in [Pod -> Nat]
    /\ \A p \in Pod : cached[p] <= Len(secret)
    /\ sink \in [Listener -> [up : BOOLEAN, pool : SUBSET Cert]]
    /\ seen \in [Listener -> [core : [Core -> Nat], user : {"set", "empty"}]]
    /\ count \in [expiries : Nat, errors : Nat, changes : Nat, stops : Nat, surges : Nat]

Stored == {secret[n] : n \in 1..Len(secret)}

\* Whatever fails between making a certificate and publishing it, and whoever else
\* writes the secret: a CA is in the memory of a server, in a CaBundle or in the pool
\* of a sink only if the secret has held its certificate.
PublishedWasStored ==
    /\ \A w \in Worker : worker[w].ca \in Stored \union {NoCert}
    /\ \A i \in Core : bundle[i] \in Stored \union {NoCert}
    /\ \A s \in Listener : /\ CAs(seen[s]) \subseteq Stored \union {NoCert}
                           /\ sink[s].pool \subseteq Stored

\* The API server has failed no request, no one else has changed a bundle, and there was
\* one pod at a time
Undisturbed == count.errors = 0 /\ count.changes = 0 /\ count.surges = 0

\* A sink that came up never has to exit on account of the core interceptors, while
\* certificates expire and pods restart; holds as long as the API server fails no
\* request, no one else changes a bundle and one pod has ended before the next is started.
SinkStaysUp == [][Undisturbed' => \A s \in Listener : sink[s].up => sink'[s].up]_vars

\* The certificate that pod p serves (GetTLSData) verifies against the pool of s
Accepted(p, s) ==
    /\ cached[p] # 0
    /\ secret[cached[p]] \in sink[s].pool \ expired
Connected ==
    /\ \E p \in Pod : Running(p)
    /\ \A s \in Listener : sink[s].up /\ \A p \in Pod : Running(p) => Accepted(p, s)

\* Certificates that expire and pods that stop at any point of a rotation, conflicts
\* between the two goroutines included, leave the sink with a pool it can connect with.
Converges == <>[](Undisturbed => Connected)

\* The updater repairs whatever else has failed: as long as both goroutines live, errors in a
\* rotation, two pods that rotate at once (the one whose update of the secret is refused
\* publishes an empty CA), bundles that someone has emptied, or users who are slow to fill
\* in theirs do not keep the sink from connecting in the end.
ConvergesWhileWatched ==
    /\ \A w \in Worker : <>[](worker[w].pc # "dead")
    /\ <>[](user # "empty")
    => <>[]Connected

\* An empty bundle of a core ClusterInterceptor is filled in.
MissingBundleFilled == \A i \in Core : bundle[i] = NoCert ~> bundle[i] # NoCert

\* In the end the sink trusts what the server presents: after pods that stop at any point of
\* a rotation, and, while the updater lives, after whatever else may fail (server.go
\* CreateAndValidateCerts and UpdateCACertToClusterInterceptorCRD, adapter.go getHTTPClient).
SinksConnect == Converges /\ ConvergesWhileWatched
=============================================================================
