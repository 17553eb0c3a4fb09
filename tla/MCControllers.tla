--------------------------- MODULE MCControllers ----------------------------
(***************************************************************************)
(* Two replicas of the controller and one object.                          *)
(***************************************************************************)
EXTENDS InterceptorControllers

Service(port) == {[name |-> "svc", namespace |-> "ns", port |-> port]}
External == {[scheme |-> "https", host |-> <<"ext", "">>, port |-> 443]}

Config(labels, ca, url, service) ==
    [labels |-> labels, spec |-> [caBundle |-> ca, url |-> url, service |-> service]]

\* The core interceptors, one that has no server type, an external one, none yet, and invalid ones
Core == Config({"server/type=https"}, FALSE, {}, Service({}))
Service80 == Config({"app"}, TRUE, {}, Service({80}))
Outside == Config({"server/type=http"}, FALSE, External, {})
Empty == Config({}, FALSE, {}, {})
Invalid == {Config({}, FALSE, External, Service({})),
            Config({}, FALSE, {}, {[name |-> "", namespace |-> "ns", port |-> {}]})}

Budget(configs, edits, errors, elections, restarts) ==
    [configs |-> configs, edits |-> edits, errors |-> errors, elections |-> elections, restarts |-> restarts]

Everything == {Core, Service80, Outside, Empty} \union Invalid

ClusterBudgets == {Budget(Everything, 2, 1, 0, 0), Budget({Core, Outside}, 2, 0, 0, 1)}
InterceptorBudgets == {Budget(Everything, 2, 0, 0, 0), Budget({Core}, 2, 0, 1, 0), Budget({Outside}, 1, 1, 0, 1)}
MCBudgets == ClusterBudgets \union InterceptorBudgets

\* The two controllers share their generated code: what is tried with one need not be with the other
MCInit == Init /\ left \in (IF kind = "Interceptor" THEN InterceptorBudgets ELSE ClusterBudgets)

MCSpec == MCInit /\ [][Next]_genVars /\ Fairness
=============================================================================
