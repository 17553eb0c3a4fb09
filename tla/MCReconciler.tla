---------------------------- MODULE MCReconciler ----------------------------
(***************************************************************************)
(* Instances of ELReconciler for TLC.                                      *)
(***************************************************************************)
EXTENDS ELReconciler

CONSTANT Budgets

Plain == [kind |-> "kubernetes", template |-> "plain", port |-> 0, replicas |-> 0,
          labels |-> "l1", note |-> "x"]
Secure == [Plain EXCEPT !.template = "tls", !.labels = "l2", !.replicas = 2]
SecurePort == [Plain EXCEPT !.template = "tls", !.port = 80]
Custom == [Plain EXCEPT !.kind = "custom"]
CustomSecure == [Custom EXCEPT !.template = "tls"]
CustomLabels == [Custom EXCEPT !.labels = "l2"]

KubernetesSpecs == {Plain, Secure}
MixedSpecs == {Plain, Custom, CustomSecure, CustomLabels}
PortSpecs == {Plain, SecurePort}

Budget(uids, changes, outside, errors, crashes) ==
    [uids |-> uids, changes |-> changes, outside |-> outside, errors |-> errors, crashes |-> crashes]

\* The EventListener is made anew; others change its objects; requests fail and the
\* controller crashes
RestBudgets == {Budget(2, 1, 0, 0, 0), Budget(1, 0, 1, 0, 0), Budget(1, 1, 0, 1, 0), Budget(1, 1, 0, 0, 1)}
MixedBudgets == {Budget(1, 1, 0, 1, 1), Budget(1, 1, 1, 0, 0), Budget(1, 0, 1, 1, 0)}
AddressBudgets == {Budget(1, 0, 0, 0, 0)}

\* What has happened stays within one of Budgets
Affordable == \E b \in Budgets : \A k \in DOMAIN b : count[k] <= b[k]

MCNext == Next /\ Affordable'
MCSpec == Init /\ [][MCNext]_vars
MCFairSpec == MCSpec /\ Fairness
=============================================================================
