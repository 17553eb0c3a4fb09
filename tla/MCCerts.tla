------------------------------- MODULE MCCerts -------------------------------
(***************************************************************************)
(* Instances of InterceptorCerts for TLC.                                  *)
(***************************************************************************)
EXTENDS InterceptorCerts, TLC

CONSTANTS p1, p2, s1, Budgets

Budget(expiries, errors, changes, stops, surges) ==
    [expiries |-> expiries, errors |-> errors, changes |-> changes, stops |-> stops, surges |-> surges]

\* Pods that stop in a rotation, disturbances of one, or two pods that start up at once
RotationBudgets == {Budget(1, 0, 0, 2, 0), Budget(1, 1, 1, 0, 0), Budget(0, 0, 0, 0, 1)}
\* A bundle is emptied, and no more
ReinstallBudgets == {Budget(0, 0, 1, 0, 0)}

\* What has happened stays within one of Budgets
Affordable == \E b \in Budgets : \A k \in DOMAIN b : count[k] <= b[k]

\* The pods are alike, and p2 is the one that is started beside p1
InOrder == p2 \in Pod /\ Running(p2) => count.surges > 0

MCNext == Next /\ Affordable' /\ InOrder'
MCSpec == Init /\ [][MCNext]_vars /\ Fairness
=============================================================================
