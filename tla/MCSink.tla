------------------------------- MODULE MCSink -------------------------------
(***************************************************************************)
(* Instances of Sink for TLC.  Two triggers live in the EventListener's    *)
(* namespace, one elsewhere; the EventListener specs exercise every branch *)
(* of selectTriggers and merge.                                            *)
(***************************************************************************)
EXTENDS Sink

CONSTANTS t1, t2, t3, g1, home, away, l1, star, noSelector, invalidSelector

MCTriggerNS == [t \in Trigger |-> IF t = t3 THEN away ELSE home]
MCTriggerLabels == [t \in Trigger |-> IF t = t1 THEN {} ELSE {l1}]
MCInterceptors == [t \in Trigger |->
    CASE t = t1 -> <<>> [] t = t2 -> <<"ref">> [] t = t3 -> <<"ref", "webhook">>]
MCNumResources == [t \in Trigger |-> IF t = t2 THEN 2 ELSE 1]
MCGroupInterceptors == [g \in Group |-> <<"webhook", "ref">>]

Sel(names, labels) == [names |-> names, labels |-> labels]
NoSel == Sel(<<>>, noSelector)

MCGroupSelector == [g \in Group |-> Sel(<<>>, {l1})]
MCGroupSelectorInvalid == [g \in Group |-> Sel(<<>>, invalidSelector)]
MCGroupSelectorAll == [g \in Group |-> Sel(<<star>>, noSelector)]

Ref(t) == [kind |-> "ref", t |-> t]
Inline(t) == [kind |-> "inline", t |-> t]
Undefined(t) == [kind |-> "undefined", t |-> t]

EL(triggers, select, groups) == [triggers |-> triggers, select |-> select, groups |-> groups]

\* Selection: every branch of selectTriggers and merge, one event
SelectSpecs ==
    {EL(<<Ref(t1), Inline(t2)>>, NoSel, {}),
     EL(<<Ref(t2)>>, Sel(<<>>, {l1}), {}),
     EL(<<>>, Sel(<<star>>, {l1}), {}),
     EL(<<Ref(t3)>>, Sel(<<home>>, noSelector), {}),
     EL(<<>>, Sel(<<away, away>>, {l1}), {}),
     EL(<<>>, Sel(<<>>, invalidSelector), {}),
     EL(<<Inline(t1), Undefined(t1)>>, NoSel, {}),
     EL(<<>>, NoSel, {g1})}

\* Groups: a group beside an ungrouped trigger
GroupSpecs == {EL(<<Ref(t1)>>, NoSel, {g1})}

\* Groups: a group alone
GroupOnlySpecs == {EL(<<>>, NoSel, {g1})}

MCAsJSON == [b \in FormBody |-> "json"]
=============================================================================
