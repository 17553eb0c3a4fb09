----------------------------- MODULE TriggerRuns -----------------------------
(***************************************************************************)
(* What the sink promises for every trigger it runs.  A run passes its     *)
(* gates (interceptors) one by one, then makes its resources one by one,   *)
(* then is announced; it may be dropped anywhere before that.  A run that  *)
(* was started by a parent (the group that selected the trigger) starts    *)
(* only when the parent has passed all its gates.  No run starts twice.    *)
(***************************************************************************)
EXTENDS Naturals

CONSTANTS
    Owner,      \* the events
    OwnerOf(_), \* the event of a run
    Gates(_),   \* the number of gates of a run
    Size(_),    \* the number of resources of a run
    IsParent(_), Parent(_), HasParent(_)

VARIABLES runs, announced

Open == [passed |-> 0, made |-> 0, state |-> "open"]

TRInit ==
    /\ DOMAIN runs = {}
    /\ announced = [o \in Owner |-> 0]

StartAll(old, new) ==
    [p \in DOMAIN old \union new |-> IF p \in new THEN Open ELSE old[p]]

\* An event starts its runs
Begin(new) ==
    /\ new \intersect DOMAIN runs = {}
    /\ \A p \in new : ~HasParent(p)
    /\ runs' = StartAll(runs, new)
    /\ UNCHANGED announced

Pass(p) ==
    /\ runs[p].state = "open"
    /\ runs[p].passed < Gates(p)
    /\ runs' = [runs EXCEPT ![p].passed = @ + 1]
    /\ UNCHANGED announced

Drop(p) ==
    /\ runs[p].state = "open"
    /\ runs' = [runs EXCEPT ![p].state = "dropped"]
    /\ UNCHANGED announced

\* A parent that has passed its gates starts its children, and is done
Fork(p, new) ==
    /\ IsParent(p)
    /\ runs[p].state = "open"
    /\ runs[p].passed = Gates(p)
    /\ new \intersect DOMAIN runs = {}
    /\ \A q \in new : HasParent(q) /\ Parent(q) = p
    /\ runs' = StartAll([runs EXCEPT ![p].state = "done"], new)
    /\ UNCHANGED announced

Make(p) ==
    /\ ~IsParent(p)
    /\ runs[p].state = "open"
    /\ runs[p].passed = Gates(p)
    /\ runs[p].made < Size(p)
    /\ runs' = [runs EXCEPT ![p].made = @ + 1]
    /\ UNCHANGED announced

Announce(p) ==
    /\ ~IsParent(p)
    /\ runs[p].state = "open"
    /\ runs[p].passed = Gates(p)
    /\ runs[p].made = Size(p)
    /\ runs' = [runs EXCEPT ![p].state = "done"]
    /\ announced' = [announced EXCEPT ![OwnerOf(p)] = @ + 1]

\* The runs that a step starts
New == DOMAIN runs' \ DOMAIN runs

TRNext ==
    \/ Begin(New)
    \/ \E p \in DOMAIN runs : Pass(p) \/ Drop(p) \/ Fork(p, New) \/ Make(p) \/ Announce(p)

TRSpec == TRInit /\ [][TRNext]_<<runs, announced>>
=============================================================================
