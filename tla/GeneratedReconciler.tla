------------------------ MODULE GeneratedReconciler -------------------------
(***************************************************************************)
(* The generated reconciler of an object (pkg/client/injection/reconciler) *)
(* in several replicas of the controller, of which one holds the lease.    *)
(* The code is generated once for each of EventListeners (v1beta1),        *)
(* ClusterInterceptors and Interceptors, and differs in the type alone.    *)
(* There is one object.  None of the repository's reconcilers finalizes or *)
(* observes, so that part of the generated code is never reached.          *)
(***************************************************************************)
EXTENDS Naturals, FiniteSets

CONSTANTS
    Replicas,
    MaxAttempts,              \* of RetryUpdateConflicts
    ReconcileKind(_, _),      \* kind and object -> its status and whether it failed
    Budgets                   \* of edits, errors, elections and restarts, and what is edited

VARIABLES
    kind,       \* of the object
    obj,        \* on the API server: a set of at most one object
    revision,   \* of the API server: no two versions are the same
    left,       \* what is left of the budget
    leaders,    \* replicas that hold the lease's bucket, as far as they know
    lister,      \* replica -> what its informer has
    queued,     \* replica -> the key is in its queue
    work        \* replica -> what its worker does with the key

genVars == <<kind, obj, revision, left, leaders, lister, queued, work>>

IdleWork == [pc |-> "idle", isLeader |-> FALSE, existing |-> 0, desired |-> {}, attempts |-> 0, failed |-> FALSE]

GenInit ==
    /\ obj = {} /\ revision = 0
    /\ left \in Budgets
    /\ leaders = {}
    /\ lister = [r \in Replicas |-> {}]
    /\ queued = [r \in Replicas |-> FALSE]
    /\ work = [r \in Replicas |-> IdleWork]

Use(u) == left[u] > 0 /\ left' = [left EXCEPT ![u] = @ - 1]

\* The API server stores the object with a version of its own, or deletes it
Write(objects) ==
    /\ revision' = revision + 1
    /\ obj' = {[o EXCEPT !.version = revision'] : o \in objects}

-----------------------------------------------------------------------------
(* Leases, informers and restarts *)

\* Mutant: nothing is enqueued
PromoteOnly(r) ==
    /\ leaders = {}
    /\ leaders' = {r}
    /\ UNCHANGED <<kind, obj, revision, left, lister, queued, work>>

\* Promote: the bucket first, then every object of the lister is enqueued
Promote(r) ==
    /\ leaders = {}
    /\ leaders' = {r}
    /\ queued' = [queued EXCEPT ![r] = @ \/ lister[r] # {}]
    /\ UNCHANGED <<kind, obj, revision, left, lister, work>>

\* The lease is lost; what the worker has begun goes on
Demote(r) ==
    /\ r \in leaders
    /\ Use("elections")
    /\ leaders' = leaders \ {r}
    /\ UNCHANGED <<kind, obj, revision, lister, queued, work>>

\* The informer catches up, HandleAll enqueues
Watch(r) ==
    /\ lister[r] # obj
    /\ lister' = [lister EXCEPT ![r] = obj]
    /\ queued' = [queued EXCEPT ![r] = TRUE]
    /\ UNCHANGED <<kind, obj, revision, left, leaders, work>>

\* The controller's process ends and starts again
Restart(r) ==
    /\ Use("restarts")
    /\ leaders' = leaders \ {r}
    /\ lister' = [lister EXCEPT ![r] = {}]
    /\ queued' = [queued EXCEPT ![r] = FALSE]
    /\ work' = [work EXCEPT ![r] = IdleWork]
    /\ UNCHANGED <<kind, obj, revision>>

-----------------------------------------------------------------------------
(* Reconcile *)

\* Whether this replica is the leader is asked for once, at the start
newState(r) == [IdleWork EXCEPT !.pc = "get", !.isLeader = r \in leaders]

\* A key that is not ours is skipped, not tried again
isNotLeaderNorObserver(s) == ~s.isLeader

Take(r) ==
    /\ work[r].pc = "idle"
    /\ queued[r]
    /\ queued' = [queued EXCEPT ![r] = FALSE]
    /\ work' = [work EXCEPT ![r] = IF isNotLeaderNorObserver(newState(r)) THEN IdleWork ELSE newState(r)]
    /\ UNCHANGED <<kind, obj, revision, left, leaders, lister>>

\* An object that is being deleted has no method: there is no finalizer
reconcileMethodFor(o) == IF o.deleting THEN "unknown" ELSE "ReconcileKind"

\* Nothing is written if the status is that of the cached object
DeepEqual(original, status) == original.status = status

\* Gets the object from the lister, reconciles a copy and compares the status
Reconcile(r) ==
    /\ work[r].pc = "get"
    /\ IF lister[r] = {} \/ \E o \in lister[r] : reconcileMethodFor(o) = "unknown"
       THEN work' = [work EXCEPT ![r] = IdleWork] /\ queued' = queued
       ELSE \E o \in lister[r] :
                LET res == ReconcileKind(kind, o)
                IN  IF DeepEqual(o, res.status)
                    THEN /\ work' = [work EXCEPT ![r] = IdleWork]
                         /\ queued' = [queued EXCEPT ![r] = @ \/ res.failed]
                    ELSE /\ work' = [work EXCEPT ![r] = [@ EXCEPT !.pc = "update", !.existing = o.version,
                                                                  !.desired = {res.status}, !.failed = res.failed]]
                         /\ queued' = queued
    /\ UNCHANGED <<kind, obj, revision, left, leaders, lister>>

\* The end of Reconcile: an error has the key tried again
Finish(r, failed) ==
    /\ work' = [work EXCEPT ![r] = IdleWork]
    /\ queued' = [queued EXCEPT ![r] = @ \/ failed]

\* Mutant: conflicts are tried again without a limit
MayRetryAlways(attempts) == TRUE

\* retry.DefaultRetry
MayRetry(attempts) == attempts + 1 < MaxAttempts

\* UpdateStatus: a conflict is tried again with the object of the API server and the same
\* status, the rest of the object is not written
updateStatus(r) ==
    /\ work[r].pc = "update"
    /\ CASE obj = {} -> UNCHANGED <<obj, revision>> /\ Finish(r, TRUE)
         [] \E o \in obj : o.version = work[r].existing ->
                /\ Write({[o EXCEPT !.status = CHOOSE s \in work[r].desired : TRUE] : o \in obj})
                /\ Finish(r, work[r].failed)
         [] OTHER -> /\ UNCHANGED <<obj, revision>>
                     /\ IF MayRetry(work[r].attempts)
                        THEN /\ work' = [work EXCEPT ![r] = [work[r] EXCEPT !.pc = "fetch",
                                                                      !.attempts = work[r].attempts + 1]]
                             /\ queued' = queued
                        ELSE Finish(r, TRUE)
    /\ UNCHANGED <<kind, left, leaders, lister>>

\* Mutant: the next attempt waits for the object that it knows
updateStatusAgainSame(r) ==
    /\ work[r].pc = "fetch"
    /\ \E o \in obj : o.version = work[r].existing
    /\ work' = [work EXCEPT ![r].pc = "update"]
    /\ UNCHANGED <<kind, obj, revision, left, leaders, lister, queued>>

\* The next attempt of updateStatus gets the object first
updateStatusAgain(r) ==
    /\ work[r].pc = "fetch"
    /\ CASE obj = {} -> Finish(r, TRUE)
         [] \E o \in obj : {o.status} = work[r].desired -> Finish(r, work[r].failed)
         [] OTHER -> work' = [work EXCEPT ![r] = [@ EXCEPT !.pc = "update",
                                                          !.existing = (CHOOSE o \in obj : TRUE).version]]
                     /\ queued' = queued
    /\ UNCHANGED <<kind, obj, revision, left, leaders, lister>>

\* A call of updateStatus fails, other than for a conflict
UpdateFailed(r) ==
    /\ work[r].pc \in {"update", "fetch"}
    /\ Use("errors")
    /\ Finish(r, TRUE)
    /\ UNCHANGED <<kind, obj, revision, leaders, lister>>
=============================================================================
