------------------------ MODULE ControllerManager ------------------------
(***************************************************************************)
(* What surrounds a Reconcile function: Argo CD writing Application        *)
(* objects, the API server, the watch that feeds the informer cache, the   *)
(* work queue, the delayed queue and the single worker of each controller. *)
(* All of it is code outside the repository, modelled from how             *)
(* cmd/main.go and the SetupWithManager functions use it.                  *)
(*                                                                         *)
(* A watch delivers an object's updates in order and nothing here writes   *)
(* an Application in answer to a controller, so a watch that lags by       *)
(* several updates is the same as Argo CD writing later: an object is      *)
(* written again only once its last update was delivered.  The exception   *)
(* is a "gap": the watch broke and the relist after it skips a state.      *)
(***************************************************************************)
EXTENDS Application, FiniteSets

CONSTANTS
    Apps,            \* names of Application objects
    NoApp,
    Controllers,     \* the controllers registered with the manager
    SyncOperations,  \* the Operation.Sync values Argo CD starts
    FinalPhases,     \* how an operation may end
    ReportedHealth,  \* the health statuses Argo CD reports
    AnnotatedURLs,   \* deployment annotations that may be written
    DeletionAllowed, \* whether objects are deleted
    MaxStamp,        \* bound: starts and ends of operations of an object
    MaxFaults        \* bound: how often each kind of fault may happen

FaultKinds == {"crash", "gap", "stale", "api", "github"}

ASSUME NoAppAssumption == NoApp \notin Apps
ASSUME SyncAssumption == SyncOperations \subseteq Syncs \cup {NoSync}
ASSUME EnvironmentAssumption ==
    /\ FinalPhases \subseteq CompletedPhases
    /\ ReportedHealth \subseteq HealthStatuses
    /\ AnnotatedURLs \subseteq DeploymentURLs
ASSUME BoundAssumption == MaxStamp \in Nat /\ MaxFaults \in [FaultKinds -> Nat]

VARIABLES
    app,     \* the Application objects in the API server
    cached,  \* the informer's copies
    up,      \* whether the process runs, with leadership
    queue,   \* per controller, the names waiting in the work queue
    timer,   \* per controller and name, the delayed requeue
    settled, \* per name, the last stamp at least 30 seconds old
    worker,  \* per controller, what its worker is doing
    faults   \* how often each kind of fault has happened

managerVars == << app, cached, up, queue, timer, settled, worker, faults >>

-----------------------------------------------------------------------------
NoTimer == -1

Idle == [pc |-> "idle", key |-> NoApp, obj |-> NoApplication]

\* The pc names every place where a reconciler can be interrupted.
ProgramCounters ==
    {"idle", "get", "read", "create", "check", "comment", "post", "patch"}

ManagerTypeOK ==
    /\ app \in [Apps -> Objects]
    /\ cached \in [Apps -> Objects]
    /\ up \in BOOLEAN
    /\ queue \in [Controllers -> SUBSET Apps]
    /\ timer \in [Controllers -> [Apps -> Stamps \cup {NoTimer}]]
    /\ settled \in [Apps -> Stamps]
    /\ worker \in [Controllers -> [pc  : ProgramCounters,
                                   key : Apps \cup {NoApp},
                                   obj : Objects]]
    /\ faults \in [FaultKinds -> Nat]

ManagerInit ==
    /\ \E health \in [Apps -> ReportedHealth], url \in [Apps -> AnnotatedURLs] :
          app = [a \in Apps |-> [NoApplication EXCEPT !.exists = TRUE,
                                                      !.health = health[a],
                                                      !.url = url[a]]]
    /\ cached = app
    /\ up = TRUE
    /\ queue = [c \in Controllers |-> {}]
    /\ timer = [c \in Controllers |-> [a \in Apps |-> NoTimer]]
    /\ settled = [a \in Apps |-> 0]
    /\ worker = [c \in Controllers |-> Idle]
    /\ faults = [k \in FaultKinds |-> 0]

Fault(k) ==
    faults[k] < MaxFaults[k] /\ faults' = [faults EXCEPT ![k] = @ + 1]

-----------------------------------------------------------------------------
(* Argo CD and the users of the API server.                                *)

WatchKeepsUp(a) ==
    \/ (up => cached[a] = app[a]) /\ UNCHANGED faults
    \/ up /\ cached[a] # app[a] /\ Fault("gap")

Write(a, new) ==
    /\ app[a].exists
    /\ WatchKeepsUp(a)
    /\ app' = [app EXCEPT ![a] = new]
    /\ UNCHANGED << cached, up, queue, timer, settled, worker >>

StartSync(a, sync) ==
    /\ ~app[a].deleting
    /\ app[a].phase \notin {"Running", "Terminating"}
    /\ app[a].operationAt < MaxStamp
    /\ Write(a, [app[a] EXCEPT !.phase = "Running",
                               !.operationAt = @ + 1,
                               !.sync = sync])

TerminateSync(a) ==
    /\ app[a].phase = "Running"
    /\ Write(a, [app[a] EXCEPT !.phase = "Terminating"])

FinishSync(a, phase) ==
    /\ app[a].phase \in {"Running", "Terminating"}
    /\ app[a].operationAt < MaxStamp
    /\ Write(a, [app[a] EXCEPT !.phase = phase, !.operationAt = @ + 1])

ReportHealth(a, health) ==
    /\ app[a].health # health
    /\ Write(a, [app[a] EXCEPT !.health = health])

Annotate(a, url) ==
    /\ app[a].url # url
    /\ Write(a, [app[a] EXCEPT !.url = url])

\* Sets the DeletionTimestamp of an object that has a finalizer.
Delete(a) ==
    /\ DeletionAllowed
    /\ ~app[a].deleting
    /\ Write(a, [app[a] EXCEPT !.deleting = TRUE])

\* The last finalizer is gone, or there was none.  The stamp stays: it is
\* the clock's, not the object's.
Remove(a) ==
    /\ DeletionAllowed
    /\ Write(a, [NoApplication EXCEPT !.operationAt = app[a].operationAt])

ArgoCD(a) ==
    \/ \E sync \in SyncOperations : StartSync(a, sync)
    \/ TerminateSync(a)
    \/ \E phase \in FinalPhases : FinishSync(a, phase)
    \/ \E health \in ReportedHealth : ReportHealth(a, health)
    \/ \E url \in AnnotatedURLs : Annotate(a, url)
    \/ Delete(a)
    \/ Remove(a)

-----------------------------------------------------------------------------
(* Informer, queues and time.                                              *)

\* The informer applies an update and hands it to the filters.
Deliver(a) ==
    /\ up
    /\ cached[a] # app[a]
    /\ cached' = [cached EXCEPT ![a] = app[a]]
    /\ queue' = [c \in Controllers |->
                    IF ApplicationChanged(c, cached[a], app[a])
                    THEN queue[c] \cup {a}
                    ELSE queue[c]]
    /\ UNCHANGED << app, up, timer, settled, worker, faults >>

\* Thirty seconds have passed since some start or end of an operation.
Settle(a) ==
    /\ \E s \in (settled[a] + 1) .. app[a].operationAt :
          settled' = [settled EXCEPT ![a] = s]
    /\ UNCHANGED << app, cached, up, queue, timer, worker, faults >>

\* The delayed queue runs 30 seconds after it was set, so what the timer
\* was set after has settled.
TimerFires(c, a) ==
    /\ timer[c][a] # NoTimer
    /\ timer[c][a] <= settled[a]
    /\ timer' = [timer EXCEPT ![c][a] = NoTimer]
    /\ queue' = [queue EXCEPT ![c] = @ \cup {a}]
    /\ UNCHANGED << app, cached, up, settled, worker, faults >>

\* The worker takes a name; an update of it from here on queues it again.
Dequeue(c, a) ==
    /\ worker[c].pc = "idle"
    /\ a \in queue[c]
    /\ worker' = [worker EXCEPT ![c] = [Idle EXCEPT !.pc = "get", !.key = a]]
    /\ queue' = [queue EXCEPT ![c] = @ \ {a}]
    /\ UNCHANGED << app, cached, up, timer, settled, faults >>

-----------------------------------------------------------------------------
(* The process.                                                            *)

\* The process dies, or loses the leader election and exits.
Crash ==
    /\ up
    /\ Fault("crash")
    /\ up' = FALSE
    /\ queue' = [c \in Controllers |-> {}]
    /\ timer' = [c \in Controllers |-> [a \in Apps |-> NoTimer]]
    /\ worker' = [c \in Controllers |-> Idle]
    /\ UNCHANGED << app, cached, settled >>

\* The cache is filled by a list; its Create events queue nothing.
Start ==
    /\ ~up
    /\ up' = TRUE
    /\ cached' = app
    /\ UNCHANGED << app, queue, timer, settled, worker, faults >>

-----------------------------------------------------------------------------
(* How a Reconcile function ends and goes on.                              *)

Goto(c, pc) == worker' = [worker EXCEPT ![c].pc = pc]

\* r.Get(ctx, req.NamespacedName, &app) found obj in the cache.
GotApplication(c, obj, pc) ==
    /\ worker' = [worker EXCEPT ![c] = [pc |-> pc, key |-> @.key, obj |-> obj]]
    /\ UNCHANGED << queue, timer >>

\* return ctrl.Result{}, nil
Return(c) ==
    worker' = [worker EXCEPT ![c] = Idle] /\ UNCHANGED << queue, timer >>

\* return ctrl.Result{RequeueAfter: 30s}, nil.  The delayed queue keeps the
\* earlier of two times for one name.
ReturnRequeueAfter(c) ==
    LET a == worker[c].key IN
    /\ worker' = [worker EXCEPT ![c] = Idle]
    /\ timer' = [timer EXCEPT ![c][a] =
                    IF @ = NoTimer THEN app[a].operationAt ELSE @]
    /\ UNCHANGED queue

\* return ctrl.Result{}, err.  The name comes back after a back-off.
ReturnError(c) ==
    /\ worker' = [worker EXCEPT ![c] = Idle]
    /\ queue' = [queue EXCEPT ![c] = @ \cup {worker[c].key}]
    /\ UNCHANGED timer

=============================================================================
