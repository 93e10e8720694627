--------------------- MODULE ControllerManager_proofs ---------------------
(* Lemmas about the surroundings of the reconcilers, for every component.  *)
EXTENDS ControllerManager, TLAPS

-----------------------------------------------------------------------------
\* The fields an operation writes.
LEMMA OperationType ==
    ASSUME NEW obj \in Objects, NEW phase \in Phases, NEW at \in Stamps,
           NEW sync \in Syncs \cup {NoSync}
    PROVE  /\ [obj EXCEPT !.phase = phase, !.operationAt = at] \in Objects
           /\ [obj EXCEPT !.phase = phase, !.operationAt = at, !.sync = sync]
                \in Objects
BY DEF Objects

\* The object Argo CD writes is an object again, and only the object and,
\* when the watch broke, the count of gaps change.
LEMMA ArgoCDType ==
    ASSUME ManagerTypeOK, NEW a \in Apps, ArgoCD(a)
    PROVE  /\ ManagerTypeOK'
           /\ app'[a] \in Objects
           /\ app' = [app EXCEPT ![a] = app'[a]]
           /\ UNCHANGED << cached, up, queue, timer, settled, worker >>
           /\ faults' \in [FaultKinds -> Nat]
           /\ \A k \in FaultKinds : faults'[k] >= faults[k]
<1>1. ASSUME NEW new \in Objects, Write(a, new)
      PROVE  /\ ManagerTypeOK'
             /\ app'[a] \in Objects
             /\ app' = [app EXCEPT ![a] = app'[a]]
             /\ UNCHANGED << cached, up, queue, timer, settled, worker >>
             /\ faults' \in [FaultKinds -> Nat]
             /\ \A k \in FaultKinds : faults'[k] >= faults[k]
  <2>1. /\ faults' \in [FaultKinds -> Nat]
        /\ \A k \in FaultKinds : faults'[k] >= faults[k]
    BY <1>1 DEF ManagerTypeOK, Write, WatchKeepsUp, Fault, FaultKinds
  <2> QED
    BY <1>1, <2>1 DEF ManagerTypeOK, Write
<1>2. app[a] \in Objects
  BY DEF ManagerTypeOK
<1>3. ASSUME NEW sync \in SyncOperations, StartSync(a, sync)
      PROVE  \E new \in Objects : Write(a, new)
  <2> DEFINE new == [app[a] EXCEPT !.phase = "Running",
                                   !.operationAt = app[a].operationAt + 1,
                                   !.sync = sync]
  <2>1. new \in Objects
    <3>1. app[a].operationAt + 1 \in Stamps
      BY <1>2 DEF Objects, Stamps
    <3>2. "Running" \in Phases
      BY DEF Phases
    <3>3. sync \in Syncs \cup {NoSync}
      BY SyncAssumption
    <3> QED
      BY <1>2, <3>1, <3>2, <3>3, OperationType
  <2>2. Write(a, new)
    BY <1>3 DEF StartSync
  <2> QED
    BY <2>1, <2>2
<1>4. ASSUME TerminateSync(a)
      PROVE  \E new \in Objects : Write(a, new)
  BY <1>2, <1>4 DEF TerminateSync, Objects, Phases
<1>5. ASSUME NEW phase \in FinalPhases, FinishSync(a, phase)
      PROVE  \E new \in Objects : Write(a, new)
  <2> DEFINE new == [app[a] EXCEPT !.phase = phase,
                                   !.operationAt = app[a].operationAt + 1]
  <2>1. new \in Objects
    <3>1. app[a].operationAt + 1 \in Stamps
      BY <1>2 DEF Objects, Stamps
    <3>2. phase \in Phases
      BY EnvironmentAssumption DEF Phases, CompletedPhases
    <3>3. app[a].sync \in Syncs \cup {NoSync}
      BY <1>2 DEF Objects
    <3> QED
      BY <1>2, <3>1, <3>2, <3>3, OperationType
  <2>2. Write(a, new)
    BY <1>5 DEF FinishSync
  <2> QED
    BY <2>1, <2>2
<1>6. ASSUME NEW health \in ReportedHealth, ReportHealth(a, health)
      PROVE  \E new \in Objects : Write(a, new)
  BY <1>2, <1>6, EnvironmentAssumption DEF ReportHealth, Objects
<1>7. ASSUME NEW url \in AnnotatedURLs, Annotate(a, url)
      PROVE  \E new \in Objects : Write(a, new)
  BY <1>2, <1>7, EnvironmentAssumption DEF Annotate, Objects
<1>8. ASSUME Delete(a)
      PROVE  \E new \in Objects : Write(a, new)
  BY <1>2, <1>8 DEF Delete, Objects
<1>9. ASSUME Remove(a)
      PROVE  \E new \in Objects : Write(a, new)
  BY <1>2, <1>9
     DEF Remove, Objects, NoApplication, Phases, HealthStatuses, DeploymentURLs
<1>10. \E new \in Objects : Write(a, new)
  BY <1>3, <1>4, <1>5, <1>6, <1>7, <1>8, <1>9 DEF ArgoCD
<1> QED
  BY <1>1, <1>10

\* The steps of the informer, the clock and the queues keep the types.
LEMMA DeliverType ==
    ASSUME ManagerTypeOK, NEW a \in Apps, Deliver(a)
    PROVE  ManagerTypeOK'
BY DEF ManagerTypeOK, Deliver

LEMMA SettleType ==
    ASSUME ManagerTypeOK, NEW a \in Apps, Settle(a)
    PROVE  ManagerTypeOK'
<1>1. settled' \in [Apps -> Stamps]
  BY DEF ManagerTypeOK, Settle, Objects, Stamps
<1> QED
  BY <1>1 DEF ManagerTypeOK, Settle

\* What is 30 seconds old stays so.
LEMMA SettledGrows ==
    ASSUME ManagerTypeOK, NEW a \in Apps, Settle(a)
    PROVE  \A b \in Apps : settled[b] <= settled'[b]
<1>1. settled \in [Apps -> Nat]
  BY DEF ManagerTypeOK, Stamps
<1>2. PICK s \in (settled[a] + 1) .. app[a].operationAt :
        settled' = [settled EXCEPT ![a] = s]
  BY DEF Settle
<1>3. app[a].operationAt \in Nat
  BY DEF ManagerTypeOK, Objects, Stamps
<1>4. s \in Nat /\ settled[a] <= s
  BY <1>1, <1>3
<1> QED
  BY <1>1, <1>2, <1>4

LEMMA TimerFiresType ==
    ASSUME ManagerTypeOK, NEW c \in Controllers, NEW a \in Apps, TimerFires(c, a)
    PROVE  ManagerTypeOK'
BY DEF ManagerTypeOK, TimerFires

LEMMA NoApplicationType == NoApplication \in Objects
BY DEF NoApplication, Objects, Phases, HealthStatuses, DeploymentURLs, Stamps

LEMMA DequeueType ==
    ASSUME ManagerTypeOK, NEW c \in Controllers, NEW a \in Apps, Dequeue(c, a)
    PROVE  ManagerTypeOK'
<1> DEFINE Worker == [pc  : ProgramCounters,
                      key : Apps \cup {NoApp},
                      obj : Objects]
           taken == [Idle EXCEPT !.pc = "get", !.key = a]
<1>1. taken \in Worker
  BY NoApplicationType DEF Idle, ProgramCounters
<1>2. worker' = [worker EXCEPT ![c] = taken]
  BY DEF Dequeue
<1> HIDE DEF taken
<1>3. worker' \in [Controllers -> Worker]
  BY <1>1, <1>2 DEF ManagerTypeOK
<1> QED
  BY <1>3 DEF ManagerTypeOK, Dequeue

LEMMA CrashType ==
    ASSUME ManagerTypeOK, Crash
    PROVE  ManagerTypeOK'
<1>1. Idle \in [pc : ProgramCounters, key : Apps \cup {NoApp}, obj : Objects]
  BY NoApplicationType DEF Idle, ProgramCounters
<1>2. faults' \in [FaultKinds -> Nat]
  BY DEF ManagerTypeOK, Crash, Fault, FaultKinds
<1> QED
  BY <1>1, <1>2 DEF ManagerTypeOK, Crash

LEMMA StartType ==
    ASSUME ManagerTypeOK, Start
    PROVE  ManagerTypeOK'
BY DEF ManagerTypeOK, Start

\* How a Reconcile function starts and how it ends.
LEMMA GotApplicationType ==
    ASSUME ManagerTypeOK, NEW c \in Controllers, worker[c].key \in Apps,
           NEW obj \in Objects, NEW pc \in ProgramCounters,
           GotApplication(c, obj, pc)
    PROVE  /\ worker' \in [Controllers -> [pc  : ProgramCounters,
                                           key : Apps \cup {NoApp},
                                           obj : Objects]]
           /\ UNCHANGED << queue, timer >>
           /\ queue' \in [Controllers -> SUBSET Apps]
           /\ timer' \in [Controllers -> [Apps -> Stamps \cup {NoTimer}]]
BY DEF ManagerTypeOK, GotApplication

LEMMA ReturnType ==
    ASSUME ManagerTypeOK, NEW c \in Controllers, worker[c].key \in Apps,
           Return(c) \/ ReturnRequeueAfter(c) \/ ReturnError(c)
    PROVE  /\ worker' = [worker EXCEPT ![c] = Idle]
           /\ worker' \in [Controllers -> [pc  : ProgramCounters,
                                           key : Apps \cup {NoApp},
                                           obj : Objects]]
           /\ queue' \in [Controllers -> SUBSET Apps]
           /\ timer' \in [Controllers -> [Apps -> Stamps \cup {NoTimer}]]
<1> DEFINE Worker == [pc  : ProgramCounters,
                      key : Apps \cup {NoApp},
                      obj : Objects]
           a == worker[c].key
<1>1. Idle \in Worker
  BY NoApplicationType DEF Idle, ProgramCounters
<1>2. worker' = [worker EXCEPT ![c] = Idle]
  BY DEF Return, ReturnRequeueAfter, ReturnError
<1>3. worker' \in [Controllers -> Worker]
  BY <1>1, <1>2 DEF ManagerTypeOK
<1>4. queue' \in [Controllers -> SUBSET Apps]
  <2>1. queue' = queue \/ queue' = [queue EXCEPT ![c] = queue[c] \cup {a}]
    BY DEF Return, ReturnRequeueAfter, ReturnError
  <2> QED
    BY <2>1 DEF ManagerTypeOK
<1>5. timer' \in [Controllers -> [Apps -> Stamps \cup {NoTimer}]]
  <2>1. CASE Return(c) \/ ReturnError(c)
    BY <2>1 DEF ManagerTypeOK, Return, ReturnError
  <2>2. CASE ReturnRequeueAfter(c)
    <3>1. app[a].operationAt \in Stamps
      BY DEF ManagerTypeOK, Objects
    <3> DEFINE t == IF timer[c][a] = NoTimer THEN app[a].operationAt
                                             ELSE timer[c][a]
    <3>2. timer' = [timer EXCEPT ![c][a] = t]
      BY <2>2 DEF ReturnRequeueAfter
    <3>3. t \in Stamps \cup {NoTimer}
      BY <3>1 DEF ManagerTypeOK
    <3> HIDE DEF t
    <3> QED
      BY <3>2, <3>3 DEF ManagerTypeOK
  <2> QED
    BY <2>1, <2>2
<1> QED
  BY <1>2, <1>3, <1>4, <1>5

\* The initial state.
LEMMA ManagerInitType ==
    ASSUME ManagerInit
    PROVE  ManagerTypeOK
<1>1. app \in [Apps -> Objects]
  <2>1. PICK health \in [Apps -> ReportedHealth], url \in [Apps -> AnnotatedURLs] :
          app = [a \in Apps |-> [NoApplication EXCEPT !.exists = TRUE,
                                                      !.health = health[a],
                                                      !.url = url[a]]]
    BY DEF ManagerInit
  <2>2. ASSUME NEW a \in Apps
        PROVE  app[a] \in Objects
    BY <2>1, NoApplicationType, EnvironmentAssumption DEF Objects
  <2> QED
    BY <2>1, <2>2
<1>2. Idle \in [pc : ProgramCounters, key : Apps \cup {NoApp}, obj : Objects]
  BY NoApplicationType DEF Idle, ProgramCounters
<1> QED
  BY <1>1, <1>2 DEF ManagerInit, ManagerTypeOK, Stamps

-----------------------------------------------------------------------------
(* The informer is at most one write behind, unless the watch broke.       *)

\* What one write may do to an object that stays.
Follows(new, old) ==
    new.exists =>
        /\ old.exists
        /\ old.deleting => new.deleting
        /\ new.phase = "Succeeded" /\ old.phase = "Succeeded" =>
              new.sync = old.sync /\ new.operationAt = old.operationAt

CacheFollows == \A a \in Apps : Follows(app[a], cached[a])

\* An operation that has ended has a time.
Stamped(obj) == obj.phase \in CompletedPhases => obj.operationAt > 0

\* Argo CD writes one object, once its last update has been delivered.
LEMMA ArgoCDFollows ==
    ASSUME ManagerTypeOK, NEW a \in Apps, ArgoCD(a)
    PROVE  /\ app[a].exists
           /\ Follows(app'[a], app[a])
           /\ Stamped(app[a]) => Stamped(app'[a])
           /\ up /\ faults'["gap"] <= faults["gap"] => cached[a] = app[a]
<1> DEFINE Good(new) == Follows(new, app[a]) /\ (Stamped(app[a]) => Stamped(new))
<1>1. app[a] \in Objects
  BY DEF ManagerTypeOK
<1>2. ASSUME NEW new, Write(a, new), Good(new)
      PROVE  /\ app[a].exists /\ app'[a] = new
             /\ up /\ faults'["gap"] <= faults["gap"] => cached[a] = app[a]
  <2>1. CASE Fault("gap")
    BY <1>2, <2>1 DEF Write, Fault, ManagerTypeOK, FaultKinds
  <2>2. CASE up => cached[a] = app[a]
    BY <1>2, <2>2 DEF Write, ManagerTypeOK
  <2> QED
    BY <1>2, <2>1, <2>2 DEF Write, WatchKeepsUp, ManagerTypeOK
<1>3. ASSUME NEW sync \in SyncOperations, StartSync(a, sync)
      PROVE  \E new : Write(a, new) /\ Good(new)
  <2> DEFINE new == [app[a] EXCEPT !.phase = "Running",
                                   !.operationAt = app[a].operationAt + 1,
                                   !.sync = sync]
  <2>1. Write(a, new)
    BY <1>3 DEF StartSync
  <2>2. Good(new)
    BY <1>1, <1>3 DEF StartSync, Follows, Stamped, Objects, CompletedPhases
  <2> QED
    BY <2>1, <2>2
<1>4. ASSUME NEW phase \in FinalPhases, FinishSync(a, phase)
      PROVE  \E new : Write(a, new) /\ Good(new)
  <2> DEFINE new == [app[a] EXCEPT !.phase = phase,
                                   !.operationAt = app[a].operationAt + 1]
  <2>1. Write(a, new)
    BY <1>4 DEF FinishSync
  <2>2. Good(new)
    BY <1>1, <1>4 DEF FinishSync, Follows, Stamped, Objects, Stamps
  <2> QED
    BY <2>1, <2>2
<1>5. ASSUME TerminateSync(a)
      PROVE  \E new : Write(a, new) /\ Good(new)
  BY <1>1, <1>5 DEF TerminateSync, Follows, Stamped, Objects, CompletedPhases
<1>6. ASSUME NEW health \in ReportedHealth, ReportHealth(a, health)
      PROVE  \E new : Write(a, new) /\ Good(new)
  BY <1>1, <1>6 DEF ReportHealth, Follows, Stamped, Objects
<1>7. ASSUME NEW url \in AnnotatedURLs, Annotate(a, url)
      PROVE  \E new : Write(a, new) /\ Good(new)
  BY <1>1, <1>7 DEF Annotate, Follows, Stamped, Objects
<1>8. ASSUME Delete(a)
      PROVE  \E new : Write(a, new) /\ Good(new)
  BY <1>1, <1>8 DEF Delete, Follows, Stamped, Objects
<1>9. ASSUME Remove(a)
      PROVE  \E new : Write(a, new) /\ Good(new)
  <2> DEFINE new == [NoApplication EXCEPT !.operationAt = app[a].operationAt]
  <2>1. Write(a, new)
    BY <1>9 DEF Remove
  <2>2. ~new.exists /\ new.phase = ""
    BY DEF NoApplication
  <2>3. Good(new)
    BY <2>2 DEF Follows, Stamped, CompletedPhases
  <2> QED
    BY <2>1, <2>3
<1>10. \E new : Write(a, new) /\ Good(new)
  BY <1>3, <1>4, <1>5, <1>6, <1>7, <1>8, <1>9 DEF ArgoCD
<1> QED
  BY <1>2, <1>10

\* While the watch does not break the cache stays at most one write behind.
LEMMA CacheFollowsArgoCD ==
    ASSUME ManagerTypeOK, NEW a \in Apps, ArgoCD(a), up, CacheFollows,
           faults'["gap"] <= faults["gap"]
    PROVE  CacheFollows'
<1>1. /\ cached[a] = app[a]
      /\ Follows(app'[a], cached[a])
      /\ app' = [app EXCEPT ![a] = app'[a]]
      /\ cached' = cached
  BY ArgoCDFollows, ArgoCDType
<1>2. ASSUME NEW b \in Apps
      PROVE  Follows(app'[b], cached'[b])
  BY <1>1 DEF CacheFollows, ManagerTypeOK
<1> QED
  BY <1>2 DEF CacheFollows, Follows

\* A delivery makes the two equal.
LEMMA CacheFollowsDeliver ==
    ASSUME ManagerTypeOK, NEW a \in Apps, Deliver(a), CacheFollows
    PROVE  CacheFollows'
BY DEF ManagerTypeOK, Deliver, CacheFollows, Follows

\* So they are at the start.
LEMMA CacheFollowsInit ==
    ASSUME ManagerInit
    PROVE  CacheFollows /\ up
BY DEF ManagerInit, CacheFollows, Follows

\* What the informer holds is older than the object, whatever fails: objects
\* do not come back, and a deletion is not taken back.
Older(a) ==
    app[a].exists => cached[a].exists /\ (cached[a].deleting => app[a].deleting)

CacheIsOlder == \A a \in Apps : Older(a)

LEMMA CacheIsOlderInit ==
    ASSUME ManagerInit
    PROVE  CacheIsOlder
BY DEF ManagerInit, CacheIsOlder, Older

LEMMA CacheIsOlderStep ==
    ASSUME ManagerTypeOK, CacheIsOlder,
           \/ \E a \in Apps : ArgoCD(a) \/ Deliver(a)
           \/ Start
           \/ UNCHANGED << app, cached >>
    PROVE  CacheIsOlder'
<1>1. ASSUME NEW a \in Apps, ArgoCD(a)
      PROVE  CacheIsOlder'
  <2>1. /\ Follows(app'[a], app[a]) /\ app[a].exists
        /\ app' = [app EXCEPT ![a] = app'[a]]
        /\ cached' = cached
    BY <1>1, ArgoCDFollows, ArgoCDType
  <2>2. ASSUME NEW b \in Apps
        PROVE  app'[b].exists => /\ cached[b].exists
                                 /\ cached[b].deleting => app'[b].deleting
    BY <2>1 DEF CacheIsOlder, Older, Follows, ManagerTypeOK
  <2> QED
    BY <2>1, <2>2 DEF CacheIsOlder, Older
<1>2. ASSUME NEW a \in Apps, Deliver(a)
      PROVE  CacheIsOlder'
  BY <1>2 DEF Deliver, CacheIsOlder, Older, ManagerTypeOK
<1>3. CASE Start \/ UNCHANGED << app, cached >>
  BY <1>3 DEF Start, CacheIsOlder, Older
<1> QED
  BY <1>1, <1>2, <1>3

=============================================================================
