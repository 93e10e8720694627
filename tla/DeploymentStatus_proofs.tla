---------------------- MODULE DeploymentStatus_proofs ----------------------
(* Theorems about DeploymentStatus: its types, what the latest status of a *)
(* deployment says, when a success is left and an inactive one is not,     *)
(* that the board is kept, and that no status gets lost that is owed.      *)
EXTENDS DeploymentStatus, ControllerManager_proofs

-----------------------------------------------------------------------------
(* What the operators return.                                              *)

Workers == [pc : ProgramCounters, key : Apps \cup {NoApp}, obj : Objects]

WorkerTypeOK ==
    /\ worker \in [Controllers -> Workers]
    /\ queue \in [Controllers -> SUBSET Apps]
    /\ timer \in [Controllers -> [Apps -> Stamps \cup {NoTimer}]]

\* The three names differ.
LEMMA ControllersDiffer ==
    /\ PhaseDeployment # HealthDeployment
    /\ PhaseDeployment # DeletionDeployment
    /\ HealthDeployment # DeletionDeployment
BY DEF PhaseDeployment, HealthDeployment, DeletionDeployment

\* The facts of an object are typed.
LEMMA FactsType ==
    ASSUME NEW obj \in Objects
    PROVE  Facts(obj) \subseteq [deployment : Deployments, state : DeploymentStates]
<1>1. StatesOf(obj) \subseteq DeploymentStates
  BY DEF StatesOf, DeploymentStates
<1> QED
  BY <1>1 DEF Facts

\* A status is one of the states.
LEMMA DeploymentStateType ==
    ASSUME NEW c \in Controllers, NEW obj \in Objects
    PROVE  DeploymentState(c, obj) \in DeploymentStates
<1>1. c \in {PhaseDeployment, HealthDeployment, DeletionDeployment}
  BY DeploymentControllersAssumption
<1>2. /\ PhaseDeploymentState(obj) \in DeploymentStates
      /\ HealthDeploymentState(obj) \in DeploymentStates
      /\ DeletionDeploymentState(obj) \in DeploymentStates
  BY DEF PhaseDeploymentState, HealthDeploymentState, DeletionDeploymentState,
         DeploymentStates
<1> QED
  BY <1>1, <1>2, ControllersDiffer DEF DeploymentState

-----------------------------------------------------------------------------
(* How the steps of a reconcile move the workers.                          *)

\* A worker that is not idle holds the name of an object.
LEMMA WorkerHoldsName ==
    ASSUME TypeOK, NEW c \in Controllers
    PROVE  /\ worker[c] \in Workers
           /\ worker[c].obj \in Objects
           /\ worker[c].pc # "idle" => worker[c].key \in Apps
BY DEF TypeOK, ManagerTypeOK, RunShape, Workers

\* The other workers go on as before.
LEMMA OtherWorkers ==
    ASSUME TypeOK, NEW c \in Controllers, NEW w, worker' = [worker EXCEPT ![c] = w]
    PROVE  worker'[c] = w /\ \A b \in Controllers \ {c} : worker'[b] = worker[b]
BY DEF TypeOK, ManagerTypeOK

\* A reconcile that ends leaves an idle worker.
LEMMA EndsIdle ==
    ASSUME TypeOK, NEW c \in Controllers, worker[c].pc # "idle",
           Return(c) \/ ReturnRequeueAfter(c),
           UNCHANGED settled
    PROVE  /\ WorkerTypeOK'
           /\ worker'[c] = Idle
           /\ \A b \in Controllers \ {c} : worker'[b] = worker[b]
           /\ \A b \in Controllers : RunShape(b)'
<1>1. WorkerTypeOK' /\ worker' = [worker EXCEPT ![c] = Idle]
  BY WorkerHoldsName, ReturnType DEF TypeOK, WorkerTypeOK, Workers
<1>2. worker'[c] = Idle /\ \A b \in Controllers \ {c} : worker'[b] = worker[b]
  BY <1>1, OtherWorkers
<1>3. RunShape(c)'
  BY <1>2 DEF RunShape, Idle
<1>4. \A b \in Controllers \ {c} : RunShape(b)'
  BY <1>2 DEF TypeOK, RunShape
<1> QED
  BY <1>1, <1>2, <1>3, <1>4

\* The decision after the check: the reconcile ends, or it goes on to write
\* a status of an object that may have it.
LEMMA AfterCheckDecides ==
    ASSUME TypeOK, NEW c \in Controllers, worker[c].pc = "check",
           NEW answer, AfterCheck(c, answer), UNCHANGED settled
    PROVE  /\ WorkerTypeOK'
           /\ \A b \in Controllers : RunShape(b)'
           /\ \A b \in Controllers \ {c} : worker'[b] = worker[b]
           /\ \/ worker'[c] = Idle
              \/ /\ answer = "no"
                 /\ worker'[c] = [worker[c] EXCEPT !.pc = "post"]
<1>1. CASE Return(c) \/ ReturnRequeueAfter(c)
  BY <1>1, EndsIdle
<1>2. CASE /\ answer = "no"
           /\ Goto(c, "post")
           /\ UNCHANGED << queue, timer >>
           /\ c = HealthDeployment =>
                 /\ GetSyncOperationPhase(worker[c].obj) = "Succeeded"
                 /\ ~JustFinished(worker[c].key, worker[c].obj)
  <2>1. worker[c] \in Workers /\ worker[c].key \in Apps
    BY WorkerHoldsName
  <2>2. worker' = [worker EXCEPT ![c] = [worker[c] EXCEPT !.pc = "post"]]
    BY <1>2 DEF Goto
  <2>3. /\ worker'[c] = [worker[c] EXCEPT !.pc = "post"]
        /\ \A b \in Controllers \ {c} : worker'[b] = worker[b]
    BY <2>2, OtherWorkers
  <2>4. [worker[c] EXCEPT !.pc = "post"] \in Workers
    BY <2>1 DEF Workers, ProgramCounters
  <2>5. WorkerTypeOK'
    BY <1>2, <2>2, <2>4 DEF TypeOK, ManagerTypeOK, WorkerTypeOK, Workers
  <2>6. /\ worker'[c].pc = "post" /\ worker'[c].key = worker[c].key
        /\ worker'[c].obj = worker[c].obj
    BY <2>1, <2>3 DEF Workers
  <2>7. c = HealthDeployment =>
           /\ worker[c].obj.phase = "Succeeded"
           /\ worker[c].obj.operationAt <= settled[worker[c].key]
    <3> SUFFICES ASSUME c = HealthDeployment
                 PROVE  /\ worker[c].obj.phase = "Succeeded"
                        /\ worker[c].obj.operationAt <= settled[worker[c].key]
      OBVIOUS
    <3>1. worker[c].obj.operationAt \in Nat /\ settled[worker[c].key] \in Nat
      BY <2>1 DEF TypeOK, ManagerTypeOK, Workers, Objects, Stamps
    <3>2. worker[c].obj.phase = "Succeeded"
      BY <1>2 DEF GetSyncOperationPhase
    <3> QED
      BY <1>2, <3>1, <3>2
         DEF JustFinished, GetSyncOperationFinishedAt, CompletedPhases
  <2>8. RunShape(c)'
    BY <2>1, <2>6, <2>7, NoAppAssumption DEF TypeOK, RunShape
  <2>9. \A b \in Controllers \ {c} : RunShape(b)'
    BY <2>3 DEF TypeOK, RunShape
  <2> QED
    BY <1>2, <2>3, <2>5, <2>8, <2>9
<1> QED
  BY <1>1, <1>2, ControllersDiffer DEF AfterCheck, HealthAfterCheck

\* A worker that takes a name is about to get its object.
LEMMA Takes ==
    ASSUME TypeOK, NEW c \in Controllers, NEW a \in Apps, Take(c, a)
    PROVE  /\ worker'[c] = [Idle EXCEPT !.pc = "get", !.key = a]
           /\ \A b \in Controllers \ {c} : worker'[b] = worker[b]
           /\ \A b \in Controllers : worker'[b] = worker[b] \/ worker'[b].pc = "get"
<1> DEFINE taken == [Idle EXCEPT !.pc = "get", !.key = a]
<1>1. worker' = [worker EXCEPT ![c] = taken]
  BY DEF Take, Dequeue
<1>2. taken.pc = "get"
  BY DEF Idle
<1> HIDE DEF taken
<1>3. worker'[c] = taken /\ \A b \in Controllers \ {c} : worker'[b] = worker[b]
  BY <1>1, OtherWorkers
<1> QED
  BY <1>2, <1>3 DEF taken

-----------------------------------------------------------------------------
(* Type correctness.                                                       *)

DataTypeOK ==
    /\ latest \in [Deployments -> DeploymentStates \cup {NoDeployment}]
    /\ expired \in [Apps -> Stamps]
    /\ facts \subseteq [deployment : Deployments, state : DeploymentStates]

\* What a reconcile step must show, since it writes neither the objects nor
\* their cache.
LEMMA ReconcileStepType ==
    ASSUME TypeOK, WorkerTypeOK', DataTypeOK',
           \A c \in Controllers : RunShape(c)',
           UNCHANGED << app, cached, up, settled >>,
           UNCHANGED faults \/ Fault("github")
    PROVE  TypeOK'
<1>1. faults' \in [FaultKinds -> Nat]
  BY DEF TypeOK, ManagerTypeOK, Fault, FaultKinds
<1> QED
  BY <1>1 DEF TypeOK, ManagerTypeOK, WorkerTypeOK, DataTypeOK, Workers

LEMMA GetApplicationType ==
    ASSUME TypeOK, NEW c \in Controllers, GetApplication(c)
    PROVE  TypeOK'
<1> DEFINE obj == cached[worker[c].key]
           pc == IF c = DeletionDeployment THEN "post" ELSE "check"
           got == [pc |-> pc, key |-> worker[c].key, obj |-> obj]
<1>1. DataTypeOK' /\ UNCHANGED << app, cached, up, settled, faults >>
  BY DEF GetApplication, TypeOK, DataTypeOK
<1>2. worker[c].key \in Apps /\ obj \in Objects /\ worker[c].pc = "get"
  BY WorkerHoldsName DEF GetApplication, TypeOK, ManagerTypeOK
<1>3. CASE Return(c)
  BY <1>1, <1>2, <1>3, EndsIdle, ReconcileStepType
<1>4. CASE obj.exists /\ MayGoOn(c, obj) /\ GotApplication(c, obj, pc)
  <2>1. WorkerTypeOK'
    BY <1>2, <1>4, GotApplicationType
       DEF TypeOK, WorkerTypeOK, Workers, ProgramCounters
  <2>2. worker' = [worker EXCEPT ![c] = got]
    BY <1>4 DEF GotApplication
  <2> HIDE DEF got
  <2>3. worker'[c] = got /\ \A b \in Controllers \ {c} : worker'[b] = worker[b]
    BY <2>2, OtherWorkers
  <2>4. obj.url # NoURL /\ (c # DeletionDeployment => ~obj.deleting)
    <3>1. CASE c = PhaseDeployment /\ PhaseMayGoOn(obj)
      BY <3>1, Zenon DEF PhaseMayGoOn, GetDeploymentURL
    <3>2. CASE c = HealthDeployment /\ HealthMayGoOn(obj)
      BY <3>2, Zenon DEF HealthMayGoOn, GetDeploymentURL
    <3>3. CASE c = DeletionDeployment /\ DeletionMayGoOn(obj)
      BY <3>3, Zenon DEF DeletionMayGoOn, GetDeploymentURL
    <3> QED
      BY <1>4, <3>1, <3>2, <3>3 DEF MayGoOn
  <2> HIDE DEF obj
  <2>5. RunShape(c)'
    BY <1>2, <1>4, <2>3, <2>4, ControllersDiffer, NoAppAssumption
       DEF RunShape, got
  <2>6. \A b \in Controllers \ {c} : RunShape(b)'
    BY <1>1, <2>3 DEF TypeOK, RunShape
  <2> QED
    BY <1>1, <2>1, <2>5, <2>6, ReconcileStepType
<1> QED
  BY <1>3, <1>4 DEF GetApplication

LEMMA CheckType ==
    ASSUME TypeOK, NEW c \in Controllers, Check(c)
    PROVE  TypeOK'
<1>1. /\ worker[c].pc = "check"
      /\ UNCHANGED << app, cached, up, settled >>
      /\ DataTypeOK'
      /\ UNCHANGED faults \/ Fault("github")
  BY DEF Check, TypeOK, DataTypeOK
<1>2. PICK answer \in {"no", "yes", "not found"} : AfterCheck(c, answer)
  BY DEF Check, CheckIfDeploymentIsAlreadyHealthy
<1>3. WorkerTypeOK' /\ \A b \in Controllers : RunShape(b)'
  BY <1>1, <1>2, AfterCheckDecides
<1> QED
  BY <1>1, <1>3, ReconcileStepType

\* What a post may write.
LEMMA PostWrites ==
    ASSUME TypeOK, NEW c \in Controllers, Post(c)
    PROVE  /\ latest' \in [Deployments -> DeploymentStates \cup {NoDeployment}]
           /\ \/ UNCHANGED latest
              \/ LET obj == worker[c].obj IN
                 /\ HasStatus(c, obj) /\ obj.url \in Deployments
                 /\ latest'[obj.url] = DeploymentState(c, obj)
                 /\ \A d \in Deployments \ {obj.url} : latest'[d] = latest[d]
<1> DEFINE obj == worker[c].obj
<1>1. latest \in [Deployments -> DeploymentStates \cup {NoDeployment}]
  BY DEF TypeOK
<1>2. CASE UNCHANGED latest
  BY <1>1, <1>2
<1>3. CASE /\ HasStatus(c, obj)
           /\ latest' = [latest EXCEPT ![obj.url] = DeploymentState(c, obj)]
  <2>1. obj.url \in Deployments
    BY <1>3 DEF HasStatus, ParsesDeploymentURL
  <2>2. DeploymentState(c, obj) \in DeploymentStates
    BY WorkerHoldsName, DeploymentStateType
  <2> QED
    BY <1>1, <1>3, <2>1, <2>2
<1> QED
  BY <1>2, <1>3 DEF Post

LEMMA PostType ==
    ASSUME TypeOK, NEW c \in Controllers, Post(c)
    PROVE  TypeOK'
<1>1. /\ worker[c].pc = "post" /\ Return(c)
      /\ UNCHANGED << app, cached, up, settled, expired, facts >>
      /\ UNCHANGED faults \/ Fault("github")
  BY DEF Post
<1>2. DataTypeOK'
  BY <1>1, PostWrites DEF TypeOK, DataTypeOK
<1>3. WorkerTypeOK' /\ \A b \in Controllers : RunShape(b)'
  BY <1>1, EndsIdle
<1> QED
  BY <1>1, <1>2, <1>3, ReconcileStepType

LEMMA EnvironmentType ==
    ASSUME TypeOK, NEW a \in Apps, Environment(a)
    PROVE  TypeOK'
<1>1. ManagerTypeOK' /\ app'[a] \in Objects /\ UNCHANGED << worker, settled >>
  BY ArgoCDType DEF Environment, TypeOK
<1>2. facts' \subseteq [deployment : Deployments, state : DeploymentStates]
  BY <1>1, FactsType DEF Environment, TypeOK
<1> QED
  BY <1>1, <1>2 DEF Environment, TypeOK, RunShape

LEMMA WaitType ==
    ASSUME TypeOK, NEW a \in Apps, Wait(a)
    PROVE  TypeOK'
<1>1. ManagerTypeOK' /\ UNCHANGED << worker, latest, expired, facts >>
  BY SettleType DEF Wait, Settle, TypeOK
<1>2. settled \in [Apps -> Nat]
  BY DEF TypeOK, ManagerTypeOK, Stamps
<1>3. settled' \in [Apps -> Nat]
  BY <1>1 DEF ManagerTypeOK, Stamps
<1>4. \A b \in Apps : settled[b] <= settled'[b]
  BY SettledGrows DEF Wait, TypeOK
<1>5. ASSUME NEW c \in Controllers
      PROVE  RunShape(c)'
  <2>1. worker[c] \in Workers
    BY WorkerHoldsName
  <2>2. worker[c].pc = "post" =>
           (worker[c].obj.operationAt <= settled[worker[c].key]
             => worker[c].obj.operationAt <= settled'[worker[c].key])
    <3> SUFFICES ASSUME worker[c].pc = "post"
                 PROVE  worker[c].obj.operationAt <= settled[worker[c].key]
                          => worker[c].obj.operationAt <= settled'[worker[c].key]
      OBVIOUS
    <3>1. worker[c].key \in Apps
      BY WorkerHoldsName
    <3>2. worker[c].obj.operationAt \in Nat
      BY <2>1 DEF Workers, Objects, Stamps
    <3> QED
      BY <1>2, <1>3, <1>4, <3>1, <3>2
  <2> QED
    BY <1>1, <2>2 DEF TypeOK, RunShape
<1> QED
  BY <1>1, <1>5 DEF TypeOK

LEMMA ExpireType ==
    ASSUME TypeOK, NEW a \in Apps, Expire(a)
    PROVE  TypeOK'
<1>1. expired' \in [Apps -> Stamps]
  BY DEF TypeOK, ManagerTypeOK, Expire, Stamps
<1> QED
  BY <1>1 DEF Expire, TypeOK, ManagerTypeOK, RunShape, managerVars

LEMMA CreateDeploymentType ==
    ASSUME TypeOK, NEW d \in Deployments, CreateDeployment(d)
    PROVE  TypeOK'
<1>1. latest' \in [Deployments -> DeploymentStates \cup {NoDeployment}]
  BY DEF CreateDeployment, TypeOK, DeploymentStates
<1> QED
  BY <1>1 DEF CreateDeployment, TypeOK, ManagerTypeOK, RunShape, managerVars

LEMMA TakeType ==
    ASSUME TypeOK, NEW c \in Controllers, NEW a \in Apps, Take(c, a)
    PROVE  TypeOK'
<1>1. ManagerTypeOK' /\ UNCHANGED << settled, latest, expired, facts >>
  BY DequeueType DEF Take, Dequeue, TypeOK
<1>2. /\ worker'[c] = [Idle EXCEPT !.pc = "get", !.key = a]
      /\ \A b \in Controllers \ {c} : worker'[b] = worker[b]
  BY Takes
<1>3. RunShape(c)'
  BY <1>2, NoAppAssumption DEF RunShape, Idle
<1>4. \A b \in Controllers \ {c} : RunShape(b)'
  BY <1>1, <1>2 DEF TypeOK, RunShape
<1> QED
  BY <1>1, <1>3, <1>4 DEF TypeOK

LEMMA StopType ==
    ASSUME TypeOK, Stop
    PROVE  TypeOK'
<1>1. ManagerTypeOK'
  BY CrashType DEF Stop, TypeOK
<1>2. \A c \in Controllers : worker'[c] = Idle
  BY DEF Stop, Crash
<1>3. \A c \in Controllers : RunShape(c)'
  BY <1>2 DEF RunShape, Idle
<1> QED
  BY <1>1, <1>3 DEF Stop, TypeOK

\* The steps of the informer, the delayed queue and the start.
LEMMA ManagerStepType ==
    ASSUME TypeOK,
           \/ Restart
           \/ \E a \in Apps : Watch(a) \/ \E c \in Controllers : Requeue(c, a)
           \/ UNCHANGED vars
    PROVE  TypeOK'
<1>1. ManagerTypeOK' /\ UNCHANGED << worker, settled, latest, expired, facts >>
  <2>1. CASE Restart
    BY <2>1, StartType DEF Restart, Start, TypeOK
  <2>2. ASSUME NEW a \in Apps, Watch(a)
        PROVE  ManagerTypeOK' /\ UNCHANGED << worker, settled, latest, expired, facts >>
    BY <2>2, DeliverType DEF Watch, Deliver, TypeOK
  <2>3. ASSUME NEW a \in Apps, NEW c \in Controllers, Requeue(c, a)
        PROVE  ManagerTypeOK' /\ UNCHANGED << worker, settled, latest, expired, facts >>
    BY <2>3, TimerFiresType DEF Requeue, TimerFires, TypeOK
  <2>4. CASE UNCHANGED vars
    BY <2>4 DEF vars, managerVars, TypeOK, ManagerTypeOK
  <2> QED
    BY <2>1, <2>2, <2>3, <2>4
<1> QED
  BY <1>1 DEF TypeOK, RunShape

LEMMA InitTypeOK ==
    ASSUME Init
    PROVE  TypeOK
<1>1. ManagerTypeOK
  BY ManagerInitType DEF Init
<1>2. \A c \in Controllers : RunShape(c)
  BY DEF Init, ManagerInit, RunShape, Idle
<1>3. facts \subseteq [deployment : Deployments, state : DeploymentStates]
  BY <1>1, FactsType DEF Init, ManagerTypeOK
<1>4. /\ latest \in [Deployments -> DeploymentStates \cup {NoDeployment}]
      /\ expired \in [Apps -> Stamps]
  BY DEF Init, DeploymentStates, NoState, Stamps
<1> QED
  BY <1>1, <1>2, <1>3, <1>4 DEF TypeOK

LEMMA NextTypeOK ==
    ASSUME TypeOK, [Next]_vars
    PROVE  TypeOK'
<1>1. ASSUME NEW c \in Controllers, Reconcile(c)
      PROVE  TypeOK'
  BY <1>1, GetApplicationType, CheckType, PostType DEF Reconcile
<1> QED
  BY <1>1, EnvironmentType, WaitType, ExpireType, CreateDeploymentType,
     TakeType, StopType, ManagerStepType DEF Next

\* Every state of the program is well typed and every run of the three
\* reconcilers has the shape their code gives it.
THEOREM TypeCorrect == Spec => []TypeOK
<1>1. Init => TypeOK
  BY InitTypeOK
<1>2. TypeOK /\ [Next]_vars => TypeOK'
  BY NextTypeOK
<1> QED
  BY <1>1, <1>2, PTL DEF Spec

-----------------------------------------------------------------------------
(* What the statuses say.                                                  *)

\* Everything an object, its cached copy or a worker's copy stands for was a
\* fact when Argo CD or a user wrote it.
FactsKnown ==
    /\ \A a \in Apps : Facts(app[a]) \subseteq facts
    /\ \A a \in Apps : Facts(cached[a]) \subseteq facts
    /\ \A c \in Controllers :
          worker[c].pc \in {"check", "post"} => Facts(worker[c].obj) \subseteq facts

\* The deletion controller is about to report a deletion.
DeletionSeen ==
    \A c \in Controllers :
        c = DeletionDeployment /\ worker[c].pc = "post"
            => isApplicationDeleting(worker[c].obj)

TruthInv ==
    /\ TypeOK
    /\ StatusesTruthful
    /\ FactsKnown
    /\ DeletionSeen

\* What a controller writes of an object that passed its checks is a fact.
LEMMA StateIsFact ==
    ASSUME NEW c \in Controllers, NEW obj, obj.exists, HasStatus(c, obj),
           c = HealthDeployment => obj.phase = "Succeeded",
           c = DeletionDeployment => isApplicationDeleting(obj)
    PROVE  [deployment |-> obj.url, state |-> DeploymentState(c, obj)] \in Facts(obj)
<1>1. DeploymentState(c, obj) \in StatesOf(obj)
  <2>1. CASE c = PhaseDeployment
    <3>1. DeploymentState(c, obj) = PhaseDeploymentState(obj)
      BY <2>1, ControllersDiffer DEF DeploymentState
    <3>2. obj.phase \in {"Running", "Succeeded", "Failed", "Error"}
      BY <3>1 DEF HasStatus, PhaseDeploymentState
    <3>3. CASE obj.phase = "Running"
      BY <3>1, <3>3 DEF PhaseDeploymentState, StatesOf
    <3>4. CASE obj.phase = "Succeeded"
      BY <3>1, <3>4 DEF PhaseDeploymentState, StatesOf
    <3>5. CASE obj.phase \in {"Failed", "Error"}
      BY <3>1, <3>5 DEF PhaseDeploymentState, StatesOf
    <3> QED
      BY <3>2, <3>3, <3>4, <3>5
  <2>2. CASE c = HealthDeployment
    <3>1. DeploymentState(c, obj) = HealthDeploymentState(obj)
      BY <2>2, ControllersDiffer DEF DeploymentState
    <3> QED
      BY <2>2, <3>1 DEF HasStatus, HealthDeploymentState, StatesOf
  <2>3. CASE c = DeletionDeployment
    <3>1. DeploymentState(c, obj) = "inactive"
      BY <2>3, ControllersDiffer DEF DeploymentState, DeletionDeploymentState
    <3> QED
      BY <2>3, <3>1 DEF isApplicationDeleting, StatesOf
  <2> QED
    BY <2>1, <2>2, <2>3, DeploymentControllersAssumption
<1> QED
  BY <1>1 DEF Facts, HasStatus, ParsesDeploymentURL

\* What a controller is about to write is a fact of its object.
LEMMA StatusIsFact ==
    ASSUME TypeOK, DeletionSeen, NEW c \in Controllers, worker[c].pc = "post",
           HasStatus(c, worker[c].obj)
    PROVE  [deployment |-> worker[c].obj.url,
            state      |-> DeploymentState(c, worker[c].obj)] \in Facts(worker[c].obj)
<1>1. RunShape(c)
  BY DEF TypeOK
<1> QED
  BY <1>1, StateIsFact DEF RunShape, DeletionSeen

\* A step that adds facts and leaves the statuses keeps what they say.
LEMMA TruthGrows ==
    ASSUME StatusesTruthful, facts \subseteq facts', UNCHANGED latest
    PROVE  StatusesTruthful'
BY DEF StatusesTruthful

\* A step that writes no fact and no status, and shows no worker a new
\* object.
LEMMA TruthFrame ==
    ASSUME TruthInv, TypeOK', UNCHANGED << facts, latest >>,
           \A a \in Apps : app'[a] \in {app[a], cached[a]},
           \A a \in Apps : cached'[a] \in {app[a], cached[a]},
           \A c \in Controllers :
              \/ worker'[c] = worker[c]
              \/ worker'[c].pc \in {"idle", "get"}
    PROVE  TruthInv'
<1>1. StatusesTruthful'
  BY TruthGrows DEF TruthInv
<1>2. FactsKnown'
  BY DEF TruthInv, FactsKnown
<1>3. DeletionSeen'
  BY DEF TruthInv, DeletionSeen
<1> QED
  BY <1>1, <1>2, <1>3 DEF TruthInv

LEMMA TruthGetApplication ==
    ASSUME TruthInv, NEW c \in Controllers, GetApplication(c)
    PROVE  TruthInv'
<1> DEFINE obj == cached[worker[c].key]
           pc == IF c = DeletionDeployment THEN "post" ELSE "check"
           got == [pc |-> pc, key |-> worker[c].key, obj |-> obj]
<1>1. TypeOK /\ TypeOK' /\ UNCHANGED << app, cached, latest, facts >>
  BY GetApplicationType DEF TruthInv, GetApplication
<1>2. worker[c].key \in Apps
  BY <1>1, WorkerHoldsName DEF GetApplication
<1>3. CASE Return(c)
  <2>1. \A b \in Controllers : worker'[b] = worker[b] \/ worker'[b].pc = "idle"
    BY <1>1, <1>3, OtherWorkers DEF Return, Idle
  <2> QED
    BY <1>1, <2>1, TruthFrame
<1>4. CASE obj.exists /\ MayGoOn(c, obj) /\ GotApplication(c, obj, pc)
  <2>1. worker' = [worker EXCEPT ![c] = got]
    BY <1>4 DEF GotApplication
  <2> HIDE DEF got
  <2>2. worker'[c] = got /\ \A b \in Controllers \ {c} : worker'[b] = worker[b]
    BY <1>1, <2>1, OtherWorkers
  <2>3. FactsKnown'
    BY <1>1, <1>2, <2>2 DEF TruthInv, FactsKnown, got
  <2>4. c = DeletionDeployment => isApplicationDeleting(obj)
    BY <1>4, ControllersDiffer DEF MayGoOn, DeletionMayGoOn
  <2>5. DeletionSeen'
    BY <2>2, <2>4 DEF TruthInv, DeletionSeen, got
  <2> QED
    BY <1>1, <2>3, <2>5, TruthGrows DEF TruthInv
<1> QED
  BY <1>3, <1>4 DEF GetApplication

LEMMA TruthCheck ==
    ASSUME TruthInv, NEW c \in Controllers, Check(c)
    PROVE  TruthInv'
<1>1. TypeOK /\ TypeOK' /\ UNCHANGED << app, cached, latest, facts >>
  BY CheckType DEF TruthInv, Check
<1>2. /\ \A b \in Controllers \ {c} : worker'[b] = worker[b]
      /\ \/ worker'[c] = Idle
         \/ worker'[c] = [worker[c] EXCEPT !.pc = "post"]
  BY <1>1, AfterCheckDecides DEF Check
<1>3. /\ worker[c] \in Workers /\ worker[c].pc = "check"
      /\ c # DeletionDeployment
  BY <1>1, WorkerHoldsName DEF Check, TypeOK, RunShape
<1>4. worker'[c].pc = "idle" \/ worker'[c].obj = worker[c].obj
  BY <1>2, <1>3 DEF Workers, Idle
<1>5. FactsKnown'
  BY <1>1, <1>2, <1>3, <1>4 DEF TruthInv, FactsKnown
<1>6. DeletionSeen'
  BY <1>2, <1>3 DEF TruthInv, DeletionSeen
<1> QED
  BY <1>1, <1>5, <1>6, TruthGrows DEF TruthInv

LEMMA TruthPost ==
    ASSUME TruthInv, NEW c \in Controllers, Post(c)
    PROVE  TruthInv'
<1> DEFINE obj == worker[c].obj
           posted == [deployment |-> obj.url, state |-> DeploymentState(c, obj)]
<1>1. TypeOK /\ TypeOK' /\ UNCHANGED << app, cached, facts >>
  BY PostType DEF TruthInv, Post
<1>2. \A b \in Controllers : worker'[b] = worker[b] \/ worker'[b].pc = "idle"
  BY <1>1, OtherWorkers DEF Post, Return, Idle
<1>3. FactsKnown' /\ DeletionSeen'
  BY <1>1, <1>2 DEF TruthInv, FactsKnown, DeletionSeen
<1>4. StatusesTruthful'
  <2>1. CASE UNCHANGED latest
    BY <1>1, <2>1, TruthGrows DEF TruthInv
  <2>2. CASE /\ HasStatus(c, obj) /\ obj.url \in Deployments
             /\ latest'[obj.url] = DeploymentState(c, obj)
             /\ \A d \in Deployments \ {obj.url} : latest'[d] = latest[d]
    <3>1. posted \in Facts(obj) /\ Facts(obj) \subseteq facts
      BY <1>1, <2>2, StatusIsFact DEF Post, TruthInv, FactsKnown
    <3>2. [deployment |-> obj.url, state |-> latest'[obj.url]] \in facts'
      BY <1>1, <2>2, <3>1
    <3> QED
      BY <1>1, <2>2, <3>2 DEF TruthInv, StatusesTruthful
  <2> QED
    BY <1>1, <2>1, <2>2, PostWrites
<1> QED
  BY <1>1, <1>3, <1>4 DEF TruthInv

LEMMA TruthEnvironment ==
    ASSUME TruthInv, NEW a \in Apps, Environment(a)
    PROVE  TruthInv'
<1>1. TypeOK /\ TypeOK' /\ UNCHANGED << cached, worker, latest >>
  BY EnvironmentType, ArgoCDType DEF TruthInv, TypeOK, Environment
<1>2. facts' = facts \cup Facts(app'[a]) /\ app' = [app EXCEPT ![a] = app'[a]]
  BY <1>1, ArgoCDType DEF Environment, TypeOK
<1>3. \A b \in Apps : app'[b] = app[b] \/ b = a
  BY <1>1, <1>2 DEF TypeOK, ManagerTypeOK
<1>4. FactsKnown'
  BY <1>1, <1>2, <1>3 DEF TruthInv, FactsKnown
<1>5. DeletionSeen'
  BY <1>1 DEF TruthInv, DeletionSeen
<1> QED
  BY <1>1, <1>2, <1>4, <1>5, TruthGrows DEF TruthInv

LEMMA TruthCreateDeployment ==
    ASSUME TruthInv, NEW d \in Deployments, CreateDeployment(d)
    PROVE  TruthInv'
<1>1. TypeOK /\ TypeOK' /\ UNCHANGED << app, cached, worker, facts >>
  BY CreateDeploymentType DEF TruthInv, CreateDeployment, managerVars
<1>2. latest'[d] = NoState /\ \A e \in Deployments \ {d} : latest'[e] = latest[e]
  BY <1>1 DEF CreateDeployment, TypeOK
<1>3. StatusesTruthful'
  BY <1>1, <1>2 DEF TruthInv, StatusesTruthful
<1>4. FactsKnown' /\ DeletionSeen'
  BY <1>1 DEF TruthInv, FactsKnown, DeletionSeen
<1> QED
  BY <1>1, <1>3, <1>4 DEF TruthInv

\* Steps that show no worker a new object.
LEMMA TruthOther ==
    ASSUME TruthInv, TypeOK',
           \/ Stop
           \/ Restart
           \/ \E a \in Apps :
                 \/ Watch(a)
                 \/ Wait(a)
                 \/ Expire(a)
                 \/ \E c \in Controllers : Requeue(c, a) \/ Take(c, a)
           \/ UNCHANGED vars
    PROVE  TruthInv'
<1>1. TypeOK
  BY DEF TruthInv
<1>2. CASE Stop
  BY <1>2, TruthFrame DEF Stop, Crash, Idle
<1>3. CASE Restart
  BY <1>3, TruthFrame DEF Restart, Start
<1>4. ASSUME NEW a \in Apps, Watch(a)
      PROVE  TruthInv'
  <2>1. \A b \in Apps : cached'[b] \in {app[b], cached[b]}
    BY <1>1, <1>4 DEF Watch, Deliver, TypeOK, ManagerTypeOK
  <2> QED
    BY <1>4, <2>1, TruthFrame DEF Watch, Deliver
<1>5. ASSUME NEW a \in Apps,
             Wait(a) \/ Expire(a) \/ \E c \in Controllers : Requeue(c, a)
      PROVE  TruthInv'
  BY <1>5, TruthFrame DEF Wait, Settle, Expire, Requeue, TimerFires, managerVars
<1>6. ASSUME NEW a \in Apps, NEW c \in Controllers, Take(c, a)
      PROVE  TruthInv'
  <2>1. \A b \in Controllers : worker'[b] = worker[b] \/ worker'[b].pc = "get"
    BY <1>1, <1>6, Takes
  <2> QED
    BY <1>6, <2>1, TruthFrame DEF Take, Dequeue
<1>7. CASE UNCHANGED vars
  BY <1>7, TruthFrame DEF vars, managerVars
<1> QED
  BY <1>2, <1>3, <1>4, <1>5, <1>6, <1>7

\* The invariant behind StatusesTruthful: the copies of an object show facts
\* only, and the deletion controller writes only after it has seen a
\* deleted or missing object.
THEOREM TruthInvariant == Spec => []TruthInv
<1>1. Init => TruthInv
  <2> SUFFICES ASSUME Init PROVE TruthInv
    OBVIOUS
  <2>1. TypeOK
    BY InitTypeOK
  <2>2. StatusesTruthful
    BY DEF Init, StatusesTruthful
  <2>3. \A c \in Controllers : worker[c].pc = "idle"
    BY DEF Init, ManagerInit, Idle
  <2>4. FactsKnown
    BY <2>3 DEF Init, ManagerInit, FactsKnown
  <2>5. DeletionSeen
    BY <2>3 DEF DeletionSeen
  <2> QED
    BY <2>1, <2>2, <2>4, <2>5 DEF TruthInv
<1>2. TruthInv /\ [Next]_vars => TruthInv'
  <2> SUFFICES ASSUME TruthInv, [Next]_vars PROVE TruthInv'
    OBVIOUS
  <2>1. TypeOK /\ TypeOK'
    BY NextTypeOK DEF TruthInv
  <2>2. ASSUME NEW c \in Controllers, Reconcile(c)
        PROVE  TruthInv'
    BY <2>2, TruthGetApplication, TruthCheck, TruthPost DEF Reconcile
  <2> QED
    BY <2>1, <2>2, TruthEnvironment, TruthCreateDeployment, TruthOther DEF Next
<1> QED
  BY <1>1, <1>2, PTL DEF Spec

\* The latest status of a deployment is what some object stood for while its
\* annotation named that deployment (the statuses of internal/notification), however
\* the three controllers, the users and the faults interleave.
THEOREM StatusesAreTruthful == Spec => []StatusesTruthful
<1>1. TruthInv => StatusesTruthful
  BY DEF TruthInv
<1> QED
  BY <1>1, TruthInvariant, PTL

-----------------------------------------------------------------------------
(* The seal on a success.                                                  *)

\* The deletion controller, which does not check, is about to write.
DeletionWrites ==
    /\ DeletionDeployment \in Controllers
    /\ worker[DeletionDeployment].pc = "post"

\* A step that writes no status and sends no worker to write one.
LEMMA SealFrame ==
    ASSUME NEW d \in Deployments, Sealed(d), UNCHANGED latest,
           \A c \in Controllers :
              \/ worker'[c] = worker[c]
              \/ worker'[c].pc # "post"
    PROVE  Sealed(d)'
BY DEF Sealed

LEMMA SealGetApplication ==
    ASSUME TypeOK, NEW d \in Deployments, Sealed(d),
           NEW c \in Controllers, GetApplication(c)
    PROVE  Sealed(d)' \/ DeletionWrites'
<1>1. CASE Return(c)
  <2>1. \A b \in Controllers : worker'[b] = worker[b] \/ worker'[b].pc = "idle"
    BY <1>1, OtherWorkers DEF Return, Idle
  <2> QED
    BY <2>1, SealFrame DEF GetApplication
<1>2. CASE GotApplication(c, cached[worker[c].key],
                          IF c = DeletionDeployment THEN "post" ELSE "check")
  <2> DEFINE got == [pc  |-> IF c = DeletionDeployment THEN "post" ELSE "check",
                     key |-> worker[c].key,
                     obj |-> cached[worker[c].key]]
  <2>1. worker' = [worker EXCEPT ![c] = got]
    BY <1>2 DEF GotApplication
  <2> HIDE DEF got
  <2>2. worker'[c] = got /\ \A b \in Controllers \ {c} : worker'[b] = worker[b]
    BY <2>1, OtherWorkers
  <2>3. /\ worker'[c].pc = IF c = DeletionDeployment THEN "post" ELSE "check"
        /\ \A b \in Controllers \ {c} : worker'[b] = worker[b]
    BY <2>2 DEF got
  <2>4. CASE c = DeletionDeployment
    BY <2>3, <2>4 DEF DeletionWrites
  <2>5. CASE c # DeletionDeployment
    BY <2>3, <2>5, SealFrame DEF GetApplication
  <2> QED
    BY <2>4, <2>5
<1> QED
  BY <1>1, <1>2 DEF GetApplication

\* A check of the sealed deployment that does not fail ends the run.
LEMMA SealCheck ==
    ASSUME TypeOK, NEW d \in Deployments, Sealed(d),
           NEW c \in Controllers, Check(c)
    PROVE  Sealed(d)' \/ faults'["github"] > faults["github"]
<1>1. CASE Fault("github")
  BY <1>1 DEF TypeOK, ManagerTypeOK, Fault, FaultKinds
<1>2. CASE AfterCheck(c, CheckIfDeploymentIsAlreadyHealthy(worker[c].obj.url))
  <2> DEFINE answer == CheckIfDeploymentIsAlreadyHealthy(worker[c].obj.url)
  <2>1. worker[c].obj.url = d => answer = "yes"
    BY NoDeploymentAssumption
       DEF Sealed, CheckIfDeploymentIsAlreadyHealthy, ParsesDeploymentURL,
           DeploymentStates
  <2>2. worker[c] \in Workers /\ UNCHANGED latest
    BY WorkerHoldsName DEF Check
  <2> HIDE DEF answer
  <2>3. AfterCheck(c, answer)
    BY <1>2 DEF answer
  <2>4. /\ \A b \in Controllers \ {c} : worker'[b] = worker[b]
        /\ \/ worker'[c] = Idle
           \/ answer = "no" /\ worker'[c] = [worker[c] EXCEPT !.pc = "post"]
    BY <2>3, AfterCheckDecides DEF Check
  <2>5. worker'[c].pc = "idle" \/ worker'[c].obj.url # d
    BY <2>1, <2>2, <2>4 DEF Workers, Idle
  <2> QED
    BY <2>2, <2>4, <2>5 DEF Sealed
<1> QED
  BY <1>1, <1>2 DEF Check

LEMMA SealPost ==
    ASSUME TypeOK, NEW d \in Deployments, Sealed(d),
           NEW c \in Controllers, Post(c)
    PROVE  Sealed(d)'
<1>1. worker[c].obj.url # d
  BY DEF Sealed, Post
<1>2. latest'[d] = latest[d]
  BY <1>1, PostWrites
<1>3. \A b \in Controllers : worker'[b] = worker[b] \/ worker'[b].pc = "idle"
  BY OtherWorkers DEF Post, Return, Idle
<1> QED
  BY <1>2, <1>3 DEF Sealed

LEMMA SealOther ==
    ASSUME TypeOK, NEW d \in Deployments, Sealed(d),
           \/ Stop
           \/ Restart
           \/ \E a \in Apps :
                 \/ Environment(a)
                 \/ Watch(a)
                 \/ Wait(a)
                 \/ Expire(a)
                 \/ \E c \in Controllers : Requeue(c, a) \/ Take(c, a)
           \/ \E e \in Deployments : CreateDeployment(e)
           \/ UNCHANGED vars
    PROVE  Sealed(d)'
<1>1. CASE Stop
  BY <1>1, SealFrame DEF Stop, Crash, Idle
<1>2. CASE Restart
  BY <1>2, SealFrame DEF Restart, Start
<1>3. ASSUME NEW a \in Apps, Environment(a)
      PROVE  Sealed(d)'
  BY <1>3, ArgoCDType, SealFrame DEF Environment, TypeOK
<1>4. ASSUME NEW a \in Apps,
             \/ Watch(a)
             \/ Wait(a)
             \/ Expire(a)
             \/ \E c \in Controllers : Requeue(c, a)
      PROVE  Sealed(d)'
  BY <1>4, SealFrame
     DEF Watch, Deliver, Wait, Settle, Expire, Requeue, TimerFires, managerVars
<1>5. ASSUME NEW a \in Apps, NEW c \in Controllers, Take(c, a)
      PROVE  Sealed(d)'
  <2>1. \A b \in Controllers : worker'[b] = worker[b] \/ worker'[b].pc = "get"
    BY <1>5, Takes
  <2> QED
    BY <1>5, <2>1, SealFrame DEF Take
<1>6. ASSUME NEW e \in Deployments, CreateDeployment(e)
      PROVE  Sealed(d)'
  <2>1. e # d
    BY <1>6, NoDeploymentAssumption DEF CreateDeployment, Sealed, DeploymentStates
  <2>2. latest'[d] = latest[d] /\ UNCHANGED worker
    BY <1>6, <2>1 DEF CreateDeployment, TypeOK, managerVars
  <2> QED
    BY <2>2 DEF Sealed
<1>7. CASE UNCHANGED vars
  BY <1>7, SealFrame DEF vars, managerVars
<1> QED
  BY <1>1, <1>2, <1>3, <1>4, <1>5, <1>6, <1>7

\* The check of deploymentIsAlreadyHealthy before a status is created does
\* its work: a success nobody can overtake is given up only after a failed
\* check or for a deletion.
THEOREM SuccessStaysSealed == Spec => SuccessIsSealed
<1> DEFINE Kept == \A d \in Deployments :
                      Sealed(d) =>
                         \/ Sealed(d)'
                         \/ faults'["github"] > faults["github"]
                         \/ /\ DeletionDeployment \in Controllers
                            /\ worker'[DeletionDeployment].pc = "post"
<1>1. TypeOK /\ [Next]_vars => Kept
  <2> SUFFICES ASSUME TypeOK, [Next]_vars, NEW d \in Deployments, Sealed(d)
               PROVE  \/ Sealed(d)'
                      \/ faults'["github"] > faults["github"]
                      \/ DeletionWrites'
    BY DEF DeletionWrites
  <2>1. ASSUME NEW c \in Controllers, Reconcile(c)
        PROVE  \/ Sealed(d)'
               \/ faults'["github"] > faults["github"]
               \/ DeletionWrites'
    BY <2>1, SealGetApplication, SealCheck, SealPost DEF Reconcile
  <2> QED
    BY <2>1, SealOther DEF Next
<1> QED
  BY <1>1, TypeCorrect, PTL DEF Spec, SuccessIsSealed

-----------------------------------------------------------------------------
(* The end of a deployment.                                                *)

\* A live Application goes by d.
Named(d) == \E a \in Apps : app[a].exists /\ app[a].url = d /\ ~app[a].deleting

\* The objects of a closed deployment: what the API server and the informer
\* know of an Application that goes by it is that it is deleted.
OnlyDeleted(d) ==
    \A a \in Apps : \A obj \in {app[a], cached[a]} :
        obj.exists /\ obj.url = d => obj.deleting

\* A run that read a live Application of d is in flight.
RunsOn(w, d) == w.pc \in {"check", "post"} /\ w.obj.url = d

\* A step that writes no status of d and starts no run on it.
LEMMA FinalFrame ==
    ASSUME NEW d \in Deployments, Closed(d), latest'[d] = latest[d],
           OnlyDeleted(d)',
           \A c \in Controllers \ {DeletionDeployment} :
              RunsOn(worker'[c], d) => RunsOn(worker[c], d)
    PROVE  Closed(d)'
BY DEF Closed, OnlyDeleted, RunsOn

\* The health and the phase controller do not go on with a deleted object.
LEMMA FinalGetApplication ==
    ASSUME TypeOK, NEW d \in Deployments, Closed(d),
           NEW c \in Controllers, GetApplication(c)
    PROVE  Closed(d)'
<1> DEFINE obj == cached[worker[c].key]
<1>1. /\ UNCHANGED << app, cached, latest >> /\ OnlyDeleted(d)'
      /\ worker[c].key \in Apps
  BY WorkerHoldsName DEF GetApplication, Closed, OnlyDeleted
<1>2. CASE Return(c)
  <2>1. \A b \in Controllers : worker'[b] = worker[b] \/ worker'[b].pc = "idle"
    BY <1>2, OtherWorkers DEF Return, Idle
  <2> QED
    BY <1>1, <2>1, FinalFrame DEF RunsOn
<1>3. CASE /\ obj.exists /\ MayGoOn(c, obj)
           /\ GotApplication(c, obj, IF c = DeletionDeployment THEN "post" ELSE "check")
  <2> DEFINE got == [pc  |-> IF c = DeletionDeployment THEN "post" ELSE "check",
                     key |-> worker[c].key,
                     obj |-> obj]
  <2>1. worker' = [worker EXCEPT ![c] = got]
    BY <1>3 DEF GotApplication
  <2>2. c # DeletionDeployment => got.obj.url # d
    <3> SUFFICES ASSUME c # DeletionDeployment PROVE obj.url # d
      OBVIOUS
    <3>1. ~obj.deleting
      BY <1>3 DEF MayGoOn, PhaseMayGoOn, HealthMayGoOn
    <3> QED
      BY <1>1, <1>3, <3>1 DEF Closed
  <2> HIDE DEF got
  <2>3. worker'[c] = got /\ \A b \in Controllers \ {c} : worker'[b] = worker[b]
    BY <2>1, OtherWorkers
  <2> QED
    BY <1>1, <2>2, <2>3, FinalFrame DEF RunsOn
<1> QED
  BY <1>2, <1>3 DEF GetApplication

\* The check goes on with the object of its run.
LEMMA FinalCheck ==
    ASSUME TypeOK, NEW d \in Deployments, Closed(d),
           NEW c \in Controllers, Check(c)
    PROVE  Closed(d)'
<1>1. /\ UNCHANGED << app, cached, latest, settled >> /\ worker[c].pc = "check"
      /\ OnlyDeleted(d)' /\ worker[c] \in Workers
  BY WorkerHoldsName DEF Check, Closed, OnlyDeleted
<1>2. PICK answer : AfterCheck(c, answer)
  BY DEF Check
<1>3. /\ \A b \in Controllers \ {c} : worker'[b] = worker[b]
      /\ \/ worker'[c] = Idle
         \/ worker'[c] = [worker[c] EXCEPT !.pc = "post"]
  BY <1>1, <1>2, AfterCheckDecides
<1>4. RunsOn(worker'[c], d) => RunsOn(worker[c], d)
  BY <1>1, <1>3 DEF RunsOn, Workers, Idle
<1> QED
  BY <1>1, <1>3, <1>4, FinalFrame

\* A status is of another deployment, or inactive once more.
LEMMA FinalPost ==
    ASSUME TypeOK, NEW d \in Deployments, Closed(d),
           NEW c \in Controllers, Post(c)
    PROVE  Closed(d)'
<1>1. /\ UNCHANGED << app, cached >> /\ OnlyDeleted(d)'
      /\ worker[c].pc = "post"
  BY DEF Post, Closed, OnlyDeleted
<1>2. \A b \in Controllers : worker'[b] = worker[b] \/ worker'[b].pc = "idle"
  BY OtherWorkers DEF Post, Return, Idle
<1>3. latest'[d] = latest[d]
  <2>1. CASE worker[c].obj.url # d
    BY <2>1, PostWrites
  <2>2. CASE worker[c].obj.url = d
    <3>1. c = DeletionDeployment
      BY <1>1, <2>2 DEF Closed
    <3>2. DeploymentState(c, worker[c].obj) = "inactive"
      BY <3>1, ControllersDiffer DEF DeploymentState, DeletionDeploymentState
    <3> QED
      BY <2>2, <3>2, PostWrites DEF Closed
  <2> QED
    BY <2>1, <2>2
<1> QED
  BY <1>1, <1>2, <1>3, FinalFrame DEF RunsOn

\* The informer and a restart only copy what the API server has, which lets
\* nobody forget that it is deleted.
LEMMA FinalOther ==
    ASSUME TypeOK, NEW d \in Deployments, Closed(d),
           \/ Stop
           \/ Restart
           \/ \E a \in Apps :
                 \/ Environment(a)
                 \/ Watch(a)
                 \/ Wait(a)
                 \/ Expire(a)
                 \/ \E c \in Controllers : Requeue(c, a) \/ Take(c, a)
           \/ \E e \in Deployments : CreateDeployment(e)
           \/ UNCHANGED vars
    PROVE  Closed(d)' \/ Named(d)'
<1>1. OnlyDeleted(d)
  BY DEF Closed, OnlyDeleted
<1>2. CASE Stop
  BY <1>1, <1>2, FinalFrame DEF Stop, Crash, Idle, OnlyDeleted, RunsOn
<1>3. CASE Restart
  BY <1>1, <1>3, FinalFrame DEF Restart, Start, OnlyDeleted
<1>4. ASSUME NEW a \in Apps, Environment(a)
      PROVE  Closed(d)' \/ Named(d)'
  <2>1. UNCHANGED << cached, worker, latest >> /\ app' = [app EXCEPT ![a] = app'[a]]
    BY <1>4, ArgoCDType DEF Environment, TypeOK
  <2>2. \A b \in Apps \ {a} : app'[b] = app[b]
    BY <2>1 DEF TypeOK, ManagerTypeOK
  <2>3. CASE app'[a].exists /\ app'[a].url = d => app'[a].deleting
    <3>1. OnlyDeleted(d)'
      BY <1>1, <2>1, <2>2, <2>3 DEF OnlyDeleted
    <3> QED
      BY <2>1, <3>1, FinalFrame
  <2> QED
    BY <2>3 DEF Named
<1>5. ASSUME NEW a \in Apps, Watch(a)
      PROVE  Closed(d)'
  <2>1. UNCHANGED << app, worker, latest >> /\ cached' = [cached EXCEPT ![a] = app[a]]
    BY <1>5 DEF Watch, Deliver
  <2>2. \A b \in Apps : cached'[b] \in {app[b], cached[b]}
    BY <2>1 DEF TypeOK, ManagerTypeOK
  <2>3. OnlyDeleted(d)'
    BY <1>1, <2>1, <2>2 DEF OnlyDeleted
  <2> QED
    BY <2>1, <2>3, FinalFrame
<1>6. ASSUME NEW a \in Apps,
             Wait(a) \/ Expire(a) \/ \E c \in Controllers : Requeue(c, a)
      PROVE  Closed(d)'
  BY <1>1, <1>6, FinalFrame
     DEF Wait, Settle, Expire, Requeue, TimerFires, managerVars, OnlyDeleted
<1>7. ASSUME NEW a \in Apps, NEW c \in Controllers, Take(c, a)
      PROVE  Closed(d)'
  <2>1. \A b \in Controllers : worker'[b] = worker[b] \/ worker'[b].pc = "get"
    BY <1>7, Takes
  <2>2. UNCHANGED << app, cached, latest >>
    BY <1>7 DEF Take, Dequeue
  <2> QED
    BY <1>1, <2>1, <2>2, FinalFrame DEF OnlyDeleted, RunsOn
<1>8. ASSUME NEW e \in Deployments, CreateDeployment(e)
      PROVE  Closed(d)'
  <2>1. e # d
    BY <1>8, NoDeploymentAssumption DEF CreateDeployment, Closed, DeploymentStates
  <2>2. latest'[d] = latest[d] /\ UNCHANGED << app, cached, worker >>
    BY <1>8, <2>1 DEF CreateDeployment, TypeOK, managerVars
  <2> QED
    BY <1>1, <2>2, FinalFrame DEF OnlyDeleted
<1>9. CASE UNCHANGED vars
  BY <1>1, <1>9, FinalFrame DEF vars, managerVars, OnlyDeleted
<1> QED
  BY <1>2, <1>3, <1>4, <1>5, <1>6, <1>7, <1>8, <1>9

\* Once inactive with all that named it deleted, a deployment stays inactive
\* until a live Application goes by it, whatever is lost, refused, late or
\* requeued.
THEOREM InactiveStaysFinal == Spec => InactiveIsFinal
<1> DEFINE Kept == \A d \in Deployments :
                      Closed(d) =>
                         \/ Closed(d)'
                         \/ \E a \in Apps :
                               app'[a].exists /\ app'[a].url = d /\ ~app'[a].deleting
<1>1. TypeOK /\ [Next]_vars => Kept
  <2> SUFFICES ASSUME TypeOK, [Next]_vars, NEW d \in Deployments, Closed(d)
               PROVE  Closed(d)' \/ Named(d)'
    BY DEF Named
  <2>1. ASSUME NEW c \in Controllers, Reconcile(c)
        PROVE  Closed(d)'
    BY <2>1, FinalGetApplication, FinalCheck, FinalPost DEF Reconcile
  <2> QED
    BY <2>1, FinalOther DEF Next
<1> QED
  BY <1>1, TypeCorrect, PTL DEF Spec, InactiveIsFinal

-----------------------------------------------------------------------------
(* The board.                                                              *)

\* A worker that is not about to post has no permit.
LEMMA PermitsOfWorkers ==
    \A c \in Controllers :
        /\ worker[c].pc # "post" => Permit(c) = NoPermit
        /\ worker'[c].pc # "post" => Permit(c)' = NoPermit
        /\ worker'[c] = worker[c] => Permit(c)' = Permit(c)
BY DEF Permit, NoPermit, HasStatus, DeploymentState

\* A step that writes no status and no fact, and sends no worker to post.
LEMMA BoardFrame ==
    ASSUME UNCHANGED << latest, facts >>,
           faults'["github"] \in {faults["github"], faults["github"] + 1},
           \A c \in Controllers :
              \/ worker'[c] = worker[c]
              \/ Permit(c)' = NoPermit
    PROVE  Board!Next
<1> DEFINE gone == {c \in Controllers : Permit(c)' = NoPermit}
<1>1. [c \in Controllers |-> Permit(c)]' =
         [w \in Controllers |->
             IF w \in gone THEN NoPermit ELSE [c \in Controllers |-> Permit(c)][w]]
  BY PermitsOfWorkers
<1>2. Board!Withdraw(gone)
  BY <1>1 DEF Board!Withdraw
<1> QED
  BY <1>2 DEF Board!Next

\* A worker that goes to post has a permit, if it has anything to post.
LEMMA BoardGrant ==
    ASSUME TruthInv', NEW c \in Controllers,
           worker[c].pc # "post", worker'[c].pc = "post",
           \A b \in Controllers \ {c} : worker'[b] = worker[b],
           UNCHANGED << latest, facts >>,
           \/ /\ \/ c = DeletionDeployment
                 \/ ParsesDeploymentURL(worker'[c].obj.url) =>
                       latest[worker'[c].obj.url] # "success"
              /\ faults'["github"] = faults["github"]
           \/ faults'["github"] = faults["github"] + 1
    PROVE  Board!Next
<1> DEFINE w == worker'[c]
           p == [deployment |-> w.obj.url, state |-> DeploymentState(c, w.obj)]
<1>1. CASE ~HasStatus(c, w.obj)
  <2>1. Permit(c)' = NoPermit
    BY <1>1 DEF Permit, NoPermit, HasStatus, DeploymentState
  <2>2. \A b \in Controllers : worker'[b] = worker[b] \/ Permit(b)' = NoPermit
    BY <2>1
  <2>3. faults'["github"] \in {faults["github"], faults["github"] + 1}
    OBVIOUS
  <2> QED
    BY <2>2, <2>3, BoardFrame
<1>2. CASE HasStatus(c, w.obj)
  <2>1. Permit(c)' = p
    BY <1>2 DEF Permit, HasStatus, DeploymentState
  <2>2. p \in facts
    <3>1. RunShape(c)'
      BY DEF TruthInv, TypeOK
    <3>2. p \in Facts(w.obj)
      BY <1>2, <3>1, StateIsFact DEF RunShape, TruthInv, DeletionSeen
    <3>3. Facts(w.obj) \subseteq facts'
      BY DEF TruthInv, FactsKnown
    <3> QED
      BY <3>2, <3>3
  <2>3. [b \in Controllers |-> Permit(b)]' =
           [[b \in Controllers |-> Permit(b)] EXCEPT ![c] = p]
    BY <2>1, PermitsOfWorkers
  <2>4. Permit(c) = NoPermit
    BY PermitsOfWorkers
  <2>5. c = DeletionDeployment \/ latest[p.deployment] # "success"
           \/ faults'["github"] = faults["github"] + 1
    BY <1>2 DEF HasStatus
  <2>6. Board!Grant(c, p)
    BY <2>3, <2>4, <2>5 DEF Board!Grant
  <2> QED
    BY <2>2, <2>6 DEF Board!Next
<1> QED
  BY <1>1, <1>2

LEMMA BoardGetApplication ==
    ASSUME TruthInv, TruthInv', NEW c \in Controllers, GetApplication(c)
    PROVE  Board!Next
<1> DEFINE obj == cached[worker[c].key]
           pc == IF c = DeletionDeployment THEN "post" ELSE "check"
           got == [pc |-> pc, key |-> worker[c].key, obj |-> obj]
<1>1. TypeOK /\ UNCHANGED << latest, facts, faults >> /\ worker[c].pc = "get"
  BY DEF TruthInv, GetApplication
<1>2. CASE Return(c)
  <2>1. \A b \in Controllers : worker'[b] = worker[b] \/ worker'[b].pc = "idle"
    BY <1>1, <1>2, OtherWorkers DEF Return, Idle
  <2>2. \A b \in Controllers : worker'[b] = worker[b] \/ Permit(b)' = NoPermit
    BY <2>1, PermitsOfWorkers
  <2> QED
    BY <1>1, <2>2, BoardFrame
<1>3. CASE GotApplication(c, obj, pc)
  <2>1. worker' = [worker EXCEPT ![c] = got]
    BY <1>3 DEF GotApplication
  <2> HIDE DEF got
  <2>2. worker'[c] = got /\ \A b \in Controllers \ {c} : worker'[b] = worker[b]
    BY <1>1, <2>1, OtherWorkers
  <2>3. got.pc = pc
    BY DEF got
  <2>4. CASE c = DeletionDeployment
    BY <1>1, <2>2, <2>3, <2>4, BoardGrant
  <2>5. CASE c # DeletionDeployment
    <3>1. \A b \in Controllers : worker'[b] = worker[b] \/ Permit(b)' = NoPermit
      BY <2>2, <2>3, <2>5, PermitsOfWorkers
    <3> QED
      BY <1>1, <3>1, BoardFrame
  <2> QED
    BY <2>4, <2>5
<1> QED
  BY <1>2, <1>3 DEF GetApplication

LEMMA BoardCheck ==
    ASSUME TruthInv, TruthInv', NEW c \in Controllers, Check(c)
    PROVE  Board!Next
<1>1. TypeOK /\ UNCHANGED << latest, facts, settled >> /\ worker[c].pc = "check"
  BY DEF TruthInv, Check
<1>2. ASSUME NEW answer, AfterCheck(c, answer),
             \/ /\ UNCHANGED faults
                /\ answer = CheckIfDeploymentIsAlreadyHealthy(worker[c].obj.url)
             \/ faults'["github"] = faults["github"] + 1
      PROVE  Board!Next
  <2>1. /\ \A b \in Controllers \ {c} : worker'[b] = worker[b]
        /\ \/ worker'[c] = Idle
           \/ answer = "no" /\ worker'[c] = [worker[c] EXCEPT !.pc = "post"]
    BY <1>1, <1>2, AfterCheckDecides
  <2>2. CASE worker'[c] = Idle
    <3>1. \A b \in Controllers : worker'[b] = worker[b] \/ Permit(b)' = NoPermit
      BY <2>1, <2>2, PermitsOfWorkers DEF Idle
    <3> QED
      BY <1>1, <1>2, <3>1, BoardFrame
  <2>3. CASE answer = "no" /\ worker'[c] = [worker[c] EXCEPT !.pc = "post"]
    <3>1. worker'[c].pc = "post" /\ worker'[c].obj = worker[c].obj
      BY <1>1, <2>3, WorkerHoldsName DEF Workers
    <3>2. CASE faults'["github"] = faults["github"] + 1
      BY <1>1, <2>1, <3>1, <3>2, BoardGrant
    <3>3. CASE /\ UNCHANGED faults
               /\ answer = CheckIfDeploymentIsAlreadyHealthy(worker[c].obj.url)
      <4>1. ParsesDeploymentURL(worker[c].obj.url) =>
               latest[worker[c].obj.url] # "success"
        BY <2>3, <3>3, NoDeploymentAssumption
           DEF CheckIfDeploymentIsAlreadyHealthy, DeploymentStates
      <4> QED
        BY <1>1, <2>1, <3>1, <3>3, <4>1, BoardGrant
    <3> QED
      BY <1>2, <3>2, <3>3
  <2> QED
    BY <2>1, <2>2, <2>3
<1>3. Fault("github") => faults'["github"] = faults["github"] + 1
  BY <1>1 DEF Fault, TypeOK, ManagerTypeOK, FaultKinds
<1> QED
  BY <1>2, <1>3 DEF Check

LEMMA BoardPost ==
    ASSUME TruthInv, NEW c \in Controllers, Post(c)
    PROVE  Board!Next
<1> DEFINE obj == worker[c].obj
<1>1. TypeOK /\ UNCHANGED facts /\ worker[c].pc = "post"
  BY DEF TruthInv, Post
<1>2. worker'[c] = Idle /\ \A b \in Controllers \ {c} : worker'[b] = worker[b]
  BY <1>1, OtherWorkers DEF Post, Return
<1>3. Permit(c)' = NoPermit
  BY <1>2, PermitsOfWorkers DEF Idle
<1>4. faults'["github"] \in {faults["github"], faults["github"] + 1}
  BY <1>1 DEF Post, Fault, TypeOK, ManagerTypeOK, FaultKinds
<1>5. CASE UNCHANGED latest
  BY <1>1, <1>2, <1>3, <1>4, <1>5, BoardFrame
<1>6. CASE /\ HasStatus(c, obj) /\ latest[obj.url] # NoDeployment
           /\ latest' = [latest EXCEPT ![obj.url] = DeploymentState(c, obj)]
           /\ UNCHANGED faults
  <2>1. /\ Permit(c) = [deployment |-> obj.url, state |-> DeploymentState(c, obj)]
        /\ Permit(c) # NoPermit
    BY <1>1, <1>6 DEF Permit, NoPermit, HasStatus
  <2>2. [b \in Controllers |-> Permit(b)]' =
           [[b \in Controllers |-> Permit(b)] EXCEPT ![c] = NoPermit]
    BY <1>2, <1>3, PermitsOfWorkers
  <2>3. /\ Permit(c).deployment = obj.url
        /\ Permit(c).state = DeploymentState(c, obj)
    BY <2>1
  <2>4. latest' = [latest EXCEPT ![Permit(c).deployment] = Permit(c).state]
    BY <1>6, <2>3
  <2>5. latest[Permit(c).deployment] # NoDeployment
    BY <1>6, <2>3
  <2>6. Board!Write(c)
    BY <1>1, <1>6, <2>1, <2>2, <2>4, <2>5 DEF Board!Write
  <2> QED
    BY <2>6 DEF Board!Next
<1> QED
  BY <1>5, <1>6 DEF Post

LEMMA BoardOther ==
    ASSUME TruthInv,
           \/ Stop
           \/ Restart
           \/ \E a \in Apps :
                 \/ Environment(a)
                 \/ Watch(a)
                 \/ Wait(a)
                 \/ Expire(a)
                 \/ \E c \in Controllers : Requeue(c, a) \/ Take(c, a)
           \/ \E d \in Deployments : CreateDeployment(d)
           \/ UNCHANGED vars
    PROVE  Board!Next
<1>1. TypeOK
  BY DEF TruthInv
<1>2. Fault("crash") \/ Fault("gap") => faults'["github"] = faults["github"]
  BY <1>1 DEF Fault, TypeOK, ManagerTypeOK, FaultKinds
<1>3. CASE Stop
  <2>1. \A c \in Controllers : Permit(c)' = NoPermit
    BY <1>3, PermitsOfWorkers DEF Stop, Crash, Idle
  <2> QED
    BY <1>2, <1>3, <2>1, BoardFrame DEF Stop, Crash
<1>4. CASE Restart
  BY <1>4, BoardFrame DEF Restart, Start
<1>5. ASSUME NEW a \in Apps, Environment(a)
      PROVE  Board!Next
  <2>1. UNCHANGED << worker, latest >> /\ facts \subseteq facts'
    BY <1>1, <1>5, ArgoCDType DEF Environment, TypeOK
  <2>2. faults'["github"] = faults["github"]
    BY <1>2, <1>5 DEF Environment, ArgoCD, StartSync, TerminateSync, FinishSync,
          ReportHealth, Annotate, Delete, Remove, Write, WatchKeepsUp
  <2>3. [c \in Controllers |-> Permit(c)]' = [c \in Controllers |-> Permit(c)]
    BY <2>1, PermitsOfWorkers
  <2>4. Board!Learn
    BY <2>1, <2>2, <2>3 DEF Board!Learn
  <2> QED
    BY <2>4 DEF Board!Next
<1>6. ASSUME NEW a \in Apps,
             \/ Watch(a)
             \/ Wait(a)
             \/ Expire(a)
             \/ \E c \in Controllers : Requeue(c, a)
      PROVE  Board!Next
  BY <1>6, BoardFrame
     DEF Watch, Deliver, Wait, Settle, Expire, Requeue, TimerFires, managerVars
<1>7. ASSUME NEW a \in Apps, NEW c \in Controllers, Take(c, a)
      PROVE  Board!Next
  <2>1. \A b \in Controllers : worker'[b] = worker[b] \/ worker'[b].pc = "get"
    BY <1>1, <1>7, Takes
  <2>2. \A b \in Controllers : worker'[b] = worker[b] \/ Permit(b)' = NoPermit
    BY <2>1, PermitsOfWorkers
  <2> QED
    BY <1>7, <2>2, BoardFrame DEF Take, Dequeue
<1>8. ASSUME NEW d \in Deployments, CreateDeployment(d)
      PROVE  Board!Next
  <2>1. [c \in Controllers |-> Permit(c)]' = [c \in Controllers |-> Permit(c)]
    BY <1>8, PermitsOfWorkers DEF CreateDeployment, managerVars
  <2>2. Board!Create(d)
    BY <1>8, <2>1 DEF Board!Create, CreateDeployment, managerVars
  <2> QED
    BY <2>2 DEF Board!Next
<1>9. CASE UNCHANGED vars
  BY <1>9, BoardFrame DEF vars, managerVars
<1> QED
  BY <1>3, <1>4, <1>5, <1>6, <1>7, <1>8, <1>9

\* The three controllers implement the board: whatever they check, write or
\* lose, a status is written only with a permit that a check (client.go:96)
\* or a deletion gave for a fact, and no permit is used twice.
THEOREM BoardIsKept == Spec => KeepsBoard
<1>1. Init => Board!Init
  <2> SUFFICES ASSUME Init PROVE Board!Init
    OBVIOUS
  <2>1. \A c \in Controllers : Permit(c) = NoPermit
    BY PermitsOfWorkers DEF Init, ManagerInit, Idle
  <2> QED
    BY <2>1 DEF Init, Board!Init
<1>2. TruthInv /\ TruthInv' /\ [Next]_vars => [Board!Next]_(Board!vars)
  <2> SUFFICES ASSUME TruthInv, TruthInv', [Next]_vars PROVE Board!Next
    OBVIOUS
  <2>1. ASSUME NEW c \in Controllers, Reconcile(c)
        PROVE  Board!Next
    BY <2>1, BoardGetApplication, BoardCheck, BoardPost DEF Reconcile
  <2> QED
    BY <2>1, BoardOther DEF Next
<1> QED
  BY <1>1, <1>2, TruthInvariant, PTL DEF Spec, Board!Spec, KeepsBoard

-----------------------------------------------------------------------------
(* What is owed to a deployment.                                           *)

\* Whatever fails, the informer's copies are older than the objects.
THEOREM CacheStaysOlder == Spec => []CacheIsOlder
<1>1. Init => CacheIsOlder
  BY CacheIsOlderInit DEF Init
<1>2. TypeOK /\ CacheIsOlder /\ [Next]_vars => CacheIsOlder'
  <2> SUFFICES ASSUME TypeOK, CacheIsOlder, [Next]_vars
               PROVE  \/ \E a \in Apps : ArgoCD(a) \/ Deliver(a)
                      \/ Start
                      \/ UNCHANGED << app, cached >>
    BY CacheIsOlderStep DEF TypeOK
  <2>1. CASE \E a \in Apps : Environment(a) \/ Watch(a)
    BY <2>1 DEF Environment, Watch
  <2>2. CASE \E a \in Apps : Wait(a) \/ Expire(a)
    BY <2>2 DEF Wait, Settle, Expire, managerVars
  <2>3. ASSUME NEW c \in Controllers,
               \/ \E a \in Apps : Requeue(c, a) \/ Take(c, a)
               \/ Reconcile(c)
        PROVE  UNCHANGED << app, cached >>
    BY <2>3 DEF Requeue, TimerFires, Take, Dequeue, Reconcile, GetApplication, Check, Post
  <2>4. CASE Stop \/ Restart
    BY <2>4 DEF Stop, Crash, Restart
  <2>5. CASE (\E d \in Deployments : CreateDeployment(d)) \/ UNCHANGED vars
    BY <2>5 DEF CreateDeployment, vars, managerVars
  <2> QED
    BY <2>1, <2>2, <2>3, <2>4, <2>5 DEF Next
<1> QED
  BY <1>1, <1>2, TypeCorrect, PTL DEF Spec

\* Which updates call the health controller, when the new object is healthy.
LEMMA HealthyCalls ==
    ASSUME NEW old, NEW new, new.exists, new.url # NoURL,
           new.phase = "Succeeded", new.health = "Healthy"
    PROVE  ApplicationChanged(HealthDeployment, old, new) <=>
              old.exists /\ ~(old.phase = "Succeeded" /\ old.health = "Healthy")
BY DEF ApplicationChanged, Filter, HealthDeployment, HealthChangedTo, PhaseChangedTo,
       filterApplicationHealthStatusForDeploymentStatus, GetDeploymentURL,
       GetSyncOperationPhase, HealthStatusesForDeploymentStatus

\* And which call the deletion controller, when it is deleted or missing.
LEMMA DeletingCalls ==
    ASSUME NEW old, NEW new, new.exists, new.url # NoURL, isApplicationDeleting(new)
    PROVE  ApplicationChanged(DeletionDeployment, old, new) <=>
              old.exists /\ (new.deleting \/ old.health # "Missing")
BY DEF ApplicationChanged, Filter, DeletionDeployment, HealthChangedTo,
       filterApplicationDeletionForDeploymentStatus, GetDeploymentURL,
       DeletionTimestampChanged, isApplicationDeleting

\* The end of a run takes no name out of the queues.
LEMMA EndKeepsCalls ==
    ASSUME TypeOK, NEW c \in Controllers, NEW b \in Controllers,
           NEW a \in Apps, Return(b) \/ ReturnRequeueAfter(b)
    PROVE  /\ a \in queue[c] => a \in queue'[c]
           /\ timer[c][a] # NoTimer => timer'[c][a] # NoTimer
<1>1. CASE Return(b)
  BY <1>1 DEF Return
<1>2. CASE ReturnRequeueAfter(b)
  <2> DEFINE k == worker[b].key
             t == IF timer[b][k] = NoTimer THEN app[k].operationAt ELSE timer[b][k]
  <2>1. UNCHANGED queue /\ timer' = [timer EXCEPT ![b][k] = t]
    BY <1>2 DEF ReturnRequeueAfter
  <2>2. ASSUME c = b, a = k, timer[c][a] # NoTimer
        PROVE  t # NoTimer
    BY <2>2
  <2> HIDE DEF t, k
  <2> QED
    BY <2>1, <2>2 DEF TypeOK, ManagerTypeOK
<1> QED
  BY <1>1, <1>2

\* A call is answered by a Get, and by nothing else.
LEMMA CallStays ==
    ASSUME TypeOK, [Next]_vars, NEW c \in Controllers, NEW a \in Apps, Called(c, a),
           \A b \in Apps : ~Environment(b), ~Stop, ~Restart,
           ~(GetApplication(c) /\ worker[c].key = a)
    PROVE  Called(c, a)'
<1>1. ASSUME UNCHANGED << app, cached >>,
             a \in queue[c] => a \in queue'[c],
             timer[c][a] # NoTimer => timer'[c][a] # NoTimer \/ a \in queue'[c],
             \/ worker'[c] = worker[c]
             \/ ~(worker[c].key = a /\ worker[c].pc = "get")
      PROVE  Called(c, a)'
  BY <1>1 DEF Called, Undelivered
<1>2. ASSUME NEW b \in Apps, Watch(b)
      PROVE  Called(c, a)'
  <2>1. /\ cached' = [cached EXCEPT ![b] = app[b]]
        /\ queue'[c] = IF ApplicationChanged(c, cached[b], app[b])
                       THEN queue[c] \cup {b} ELSE queue[c]
        /\ UNCHANGED << app, timer, worker >>
    BY <1>2 DEF Watch, Deliver
  <2>2. CASE Undelivered(c, a) /\ a = b
    BY <2>1, <2>2 DEF Undelivered, Called
  <2>3. CASE Undelivered(c, a) /\ a # b
    BY <2>1, <2>3 DEF Undelivered, Called, TypeOK, ManagerTypeOK
  <2>4. CASE ~Undelivered(c, a)
    BY <2>1, <2>4 DEF Called
  <2> QED
    BY <2>2, <2>3, <2>4
<1>3. ASSUME NEW b \in Controllers, NEW k \in Apps, Requeue(b, k)
      PROVE  Called(c, a)'
  <2>1. /\ UNCHANGED << app, cached, worker >>
        /\ timer' = [timer EXCEPT ![b][k] = NoTimer]
        /\ queue' = [queue EXCEPT ![b] = queue[b] \cup {k}]
    BY <1>3 DEF Requeue, TimerFires
  <2>2. a \in queue[c] => a \in queue'[c]
    BY <2>1 DEF TypeOK, ManagerTypeOK
  <2>3. timer[c][a] # NoTimer => timer'[c][a] # NoTimer \/ a \in queue'[c]
    BY <2>1 DEF TypeOK, ManagerTypeOK
  <2> QED
    BY <1>1, <2>1, <2>2, <2>3
<1>4. ASSUME NEW b \in Controllers, NEW k \in Apps, Take(b, k)
      PROVE  Called(c, a)'
  <2>1. /\ UNCHANGED << app, cached, timer >>
        /\ worker[b].pc = "idle"
        /\ queue' = [queue EXCEPT ![b] = queue[b] \ {k}]
    BY <1>4 DEF Take, Dequeue
  <2>2. CASE c = b /\ a = k
    <3>1. Take(c, a)
      BY <1>4, <2>2
    <3>2. worker'[c] = [Idle EXCEPT !.pc = "get", !.key = a]
      BY <3>1, Takes
    <3>3. worker'[c].key = a /\ worker'[c].pc = "get"
      BY <3>2 DEF Idle
    <3> QED
      BY <3>3 DEF Called
  <2>3. CASE ~(c = b /\ a = k)
    <3>1. a \in queue[c] => a \in queue'[c]
      BY <2>1, <2>3 DEF TypeOK, ManagerTypeOK
    <3>2. c # b => worker'[c] = worker[c]
      BY <1>4, Takes
    <3> QED
      BY <1>1, <2>1, <3>1, <3>2
  <2> QED
    BY <2>2, <2>3
<1>5. ASSUME NEW b \in Controllers, Reconcile(b)
      PROVE  Called(c, a)'
  <2>1. UNCHANGED << app, cached >> /\ worker[b].pc # "idle"
    BY <1>5 DEF Reconcile, GetApplication, Check, Post
  <2>2. \/ Return(b) \/ ReturnRequeueAfter(b)
        \/ UNCHANGED << queue, timer >>
    BY <1>5 DEF Reconcile, GetApplication, GotApplication, Check, AfterCheck,
                HealthAfterCheck, Post
  <2>3. worker'[c] = worker[c] \/ ~(worker[c].key = a /\ worker[c].pc = "get")
    <3>1. c = b => ~(worker[c].key = a /\ worker[c].pc = "get")
      BY <1>5 DEF Reconcile, Check, Post
    <3>2. \E w : worker' = [worker EXCEPT ![b] = w]
      BY <1>5 DEF Reconcile, GetApplication, GotApplication, Check, AfterCheck,
                  HealthAfterCheck, Post, Return, ReturnRequeueAfter, Goto
    <3> QED
      BY <3>1, <3>2, OtherWorkers
  <2>4. /\ a \in queue[c] => a \in queue'[c]
        /\ timer[c][a] # NoTimer => timer'[c][a] # NoTimer
    BY <2>2, EndKeepsCalls
  <2> QED
    BY <1>1, <2>1, <2>3, <2>4
<1>6. ASSUME \/ \E b \in Apps : Wait(b) \/ Expire(b)
             \/ \E d \in Deployments : CreateDeployment(d)
             \/ UNCHANGED vars
      PROVE  UNCHANGED << app, cached, queue, timer, worker >>
  BY <1>6 DEF Wait, Settle, Expire, CreateDeployment, vars, managerVars
<1> QED
  BY <1>1, <1>2, <1>3, <1>4, <1>5, <1>6 DEF Next

\* The run of an object is taken on by its own worker only.
LEMMA RunStays ==
    ASSUME TypeOK, [Next]_vars, NEW c \in Controllers, NEW a \in Apps,
           worker[c].key = a, ~Stop, ~Reconcile(c)
    PROVE  worker'[c] = worker[c]
<1>1. ASSUME NEW b \in Controllers, NEW k \in Apps, Take(b, k)
      PROVE  worker'[c] = worker[c]
  <2>1. worker[c].pc # "idle" /\ worker[b].pc = "idle"
    BY <1>1, NoAppAssumption DEF TypeOK, RunShape, Take, Dequeue
  <2> QED
    BY <1>1, <2>1, Takes
<1>2. ASSUME NEW b \in Controllers, Reconcile(b)
      PROVE  worker'[c] = worker[c]
  <2>1. \E w : worker' = [worker EXCEPT ![b] = w]
    BY <1>2 DEF Reconcile, GetApplication, GotApplication, Check, AfterCheck,
                HealthAfterCheck, Post, Return, ReturnRequeueAfter, Goto
  <2> QED
    BY <1>2, <2>1, OtherWorkers
<1>3. ASSUME NEW b \in Apps, Environment(b)
      PROVE  worker' = worker
  BY <1>3, ArgoCDType DEF Environment, TypeOK
<1>4. ASSUME NEW b \in Apps, Watch(b) \/ Wait(b) \/ Expire(b)
      PROVE  worker' = worker
  BY <1>4 DEF Watch, Deliver, Wait, Settle, Expire, managerVars
<1>5. ASSUME NEW b \in Controllers, NEW k \in Apps, Requeue(b, k)
      PROVE  worker' = worker
  BY <1>5 DEF Requeue, TimerFires
<1>6. CASE (\E e \in Deployments : CreateDeployment(e)) \/ Restart \/ UNCHANGED vars
  BY <1>6 DEF CreateDeployment, Restart, Start, vars, managerVars
<1> QED
  BY <1>1, <1>2, <1>3, <1>4, <1>5, <1>6 DEF Next

\* A step in which the process runs and nothing fails.
LEMMA UndisturbedStep ==
    ASSUME TypeOK, [Next]_vars, NEW a \in Apps, NEW d \in Deployments, Undisturbed(a, d)
    PROVE  /\ ~Stop /\ ~Restart
           /\ \A k \in FaultKinds : ~Fault(k)
           /\ (\A b \in Apps : ~Environment(b)) => UNCHANGED app
<1>1. ASSUME NEW k \in FaultKinds, Fault(k)
      PROVE  FALSE
  BY <1>1 DEF Undisturbed, Fault, TypeOK, ManagerTypeOK
<1>2. ~Stop
  BY <1>1 DEF Stop, Crash, FaultKinds
<1>3. ~Restart
  BY DEF Undisturbed, Restart, Start
<1>4. ASSUME \A b \in Apps : ~Environment(b)
      PROVE  UNCHANGED app
  <2>1. ASSUME NEW b \in Apps, Watch(b) \/ Wait(b) \/ Expire(b)
        PROVE  UNCHANGED app
    BY <2>1 DEF Watch, Deliver, Wait, Settle, Expire, managerVars
  <2>2. ASSUME NEW c \in Controllers,
               \/ \E b \in Apps : Requeue(c, b) \/ Take(c, b)
               \/ Reconcile(c)
        PROVE  UNCHANGED app
    BY <2>2 DEF Requeue, TimerFires, Take, Dequeue, Reconcile, GetApplication, Check, Post
  <2>3. CASE (\E e \in Deployments : CreateDeployment(e)) \/ UNCHANGED vars
    BY <2>3 DEF CreateDeployment, vars, managerVars
  <2> QED
    BY <1>2, <1>3, <1>4, <2>1, <2>2, <2>3 DEF Next
<1> QED
  BY <1>1, <1>2, <1>3, <1>4

\* A write of Argo CD in an undisturbed step.
LEMMA UndisturbedWrite ==
    ASSUME TypeOK, NEW a \in Apps, NEW d \in Deployments, Undisturbed(a, d),
           NEW b \in Apps, Environment(b)
    PROVE  /\ UNCHANGED << cached, queue, timer, worker, latest >>
           /\ a # b => app'[a] = app[a]
           /\ a = b => /\ app[a].exists /\ cached[a] = app[a]
                       /\ Follows(app'[a], app[a])
<1>1. ManagerTypeOK /\ ArgoCD(b) /\ UNCHANGED latest
  BY DEF TypeOK, Environment
<1>2. UNCHANGED << cached, queue, timer, worker >> /\ app' = [app EXCEPT ![b] = app'[b]]
  BY <1>1, ArgoCDType
<1>3. up /\ faults'["gap"] <= faults["gap"]
  BY <1>1 DEF Undisturbed, ManagerTypeOK, FaultKinds
<1>4. app[b].exists /\ cached[b] = app[b] /\ Follows(app'[b], app[b])
  BY <1>1, <1>3, ArgoCDFollows
<1> QED
  BY <1>1, <1>2, <1>4 DEF ManagerTypeOK

\* A write leaves the success owed, or makes it owed: what makes the object
\* healthy passes the filter.
LEMMA SuccessEnvironment ==
    ASSUME TypeOK, HealthDeployment \in Controllers,
           NEW a \in Apps, NEW d \in Deployments, Undisturbed(a, d), IsHealthy(a)',
           IsHealthy(a) => OwesSuccess(a, d), NEW b \in Apps, Environment(b)
    PROVE  OwesSuccess(a, d)'
<1> DEFINE healthy == cached[a].phase = "Succeeded" /\ cached[a].health = "Healthy"
<1>1. /\ UNCHANGED << cached, queue, timer, worker, latest >>
      /\ a # b => app'[a] = app[a]
      /\ a = b => /\ app[a].exists /\ cached[a] = app[a]
                  /\ Follows(app'[a], app[a])
  BY UndisturbedWrite
<1>2. app[a].url # NoURL /\ app'[a].url # NoURL
  BY URLAssumption DEF Undisturbed, NamedOn
<1>3. Undelivered(HealthDeployment, a)' <=> cached[a].exists /\ ~healthy
  BY <1>1, <1>2, HealthyCalls DEF Undelivered, IsHealthy
<1>4. CASE IsHealthy(a)
  <2>1. Undelivered(HealthDeployment, a) <=> cached[a].exists /\ ~healthy
    BY <1>2, <1>4, HealthyCalls DEF Undelivered, IsHealthy
  <2> HIDE DEF healthy
  <2> QED
    BY <1>1, <1>3, <1>4, <2>1 DEF OwesSuccess, Called
<1>5. CASE ~IsHealthy(a)
  <2>1. cached[a].exists /\ ~healthy
    BY <1>1, <1>5 DEF IsHealthy, Follows
  <2> QED
    BY <1>3, <2>1 DEF OwesSuccess, Called
<1> QED
  BY <1>4, <1>5

\* The run that answers a call sees the healthy object, or an older one that
\* the informer has yet to replace.
LEMMA SuccessGet ==
    ASSUME TypeOK, CacheIsOlder, HealthDeployment \in Controllers,
           NEW a \in Apps, NEW d \in Deployments, Undisturbed(a, d), IsHealthy(a),
           GetApplication(HealthDeployment), worker[HealthDeployment].key = a
    PROVE  OwesSuccess(a, d)'
<1> DEFINE c == HealthDeployment
           obj == cached[a]
<1>1. obj.exists /\ ~obj.deleting /\ obj.url = d /\ d # NoURL
  BY URLAssumption DEF CacheIsOlder, Older, IsHealthy, Undisturbed, NamedOn
<1>2. UNCHANGED << app, cached >>
  BY DEF GetApplication
<1>3. CASE obj.phase = "Succeeded" /\ obj.health = "Healthy"
  <2>1. MayGoOn(c, obj)
    BY <1>1 DEF MayGoOn, HealthMayGoOn, GetDeploymentURL
  <2>2. GotApplication(c, obj, "check")
    BY <1>1, <2>1, ControllersDiffer DEF GetApplication
  <2>3. worker'[c] = [pc |-> "check", key |-> a, obj |-> obj]
    BY <2>2 DEF GotApplication, TypeOK, ManagerTypeOK
  <2> QED
    BY <1>1, <1>3, <2>3 DEF OwesSuccess
<1>4. CASE ~(obj.phase = "Succeeded" /\ obj.health = "Healthy")
  <2>1. Undelivered(c, a)
    BY <1>1, <1>4, HealthyCalls DEF Undelivered, IsHealthy, Undisturbed, NamedOn
  <2>2. Undelivered(c, a)'
    BY <1>2, <2>1 DEF Undelivered
  <2> QED
    BY <2>2 DEF OwesSuccess, Called
<1> QED
  BY <1>3, <1>4

\* The run ends with the success, or comes back in 30 seconds.
LEMMA SuccessRun ==
    ASSUME TypeOK, HealthDeployment \in Controllers,
           NEW a \in Apps, NEW d \in Deployments, Undisturbed(a, d),
           \A k \in FaultKinds : ~Fault(k),
           worker[HealthDeployment].key = a, worker[HealthDeployment].obj.url = d,
           worker[HealthDeployment].obj.phase = "Succeeded",
           worker[HealthDeployment].obj.health = "Healthy",
           Check(HealthDeployment) \/ Post(HealthDeployment)
    PROVE  OwesSuccess(a, d)'
<1> DEFINE c == HealthDeployment
           obj == worker[c].obj
<1>1. latest[d] # NoDeployment /\ ParsesDeploymentURL(obj.url) /\ ~Fault("github")
  BY DEF Undisturbed, NamedOn, ParsesDeploymentURL, FaultKinds
<1>2. CASE Check(c)
  <2>1. AfterCheck(c, CheckIfDeploymentIsAlreadyHealthy(d)) /\ UNCHANGED latest
    BY <1>1, <1>2 DEF Check
  <2>2. CASE latest[d] = "success"
    BY <2>1, <2>2 DEF OwesSuccess
  <2>3. CASE latest[d] # "success"
    <3>1. CheckIfDeploymentIsAlreadyHealthy(d) = "no"
      BY <1>1, <2>3 DEF CheckIfDeploymentIsAlreadyHealthy, ParsesDeploymentURL
    <3>2. HealthAfterCheck(a, obj)
      BY <2>1, <3>1, ControllersDiffer DEF AfterCheck
    <3>3. CASE ReturnRequeueAfter(c)
      <4> DEFINE t == IF timer[c][a] = NoTimer THEN app[a].operationAt ELSE timer[c][a]
      <4>1. timer' = [timer EXCEPT ![c][a] = t]
        BY <3>3 DEF ReturnRequeueAfter
      <4>2. t # NoTimer
        BY DEF TypeOK, ManagerTypeOK, Objects, Stamps, NoTimer
      <4> HIDE DEF t
      <4>3. timer'[c][a] # NoTimer
        BY <4>1, <4>2 DEF TypeOK, ManagerTypeOK
      <4> QED
        BY <4>3 DEF OwesSuccess, Called
    <3>4. CASE Goto(c, "post")
      <4>1. worker' = [worker EXCEPT ![c].pc = "post"] /\ worker[c] \in Workers
        BY <3>4, WorkerHoldsName DEF Goto
      <4>2. worker'[c].key = a /\ worker'[c].obj = obj
        BY <4>1 DEF TypeOK, ManagerTypeOK, Workers
      <4> QED
        BY <4>2 DEF OwesSuccess
    <3> QED
      BY <3>2, <3>3, <3>4 DEF HealthAfterCheck, GetSyncOperationPhase
  <2> QED
    BY <2>2, <2>3
<1>3. CASE Post(c)
  <2>1. DeploymentState(c, obj) = "success"
    BY ControllersDiffer DEF DeploymentState, HealthDeploymentState
  <2>2. HasStatus(c, obj)
    BY <1>1, <2>1 DEF HasStatus, NoState
  <2>3. latest' = [latest EXCEPT ![d] = "success"]
    BY <1>1, <1>3, <2>1, <2>2 DEF Post
  <2> QED
    BY <2>3 DEF OwesSuccess, TypeOK
<1> QED
  BY <1>2, <1>3

\* No success gets lost.
THEOREM SuccessStaysOwed == Spec => SuccessIsOwed
<1> DEFINE Kept == \A a \in Apps, d \in Deployments :
                      (/\ HealthDeployment \in Controllers
                       /\ Undisturbed(a, d)
                       /\ IsHealthy(a)'
                       /\ IsHealthy(a) => OwesSuccess(a, d))
                      => OwesSuccess(a, d)' \/ Overwritten(d, "success")
<1>1. TypeOK /\ CacheIsOlder /\ [Next]_vars => Kept
  <2> DEFINE c == HealthDeployment
  <2> SUFFICES ASSUME TypeOK, CacheIsOlder, [Next]_vars, c \in Controllers,
                      NEW a \in Apps, NEW d \in Deployments,
                      Undisturbed(a, d), IsHealthy(a)',
                      IsHealthy(a) => OwesSuccess(a, d)
               PROVE  OwesSuccess(a, d)' \/ Overwritten(d, "success")
    OBVIOUS
  <2>1. /\ ~Stop /\ ~Restart
        /\ \A k \in FaultKinds : ~Fault(k)
        /\ (\A b \in Apps : ~Environment(b)) => UNCHANGED app
    BY UndisturbedStep
  <2>2. CASE \E b \in Apps : Environment(b)
    BY <2>2, SuccessEnvironment
  <2>3. CASE \A b \in Apps : ~Environment(b)
    <3>1. IsHealthy(a) /\ OwesSuccess(a, d)
      BY <2>1, <2>3 DEF IsHealthy
    <3>2. CASE latest[d] = "success"
      BY <3>2 DEF OwesSuccess, Overwritten
    <3>3. CASE Called(c, a)
      <4>1. CASE GetApplication(c) /\ worker[c].key = a
        BY <3>1, <4>1, SuccessGet
      <4>2. CASE ~(GetApplication(c) /\ worker[c].key = a)
        BY <2>1, <2>3, <3>3, <4>2, CallStays DEF OwesSuccess
      <4> QED
        BY <4>1, <4>2
    <3>4. CASE /\ worker[c].key = a /\ worker[c].obj.url = d
               /\ worker[c].obj.phase = "Succeeded" /\ worker[c].obj.health = "Healthy"
      <4>1. CASE Reconcile(c)
        <5>1. CASE GetApplication(c)
          BY <3>1, <3>4, <5>1, SuccessGet
        <5>2. CASE Check(c) \/ Post(c)
          BY <2>1, <3>4, <5>2, SuccessRun
        <5> QED
          BY <4>1, <5>1, <5>2 DEF Reconcile
      <4>2. CASE ~Reconcile(c)
        <5>1. worker'[c] = worker[c]
          BY <2>1, <3>4, <4>2, RunStays
        <5> QED
          BY <3>4, <5>1 DEF OwesSuccess
      <4> QED
        BY <4>1, <4>2
    <3> QED
      BY <3>1, <3>2, <3>3, <3>4 DEF OwesSuccess
  <2> QED
    BY <2>2, <2>3
<1> QED
  BY <1>1, TypeCorrect, CacheStaysOlder, PTL DEF Spec, SuccessIsOwed

\* A write leaves "inactive" owed, or makes it owed: what makes the object
\* deleted or missing passes the filter, and so does every write after the
\* deletion.
LEMMA InactiveEnvironment ==
    ASSUME TypeOK, DeletionDeployment \in Controllers,
           NEW a \in Apps, NEW d \in Deployments, Undisturbed(a, d), IsDeleting(a)',
           IsDeleting(a) => OwesInactive(a, d), NEW b \in Apps, Environment(b)
    PROVE  OwesInactive(a, d)'
<1> DEFINE c == DeletionDeployment
<1>1. /\ UNCHANGED << cached, queue, timer, worker, latest >>
      /\ a # b => app'[a] = app[a]
      /\ a = b => /\ app[a].exists /\ cached[a] = app[a]
                  /\ Follows(app'[a], app[a])
  BY UndisturbedWrite
<1>2. app[a].url # NoURL /\ app'[a].url # NoURL
  BY URLAssumption DEF Undisturbed, NamedOn
<1>3. isApplicationDeleting(app'[a]) /\ app'[a].exists
  BY DEF IsDeleting, isApplicationDeleting
<1>4. Undelivered(c, a)' <=> cached[a].exists /\ (app'[a].deleting \/ cached[a].health # "Missing")
  BY <1>1, <1>2, <1>3, DeletingCalls DEF Undelivered
<1>5. CASE ~IsDeleting(a)
  BY <1>1, <1>4, <1>5 DEF IsDeleting, isApplicationDeleting, OwesInactive, Called
<1>6. CASE IsDeleting(a)
  <2>1. Undelivered(c, a) <=> cached[a].exists /\ (app[a].deleting \/ cached[a].health # "Missing")
    BY <1>2, <1>6, DeletingCalls DEF Undelivered, IsDeleting
  <2>2. app[a].deleting => app'[a].deleting
    BY <1>1, <1>3 DEF Follows
  <2> QED
    BY <1>1, <1>4, <1>6, <2>1, <2>2 DEF OwesInactive, Called
<1> QED
  BY <1>5, <1>6

\* The run that answers a call sees the deletion, or an older object that
\* the informer has yet to replace.
LEMMA InactiveGet ==
    ASSUME TypeOK, CacheIsOlder, DeletionDeployment \in Controllers,
           NEW a \in Apps, NEW d \in Deployments, Undisturbed(a, d), IsDeleting(a),
           GetApplication(DeletionDeployment), worker[DeletionDeployment].key = a
    PROVE  OwesInactive(a, d)'
<1> DEFINE c == DeletionDeployment
           obj == cached[a]
<1>1. obj.exists /\ obj.url = d /\ d # NoURL
  BY URLAssumption DEF CacheIsOlder, Older, IsDeleting, Undisturbed, NamedOn
<1>2. UNCHANGED << app, cached >>
  BY DEF GetApplication
<1>3. CASE isApplicationDeleting(obj)
  <2>1. MayGoOn(c, obj)
    BY <1>1, <1>3 DEF MayGoOn, DeletionMayGoOn, GetDeploymentURL
  <2>2. GotApplication(c, obj, "post")
    BY <1>1, <2>1 DEF GetApplication
  <2>3. worker'[c] = [pc |-> "post", key |-> a, obj |-> obj]
    BY <2>2 DEF GotApplication, TypeOK, ManagerTypeOK
  <2> QED
    BY <1>1, <2>3 DEF OwesInactive
<1>4. CASE ~isApplicationDeleting(obj)
  <2>1. obj.health # "Missing"
    BY <1>4 DEF isApplicationDeleting
  <2>2. Undelivered(c, a)
    BY <1>1, <2>1, DeletingCalls DEF Undelivered, IsDeleting, Undisturbed, NamedOn
  <2>3. Undelivered(c, a)'
    BY <1>2, <2>2 DEF Undelivered
  <2> QED
    BY <2>3 DEF OwesInactive, Called
<1> QED
  BY <1>3, <1>4

\* No deletion gets lost, although the deletion controller neither retries
\* nor requeues.
THEOREM InactiveStaysOwed == Spec => InactiveIsOwed
<1> DEFINE Kept == \A a \in Apps, d \in Deployments :
                      (/\ DeletionDeployment \in Controllers
                       /\ Undisturbed(a, d)
                       /\ IsDeleting(a)'
                       /\ IsDeleting(a) => OwesInactive(a, d))
                      => OwesInactive(a, d)' \/ Overwritten(d, "inactive")
<1>1. TypeOK /\ CacheIsOlder /\ [Next]_vars => Kept
  <2> DEFINE c == DeletionDeployment
  <2> SUFFICES ASSUME TypeOK, CacheIsOlder, [Next]_vars, c \in Controllers,
                      NEW a \in Apps, NEW d \in Deployments,
                      Undisturbed(a, d), IsDeleting(a)',
                      IsDeleting(a) => OwesInactive(a, d)
               PROVE  OwesInactive(a, d)' \/ Overwritten(d, "inactive")
    OBVIOUS
  <2>1. /\ ~Stop /\ ~Restart
        /\ \A k \in FaultKinds : ~Fault(k)
        /\ (\A b \in Apps : ~Environment(b)) => UNCHANGED app
    BY UndisturbedStep
  <2>2. CASE \E b \in Apps : Environment(b)
    BY <2>2, InactiveEnvironment
  <2>3. CASE \A b \in Apps : ~Environment(b)
    <3>1. IsDeleting(a) /\ OwesInactive(a, d)
      BY <2>1, <2>3 DEF IsDeleting, isApplicationDeleting
    <3>2. CASE latest[d] = "inactive"
      BY <3>2 DEF OwesInactive, Overwritten
    <3>3. CASE Called(c, a)
      <4>1. CASE GetApplication(c) /\ worker[c].key = a
        BY <3>1, <4>1, InactiveGet
      <4>2. CASE ~(GetApplication(c) /\ worker[c].key = a)
        BY <2>1, <2>3, <3>3, <4>2, CallStays DEF OwesInactive
      <4> QED
        BY <4>1, <4>2
    <3>4. CASE worker[c].key = a /\ worker[c].obj.url = d
      <4>1. CASE GetApplication(c)
        BY <3>1, <3>4, <4>1, InactiveGet
      <4>2. CASE Check(c)
        BY <4>2 DEF Check, TypeOK, RunShape
      <4>3. CASE Post(c)
        <5>1. latest[d] # NoDeployment /\ ~Fault("github")
          BY <2>1 DEF Undisturbed, NamedOn, FaultKinds
        <5>2. DeploymentState(c, worker[c].obj) = "inactive"
          BY ControllersDiffer DEF DeploymentState, DeletionDeploymentState
        <5>3. HasStatus(c, worker[c].obj)
          BY <3>4, <5>2 DEF HasStatus, NoState, ParsesDeploymentURL
        <5>4. latest' = [latest EXCEPT ![d] = "inactive"]
          BY <3>4, <4>3, <5>1, <5>2, <5>3 DEF Post
        <5> QED
          BY <5>4 DEF OwesInactive, TypeOK
      <4>4. CASE ~Reconcile(c)
        <5>1. worker'[c] = worker[c]
          BY <2>1, <3>4, <4>4, RunStays
        <5> QED
          BY <3>4, <5>1 DEF OwesInactive
      <4> QED
        BY <4>1, <4>2, <4>3, <4>4 DEF Reconcile
    <3> QED
      BY <3>1, <3>2, <3>3, <3>4 DEF OwesInactive
  <2> QED
    BY <2>2, <2>3
<1> QED
  BY <1>1, TypeCorrect, CacheStaysOlder, PTL DEF Spec, InactiveIsOwed

=============================================================================
