----------------------- MODULE HealthComment_proofs -----------------------
(* Theorems about HealthComment: its types, what its record and comments   *)
(* say, how often a comment is repeated, that the ledger is kept, and that *)
(* no healthy revision gets lost.                                          *)
EXTENDS HealthComment, ControllerManager_proofs, Notification_proofs

-----------------------------------------------------------------------------
(* What the operators return.                                              *)

\* The facts of an object are typed.
LEMMA FactsType ==
    ASSUME NEW a \in Apps, NEW obj \in Objects
    PROVE  Facts(a, obj) \subseteq CommentFacts
<1>1. obj.health \in HealthStatuses
  BY DEF Objects
<1> QED
  BY <1>1, SourceRevisionType DEF Facts, CommentFacts

\* Counting one more of a revision.
LEMMA CountOneMore ==
    ASSUME NEW f \in [Apps -> [RevisionStrings -> Nat]],
           NEW a \in Apps, NEW r \in RevisionStrings
    PROVE  /\ OneMore(f, a, r) \in [Apps -> [RevisionStrings -> Nat]]
           /\ OneMore(f, a, r)[a][r] = f[a][r] + 1
           /\ \A b \in Apps, s \in RevisionStrings :
                 b # a \/ s # r => OneMore(f, a, r)[b][s] = f[b][s]
<1> DEFINE n == f[a][r] + 1
<1>1. n \in Nat
  OBVIOUS
<1> HIDE DEF n
<1>2. [f EXCEPT ![a][r] = n] \in [Apps -> [RevisionStrings -> Nat]]
  BY <1>1
<1>3. [f EXCEPT ![a][r] = n][a][r] = n
  OBVIOUS
<1>4. ASSUME NEW b \in Apps, NEW s \in RevisionStrings, b # a \/ s # r
      PROVE  [f EXCEPT ![a][r] = n][b][s] = f[b][s]
  BY <1>4
<1> QED
  BY <1>2, <1>3, <1>4 DEF n, OneMore

-----------------------------------------------------------------------------
(* How the steps of a reconcile move the worker.                           *)

WorkerTypeOK ==
    /\ worker \in [Controllers -> [pc  : ProgramCounters,
                                   key : Apps \cup {NoApp},
                                   obj : Objects]]
    /\ queue \in [Controllers -> SUBSET Apps]
    /\ timer \in [Controllers -> [Apps -> Stamps \cup {NoTimer}]]

\* A worker that is not idle holds the name of an object.
LEMMA WorkerHoldsName ==
    ASSUME TypeOK
    PROVE  /\ Me \in [pc : ProgramCounters, key : Apps \cup {NoApp}, obj : Objects]
           /\ Me.obj \in Objects
           /\ Me.pc # "idle" => Me.key \in Apps
           /\ HealthComment \in Controllers
BY HealthCommentAssumption DEF TypeOK, ManagerTypeOK, ReconcileShape, Me

\* A reconcile that ends leaves an idle worker.
LEMMA EndsIdle ==
    ASSUME TypeOK, Me.pc # "idle",
           \/ Return(HealthComment)
           \/ ReturnRequeueAfter(HealthComment)
           \/ ReturnError(HealthComment),
           source' = 0
    PROVE  WorkerTypeOK' /\ Me' = Idle /\ ReconcileShape'
<1>1. WorkerTypeOK'
  BY WorkerHoldsName, ReturnType DEF TypeOK, WorkerTypeOK, Me
<1>2. Me' = Idle
  BY WorkerHoldsName DEF TypeOK, ManagerTypeOK, Return, ReturnRequeueAfter,
                         ReturnError, Me
<1> QED
  BY <1>1, <1>2 DEF ReconcileShape, Idle

\* A step that goes on changes the program counter only.
LEMMA GoesOn ==
    ASSUME TypeOK, NEW pc \in ProgramCounters, Goto(HealthComment, pc),
           UNCHANGED << queue, timer >>
    PROVE  WorkerTypeOK' /\ Me' = [Me EXCEPT !.pc = pc]
BY HealthCommentAssumption DEF TypeOK, ManagerTypeOK, WorkerTypeOK, Goto, Me

\* The decision after the record was read: the reconcile ends, or it starts
\* to comment on a revision other than the one it read as recorded.
LEMMA EvaluateDecides ==
    ASSUME TypeOK, Me.pc \in {"read", "create"}, NEW last, Evaluate(last),
           UNCHANGED settled
    PROVE  /\ WorkerTypeOK'
           /\ ReconcileShape'
           /\ source' \in Nat
           /\ \/ Me' = Idle
              \/ /\ Me' = [Me EXCEPT !.pc = "comment"]
                 /\ source' = 1
                 /\ ~AlreadyHealthy(Me.obj, last)
                 /\ Me.obj.phase = "Succeeded"
                 /\ GetSourceRevisions(Me.obj) # << >>
<1>1. source = 0
  BY DEF TypeOK, ReconcileShape
<1>2. CASE /\ \/ Return(HealthComment)
              \/ ReturnRequeueAfter(HealthComment)
           /\ UNCHANGED source
  BY <1>1, <1>2, EndsIdle
<1>3. CASE /\ MayBeEvaluated(Me.obj, last)
           /\ ~JustFinished(Me.key, Me.obj)
           /\ Goto(HealthComment, "comment")
           /\ source' = 1
           /\ UNCHANGED << queue, timer >>
  <2>1. WorkerTypeOK' /\ Me' = [Me EXCEPT !.pc = "comment"]
    BY <1>3, GoesOn DEF ProgramCounters
  <2>2. /\ GetSourceRevisions(Me.obj) # << >>
        /\ ~AlreadyHealthy(Me.obj, last)
        /\ Me.obj.phase = "Succeeded"
    BY <1>3 DEF MayBeEvaluated, GetSyncOperationPhase
  <2>3. 1 \in 1 .. Len(GetSourceRevisions(Me.obj))
    BY <2>2, WorkerHoldsName, FirstSource
  <2>4. /\ Me'.pc = "comment" /\ Me'.key = Me.key /\ Me'.obj = Me.obj
    BY <2>1, WorkerHoldsName DEF TypeOK, ManagerTypeOK, Me
  <2>5. Me.obj.operationAt <= settled[Me.key]
    <3>1. Me.obj.operationAt \in Nat /\ settled[Me.key] \in Nat
      BY WorkerHoldsName DEF TypeOK, ManagerTypeOK, Objects, Stamps
    <3> QED
      BY <1>3, <2>2, <3>1
         DEF JustFinished, GetSyncOperationFinishedAt, CompletedPhases
  <2>6. ReconcileShape'
    BY <1>3, <2>2, <2>3, <2>4, <2>5 DEF TypeOK, ReconcileShape
  <2> QED
    BY <1>3, <2>1, <2>2, <2>6
<1> QED
  BY <1>2, <1>3 DEF Evaluate

-----------------------------------------------------------------------------
(* Type correctness.                                                       *)

\* What a reconcile step must show, since it writes neither the objects nor
\* their cache.
LEMMA ReconcileStepType ==
    ASSUME TypeOK, WorkerTypeOK', DataTypeOK', ReconcileShape',
           UNCHANGED << app, cached, up, settled >>,
           faults' \in [FaultKinds -> Nat]
    PROVE  TypeOK'
BY DEF TypeOK, ManagerTypeOK, WorkerTypeOK

LEMMA FaultType ==
    ASSUME TypeOK, NEW k \in FaultKinds, UNCHANGED faults \/ Fault(k)
    PROVE  /\ faults' \in [FaultKinds -> Nat]
           /\ \A j \in FaultKinds : faults'[j] >= faults[j]
           /\ Fault(k) => faults'[k] = faults[k] + 1
BY DEF TypeOK, ManagerTypeOK, Fault

LEMMA GetApplicationType ==
    ASSUME TypeOK, GetApplication
    PROVE  TypeOK'
<1>1. DataTypeOK' /\ faults' \in [FaultKinds -> Nat] /\ source = 0
  BY DEF GetApplication, TypeOK, ManagerTypeOK, DataTypeOK, ReconcileShape,
         recordVars, githubVars, history
<1>2. Me.key \in Apps /\ cached[Me.key] \in Objects
  BY WorkerHoldsName DEF GetApplication, TypeOK, ManagerTypeOK
<1>3. CASE Return(HealthComment)
  <2>1. WorkerTypeOK' /\ ReconcileShape'
    BY <1>1, <1>3, EndsIdle DEF GetApplication
  <2> QED
    BY <1>1, <2>1, ReconcileStepType DEF GetApplication
<1>4. CASE /\ cached[Me.key].exists /\ ~cached[Me.key].deleting
           /\ GotApplication(HealthComment, cached[Me.key], "read")
  <2>1. WorkerTypeOK'
    BY <1>2, <1>4, GotApplicationType, WorkerHoldsName
       DEF TypeOK, WorkerTypeOK, ProgramCounters, Me
  <2>2. Me'.pc = "read" /\ Me'.key = Me.key /\ Me'.obj = cached[Me.key]
    BY <1>4, WorkerHoldsName DEF TypeOK, ManagerTypeOK, GotApplication, Me
  <2>3. ReconcileShape'
    BY <1>1, <1>2, <1>4, <2>2, NoAppAssumption DEF GetApplication, ReconcileShape
  <2> QED
    BY <1>1, <2>1, <2>3, ReconcileStepType DEF GetApplication
<1> QED
  BY <1>3, <1>4 DEF GetApplication

LEMMA ReadRecordType ==
    ASSUME TypeOK, ReadRecord
    PROVE  TypeOK'
<1>1. source = 0 /\ faults' \in [FaultKinds -> Nat]
  BY FaultType DEF ReadRecord, TypeOK, ManagerTypeOK, ReconcileShape, FaultKinds
<1>2. UNCHANGED << record, cachedRecord, comments, unreached, facts,
                   healthyPosts, forgotten >>
  BY DEF ReadRecord, recordVars, githubVars, history
<1>3. CASE /\ Goto(HealthComment, "create")
           /\ UNCHANGED << queue, timer, source >>
  <2>1. WorkerTypeOK' /\ Me' = [Me EXCEPT !.pc = "create"]
    BY <1>3, GoesOn DEF ProgramCounters
  <2>2. Me'.pc = "create" /\ Me'.key = Me.key /\ Me'.obj = Me.obj
    BY <2>1, WorkerHoldsName DEF TypeOK, ManagerTypeOK, Me
  <2>3. ReconcileShape' /\ DataTypeOK'
    BY <1>1, <1>2, <1>3, <2>2 DEF ReadRecord, TypeOK, DataTypeOK, ReconcileShape
  <2> QED
    BY <1>1, <2>1, <2>3, ReconcileStepType DEF ReadRecord
<1>4. CASE Evaluate(cachedRecord[Me.key])
  <2>1. WorkerTypeOK' /\ ReconcileShape' /\ source' \in Nat
    BY <1>4, EvaluateDecides DEF ReadRecord
  <2>2. DataTypeOK'
    BY <1>2, <2>1 DEF TypeOK, DataTypeOK
  <2> QED
    BY <1>1, <2>1, <2>2, ReconcileStepType DEF ReadRecord
<1> QED
  BY <1>3, <1>4 DEF ReadRecord

LEMMA CreateRecordType ==
    ASSUME TypeOK, CreateRecord
    PROVE  TypeOK'
<1>1. WorkerTypeOK' /\ ReconcileShape' /\ source' \in Nat
  BY EvaluateDecides DEF CreateRecord
<1>2. record' \in [Apps -> RevisionStrings \cup {Absent}]
  BY DEF CreateRecord, TypeOK, DataTypeOK, RevisionStrings
<1>3. DataTypeOK'
  BY <1>1, <1>2 DEF CreateRecord, TypeOK, DataTypeOK, githubVars, history
<1> QED
  BY <1>1, <1>3, ReconcileStepType DEF CreateRecord, TypeOK, ManagerTypeOK

\* A failed call to the API server only ends the run.
LEMMA CallFailsType ==
    ASSUME TypeOK, CreateFails \/ PatchFails
    PROVE  TypeOK'
<1>1. Me.pc \in {"create", "patch"} /\ source = 0
  BY DEF CreateFails, PatchFails, TypeOK, ReconcileShape
<1>2. /\ ReturnError(HealthComment)
      /\ UNCHANGED << app, cached, up, settled, source >>
      /\ UNCHANGED << record, cachedRecord, comments, unreached, facts,
                      healthyPosts, forgotten >>
      /\ UNCHANGED faults \/ Fault("api")
  BY DEF CreateFails, PatchFails, recordVars, githubVars, history
<1>3. WorkerTypeOK' /\ ReconcileShape'
  BY <1>1, <1>2, EndsIdle
<1>4. DataTypeOK'
  BY <1>2 DEF TypeOK, DataTypeOK
<1>5. faults' \in [FaultKinds -> Nat]
  BY <1>2, FaultType DEF FaultKinds
<1> QED
  BY <1>2, <1>3, <1>4, <1>5, ReconcileStepType

\* One round of the comment loop: where the worker goes from it.
LEMMA CommentOnSourceMoves ==
    ASSUME TypeOK, CommentOnSource
    PROVE  /\ WorkerTypeOK' /\ ReconcileShape' /\ source' \in Nat
           /\ \/ Me' = Me /\ source' = source + 1
              \/ Me' = [Me EXCEPT !.pc = "patch"] /\ Me.obj.health = "Healthy"
              \/ Me' = Idle /\ Me.obj.health # "Healthy"
<1> DEFINE n == Len(GetSourceRevisions(Me.obj))
<1>1. n \in Nat /\ source \in 1 .. n
  <2>1. GetSourceRevisions(Me.obj) \in Seq(RevisionStrings)
    BY WorkerHoldsName, SourceRevisionsType
  <2>2. source \in 1 .. n
    BY DEF CommentOnSource, TypeOK, ReconcileShape
  <2> QED
    BY <2>1, <2>2
<1>2. CASE source < n /\ source' = source + 1 /\ UNCHANGED << worker, queue, timer >>
  <2>1. Me' = Me /\ source' \in 1 .. n
    BY <1>1, <1>2 DEF Me
  <2> HIDE DEF n
  <2>2. source' \in Nat
    BY <1>1, <1>2
  <2>3. ReconcileShape'
    BY <2>1 DEF CommentOnSource, TypeOK, ReconcileShape, n
  <2>4. WorkerTypeOK'
    BY <1>2 DEF TypeOK, ManagerTypeOK, WorkerTypeOK
  <2> QED
    BY <1>2, <2>1, <2>2, <2>3, <2>4
<1>3. CASE /\ source' = 0
           /\ MayBeRecorded(Me.obj)
           /\ Goto(HealthComment, "patch")
           /\ UNCHANGED << queue, timer >>
  <2>1. WorkerTypeOK' /\ Me' = [Me EXCEPT !.pc = "patch"]
    BY <1>3, GoesOn DEF ProgramCounters
  <2>2. Me'.pc = "patch" /\ Me'.key = Me.key /\ Me'.obj = Me.obj
    BY <2>1, WorkerHoldsName DEF TypeOK, ManagerTypeOK, Me
  <2>3. ReconcileShape'
    BY <1>3, <2>2
       DEF CommentOnSource, TypeOK, ReconcileShape, MayBeRecorded
  <2> QED
    BY <1>3, <2>1, <2>3 DEF MayBeRecorded
<1>4. CASE source' = 0 /\ ~MayBeRecorded(Me.obj) /\ Return(HealthComment)
  BY <1>4, EndsIdle DEF CommentOnSource, MayBeRecorded
<1> QED
  BY <1>2, <1>3, <1>4 DEF CommentOnSource

LEMMA CommentOnSourceType ==
    ASSUME TypeOK, CommentOnSource
    PROVE  TypeOK'
<1>1. /\ Me.key \in Apps /\ Me.obj \in Objects
      /\ source \in 1 .. Len(GetSourceRevisions(Me.obj))
      /\ CurrentRevision \in RevisionStrings
  BY WorkerHoldsName, FirstSource
     DEF CommentOnSource, TypeOK, ReconcileShape, CurrentRevision
<1>2. Wanted \subseteq Comments(Apps)
  BY <1>1, HealthCommentKindType, CommentsOnSourceType DEF Wanted
<1>3. PICK reached \in SUBSET Wanted :
         /\ UNCHANGED faults \/ Fault("github")
         /\ comments' = comments \cup reached
         /\ unreached' = unreached \cup (Wanted \ reached)
         /\ \/ healthyPosts' = healthyPosts
            \/ healthyPosts' = OneMore(healthyPosts, Me.key, CurrentRevision)
  BY DEF CommentOnSource, Posted
<1>4. /\ comments' \subseteq Comments(Apps)
      /\ unreached' \subseteq Comments(Apps)
  BY <1>2, <1>3 DEF TypeOK, DataTypeOK
<1>5. healthyPosts' \in [Apps -> [RevisionStrings -> Nat]]
  <2>1. healthyPosts \in [Apps -> [RevisionStrings -> Nat]]
    BY DEF TypeOK, DataTypeOK
  <2> QED
    BY <1>1, <1>3, <2>1, CountOneMore
<1>6. DataTypeOK'
  BY <1>4, <1>5, CommentOnSourceMoves
     DEF CommentOnSource, TypeOK, DataTypeOK, recordVars
<1>7. faults' \in [FaultKinds -> Nat]
  BY <1>3, FaultType DEF FaultKinds
<1> QED
  BY <1>6, <1>7, CommentOnSourceMoves, ReconcileStepType DEF CommentOnSource

LEMMA PatchRecordType ==
    ASSUME TypeOK, PatchRecord
    PROVE  TypeOK'
<1>1. Me.key \in Apps /\ CurrentRevision \in RevisionStrings /\ source = 0
  BY WorkerHoldsName, FirstSource
     DEF PatchRecord, TypeOK, ReconcileShape, CurrentRevision
<1>2. WorkerTypeOK' /\ ReconcileShape'
  BY <1>1, EndsIdle DEF PatchRecord
<1>3. record' \in [Apps -> RevisionStrings \cup {Absent}]
  BY <1>1 DEF PatchRecord, TypeOK, DataTypeOK
<1>4. forgotten' \in [Apps -> [RevisionStrings -> Nat]]
  <2>1. \/ forgotten' = forgotten
        \/ \E r \in RevisionStrings :
              forgotten' = OneMore(forgotten, Me.key, r)
    BY <1>1 DEF PatchRecord, TypeOK, DataTypeOK
  <2>2. forgotten \in [Apps -> [RevisionStrings -> Nat]]
    BY DEF TypeOK, DataTypeOK
  <2> QED
    BY <1>1, <2>1, <2>2, CountOneMore
<1>5. DataTypeOK'
  BY <1>3, <1>4 DEF PatchRecord, TypeOK, DataTypeOK, githubVars
<1> QED
  BY <1>2, <1>5, ReconcileStepType DEF PatchRecord, TypeOK, ManagerTypeOK

LEMMA CollectRecordType ==
    ASSUME TypeOK, NEW a \in Apps, CollectRecord(a)
    PROVE  TypeOK'
<1>1. record[a] \in RevisionStrings
  BY DEF CollectRecord, TypeOK, DataTypeOK
<1>3. forgotten' \in [Apps -> [RevisionStrings -> Nat]]
  BY <1>1, CountOneMore DEF CollectRecord, TypeOK, DataTypeOK
<1>4. record' \in [Apps -> RevisionStrings \cup {Absent}]
  BY DEF CollectRecord, TypeOK, DataTypeOK
<1>5. UNCHANGED managerVars /\ UNCHANGED << cachedRecord, source, comments,
                                            unreached, facts, healthyPosts >>
  BY DEF CollectRecord, githubVars
<1>6. DataTypeOK'
  BY <1>3, <1>4, <1>5 DEF TypeOK, DataTypeOK
<1>7. ManagerTypeOK' /\ ReconcileShape'
  BY <1>5 DEF TypeOK, ManagerTypeOK, ReconcileShape, Me, managerVars
<1> QED
  BY <1>6, <1>7 DEF TypeOK

\* Steps that leave the reconciler's own variables alone.
LEMMA ReconcilerUnchanged ==
    ASSUME TypeOK, UNCHANGED reconcilerVars
    PROVE  DataTypeOK'
BY DEF TypeOK, DataTypeOK, reconcilerVars, recordVars, githubVars, history

LEMMA EnvironmentType ==
    ASSUME TypeOK, NEW a \in Apps, Environment(a)
    PROVE  TypeOK'
<1>1. ManagerTypeOK' /\ app'[a] \in Objects /\ UNCHANGED << worker, settled >>
  BY ArgoCDType DEF Environment, TypeOK
<1>2. facts' \subseteq CommentFacts
  BY <1>1, FactsType DEF Environment, TypeOK, DataTypeOK
<1>3. DataTypeOK' /\ ReconcileShape'
  BY <1>1, <1>2
     DEF Environment, TypeOK, DataTypeOK, ReconcileShape, Me, recordVars, githubVars
<1> QED
  BY <1>1, <1>3 DEF TypeOK

LEMMA TakeType ==
    ASSUME TypeOK, NEW a \in Apps, Take(a)
    PROVE  TypeOK'
<1>1. ManagerTypeOK' /\ DataTypeOK' /\ UNCHANGED source
  BY DequeueType, ReconcilerUnchanged, HealthCommentAssumption
     DEF Take, TypeOK, reconcilerVars
<1>2. Me' = [Idle EXCEPT !.pc = "get", !.key = a]
  BY HealthCommentAssumption DEF Take, Dequeue, Me, TypeOK, ManagerTypeOK
<1>3. ReconcileShape'
  BY <1>1, <1>2, NoAppAssumption
     DEF Take, Dequeue, TypeOK, ReconcileShape, Idle, Me
<1> QED
  BY <1>1, <1>3 DEF TypeOK

\* What GitHub may have accepted when the process died.
LEMMA StopPosts ==
    ASSUME TypeOK, Stop
    PROVE  /\ \/ UNCHANGED << comments, healthyPosts >>
              \/ /\ Me.pc = "comment"
                 /\ \E reached \in SUBSET Wanted : comments' = comments \cup reached
                 /\ \/ healthyPosts' = healthyPosts
                    \/ /\ source = 1 /\ Me.obj.health = "Healthy"
                       /\ healthyPosts' = OneMore(healthyPosts, Me.key, CurrentRevision)
           /\ comments' \subseteq Comments(Apps)
           /\ healthyPosts' \in [Apps -> [RevisionStrings -> Nat]]
<1>1. comments \subseteq Comments(Apps)
      /\ healthyPosts \in [Apps -> [RevisionStrings -> Nat]]
  BY DEF TypeOK, DataTypeOK
<1>2. CASE Me.pc = "comment"
  <2>1. /\ Me.key \in Apps /\ CurrentRevision \in RevisionStrings
        /\ Wanted \subseteq Comments(Apps)
    BY <1>2, WorkerHoldsName, FirstSource, HealthCommentKindType,
       CommentsOnSourceType DEF TypeOK, ReconcileShape, CurrentRevision, Wanted
  <2>2. PICK reached \in SUBSET Wanted : Posted(reached)
    BY <1>2 DEF Stop
  <2>3. /\ comments' = comments \cup reached
        /\ \/ healthyPosts' = healthyPosts
           \/ /\ source = 1 /\ Me.obj.health = "Healthy"
              /\ healthyPosts' = OneMore(healthyPosts, Me.key, CurrentRevision)
    BY <2>2 DEF Posted
  <2>4. healthyPosts' \in [Apps -> [RevisionStrings -> Nat]]
    <3>1. OneMore(healthyPosts, Me.key, CurrentRevision)
             \in [Apps -> [RevisionStrings -> Nat]]
      BY <1>1, <2>1, CountOneMore
    <3> QED
      BY <1>1, <2>3, <3>1
  <2>5. comments' \subseteq Comments(Apps)
    BY <1>1, <2>1, <2>3
  <2> QED
    BY <1>2, <2>3, <2>4, <2>5
<1>3. CASE Me.pc # "comment"
  <2>1. Posted({})
    BY <1>3 DEF Stop
  <2>2. UNCHANGED << comments, healthyPosts >>
    BY <2>1 DEF Posted
  <2> QED
    BY <1>1, <2>2
<1> QED
  BY <1>2, <1>3

LEMMA StopType ==
    ASSUME TypeOK, Stop
    PROVE  TypeOK'
<1>1. ManagerTypeOK'
  BY CrashType DEF Stop, TypeOK
<1>2. Me' = Idle
  BY HealthCommentAssumption DEF Stop, Crash, Me
<1>3. ReconcileShape'
  BY <1>2 DEF Stop, ReconcileShape, Idle
<1>4. /\ comments' \subseteq Comments(Apps)
      /\ healthyPosts' \in [Apps -> [RevisionStrings -> Nat]]
  BY StopPosts
<1>5. DataTypeOK'
  BY <1>4 DEF Stop, TypeOK, DataTypeOK, recordVars
<1> QED
  BY <1>1, <1>3, <1>5 DEF TypeOK

\* The steps of the informers, the clock and the queues.
LEMMA ManagerStepType ==
    ASSUME TypeOK, NEW a \in Apps,
           Watch(a) \/ Wait(a) \/ Requeue(a) \/ DeliverRecord(a)
    PROVE  TypeOK'
<1>1. CASE Watch(a) \/ Requeue(a)
  <2>1. ManagerTypeOK' /\ UNCHANGED << worker, settled >> /\ UNCHANGED reconcilerVars
    BY <1>1, DeliverType, TimerFiresType, HealthCommentAssumption
       DEF Watch, Requeue, TypeOK, Deliver, TimerFires
  <2> QED
    BY <2>1, ReconcilerUnchanged DEF TypeOK, ReconcileShape, Me, reconcilerVars
<1>2. CASE Wait(a)
  <2>1. /\ ManagerTypeOK' /\ UNCHANGED worker /\ UNCHANGED reconcilerVars
        /\ \A b \in Apps : settled[b] <= settled'[b]
    BY <1>2, SettleType, SettledGrows DEF Wait, Settle, TypeOK
  <2>2. Me.pc \in {"comment", "patch"} => Me.obj.operationAt <= settled'[Me.key]
    <3> SUFFICES ASSUME Me.pc \in {"comment", "patch"}
                 PROVE  Me.obj.operationAt <= settled'[Me.key]
      OBVIOUS
    <3>1. Me.key \in Apps /\ Me.obj \in Objects
      BY WorkerHoldsName
    <3>2. /\ Me.obj.operationAt \in Nat
          /\ settled[Me.key] \in Nat /\ settled'[Me.key] \in Nat
      BY <2>1, <3>1 DEF TypeOK, ManagerTypeOK, Objects, Stamps
    <3>3. Me.obj.operationAt <= settled[Me.key]
      BY DEF TypeOK, ReconcileShape
    <3> QED
      BY <2>1, <3>1, <3>2, <3>3
  <2> QED
    BY <2>1, <2>2, ReconcilerUnchanged DEF TypeOK, ReconcileShape, Me, reconcilerVars
<1>3. CASE DeliverRecord(a)
  BY <1>3 DEF DeliverRecord, TypeOK, ManagerTypeOK, DataTypeOK, ReconcileShape,
              Me, managerVars, githubVars, history
<1> QED
  BY <1>1, <1>2, <1>3

LEMMA RestartType ==
    ASSUME TypeOK, Restart
    PROVE  TypeOK'
<1>1. ManagerTypeOK' /\ UNCHANGED << worker, settled, source >>
  BY StartType DEF Restart, Start, TypeOK
<1>2. DataTypeOK' /\ ReconcileShape'
  BY <1>1 DEF Restart, TypeOK, DataTypeOK, ReconcileShape, Me, githubVars, history
<1> QED
  BY <1>1, <1>2 DEF TypeOK

LEMMA InitTypeOK ==
    ASSUME Init
    PROVE  TypeOK
<1>1. ManagerTypeOK
  BY ManagerInitType DEF Init
<1>2. Me = Idle
  BY HealthCommentAssumption DEF Init, ManagerInit, Me
<1> QED
  BY <1>1, <1>2 DEF Init, TypeOK, DataTypeOK, ReconcileShape, Idle

LEMMA NextTypeOK ==
    ASSUME TypeOK, [Next]_vars
    PROVE  TypeOK'
<1>1. CASE Reconcile
  BY <1>1, GetApplicationType, ReadRecordType, CreateRecordType,
     CallFailsType, CommentOnSourceType, PatchRecordType DEF Reconcile
<1>2. CASE UNCHANGED vars
  BY <1>2, ReconcilerUnchanged
     DEF TypeOK, ManagerTypeOK, ReconcileShape, Me, vars, managerVars,
         reconcilerVars
<1> QED
  BY <1>1, <1>2, EnvironmentType, ManagerStepType, TakeType,
     CollectRecordType, StopType, RestartType DEF Next

\* Every state of the program is well typed and every run of the reconciler
\* has the shape its code gives it (applicationhealthcomment_controller.go).
THEOREM TypeCorrect == Spec => []TypeOK
<1>1. Init => TypeOK
  BY InitTypeOK
<1>2. TypeOK /\ [Next]_vars => TypeOK'
  BY NextTypeOK
<1> QED
  BY <1>1, <1>2, PTL DEF Spec

-----------------------------------------------------------------------------
(* What the record and the comments say.                                   *)

\* Everything an object, its cached copy or the worker's copy shows was a
\* fact when Argo CD wrote it.
FactsKnown ==
    /\ \A a \in Apps : Facts(a, app[a]) \subseteq facts
    /\ \A a \in Apps : Facts(a, cached[a]) \subseteq facts
    /\ Me.pc \notin {"idle", "get"} => Facts(Me.key, Me.obj) \subseteq facts

\* The worker is past the comments on the first source of a healthy object.
FirstSourceDone ==
    /\ Me.pc \in {"comment", "patch"}
    /\ Me.obj.health = "Healthy"
    /\ source # 1

\* By then the comments that the record will suppress were attempted.
WorkerAttempted ==
    FirstSourceDone =>
        HealthyComments(Me.key, CurrentRevision) \subseteq comments \cup unreached

TruthInv ==
    /\ TypeOK
    /\ CommentsTruthful
    /\ RecordedWasHealthy
    /\ RecordedIsAttempted
    /\ FactsKnown
    /\ WorkerAttempted

\* A step that adds facts, comments or failed comments and leaves the record
\* keeps what is said of them, if each new comment is a fact.
LEMMA TruthGrows ==
    ASSUME TruthInv, facts \subseteq facts', UNCHANGED record,
           comments \cup unreached \subseteq (comments \cup unreached)',
           \A m \in (comments \cup unreached)' :
              \/ m \in comments \cup unreached
              \/ [app |-> m.app, revision |-> m.revision, kind |-> m.kind] \in facts
    PROVE  CommentsTruthful' /\ RecordedWasHealthy' /\ RecordedIsAttempted'
<1>1. CommentsTruthful'
  BY DEF TruthInv, CommentsTruthful
<1>2. RecordedWasHealthy'
  BY DEF TruthInv, RecordedWasHealthy
<1>3. RecordedIsAttempted'
  BY DEF TruthInv, RecordedIsAttempted, HealthyComments
<1> QED
  BY <1>1, <1>2, <1>3

\* A step that writes no record, fact or comment.
LEMMA TruthUnchanged ==
    ASSUME TruthInv, UNCHANGED << record, facts, comments, unreached >>
    PROVE  CommentsTruthful' /\ RecordedWasHealthy' /\ RecordedIsAttempted'
BY TruthGrows

\* A step that also keeps the worker, and shows it no new object.
LEMMA TruthFrame ==
    ASSUME TruthInv, TypeOK', UNCHANGED << record, facts, comments, unreached >>,
           \/ UNCHANGED Me /\ UNCHANGED source
           \/ Me'.pc \in {"idle", "get"},
           \A a \in Apps : app'[a] \in {app[a]} \cup {cached[a]},
           \A a \in Apps : cached'[a] \in {app[a]} \cup {cached[a]}
    PROVE  TruthInv'
<1>1. CommentsTruthful' /\ RecordedWasHealthy' /\ RecordedIsAttempted'
  BY TruthUnchanged
<1>2. FactsKnown'
  BY DEF TruthInv, FactsKnown, Facts
<1>3. WorkerAttempted'
  BY DEF TruthInv, WorkerAttempted, FirstSourceDone, CurrentRevision,
         HealthyComments
<1> QED
  BY <1>1, <1>2, <1>3 DEF TruthInv

\* The first source's revision of an object synced with success is a fact
\* with the object's health.
LEMMA CurrentRevisionIsFact ==
    ASSUME TruthInv, Me.pc \in {"comment", "patch"},
           NEW i \in 1 .. Len(GetSourceRevisions(Me.obj))
    PROVE  [app |-> Me.key, revision |-> GetSourceRevisions(Me.obj)[i],
            kind |-> Me.obj.health] \in facts
<1>1. Me.obj.exists /\ Me.obj.phase = "Succeeded"
  BY DEF TruthInv, TypeOK, ReconcileShape
<1>2. Facts(Me.key, Me.obj) \subseteq facts
  BY DEF TruthInv, FactsKnown
<1> QED
  BY <1>1, <1>2 DEF Facts

LEMMA TruthGetApplication ==
    ASSUME TruthInv, GetApplication
    PROVE  TruthInv'
<1>1. TypeOK /\ TypeOK' /\ UNCHANGED << app, cached, record, facts, comments,
                                        unreached, source >>
  BY GetApplicationType
     DEF TruthInv, GetApplication, recordVars, githubVars, history
<1>2. CommentsTruthful' /\ RecordedWasHealthy' /\ RecordedIsAttempted'
  BY <1>1, TruthUnchanged
<1>3. Me.key \in Apps
  BY <1>1, WorkerHoldsName DEF GetApplication
<1>4. \/ Me' = Idle
      \/ Me'.pc = "read" /\ Me'.key = Me.key /\ Me'.obj = cached[Me.key]
  BY <1>1, HealthCommentAssumption
     DEF GetApplication, Return, GotApplication, TypeOK, ManagerTypeOK, Me
<1>5. FactsKnown'
  BY <1>1, <1>3, <1>4 DEF TruthInv, FactsKnown, Facts, Idle
<1>6. WorkerAttempted'
  BY <1>4 DEF WorkerAttempted, FirstSourceDone, Idle
<1> QED
  BY <1>1, <1>2, <1>5, <1>6 DEF TruthInv

\* A step of a run that keeps its object, before any comment is posted.
LEMMA TruthBeforeComments ==
    ASSUME TruthInv, TypeOK', Me.pc \in {"read", "create"},
           UNCHANGED << app, cached, facts, comments, unreached >>,
           \/ Me' = Idle
           \/ Me' = [Me EXCEPT !.pc = "create"]
           \/ Me' = [Me EXCEPT !.pc = "comment"] /\ source' = 1
    PROVE  FactsKnown' /\ WorkerAttempted'
<1>1. \/ Me'.pc = "idle"
      \/ Me'.pc = "create" /\ Me'.key = Me.key /\ Me'.obj = Me.obj
      \/ Me'.pc = "comment" /\ Me'.key = Me.key /\ Me'.obj = Me.obj /\ source' = 1
  BY HealthCommentAssumption DEF TruthInv, TypeOK, ManagerTypeOK, Me, Idle
<1>2. FactsKnown'
  BY <1>1 DEF TruthInv, FactsKnown, Facts
<1>3. WorkerAttempted'
  BY <1>1 DEF WorkerAttempted, FirstSourceDone
<1> QED
  BY <1>2, <1>3

LEMMA TruthReadRecord ==
    ASSUME TruthInv, ReadRecord
    PROVE  TruthInv'
<1>1. TypeOK /\ TypeOK' /\ UNCHANGED << app, cached, record, facts, comments,
                                        unreached >>
  BY ReadRecordType DEF TruthInv, ReadRecord, recordVars, githubVars, history
<1>2. \/ Me' = Idle
      \/ Me' = [Me EXCEPT !.pc = "create"]
      \/ Me' = [Me EXCEPT !.pc = "comment"] /\ source' = 1
  BY <1>1, EvaluateDecides, GoesOn DEF ReadRecord, ProgramCounters
<1>3. FactsKnown' /\ WorkerAttempted'
  BY <1>1, <1>2, TruthBeforeComments DEF ReadRecord
<1> QED
  BY <1>1, <1>3, TruthUnchanged DEF TruthInv

LEMMA TruthCreateRecord ==
    ASSUME TruthInv, CreateRecord
    PROVE  TruthInv'
<1>1. TypeOK /\ TypeOK' /\ UNCHANGED << app, cached, facts, comments, unreached >>
  BY CreateRecordType DEF TruthInv, CreateRecord, githubVars, history
<1>2. FactsKnown' /\ WorkerAttempted'
  BY <1>1, EvaluateDecides, TruthBeforeComments DEF CreateRecord
<1>3. \A a \in Apps : record'[a] \in Revisions => record'[a] = record[a]
  BY <1>1, RevisionAssumption DEF CreateRecord, TypeOK, DataTypeOK
<1>4. CommentsTruthful' /\ RecordedWasHealthy' /\ RecordedIsAttempted'
  BY <1>1, <1>3 DEF TruthInv, CommentsTruthful, RecordedWasHealthy,
                    RecordedIsAttempted, HealthyComments
<1> QED
  BY <1>1, <1>2, <1>4 DEF TruthInv

\* The comments of one source are facts, and those of the first source of a
\* healthy object are the ones its record will suppress.
LEMMA WantedComments ==
    ASSUME TruthInv, Me.pc = "comment"
    PROVE  /\ \A m \in Wanted :
                [app |-> m.app, revision |-> m.revision, kind |-> m.kind] \in facts
           /\ source = 1 /\ Me.obj.health = "Healthy"
                => HealthyComments(Me.key, CurrentRevision) \subseteq Wanted
<1> DEFINE kind == HealthCommentKind(Me.obj)
           r == GetSourceRevisions(Me.obj)[source]
<1> USE DEF Wanted
<1>1. source \in 1 .. Len(GetSourceRevisions(Me.obj))
  BY DEF TruthInv, TypeOK, ReconcileShape
<1>2. [app |-> Me.key, revision |-> r, kind |-> Me.obj.health] \in facts
  BY <1>1, CurrentRevisionIsFact
<1>3. kind = NoComment \/ kind = Me.obj.health
  BY DEF HealthCommentKind
<1>4. CASE kind = NoComment \/ source \notin GitHubSources
  <2>1. CommentsOnSource(Me.key, Me.obj, source, kind) = {}
    BY <1>4 DEF CommentsOnSource
  <2>2. Me.obj.health = "Healthy" => kind = "Healthy"
    BY DEF HealthCommentKind
  <2>3. source = 1 /\ Me.obj.health = "Healthy"
          => HealthyComments(Me.key, CurrentRevision) = {}
    BY <1>4, <2>2 DEF HealthyComments, NoComment
  <2> QED
    BY <2>1, <2>3
<1>5. CASE ~(kind = NoComment \/ source \notin GitHubSources)
  <2>1. CommentsOnSource(Me.key, Me.obj, source, kind) =
          {[app |-> Me.key, target |-> t, revision |-> r, kind |-> kind] :
             t \in CommentTargets(r)}
    BY <1>5 DEF CommentsOnSource
  <2>2. kind = Me.obj.health
    BY <1>3, <1>5
  <2> HIDE DEF kind, r
  <2>3. \A m \in CommentsOnSource(Me.key, Me.obj, source, kind) :
          [app |-> m.app, revision |-> m.revision, kind |-> m.kind] \in facts
    BY <1>2, <2>1, <2>2
  <2>4. source = 1 => r = CurrentRevision
    BY DEF r, CurrentRevision
  <2>5. source = 1 /\ Me.obj.health = "Healthy"
          => HealthyComments(Me.key, CurrentRevision)
                \subseteq CommentsOnSource(Me.key, Me.obj, source, kind)
    BY <1>5, <2>1, <2>2, <2>4 DEF HealthyComments
  <2> QED
    BY <2>3, <2>5 DEF kind
<1> QED
  BY <1>4, <1>5

LEMMA TruthCommentOnSource ==
    ASSUME TruthInv, CommentOnSource
    PROVE  TruthInv'
<1>1. TypeOK /\ TypeOK' /\ UNCHANGED << app, cached, record, facts >>
  BY CommentOnSourceType DEF TruthInv, CommentOnSource, recordVars
<1>2. (comments \cup unreached)' = comments \cup unreached \cup Wanted
  <2>1. PICK reached \in SUBSET Wanted :
          /\ comments' = comments \cup reached
          /\ unreached' = unreached \cup (Wanted \ reached)
    BY DEF CommentOnSource, Posted
  <2> QED
    BY <2>1
<1>3. /\ \A m \in Wanted :
           [app |-> m.app, revision |-> m.revision, kind |-> m.kind] \in facts
      /\ source = 1 /\ Me.obj.health = "Healthy"
           => HealthyComments(Me.key, CurrentRevision) \subseteq Wanted
  BY WantedComments DEF CommentOnSource
<1>4. CommentsTruthful' /\ RecordedWasHealthy' /\ RecordedIsAttempted'
  BY <1>1, <1>2, <1>3, TruthGrows
<1>5. \/ Me'.pc = "idle"
      \/ /\ Me'.pc \in {"comment", "patch"}
         /\ Me'.key = Me.key /\ Me'.obj = Me.obj
  <2>1. Me \in [pc : ProgramCounters, key : Apps \cup {NoApp}, obj : Objects]
    BY <1>1, WorkerHoldsName
  <2>2. Me.pc = "comment"
    BY DEF CommentOnSource
  <2>3. \/ Me' = Me
        \/ Me' = [Me EXCEPT !.pc = "patch"]
        \/ Me' = Idle
    BY <1>1, CommentOnSourceMoves
  <2> QED
    BY <2>1, <2>2, <2>3 DEF Idle
<1>6. FactsKnown'
  BY <1>1, <1>5 DEF CommentOnSource, TruthInv, FactsKnown, Facts
<1>7. WorkerAttempted'
  <2>1. CASE Me'.pc = "idle"
    BY <2>1 DEF WorkerAttempted, FirstSourceDone
  <2>2. CASE /\ Me'.pc \in {"comment", "patch"}
             /\ Me'.key = Me.key /\ Me'.obj = Me.obj
    <3>1. Me.obj.health = "Healthy"
            => HealthyComments(Me.key, CurrentRevision)
                  \subseteq (comments \cup unreached)'
      BY <1>2, <1>3 DEF CommentOnSource, TruthInv, WorkerAttempted, FirstSourceDone
    <3> QED
      BY <2>2, <3>1 DEF WorkerAttempted, FirstSourceDone, CurrentRevision,
                        HealthyComments
  <2> QED
    BY <1>5, <2>1, <2>2
<1> QED
  BY <1>1, <1>4, <1>6, <1>7 DEF TruthInv

LEMMA TruthPatchRecord ==
    ASSUME TruthInv, PatchRecord
    PROVE  TruthInv'
<1>1. TypeOK /\ TypeOK' /\ UNCHANGED << app, cached, facts, comments, unreached >>
  BY PatchRecordType DEF TruthInv, PatchRecord, githubVars
<1>2. /\ Me.obj.health = "Healthy" /\ Me.key \in Apps /\ source = 0
      /\ 1 \in 1 .. Len(GetSourceRevisions(Me.obj))
  BY <1>1, WorkerHoldsName, FirstSource DEF PatchRecord, TypeOK, ReconcileShape
<1>3. [app |-> Me.key, revision |-> CurrentRevision, kind |-> "Healthy"] \in facts
  BY <1>2, CurrentRevisionIsFact DEF PatchRecord, CurrentRevision
<1>4. HealthyComments(Me.key, CurrentRevision) \subseteq comments \cup unreached
  BY <1>2 DEF PatchRecord, TruthInv, WorkerAttempted, FirstSourceDone
<1>5. Me' = Idle
  BY <1>1, <1>2, EndsIdle DEF PatchRecord
<1>6. ASSUME NEW a \in Apps
      PROVE  \/ record'[a] = record[a]
             \/ a = Me.key /\ record'[a] = CurrentRevision
  <2>1. \/ record' = record
        \/ record' = [record EXCEPT ![Me.key] = CurrentRevision]
    BY DEF PatchRecord
  <2>2. record \in [Apps -> RevisionStrings \cup {Absent}]
    BY <1>1 DEF TypeOK, DataTypeOK
  <2> QED
    BY <1>2, <2>1, <2>2
<1>7. CommentsTruthful'
  BY <1>1 DEF TruthInv, CommentsTruthful
<1>8. RecordedWasHealthy'
  BY <1>1, <1>3, <1>6 DEF TruthInv, RecordedWasHealthy
<1>9. RecordedIsAttempted'
  BY <1>1, <1>4, <1>6 DEF TruthInv, RecordedIsAttempted, HealthyComments
<1>10. FactsKnown' /\ WorkerAttempted'
  BY <1>1, <1>5 DEF TruthInv, FactsKnown, Facts, WorkerAttempted,
                    FirstSourceDone, Idle
<1> QED
  BY <1>1, <1>7, <1>8, <1>9, <1>10 DEF TruthInv

LEMMA TruthCollectRecord ==
    ASSUME TruthInv, NEW a \in Apps, CollectRecord(a)
    PROVE  TruthInv'
<1>1. TypeOK /\ TypeOK' /\ UNCHANGED << app, cached, worker, source, facts,
                                        comments, unreached >>
  BY CollectRecordType DEF TruthInv, CollectRecord, managerVars, githubVars
<1>2. \A b \in Apps : record'[b] \in Revisions => record'[b] = record[b]
  BY <1>1, AbsentAssumption
     DEF CollectRecord, TypeOK, DataTypeOK, RevisionStrings
<1>3. CommentsTruthful' /\ RecordedWasHealthy' /\ RecordedIsAttempted'
  BY <1>1, <1>2 DEF TruthInv, CommentsTruthful, RecordedWasHealthy,
                    RecordedIsAttempted, HealthyComments
<1>4. FactsKnown' /\ WorkerAttempted'
  BY <1>1 DEF TruthInv, FactsKnown, Facts, WorkerAttempted, FirstSourceDone,
              CurrentRevision, HealthyComments, Me
<1> QED
  BY <1>1, <1>3, <1>4 DEF TruthInv

LEMMA TruthEnvironment ==
    ASSUME TruthInv, NEW a \in Apps, Environment(a)
    PROVE  TruthInv'
<1>1. TypeOK /\ TypeOK' /\ UNCHANGED << cached, worker, record, source, comments,
                                        unreached >>
  BY EnvironmentType, ArgoCDType
     DEF TruthInv, TypeOK, Environment, recordVars, githubVars
<1>2. facts' = facts \cup Facts(a, app'[a]) /\ app' = [app EXCEPT ![a] = app'[a]]
  BY <1>1, ArgoCDType DEF Environment, TypeOK
<1>3. CommentsTruthful' /\ RecordedWasHealthy' /\ RecordedIsAttempted'
  BY <1>1, <1>2, TruthGrows
<1>4. FactsKnown'
  <2>1. app \in [Apps -> Objects] /\ UNCHANGED Me
    BY <1>1 DEF TypeOK, ManagerTypeOK, Me
  <2>2. \A b \in Apps : app'[b] = app[b] \/ b = a
    BY <1>2, <2>1
  <2>3. \A b \in Apps : Facts(b, app'[b]) \subseteq facts'
    BY <1>2, <2>2 DEF TruthInv, FactsKnown
  <2>4. \A b \in Apps : Facts(b, cached'[b]) \subseteq facts'
    BY <1>1, <1>2 DEF TruthInv, FactsKnown
  <2> QED
    BY <1>2, <2>1, <2>3, <2>4 DEF TruthInv, FactsKnown, Facts
<1>5. WorkerAttempted'
  BY <1>1 DEF TruthInv, WorkerAttempted, FirstSourceDone, CurrentRevision,
              HealthyComments, Me
<1> QED
  BY <1>1, <1>3, <1>4, <1>5 DEF TruthInv

\* Steps that end a run, or leave the worker alone.
LEMMA TruthOther ==
    ASSUME TruthInv, TypeOK',
           \/ CreateFails
           \/ PatchFails
           \/ Stop
           \/ Restart
           \/ \E a \in Apps : Watch(a) \/ Wait(a) \/ Requeue(a) \/ Take(a)
                             \/ DeliverRecord(a)
           \/ UNCHANGED vars
    PROVE  TruthInv'
<1>1. TypeOK
  BY DEF TruthInv
<1>2. CASE CreateFails \/ PatchFails
  <2>1. Me' = Idle
    BY <1>1, <1>2, EndsIdle DEF CreateFails, PatchFails, TypeOK, ReconcileShape
  <2> QED
    BY <1>2, <2>1, TruthFrame
       DEF CreateFails, PatchFails, Idle, recordVars, githubVars, history
<1>3. CASE Stop
  <2>1. Me'.pc = "idle"
    BY <1>3, HealthCommentAssumption DEF Stop, Crash, Me, Idle
  <2>2. /\ comments \subseteq comments'
        /\ \A m \in comments' :
              \/ m \in comments
              \/ [app |-> m.app, revision |-> m.revision, kind |-> m.kind] \in facts
    BY <1>1, <1>3, StopPosts, WantedComments
  <2>3. CommentsTruthful' /\ RecordedWasHealthy' /\ RecordedIsAttempted'
    BY <1>3, <2>2, TruthGrows DEF Stop, recordVars
  <2>4. FactsKnown' /\ WorkerAttempted'
    BY <1>3, <2>1
       DEF Stop, Crash, TruthInv, FactsKnown, Facts, WorkerAttempted, FirstSourceDone
  <2> QED
    BY <2>3, <2>4 DEF TruthInv
<1>4. CASE Restart
  BY <1>4, TruthFrame DEF Restart, Start, Me, githubVars, history
<1>5. ASSUME NEW a \in Apps, Watch(a)
      PROVE  TruthInv'
  <2>1. \A b \in Apps : cached'[b] \in {app[b]} \cup {cached[b]}
    BY <1>1, <1>5 DEF Watch, Deliver, TypeOK, ManagerTypeOK
  <2> QED
    BY <1>5, <2>1, TruthFrame
       DEF Watch, Deliver, Me, reconcilerVars, recordVars, githubVars, history
<1>6. ASSUME NEW a \in Apps, Wait(a) \/ Requeue(a) \/ DeliverRecord(a)
      PROVE  TruthInv'
  BY <1>6, TruthFrame
     DEF Wait, Settle, Requeue, TimerFires, DeliverRecord, Me, managerVars,
         reconcilerVars, recordVars, githubVars, history
<1>7. ASSUME NEW a \in Apps, Take(a)
      PROVE  TruthInv'
  <2>1. Me'.pc = "get"
    BY <1>1, <1>7, HealthCommentAssumption
       DEF Take, Dequeue, Me, Idle, TypeOK, ManagerTypeOK
  <2> QED
    BY <1>7, <2>1, TruthFrame
       DEF Take, Dequeue, reconcilerVars, recordVars, githubVars, history
<1>8. CASE UNCHANGED vars
  BY <1>8, TruthFrame
     DEF vars, managerVars, reconcilerVars, recordVars, githubVars, history, Me
<1> QED
  BY <1>2, <1>3, <1>4, <1>5, <1>6, <1>7, <1>8

\* The invariant behind the three theorems below.  It adds to them that the
\* copies of an object show facts only, and that a worker past the first
\* source has attempted the comments its record will suppress.
THEOREM TruthInvariant == Spec => []TruthInv
<1>1. Init => TruthInv
  <2> SUFFICES ASSUME Init PROVE TruthInv
    OBVIOUS
  <2>1. TypeOK
    BY InitTypeOK
  <2>2. Me = Idle
    BY HealthCommentAssumption DEF Init, ManagerInit, Me
  <2>3. \A a \in Apps : record[a] = Absent /\ app[a].phase = "" /\ cached = app
    BY DEF Init, ManagerInit, NoApplication
  <2>4. RecordedWasHealthy /\ RecordedIsAttempted
    BY <2>3, AbsentAssumption
       DEF RecordedWasHealthy, RecordedIsAttempted, RevisionStrings
  <2>5. CommentsTruthful
    BY DEF Init, CommentsTruthful
  <2>6. FactsKnown /\ WorkerAttempted
    BY <2>2, <2>3 DEF FactsKnown, Facts, WorkerAttempted, FirstSourceDone, Idle
  <2> QED
    BY <2>1, <2>4, <2>5, <2>6 DEF TruthInv
<1>2. TruthInv /\ [Next]_vars => TruthInv'
  <2> SUFFICES ASSUME TruthInv, [Next]_vars PROVE TruthInv'
    OBVIOUS
  <2>1. TypeOK /\ TypeOK'
    BY NextTypeOK DEF TruthInv
  <2>2. CASE Reconcile
    BY <2>1, <2>2, TruthGetApplication, TruthReadRecord, TruthCreateRecord,
       TruthCommentOnSource, TruthPatchRecord, TruthOther DEF Reconcile
  <2> QED
    BY <2>1, <2>2, TruthEnvironment, TruthCollectRecord, TruthOther DEF Next
<1> QED
  BY <1>1, <1>2, PTL DEF Spec

\* A posted comment states what an object showed after a successful sync
\* (notification/healthcomment.go), whatever the applications, revisions,
\* sources, bounds and faults.
THEOREM CommentsAreTruthful == Spec => []CommentsTruthful
<1>1. TruthInv => CommentsTruthful
  BY DEF TruthInv
<1> QED
  BY <1>1, TruthInvariant, PTL

\* lastHealthyRevision names a revision at which the object was healthy.
THEOREM RecordIsOfHealthyRevision == Spec => []RecordedWasHealthy
<1>1. TruthInv => RecordedWasHealthy
  BY DEF TruthInv
<1> QED
  BY <1>1, TruthInvariant, PTL

\* What the record suppresses was attempted before.
THEOREM RecordFollowsComments == Spec => []RecordedIsAttempted
<1>1. TruthInv => RecordedIsAttempted
  BY DEF TruthInv
<1> QED
  BY <1>1, TruthInvariant, PTL

-----------------------------------------------------------------------------
(* The abstract ledger.                                                    *)

InPass == Me.pc \in {"comment", "patch"}

LEMMA PassOfWorker ==
    ASSUME TypeOK
    PROVE  /\ ~InPass => Pass = NoPass
           /\ InPass => /\ Pass # NoPass
                        /\ Pass.name = Me.key
                        /\ Pass.revision = CurrentRevision
                        /\ Me.key \in Apps
                        /\ CurrentRevision \in RevisionStrings
<1>1. CASE ~InPass
  BY <1>1 DEF InPass, Pass
<1>2. CASE InPass
  <2>1. Pass = [name |-> Me.key, revision |-> CurrentRevision]
    BY <1>2 DEF InPass, Pass
  <2>2. Me.key \in Apps
    BY <1>2, WorkerHoldsName DEF InPass
  <2>3. CurrentRevision \in RevisionStrings
    BY <1>2, WorkerHoldsName, FirstSource
       DEF InPass, TypeOK, ReconcileShape, CurrentRevision
  <2> QED
    BY <1>2, <2>1, <2>2, <2>3, NoAppAssumption DEF NoPass
<1> QED
  BY <1>1, <1>2

LEMMA PassEnds ==
    ASSUME ~InPass' PROVE Pass' = NoPass
BY DEF InPass, Pass, NoPass

LEMMA PassStays ==
    ASSUME InPass, InPass', Me'.key = Me.key, Me'.obj = Me.obj
    PROVE  Pass' = Pass
BY DEF InPass, Pass, CurrentRevision

\* Only a stale read of the record is counted as a misread ledger.
LEMMA StaleCounts ==
    ASSUME TypeOK, NEW k \in FaultKinds, Fault(k)
    PROVE  faults'["stale"] = IF k = "stale" THEN faults["stale"] + 1 ELSE faults["stale"]
BY DEF TypeOK, ManagerTypeOK, Fault, FaultKinds

\* What the worker does outside of a pass, and does to itself, is nothing to
\* the ledger.
LEMMA LedgerFrame ==
    ASSUME UNCHANGED << record, facts, comments, unreached >>,
           faults'["stale"] = faults["stale"],
           Pass' = Pass
    PROVE  UNCHANGED Ledger!vars
BY DEF Ledger!vars

LEMMA LedgerReadRecord ==
    ASSUME TruthInv, ReadRecord
    PROVE  [Ledger!Next]_(Ledger!vars)
<1> DEFINE a == Me.key
           last == cachedRecord[Me.key]
<1>1. /\ TypeOK /\ Me.pc = "read" /\ a \in Apps
      /\ UNCHANGED << settled, record, facts, comments, unreached >>
  BY WorkerHoldsName DEF TruthInv, ReadRecord, recordVars, githubVars, history
<1>2. Pass = NoPass
  BY <1>1, PassOfWorker DEF InPass
<1>3. \/ faults'["stale"] = faults["stale"] /\ last = record[a]
      \/ faults'["stale"] = faults["stale"] + 1
  BY <1>1, StaleCounts DEF ReadRecord, FaultKinds
<1>4. \/ ~InPass'
      \/ /\ Me' = [Me EXCEPT !.pc = "comment"]
         /\ ~AlreadyHealthy(Me.obj, last)
         /\ GetSourceRevisions(Me.obj) # << >>
  <2>1. CASE Evaluate(last)
    BY <1>1, <2>1, EvaluateDecides DEF InPass, Idle
  <2>2. CASE Goto(HealthComment, "create") /\ UNCHANGED << queue, timer >>
    <3>1. Me' = [Me EXCEPT !.pc = "create"]
      BY <1>1, <2>2, GoesOn DEF ProgramCounters
    <3> QED
      BY <1>1, <3>1, WorkerHoldsName DEF InPass
  <2> QED
    BY <2>1, <2>2 DEF ReadRecord
<1>5. CASE ~InPass'
  <2>1. Pass' = Pass
    BY <1>2, <1>5, PassEnds
  <2>2. CASE faults'["stale"] = faults["stale"]
    BY <1>1, <2>1, <2>2, LedgerFrame
  <2>3. CASE faults'["stale"] = faults["stale"] + 1
    <3>1. Ledger!Misread
      BY <1>1, <2>1, <2>3 DEF Ledger!Misread
    <3> QED
      BY <3>1 DEF Ledger!Next
  <2> QED
    BY <1>3, <2>2, <2>3
<1>6. CASE /\ Me' = [Me EXCEPT !.pc = "comment"]
           /\ ~AlreadyHealthy(Me.obj, last)
           /\ GetSourceRevisions(Me.obj) # << >>
  <2>1. Me'.pc = "comment" /\ Me'.key = a /\ Me'.obj = Me.obj
    BY <1>1, <1>6, WorkerHoldsName
  <2>2. Pass' = [name |-> a, revision |-> CurrentRevision]
    BY <2>1 DEF Pass, CurrentRevision
  <2>3. CurrentRevision \in RevisionStrings
    BY <1>1, <1>6, WorkerHoldsName, FirstSource DEF CurrentRevision
  <2>4. last # CurrentRevision
    BY <1>6 DEF AlreadyHealthy, CurrentRevision
  <2>5. Ledger!Begin(a, CurrentRevision)
    BY <1>1, <1>2, <1>3, <2>2, <2>4 DEF Ledger!Begin
  <2> QED
    BY <1>1, <2>3, <2>5 DEF Ledger!Next
<1> QED
  BY <1>4, <1>5, <1>6

LEMMA LedgerCreateRecord ==
    ASSUME TruthInv, CreateRecord
    PROVE  [Ledger!Next]_(Ledger!vars)
<1> DEFINE a == Me.key
<1>1. /\ TypeOK /\ Me.pc = "create" /\ a \in Apps
      /\ UNCHANGED << faults, facts, comments, unreached >>
  BY WorkerHoldsName DEF TruthInv, CreateRecord, githubVars, history
<1>2. Pass = NoPass
  BY <1>1, PassOfWorker DEF InPass
<1>3. Ledger!Opened(a)
  BY DEF CreateRecord, Ledger!Opened
<1>4. \/ ~InPass'
      \/ /\ Me' = [Me EXCEPT !.pc = "comment"]
         /\ GetSourceRevisions(Me.obj) # << >>
  BY <1>1, EvaluateDecides DEF CreateRecord, InPass, Idle
<1>5. CASE ~InPass'
  <2>1. Ledger!Open(a)
    BY <1>1, <1>2, <1>3, <1>5, PassEnds DEF Ledger!Open
  <2> QED
    BY <1>1, <2>1 DEF Ledger!Next
<1>6. CASE Me' = [Me EXCEPT !.pc = "comment"] /\ GetSourceRevisions(Me.obj) # << >>
  <2>1. Me'.pc = "comment" /\ Me'.key = a /\ Me'.obj = Me.obj
    BY <1>1, <1>6, WorkerHoldsName
  <2>2. Pass' = [name |-> a, revision |-> CurrentRevision]
    BY <2>1 DEF Pass, CurrentRevision
  <2>3. CurrentRevision \in RevisionStrings
    BY <1>1, <1>6, WorkerHoldsName, FirstSource DEF CurrentRevision
  <2>4. record[a] # CurrentRevision
    BY <2>3, AbsentAssumption DEF CreateRecord
  <2>5. Ledger!Begin(a, CurrentRevision)
    BY <1>1, <1>2, <1>3, <2>2, <2>4 DEF Ledger!Begin
  <2> QED
    BY <1>1, <2>3, <2>5 DEF Ledger!Next
<1> QED
  BY <1>4, <1>5, <1>6

\* The comments of a round are those of the pass, and true.
LEMMA LedgerAnnounce ==
    ASSUME TruthInv, InPass,
           UNCHANGED << record, facts >>, faults'["stale"] = faults["stale"],
           Pass' \in {Pass, NoPass},
           comments \cup unreached \subseteq (comments \cup unreached)',
           \/ UNCHANGED << comments, unreached >>
           \/ /\ Me.pc = "comment"
              /\ (comments \cup unreached)' \subseteq comments \cup unreached \cup Wanted
    PROVE  Ledger!Next
<1>1. Pass # NoPass /\ Pass.name = Me.key
  BY PassOfWorker DEF TruthInv
<1>2. ASSUME NEW m \in (comments \cup unreached)' \ (comments \cup unreached)
      PROVE  m.app = Pass.name /\ Ledger!IsFact(m)
  <2>1. Me.pc = "comment" /\ m \in Wanted
    BY <1>2
  <2>2. Ledger!IsFact(m)
    BY <2>1, WantedComments DEF Ledger!IsFact
  <2>3. m.app = Me.key
    BY <2>1 DEF Wanted, CommentsOnSource
  <2> QED
    BY <1>1, <2>2, <2>3
<1>3. Ledger!Announce
  BY <1>1, <1>2 DEF Ledger!Announce
<1> QED
  BY <1>3 DEF Ledger!Next

LEMMA LedgerCommentOnSource ==
    ASSUME TruthInv, CommentOnSource
    PROVE  Ledger!Next
<1>1. TypeOK /\ Me.pc = "comment" /\ InPass /\ UNCHANGED << record, facts >>
  BY DEF TruthInv, CommentOnSource, recordVars, InPass
<1>2. faults'["stale"] = faults["stale"]
  BY <1>1, StaleCounts DEF CommentOnSource, FaultKinds
<1>3. PICK reached \in SUBSET Wanted :
        /\ comments' = comments \cup reached
        /\ unreached' = unreached \cup (Wanted \ reached)
  BY DEF CommentOnSource, Posted
<1>4. \/ Me' = Me
      \/ Me' = [Me EXCEPT !.pc = "patch"]
      \/ Me' = Idle
  BY <1>1, CommentOnSourceMoves
<1>5. \/ ~InPass'
      \/ InPass' /\ Me'.key = Me.key /\ Me'.obj = Me.obj
  BY <1>1, <1>4, WorkerHoldsName DEF InPass, Idle
<1>6. Pass' \in {Pass, NoPass}
  BY <1>1, <1>5, PassEnds, PassStays
<1> QED
  BY <1>1, <1>2, <1>3, <1>6, LedgerAnnounce

LEMMA LedgerPatchRecord ==
    ASSUME TruthInv, PatchRecord
    PROVE  Ledger!Next
<1> DEFINE a == Me.key
<1>1. /\ TypeOK /\ Me.pc = "patch" /\ InPass
      /\ UNCHANGED << faults, facts, comments, unreached >>
  BY DEF TruthInv, PatchRecord, githubVars, InPass
<1>2. /\ Pass # NoPass /\ Pass.name = a /\ Pass.revision = CurrentRevision
      /\ a \in Apps /\ CurrentRevision \in RevisionStrings
  BY <1>1, PassOfWorker
<1>3. /\ Me.obj.health = "Healthy" /\ source = 0
      /\ 1 \in 1 .. Len(GetSourceRevisions(Me.obj))
  BY <1>1, WorkerHoldsName, FirstSource DEF TypeOK, ReconcileShape
<1>4. Pass' = NoPass
  BY <1>1, <1>3, EndsIdle, PassEnds DEF PatchRecord, InPass, Idle
<1>5. CASE record[a] = Absent
  BY <1>1, <1>4, <1>5, LedgerAnnounce DEF PatchRecord
<1>6. CASE record[a] # Absent
  <2>1. record' = [record EXCEPT ![a] = CurrentRevision]
    BY <1>6 DEF PatchRecord
  <2>2. [app |-> a, revision |-> CurrentRevision, kind |-> "Healthy"] \in facts
    BY <1>1, <1>3, CurrentRevisionIsFact DEF CurrentRevision
  <2>3. HealthyComments(a, CurrentRevision) \subseteq comments \cup unreached
    BY <1>1, <1>3 DEF TruthInv, WorkerAttempted, FirstSourceDone
  <2>4. Ledger!Enter
    BY <1>1, <1>2, <1>4, <1>6, <2>1, <2>2, <2>3
       DEF Ledger!Enter, Ledger!IsFact
  <2> QED
    BY <2>4 DEF Ledger!Next
<1> QED
  BY <1>5, <1>6

LEMMA LedgerEnvironment ==
    ASSUME TruthInv, NEW a \in Apps, Environment(a) \/ CollectRecord(a)
    PROVE  Ledger!Next
<1>1. TypeOK
  BY DEF TruthInv
<1>2. CASE Environment(a)
  <2>1. UNCHANGED << worker, record, comments, unreached >> /\ facts \subseteq facts'
    BY <1>1, <1>2, ArgoCDType DEF Environment, TypeOK, recordVars, githubVars
  <2>2. faults' = faults \/ Fault("gap")
    BY <1>2 DEF Environment, ArgoCD, StartSync, TerminateSync, FinishSync,
          ReportHealth, Annotate, Delete, Remove, Write, WatchKeepsUp
  <2>3. faults'["stale"] = faults["stale"]
    BY <1>1, <2>2, StaleCounts DEF FaultKinds
  <2>4. Pass' = Pass
    BY <2>1 DEF Pass, CurrentRevision, Me
  <2>5. Ledger!Learn
    BY <2>1, <2>3, <2>4 DEF Ledger!Learn
  <2> QED
    BY <2>5 DEF Ledger!Next
<1>3. CASE CollectRecord(a)
  <2>1. Pass' = Pass
    BY <1>3 DEF CollectRecord, managerVars, Pass, CurrentRevision, Me
  <2>2. Ledger!Strike(a)
    BY <1>3, <2>1 DEF CollectRecord, managerVars, githubVars, Ledger!Strike
  <2> QED
    BY <2>2 DEF Ledger!Next
<1> QED
  BY <1>2, <1>3

LEMMA LedgerStop ==
    ASSUME TruthInv, Stop
    PROVE  [Ledger!Next]_(Ledger!vars)
<1>1. TypeOK /\ UNCHANGED << record, facts, unreached >>
  BY DEF TruthInv, Stop, recordVars
<1>2. Pass' = NoPass
  BY HealthCommentAssumption, PassEnds DEF Stop, Crash, Me, Idle, InPass
<1>3. faults'["stale"] = faults["stale"]
  BY <1>1, StaleCounts DEF Stop, Crash, FaultKinds
<1>4. \/ UNCHANGED comments
      \/ /\ Me.pc = "comment"
         /\ comments \subseteq comments' /\ comments' \subseteq comments \cup Wanted
  BY <1>1, StopPosts
<1>5. CASE InPass
  <2>1. Ledger!Next
    BY <1>1, <1>2, <1>3, <1>4, <1>5, LedgerAnnounce
  <2> QED
    BY <2>1
<1>6. CASE ~InPass
  <2>1. Pass' = Pass /\ UNCHANGED comments
    BY <1>1, <1>2, <1>4, <1>6, PassOfWorker DEF InPass
  <2> QED
    BY <1>1, <1>3, <2>1, LedgerFrame
<1> QED
  BY <1>5, <1>6

\* A run that gives up ends its pass, or had not begun one.
LEMMA LedgerFails ==
    ASSUME TruthInv, CreateFails \/ PatchFails
    PROVE  [Ledger!Next]_(Ledger!vars)
<1>1. TypeOK /\ UNCHANGED << record, facts, comments, unreached >>
  BY DEF TruthInv, CreateFails, PatchFails, recordVars, githubVars, history
<1>2. Pass' = NoPass
  BY <1>1, EndsIdle, PassEnds
     DEF CreateFails, PatchFails, TypeOK, ReconcileShape, Idle, InPass
<1>3. faults'["stale"] = faults["stale"]
  BY <1>1, StaleCounts DEF CreateFails, PatchFails, FaultKinds
<1>4. CASE InPass
  <2>1. Ledger!Next
    BY <1>1, <1>2, <1>3, <1>4, LedgerAnnounce
  <2> QED
    BY <2>1
<1>5. CASE ~InPass
  BY <1>1, <1>2, <1>3, <1>5, PassOfWorker, LedgerFrame
<1> QED
  BY <1>4, <1>5

LEMMA LedgerOther ==
    ASSUME TruthInv,
           \/ GetApplication
           \/ Restart
           \/ \E a \in Apps : Watch(a) \/ Wait(a) \/ Requeue(a) \/ Take(a)
                             \/ DeliverRecord(a)
           \/ UNCHANGED vars
    PROVE  UNCHANGED Ledger!vars
<1>1. TypeOK
  BY DEF TruthInv
<1>2. CASE GetApplication
  <2>1. Me.pc = "get" /\ Me'.pc \in {"idle", "read"}
    BY <1>1, <1>2, HealthCommentAssumption
       DEF GetApplication, Return, GotApplication, TypeOK, ManagerTypeOK, Me, Idle
  <2>2. Pass' = Pass
    BY <1>1, <2>1, PassOfWorker, PassEnds DEF InPass
  <2> QED
    BY <1>2, <2>2, LedgerFrame DEF GetApplication, recordVars, githubVars, history
<1>3. ASSUME NEW a \in Apps, Take(a)
      PROVE  UNCHANGED Ledger!vars
  <2>1. Me.pc = "idle" /\ Me'.pc = "get"
    BY <1>1, <1>3, HealthCommentAssumption
       DEF Take, Dequeue, Me, Idle, TypeOK, ManagerTypeOK
  <2>2. Pass' = Pass
    BY <1>1, <2>1, PassOfWorker, PassEnds DEF InPass
  <2> QED
    BY <1>3, <2>2, LedgerFrame
       DEF Take, Dequeue, reconcilerVars, recordVars, githubVars, history
<1>4. CASE \/ Restart
           \/ UNCHANGED vars
           \/ \E a \in Apps : Watch(a) \/ Wait(a) \/ Requeue(a) \/ DeliverRecord(a)
  <2>1. UNCHANGED << worker, faults, record, facts, comments, unreached >>
    BY <1>4 DEF Restart, Start, Watch, Deliver, Wait, Settle, Requeue, TimerFires,
                DeliverRecord, vars, managerVars, reconcilerVars, recordVars,
                githubVars, history
  <2>2. Pass' = Pass
    BY <2>1 DEF Pass, CurrentRevision, Me
  <2> QED
    BY <2>1, <2>2, LedgerFrame
<1> QED
  BY <1>2, <1>3, <1>4

\* The health comment controller implements the ledger: whatever is refused,
\* read late, collected or cut short by a crash, a pass is begun for a
\* revision that is not on record, its comments are true, and the record is
\* patched (applicationhealthcomment_controller.go:141) at its end only.
THEOREM LedgerIsKept == Spec => KeepsLedger
<1>1. Init => Ledger!Init
  <2> SUFFICES ASSUME Init PROVE Ledger!Init
    OBVIOUS
  <2>1. Me = Idle
    BY HealthCommentAssumption DEF Init, ManagerInit, Me
  <2>2. Pass = NoPass
    BY <2>1 DEF Pass, Idle
  <2>3. faults["stale"] = 0
    BY DEF Init, ManagerInit, FaultKinds
  <2> QED
    BY <2>2, <2>3 DEF Init, Ledger!Init
<1>2. TruthInv /\ [Next]_vars => [Ledger!Next]_(Ledger!vars)
  <2> SUFFICES ASSUME TruthInv, [Next]_vars PROVE [Ledger!Next]_(Ledger!vars)
    OBVIOUS
  <2>1. CASE Reconcile
    BY <2>1, LedgerOther, LedgerReadRecord, LedgerCreateRecord, LedgerFails,
       LedgerCommentOnSource, LedgerPatchRecord DEF Reconcile
  <2> QED
    BY <2>1, LedgerEnvironment, LedgerStop, LedgerOther DEF Next
<1> QED
  BY <1>1, <1>2, TruthInvariant, PTL DEF Spec, Ledger!Spec, KeepsLedger

-----------------------------------------------------------------------------
(* How often a healthy comment is repeated.                                *)

\* The worker is about to announce revision r of a, or has just done so.
Announces(a, r) ==
    /\ Me.pc = "comment" /\ source = 1
    /\ Me.obj.health = "Healthy"
    /\ Me.key = a /\ CurrentRevision = r
Announced(a, r) ==
    FirstSourceDone /\ Me.key = a /\ CurrentRevision = r

FaultCount == faults["crash"] + faults["api"] + faults["stale"]

\* One post is free as long as the record, or the worker on its way to
\* patch it, remembers it.
Slack(a, r) ==
    IF Announces(a, r) THEN 0
    ELSE IF record[a] = r \/ Announced(a, r) THEN 1 ELSE 0

DuplicateInv ==
    \A a \in Apps, r \in Revisions :
        healthyPosts[a][r] <= FaultCount + forgotten[a][r] + Slack(a, r)

\* What the steps may change, in numbers.
LEMMA DuplicateStep ==
    ASSUME TypeOK, TypeOK', DuplicateInv,
           \A a \in Apps, r \in Revisions :
              healthyPosts'[a][r] + FaultCount + forgotten[a][r] + Slack(a, r)
                <= healthyPosts[a][r] + FaultCount' + forgotten'[a][r] + Slack(a, r)'
    PROVE  DuplicateInv'
<1> SUFFICES ASSUME NEW a \in Apps, NEW r \in Revisions
             PROVE  healthyPosts'[a][r] <= FaultCount' + forgotten'[a][r] + Slack(a, r)'
  BY DEF DuplicateInv
<1>1. r \in RevisionStrings
  BY DEF RevisionStrings
<1>2. /\ healthyPosts[a][r] \in Nat /\ healthyPosts'[a][r] \in Nat
      /\ forgotten[a][r] \in Nat /\ forgotten'[a][r] \in Nat
  BY <1>1 DEF TypeOK, DataTypeOK
<1>3. FaultCount \in Nat /\ FaultCount' \in Nat
  BY DEF TypeOK, ManagerTypeOK, FaultCount, FaultKinds
<1>4. Slack(a, r) \in {0, 1} /\ Slack(a, r)' \in {0, 1}
  BY DEF Slack
<1>5. healthyPosts[a][r] <= FaultCount + forgotten[a][r] + Slack(a, r)
  BY DEF DuplicateInv
<1>6. healthyPosts'[a][r] + FaultCount + forgotten[a][r] + Slack(a, r)
        <= healthyPosts[a][r] + FaultCount' + forgotten'[a][r] + Slack(a, r)'
  OBVIOUS
<1> QED
  BY <1>2, <1>3, <1>4, <1>5, <1>6

\* A step without a post or a lost record that loses no slack, or loses it
\* to a fault.
LEMMA DuplicateFrame ==
    ASSUME TypeOK, TypeOK', DuplicateInv, UNCHANGED << healthyPosts, forgotten >>,
           FaultCount <= FaultCount',
           \/ FaultCount + 1 <= FaultCount'
           \/ \A a \in Apps, r \in Revisions : Slack(a, r) <= Slack(a, r)'
    PROVE  DuplicateInv'
<1> SUFFICES ASSUME NEW a \in Apps, NEW r \in Revisions
             PROVE  healthyPosts'[a][r] + FaultCount + forgotten[a][r] + Slack(a, r)
                      <= healthyPosts[a][r] + FaultCount' + forgotten'[a][r] + Slack(a, r)'
  BY DuplicateStep
<1>1. r \in RevisionStrings
  BY DEF RevisionStrings
<1>2. healthyPosts[a][r] \in Nat /\ forgotten[a][r] \in Nat
  BY <1>1 DEF TypeOK, DataTypeOK
<1>3. FaultCount \in Nat /\ FaultCount' \in Nat
  BY DEF TypeOK, ManagerTypeOK, FaultCount, FaultKinds
<1>4. Slack(a, r) \in {0, 1} /\ Slack(a, r)' \in {0, 1}
  BY DEF Slack
<1> QED
  BY <1>2, <1>3, <1>4

\* The faults that are counted.
LEMMA FaultCounts ==
    ASSUME TypeOK
    PROVE  /\ UNCHANGED faults => FaultCount' = FaultCount
           /\ \A k \in {"crash", "api", "stale"} :
                 Fault(k) => FaultCount' = FaultCount + 1
           /\ \A k \in {"gap", "github"} :
                 Fault(k) => FaultCount' = FaultCount
           /\ FaultCount \in Nat
<1>1. faults \in [FaultKinds -> Nat]
  BY DEF TypeOK, ManagerTypeOK
<1>2. ASSUME NEW k \in FaultKinds, Fault(k)
      PROVE  /\ faults'[k] = faults[k] + 1
             /\ \A j \in FaultKinds \ {k} : faults'[j] = faults[j]
  BY <1>1, <1>2 DEF Fault
<1> QED
  BY <1>1, <1>2 DEF FaultCount, FaultKinds

\* Away from the comments and the patch, the slack is the record's alone.
LEMMA SlackAway ==
    ASSUME Me.pc \notin {"comment", "patch"}
    PROVE  \A a, r : Slack(a, r) = IF record[a] = r THEN 1 ELSE 0
BY DEF Slack, Announces, Announced, FirstSourceDone

LEMMA SlackAwayNext ==
    ASSUME Me'.pc \notin {"comment", "patch"}
    PROVE  \A a, r : Slack(a, r)' = IF record'[a] = r THEN 1 ELSE 0
BY DEF Slack, Announces, Announced, FirstSourceDone

\* Steps that change neither record nor counts, away from the comments.
LEMMA DuplicateAway ==
    ASSUME TypeOK, TypeOK', DuplicateInv,
           UNCHANGED << record, healthyPosts, forgotten >>,
           FaultCount <= FaultCount',
           Me.pc \notin {"comment", "patch"}, Me'.pc \notin {"comment", "patch"}
    PROVE  DuplicateInv'
<1>1. \A a \in Apps, r \in Revisions : Slack(a, r) <= Slack(a, r)'
  BY SlackAway, SlackAwayNext
<1> QED
  BY <1>1, DuplicateFrame

\* Steps that leave the worker, the record and the counts alone.
LEMMA DuplicateIdle ==
    ASSUME TypeOK, TypeOK', DuplicateInv,
           UNCHANGED << record, healthyPosts, forgotten, source, Me >>,
           FaultCount <= FaultCount'
    PROVE  DuplicateInv'
<1>1. \A a \in Apps, r \in Revisions : Slack(a, r)' = Slack(a, r)
  BY DEF Slack, Announces, Announced, FirstSourceDone, CurrentRevision
<1>2. \A a \in Apps, r \in Revisions : Slack(a, r) \in {0, 1}
  BY DEF Slack
<1>3. \A a \in Apps, r \in Revisions : Slack(a, r) <= Slack(a, r)'
  BY <1>1, <1>2
<1> QED
  BY <1>3, DuplicateFrame

\* The decision to announce: it is taken against a record that does not
\* hold the revision, or against a stale copy, which was counted.
LEMMA DuplicateReadRecord ==
    ASSUME TypeOK, DuplicateInv, ReadRecord
    PROVE  DuplicateInv'
<1>1. TypeOK' /\ UNCHANGED << record, healthyPosts, forgotten >>
  BY ReadRecordType DEF ReadRecord, recordVars, history
<1>2. Me.pc = "read" /\ UNCHANGED settled /\ FaultCount \in Nat
  BY FaultCounts DEF ReadRecord
<1>3. \/ FaultCount' = FaultCount + 1
      \/ FaultCount' = FaultCount /\ cachedRecord[Me.key] = record[Me.key]
  BY FaultCounts DEF ReadRecord
<1>4. \/ Me'.pc \notin {"comment", "patch"}
      \/ /\ Me'.pc = "comment" /\ Me'.key = Me.key /\ Me'.obj = Me.obj
         /\ source' = 1
         /\ cachedRecord[Me.key] # CurrentRevision
  <2>1. Me \in [pc : ProgramCounters, key : Apps \cup {NoApp}, obj : Objects]
    BY WorkerHoldsName
  <2>2. CASE Goto(HealthComment, "create") /\ UNCHANGED << queue, timer >>
    BY <2>1, <2>2, GoesOn DEF ProgramCounters
  <2>3. CASE Evaluate(cachedRecord[Me.key])
    BY <2>1, <2>3, <1>2, EvaluateDecides DEF AlreadyHealthy, CurrentRevision, Idle
  <2> QED
    BY <2>2, <2>3 DEF ReadRecord
<1>5. CASE FaultCount' = FaultCount + 1
  BY <1>1, <1>2, <1>5, DuplicateFrame
<1>6. CASE FaultCount' = FaultCount /\ cachedRecord[Me.key] = record[Me.key]
  <2>1. CASE Me'.pc \notin {"comment", "patch"}
    BY <1>1, <1>2, <1>6, <2>1, DuplicateAway
  <2>2. CASE /\ Me'.pc = "comment" /\ Me'.key = Me.key /\ Me'.obj = Me.obj
             /\ source' = 1
             /\ record[Me.key] # CurrentRevision
    <3>1. ASSUME NEW a \in Apps, NEW r \in Revisions
          PROVE  Slack(a, r) <= Slack(a, r)'
      <4>1. Slack(a, r) = IF record[a] = r THEN 1 ELSE 0
        BY <1>2, SlackAway
      <4>2. CASE a = Me.key /\ r = CurrentRevision
        BY <2>2, <4>1, <4>2 DEF Slack
      <4>3. CASE ~(a = Me.key /\ r = CurrentRevision)
        <5>1. ~Announces(a, r)'
          BY <2>2, <4>3 DEF Announces, CurrentRevision
        <5> QED
          BY <1>1, <4>1, <5>1 DEF Slack
      <4> QED
        BY <4>2, <4>3
    <3> QED
      BY <1>1, <1>2, <1>6, <3>1, DuplicateFrame
  <2> QED
    BY <1>4, <1>6, <2>1, <2>2
<1> QED
  BY <1>3, <1>5, <1>6

LEMMA DuplicateCreateRecord ==
    ASSUME TypeOK, DuplicateInv, CreateRecord
    PROVE  DuplicateInv'
<1>1. TypeOK' /\ UNCHANGED << healthyPosts, forgotten, faults >>
  BY CreateRecordType DEF CreateRecord, history
<1>2. FaultCount' = FaultCount /\ FaultCount \in Nat
  BY <1>1, FaultCounts
<1>3. ASSUME NEW a \in Apps, NEW r \in Revisions
      PROVE  Slack(a, r) <= Slack(a, r)'
  <2>1. Slack(a, r) = IF record[a] = r THEN 1 ELSE 0
    BY SlackAway DEF CreateRecord
  <2>2. Slack(a, r)' \in {0, 1}
    BY DEF Slack
  <2>3. CASE record[a] # r
    BY <2>1, <2>2, <2>3
  <2>4. CASE record[a] = r
    <3>1. a # Me.key /\ record'[a] = r
      BY <2>4, AbsentAssumption
         DEF CreateRecord, RevisionStrings, TypeOK, DataTypeOK
    <3>2. Me'.key = Me.key \/ Me'.pc = "idle"
      <4>1. Me \in [pc : ProgramCounters, key : Apps \cup {NoApp}, obj : Objects]
        BY WorkerHoldsName
      <4>2. Me' = Idle \/ Me' = [Me EXCEPT !.pc = "comment"]
        BY EvaluateDecides DEF CreateRecord
      <4> QED
        BY <4>1, <4>2 DEF Idle
    <3>3. ~Announces(a, r)'
      BY <3>1, <3>2 DEF Announces
    <3> QED
      BY <2>1, <3>1, <3>3 DEF Slack
  <2> QED
    BY <2>3, <2>4
<1> QED
  BY <1>1, <1>2, <1>3, DuplicateFrame

\* The loop over the sources: the post of the first one spends the slack
\* that the worker carries on to its patch.
LEMMA DuplicateCommentOnSource ==
    ASSUME TypeOK, DuplicateInv, CommentOnSource
    PROVE  DuplicateInv'
<1>1. TypeOK' /\ UNCHANGED << record, forgotten >>
  BY CommentOnSourceType DEF CommentOnSource, recordVars
<1>2. UNCHANGED faults \/ Fault("github")
  BY DEF CommentOnSource
<1>3. FaultCount' = FaultCount /\ FaultCount \in Nat
  BY <1>2, FaultCounts
<1>4. /\ Me.pc = "comment" /\ Me.key \in Apps
      /\ CurrentRevision \in RevisionStrings /\ source \in Nat
  BY WorkerHoldsName, FirstSource
     DEF CommentOnSource, TypeOK, DataTypeOK, ReconcileShape, CurrentRevision
<1>5. /\ Me'.pc = "comment" => source' # 1
      /\ Me'.pc \in {"comment", "patch"} =>
            Me'.key = Me.key /\ Me'.obj = Me.obj
      /\ Me.obj.health = "Healthy" =>
            Me'.pc \in {"comment", "patch"} /\ source' # 1
  <2>1. Me \in [pc : ProgramCounters, key : Apps \cup {NoApp}, obj : Objects]
    BY WorkerHoldsName
  <2>2. source \in 1 .. Len(GetSourceRevisions(Me.obj)) /\ ReconcileShape'
    BY CommentOnSourceMoves DEF CommentOnSource, TypeOK, ReconcileShape
  <2>3. CASE Me' = Me /\ source' = source + 1
    <3>1. source # 0
      BY <2>2
    <3>2. source' # 1
      BY <1>4, <2>3, <3>1
    <3> QED
      BY <1>4, <2>3, <3>2
  <2>4. CASE Me' = [Me EXCEPT !.pc = "patch"]
    <3>1. Me'.pc = "patch" /\ Me'.key = Me.key /\ Me'.obj = Me.obj
      BY <2>1, <2>4
    <3>2. source' = 0
      BY <2>2, <3>1 DEF ReconcileShape
    <3> QED
      BY <3>1, <3>2
  <2>5. CASE Me' = Idle /\ Me.obj.health # "Healthy"
    BY <2>5 DEF Idle
  <2> QED
    BY <2>3, <2>4, <2>5, CommentOnSourceMoves
<1>6. \/ healthyPosts' = healthyPosts
      \/ /\ source = 1 /\ Me.obj.health = "Healthy"
         /\ healthyPosts' = OneMore(healthyPosts, Me.key, CurrentRevision)
  BY DEF CommentOnSource, Posted
<1>7. ASSUME NEW a \in Apps, NEW r \in Revisions
      PROVE  healthyPosts'[a][r] + FaultCount + forgotten[a][r] + Slack(a, r)
                <= healthyPosts[a][r] + FaultCount' + forgotten'[a][r] + Slack(a, r)'
  <2>1. /\ r \in RevisionStrings
        /\ healthyPosts \in [Apps -> [RevisionStrings -> Nat]]
    BY DEF RevisionStrings, TypeOK, DataTypeOK
  <2>2. healthyPosts[a][r] \in Nat /\ forgotten[a][r] \in Nat
    BY <2>1 DEF TypeOK, DataTypeOK
  <2>3. ~Announces(a, r)'
    BY <1>5 DEF Announces
  <2>4. CASE Announces(a, r)
    <3>1. Announced(a, r)'
      BY <1>5, <2>4 DEF Announces, Announced, FirstSourceDone, CurrentRevision
    <3>2. Slack(a, r) = 0 /\ Slack(a, r)' = 1
      BY <2>3, <2>4, <3>1 DEF Slack
    <3>3. \/ healthyPosts'[a][r] = healthyPosts[a][r]
          \/ healthyPosts'[a][r] = healthyPosts[a][r] + 1
      BY <1>4, <1>6, <2>1, <2>4, CountOneMore DEF Announces
    <3> QED
      BY <1>1, <1>3, <2>2, <3>2, <3>3
  <2>5. CASE ~Announces(a, r)
    <3>1. Announced(a, r) => Announced(a, r)'
      BY <1>5 DEF Announced, FirstSourceDone, CurrentRevision
    <3>2. Slack(a, r) <= Slack(a, r)'
      BY <1>1, <2>3, <2>5, <3>1 DEF Slack
    <3>3. Slack(a, r) \in {0, 1} /\ Slack(a, r)' \in {0, 1}
      BY DEF Slack
    <3>4. healthyPosts'[a][r] = healthyPosts[a][r]
      <4>1. source = 1 /\ Me.obj.health = "Healthy"
               => a # Me.key \/ r # CurrentRevision
        BY <1>4, <2>5 DEF Announces
      <4> QED
        BY <1>4, <1>6, <2>1, <4>1, CountOneMore
    <3> QED
      BY <1>1, <1>3, <2>2, <3>2, <3>3, <3>4
  <2> QED
    BY <2>4, <2>5
<1> QED
  BY <1>1, <1>7, DuplicateStep

\* The patch hands the slack over from the worker to the record, and what
\* it overwrites is counted.
LEMMA DuplicatePatchRecord ==
    ASSUME TypeOK, DuplicateInv, PatchRecord
    PROVE  DuplicateInv'
<1>1. TypeOK' /\ UNCHANGED << healthyPosts, faults >>
  BY PatchRecordType DEF PatchRecord
<1>2. FaultCount' = FaultCount /\ FaultCount \in Nat
  BY <1>1, FaultCounts
<1>3. /\ Me.pc = "patch" /\ Me.key \in Apps
      /\ CurrentRevision \in RevisionStrings /\ source = 0
  BY WorkerHoldsName, FirstSource
     DEF PatchRecord, TypeOK, ReconcileShape, CurrentRevision
<1>4. Me' = Idle
  BY <1>3, EndsIdle DEF PatchRecord
<1>5. /\ record \in [Apps -> RevisionStrings \cup {Absent}]
      /\ forgotten \in [Apps -> [RevisionStrings -> Nat]]
      /\ forgotten' \in [Apps -> [RevisionStrings -> Nat]]
  BY <1>1 DEF TypeOK, DataTypeOK
<1>6. \/ /\ record[Me.key] = Absent
         /\ forgotten' = OneMore(forgotten, Me.key, CurrentRevision)
      \/ /\ record[Me.key] = CurrentRevision
         /\ forgotten' = forgotten
      \/ /\ record[Me.key] \in RevisionStrings
         /\ record[Me.key] # CurrentRevision
         /\ forgotten' = OneMore(forgotten, Me.key, record[Me.key])
  BY <1>3, <1>5 DEF PatchRecord
<1>7. ASSUME NEW a \in Apps, NEW r \in Revisions
      PROVE  healthyPosts'[a][r] + FaultCount + forgotten[a][r] + Slack(a, r)
                <= healthyPosts[a][r] + FaultCount' + forgotten'[a][r] + Slack(a, r)'
  <2>1. r \in RevisionStrings /\ r # Absent
    BY AbsentAssumption DEF RevisionStrings
  <2>2. /\ healthyPosts[a][r] \in Nat
        /\ forgotten[a][r] \in Nat /\ forgotten'[a][r] \in Nat
    BY <1>5, <2>1 DEF TypeOK, DataTypeOK
  <2>3. Slack(a, r)' = IF record'[a] = r THEN 1 ELSE 0
    BY <1>4, SlackAwayNext DEF Idle
  <2>4. Slack(a, r) \in {0, 1} /\ Slack(a, r)' \in {0, 1}
    BY DEF Slack
  <2>5. Slack(a, r) = 1 =>
           record[a] = r \/ (a = Me.key /\ r = CurrentRevision)
    BY DEF Slack, Announced
  <2>6. \/ forgotten'[a][r] = forgotten[a][r]
        \/ forgotten'[a][r] = forgotten[a][r] + 1
    <3>1. ASSUME NEW s \in RevisionStrings
          PROVE  \/ OneMore(forgotten, Me.key, s)[a][r] = forgotten[a][r]
                 \/ OneMore(forgotten, Me.key, s)[a][r] = forgotten[a][r] + 1
      <4>1. CASE a = Me.key /\ r = s
        BY <1>3, <1>5, <2>1, <4>1, CountOneMore
      <4>2. CASE a # Me.key \/ r # s
        BY <1>3, <1>5, <2>1, <4>2, CountOneMore
      <4> QED
        BY <4>1, <4>2
    <3> QED
      BY <1>3, <1>6, <3>1
  <2>7. \/ Slack(a, r) <= Slack(a, r)'
        \/ forgotten'[a][r] = forgotten[a][r] + 1
    <3>1. CASE a # Me.key
      BY <1>5, <2>3, <2>4, <2>5, <3>1 DEF PatchRecord
    <3>2. CASE a = Me.key /\ record[a] = Absent
      <4>1. r = CurrentRevision => forgotten'[a][r] = forgotten[a][r] + 1
        BY <1>3, <1>5, <1>6, <2>1, <3>2, AbsentAssumption, CountOneMore
      <4>2. r # CurrentRevision => Slack(a, r) = 0
        BY <2>1, <2>4, <2>5, <3>2
      <4> QED
        BY <2>4, <4>1, <4>2
    <3>3. CASE a = Me.key /\ record[a] # Absent
      <4>1. record'[a] = CurrentRevision
        BY <1>3, <1>5, <3>3 DEF PatchRecord
      <4>2. CASE r = CurrentRevision
        BY <2>3, <2>4, <4>1, <4>2
      <4>3. CASE r # CurrentRevision /\ record[a] = r
        BY <1>3, <1>5, <1>6, <2>1, <3>3, <4>3, CountOneMore
      <4>4. CASE r # CurrentRevision /\ record[a] # r
        BY <2>4, <2>5, <4>4
      <4> QED
        BY <4>2, <4>3, <4>4
    <3> QED
      BY <3>1, <3>2, <3>3
  <2> QED
    BY <1>1, <1>2, <2>2, <2>4, <2>6, <2>7
<1> QED
  BY <1>1, <1>7, DuplicateStep

LEMMA DuplicateCollectRecord ==
    ASSUME TypeOK, DuplicateInv, NEW c \in Apps, CollectRecord(c)
    PROVE  DuplicateInv'
<1>1. TypeOK' /\ UNCHANGED << healthyPosts, faults, source, Me >>
  BY CollectRecordType DEF CollectRecord, managerVars, Me
<1>2. FaultCount' = FaultCount /\ FaultCount \in Nat
  BY <1>1, FaultCounts
<1>3. /\ record[c] \in RevisionStrings
      /\ forgotten' = OneMore(forgotten, c, record[c])
      /\ record' = [record EXCEPT ![c] = Absent]
      /\ record \in [Apps -> RevisionStrings \cup {Absent}]
      /\ forgotten \in [Apps -> [RevisionStrings -> Nat]]
  BY DEF CollectRecord, TypeOK, DataTypeOK
<1>4. ASSUME NEW a \in Apps, NEW r \in Revisions
      PROVE  healthyPosts'[a][r] + FaultCount + forgotten[a][r] + Slack(a, r)
                <= healthyPosts[a][r] + FaultCount' + forgotten'[a][r] + Slack(a, r)'
  <2>1. r \in RevisionStrings /\ r # Absent
    BY AbsentAssumption DEF RevisionStrings
  <2>2. healthyPosts[a][r] \in Nat /\ forgotten[a][r] \in Nat
    BY <1>3, <2>1 DEF TypeOK, DataTypeOK
  <2>3. Slack(a, r) \in {0, 1} /\ Slack(a, r)' \in {0, 1}
    BY DEF Slack
  <2>4. CASE a = c /\ r = record[c]
    <3>1. forgotten'[a][r] = forgotten[a][r] + 1
      BY <1>3, <2>4, CountOneMore
    <3> QED
      BY <1>1, <1>2, <2>2, <2>3, <3>1
  <2>5. CASE ~(a = c /\ r = record[c])
    <3>1. forgotten'[a][r] = forgotten[a][r]
      BY <1>3, <2>1, <2>5, CountOneMore
    <3>2. record'[a] = r <=> record[a] = r
      BY <1>3, <2>1, <2>5
    <3>3. Slack(a, r)' = Slack(a, r)
      BY <1>1, <3>2
         DEF Slack, Announces, Announced, FirstSourceDone, CurrentRevision
    <3> QED
      BY <1>1, <1>2, <2>2, <2>3, <3>1, <3>3
  <2> QED
    BY <2>4, <2>5
<1> QED
  BY <1>1, <1>4, DuplicateStep

\* Runs that begin or end without a post, and faults that end one.
LEMMA DuplicateWorker ==
    ASSUME TypeOK, TypeOK', DuplicateInv,
           \/ GetApplication
           \/ CreateFails
           \/ PatchFails
           \/ \E a \in Apps : Take(a)
    PROVE  DuplicateInv'
<1>1. CASE GetApplication
  <2>1. Me'.pc \in {"idle", "read"} /\ Me.pc = "get"
    <3>1. CASE Return(HealthComment)
      <4>1. source' = 0
        BY <1>1 DEF GetApplication, TypeOK, ReconcileShape
      <4> QED
        BY <1>1, <3>1, <4>1, EndsIdle DEF GetApplication, Idle
    <3>2. CASE GotApplication(HealthComment, cached[Me.key], "read")
      BY <1>1, <3>2, WorkerHoldsName
         DEF GetApplication, TypeOK, ManagerTypeOK, GotApplication, Me
    <3> QED
      BY <1>1, <3>1, <3>2 DEF GetApplication
  <2>2. UNCHANGED << record, healthyPosts, forgotten, faults >>
    BY <1>1 DEF GetApplication, recordVars, history
  <2> QED
    BY <2>1, <2>2, FaultCounts, DuplicateAway
<1>2. CASE CreateFails
  <2>1. Me.pc = "create" /\ Me' = Idle
    BY <1>2, EndsIdle DEF CreateFails, TypeOK, ReconcileShape
  <2>2. UNCHANGED << record, healthyPosts, forgotten >>
    BY <1>2 DEF CreateFails, recordVars, history
  <2>3. FaultCount <= FaultCount'
    BY <1>2, FaultCounts DEF CreateFails
  <2> QED
    BY <2>1, <2>2, <2>3, DuplicateAway DEF Idle
<1>3. CASE PatchFails
  <2>1. UNCHANGED << record, healthyPosts, forgotten >>
    BY <1>3 DEF PatchFails, recordVars, history
  <2>2. FaultCount' = FaultCount + 1 /\ FaultCount \in Nat
    BY <1>3, FaultCounts DEF PatchFails
  <2> QED
    BY <2>1, <2>2, DuplicateFrame
<1>4. ASSUME NEW a \in Apps, Take(a)
      PROVE  DuplicateInv'
  <2>1. Me.pc = "idle" /\ Me'.pc = "get"
    BY <1>4, HealthCommentAssumption
       DEF Take, Dequeue, Me, Idle, TypeOK, ManagerTypeOK
  <2>2. UNCHANGED << record, healthyPosts, forgotten, faults >>
    BY <1>4 DEF Take, Dequeue, reconcilerVars, recordVars, history
  <2> QED
    BY <2>1, <2>2, FaultCounts, DuplicateAway
<1> QED
  BY <1>1, <1>2, <1>3, <1>4

\* A crash is counted, and pays for the slack of the worker or for the post
\* that no record will remember.
LEMMA DuplicateStop ==
    ASSUME TypeOK, TypeOK', DuplicateInv, Stop
    PROVE  DuplicateInv'
<1>1. FaultCount' = FaultCount + 1 /\ FaultCount \in Nat
  BY FaultCounts DEF Stop, Crash
<1>2. UNCHANGED << record, forgotten >>
  BY DEF Stop, recordVars
<1>3. CASE healthyPosts' = healthyPosts
  BY <1>1, <1>2, <1>3, DuplicateFrame
<1>4. CASE /\ Me.pc = "comment" /\ source = 1 /\ Me.obj.health = "Healthy"
           /\ healthyPosts' = OneMore(healthyPosts, Me.key, CurrentRevision)
  <2>1. Me.key \in Apps /\ CurrentRevision \in RevisionStrings
    BY <1>4, WorkerHoldsName, FirstSource
       DEF TypeOK, ReconcileShape, CurrentRevision
  <2>2. ASSUME NEW a \in Apps, NEW r \in Revisions
        PROVE  healthyPosts'[a][r] + FaultCount + forgotten[a][r] + Slack(a, r)
                 <= healthyPosts[a][r] + FaultCount' + forgotten'[a][r] + Slack(a, r)'
    <3>1. /\ r \in RevisionStrings
          /\ healthyPosts \in [Apps -> [RevisionStrings -> Nat]]
      BY DEF RevisionStrings, TypeOK, DataTypeOK
    <3>2. healthyPosts[a][r] \in Nat /\ forgotten[a][r] \in Nat
      BY <3>1 DEF TypeOK, DataTypeOK
    <3>3. Slack(a, r) \in {0, 1} /\ Slack(a, r)' \in {0, 1}
      BY DEF Slack
    <3>4. CASE a = Me.key /\ r = CurrentRevision
      <4>1. Slack(a, r) = 0
        BY <1>4, <3>4 DEF Slack, Announces
      <4>2. healthyPosts'[a][r] = healthyPosts[a][r] + 1
        BY <1>4, <2>1, <3>1, <3>4, CountOneMore
      <4> QED
        BY <1>1, <1>2, <3>2, <3>3, <4>1, <4>2
    <3>5. CASE ~(a = Me.key /\ r = CurrentRevision)
      <4>1. healthyPosts'[a][r] = healthyPosts[a][r]
        BY <1>4, <2>1, <3>1, <3>5, CountOneMore
      <4> QED
        BY <1>1, <1>2, <3>2, <3>3, <4>1
    <3> QED
      BY <3>4, <3>5
  <2> QED
    BY <2>2, DuplicateStep
<1> QED
  BY <1>3, <1>4, StopPosts

\* The steps of everything around the worker.
LEMMA DuplicateOther ==
    ASSUME TypeOK, TypeOK', DuplicateInv,
           \/ Restart
           \/ \E a \in Apps : Environment(a) \/ Watch(a) \/ Wait(a) \/ Requeue(a)
                             \/ DeliverRecord(a)
           \/ UNCHANGED vars
    PROVE  DuplicateInv'
<1>1. ASSUME NEW a \in Apps, Environment(a)
      PROVE  UNCHANGED << record, healthyPosts, forgotten, source, Me >>
             /\ (UNCHANGED faults \/ Fault("gap"))
  <2>1. UNCHANGED worker /\ (UNCHANGED faults \/ Fault("gap"))
    BY <1>1 DEF Environment, ArgoCD, StartSync, TerminateSync, FinishSync,
                ReportHealth, Annotate, Delete, Remove, Write, WatchKeepsUp
  <2> QED
    BY <1>1, <2>1 DEF Environment, recordVars, Me
<1>2. CASE \/ Restart
           \/ \E a \in Apps : Watch(a) \/ Wait(a) \/ Requeue(a) \/ DeliverRecord(a)
           \/ UNCHANGED vars
  <2>1. UNCHANGED << record, healthyPosts, forgotten, source, Me, faults >>
    BY <1>2 DEF Restart, Start, Watch, Deliver, Wait, Settle, Requeue, TimerFires,
                DeliverRecord, vars, managerVars, reconcilerVars, recordVars,
                history, Me
  <2> QED
    BY <2>1, FaultCounts, DuplicateIdle
<1>3. CASE \E a \in Apps : Environment(a)
  <2>1. UNCHANGED << record, healthyPosts, forgotten, source, Me >>
        /\ (UNCHANGED faults \/ Fault("gap"))
    BY <1>1, <1>3
  <2>2. FaultCount <= FaultCount'
    BY <2>1, FaultCounts
  <2> QED
    BY <2>1, <2>2, DuplicateIdle
<1> QED
  BY <1>2, <1>3

\* The number of passes that post a healthy comment of a revision never
\* exceeds the faults and lost records that explain them by more than the
\* one whose memory the record, or the worker about to patch it, carries.
THEOREM DuplicateInvariant == Spec => []DuplicateInv
<1>1. Init => DuplicateInv
  <2> SUFFICES ASSUME Init PROVE DuplicateInv
    OBVIOUS
  <2> SUFFICES ASSUME NEW a \in Apps, NEW r \in Revisions
               PROVE  healthyPosts[a][r] <= FaultCount + forgotten[a][r] + Slack(a, r)
    BY DEF DuplicateInv
  <2>1. healthyPosts[a][r] = 0 /\ forgotten[a][r] = 0 /\ FaultCount = 0
    <3>1. healthyPosts[a][r] = 0 /\ forgotten[a][r] = 0
      BY DEF Init, RevisionStrings
    <3>2. faults["crash"] = 0 /\ faults["api"] = 0 /\ faults["stale"] = 0
      BY DEF Init, ManagerInit, FaultKinds
    <3> QED
      BY <3>1, <3>2 DEF FaultCount
  <2>2. Slack(a, r) \in {0, 1}
    BY DEF Slack
  <2> QED
    BY <2>1, <2>2
<1>2. TypeOK /\ TypeOK' /\ DuplicateInv /\ [Next]_vars => DuplicateInv'
  BY DuplicateReadRecord, DuplicateCreateRecord, DuplicateCommentOnSource,
     DuplicatePatchRecord, DuplicateCollectRecord, DuplicateWorker,
     DuplicateStop, DuplicateOther DEF Next, Reconcile
<1> QED
  BY <1>1, <1>2, TypeCorrect, PTL DEF Spec

\* A healthy comment is repeated only for a reason.
THEOREM DuplicatesAreBounded == Spec => []DuplicatesBounded
<1>1. TypeOK /\ DuplicateInv => DuplicatesBounded
  <2> SUFFICES ASSUME TypeOK, DuplicateInv, NEW a \in Apps, NEW r \in Revisions
               PROVE  healthyPosts[a][r] <= 1 + faults["crash"] + faults["api"]
                                + faults["stale"] + forgotten[a][r]
    BY DEF DuplicatesBounded
  <2>1. r \in RevisionStrings
    BY DEF RevisionStrings
  <2>2. healthyPosts[a][r] \in Nat /\ forgotten[a][r] \in Nat
    BY <2>1 DEF TypeOK, DataTypeOK
  <2>3. /\ faults["crash"] \in Nat /\ faults["api"] \in Nat
        /\ faults["stale"] \in Nat
    BY DEF TypeOK, ManagerTypeOK, FaultKinds
  <2>4. Slack(a, r) \in {0, 1}
    BY DEF Slack
  <2>5. healthyPosts[a][r] <= FaultCount + forgotten[a][r] + Slack(a, r)
    BY DEF DuplicateInv
  <2> QED
    BY <2>2, <2>3, <2>4, <2>5 DEF FaultCount
<1> QED
  BY <1>1, TypeCorrect, DuplicateInvariant, PTL

-----------------------------------------------------------------------------
(* What is left to record when the controller is at rest.                  *)

HealthyObject(obj) ==
    /\ obj.exists /\ ~obj.deleting
    /\ obj.phase = "Succeeded" /\ obj.health = "Healthy"
    /\ GetSourceRevisions(obj) # << >>

SameState(obj, other) ==
    /\ obj.phase = other.phase /\ obj.sync = other.sync
    /\ obj.health = other.health /\ obj.operationAt = other.operationAt

\* A run that works on an outdated copy has an entry of the queue behind it.
Fresh(a) ==
    HealthyObject(cached[a]) /\ Me.key = a /\ Me.pc # "get" =>
        a \in queue[HealthComment] \/ SameState(Me.obj, cached[a])

\* Who owes the record of a healthy object the informer knows of.
Owed(a) ==
    HealthyObject(cached[a]) =>
        \/ a \in queue[HealthComment]
        \/ timer[HealthComment][a] # NoTimer
        \/ Me.key = a
        \/ record[a] = GetSourceRevisions(cached[a])[1]
        \/ ~app[a].exists

\* There is a record to patch, unless the owner is gone.
HasRecord ==
    Me.pc \in {"comment", "patch"} => record[Me.key] # Absent \/ ~app[Me.key].exists

AllStamped == \A a \in Apps : Stamped(app[a]) /\ Stamped(cached[a])

RestInv ==
    NoLoss => /\ up /\ CacheFollows /\ AllStamped
              /\ HasRecord
              /\ \A a \in Apps : Fresh(a) /\ Owed(a)

\* A step that leads to a state without loss leaves one, and loses nothing.
LEMMA LossesGrow ==
    ASSUME TypeOK, [Next]_vars, NoLoss'
    PROVE  NoLoss /\ ~Fault("stale") /\ ~Stop
<1>1. faults \in [FaultKinds -> Nat]
  BY DEF TypeOK, ManagerTypeOK
<1>2. ~Fault("stale") /\ ~Fault("crash")
  BY <1>1 DEF Fault, NoLoss, FaultKinds
<1>3. ~Stop
  BY <1>2 DEF Stop, Crash
<1>4. ASSUME UNCHANGED faults \/ Fault("api") \/ Fault("github")
      PROVE  NoLoss
  BY <1>1, <1>4 DEF Fault, NoLoss, FaultKinds
<1>5. ASSUME NEW a \in Apps, Environment(a)
      PROVE  NoLoss
  <2>1. \A k \in FaultKinds : faults'[k] >= faults[k]
    BY <1>5, ArgoCDType DEF Environment, TypeOK
  <2> QED
    BY <1>1, <2>1 DEF NoLoss, FaultKinds
<1>6. Reconcile => UNCHANGED faults \/ Fault("api") \/ Fault("github")
  BY <1>2 DEF Reconcile, GetApplication, ReadRecord, CreateRecord, CreateFails,
              CommentOnSource, PatchRecord, PatchFails
<1>7. Restart \/ UNCHANGED vars => UNCHANGED faults
  BY DEF Restart, Start, vars, managerVars
<1>8. ASSUME NEW a \in Apps,
             \/ Watch(a) \/ Wait(a) \/ Requeue(a) \/ Take(a)
             \/ DeliverRecord(a) \/ CollectRecord(a)
      PROVE  UNCHANGED faults
  BY <1>8 DEF Watch, Deliver, Wait, Settle, Requeue, TimerFires, Take, Dequeue,
              DeliverRecord, CollectRecord, managerVars
<1> QED
  BY <1>2, <1>3, <1>4, <1>5, <1>6, <1>7, <1>8 DEF Next

\* What is owed to a name stays owed by a step that is not its run's.
LEMMA OwedFrame ==
    ASSUME NEW a \in Apps, Fresh(a), Owed(a),
           cached'[a] = cached[a],
           app'[a].exists => app[a].exists,
           record'[a] = record[a] \/ ~app[a].exists,
           a \in queue[HealthComment] => a \in queue'[HealthComment],
           timer[HealthComment][a] # NoTimer =>
              timer'[HealthComment][a] # NoTimer \/ a \in queue'[HealthComment],
           Me' = Me \/ (Me.key # a /\ Me'.key # a)
    PROVE  Fresh(a)' /\ Owed(a)'
<1>1. Fresh(a)'
  BY DEF Fresh
<1>2. Owed(a)'
  BY DEF Owed
<1> QED
  BY <1>1, <1>2

\* How a run ends: what it leaves in the queues.
LEMMA EndQueues ==
    ASSUME TypeOK, Me.pc # "idle",
           \/ Return(HealthComment)
           \/ ReturnRequeueAfter(HealthComment)
           \/ ReturnError(HealthComment)
    PROVE  /\ Me' = Idle
           /\ \A a \in Apps :
                 /\ a \in queue[HealthComment] => a \in queue'[HealthComment]
                 /\ timer[HealthComment][a] # NoTimer =>
                       timer'[HealthComment][a] # NoTimer
           /\ ReturnError(HealthComment) => Me.key \in queue'[HealthComment]
           /\ ReturnRequeueAfter(HealthComment) =>
                 timer'[HealthComment][Me.key] # NoTimer
<1>1. Me.key \in Apps /\ HealthComment \in Controllers
  BY WorkerHoldsName
<1>2. Me' = Idle
  BY <1>1 DEF TypeOK, ManagerTypeOK, Return, ReturnRequeueAfter, ReturnError, Me
<1>3. CASE Return(HealthComment) /\ ~ReturnRequeueAfter(HealthComment)
           /\ ~ReturnError(HealthComment)
  BY <1>2, <1>3 DEF Return
<1>4. CASE ReturnError(HealthComment) /\ ~ReturnRequeueAfter(HealthComment)
  BY <1>1, <1>2, <1>4 DEF ReturnError, TypeOK, ManagerTypeOK, Me
<1>5. CASE ReturnRequeueAfter(HealthComment)
  <2>1. app[Me.key].operationAt \in Stamps /\ NoTimer \notin Stamps
    BY <1>1 DEF TypeOK, ManagerTypeOK, Objects, Stamps, NoTimer
  <2>2. /\ UNCHANGED queue
        /\ timer' = [timer EXCEPT ![HealthComment][Me.key] =
                        IF timer[HealthComment][Me.key] = NoTimer
                        THEN app[Me.key].operationAt
                        ELSE timer[HealthComment][Me.key]]
    BY <1>5 DEF ReturnRequeueAfter, Me
  <2>3. \A a \in Apps :
           /\ timer[HealthComment][a] # NoTimer =>
                 timer'[HealthComment][a] # NoTimer
           /\ timer'[HealthComment][Me.key] # NoTimer
    BY <1>1, <2>1, <2>2 DEF TypeOK, ManagerTypeOK
  <2>4. ReturnError(HealthComment) => Me.key \in queue'[HealthComment]
    BY <1>1 DEF ReturnError, TypeOK, ManagerTypeOK, Me
  <2> QED
    BY <1>1, <1>2, <2>2, <2>3, <2>4
<1> QED
  BY <1>3, <1>4, <1>5

\* Where a step of a run may go: it ends, or it goes on with the object it
\* has.
RunGoesOn ==
    /\ UNCHANGED << queue, timer >>
    /\ Me'.key = Me.key /\ Me'.obj = Me.obj /\ Me'.pc \notin {"get", "idle"}

RunEnds ==
    \/ Return(HealthComment)
    \/ ReturnRequeueAfter(HealthComment)
    \/ ReturnError(HealthComment)

\* The outcome of the decision: the revision is on record already, the name
\* comes back, or the run goes on.
LEMMA EvaluateOwes ==
    ASSUME TypeOK, Me.pc \in {"read", "create"}, NEW last, Evaluate(last)
    PROVE  /\ RunEnds \/ RunGoesOn
           /\ \/ ~MayBeEvaluated(Me.obj, last)
              \/ RunGoesOn /\ Me'.pc = "comment"
              \/ ReturnRequeueAfter(HealthComment)
<1>1. CASE ~MayBeEvaluated(Me.obj, last) /\ Return(HealthComment)
  BY <1>1 DEF RunEnds
<1>2. CASE ReturnRequeueAfter(HealthComment)
  BY <1>2 DEF RunEnds
<1>3. CASE Goto(HealthComment, "comment") /\ UNCHANGED << queue, timer >>
  <2>1. Me' = [Me EXCEPT !.pc = "comment"]
    BY <1>3, GoesOn DEF ProgramCounters
  <2>2. Me'.pc = "comment" /\ Me'.key = Me.key /\ Me'.obj = Me.obj
    BY <2>1, WorkerHoldsName
  <2> QED
    BY <1>3, <2>2 DEF RunGoesOn
<1> QED
  BY <1>1, <1>2, <1>3 DEF Evaluate

\* A healthy object that ended its run without being evaluated was on record.
LEMMA NotEvaluated ==
    ASSUME NEW obj, NEW other, HealthyObject(other), Stamped(other),
           SameState(obj, other), NEW last, ~MayBeEvaluated(obj, last)
    PROVE  last = GetSourceRevisions(other)[1]
<1>1. GetSourceRevisions(obj) = GetSourceRevisions(other)
  BY DEF SameState, GetSourceRevisions
<1>2. GetSyncOperationFinishedAt(obj) # 0 /\ obj.phase = "Succeeded"
  BY DEF SameState, HealthyObject, Stamped, GetSyncOperationFinishedAt, CompletedPhases
<1> QED
  BY <1>1, <1>2
     DEF MayBeEvaluated, AlreadyHealthy, GetSyncOperationPhase, HealthyObject

\* The run of the name settles what is owed to it, or owes it itself.
LEMMA OwedReconcile ==
    ASSUME TypeOK, Reconcile, ~Fault("stale"), AllStamped, HasRecord,
           NEW a \in Apps, a = Me.key, Fresh(a), Owed(a)
    PROVE  Fresh(a)' /\ Owed(a)'
<1>1. UNCHANGED << app, cached >> /\ HealthComment \in Controllers
  BY WorkerHoldsName
     DEF Reconcile, GetApplication, ReadRecord, CreateRecord, CreateFails,
         CommentOnSource, PatchRecord, PatchFails
<1>2. CASE ~HealthyObject(cached[a])
  BY <1>1, <1>2 DEF Fresh, Owed
<1>3. CASE RunGoesOn /\ HealthyObject(cached[a]) /\ Me.pc # "get"
  BY <1>1, <1>3 DEF Fresh, Owed, RunGoesOn
<1>4. ASSUME RunEnds, Me.pc # "idle", HealthyObject(cached[a]),
             \/ ReturnError(HealthComment)
             \/ ReturnRequeueAfter(HealthComment)
             \/ a \in queue[HealthComment]
             \/ record'[a] = GetSourceRevisions(cached[a])[1]
             \/ ~app[a].exists
      PROVE  Fresh(a)' /\ Owed(a)'
  <2>1. Me'.pc = "idle" /\ Me'.key = NoApp /\ a # NoApp
    BY <1>4, EndQueues, NoAppAssumption DEF RunEnds, Idle
  <2>2. Fresh(a)'
    BY <2>1 DEF Fresh
  <2>3. \/ a \in queue'[HealthComment]
        \/ timer'[HealthComment][a] # NoTimer
        \/ record'[a] = GetSourceRevisions(cached[a])[1]
        \/ ~app[a].exists
    BY <1>4, EndQueues DEF RunEnds
  <2> QED
    BY <1>1, <2>2, <2>3 DEF Owed
<1>5. ASSUME Me.pc \in {"read", "create"}, NEW last, Evaluate(last),
             HealthyObject(cached[a]), record'[a] = last
      PROVE  Fresh(a)' /\ Owed(a)'
  <2>1. CASE RunGoesOn
    BY <1>3, <1>5, <2>1
  <2>2. CASE RunEnds /\ ReturnRequeueAfter(HealthComment)
    BY <1>4, <1>5, <2>2
  <2>3. CASE RunEnds /\ a \in queue[HealthComment]
    BY <1>4, <1>5, <2>3
  <2>4. CASE RunEnds /\ ~MayBeEvaluated(Me.obj, last) /\ a \notin queue[HealthComment]
    <3>1. SameState(Me.obj, cached[a])
      BY <1>5, <2>4 DEF Fresh
    <3>2. last = GetSourceRevisions(cached[a])[1]
      BY <1>5, <2>4, <3>1, NotEvaluated DEF AllStamped
    <3> QED
      BY <1>4, <1>5, <2>4, <3>2
  <2> QED
    BY <1>5, <2>1, <2>2, <2>3, <2>4, EvaluateOwes
<1>6. CASE GetApplication /\ HealthyObject(cached[a])
  <2>1. Me.pc = "get" /\ UNCHANGED queue
        /\ GotApplication(HealthComment, cached[a], "read")
    BY <1>6 DEF GetApplication, HealthyObject, GotApplication
  <2>2. Me' = [pc |-> "read", key |-> a, obj |-> cached[a]]
    BY <2>1, WorkerHoldsName DEF TypeOK, ManagerTypeOK, GotApplication, Me
  <2> QED
    BY <1>1, <2>1, <2>2 DEF Fresh, Owed, SameState
<1>7. CASE ReadRecord /\ HealthyObject(cached[a])
  <2>1. Me.pc = "read" /\ cachedRecord[a] = record[a] /\ UNCHANGED record
    BY <1>7 DEF ReadRecord, recordVars
  <2>2. CASE Goto(HealthComment, "create") /\ UNCHANGED << queue, timer >>
    <3>1. Me' = [Me EXCEPT !.pc = "create"]
      BY <2>2, GoesOn DEF ProgramCounters
    <3>2. RunGoesOn
      BY <2>2, <3>1, WorkerHoldsName DEF RunGoesOn
    <3> QED
      BY <1>3, <1>7, <2>1, <3>2
  <2>3. CASE Evaluate(cachedRecord[a])
    BY <1>5, <1>7, <2>1, <2>3
  <2> QED
    BY <1>7, <2>2, <2>3 DEF ReadRecord
<1>8. CASE CreateRecord /\ HealthyObject(cached[a])
  <2>1. record'[a] = NoRevision
    BY <1>8 DEF CreateRecord, TypeOK, DataTypeOK
  <2> QED
    BY <1>5, <1>8, <2>1 DEF CreateRecord
<1>9. CASE (CreateFails \/ PatchFails) /\ HealthyObject(cached[a])
  BY <1>4, <1>9 DEF CreateFails, PatchFails, RunEnds
<1>10. CASE CommentOnSource /\ HealthyObject(cached[a])
  <2>1. CASE Me' = Me /\ UNCHANGED << worker, queue, timer >>
    <3>1. RunGoesOn
      BY <1>10, <2>1 DEF CommentOnSource, RunGoesOn
    <3> QED
      BY <1>3, <1>10, <3>1 DEF CommentOnSource
  <2>2. CASE Goto(HealthComment, "patch") /\ UNCHANGED << queue, timer >>
    <3>1. Me' = [Me EXCEPT !.pc = "patch"]
      BY <2>2, GoesOn DEF ProgramCounters
    <3>2. RunGoesOn
      BY <2>2, <3>1, WorkerHoldsName DEF RunGoesOn
    <3> QED
      BY <1>3, <1>10, <3>2 DEF CommentOnSource
  <2>3. CASE ~MayBeRecorded(Me.obj) /\ Return(HealthComment)
    <3>1. a \in queue[HealthComment]
      BY <1>10, <2>3
         DEF CommentOnSource, Fresh, SameState, HealthyObject, MayBeRecorded
    <3> QED
      BY <1>4, <1>10, <2>3, <3>1 DEF CommentOnSource, RunEnds
  <2> QED
    BY <1>10, <2>1, <2>2, <2>3 DEF CommentOnSource, Me
<1>11. CASE PatchRecord /\ HealthyObject(cached[a])
  <2>1. Me.pc = "patch" /\ RunEnds
    BY <1>11 DEF PatchRecord, RunEnds
  <2>2. \/ a \in queue[HealthComment]
        \/ record'[a] = GetSourceRevisions(cached[a])[1]
        \/ ~app[a].exists
    <3>1. CASE record[a] = Absent
      BY <2>1, <3>1 DEF HasRecord
    <3>2. CASE record[a] # Absent /\ a \notin queue[HealthComment]
      <4>1. SameState(Me.obj, cached[a])
        BY <1>11, <2>1, <3>2 DEF Fresh
      <4>2. GetSourceRevisions(Me.obj) = GetSourceRevisions(cached[a])
        BY <4>1 DEF SameState, GetSourceRevisions
      <4>3. record'[a] = CurrentRevision
        BY <1>11, <3>2 DEF PatchRecord, TypeOK, DataTypeOK
      <4> QED
        BY <4>2, <4>3 DEF CurrentRevision
    <3> QED
      BY <3>1, <3>2
  <2> QED
    BY <1>4, <1>11, <2>1, <2>2
<1> QED
  BY <1>2, <1>6, <1>7, <1>8, <1>9, <1>10, <1>11 DEF Reconcile

\* The run of one name leaves the others alone.
LEMMA OwedToOthers ==
    ASSUME TypeOK, Reconcile, NEW a \in Apps, a # Me.key, Fresh(a), Owed(a)
    PROVE  Fresh(a)' /\ Owed(a)'
<1>1. /\ UNCHANGED << app, cached >>
      /\ record'[a] = record[a]
      /\ Me.pc # "idle"
  BY DEF Reconcile, GetApplication, ReadRecord, CreateRecord, CreateFails,
         CommentOnSource, PatchRecord, PatchFails, recordVars, TypeOK, DataTypeOK
<1>2. CASE RunEnds
  <2>1. Me'.key # a
    BY <1>1, <1>2, EndQueues, NoAppAssumption DEF RunEnds, Idle
  <2> QED
    BY <1>1, <1>2, <2>1, EndQueues, OwedFrame DEF RunEnds
<1>3. CASE UNCHANGED << queue, timer >> /\ Me'.key = Me.key
  BY <1>1, <1>3, OwedFrame
<1>4. RunEnds \/ (UNCHANGED << queue, timer >> /\ Me'.key = Me.key)
  <2>1. CASE GetApplication
    <3>1. CASE Return(HealthComment)
      BY <3>1 DEF RunEnds
    <3>2. CASE GotApplication(HealthComment, cached[Me.key], "read")
      BY <3>2, WorkerHoldsName DEF GotApplication, TypeOK, ManagerTypeOK, Me
    <3> QED
      BY <2>1, <3>1, <3>2 DEF GetApplication
  <2>2. ASSUME NEW pc \in ProgramCounters, Goto(HealthComment, pc)
        PROVE  Me'.key = Me.key
    BY <2>2, WorkerHoldsName DEF Goto, TypeOK, ManagerTypeOK, Me
  <2>3. CASE ReadRecord
    BY <2>2, <2>3, EvaluateOwes DEF ReadRecord, RunGoesOn, ProgramCounters
  <2>4. CASE CreateRecord
    BY <2>4, EvaluateOwes DEF CreateRecord, RunGoesOn
  <2>5. CASE CommentOnSource
    <3>1. UNCHANGED worker => Me' = Me
      BY DEF Me
    <3> QED
      BY <2>2, <2>5, <3>1 DEF CommentOnSource, RunEnds, ProgramCounters
  <2>6. CASE CreateFails \/ PatchRecord \/ PatchFails
    BY <2>6 DEF CreateFails, PatchRecord, PatchFails, RunEnds
  <2> QED
    BY <2>1, <2>3, <2>4, <2>5, <2>6 DEF Reconcile
<1> QED
  BY <1>2, <1>3, <1>4

\* A delivery that changes what is owed queues the name.
LEMMA OwedWatch ==
    ASSUME TypeOK, CacheFollows, NEW b \in Apps, Watch(b),
           NEW a \in Apps, Fresh(a), Owed(a)
    PROVE  Fresh(a)' /\ Owed(a)'
<1>1. /\ UNCHANGED << app, timer, worker, record >>
      /\ cached' = [cached EXCEPT ![b] = app[b]]
      /\ queue'[HealthComment] = IF ApplicationChanged(HealthComment, cached[b], app[b])
                                 THEN queue[HealthComment] \cup {b}
                                 ELSE queue[HealthComment]
  BY WorkerHoldsName DEF Watch, Deliver, reconcilerVars, recordVars
<1>2. Me' = Me
  BY <1>1 DEF Me
<1>3. CASE a # b
  <2>1. cached'[a] = cached[a]
    BY <1>1, <1>3 DEF TypeOK, ManagerTypeOK
  <2> QED
    BY <1>1, <1>2, <2>1, OwedFrame
<1>4. CASE a = b
  <2>1. cached'[a] = app[a]
    BY <1>1, <1>4 DEF TypeOK, ManagerTypeOK
  <2>2. CASE ~HealthyObject(app[a])
    BY <2>1, <2>2 DEF Fresh, Owed
  <2>3. CASE a \in queue'[HealthComment]
    BY <2>3 DEF Fresh, Owed
  <2>4. CASE HealthyObject(app[a]) /\ a \notin queue'[HealthComment]
    <3>1. /\ cached[a].exists /\ ~cached[a].deleting
          /\ cached[a].phase = "Succeeded" =>
                /\ cached[a].sync = app[a].sync
                /\ cached[a].operationAt = app[a].operationAt
      BY <2>4 DEF CacheFollows, Follows, HealthyObject
    <3>2. /\ cached[a].phase = "Succeeded" /\ cached[a].health = "Healthy"
          /\ a \notin queue[HealthComment]
      BY <1>1, <1>4, <2>4, <3>1
         DEF ApplicationChanged, Filter, HealthComment, PhaseChangedTo, HealthyObject,
             HealthChangedTo, filterApplicationHealthStatusForComment,
             GetSyncOperationPhase, HealthStatusesForComment
    <3>3. SameState(cached[a], app[a])
      BY <2>4, <3>1, <3>2 DEF HealthyObject, SameState
    <3>4. GetSourceRevisions(cached[a]) = GetSourceRevisions(app[a])
      BY <3>3 DEF SameState, GetSourceRevisions
    <3>5. HealthyObject(cached[a])
      BY <2>4, <3>1, <3>2, <3>4 DEF HealthyObject
    <3>6. Fresh(a)'
      BY <1>2, <2>1, <3>2, <3>3, <3>5 DEF Fresh, SameState
    <3>7. Owed(a)'
      BY <1>1, <1>2, <2>1, <3>2, <3>4, <3>5 DEF Owed
    <3> QED
      BY <3>6, <3>7
  <2> QED
    BY <2>2, <2>3, <2>4
<1> QED
  BY <1>3, <1>4

\* The worker takes over what an entry of the queue stood for.
LEMMA OwedTake ==
    ASSUME TypeOK, NEW b \in Apps, Take(b), NEW a \in Apps, Fresh(a), Owed(a)
    PROVE  Fresh(a)' /\ Owed(a)'
<1>1. /\ UNCHANGED << app, cached, timer, record >>
      /\ Me.key = NoApp
      /\ Me'.pc = "get" /\ Me'.key = b
      /\ queue'[HealthComment] = queue[HealthComment] \ {b}
  BY WorkerHoldsName
     DEF Take, Dequeue, reconcilerVars, recordVars, Idle, TypeOK, ManagerTypeOK,
         ReconcileShape, Me
<1>2. CASE a = b
  BY <1>1, <1>2 DEF Fresh, Owed
<1>3. CASE a # b
  BY <1>1, <1>3, NoAppAssumption, OwedFrame
<1> QED
  BY <1>2, <1>3

\* Neither Argo CD nor the clock, the requeue, the record's informer and its
\* collector take anything off what is owed.
LEMMA OwedOther ==
    ASSUME TypeOK, NEW a \in Apps, Fresh(a), Owed(a),
           \/ \E b \in Apps : \/ Environment(b) \/ Wait(b) \/ Requeue(b)
                              \/ DeliverRecord(b) \/ CollectRecord(b)
           \/ UNCHANGED vars
    PROVE  Fresh(a)' /\ Owed(a)'
<1>1. ASSUME NEW b \in Apps, Environment(b)
      PROVE  /\ UNCHANGED << cached, queue, timer, worker, record >>
             /\ app'[a].exists => app[a].exists
  <2>1. /\ UNCHANGED << cached, queue, timer, worker >>
        /\ app' = [app EXCEPT ![b] = app'[b]]
        /\ app[b].exists
    BY <1>1, ArgoCDType, ArgoCDFollows DEF Environment, TypeOK
  <2> QED
    BY <1>1, <2>1 DEF Environment, recordVars, TypeOK, ManagerTypeOK
<1>2. ASSUME NEW b \in Apps, Wait(b) \/ DeliverRecord(b) \/ UNCHANGED vars
      PROVE  UNCHANGED << app, cached, queue, timer, worker, record >>
  BY <1>2 DEF Wait, Settle, DeliverRecord, managerVars, reconcilerVars, recordVars, vars
<1>3. ASSUME NEW b \in Apps, Requeue(b)
      PROVE  /\ UNCHANGED << app, cached, worker, record >>
             /\ a \in queue[HealthComment] => a \in queue'[HealthComment]
             /\ timer[HealthComment][a] # NoTimer =>
                   \/ timer'[HealthComment][a] # NoTimer
                   \/ a \in queue'[HealthComment]
  BY <1>3, WorkerHoldsName
     DEF Requeue, TimerFires, reconcilerVars, recordVars, TypeOK, ManagerTypeOK
<1>4. ASSUME NEW b \in Apps, CollectRecord(b)
      PROVE  /\ UNCHANGED << app, cached, queue, timer, worker >>
             /\ record'[a] = record[a] \/ ~app[a].exists
  BY <1>4 DEF CollectRecord, managerVars, TypeOK, DataTypeOK
<1>5. UNCHANGED worker => Me' = Me
  BY DEF Me
<1> QED
  BY <1>1, <1>2, <1>3, <1>4, <1>5, OwedFrame

\* Neither the record nor its owner's end is lost between the decision and
\* the patch.
LEMMA HasRecordStep ==
    ASSUME TypeOK, [Next]_vars, HasRecord, ~Fault("stale"), ~Stop
    PROVE  HasRecord'
<1>1. ASSUME NEW b \in Apps, Environment(b), NEW a \in Apps
      PROVE  /\ UNCHANGED << worker, record >>
             /\ app'[a].exists => app[a].exists
  <2>1. /\ UNCHANGED worker
        /\ app' = [app EXCEPT ![b] = app'[b]]
        /\ app[b].exists
    BY <1>1, ArgoCDType, ArgoCDFollows DEF Environment, TypeOK
  <2> QED
    BY <1>1, <2>1 DEF Environment, recordVars, TypeOK, ManagerTypeOK
<1>2. Me.pc \in {"comment", "patch"} => Me.key \in Apps
  BY WorkerHoldsName
<1>3. CASE \E b \in Apps : Environment(b)
  <2>1. Me' = Me /\ record' = record
    BY <1>3, ArgoCDType DEF Environment, TypeOK, recordVars, Me
  <2> QED
    BY <1>1, <1>2, <1>3, <2>1 DEF HasRecord
<1>4. CASE UNCHANGED << app, worker, record >>
  BY <1>4 DEF HasRecord, Me
<1>5. CASE \E b \in Apps : CollectRecord(b)
  BY <1>2, <1>5 DEF CollectRecord, managerVars, HasRecord, Me, TypeOK, DataTypeOK
<1>6. CASE Me'.pc \notin {"comment", "patch"}
  BY <1>6 DEF HasRecord
<1>7. CASE ReadRecord
  <2>1. UNCHANGED << app, record >> /\ cachedRecord[Me.key] = record[Me.key]
    BY <1>7 DEF ReadRecord, recordVars
  <2>2. CASE Goto(HealthComment, "create")
    BY <1>6, <2>2, WorkerHoldsName DEF Goto, TypeOK, ManagerTypeOK, Me
  <2>3. CASE cachedRecord[Me.key] # Absent /\ Evaluate(cachedRecord[Me.key])
    <3>1. Me' = Idle \/ Me' = [Me EXCEPT !.pc = "comment"]
      BY <1>7, <2>3, EvaluateDecides DEF ReadRecord
    <3>2. Me'.pc \in {"comment", "patch"} => Me'.key = Me.key
      BY <3>1, WorkerHoldsName DEF Idle
    <3> QED
      BY <2>1, <2>3, <3>2 DEF HasRecord
  <2> QED
    BY <1>7, <2>2, <2>3 DEF ReadRecord
<1>8. CASE CreateRecord
  <2>1. record'[Me.key] = NoRevision /\ NoRevision # Absent
    BY <1>8, WorkerHoldsName, AbsentAssumption
       DEF CreateRecord, TypeOK, DataTypeOK, RevisionStrings
  <2>2. Me' = Idle \/ Me' = [Me EXCEPT !.pc = "comment"]
    BY <1>8, EvaluateDecides DEF CreateRecord
  <2>3. Me'.pc \in {"comment", "patch"} => Me'.key = Me.key
    BY <2>2, WorkerHoldsName DEF Idle
  <2> QED
    BY <2>1, <2>3 DEF HasRecord
<1>9. CASE CommentOnSource
  <2>1. Me' \in {Me, [Me EXCEPT !.pc = "patch"], Idle}
    BY <1>9, CommentOnSourceMoves
  <2>2. Me'.pc \in {"comment", "patch"} => Me'.key = Me.key
    BY <2>1, WorkerHoldsName DEF Idle
  <2>3. UNCHANGED << app, record >> /\ Me.pc = "comment"
    BY <1>9 DEF CommentOnSource, recordVars
  <2> QED
    BY <2>2, <2>3 DEF HasRecord
<1>10. CASE CreateFails \/ PatchFails \/ PatchRecord
  <2>1. Me' = Idle
    BY <1>10, EndQueues DEF CreateFails, PatchFails, PatchRecord
  <2> QED
    BY <1>6, <2>1 DEF Idle
<1>11. CASE GetApplication
  <2>1. CASE Return(HealthComment)
    BY <1>6, <1>11, <2>1, EndQueues DEF GetApplication, Idle
  <2>2. CASE GotApplication(HealthComment, cached[Me.key], "read")
    BY <1>6, <2>2, WorkerHoldsName DEF GotApplication, TypeOK, ManagerTypeOK, Me
  <2> QED
    BY <1>11, <2>1, <2>2 DEF GetApplication
<1>12. CASE \E b \in Apps : Take(b)
  <2>1. Me'.pc = "get"
    BY <1>12, WorkerHoldsName DEF Take, Dequeue, TypeOK, ManagerTypeOK, Me
  <2> QED
    BY <1>6, <2>1
<1>13. ASSUME \/ Restart \/ UNCHANGED vars
              \/ \E b \in Apps : Watch(b) \/ Wait(b) \/ Requeue(b) \/ DeliverRecord(b)
       PROVE  UNCHANGED << app, worker, record >>
  BY <1>13 DEF Restart, Start, vars, Watch, Deliver, Wait, Settle, Requeue, TimerFires,
               DeliverRecord, managerVars, reconcilerVars, recordVars
<1> QED
  BY <1>3, <1>4, <1>5, <1>7, <1>8, <1>9, <1>10, <1>11, <1>12, <1>13
     DEF Next, Reconcile

\* Without loss the process runs, its cache is at most one write behind, and
\* an operation that has ended has a time.
LEMMA ManagerAtRest ==
    ASSUME TypeOK, [Next]_vars, NoLoss', up, CacheFollows, AllStamped
    PROVE  up' /\ CacheFollows' /\ AllStamped'
<1>1. ~Stop /\ ~Restart
  BY LossesGrow DEF Restart, Start
<1>2. ASSUME NEW a \in Apps, Environment(a)
      PROVE  up' /\ CacheFollows' /\ AllStamped'
  <2>1. UNCHANGED << cached, up >> /\ CacheFollows'
    <3>1. faults'["gap"] <= faults["gap"]
      BY LossesGrow DEF NoLoss
    <3> QED
      BY <1>2, <3>1, ArgoCDType, CacheFollowsArgoCD DEF Environment, TypeOK
  <2>2. app' = [app EXCEPT ![a] = app'[a]] /\ Stamped(app'[a])
    BY <1>2, ArgoCDType, ArgoCDFollows DEF Environment, TypeOK, AllStamped
  <2>3. ASSUME NEW b \in Apps PROVE Stamped(app'[b])
    BY <2>2 DEF AllStamped, TypeOK, ManagerTypeOK
  <2> QED
    BY <2>1, <2>3 DEF AllStamped, Stamped
<1>3. ASSUME NEW a \in Apps, Watch(a)
      PROVE  up' /\ CacheFollows' /\ AllStamped'
  <2>1. CacheFollows' /\ UNCHANGED << app, up >>
    BY <1>3, CacheFollowsDeliver DEF Watch, Deliver, TypeOK
  <2>2. \A b \in Apps : cached'[b] \in {app[b], cached[b]}
    BY <1>3 DEF Watch, Deliver, TypeOK, ManagerTypeOK
  <2> QED
    BY <2>1, <2>2 DEF AllStamped, Stamped
<1>4. ASSUME UNCHANGED << app, cached, up >>
      PROVE  up' /\ CacheFollows' /\ AllStamped'
  BY <1>4 DEF CacheFollows, Follows, AllStamped, Stamped
<1>5. ASSUME NEW a \in Apps,
             Wait(a) \/ Requeue(a) \/ Take(a) \/ DeliverRecord(a) \/ CollectRecord(a)
      PROVE  UNCHANGED << app, cached, up >>
  BY <1>5 DEF Wait, Settle, Requeue, TimerFires, Take, Dequeue, DeliverRecord,
              CollectRecord, managerVars
<1>6. Reconcile \/ UNCHANGED vars => UNCHANGED << app, cached, up >>
  BY DEF Reconcile, GetApplication, ReadRecord, CreateRecord, CreateFails,
         CommentOnSource, PatchRecord, PatchFails, vars, managerVars
<1> QED
  BY <1>1, <1>2, <1>3, <1>4, <1>5, <1>6 DEF Next

LEMMA RestStep ==
    ASSUME TypeOK, RestInv, [Next]_vars
    PROVE  RestInv'
<1> SUFFICES ASSUME NoLoss'
             PROVE  /\ up' /\ CacheFollows' /\ AllStamped'
                    /\ HasRecord'
                    /\ \A a \in Apps : (Fresh(a) /\ Owed(a))'
  BY DEF RestInv
<1>1. /\ up /\ CacheFollows /\ AllStamped /\ HasRecord
      /\ \A a \in Apps : Fresh(a) /\ Owed(a)
      /\ ~Stop /\ ~Fault("stale")
  BY LossesGrow DEF RestInv
<1>2. ASSUME NEW a \in Apps
      PROVE  Fresh(a)' /\ Owed(a)'
  <2>1. ~Restart
    BY <1>1 DEF Restart, Start
  <2> QED
    BY <1>1, <2>1, OwedReconcile, OwedToOthers, OwedWatch, OwedTake, OwedOther
       DEF Next
<1> QED
  BY <1>1, <1>2, ManagerAtRest, HasRecordStep

\* No healthy revision gets lost (applicationhealthcomment_controller.go):
\* through refused calls of GitHub and the API server, the retries and the
\* 30-second requeue, and whatever the order of updates, the run and its
\* reads, a healthy object is recorded or someone owes it the record, and at
\* rest nobody does.
THEOREM HealthyAtRestIsRecorded == Spec => []RecordedAtRest
<1>1. Init => RestInv
  <2> SUFFICES ASSUME Init PROVE RestInv
    OBVIOUS
  <2>1. up /\ CacheFollows
    BY CacheFollowsInit DEF Init
  <2>2. cached = app /\ \A a \in Apps : app[a].phase = ""
    BY DEF Init, ManagerInit, NoApplication
  <2>3. AllStamped
    BY <2>2 DEF AllStamped, Stamped, CompletedPhases
  <2>4. Me.pc = "idle"
    BY HealthCommentAssumption DEF Init, ManagerInit, Me, Idle
  <2>5. \A a \in Apps : ~HealthyObject(cached[a])
    BY <2>2 DEF HealthyObject
  <2> QED
    BY <2>1, <2>3, <2>4, <2>5 DEF RestInv, HasRecord, Fresh, Owed
<1>2. TypeOK /\ RestInv /\ [Next]_vars => RestInv'
  BY RestStep
<1>3. TypeOK /\ RestInv => RecordedAtRest
  <2> SUFFICES ASSUME RestInv, NoLoss, NEW a \in Apps, HealthySynced(a), AtRest(a)
               PROVE  IsRecorded(a)
    BY DEF RecordedAtRest
  <2>1. HealthyObject(cached[a])
    BY DEF AtRest, HealthySynced, HealthyObject
  <2> QED
    BY <2>1 DEF RestInv, Owed, AtRest, IsRecorded, HealthySynced
<1> QED
  BY <1>1, <1>2, <1>3, TypeCorrect, PTL DEF Spec

\* At rest every healthy comment of the first source was made, or refused by
\* GitHub.
AnnouncedAtRest ==
    NoLoss => \A a \in Apps :
        HealthySynced(a) /\ AtRest(a) =>
           LET revision == GetSourceRevisions(app[a])[1] IN
           revision # NoRevision =>
              HealthyComments(a, revision) \subseteq comments \cup unreached

\* "When an Application is syncing, synced or healthy, argocd-commenter will
\* create a comment" (README.md:10), as far as the code does it: what is on
\* record was commented, and at rest the revision of a healthy object is.
THEOREM HealthyAtRestIsAnnounced == Spec => []AnnouncedAtRest
<1>1. TypeOK /\ RecordedAtRest /\ RecordedIsAttempted => AnnouncedAtRest
  <2> SUFFICES ASSUME TypeOK, RecordedAtRest, RecordedIsAttempted, NoLoss,
                      NEW a \in Apps, HealthySynced(a), AtRest(a),
                      GetSourceRevisions(app[a])[1] # NoRevision
               PROVE  HealthyComments(a, GetSourceRevisions(app[a])[1])
                         \subseteq comments \cup unreached
    BY DEF AnnouncedAtRest
  <2>1. record[a] = GetSourceRevisions(app[a])[1]
    BY DEF RecordedAtRest, IsRecorded
  <2>2. GetSourceRevisions(app[a]) \in Seq(RevisionStrings)
    BY SourceRevisionsType DEF TypeOK, ManagerTypeOK
  <2>3. GetSourceRevisions(app[a])[1] \in Revisions
    BY <2>2 DEF HealthySynced, RevisionStrings
  <2> QED
    BY <2>1, <2>3 DEF RecordedIsAttempted
<1> QED
  BY <1>1, TypeCorrect, HealthyAtRestIsRecorded, RecordFollowsComments, PTL

=============================================================================
