------------------------ MODULE PhaseComment_proofs ------------------------
(* Theorems about PhaseComment: its types, what its comments say, that a   *)
(* run has a change of phase as its cause, and that no end of a sync gets  *)
(* lost.                                                                   *)
EXTENDS PhaseComment, ControllerManager_proofs, Notification_proofs

-----------------------------------------------------------------------------
(* How the steps move the worker.                                          *)

Workers == [pc : ProgramCounters, key : Apps \cup {NoApp}, obj : Objects]

PhaseFacts == [app : Apps, revision : RevisionStrings, phase : Phases]

WorkerTypeOK ==
    /\ worker \in [Controllers -> Workers]
    /\ queue \in [Controllers -> SUBSET Apps]
    /\ timer \in [Controllers -> [Apps -> Stamps \cup {NoTimer}]]

DataTypeOK ==
    /\ source \in Nat
    /\ comments \subseteq Comments(Apps)
    /\ facts \subseteq PhaseFacts
    /\ changes \in [Apps -> Nat]
    /\ passes \in [Apps -> Nat]

\* The facts of an object are typed.
LEMMA FactsType ==
    ASSUME NEW a \in Apps, NEW obj \in Objects
    PROVE  Facts(a, obj) \subseteq PhaseFacts
<1>1. obj.phase \in Phases
  BY DEF Objects
<1> QED
  BY <1>1, SourceRevisionType DEF Facts, PhaseFacts

\* A worker that is not idle holds the name of an object.
LEMMA WorkerHoldsName ==
    ASSUME TypeOK
    PROVE  /\ Me \in Workers
           /\ Me.obj \in Objects
           /\ Me.pc # "idle" => Me.key \in Apps
           /\ PhaseComment \in Controllers
BY PhaseCommentAssumption DEF TypeOK, ManagerTypeOK, RunShape, Me, Workers

\* A reconcile that ends leaves an idle worker.
LEMMA EndsIdle ==
    ASSUME TypeOK, Me.pc # "idle", Return(PhaseComment), source' = 0
    PROVE  /\ WorkerTypeOK' /\ Me' = Idle /\ RunShape'
           /\ UNCHANGED queue
<1>1. WorkerTypeOK' /\ UNCHANGED queue
  BY WorkerHoldsName, ReturnType DEF TypeOK, WorkerTypeOK, Workers, Me, Return
<1>2. Me' = Idle
  BY WorkerHoldsName DEF TypeOK, ManagerTypeOK, Return, Me
<1> QED
  BY <1>1, <1>2 DEF RunShape, Idle

\* What a reconcile step must show, since it writes neither the objects nor
\* their cache.
LEMMA ReconcileStepType ==
    ASSUME TypeOK, WorkerTypeOK', DataTypeOK', RunShape',
           UNCHANGED << app, cached, up, settled >>,
           UNCHANGED faults \/ Fault("github")
    PROVE  TypeOK'
<1>1. faults' \in [FaultKinds -> Nat]
  BY DEF TypeOK, ManagerTypeOK, Fault, FaultKinds
<1> QED
  BY <1>1 DEF TypeOK, ManagerTypeOK, WorkerTypeOK, DataTypeOK, Workers, PhaseFacts

\* The start of a run: it ends at once, or it comes to the comments.
LEMMA GetApplicationMoves ==
    ASSUME TypeOK, GetApplication
    PROVE  /\ WorkerTypeOK' /\ RunShape' /\ source' \in Nat
           /\ UNCHANGED queue
           /\ \/ Me' = Idle /\ UNCHANGED passes
              \/ /\ Me' = [pc |-> "comment", key |-> Me.key, obj |-> cached[Me.key]]
                 /\ passes' = [passes EXCEPT ![Me.key] = passes[Me.key] + 1]
<1> DEFINE obj == cached[Me.key]
           got == [pc |-> "comment", key |-> Me.key, obj |-> obj]
<1>1. /\ Me.pc = "get" /\ source = 0
      /\ Me.key \in Apps /\ obj \in Objects
  BY WorkerHoldsName DEF GetApplication, TypeOK, ManagerTypeOK, RunShape
<1>2. CASE Return(PhaseComment) /\ UNCHANGED << source, passes >>
  BY <1>1, <1>2, EndsIdle
<1>3. CASE /\ MayBeCommented(obj) /\ GetSourceRevisions(obj) # << >>
           /\ GotApplication(PhaseComment, obj, "comment")
           /\ source' = 1
           /\ passes' = [passes EXCEPT ![Me.key] = passes[Me.key] + 1]
  <2>1. WorkerTypeOK' /\ UNCHANGED queue
    BY <1>1, <1>3, GotApplicationType, WorkerHoldsName
       DEF TypeOK, WorkerTypeOK, Workers, ProgramCounters, Me
  <2>2. Me' = got
    BY <1>3, WorkerHoldsName DEF TypeOK, ManagerTypeOK, GotApplication, Me
  <2>3. 1 \in 1 .. Len(GetSourceRevisions(obj))
    BY <1>1, <1>3, FirstSource
  <2>4. obj.exists /\ ~obj.deleting /\ obj.phase # ""
    BY <1>3, Zenon DEF MayBeCommented, GetSyncOperationPhase
  <2> HIDE DEF obj
  <2>5. RunShape'
    BY <1>1, <1>3, <2>2, <2>3, <2>4, NoAppAssumption DEF RunShape
  <2> QED
    BY <1>3, <2>1, <2>2, <2>5 DEF obj
<1> QED
  BY <1>2, <1>3 DEF GetApplication

\* One round of the loop: the next source, or the end.
LEMMA CommentOnSourceMoves ==
    ASSUME TypeOK, CommentOnSource
    PROVE  /\ WorkerTypeOK' /\ RunShape' /\ source' \in Nat
           /\ UNCHANGED queue
           /\ Me' = Me \/ Me' = Idle
<1> DEFINE n == Len(GetSourceRevisions(Me.obj))
<1>1. n \in Nat /\ source \in 1 .. n /\ Me.pc = "comment"
  <2>1. GetSourceRevisions(Me.obj) \in Seq(RevisionStrings)
    BY WorkerHoldsName, SourceRevisionsType
  <2>2. source \in 1 .. n /\ Me.pc = "comment"
    BY DEF CommentOnSource, TypeOK, RunShape
  <2> QED
    BY <2>1, <2>2
<1>2. CASE source < n /\ source' = source + 1 /\ UNCHANGED << worker, queue, timer >>
  <2>1. Me' = Me /\ source' \in 1 .. n
    BY <1>1, <1>2 DEF Me
  <2> HIDE DEF n
  <2>2. source' \in Nat
    BY <1>1, <1>2
  <2>3. RunShape'
    BY <1>1, <2>1 DEF TypeOK, RunShape, n
  <2>4. WorkerTypeOK'
    BY <1>2 DEF TypeOK, ManagerTypeOK, WorkerTypeOK, Workers
  <2> QED
    BY <1>2, <2>1, <2>2, <2>3, <2>4
<1>3. CASE source' = 0 /\ Return(PhaseComment)
  BY <1>1, <1>3, EndsIdle
<1> QED
  BY <1>2, <1>3 DEF CommentOnSource, EndOfRun

-----------------------------------------------------------------------------
(* Type correctness.                                                       *)

LEMMA GetApplicationType ==
    ASSUME TypeOK, GetApplication
    PROVE  TypeOK'
<1>1. passes' \in [Apps -> Nat]
  BY GetApplicationMoves DEF TypeOK
<1>2. DataTypeOK'
  BY <1>1, GetApplicationMoves DEF GetApplication, TypeOK, DataTypeOK, PhaseFacts
<1> QED
  BY <1>2, GetApplicationMoves, ReconcileStepType DEF GetApplication

\* The comments of the source the loop has come to are typed.
LEMMA WantedType ==
    ASSUME TypeOK, Me.pc = "comment"
    PROVE  Wanted \subseteq Comments(Apps)
<1>1. Me.key \in Apps /\ Me.obj \in Objects
  BY WorkerHoldsName
<1>2. source \in 1 .. Len(GetSourceRevisions(Me.obj))
  BY DEF TypeOK, RunShape
<1> QED
  BY <1>1, <1>2, PhaseCommentKindType, CommentsOnSourceType DEF Wanted

LEMMA CommentOnSourceType ==
    ASSUME TypeOK, CommentOnSource
    PROVE  TypeOK'
<1>1. comments' \subseteq Comments(Apps)
  BY WantedType DEF CommentOnSource, TypeOK
<1>2. DataTypeOK'
  BY <1>1, CommentOnSourceMoves DEF CommentOnSource, TypeOK, DataTypeOK, history,
                                    PhaseFacts
<1> QED
  BY <1>2, CommentOnSourceMoves, ReconcileStepType DEF CommentOnSource

LEMMA EnvironmentType ==
    ASSUME TypeOK, NEW a \in Apps, Environment(a)
    PROVE  TypeOK'
<1>1. ManagerTypeOK' /\ app'[a] \in Objects /\ UNCHANGED worker
  BY ArgoCDType DEF Environment, TypeOK
<1>2. facts' \subseteq PhaseFacts
  BY <1>1, FactsType DEF Environment, TypeOK, PhaseFacts
<1> QED
  BY <1>1, <1>2 DEF Environment, TypeOK, RunShape, Me, PhaseFacts

LEMMA WatchType ==
    ASSUME TypeOK, NEW a \in Apps, Watch(a)
    PROVE  TypeOK'
<1>1. ManagerTypeOK' /\ UNCHANGED worker
  BY DeliverType DEF Watch, Deliver, TypeOK
<1>2. changes' \in [Apps -> Nat]
  BY DEF Watch, TypeOK
<1> QED
  BY <1>1, <1>2 DEF Watch, TypeOK, RunShape, Me

\* A worker that takes a name is about to get its object.
LEMMA Takes ==
    ASSUME TypeOK, NEW a \in Apps, Take(a)
    PROVE  /\ Me.pc = "idle"
           /\ Me' = [Idle EXCEPT !.pc = "get", !.key = a]
           /\ queue' = [queue EXCEPT ![PhaseComment] = queue[PhaseComment] \ {a}]
BY WorkerHoldsName DEF Take, Dequeue, Me, TypeOK, ManagerTypeOK

LEMMA TakeType ==
    ASSUME TypeOK, NEW a \in Apps, Take(a)
    PROVE  TypeOK'
<1>1. ManagerTypeOK' /\ UNCHANGED reconcilerVars
  BY DequeueType, WorkerHoldsName DEF Take, TypeOK
<1>2. RunShape'
  BY <1>1, Takes, NoAppAssumption DEF TypeOK, RunShape, Idle, reconcilerVars
<1> QED
  BY <1>1, <1>2 DEF TypeOK, reconcilerVars, history

\* What GitHub may have accepted when the process died.
LEMMA StopPosts ==
    ASSUME TypeOK, Stop
    PROVE  /\ Me' = Idle
           /\ \E reached \in SUBSET (IF Me.pc = "comment" THEN Wanted ELSE {}) :
                 comments' = comments \cup reached
           /\ comments' \subseteq Comments(Apps)
<1>1. Me' = Idle
  BY WorkerHoldsName DEF Stop, Crash, Me
<1>2. PICK reached \in SUBSET (IF Me.pc = "comment" THEN Wanted ELSE {}) :
        comments' = comments \cup reached
  BY DEF Stop
<1>3. reached \subseteq Comments(Apps)
  BY <1>2, WantedType
<1> QED
  BY <1>1, <1>2, <1>3 DEF TypeOK

LEMMA StopType ==
    ASSUME TypeOK, Stop
    PROVE  TypeOK'
<1>1. ManagerTypeOK'
  BY CrashType DEF Stop, TypeOK
<1>2. RunShape'
  BY StopPosts DEF Stop, RunShape, Idle
<1> QED
  BY <1>1, <1>2, StopPosts DEF Stop, TypeOK, history

LEMMA RestartType ==
    ASSUME TypeOK, Restart
    PROVE  TypeOK'
<1>1. ManagerTypeOK' /\ UNCHANGED worker
  BY StartType DEF Restart, Start, TypeOK
<1> QED
  BY <1>1 DEF Restart, TypeOK, RunShape, Me, reconcilerVars, history

LEMMA InitTypeOK ==
    ASSUME Init
    PROVE  TypeOK
<1>1. ManagerTypeOK
  BY ManagerInitType DEF Init
<1>2. Me = Idle
  BY PhaseCommentAssumption DEF Init, ManagerInit, Me
<1> QED
  BY <1>1, <1>2 DEF Init, TypeOK, RunShape, Idle

LEMMA NextTypeOK ==
    ASSUME TypeOK, [Next]_vars
    PROVE  TypeOK'
<1>1. CASE Reconcile
  BY <1>1, GetApplicationType, CommentOnSourceType DEF Reconcile
<1>2. CASE UNCHANGED vars
  BY <1>2 DEF TypeOK, ManagerTypeOK, RunShape, Me, vars, managerVars,
              reconcilerVars, history
<1> QED
  BY <1>1, <1>2, EnvironmentType, WatchType, TakeType, StopType, RestartType
     DEF Next

\* Every state of the program is well typed and every run of the reconciler
\* has the shape its code gives it (applicationphasecomment_controller.go).
THEOREM TypeCorrect == Spec => []TypeOK
<1>1. Init => TypeOK
  BY InitTypeOK
<1>2. TypeOK /\ [Next]_vars => TypeOK'
  BY NextTypeOK
<1> QED
  BY <1>1, <1>2, PTL DEF Spec

-----------------------------------------------------------------------------
(* What the comments say.                                                  *)

\* Everything an object, its cached copy or the worker's copy shows was a
\* fact when Argo CD wrote it.
FactsKnown ==
    /\ \A a \in Apps : Facts(a, app[a]) \subseteq facts
    /\ \A a \in Apps : Facts(a, cached[a]) \subseteq facts
    /\ Me.pc = "comment" => Facts(Me.key, Me.obj) \subseteq facts

TruthInv ==
    /\ TypeOK
    /\ CommentsTruthful
    /\ FactsKnown

\* The comments of the source the loop has come to are facts.
LEMMA WantedIsFact ==
    ASSUME TruthInv, Me.pc = "comment", NEW m \in Wanted
    PROVE  [app |-> m.app, revision |-> m.revision, phase |-> PhaseSaid(m.kind)]
             \in facts
<1> DEFINE kind == PhaseCommentKind(Me.obj)
           r == GetSourceRevisions(Me.obj)[source]
<1>1. /\ source \in 1 .. Len(GetSourceRevisions(Me.obj))
      /\ Me.obj.exists /\ Facts(Me.key, Me.obj) \subseteq facts
  BY DEF TruthInv, TypeOK, RunShape, FactsKnown
<1>2. [app |-> Me.key, revision |-> r, phase |-> Me.obj.phase] \in facts
  BY <1>1 DEF Facts
<1>3. kind # NoComment /\ source \in GitHubSources
  BY DEF Wanted, CommentsOnSource
<1>4. PhaseSaid(kind) = Me.obj.phase
  BY <1>3 DEF PhaseCommentKind, PhaseSaid
<1>5. Wanted = {[app |-> Me.key, target |-> t, revision |-> r, kind |-> kind] :
                  t \in CommentTargets(r)}
  BY <1>3 DEF Wanted, CommentsOnSource
<1> HIDE DEF kind, r
<1>6. m.app = Me.key /\ m.revision = r /\ m.kind = kind
  BY <1>5
<1> QED
  BY <1>2, <1>4, <1>6

\* A step that adds facts keeps what the comments say, if each new comment
\* is a fact.
LEMMA TruthGrows ==
    ASSUME CommentsTruthful, facts \subseteq facts',
           \A m \in comments' :
              \/ m \in comments
              \/ [app |-> m.app, revision |-> m.revision, phase |-> PhaseSaid(m.kind)]
                    \in facts
    PROVE  CommentsTruthful'
BY DEF CommentsTruthful

\* The worker keeps its object, or ends, or takes a name.
LEMMA FactsStayKnown ==
    ASSUME FactsKnown, UNCHANGED facts,
           \A a \in Apps : app'[a] \in {app[a], cached[a]},
           \A a \in Apps : cached'[a] \in {app[a], cached[a]},
           Me' = Me \/ Me'.pc # "comment"
    PROVE  FactsKnown'
BY DEF FactsKnown, Facts

LEMMA TruthGetApplication ==
    ASSUME TruthInv, GetApplication
    PROVE  TruthInv'
<1>1. TypeOK /\ TypeOK' /\ UNCHANGED << app, cached, comments, facts >>
  BY GetApplicationType DEF TruthInv, GetApplication
<1>2. Me.key \in Apps
  BY <1>1, WorkerHoldsName DEF GetApplication
<1>3. \/ Me' = Idle
      \/ Me' = [pc |-> "comment", key |-> Me.key, obj |-> cached[Me.key]]
  BY <1>1, GetApplicationMoves
<1>4. FactsKnown'
  <2>1. \/ Me'.pc = "idle"
        \/ Me'.key = Me.key /\ Me'.obj = cached[Me.key]
    BY <1>3 DEF Idle
  <2>2. Me'.pc = "comment" => Facts(Me'.key, Me'.obj) \subseteq facts
    BY <1>2, <2>1 DEF TruthInv, FactsKnown
  <2> QED
    BY <1>1, <2>2 DEF TruthInv, FactsKnown, Facts
<1> QED
  BY <1>1, <1>4, TruthGrows DEF TruthInv

LEMMA TruthCommentOnSource ==
    ASSUME TruthInv, CommentOnSource
    PROVE  TruthInv'
<1>1. TypeOK /\ TypeOK' /\ UNCHANGED << app, cached, facts >>
  BY CommentOnSourceType DEF TruthInv, CommentOnSource, history
<1>2. \A m \in comments' : m \in comments \/ m \in Wanted
  BY DEF CommentOnSource
<1>3. CommentsTruthful'
  BY <1>1, <1>2, WantedIsFact, TruthGrows DEF CommentOnSource, TruthInv
<1>4. Me' = Me \/ Me'.pc # "comment"
  BY <1>1, CommentOnSourceMoves DEF Idle
<1> QED
  BY <1>1, <1>3, <1>4, FactsStayKnown DEF TruthInv

LEMMA TruthEnvironment ==
    ASSUME TruthInv, NEW a \in Apps, Environment(a)
    PROVE  TruthInv'
<1>1. TypeOK /\ TypeOK' /\ UNCHANGED << cached, worker, comments >>
  BY EnvironmentType, ArgoCDType DEF TruthInv, TypeOK, Environment
<1>2. facts' = facts \cup Facts(a, app'[a]) /\ app' = [app EXCEPT ![a] = app'[a]]
  BY <1>1, ArgoCDType DEF Environment, TypeOK
<1>3. \A b \in Apps : app'[b] = app[b] \/ b = a
  BY <1>1, <1>2 DEF TypeOK, ManagerTypeOK
<1>4. \A b \in Apps : Facts(b, app'[b]) \subseteq facts'
  BY <1>2, <1>3 DEF TruthInv, FactsKnown
<1>5. \A b \in Apps : Facts(b, cached'[b]) \subseteq facts'
  BY <1>1, <1>2 DEF TruthInv, FactsKnown
<1>6. Me'.pc = "comment" => Facts(Me'.key, Me'.obj) \subseteq facts'
  BY <1>1, <1>2 DEF TruthInv, FactsKnown, Me
<1>7. FactsKnown'
  BY <1>4, <1>5, <1>6 DEF FactsKnown, Facts
<1> QED
  BY <1>1, <1>2, <1>7, TruthGrows DEF TruthInv

LEMMA TruthStop ==
    ASSUME TruthInv, Stop
    PROVE  TruthInv'
<1>1. TypeOK /\ TypeOK' /\ UNCHANGED << app, cached, facts >>
  BY StopType DEF TruthInv, Stop, Crash, history
<1>2. \A m \in comments' : m \in comments \/ (Me.pc = "comment" /\ m \in Wanted)
  BY <1>1, StopPosts
<1>3. CommentsTruthful'
  BY <1>1, <1>2, WantedIsFact, TruthGrows DEF TruthInv
<1>4. Me'.pc # "comment"
  BY <1>1, StopPosts DEF Idle
<1> QED
  BY <1>1, <1>3, <1>4, FactsStayKnown DEF TruthInv

\* Steps of the informer, the queue and the start.
LEMMA TruthOther ==
    ASSUME TruthInv, TypeOK',
           \/ Restart
           \/ \E a \in Apps : Watch(a) \/ Take(a)
           \/ UNCHANGED vars
    PROVE  TruthInv'
<1>1. TypeOK
  BY DEF TruthInv
<1>2. /\ UNCHANGED << comments, facts >>
      /\ \A a \in Apps : app'[a] \in {app[a], cached[a]}
      /\ \A a \in Apps : cached'[a] \in {app[a], cached[a]}
      /\ Me' = Me \/ Me'.pc # "comment"
  <2>1. CASE Restart
    BY <2>1 DEF Restart, Start, reconcilerVars, history, Me
  <2>2. CASE \E a \in Apps : Watch(a)
    BY <1>1, <2>2 DEF Watch, Deliver, Me, TypeOK, ManagerTypeOK
  <2>3. CASE \E a \in Apps : Take(a)
    BY <1>1, <2>3, Takes DEF Take, Dequeue, reconcilerVars, history, Idle
  <2>4. CASE UNCHANGED vars
    BY <2>4 DEF vars, managerVars, reconcilerVars, history, Me
  <2> QED
    BY <2>1, <2>2, <2>3, <2>4
<1> QED
  BY <1>2, TruthGrows, FactsStayKnown DEF TruthInv

\* The invariant behind CommentsTruthful: the copies of an object show facts
\* only.
THEOREM TruthInvariant == Spec => []TruthInv
<1>1. Init => TruthInv
  <2> SUFFICES ASSUME Init PROVE TruthInv
    OBVIOUS
  <2>1. TypeOK /\ CommentsTruthful
    BY InitTypeOK DEF Init, CommentsTruthful
  <2>2. Me = Idle
    BY PhaseCommentAssumption DEF Init, ManagerInit, Me
  <2>3. cached = app /\ \A a \in Apps : app[a].phase = ""
    BY DEF Init, ManagerInit, NoApplication
  <2>4. ASSUME NEW a \in Apps
        PROVE  Facts(a, app[a]) = {}
    <3>1. GetSourceRevisions(app[a]) = << >>
      BY <2>3 DEF GetSourceRevisions
    <3>2. 1 .. Len(GetSourceRevisions(app[a])) = {}
      BY <3>1
    <3> QED
      BY <3>2 DEF Facts
  <2> QED
    BY <2>1, <2>2, <2>3, <2>4 DEF TruthInv, FactsKnown, Idle
<1>2. TruthInv /\ [Next]_vars => TruthInv'
  <2> SUFFICES ASSUME TruthInv, [Next]_vars PROVE TruthInv'
    OBVIOUS
  <2>1. TypeOK /\ TypeOK'
    BY NextTypeOK DEF TruthInv
  <2> QED
    BY <2>1, TruthGetApplication, TruthCommentOnSource, TruthEnvironment,
       TruthStop, TruthOther DEF Next, Reconcile
<1> QED
  BY <1>1, <1>2, PTL DEF Spec

\* A posted comment states the phase of a sync to the revision it is posted
\* on (notification/phasecomment.go), whatever happened since it was read.
THEOREM CommentsAreTruthful == Spec => []CommentsTruthful
<1>1. TruthInv => CommentsTruthful
  BY DEF TruthInv
<1> QED
  BY <1>1, TruthInvariant, PTL

-----------------------------------------------------------------------------
(* The cause of a run.                                                     *)

Queued(a) == IF a \in queue[PhaseComment] THEN 1 ELSE 0
Taken(a) == IF Me.pc = "get" /\ Me.key = a THEN 1 ELSE 0

\* Of one name: passes, and what is on its way to a pass.
Caused(a) == passes[a] + Queued(a) + Taken(a) <= changes[a]

LEMMA CausedIsOnePassPerChange ==
    OnePassPerChange <=> \A a \in Apps : Caused(a)
BY DEF OnePassPerChange, Caused, Queued, Taken

\* Nothing new is on its way.
LEMMA CausedFrame ==
    ASSUME TypeOK, NEW a \in Apps, Caused(a),
           passes'[a] = passes[a], changes'[a] = changes[a],
           a \in queue'[PhaseComment] => a \in queue[PhaseComment],
           Me'.pc = "get" /\ Me'.key = a => Me.pc = "get" /\ Me.key = a
    PROVE  Caused(a)'
<1>1. passes[a] \in Nat /\ changes[a] \in Nat
  BY DEF TypeOK
<1>2. Queued(a) \in {0, 1} /\ Queued(a)' \in {0, 1} /\ Queued(a)' <= Queued(a)
  BY DEF Queued
<1>3. Taken(a) \in {0, 1} /\ Taken(a)' \in {0, 1} /\ Taken(a)' <= Taken(a)
  BY DEF Taken
<1> QED
  BY <1>1, <1>2, <1>3 DEF Caused

\* A pass is the end of the worker's way to it.
LEMMA CausedGetApplication ==
    ASSUME TypeOK, GetApplication, NEW a \in Apps, Caused(a)
    PROVE  Caused(a)'
<1>1. Me.pc = "get" /\ Me.key \in Apps
  BY WorkerHoldsName DEF GetApplication
<1>2. /\ UNCHANGED << queue, changes >>
      /\ Me'.pc # "get"
  BY GetApplicationMoves DEF GetApplication, Idle
<1>3. passes \in [Apps -> Nat]
  BY DEF TypeOK
<1>4. CASE passes'[a] = passes[a]
  BY <1>2, <1>4, CausedFrame
<1>5. CASE passes'[a] # passes[a]
  <2>1. a = Me.key /\ passes'[a] = passes[a] + 1
    BY <1>1, <1>3, <1>5, GetApplicationMoves
  <2>2. Taken(a) = 1 /\ Taken(a)' = 0
    BY <1>1, <1>2, <2>1 DEF Taken
  <2>3. Queued(a)' = Queued(a) /\ Queued(a) \in {0, 1}
    BY <1>2 DEF Queued
  <2>4. passes[a] \in Nat /\ changes'[a] = changes[a] /\ changes[a] \in Nat
    BY <1>2 DEF TypeOK
  <2> QED
    BY <2>1, <2>2, <2>3, <2>4 DEF Caused
<1> QED
  BY <1>4, <1>5

\* A name enters the queue with a change of its object.
LEMMA CausedWatch ==
    ASSUME TypeOK, NEW b \in Apps, Watch(b), NEW a \in Apps, Caused(a)
    PROVE  Caused(a)'
<1>1. UNCHANGED << passes, worker >>
  BY DEF Watch, Deliver
<1>2. Me' = Me
  BY <1>1 DEF Me
<1>3. queue'[PhaseComment] = IF ApplicationChanged(PhaseComment, cached[b], app[b])
                             THEN queue[PhaseComment] \cup {b}
                             ELSE queue[PhaseComment]
  BY WorkerHoldsName DEF Watch, Deliver
<1>4. CASE a = b /\ ApplicationChanged(PhaseComment, cached[b], app[b])
  <2>1. changes'[a] = changes[a] + 1
    BY <1>4 DEF Watch, TypeOK
  <2>2. /\ Queued(a) \in {0, 1} /\ Queued(a)' \in {0, 1}
        /\ Taken(a)' = Taken(a) /\ Taken(a) \in {0, 1}
    BY <1>2 DEF Queued, Taken
  <2>3. passes[a] \in Nat /\ changes[a] \in Nat /\ passes'[a] = passes[a]
    BY <1>1 DEF TypeOK
  <2> QED
    BY <2>1, <2>2, <2>3 DEF Caused
<1>5. CASE ~(a = b /\ ApplicationChanged(PhaseComment, cached[b], app[b]))
  <2>1. changes'[a] = changes[a]
    BY <1>5 DEF Watch, TypeOK
  <2> QED
    BY <1>1, <1>2, <1>3, <1>5, <2>1, CausedFrame
<1> QED
  BY <1>4, <1>5

\* The worker takes a name out of the queue.
LEMMA CausedTake ==
    ASSUME TypeOK, NEW b \in Apps, Take(b), NEW a \in Apps, Caused(a)
    PROVE  Caused(a)'
<1>1. UNCHANGED << passes, changes >>
  BY DEF Take, reconcilerVars, history
<1>2. /\ Me.pc = "idle" /\ Me'.key = b
      /\ b \in queue[PhaseComment]
      /\ queue'[PhaseComment] = queue[PhaseComment] \ {b}
  BY Takes, WorkerHoldsName DEF Take, Dequeue, Idle, TypeOK, ManagerTypeOK
<1>3. CASE a = b
  <2>1. Queued(a) = 1 /\ Queued(a)' = 0
    BY <1>2, <1>3 DEF Queued
  <2>2. Taken(a) = 0 /\ Taken(a)' \in {0, 1}
    BY <1>2 DEF Taken
  <2>3. passes[a] \in Nat /\ changes[a] \in Nat
    BY DEF TypeOK
  <2> QED
    BY <1>1, <2>1, <2>2, <2>3 DEF Caused
<1>4. CASE a # b
  BY <1>1, <1>2, <1>4, CausedFrame
<1> QED
  BY <1>3, <1>4

\* Every other step puts nothing on its way: a crash empties the queue, and
\* neither a restart nor a refused comment fills it.
LEMMA CausedOther ==
    ASSUME TypeOK, NEW a \in Apps, Caused(a),
           \/ CommentOnSource
           \/ Stop
           \/ Restart
           \/ \E b \in Apps : Environment(b)
           \/ UNCHANGED vars
    PROVE  Caused(a)'
<1>1. CASE CommentOnSource
  <2>1. UNCHANGED << passes, changes, queue >> /\ (Me' = Me \/ Me'.pc = "idle")
    BY <1>1, CommentOnSourceMoves DEF CommentOnSource, history, Idle
  <2> QED
    BY <2>1, CausedFrame
<1>2. CASE Stop
  <2>1. UNCHANGED << passes, changes >> /\ Me'.pc = "idle"
    BY <1>2, StopPosts DEF Stop, history, Idle
  <2>2. queue'[PhaseComment] = {}
    BY <1>2, WorkerHoldsName DEF Stop, Crash
  <2> QED
    BY <2>1, <2>2, CausedFrame
<1>3. CASE \/ Restart
           \/ \E b \in Apps : Environment(b)
           \/ UNCHANGED vars
  <2>1. UNCHANGED << passes, changes, queue, worker >>
    BY <1>3, ArgoCDType
       DEF Restart, Start, Environment, TypeOK, vars, managerVars, reconcilerVars,
           history
  <2>2. Me' = Me
    BY <2>1 DEF Me
  <2> QED
    BY <2>1, <2>2, CausedFrame
<1> QED
  BY <1>1, <1>2, <1>3

\* A run that comments has a change of phase of its own as its cause
\* (filterApplicationSyncOperationPhaseForComment), across crashes, watch
\* gaps and refused comments: the property is inductive with the types.
THEOREM PassesAreCaused == Spec => []OnePassPerChange
<1>1. Init => OnePassPerChange
  <2> SUFFICES ASSUME Init, NEW a \in Apps PROVE Caused(a)
    BY CausedIsOnePassPerChange
  <2>1. Me.pc = "idle" /\ queue[PhaseComment] = {}
    BY PhaseCommentAssumption DEF Init, ManagerInit, Me, Idle
  <2>2. passes[a] = 0 /\ changes[a] = 0
    BY DEF Init
  <2> QED
    BY <2>1, <2>2 DEF Caused, Queued, Taken
<1>2. TypeOK /\ OnePassPerChange /\ [Next]_vars => OnePassPerChange'
  <2> SUFFICES ASSUME TypeOK, OnePassPerChange, [Next]_vars, NEW a \in Apps
               PROVE  Caused(a)'
    BY DEF OnePassPerChange, Caused, Queued, Taken
  <2>1. Caused(a)
    BY CausedIsOnePassPerChange
  <2> QED
    BY <2>1, CausedGetApplication, CausedWatch, CausedTake, CausedOther
       DEF Next, Reconcile
<1> QED
  BY <1>1, <1>2, TypeCorrect, PTL DEF Spec

-----------------------------------------------------------------------------
(* What is left to comment when the controller is at rest.                 *)

SyncedObject(obj) == obj.exists /\ ~obj.deleting /\ obj.phase = "Succeeded"

SameSync(obj, other) == obj.phase = other.phase /\ obj.sync = other.sync

\* The first n sources of the cached object have their comment.
CommentedUpto(a, n) ==
    \A i \in 1 .. n : CommentsOnSource(a, cached[a], i, "Synced") \subseteq comments

\* A run that comments on an outdated copy has an entry of the queue behind
\* it.
Fresh(a) ==
    SyncedObject(cached[a]) /\ Me.key = a /\ Me.pc = "comment" =>
        a \in queue[PhaseComment] \/ SameSync(Me.obj, cached[a])

\* Who owes the comments on a synced object the informer knows of.
Owed(a) ==
    SyncedObject(cached[a]) =>
        \/ a \in queue[PhaseComment]
        \/ Me.key = a /\ Me.pc = "get"
        \/ Me.key = a /\ Me.pc = "comment" /\ CommentedUpto(a, source - 1)
        \/ CommentedUpto(a, Len(GetSourceRevisions(cached[a])))

RestInv ==
    NoFault => up /\ CacheFollows /\ \A a \in Apps : Fresh(a) /\ Owed(a)

\* The comments depend on the phase and the sync only.
LEMMA SameComments ==
    ASSUME NEW obj, NEW other, SameSync(obj, other)
    PROVE  /\ GetSourceRevisions(obj) = GetSourceRevisions(other)
           /\ PhaseCommentKind(obj) = PhaseCommentKind(other)
           /\ \A a, i, kind :
                 CommentsOnSource(a, obj, i, kind) = CommentsOnSource(a, other, i, kind)
<1>1. GetSourceRevisions(obj) = GetSourceRevisions(other)
  BY DEF SameSync, GetSourceRevisions
<1> QED
  BY <1>1 DEF SameSync, PhaseCommentKind, CommentsOnSource

\* A step that leads to a state without fault leaves one, and is none.
LEMMA FaultsGrow ==
    ASSUME TypeOK, [Next]_vars, NoFault'
    PROVE  /\ NoFault
           /\ \A k \in FaultKinds : ~Fault(k)
           /\ ~Stop
<1>1. faults \in [FaultKinds -> Nat]
  BY DEF TypeOK, ManagerTypeOK
<1>2. ASSUME NEW k \in FaultKinds PROVE ~Fault(k)
  BY <1>1, <1>2 DEF Fault, NoFault
<1>3. ~Stop
  BY <1>2 DEF Stop, Crash, FaultKinds
<1>4. ASSUME UNCHANGED faults PROVE NoFault
  BY <1>4 DEF NoFault
<1>5. ASSUME \E a \in Apps : Environment(a) PROVE NoFault
  <2>1. \A k \in FaultKinds : faults'[k] >= faults[k]
    BY <1>5, ArgoCDType DEF Environment, TypeOK
  <2> QED
    BY <1>1, <2>1 DEF NoFault
<1>6. \/ UNCHANGED faults
      \/ \E a \in Apps : Environment(a)
  <2>1. CASE \E a \in Apps : Watch(a) \/ Take(a)
    BY <2>1 DEF Watch, Deliver, Take, Dequeue
  <2>2. CASE Reconcile
    BY <1>2, <2>2 DEF Reconcile, GetApplication, CommentOnSource, FaultKinds
  <2>3. CASE Restart
    BY <2>3 DEF Restart, Start
  <2>4. CASE UNCHANGED vars
    BY <2>4 DEF vars, managerVars
  <2> QED
    BY <1>3, <2>1, <2>2, <2>3, <2>4 DEF Next
<1> QED
  BY <1>2, <1>3, <1>4, <1>5, <1>6

\* A step that is not about the name.
LEMMA OwedFrame ==
    ASSUME NEW a \in Apps, Fresh(a), Owed(a),
           cached'[a] = cached[a], comments \subseteq comments',
           a \in queue[PhaseComment] => a \in queue'[PhaseComment],
           \/ Me' = Me /\ source' = source
           \/ Me.key # a /\ Me'.key # a
    PROVE  Fresh(a)' /\ Owed(a)'
<1>1. CommentedUpto(a, Len(GetSourceRevisions(cached[a]))) =>
        CommentedUpto(a, Len(GetSourceRevisions(cached[a])))'
  BY DEF CommentedUpto
<1>2. CommentedUpto(a, source - 1) /\ source' = source => CommentedUpto(a, source - 1)'
  BY DEF CommentedUpto
<1>3. Fresh(a)'
  BY DEF Fresh
<1> QED
  BY <1>1, <1>2, <1>3 DEF Owed

\* The run starts with what the informer holds, which is up to date.
LEMMA OwedGetApplication ==
    ASSUME TypeOK, GetApplication, NEW a \in Apps, Fresh(a), Owed(a)
    PROVE  Fresh(a)' /\ Owed(a)'
<1> DEFINE obj == cached[Me.key]
<1>1. /\ UNCHANGED << cached, comments, queue >>
      /\ Me.pc = "get" /\ Me.key \in Apps /\ obj \in Objects
  BY GetApplicationMoves, WorkerHoldsName DEF GetApplication, TypeOK, ManagerTypeOK
<1>2. Me'.key \in {Me.key, NoApp}
  BY GetApplicationMoves DEF Idle
<1>3. CASE a # Me.key
  BY <1>1, <1>2, <1>3, NoAppAssumption, OwedFrame
<1>4. CASE a = Me.key /\ ~SyncedObject(cached[a])
  BY <1>1, <1>4 DEF Fresh, Owed, SyncedObject
<1>5. CASE a = Me.key /\ SyncedObject(cached[a])
  <2>1. MayBeCommented(obj)
    BY <1>5 DEF MayBeCommented, GetSyncOperationPhase, SyncedObject
  <2>2. CASE GetSourceRevisions(obj) = << >> /\ Return(PhaseComment)
    <3>1. CommentedUpto(a, Len(GetSourceRevisions(cached[a])))'
      BY <1>1, <1>5, <2>2 DEF CommentedUpto
    <3>2. Me' = Idle
      BY <1>1, <2>2, WorkerHoldsName DEF TypeOK, ManagerTypeOK, Return, Me
    <3> QED
      BY <3>1, <3>2 DEF Fresh, Owed, Idle
  <2>3. CASE GotApplication(PhaseComment, obj, "comment") /\ source' = 1
    <3>1. Me' = [pc |-> "comment", key |-> a, obj |-> cached[a]]
      BY <1>5, <2>3, WorkerHoldsName DEF TypeOK, ManagerTypeOK, GotApplication, Me
    <3>2. CommentedUpto(a, source - 1)'
      BY <2>3 DEF CommentedUpto
    <3> QED
      BY <1>1, <3>1, <3>2 DEF Fresh, Owed, SameSync
  <2> QED
    BY <2>1, <2>2, <2>3 DEF GetApplication
<1> QED
  BY <1>3, <1>4, <1>5

\* A round of the loop pays for one source more.
LEMMA OwedCommentOnSource ==
    ASSUME TypeOK, CommentOnSource, UNCHANGED faults, ~Fault("github"),
           NEW a \in Apps, Fresh(a), Owed(a)
    PROVE  Fresh(a)' /\ Owed(a)'
<1> DEFINE n == Len(GetSourceRevisions(Me.obj))
<1>1. /\ UNCHANGED << cached, queue >>
      /\ Me.pc = "comment" /\ Me.key \in Apps /\ source \in 1 .. n /\ n \in Nat
  <2>1. n \in Nat
    BY WorkerHoldsName, SourceRevisionsType
  <2> QED
    BY <2>1, CommentOnSourceMoves, WorkerHoldsName DEF CommentOnSource, TypeOK, RunShape
<1>2. comments' = comments \cup Wanted
  BY DEF CommentOnSource
<1>3. Me' = Me \/ Me' = Idle
  BY CommentOnSourceMoves
<1>4. CASE a # Me.key
  BY <1>1, <1>2, <1>3, <1>4, NoAppAssumption, OwedFrame DEF Idle
<1>5. CASE ~SyncedObject(cached[a])
  BY <1>1, <1>5 DEF Fresh, Owed
<1>6. CASE a = Me.key /\ SyncedObject(cached[a])
  <2>1. Fresh(a)'
    BY <1>1, <1>3 DEF Fresh, Idle
  <2>2. CASE a \in queue[PhaseComment]
    BY <1>1, <2>1, <2>2 DEF Owed
  <2>3. CASE CommentedUpto(a, Len(GetSourceRevisions(cached[a])))
    <3>1. CommentedUpto(a, Len(GetSourceRevisions(cached[a])))'
      BY <1>1, <1>2, <2>3 DEF CommentedUpto
    <3> QED
      BY <2>1, <3>1 DEF Owed
  <2>4. CASE a \notin queue[PhaseComment] /\ CommentedUpto(a, source - 1)
    <3>1. SameSync(Me.obj, cached[a])
      BY <1>1, <1>6, <2>4 DEF Fresh
    <3>2. PhaseCommentKind(Me.obj) = "Synced"
      BY <1>6, <3>1 DEF SameSync, SyncedObject, PhaseCommentKind
    <3>3. /\ Wanted = CommentsOnSource(a, cached[a], source, "Synced")
          /\ n = Len(GetSourceRevisions(cached[a]))
      BY <1>6, <3>1, <3>2, SameComments DEF Wanted
    <3> HIDE DEF n
    <3>4. ASSUME NEW i \in 1 .. source
          PROVE  CommentsOnSource(a, cached'[a], i, "Synced") \subseteq comments'
      <4>1. i \in 1 .. (source - 1) \/ i = source
        BY <1>1
      <4> QED
        BY <1>1, <1>2, <2>4, <3>3, <4>1 DEF CommentedUpto
    <3>5. CASE source < Len(GetSourceRevisions(Me.obj)) /\ source' = source + 1 /\ UNCHANGED worker
      <4>1. Me' = Me /\ source' - 1 = source
        BY <1>1, <3>5 DEF Me
      <4>2. CommentedUpto(a, source - 1)'
        BY <3>4, <4>1 DEF CommentedUpto
      <4> QED
        BY <1>1, <1>6, <2>1, <4>1, <4>2 DEF Owed
    <3>6. CASE source = Len(GetSourceRevisions(Me.obj))
      <4>1. CommentedUpto(a, Len(GetSourceRevisions(cached[a])))'
        BY <1>1, <3>3, <3>4, <3>6 DEF CommentedUpto, n
      <4> QED
        BY <2>1, <4>1 DEF Owed
    <3> QED
      BY <3>5, <3>6 DEF CommentOnSource
  <2> QED
    BY <1>1, <1>6, <2>2, <2>3, <2>4 DEF Owed
<1> QED
  BY <1>4, <1>5, <1>6

\* A delivery that changes what is owed queues the name.
LEMMA OwedWatch ==
    ASSUME TypeOK, CacheFollows, NEW b \in Apps, Watch(b),
           NEW a \in Apps, Fresh(a), Owed(a)
    PROVE  Fresh(a)' /\ Owed(a)'
<1>1. /\ UNCHANGED << worker, source, comments >>
      /\ cached' = [cached EXCEPT ![b] = app[b]]
      /\ queue'[PhaseComment] = IF ApplicationChanged(PhaseComment, cached[b], app[b])
                                THEN queue[PhaseComment] \cup {b}
                                ELSE queue[PhaseComment]
  BY WorkerHoldsName DEF Watch, Deliver
<1>2. Me' = Me
  BY <1>1 DEF Me
<1>3. CASE a # b
  BY <1>1, <1>2, <1>3, OwedFrame DEF TypeOK, ManagerTypeOK
<1>4. CASE a = b
  <2>1. cached'[a] = app[a]
    BY <1>1, <1>4 DEF TypeOK, ManagerTypeOK
  <2>2. CASE ~SyncedObject(app[a])
    BY <2>1, <2>2 DEF Fresh, Owed
  <2>3. CASE a \in queue'[PhaseComment]
    BY <2>3 DEF Fresh, Owed
  <2>4. CASE SyncedObject(app[a]) /\ a \notin queue'[PhaseComment]
    <3>1. /\ cached[a].exists /\ ~cached[a].deleting
          /\ cached[a].phase = "Succeeded" => cached[a].sync = app[a].sync
      BY <2>4 DEF CacheFollows, Follows, SyncedObject
    <3>2. cached[a].phase = "Succeeded"
      BY <1>1, <1>4, <2>4, <3>1
         DEF ApplicationChanged, Filter, PhaseComment, PhaseChangedTo, SyncedObject,
             filterApplicationSyncOperationPhaseForComment, GetSyncOperationPhase,
             SyncOperationPhasesForComment
    <3>3. SyncedObject(cached[a]) /\ SameSync(cached[a], app[a])
      BY <2>4, <3>1, <3>2 DEF SyncedObject, SameSync
    <3>4. a \notin queue[PhaseComment]
      BY <1>1, <2>4
    <3>5. Fresh(a)'
      BY <1>2, <2>1, <3>3, <3>4 DEF Fresh, SameSync
    <3>6. /\ CommentedUpto(a, source - 1) => CommentedUpto(a, source - 1)'
          /\ CommentedUpto(a, Len(GetSourceRevisions(cached[a]))) =>
                CommentedUpto(a, Len(GetSourceRevisions(cached[a])))'
      BY <1>1, <2>1, <3>3, SameComments DEF CommentedUpto
    <3> QED
      BY <1>1, <1>2, <3>3, <3>4, <3>5, <3>6 DEF Owed
  <2> QED
    BY <2>2, <2>3, <2>4
<1> QED
  BY <1>3, <1>4

\* The worker takes over what an entry of the queue stood for.
LEMMA OwedTake ==
    ASSUME TypeOK, NEW b \in Apps, Take(b), NEW a \in Apps, Fresh(a), Owed(a)
    PROVE  Fresh(a)' /\ Owed(a)'
<1>1. /\ UNCHANGED << cached, comments, source >>
      /\ Me.pc = "idle" /\ Me.key = NoApp
      /\ Me'.pc = "get" /\ Me'.key = b
      /\ queue'[PhaseComment] = queue[PhaseComment] \ {b}
  BY Takes, WorkerHoldsName
     DEF Take, Dequeue, reconcilerVars, Idle, TypeOK, ManagerTypeOK, RunShape
<1>2. CASE a = b
  BY <1>1, <1>2 DEF Fresh, Owed
<1>3. CASE a # b
  BY <1>1, <1>3, NoAppAssumption, OwedFrame
<1> QED
  BY <1>2, <1>3

\* Argo CD's writes are unknown to the informer as yet.
LEMMA OwedOther ==
    ASSUME TypeOK, NEW a \in Apps, Fresh(a), Owed(a),
           (\E b \in Apps : Environment(b)) \/ UNCHANGED vars
    PROVE  Fresh(a)' /\ Owed(a)'
<1>1. UNCHANGED << cached, queue, worker, source, comments >>
  BY ArgoCDType DEF Environment, TypeOK, vars, managerVars, reconcilerVars
<1>2. Me' = Me
  BY <1>1 DEF Me
<1> QED
  BY <1>1, <1>2, OwedFrame

\* While nothing fails, the process runs and its cache is at most one write
\* behind.
LEMMA ManagerAtRest ==
    ASSUME TypeOK, [Next]_vars, NoFault', up, CacheFollows
    PROVE  up' /\ CacheFollows'
<1>1. \A k \in FaultKinds : ~Fault(k)
  BY FaultsGrow
<1>2. CASE \E a \in Apps : Environment(a)
  <2>1. faults'["gap"] <= faults["gap"]
    BY FaultsGrow DEF NoFault, FaultKinds
  <2> QED
    BY <1>2, <2>1, ArgoCDType, CacheFollowsArgoCD DEF Environment, TypeOK
<1>3. CASE \E a \in Apps : Watch(a)
  BY <1>3, CacheFollowsDeliver DEF Watch, Deliver, TypeOK
<1>4. CASE UNCHANGED << app, cached, up >>
  BY <1>4 DEF CacheFollows, Follows
<1>5. CASE Restart
  BY <1>5 DEF Restart, Start
<1>6. Reconcile \/ UNCHANGED vars => UNCHANGED << app, cached, up >>
  BY DEF Reconcile, GetApplication, CommentOnSource, vars, managerVars
<1>7. ASSUME NEW a \in Apps, Take(a)
      PROVE  UNCHANGED << app, cached, up >>
  BY <1>7 DEF Take, Dequeue
<1> QED
  BY <1>2, <1>3, <1>4, <1>5, <1>6, <1>7, FaultsGrow DEF Next

LEMMA RestStep ==
    ASSUME TypeOK, RestInv, [Next]_vars
    PROVE  RestInv'
<1> SUFFICES ASSUME NoFault'
             PROVE  up' /\ CacheFollows' /\ \A a \in Apps : (Fresh(a) /\ Owed(a))'
  BY DEF RestInv
<1>1. /\ up /\ CacheFollows
      /\ \A a \in Apps : Fresh(a) /\ Owed(a)
      /\ ~Stop /\ ~Fault("github")
  BY FaultsGrow DEF RestInv, FaultKinds
<1>2. ASSUME NEW a \in Apps
      PROVE  Fresh(a)' /\ Owed(a)'
  <2>1. ~Restart
    BY <1>1 DEF Restart, Start
  <2>2. CommentOnSource => UNCHANGED faults
    BY <1>1 DEF CommentOnSource
  <2> QED
    BY <1>1, <2>1, <2>2, OwedGetApplication, OwedCommentOnSource, OwedWatch, OwedTake,
       OwedOther DEF Next, Reconcile
<1> QED
  BY <1>1, <1>2, ManagerAtRest

\* No end of a sync gets lost between the watch, the queue that merges
\* updates of a name and the run that reads the object only later
\* (applicationphasecomment_controller.go): without faults, whatever the
\* order of updates and runs, a synced object is commented or someone owes it
\* the comments, and at rest nobody does.
THEOREM SyncedAtRestIsCommented == Spec => []CommentedAtRest
<1>1. Init => RestInv
  <2> SUFFICES ASSUME Init PROVE RestInv
    OBVIOUS
  <2>1. up /\ CacheFollows
    BY CacheFollowsInit DEF Init
  <2>2. cached = app /\ \A a \in Apps : app[a].phase = ""
    BY DEF Init, ManagerInit, NoApplication
  <2> QED
    BY <2>1, <2>2 DEF RestInv, Fresh, Owed, SyncedObject
<1>2. TypeOK /\ RestInv /\ [Next]_vars => RestInv'
  BY RestStep
<1>3. TypeOK /\ RestInv => CommentedAtRest
  <2> SUFFICES ASSUME TypeOK, RestInv, NoFault, NEW a \in Apps, Synced(a), AtRest(a)
               PROVE  IsCommented(a)
    BY DEF CommentedAtRest
  <2>1. Owed(a) /\ SyncedObject(cached[a])
    BY DEF RestInv, AtRest, Synced, SyncedObject
  <2>2. CommentedUpto(a, Len(GetSourceRevisions(cached[a])))
    BY <2>1 DEF Owed, AtRest
  <2> QED
    BY <2>2 DEF CommentedUpto, IsCommented, AtRest
<1> QED
  BY <1>1, <1>2, <1>3, TypeCorrect, PTL DEF Spec

=============================================================================
