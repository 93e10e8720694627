------------------------ MODULE Notification_proofs ------------------------
(* Lemmas about an object's source revisions and the comments on them.     *)
EXTENDS Notification, TLAPS

-----------------------------------------------------------------------------
(* The source revisions.                                                   *)

\* The accessor returns a list of revision strings for every object.
LEMMA SourceRevisionsType ==
    ASSUME NEW obj \in Objects
    PROVE  GetSourceRevisions(obj) \in Seq(RevisionStrings)
<1>1. CASE obj.phase = "" \/ obj.sync = NoSync
  <2>1. GetSourceRevisions(obj) = << >>
    BY <1>1 DEF GetSourceRevisions
  <2> QED
    BY <2>1
<1>2. CASE ~(obj.phase = "" \/ obj.sync = NoSync)
  <2>1. obj.sync \in Syncs
    BY <1>2 DEF Objects
  <2> DEFINE revisions == SyncedRevisions(obj.sync)
             size == IF SourceCount < Len(revisions) THEN SourceCount
                                                     ELSE Len(revisions)
  <2>2. revisions \in Seq(RevisionStrings)
    BY <2>1 DEF Syncs, SyncedRevisions
  <2>3. size \in 0 .. Len(revisions)
    BY <2>2, SourceCountAssumption
  <2>4. GetSourceRevisions(obj) = SubSeq(revisions, 1, size)
    BY <1>2 DEF GetSourceRevisions
  <2> HIDE DEF revisions, size
  <2> QED
    BY <2>2, <2>3, <2>4
<1> QED
  BY <1>1, <1>2

\* Every source of an object has a revision string.
LEMMA SourceRevisionType ==
    ASSUME NEW obj \in Objects,
           NEW i \in 1 .. Len(GetSourceRevisions(obj))
    PROVE  GetSourceRevisions(obj)[i] \in RevisionStrings
BY SourceRevisionsType

\* A list of source revisions that is not empty has a first one.
LEMMA FirstSource ==
    ASSUME NEW obj \in Objects, GetSourceRevisions(obj) # << >>
    PROVE  /\ 1 \in 1 .. Len(GetSourceRevisions(obj))
           /\ GetSourceRevisions(obj)[1] \in RevisionStrings
<1>1. GetSourceRevisions(obj) \in Seq(RevisionStrings)
  BY SourceRevisionsType
<1> QED
  BY <1>1

-----------------------------------------------------------------------------
(* The comments.                                                           *)

\* What an object is commented with is one of the kinds, or nothing.
LEMMA HealthCommentKindType ==
    ASSUME NEW obj \in Objects
    PROVE  HealthCommentKind(obj) \in CommentKinds \cup {NoComment}
BY DEF HealthCommentKind, CommentKinds, NoComment

\* The same of a phase.
LEMMA PhaseCommentKindType ==
    ASSUME NEW obj \in Objects
    PROVE  PhaseCommentKind(obj) \in CommentKinds \cup {NoComment}
BY DEF PhaseCommentKind, CommentKinds, NoComment

\* The comments on a source are typed.
LEMMA CommentsOnSourceType ==
    ASSUME NEW apps, NEW a \in apps, NEW obj \in Objects,
           NEW i \in 1 .. Len(GetSourceRevisions(obj)),
           NEW kind \in CommentKinds \cup {NoComment}
    PROVE  CommentsOnSource(a, obj, i, kind) \subseteq Comments(apps)
<1> DEFINE r == GetSourceRevisions(obj)[i]
<1>1. r \in RevisionStrings
  BY SourceRevisionType
<1> HIDE DEF r
<1>2. CommentTargets(r) \subseteq Pulls \cup {Commit}
  BY <1>1, PullAssumption DEF CommentTargets
<1>3. CASE kind = NoComment \/ i \notin GitHubSources
  BY <1>3 DEF CommentsOnSource
<1>4. CASE ~(kind = NoComment \/ i \notin GitHubSources)
  <2>1. CommentsOnSource(a, obj, i, kind) =
          {[app |-> a, target |-> t, revision |-> r, kind |-> kind] :
             t \in CommentTargets(r)}
    BY <1>4 DEF CommentsOnSource, r
  <2> QED
    BY <1>1, <1>2, <1>4, <2>1 DEF Comments
<1> QED
  BY <1>3, <1>4

=============================================================================
