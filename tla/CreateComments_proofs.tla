----------------------- MODULE CreateComments_proofs -----------------------
(* Theorems about CreateComments: its types, that a call keeps the promise *)
(* of CommentService, which pull requests get their comment, and that a    *)
(* call comes to its end.                                                  *)
EXTENDS CreateComments, PullRequestRelation_proofs, TLAPS, FiniteSetTheorems

-----------------------------------------------------------------------------
(* The lists.                                                              *)

\* A page of a list shows items of the list.
LEMMA FirstPageShows ==
    ASSUME NEW S, NEW list \in Seq(S)
    PROVE  /\ FirstPage(list) \in Seq(S)
           /\ ToSet(FirstPage(list)) \subseteq ToSet(list)
           /\ ToSet(list) \subseteq S
<1> DEFINE n == IF PageSize < Len(list) THEN PageSize ELSE Len(list)
<1>1. n \in Nat /\ n <= Len(list)
  BY BoundAssumption
<1>2. FirstPage(list) = SubSeq(list, 1, n)
  BY DEF FirstPage
<1> HIDE DEF n
<1>3. /\ SubSeq(list, 1, n) \in Seq(S)
      /\ Len(SubSeq(list, 1, n)) = n
      /\ \A k \in 1 .. n : SubSeq(list, 1, n)[k] = list[k]
  BY <1>1
<1>4. ToSet(SubSeq(list, 1, n)) \subseteq ToSet(list)
  BY <1>1, <1>3 DEF ToSet
<1>5. ToSet(list) \subseteq S
  BY DEF ToSet
<1> QED
  BY <1>2, <1>3, <1>4, <1>5

\* The pull requests that are listed for a source.
Listed(i) == ToSet(FirstPage(github.pulls[i]))

LEMMA ListedType ==
    ASSUME TypeOK, NEW i \in DOMAIN app.sources
    PROVE  /\ Listed(i) \subseteq PullsOf(i)
           /\ PullsOf(i) \subseteq Pulls
           /\ Selected(i) \subseteq Targets
<1>1. github.pulls[i] \in Seq(Pulls)
  BY InputAssumption DEF TypeOK
<1>2. Listed(i) \subseteq PullsOf(i) /\ PullsOf(i) \subseteq Pulls
  BY <1>1, FirstPageShows DEF Listed, PullsOf
<1>3. Selected(i) \subseteq Targets
  BY <1>2 DEF Selected, OrCommit, Targets, Listed
<1> QED
  BY <1>2, <1>3

\* No target is the name under which a failed list is noted.
LEMMA ListingIsNoTarget == Commit \notin Pulls /\ Listing \notin Targets
BY TargetAssumption

-----------------------------------------------------------------------------
(* Type correctness.                                                       *)

LEMMA InitTypeOK == Init => TypeOK
BY InputAssumption, BoundAssumption DEF Init, TypeOK, Calls

LEMMA NextSourceType ==
    ASSUME TypeOK, NextSource
    PROVE  TypeOK'
<1>1. /\ UNCHANGED << app, github, host, unread, targets, posted, errs, faults >>
      /\ Len(app.sources) \in Nat
      /\ DOMAIN app.sources = 1 .. Len(app.sources)
      /\ unread = {} /\ targets = {}
  BY InputAssumption DEF NextSource, TypeOK, inputs
<1>2. CASE source = Len(app.sources) /\ pc' = "done" /\ UNCHANGED source
  BY <1>1, <1>2 DEF TypeOK, Calls
<1>3. CASE /\ source < Len(app.sources) /\ source' = source + 1
           /\ pc' = IF Parsed(source + 1) THEN "list" ELSE "next"
  <2>1. source' \in 0 .. Len(app.sources) /\ source < source' /\ source' > 0
    BY <1>1, <1>3 DEF TypeOK
  <2>2. pc' = "list" => Parsed(source)'
    BY <1>1, <1>3 DEF Parsed
  <2>3. pc' \in {"list", "next"}
    BY <1>3
  <2>4. \A c \in posted \cup errs : c[1] <= source'
    BY <1>1, <2>1 DEF TypeOK, Calls
  <2> QED
    BY <1>1, <2>1, <2>2, <2>3, <2>4 DEF TypeOK, Calls
<1> QED
  BY <1>2, <1>3 DEF NextSource

\* The source of a step that calls GitHub.
LEMMA SourceOfCall ==
    ASSUME TypeOK, pc \in {"list", "files", "post"}
    PROVE  /\ source \in DOMAIN app.sources
           /\ source \in 1 .. Len(app.sources)
           /\ source > 0 /\ Parsed(source) /\ source <= source
BY InputAssumption DEF TypeOK

LEMMA FailedType ==
    ASSUME TypeOK, pc \in {"list", "files", "post"},
           NEW call \in Targets \cup {Listing}, Failed(call), UNCHANGED inputs
    PROVE  /\ errs' \subseteq Calls'
           /\ faults' \in 0 .. MaxFaults
           /\ \A c \in errs' : c[1] <= source
<1>1. << source, call >> \in Calls /\ Calls' = Calls
  BY SourceOfCall DEF Calls, inputs
<1>2. source \in Nat
  BY SourceOfCall
<1>3. faults' \in 0 .. MaxFaults
  BY BoundAssumption DEF Failed, TypeOK
<1>4. errs' = errs \cup {<< source, call >>}
  BY DEF Failed
<1> QED
  BY <1>1, <1>2, <1>3, <1>4 DEF TypeOK

LEMMA ListFailedType ==
    ASSUME TypeOK, pc \in {"list", "files"}, ListFailed,
           UNCHANGED << inputs, source, posted >>
    PROVE  TypeOK'
<1>1. /\ errs' \subseteq Calls'
      /\ faults' \in 0 .. MaxFaults
      /\ \A c \in errs' : c[1] <= source
  BY FailedType DEF ListFailed
<1>2. pc' = "next" /\ unread' = {} /\ targets' = {}
  BY DEF ListFailed
<1>3. UNCHANGED << app, github, host, source, posted >> /\ posted' \subseteq Calls'
  BY DEF TypeOK, inputs, Calls
<1> QED
  BY <1>1, <1>2, <1>3 DEF TypeOK

LEMMA ListPullRequestsType ==
    ASSUME TypeOK, ListPullRequests
    PROVE  TypeOK'
<1>1. pc = "list" /\ UNCHANGED << inputs, source, posted >>
  BY DEF ListPullRequests
<1>2. CASE ListFailed
  BY <1>1, <1>2, ListFailedType
<1>3. CASE /\ Answered /\ pc' = "files" /\ unread' = Listed(source)
           /\ UNCHANGED targets
  <2>1. source \in DOMAIN app.sources /\ source > 0 /\ Parsed(source)
    BY <1>1, SourceOfCall
  <2>2. unread' \subseteq Pulls
    BY <1>3, <2>1, ListedType
  <2>3. UNCHANGED << app, github, host, errs, faults >> /\ Calls' = Calls /\ Parsed(source)'
    BY <1>1, <1>3, <2>1 DEF inputs, Answered, Calls, Parsed
  <2> QED
    BY <1>1, <1>3, <2>1, <2>2, <2>3 DEF TypeOK
<1> QED
  BY <1>2, <1>3 DEF ListPullRequests, Listed

LEMMA ListFilesType ==
    ASSUME TypeOK, NEW p \in Pulls, ListFiles(p)
    PROVE  TypeOK'
<1>1. pc = "files" /\ UNCHANGED << inputs, source, posted >>
  BY DEF ListFiles
<1>2. CASE ListFailed
  BY <1>1, <1>2, ListFailedType
<1>3. CASE /\ Answered /\ unread' = unread \ {p} /\ UNCHANGED pc
           /\ targets' = targets \cup {q \in {p} : Related(source, p)}
  <2>1. source \in DOMAIN app.sources /\ source > 0 /\ Parsed(source)
    BY <1>1, SourceOfCall
  <2>2. unread' \subseteq Pulls /\ targets' \subseteq Targets
    BY <1>3 DEF TypeOK, Targets
  <2>3. UNCHANGED << app, github, host, errs, faults >> /\ Calls' = Calls /\ Parsed(source)'
    BY <1>1, <1>3, <2>1 DEF inputs, Answered, Calls, Parsed
  <2> QED
    BY <1>1, <1>3, <2>1, <2>2, <2>3 DEF TypeOK
<1> QED
  BY <1>2, <1>3 DEF ListFiles

LEMMA FilterType ==
    ASSUME TypeOK, Filter
    PROVE  TypeOK'
<1>1. source \in DOMAIN app.sources /\ source > 0 /\ Parsed(source)
  BY SourceOfCall DEF Filter
<1>2. /\ targets' \subseteq Targets
      /\ pc' = IF targets' = {} THEN "next" ELSE "post"
      /\ unread' = {}
  BY DEF Filter, TypeOK, OrCommit, Targets
<1>3. /\ UNCHANGED << app, github, host, source, posted, errs, faults >>
      /\ Calls' = Calls /\ Parsed(source)'
  BY <1>1 DEF Filter, inputs, Calls, Parsed
<1> QED
  BY <1>1, <1>2, <1>3 DEF TypeOK

LEMMA CreateCommentType ==
    ASSUME TypeOK, NEW t \in Targets, CreateComment(t)
    PROVE  TypeOK'
<1>1. pc = "post" /\ UNCHANGED << app, github, host, source, unread >>
  BY DEF CreateComment, inputs
<1>2. source \in 1 .. Len(app.sources) /\ source > 0 /\ Parsed(source) /\ Parsed(source)'
  BY <1>1, SourceOfCall DEF Parsed
<1>3. Calls' = Calls /\ << source, t >> \in Calls
  BY <1>1, <1>2 DEF Calls
<1>4. /\ targets' \subseteq Targets
      /\ pc' = IF targets' = {} THEN "next" ELSE "post"
      /\ posted' \in {posted, posted \cup {<< source, t >>}}
  BY DEF CreateComment, Commented, TypeOK
<1>5. /\ errs' \subseteq Calls
      /\ faults' \in 0 .. MaxFaults
      /\ \A c \in errs' : c[1] <= source
  <2>1. CASE Answered
    BY <2>1 DEF Answered, TypeOK
  <2>2. CASE Failed(t)
    BY <1>1, <1>3, <2>2, FailedType DEF inputs
  <2> QED
    BY <2>1, <2>2 DEF CreateComment, Commented
<1>6. posted' \subseteq Calls /\ \A c \in posted' : c[1] <= source
  BY <1>2, <1>3, <1>4 DEF TypeOK
<1> QED
  BY <1>1, <1>2, <1>3, <1>4, <1>5, <1>6 DEF TypeOK

LEMMA NextTypeOK == TypeOK /\ [Next]_vars => TypeOK'
<1> SUFFICES ASSUME TypeOK, [Next]_vars PROVE TypeOK'
  OBVIOUS
<1>1. CASE UNCHANGED vars
  BY <1>1 DEF vars, inputs, TypeOK, Calls, Parsed
<1>2. CASE Next
  BY <1>2, NextSourceType, ListPullRequestsType, ListFilesType, FilterType,
     CreateCommentType DEF Next
<1> QED
  BY <1>1, <1>2

\* Types, and the shape of a call of createComment (client.go:43): what is
\* read or selected for one source is used up before the next.
THEOREM TypeCorrect == Spec => []TypeOK
BY InitTypeOK, NextTypeOK, PTL DEF Spec

-----------------------------------------------------------------------------
(* The promise.                                                            *)

Attempted(i) ==
    \A t \in Selected(i) : << i, t >> \in posted \cup errs \/ << i, Listing >> \in errs

\* The loop has left the i-th source behind.
Behind(i) == i < source \/ (i = source /\ pc \in {"next", "done"})

PromiseInv ==
    /\ TypeOK
    /\ posted \subseteq Wanted
    /\ \A c \in errs : c \in Wanted \/ c[2] = Listing
    /\ \A i \in DOMAIN app.sources : Parsed(i) /\ Behind(i) => Attempted(i)
    /\ pc = "done" => source = Len(app.sources)
    /\ pc \in {"list", "files"} => \A c \in posted \cup errs : c[1] # source
    /\ pc = "files" =>
          /\ unread \subseteq Listed(source)
          /\ targets = {p \in Listed(source) \ unread : Related(source, p)}
    /\ pc = "post" =>
          /\ targets \subseteq Selected(source)
          /\ << source, Listing >> \notin errs
          /\ \A t \in Selected(source) :
                t \in targets <=> << source, t >> \notin posted \cup errs

\* Nothing writes the object or GitHub's lists.
LEMMA InputsStay ==
    ASSUME UNCHANGED inputs
    PROVE  /\ UNCHANGED << app, github, host, Wanted >>
           /\ \A i : /\ UNCHANGED << Selected(i), Listed(i) >>
                     /\ Parsed(i)' = Parsed(i)
                     /\ \A p : Related(i, p)' = Related(i, p)
BY DEF inputs, Wanted, Selected, Listed, Parsed, Related

\* What is wanted of a source.
LEMMA WantedOf ==
    ASSUME TypeOK
    PROVE  \A i, t : << i, t >> \in Wanted <=>
              i \in DOMAIN app.sources /\ Parsed(i) /\ t \in Selected(i)
BY DEF Wanted

\* A step that neither posts nor notes an error.
LEMMA ServiceStutter ==
    ASSUME UNCHANGED << inputs, posted, errs >>, pc # "done", pc' # "done"
    PROVE  UNCHANGED Service!vars
<1>1. UNCHANGED << Wanted, Missed >>
  BY InputsStay DEF Missed
<1> QED
  BY <1>1 DEF Service!vars

LEMMA PromiseNextSource ==
    ASSUME PromiseInv, NextSource
    PROVE  PromiseInv' /\ [Service!Next]_(Service!vars)
<1>1. /\ TypeOK /\ TypeOK' /\ pc = "next"
      /\ UNCHANGED << inputs, app, unread, targets, posted, errs, Wanted >>
      /\ \A i : Selected(i)' = Selected(i) /\ Parsed(i)' = Parsed(i)
  BY NextSourceType, InputsStay DEF PromiseInv, NextSource
<1>2. \A i : Attempted(i)' <=> Attempted(i)
  BY <1>1 DEF Attempted
<1>3. /\ Len(app.sources) \in Nat /\ DOMAIN app.sources = 1 .. Len(app.sources)
      /\ source \in 0 .. Len(app.sources)
  BY <1>1, InputAssumption DEF TypeOK
<1>4. CASE source = Len(app.sources) /\ pc' = "done" /\ UNCHANGED source
  <2>1. PromiseInv'
    BY <1>1, <1>2, <1>4 DEF PromiseInv, Behind
  <2>2. \A i \in DOMAIN app.sources : Parsed(i) => Attempted(i)
    BY <1>1, <1>3, <1>4 DEF PromiseInv, Behind
  <2>3. \A c \in Wanted : c \in posted \cup Missed
    BY <1>1, <2>2 DEF Wanted, Missed, Attempted
  <2>4. errs = {} => Missed = {}
    BY DEF Missed
  <2>5. UNCHANGED << Wanted, Missed, posted, errs >>
    BY <1>1 DEF Missed
  <2>6. Service!Report
    BY <1>1, <1>4, <2>3, <2>4, <2>5 DEF Service!Report, Service!Open
  <2>7. Service!Next
    BY <1>1, <2>6 DEF Service!Next
  <2> QED
    BY <2>1, <2>7
<1>5. CASE /\ source < Len(app.sources) /\ source' = source + 1
           /\ pc' = IF Parsed(source + 1) THEN "list" ELSE "next"
  <2>1. \A i \in DOMAIN app.sources : Parsed(i) /\ Behind(i)' => Behind(i)
    BY <1>1, <1>3, <1>5 DEF Behind
  <2>2. \A c \in posted \cup errs : c[1] # source'
    BY <1>1, <1>3, <1>5 DEF TypeOK, Calls
  <2>3. PromiseInv'
    BY <1>1, <1>2, <1>5, <2>1, <2>2 DEF PromiseInv
  <2>4. UNCHANGED Service!vars
    BY <1>1, <1>5, ServiceStutter
  <2> QED
    BY <2>3, <2>4
<1> QED
  BY <1>4, <1>5 DEF NextSource

\* A list that cannot be read is reported for everything the source wants.
LEMMA PromiseListFailed ==
    ASSUME PromiseInv, TypeOK', pc \in {"list", "files"}, ListFailed,
           UNCHANGED << inputs, source, posted >>
    PROVE  PromiseInv' /\ Service!Next
<1> DEFINE cs == {source} \X Selected(source)
<1>1. /\ TypeOK
      /\ UNCHANGED << app, source, posted, Wanted >>
      /\ \A i : Selected(i)' = Selected(i) /\ Parsed(i)' = Parsed(i)
      /\ errs' = errs \cup {<< source, Listing >>} /\ pc' = "next"
  BY InputsStay DEF PromiseInv, ListFailed, Failed
<1>2. source \in DOMAIN app.sources /\ Parsed(source) /\ source \in Nat
  BY <1>1, SourceOfCall
<1>3. \A i \in DOMAIN app.sources : Parsed(i) /\ Behind(i)' => Attempted(i)'
  <2> SUFFICES ASSUME NEW i \in DOMAIN app.sources, Parsed(i), Behind(i)'
               PROVE  Attempted(i)'
    OBVIOUS
  <2>1. CASE i = source
    BY <1>1, <2>1 DEF Attempted
  <2>2. CASE i # source
    <3>1. Behind(i)
      BY <1>1, <2>2 DEF Behind
    <3>2. Attempted(i)
      BY <3>1 DEF PromiseInv
    <3> QED
      BY <1>1, <3>2 DEF Attempted
  <2> QED
    BY <2>1, <2>2
<1>4. PromiseInv'
  BY <1>1, <1>3 DEF PromiseInv
<1>5. cs \subseteq Wanted
  BY <1>1, <1>2, WantedOf
<1>6. \A c \in cs : c \notin posted \cup errs /\ << c[1], Listing >> \notin errs
  BY DEF PromiseInv
<1>7. Missed' = Missed \cup cs
  <2>1. \A c \in Wanted : << c[1], Listing >> \in errs' <=>
                              << c[1], Listing >> \in errs \/ c \in cs
    BY <1>1, WantedOf DEF Wanted
  <2>2. \A c \in Wanted : c \in errs' <=> c \in errs
    BY <1>1, ListedType, ListingIsNoTarget DEF Wanted
  <2> QED
    BY <1>1, <1>5, <2>1, <2>2 DEF Missed
<1>8. Service!Miss(cs)
  BY <1>1, <1>7 DEF Service!Miss, ListFailed
<1>9. cs \subseteq Service!Open
  BY <1>5, <1>6 DEF Service!Open, Missed
<1> QED
  BY <1>4, <1>8, <1>9 DEF Service!Next

LEMMA PromiseListPullRequests ==
    ASSUME PromiseInv, ListPullRequests
    PROVE  PromiseInv' /\ [Service!Next]_(Service!vars)
<1>1. /\ TypeOK /\ TypeOK' /\ pc = "list"
      /\ UNCHANGED << inputs, source, posted >>
  BY ListPullRequestsType DEF PromiseInv, ListPullRequests
<1>2. CASE ListFailed
  BY <1>1, <1>2, PromiseListFailed
<1>3. CASE /\ Answered /\ pc' = "files" /\ unread' = Listed(source)
           /\ UNCHANGED targets
  <2>1. /\ UNCHANGED << app, source, posted, errs, Wanted >>
        /\ \A i : /\ UNCHANGED << Selected(i), Listed(i) >>
                  /\ Parsed(i)' = Parsed(i)
    BY <1>1, <1>3, InputsStay DEF Answered
  <2>2. \A i : Attempted(i)' <=> Attempted(i)
    BY <2>1 DEF Attempted
  <2>3. \A i : Behind(i)' => Behind(i)
    BY <1>3, <2>1 DEF Behind
  <2>4. targets' = {p \in Listed(source)' \ unread' : Related(source, p)'}
    BY <1>1, <1>3, <2>1 DEF TypeOK
  <2>5. UNCHANGED Service!vars
    BY <1>1, <1>3, <2>1, ServiceStutter
  <2> QED
    BY <1>1, <1>3, <2>1, <2>2, <2>3, <2>4, <2>5 DEF PromiseInv
<1> QED
  BY <1>2, <1>3 DEF ListPullRequests, Listed

LEMMA PromiseListFiles ==
    ASSUME PromiseInv, NEW p \in Pulls, ListFiles(p)
    PROVE  PromiseInv' /\ [Service!Next]_(Service!vars)
<1>1. /\ TypeOK /\ TypeOK' /\ pc = "files" /\ p \in unread
      /\ UNCHANGED << inputs, source, posted >>
  BY ListFilesType DEF PromiseInv, ListFiles
<1>2. CASE ListFailed
  BY <1>1, <1>2, PromiseListFailed
<1>3. CASE /\ Answered /\ unread' = unread \ {p} /\ UNCHANGED pc
           /\ targets' = targets \cup {q \in {p} : Related(source, p)}
  <2>1. /\ UNCHANGED << app, source, posted, errs, Wanted >>
        /\ \A i : /\ UNCHANGED << Selected(i), Listed(i) >>
                  /\ Parsed(i)' = Parsed(i)
                  /\ \A q : Related(i, q)' = Related(i, q)
    BY <1>1, <1>3, InputsStay DEF Answered
  <2>2. \A i : Attempted(i)' <=> Attempted(i)
    BY <2>1 DEF Attempted
  <2>3. \A i : Behind(i)' => Behind(i)
    BY <1>3, <2>1 DEF Behind
  <2>4. p \in Listed(source) /\ unread \subseteq Listed(source)
    BY <1>1 DEF PromiseInv
  <2>5. targets' = {q \in Listed(source)' \ unread' : Related(source, q)'}
    <3>1. targets = {q \in Listed(source) \ unread : Related(source, q)}
      BY <1>1 DEF PromiseInv
    <3>2. targets' = {q \in Listed(source) \ unread' : Related(source, q)}
      BY <1>1, <1>3, <2>4, <3>1
    <3> QED
      BY <2>1, <3>2
  <2>6. UNCHANGED Service!vars
    BY <1>1, <1>3, <2>1, ServiceStutter
  <2> QED
    BY <1>1, <1>3, <2>1, <2>2, <2>3, <2>4, <2>5, <2>6 DEF PromiseInv
<1> QED
  BY <1>2, <1>3 DEF ListFiles

LEMMA PromiseFilter ==
    ASSUME PromiseInv, Filter
    PROVE  PromiseInv' /\ [Service!Next]_(Service!vars)
<1>1. /\ TypeOK /\ TypeOK' /\ pc = "files" /\ unread = {}
      /\ UNCHANGED << inputs, app, source, unread, posted, errs, Wanted >>
      /\ \A i : /\ UNCHANGED << Selected(i), Listed(i) >>
                /\ Parsed(i)' = Parsed(i)
  BY FilterType, InputsStay DEF PromiseInv, Filter
<1>2. targets' = Selected(source)
  BY <1>1 DEF PromiseInv, Filter, Selected, Listed
<1>3. \A c \in posted \cup errs : c[1] # source
  BY <1>1 DEF PromiseInv
<1>4. pc' \in {"next", "post"} /\ (pc' = "next" => Selected(source) = {})
  BY <1>2 DEF Filter
<1>5. \A i \in DOMAIN app.sources : Parsed(i) /\ Behind(i)' => Attempted(i)'
  <2> SUFFICES ASSUME NEW i \in DOMAIN app.sources, Parsed(i), Behind(i)'
               PROVE  Attempted(i)'
    OBVIOUS
  <2>1. CASE i = source /\ pc' = "next"
    BY <1>1, <1>4, <2>1 DEF Attempted
  <2>2. CASE Behind(i)
    BY <1>1, <2>2 DEF PromiseInv, Attempted
  <2> QED
    BY <1>1, <1>4, <2>1, <2>2 DEF Behind
<1>6. pc' = "post" =>
         /\ << source, Listing >> \notin errs
         /\ \A t \in Selected(source) :
               t \in targets' <=> << source, t >> \notin posted \cup errs
  BY <1>2, <1>3
<1>7. UNCHANGED Service!vars
  BY <1>1, <1>4, ServiceStutter
<1> QED
  BY <1>1, <1>2, <1>4, <1>5, <1>6, <1>7 DEF PromiseInv

LEMMA PromiseCreateComment ==
    ASSUME PromiseInv, NEW t \in Targets, CreateComment(t)
    PROVE  PromiseInv' /\ [Service!Next]_(Service!vars)
<1> DEFINE c == << source, t >>
<1>1. /\ TypeOK /\ TypeOK' /\ pc = "post" /\ t \in targets
      /\ targets' = targets \ {t}
      /\ pc' = IF targets' = {} THEN "next" ELSE "post"
      /\ UNCHANGED << inputs, app, source, Wanted >>
      /\ \A i : UNCHANGED Selected(i) /\ Parsed(i)' = Parsed(i)
  BY CreateCommentType, InputsStay DEF PromiseInv, CreateComment
<1>2. /\ targets \subseteq Selected(source)
      /\ << source, Listing >> \notin errs
      /\ \A u \in Selected(source) :
            u \in targets <=> << source, u >> \notin posted \cup errs
  BY <1>1 DEF PromiseInv
<1>3. /\ c \in Wanted /\ c \notin posted \cup errs
      /\ t # Listing
  BY <1>1, <1>2, SourceOfCall, WantedOf, ListingIsNoTarget
<1>4. \/ posted' = posted \cup {c} /\ errs' = errs
      \/ posted' = posted /\ errs' = errs \cup {c}
      \/ posted' = posted \cup {c} /\ errs' = errs \cup {c}
  BY DEF CreateComment, Commented, Answered, Failed
<1>5. posted' \cup errs' = posted \cup errs \cup {c}
  BY <1>4
<1>6. \A i \in DOMAIN app.sources : Parsed(i) /\ Behind(i)' => Attempted(i)'
  <2> SUFFICES ASSUME NEW i \in DOMAIN app.sources, Parsed(i), Behind(i)'
               PROVE  Attempted(i)'
    OBVIOUS
  <2>1. CASE i = source /\ pc' = "next"
    <3>1. targets \subseteq {t}
      BY <1>1, <2>1
    <3> QED
      BY <1>1, <1>2, <1>5, <2>1, <3>1 DEF Attempted
  <2>2. CASE Behind(i)
    BY <1>1, <1>4, <2>2 DEF PromiseInv, Attempted
  <2> QED
    BY <1>1, <2>1, <2>2 DEF Behind
<1>7. pc' = "post" =>
         /\ targets' \subseteq Selected(source)
         /\ << source, Listing >> \notin errs'
         /\ \A u \in Selected(source) :
               u \in targets' <=> << source, u >> \notin posted' \cup errs'
  BY <1>1, <1>2, <1>3, <1>4, <1>5
<1>8. posted' \subseteq Wanted /\ \A e \in errs' : e \in Wanted \/ e[2] = Listing
  BY <1>3, <1>4 DEF PromiseInv
<1>9. PromiseInv'
  BY <1>1, <1>6, <1>7, <1>8 DEF PromiseInv
<1>10. c \in Service!Open
  BY <1>2, <1>3 DEF Service!Open, Missed
<1>11. Missed' = IF c \in errs' THEN Missed \cup {c} ELSE Missed
  <2>1. \A b \in Wanted : b \in errs' <=> b \in errs \/ (b = c /\ c \in errs')
    BY <1>3, <1>4
  <2>2. \A b \in Wanted : << b[1], Listing >> \in errs' <=> << b[1], Listing >> \in errs
    BY <1>3, <1>4
  <2> QED
    BY <1>1, <1>3, <2>1, <2>2 DEF Missed
<1>12. CASE posted' = posted \cup {c} /\ errs' = errs
  <2>1. Service!Make(c)
    BY <1>1, <1>3, <1>10, <1>11, <1>12 DEF Service!Make
  <2>2. Service!Next
    BY <1>1, <1>10, <2>1 DEF Service!Next
  <2> QED
    BY <1>9, <2>2
<1>13. CASE posted' \in {posted, posted \cup {c}} /\ errs' = errs \cup {c}
  <2>1. Missed' = Missed \cup {c}
    BY <1>11, <1>13
  <2>2. \E unanswered \in SUBSET {c} : posted' = posted \cup unanswered
    <3>1. CASE posted' = posted
      BY <3>1, posted' = posted \cup {}
    <3>2. CASE posted' = posted \cup {c}
      BY <3>2
    <3> QED
      BY <1>13, <3>1, <3>2
  <2>3. pc # "done" /\ pc' # "done"
    BY <1>1
  <2>4. Service!Miss({c})
    BY <1>1, <2>1, <2>2, <2>3 DEF Service!Miss
  <2>5. Service!Next
    BY <1>1, <1>10, <2>4 DEF Service!Next
  <2> QED
    BY <1>9, <2>5
<1> QED
  BY <1>4, <1>12, <1>13

LEMMA PromiseStep ==
    ASSUME PromiseInv, [Next]_vars
    PROVE  PromiseInv' /\ [Service!Next]_(Service!vars)
<1>1. CASE UNCHANGED vars
  <2>1. /\ UNCHANGED << inputs, app, pc, source, unread, targets, posted, errs, Wanted >>
        /\ \A i : /\ UNCHANGED << Selected(i), Listed(i) >>
                  /\ Parsed(i)' = Parsed(i)
                  /\ \A q : Related(i, q)' = Related(i, q)
    BY <1>1, InputsStay DEF vars
  <2>2. TypeOK'
    BY <1>1, NextTypeOK DEF PromiseInv
  <2>3. \A i : (Attempted(i)' <=> Attempted(i)) /\ (Behind(i)' <=> Behind(i))
    BY <2>1 DEF Attempted, Behind
  <2>4. pc' = "files" => targets' = {q \in Listed(source)' \ unread' : Related(source, q)'}
    BY <2>1 DEF PromiseInv
  <2>5. PromiseInv'
    BY <2>1, <2>2, <2>3, <2>4 DEF PromiseInv
  <2>6. UNCHANGED Service!vars
    BY <2>1 DEF Service!vars, Missed
  <2> QED
    BY <2>5, <2>6
<1>2. CASE Next
  BY <1>2, PromiseNextSource, PromiseListPullRequests, PromiseListFiles,
     PromiseFilter, PromiseCreateComment DEF Next
<1> QED
  BY <1>1, <1>2

LEMMA PromiseInit == Init => PromiseInv /\ Service!Init
<1> SUFFICES ASSUME Init PROVE PromiseInv /\ Service!Init
  OBVIOUS
<1>1. TypeOK
  BY InitTypeOK
<1>2. \A i \in DOMAIN app.sources : ~Behind(i)
  BY <1>1, InputAssumption DEF Init, Behind, TypeOK
<1>3. PromiseInv
  BY <1>1, <1>2 DEF Init, PromiseInv
<1>4. Service!Init
  BY DEF Init, Service!Init, Missed
<1> QED
  BY <1>3, <1>4

\* The invariant behind the promise: what is left in targets is what was
\* selected and neither made nor missed yet, and every source the loop has
\* left behind has nothing open.
THEOREM PromiseInvariant == Spec => []PromiseInv
BY PromiseInit, PromiseStep, PTL DEF Spec

\* A call of CreateCommentsOn...Changed (healthcomment.go:20,
\* phasecomment.go:22) implements the promise the reconcilers rely on.
THEOREM PromiseIsKept == Spec => KeepsPromise
<1>1. PromiseInv /\ [Next]_vars => [Service!Next]_(Service!vars)
  BY PromiseStep
<1>2. Init => Service!Init
  BY PromiseInit
<1> QED
  BY <1>1, <1>2, PromiseInvariant, PTL DEF Spec, Service!Spec, KeepsPromise

-----------------------------------------------------------------------------
(* Who gets a comment.                                                     *)

\* The commit is commented if nothing else is (client.go:53-63).
THEOREM CommitComesLast == Spec => []CommitIsTheLastResort
<1>1. PromiseInv => CommitIsTheLastResort
  <2> SUFFICES ASSUME PromiseInv, NEW c \in posted, c[2] = Commit,
                      NEW p \in Pulls, << c[1], p >> \in posted \cup errs
               PROVE  FALSE
    BY DEF CommitIsTheLastResort
  <2> DEFINE i == c[1]
             related == {q \in ToSet(FirstPage(github.pulls[i])) : Related(i, q)}
  <2>1. TypeOK /\ c \in Wanted /\ p # Listing
    BY ListingIsNoTarget DEF PromiseInv, Targets
  <2>2. << i, Commit >> \in Wanted
    BY <2>1 DEF Wanted
  <2>3. << i, p >> \in Wanted
    BY <2>1 DEF PromiseInv
  <2>4. i \in DOMAIN app.sources /\ Commit \in Selected(i) /\ p \in Selected(i)
    BY <2>1, <2>2, <2>3, WantedOf
  <2>5. related \subseteq Pulls
    BY <2>1, <2>4, ListedType DEF Listed
  <2>6. Selected(i) = OrCommit(related)
    BY DEF Selected
  <2>7. related = {} => Selected(i) \subseteq {Commit}
    BY <2>6 DEF OrCommit
  <2>8. related # {} => Selected(i) = related
    BY <2>6 DEF OrCommit
  <2> QED
    BY <2>4, <2>5, <2>7, <2>8, ListingIsNoTarget
<1> QED
  BY <1>1, PromiseInvariant, PTL

\* strings.HasPrefix holds of a path and each of its directories.
LEMMA DirectoryIsPrefix ==
    ASSUME NEW f \in Seq(Names), NEW n \in 0 .. Len(f)
    PROVE  HasPrefix(f, SubSeq(f, 1, n))
<1> DEFINE d == SubSeq(f, 1, n)
<1>1. /\ d \in Seq(Names) /\ Len(d) = n
      /\ \A k \in 1 .. n : d[k] = f[k]
  OBVIOUS
<1>2. CASE n = 0
  BY <1>1, <1>2 DEF HasPrefix
<1>3. CASE n > 0
  <2>1. SubSeq(d, 1, n - 1) = SubSeq(f, 1, n - 1)
    BY <1>1, <1>3
  <2>2. f[n] \in Names /\ d[n] = f[n]
    BY <1>1, <1>3
  <2>3. << f[n], d[n] >> \in StartsWith
    BY <2>2, NameAssumption
  <2> QED
    BY <1>1, <2>1, <2>3 DEF HasPrefix
<1> QED
  BY <1>2, <1>3

\* The directories of the object are those the code compares with.
LEMMA DirectoriesAreCompared ==
    ASSUME NEW i \in DOMAIN app.sources, NEW d, IsDirectory(i, d)
    PROVE  d \in getManifestGeneratePaths(app) \cup {Canonical(app.sources[i].path.elements)}
<1> DEFINE written == ToSet(app.annotation)
<1>1. CASE d = Canonical(app.sources[i].path.elements)
  BY <1>1
<1>2. CASE /\ EmptyPath \notin written
           /\ \E w \in written : w.absolute /\ d = Canonical(w.elements)
  BY <1>2 DEF getManifestGeneratePaths
<1>3. CASE /\ EmptyPath \notin written
           /\ \E w \in written :
                 /\ ~w.absolute
                 /\ \E s \in ToSet(app.sources) :
                       d = Canonical(s.path.elements \o w.elements)
  BY <1>3 DEF getManifestGeneratePaths
<1> QED
  BY <1>1, <1>2, <1>3 DEF IsDirectory

\* A pull request that touches a directory of the object is related to it.
LEMMA TouchingIsRelated ==
    ASSUME NEW files \in Seq(Seq(Names)), NEW i \in DOMAIN app.sources,
           Touches(files, i)
    PROVE  isPullRequestRelatedToEvent(files, app.sources[i],
                                       getManifestGeneratePaths(app))
<1>1. PICK f \in ToSet(files) : \E n \in 0 .. Len(f) : IsDirectory(i, SubSeq(f, 1, n))
  BY DEF Touches
<1>2. PICK n \in 0 .. Len(f) : IsDirectory(i, SubSeq(f, 1, n))
  BY <1>1
<1>3. f \in Seq(Names)
  BY DEF ToSet
<1>4. HasPrefix(f, SubSeq(f, 1, n))
  BY <1>3, DirectoryIsPrefix
<1> QED
  BY <1>2, <1>4, DirectoriesAreCompared DEF isPullRequestRelatedToEvent

\* No error of another source or pull request takes the comment away from a
\* pull request that the lists show and that touches a directory of the
\* object, for every object, repository and number of failed calls.
THEOREM TouchingGetsComment == Spec => []TouchingIsCommented
<1>1. PromiseInv => TouchingIsCommented
  <2> SUFFICES ASSUME PromiseInv, pc = "done",
                      NEW i \in DOMAIN app.sources, NEW p \in PullsOf(i),
                      Parsed(i), p \in ToSet(FirstPage(github.pulls[i])),
                      Touches(FirstPage(github.files[p]), i)
               PROVE  << i, p >> \in posted \cup errs \/ << i, Listing >> \in errs
    BY DEF TouchingIsCommented
  <2>1. TypeOK /\ p \in Pulls
    BY ListedType DEF PromiseInv
  <2>2. FirstPage(github.files[p]) \in Seq(Seq(Names))
    BY <2>1, InputAssumption, FirstPageShows DEF TypeOK
  <2>3. Related(i, p)
    BY <2>2, TouchingIsRelated DEF Related
  <2>4. p \in Selected(i)
    BY <2>3 DEF Selected, OrCommit
  <2>5. DOMAIN app.sources = 1 .. Len(app.sources) /\ Len(app.sources) \in Nat
    BY <2>1, InputAssumption DEF TypeOK
  <2>6. Attempted(i)
    BY <2>5 DEF PromiseInv, Behind
  <2> QED
    BY <2>4, <2>6 DEF Attempted
<1> QED
  BY <1>1, PromiseInvariant, PTL


\* What the code compares with are directories of the object, and these are
\* canonical.
LEMMA ComparedAreDirectories ==
    ASSUME TypeOK, NEW i \in DOMAIN app.sources,
           NEW d \in getManifestGeneratePaths(app)
                     \cup {Canonical(app.sources[i].path.elements)}
    PROVE  IsDirectory(i, d) /\ d \in Seq(Names)
<1> DEFINE written == ToSet(app.annotation)
<1>1. /\ \A s \in ToSet(app.sources) : s.path.elements \in Seq(Elements)
      /\ \A w \in written : w.elements \in Seq(Elements)
      /\ app.sources[i] \in ToSet(app.sources)
  <2>1. /\ app.sources \in Seq([repoURL : RepositoryURLs, path : WrittenPaths])
        /\ app.annotation \in Seq(WrittenPaths)
    BY InputAssumption DEF TypeOK
  <2>2. \A w \in WrittenPaths : w.elements \in Seq(Elements)
    BY DEF WrittenPaths, Elements
  <2>3. \A s \in ToSet(app.sources) : s.path \in WrittenPaths
    <3>1. ToSet(app.sources) \subseteq [repoURL : RepositoryURLs, path : WrittenPaths]
      BY <2>1, FirstPageShows
    <3> QED
      BY <3>1
  <2>4. \A w \in written : w \in WrittenPaths
    BY <2>1 DEF ToSet
  <2>5. app.sources[i] \in ToSet(app.sources)
    BY DEF ToSet
  <2> QED
    BY <2>2, <2>3, <2>4, <2>5
<1>2. CASE d = Canonical(app.sources[i].path.elements)
  BY <1>1, <1>2, CanonicalType DEF IsDirectory
<1>3. CASE d \in getManifestGeneratePaths(app)
  <2>1. EmptyPath \notin written
    BY <1>3 DEF getManifestGeneratePaths
  <2>2. CASE \E w \in written : w.absolute /\ d = Canonical(w.elements)
    BY <1>1, <2>1, <2>2, CanonicalType DEF IsDirectory
  <2>3. CASE \E s \in ToSet(app.sources), w \in written :
                ~w.absolute /\ d = Canonical(s.path.elements \o w.elements)
    <3>1. PICK s \in ToSet(app.sources), w \in written :
             ~w.absolute /\ d = Canonical(s.path.elements \o w.elements)
      BY <2>3
    <3>2. s.path.elements \o w.elements \in Seq(Elements)
      BY <1>1
    <3>3. d \in Seq(Names)
      BY <3>1, <3>2, CanonicalType
    <3> QED
      BY <2>1, <3>1, <3>3 DEF IsDirectory
  <2> QED
    BY <1>3, <2>1, <2>2, <2>3 DEF getManifestGeneratePaths
<1> QED
  BY <1>2, <1>3

LEMMA PathGrows ==
    ASSUME NEW S, NEW path \in Seq(S), NEW n \in 1 .. Len(path)
    PROVE  SubSeq(path, 1, n) = Append(SubSeq(path, 1, n - 1), path[n])
<1>1. /\ SubSeq(path, 1, n - 1) \in Seq(S) /\ Len(SubSeq(path, 1, n - 1)) = n - 1
      /\ SubSeq(path, 1, n) \in Seq(S) /\ Len(SubSeq(path, 1, n)) = n
      /\ path[n] \in S
  OBVIOUS
<1> QED
  BY <1>1

\* A file that has a directory as its prefix is in it, or in one whose name
\* is longer.
LEMMA PrefixIsDirectory ==
    ASSUME NEW f \in Seq(Names), NEW d \in Seq(Names), HasPrefix(f, d)
    PROVE  \/ \E n \in 0 .. Len(f) : SubSeq(f, 1, n) = d
           \/ \E n \in 1 .. Len(f) : \E m \in Names \ {f[n]} :
                 << f[n], m >> \in StartsWith /\ Append(SubSeq(f, 1, n - 1), m) = d
<1>1. CASE d = << >>
  <2>1. SubSeq(f, 1, 0) = << >> /\ 0 \in 0 .. Len(f)
    OBVIOUS
  <2> QED
    BY <1>1, <2>1
<1>2. CASE d # << >>
  <2> DEFINE n == Len(d)
  <2>1. /\ n \in 1 .. Len(f)
        /\ SubSeq(d, 1, n - 1) = SubSeq(f, 1, n - 1)
        /\ << f[n], d[n] >> \in StartsWith
        /\ d[n] \in Names
    BY <1>2 DEF HasPrefix
  <2>2. d = Append(SubSeq(d, 1, n - 1), d[n])
    BY <1>2
  <2>3. CASE d[n] = f[n]
    <3>1. SubSeq(f, 1, n) = Append(SubSeq(f, 1, n - 1), f[n])
      BY <2>1, PathGrows
    <3>2. SubSeq(f, 1, n) = d
      BY <2>1, <2>2, <2>3, <3>1
    <3>3. n \in 0 .. Len(f)
      BY <2>1
    <3> QED
      BY <3>2, <3>3
  <2>4. CASE d[n] # f[n]
    BY <2>1, <2>2, <2>4
  <2> QED
    BY <2>3, <2>4
<1> QED
  BY <1>1, <1>2

LEMMA RelatedTouches ==
    ASSUME TypeOK, NEW i \in DOMAIN app.sources, NEW p \in Pulls, Related(i, p)
    PROVE  Touches(github.files[p], i) \/ LooksAlike(github.files[p], i)
<1> DEFINE files == github.files[p]
<1>1. files \in Seq(Seq(Names))
  BY InputAssumption DEF TypeOK
<1>2. PICK f \in ToSet(FirstPage(files)),
           d \in getManifestGeneratePaths(app)
                 \cup {Canonical(app.sources[i].path.elements)} : HasPrefix(f, d)
  BY DEF Related, isPullRequestRelatedToEvent
<1>3. f \in ToSet(files) /\ f \in Seq(Names)
  BY <1>1, FirstPageShows
<1>4. IsDirectory(i, d) /\ d \in Seq(Names)
  BY ComparedAreDirectories
<1>5. CASE \E n \in 0 .. Len(f) : SubSeq(f, 1, n) = d
  BY <1>3, <1>4, <1>5 DEF Touches
<1>6. CASE \E n \in 1 .. Len(f) : \E m \in Names \ {f[n]} :
              << f[n], m >> \in StartsWith /\ Append(SubSeq(f, 1, n - 1), m) = d
  BY <1>3, <1>4, <1>6 DEF LooksAlike
<1> QED
  BY <1>2, <1>3, <1>4, <1>5, <1>6, PrefixIsDirectory

\* Nobody else is commented: whatever the annotation says, with "..", with
\* relative and empty elements, a pull request that gets a comment has a
\* file in a directory of the object, or in one whose name only goes on
\* after the object's (pull.go:29).
THEOREM CommentedTouches == Spec => []CommentedIsRelated
<1>1. PromiseInv => CommentedIsRelated
  <2> SUFFICES ASSUME PromiseInv, NEW c \in posted, c[2] \in Pulls
               PROVE  /\ c[2] \in PullsOf(c[1])
                      /\ \/ Touches(github.files[c[2]], c[1])
                         \/ LooksAlike(github.files[c[2]], c[1])
    BY DEF CommentedIsRelated
  <2> DEFINE i == c[1]
             p == c[2]
             related == {q \in ToSet(FirstPage(github.pulls[i])) : Related(i, q)}
  <2>1. TypeOK /\ c \in Wanted
    BY DEF PromiseInv
  <2>2. i \in DOMAIN app.sources /\ p \in Selected(i)
    BY <2>1 DEF Wanted
  <2>3. p \in related
    BY <2>2, ListingIsNoTarget DEF Selected, OrCommit
  <2>4. p \in PullsOf(i)
    BY <2>1, <2>2, <2>3, ListedType DEF Listed
  <2> QED
    BY <2>1, <2>2, <2>3, <2>4, RelatedTouches
<1> QED
  BY <1>1, PromiseInvariant, PTL

-----------------------------------------------------------------------------
(* A call comes to its end.                                                *)

\* The order of the places in a round.
LEMMA RoundOrder ==
    /\ StepsLeft["done"] < StepsLeft["next"]
    /\ StepsLeft["next"] < StepsLeft["post"]
    /\ StepsLeft["next"] < StepsLeft["files"]
    /\ StepsLeft["next"] < StepsLeft["list"]
    /\ StepsLeft["post"] < StepsLeft["files"]
    /\ StepsLeft["files"] < StepsLeft["list"]
BY DEF StepsLeft

\* Each step of a call brings it nearer to its end.
THEOREM CallKeepsAdvancing == Spec => CallAdvances
<1>1. TypeOK /\ [Next]_vars => [Advances]_vars
  <2> SUFFICES ASSUME TypeOK, Next PROVE Advances
    OBVIOUS
  <2>1. ASSUME NextSource PROVE Advances
    <3>1. CASE pc' = "done" /\ UNCHANGED source
      BY <2>1, <3>1, RoundOrder DEF NextSource, Advances
    <3>2. CASE source' = source + 1
      BY <3>2 DEF TypeOK, Advances
    <3> QED
      BY <2>1, <3>1, <3>2 DEF NextSource
  <2>2. ASSUME ListPullRequests PROVE Advances
    BY <2>2, RoundOrder DEF ListPullRequests, ListFailed, Advances
  <2>3. ASSUME NEW p \in Pulls, ListFiles(p) PROVE Advances
    <3>1. CASE ListFailed
      BY <2>3, <3>1, RoundOrder DEF ListFiles, ListFailed, Advances
    <3>2. CASE unread' = unread \ {p} /\ UNCHANGED pc
      BY <2>3, <3>2 DEF ListFiles, Advances, Todo
    <3> QED
      BY <2>3, <3>1, <3>2 DEF ListFiles
  <2>4. ASSUME Filter PROVE Advances
    BY <2>4, RoundOrder DEF Filter, Advances
  <2>5. ASSUME NEW t \in Targets, CreateComment(t) PROVE Advances
    <3>1. CASE targets' = {}
      BY <2>5, <3>1, RoundOrder DEF CreateComment, Advances
    <3>2. CASE targets' # {}
      BY <2>5, <3>2 DEF CreateComment, Advances, Todo
    <3> QED
      BY <3>1, <3>2
  <2> QED
    BY <2>1, <2>2, <2>3, <2>4, <2>5 DEF Next
<1> QED
  BY <1>1, TypeCorrect, PTL DEF Spec, CallAdvances

\* A page holds finitely many items.
LEMMA PageIsFinite ==
    ASSUME TypeOK, NEW i \in DOMAIN app.sources
    PROVE  IsFiniteSet(Listed(i)) /\ IsFiniteSet(Selected(i))
<1> DEFINE page == FirstPage(github.pulls[i])
<1>1. page \in Seq(Pulls)
  BY InputAssumption, FirstPageShows DEF TypeOK
<1> HIDE DEF page
<1>2. IsFiniteSet(1 .. Len(page)) /\ DOMAIN page = 1 .. Len(page)
  BY <1>1, FS_Interval
<1>3. page \in Surjection(1 .. Len(page), ToSet(page))
  BY <1>1, <1>2 DEF Surjection, ToSet
<1>4. IsFiniteSet(ToSet(page))
  BY <1>2, <1>3, FS_Surjection
<1>5. IsFiniteSet(Listed(i))
  BY <1>4 DEF Listed, page
<1>6. Selected(i) \subseteq Listed(i) \cup {Commit}
  BY DEF Selected, OrCommit, Listed
<1>7. IsFiniteSet(Selected(i))
  BY <1>5, <1>6, FS_AddElement, FS_Subset
<1> QED
  BY <1>5, <1>7

\* What is left to do in a round is finite, whatever GitHub has: with
\* CallAdvances, and sources and places that are finite in number, a call
\* has only finitely many steps.
THEOREM TodoStaysFinite == Spec => []IsFiniteSet(Todo)
<1>1. PromiseInv => IsFiniteSet(Todo)
  <2> SUFFICES ASSUME PromiseInv PROVE IsFiniteSet(Todo)
    OBVIOUS
  <2>1. TypeOK
    BY DEF PromiseInv
  <2>2. CASE pc = "files" \/ pc = "post"
    <3>1. source \in DOMAIN app.sources
      BY <2>1, <2>2, SourceOfCall
    <3>2. pc = "files" => unread \subseteq Listed(source)
      BY DEF PromiseInv
    <3>3. pc = "post" => targets \subseteq Selected(source)
      BY DEF PromiseInv
    <3> QED
      BY <2>1, <2>2, <3>1, <3>2, <3>3, PageIsFinite, FS_Subset DEF Todo
  <2>3. CASE ~(pc = "files" \/ pc = "post")
    BY <2>1, <2>3, FS_EmptySet DEF TypeOK, Todo
  <2> QED
    BY <2>2, <2>3
<1> QED
  BY <1>1, PromiseInvariant, PTL

=============================================================================
