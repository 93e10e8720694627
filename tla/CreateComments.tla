-------------------------- MODULE CreateComments --------------------------
(***************************************************************************)
(* One call of CreateCommentsOnPhaseChanged or                             *)
(* CreateCommentsOnHealthChanged of an object that has something to say:   *)
(* the loop over the sources, the lists read from GitHub and the posts.    *)
(* Each step has at most one call to GitHub, and any of them may fail.     *)
(***************************************************************************)
EXTENDS PullRequestRelation

CONSTANTS
    Pulls,
    Commit,               \* the target of a comment on the commit itself
    Applications,         \* objects: their sources and their annotation
    Repositories,         \* what GitHub has: the pull requests with the
                          \* commit of each source, the files of each
    PageSize,             \* bound: items on a page of a list
    APIHosts,             \* hosts the client may be set up to call:
                          \* GITHUB_ENTERPRISE_URL, or github.com
    CommitCommentEnabled, \* FEATURE_CREATE_COMMIT_COMMENT
    MaxFaults             \* bound: calls GitHub fails to answer

Listing == "list"

Targets == Pulls \cup {Commit}

ASSUME TargetAssumption == Commit \notin Pulls /\ Listing \notin Targets
ASSUME BoundAssumption == PageSize \in Nat /\ MaxFaults \in Nat
ASSUME InputAssumption ==
    /\ \A app \in Applications :
          /\ app.sources \in Seq([repoURL : RepositoryURLs, path : WrittenPaths])
          /\ app.annotation \in Seq(WrittenPaths)
    /\ \A github \in Repositories :
          /\ github.pulls \in Seq(Seq(Pulls))
          /\ \A app \in Applications : Len(app.sources) <= Len(github.pulls)
          /\ github.files \in [Pulls -> Seq(Seq(Names))]

VARIABLES
    app,     \* the object of the call
    github,  \* what the lists hold
    host,    \* the host the client calls
    pc,
    source,  \* the loop variable over the sources, or 0
    unread,  \* listed pull requests whose files were not read yet
    targets, \* pull requests found related, then what is left to comment
    posted,  \* << source, target >> of the comments GitHub has
    errs,    \* << source, call >> of the errors collected
    faults   \* calls GitHub failed to answer

inputs == << app, github, host >>
vars == << inputs, pc, source, unread, targets, posted, errs, faults >>

-----------------------------------------------------------------------------
\* ListOptions are nil: the first page is all that is read of a list.
FirstPage(list) ==
    SubSeq(list, 1, IF PageSize < Len(list) THEN PageSize ELSE Len(list))

Parsed(i) == ParseRepositoryURL(app.sources[i].repoURL)

Init ==
    /\ app \in Applications
    /\ github \in Repositories
    /\ host \in APIHosts
    /\ pc = "next"
    /\ source = 0
    /\ unread = {}
    /\ targets = {}
    /\ posted = {}
    /\ errs = {}
    /\ faults = 0

NextSource ==
    /\ pc = "next"
    /\ \/ /\ source = Len(app.sources)
          /\ pc' = "done"
          /\ UNCHANGED source
       \/ /\ source < Len(app.sources)
          /\ source' = source + 1
          /\ pc' = IF Parsed(source + 1) THEN "list" ELSE "next"
    /\ UNCHANGED << inputs, unread, targets, posted, errs, faults >>

\* The parsed repository has no host: the call goes to the client's, which
\* knows no repository of that owner and name if it is another host.
Hosted == app.sources[source].repoURL.host = host

Answered == Hosted /\ UNCHANGED << errs, faults >>

Failed(call) ==
    /\ \/ ~Hosted /\ UNCHANGED faults
       \/ faults < MaxFaults /\ faults' = faults + 1
    /\ errs' = errs \cup {<< source, call >>}

\* Mutant: what was read before the error stays.
ListFailedHalfway ==
    /\ Failed(Listing)
    /\ pc' = "next"
    /\ unread' = {}
    /\ UNCHANGED targets

\* An error of a list is an error of the source, and what was read is
\* dropped.
ListFailed ==
    /\ Failed(Listing)
    /\ pc' = "next"
    /\ unread' = {}
    /\ targets' = {}

ListPullRequests ==
    /\ pc = "list"
    /\ \/ /\ Answered
          /\ pc' = "files"
          /\ unread' = ToSet(FirstPage(github.pulls[source]))
          /\ UNCHANGED targets
       \/ ListFailed
    /\ UNCHANGED << inputs, source, posted >>

Related(i, p) ==
    isPullRequestRelatedToEvent(FirstPage(github.files[p]), app.sources[i],
                                getManifestGeneratePaths(app))

\* The files of one of the pull requests, in the order GitHub lists them,
\* and what the filter will make of them.
ListFiles(p) ==
    /\ pc = "files"
    /\ p \in unread
    /\ \/ /\ Answered
          /\ unread' = unread \ {p}
          /\ targets' = targets \cup {q \in {p} : Related(source, p)}
          /\ UNCHANGED pc
       \/ ListFailed
    /\ UNCHANGED << inputs, source, posted >>

\* Mutant: the commit is commented as well.
OrAndCommit(related) ==
    IF CommitCommentEnabled THEN related \cup {Commit} ELSE related

\* The commit, when no pull request is related and the feature is on.
OrCommit(related) ==
    IF related = {} /\ CommitCommentEnabled THEN {Commit} ELSE related

Filter ==
    /\ pc = "files"
    /\ unread = {}
    /\ targets' = OrCommit(targets)
    /\ pc' = IF targets' = {} THEN "next" ELSE "post"
    /\ UNCHANGED << inputs, source, unread, posted, errs, faults >>

\* Mutant: the first error ends the loop.
CreateCommentOrReturn(t) ==
    /\ pc = "post"
    /\ t \in targets
    /\ \/ /\ Answered
          /\ targets' = targets \ {t}
          /\ pc' = IF targets' = {} THEN "next" ELSE "post"
          /\ posted' = posted \cup {<< source, t >>}
       \/ /\ Failed(t)
          /\ targets' = {}
          /\ pc' = "next"
          /\ posted' = posted
    /\ UNCHANGED << inputs, source, unread >>

\* Mutant: a comment that failed is tried again.
CreateCommentUntilMade(t) ==
    /\ pc = "post"
    /\ t \in targets
    /\ \/ /\ Answered
          /\ targets' = targets \ {t}
          /\ posted' = posted \cup {<< source, t >>}
       \/ /\ Failed(t)
          /\ UNCHANGED << targets, posted >>
    /\ pc' = IF targets' = {} THEN "next" ELSE "post"
    /\ UNCHANGED << inputs, source, unread >>

\* The call to GitHub: one that fails may have done its work.
Commented(t) ==
    \/ Answered /\ posted' = posted \cup {<< source, t >>}
    \/ Failed(t) /\ posted' = posted
    \/ Hosted /\ Failed(t) /\ posted' = posted \cup {<< source, t >>}

\* The loop goes on whether the call succeeded or not.
CreateComment(t) ==
    /\ pc = "post"
    /\ t \in targets
    /\ targets' = targets \ {t}
    /\ pc' = IF targets' = {} THEN "next" ELSE "post"
    /\ Commented(t)
    /\ UNCHANGED << inputs, source, unread >>

Next ==
    \/ NextSource
    \/ ListPullRequests
    \/ \E p \in Pulls : ListFiles(p)
    \/ Filter
    \/ \E t \in Targets : CreateComment(t)

Spec == Init /\ [][Next]_vars

-----------------------------------------------------------------------------
(* The promise to the reconcilers.                                         *)

\* What the lists, as far as they are read, select of the i-th source.
Selected(i) == OrCommit({p \in ToSet(FirstPage(github.pulls[i])) : Related(i, p)})

Wanted == UNION {{i} \X Selected(i) : i \in {j \in DOMAIN app.sources : Parsed(j)}}

Missed == {c \in Wanted : c \in errs \/ << c[1], Listing >> \in errs}

Service == INSTANCE CommentService WITH
    wanted  <- Wanted,
    made    <- posted,
    missed  <- Missed,
    outcome <- IF pc # "done" THEN "pending"
               ELSE IF errs = {} THEN "success" ELSE "error"

\* The call keeps the promise: of the comments it selects none is made
\* twice or forgotten when others fail, and it returns nil only if all were
\* made.
KeepsPromise == Service!Spec

-----------------------------------------------------------------------------
(* Properties.                                                             *)

Calls == (1 .. Len(app.sources)) \X (Targets \cup {Listing})

\* Types, and the shape of a call: files are left to read only while they
\* are read, targets are left only while they are collected or commented,
\* and nothing was done for a source the loop has not come to.
TypeOK ==
    /\ app \in Applications /\ github \in Repositories /\ host \in APIHosts
    /\ pc \in {"next", "list", "files", "post", "done"}
    /\ source \in 0 .. Len(app.sources)
    /\ unread \subseteq Pulls
    /\ targets \subseteq Targets
    /\ posted \subseteq Calls
    /\ errs \subseteq Calls
    /\ faults \in 0 .. MaxFaults
    /\ unread # {} => pc = "files"
    /\ targets # {} => pc \in {"files", "post"}
    /\ pc = "post" => targets # {}
    /\ pc \in {"list", "files", "post"} => source > 0 /\ Parsed(source)
    /\ \A c \in posted \cup errs : c[1] <= source

\* A directory of the object: where the i-th source is, or a path of the
\* annotation, unless that has an empty element.
IsDirectory(i, d) ==
    \/ d = Canonical(app.sources[i].path.elements)
    \/ /\ EmptyPath \notin ToSet(app.annotation)
       /\ \E w \in ToSet(app.annotation) :
             IF w.absolute
             THEN d = Canonical(w.elements)
             ELSE \E s \in ToSet(app.sources) :
                     d = Canonical(s.path.elements \o w.elements)

\* Some file is in a directory of the object, at any depth.
Touches(files, i) ==
    \E f \in ToSet(files) : \E n \in 0 .. Len(f) : IsDirectory(i, SubSeq(f, 1, n))

\* Some file has a path that goes on where the name of a directory of the
\* object ends: "/app10" for "/app1".
LooksAlike(files, i) ==
    \E f \in ToSet(files) : \E n \in 1 .. Len(f) : \E m \in Names \ {f[n]} :
        << f[n], m >> \in StartsWith /\ IsDirectory(i, Append(SubSeq(f, 1, n - 1), m))

PullsOf(i) == ToSet(github.pulls[i])

\* A pull request that touches a directory of the object gets its comment,
\* if a first page shows it, unless that very comment or a list of that
\* source failed: no error of another source or pull request takes it away.
TouchingIsCommented ==
    pc = "done" =>
        \A i \in DOMAIN app.sources : \A p \in PullsOf(i) :
            /\ Parsed(i)
            /\ p \in ToSet(FirstPage(github.pulls[i]))
            /\ Touches(FirstPage(github.files[p]), i)
            => \/ << i, p >> \in posted
               \/ << i, p >> \in errs \/ << i, Listing >> \in errs

\* A pull request that is commented touches a directory of the object, or
\* looks as if it did.
CommentedIsRelated ==
    \A c \in posted : c[2] \in Pulls =>
        /\ c[2] \in PullsOf(c[1])
        /\ \/ Touches(github.files[c[2]], c[1])
           \/ LooksAlike(github.files[c[2]], c[1])

\* The commit is commented in place of pull requests, never beside them.
CommitIsTheLastResort ==
    \A c \in posted : c[2] = Commit =>
        \A p \in Pulls : << c[1], p >> \notin posted \cup errs

\* What is left to read or to comment of the current source.
Todo == IF pc = "files" THEN unread ELSE targets

\* The places of a round of the loop, the last one first.
StepsLeft == [list |-> 4, files |-> 3, post |-> 2, next |-> 1, done |-> 0]

Advances ==
    \/ source' > source
    \/ source' = source /\ StepsLeft[pc'] < StepsLeft[pc]
    \/ UNCHANGED << source, pc >> /\ Todo' \subseteq Todo /\ Todo' # Todo

\* A call holds the only worker of its controller, and comes to its end
\* whatever fails: each step leads to another source, further in the round,
\* or leaves less to do in it.
CallAdvances == [][Advances]_vars

\* "no match" (pull_test.go:53): a pull request whose files are all in the
\* directories of other Applications is not related.
OnlyTouchingIsCommented ==
    \A c \in posted : c[2] \in Pulls => Touches(github.files[c[2]], c[1])

\* "GitHub Enterprise Server.  Set the environment variable
\* GITHUB_ENTERPRISE_URL" (README.md:200): pull requests of a repository on
\* the host the client is set up for are commented.
HostIsServed ==
    pc = "done" /\ faults = 0 =>
        \A i \in DOMAIN app.sources : \A p \in PullsOf(i) :
            /\ app.sources[i].repoURL = [scheme |-> "https", host |-> host, elements |-> 2]
            /\ Touches(FirstPage(github.files[p]), i)
            => << i, p >> \in posted \/ p \notin ToSet(FirstPage(github.pulls[i]))

=============================================================================
