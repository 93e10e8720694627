----------------------- MODULE PullRequestRelation -----------------------
(***************************************************************************)
(* internal/notification/pull.go and the URLs of internal/github/types.go: *)
(* which repositories are on GitHub, and which of the pull requests of a   *)
(* revision are related to an Application.                                 *)
(*                                                                         *)
(* A path is a sequence of elements.  A canonical path is the sequence of  *)
(* names from the root down: << >> is "/", and "/a/b" is << "a", "b" >>.   *)
(***************************************************************************)
EXTENDS SequencesExt

CONSTANTS
    Names,     \* names of files and directories
    StartsWith \* pairs <<m, n>> of names of which m is n, or n and more

ASSUME NameAssumption ==
    /\ Names \cap {".", ".."} = {}
    /\ StartsWith \subseteq Names \X Names
    /\ \A n \in Names : << n, n >> \in StartsWith

-----------------------------------------------------------------------------
(* Repositories.                                                           *)

\* The two patterns want "https://" or "git@", the host github.com and two
\* elements, the owner and the name.
RepositoryURLs == [scheme : {"https", "ssh", "http"}, host : STRING, elements : Nat]

ParseRepositoryURL(url) ==
    url.scheme \in {"https", "ssh"} /\ url.host = "github.com" /\ url.elements = 2

-----------------------------------------------------------------------------
(* Paths.                                                                  *)

\* A path as it is written: the empty string is not absolute and has no
\* element.
WrittenPaths == [absolute : BOOLEAN, elements : Seq(Names \cup {".", ".."})]

EmptyPath == [absolute |-> FALSE, elements |-> << >>]

\* One element further: ".." takes the last name away, and does nothing at
\* the root.
Walk(dir, e) == CASE e = "."                  -> dir
                  [] e = ".." /\ dir = << >>  -> dir
                  [] e = ".." /\ dir # << >>  -> Front(dir)
                  [] OTHER                    -> Append(dir, e)

\* path.Join("/", ...) and path.Clean of an absolute path.
Canonical(elements) ==
    LET dir[n \in 0 .. Len(elements)] ==
            IF n = 0 THEN << >> ELSE Walk(dir[n - 1], elements[n])
    IN  dir[Len(elements)]

\* strings.HasPrefix of the two strings: the last name of the directory may
\* be the beginning of a longer one.  "/" begins every path.
HasPrefix(file, dir) ==
    \/ dir = << >>
    \/ /\ Len(dir) <= Len(file)
       /\ SubSeq(dir, 1, Len(dir) - 1) = SubSeq(file, 1, Len(dir) - 1)
       /\ << file[Len(dir)], dir[Len(dir)] >> \in StartsWith

\* Mutant: a relative path is joined with the root alone.
ManifestGeneratePathsOfRoot(app) ==
    LET written == ToSet(app.annotation) IN
    IF EmptyPath \in written
    THEN {}
    ELSE {Canonical(w.elements) : w \in written}

\* The annotation, split at ";".  Any empty element empties the result, and
\* an annotation that is not there is one empty element.
getManifestGeneratePaths(app) ==
    LET written == ToSet(app.annotation) IN
    IF EmptyPath \in written
    THEN {}
    ELSE {Canonical(w.elements) : w \in {v \in written : v.absolute}}
         \cup {Canonical(s.path.elements \o w.elements) :
                  s \in ToSet(app.sources), w \in {v \in written : ~v.absolute}}

\* Mutant: the annotation is asked only if the source path does not match
\* the first file.
RelatedByOneFile(files, source, paths) ==
    \E d \in paths \cup {Canonical(source.path.elements)} :
        files # << >> /\ HasPrefix(files[1], d)

isPullRequestRelatedToEvent(files, source, paths) ==
    \E f \in ToSet(files), d \in paths \cup {Canonical(source.path.elements)} :
        HasPrefix(f, d)

=============================================================================
