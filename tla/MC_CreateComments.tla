------------------------- MODULE MC_CreateComments -------------------------
(* Small instances of CreateComments.                                      *)
EXTENDS CreateComments

CONSTANTS app1, app10, base, file, p1, p2, p3

MCNames == {app1, app10, base, file}
MCStartsWith == {<< n, n >> : n \in MCNames} \cup {<< app10, app1 >>}
MCPulls == {p1, p2, p3}

GitHub == {"github.com"}
Enterprise == {"ghe.example.com"}
EitherHost == GitHub \cup Enterprise

Relative(elements) == [absolute |-> FALSE, elements |-> elements]
Absolute(elements) == [absolute |-> TRUE, elements |-> elements]

URL(scheme, server, elements) ==
    [scheme |-> scheme, host |-> server, elements |-> elements]
GitHubURL == URL("https", "github.com", 2)
SSHURL == URL("ssh", "github.com", 2)
LinkURL == URL("https", "github.com", 3)
EnterpriseURL == URL("https", "ghe.example.com", 2)

Source(url, elements) == [repoURL |-> url, path |-> Relative(elements)]

\* A chart without a path, an application directory, a link that is no
\* repository; alone or before another source.
FirstSources == {Source(SSHURL, << >>),
                 Source(GitHubURL, << app1 >>),
                 Source(LinkURL, << app1 >>)}
SourceLists == {<< s >> : s \in FirstSources}
               \cup {<< s, Source(GitHubURL, << app10 >>) >> : s \in FirstSources}

Annotations == {<< EmptyPath >>,
                << Absolute(<< base >>) >>,
                << Absolute(<< "..", app10, ".." >>) >>,
                << Relative(<< "." >>), Relative(<< "..", base >>) >>,
                << Relative(<< "..", "..", base >>), EmptyPath >>}

MCApplications == [sources : SourceLists, annotation : Annotations]

\* Three pull requests are one more than a page.
In(dir) == << dir, file >>
PullLists == {<< >>, << p1, p2 >>, << p3, p1, p2 >>}
FileLists == {<< << file >> >>, << In(app1) >>, << In(app10) >>,
              << << file >>, In(base), In(app1) >>}

MCRepositories ==
    {[pulls |-> << first, second >>,
      files |-> [p \in MCPulls |-> IF p = p3 THEN << In(base) >> ELSE files[p]]] :
        first \in PullLists, second \in {<< p2 >>}, files \in [{p1, p2} -> FileLists]}

\* Pull requests of app1 alone, and the host they are on.
OneSource == {[sources |-> << Source(url, << app1 >>) >>, annotation |-> << EmptyPath >>] :
                 url \in {GitHubURL, EnterpriseURL}}

=============================================================================
