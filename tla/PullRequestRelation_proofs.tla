--------------------- MODULE PullRequestRelation_proofs ---------------------
(* Lemmas about the paths of PullRequestRelation, by induction over their  *)
(* elements, and theorems about what the functions of pull.go make of them.*)
EXTENDS PullRequestRelation, TLAPS, WellFoundedInduction

-----------------------------------------------------------------------------
(* Induction.  The library states it of a predicate, an operator that the  *)
(* provers cannot instantiate; for a set it follows from the fact that     *)
(* each set of naturals has a least element.                               *)

LEMMA LessIsWellFounded == IsWellFoundedOn({p \in Nat \X Nat : p[1] < p[2]}, Nat)
BY NatLessThanWellFounded DEF OpToRel

LEMMA InductionOnNat ==
    ASSUME NEW S, 0 \in S, \A n \in Nat : n \in S => n + 1 \in S
    PROVE  Nat \subseteq S
<1> DEFINE R == {p \in Nat \X Nat : p[1] < p[2]}
           T == Nat \ S
<1> SUFFICES ASSUME T # {} PROVE FALSE
  OBVIOUS
<1>1. PICK x \in T : \A y \in T : << y, x >> \notin R
  <2> HIDE DEF R, T
  <2>1. IsWellFoundedOn(R, Nat)
    BY LessIsWellFounded DEF R
  <2>2. T \subseteq Nat
    BY DEF T
  <2> QED
    BY <2>1, <2>2, WFMin
<1>2. x \in Nat /\ x # 0 /\ x - 1 \in Nat /\ x - 1 < x
  OBVIOUS
<1>3. << x - 1, x >> \in R
  BY <1>2
<1>4. x - 1 \in S
  BY <1>1, <1>2, <1>3
<1> QED
  BY <1>2, <1>4

-----------------------------------------------------------------------------
(* Walking along a path.                                                   *)

Elements == Names \cup {".", ".."}

LEMMA WalkType ==
    ASSUME NEW dir \in Seq(Names), NEW e \in Elements
    PROVE  Walk(dir, e) \in Seq(Names)
BY DEF Walk, Front, Elements

\* The directories that are passed on the way along n elements.
IsWalk(elements, n, dir) ==
    /\ dir \in [0 .. n -> Seq(Names)]
    /\ dir[0] = << >>
    /\ \A k \in 1 .. n : dir[k] = Walk(dir[k - 1], elements[k])

LEMMA WalkGoesOn ==
    ASSUME NEW elements \in Seq(Elements), NEW n \in Nat, n < Len(elements),
           NEW dir, IsWalk(elements, n, dir)
    PROVE  \E next : IsWalk(elements, n + 1, next)
<1> DEFINE last == Walk(dir[n], elements[n + 1])
           next == [k \in 0 .. n + 1 |-> IF k = n + 1 THEN last ELSE dir[k]]
<1>1. /\ dir \in [0 .. n -> Seq(Names)] /\ dir[n] \in Seq(Names)
      /\ elements[n + 1] \in Elements
  BY DEF IsWalk
<1>2. last \in Seq(Names)
  BY <1>1, WalkType
<1> HIDE DEF last
<1>3. next \in [0 .. n + 1 -> Seq(Names)]
  <2>1. \A k \in 0 .. n + 1 : k # n + 1 => k \in 0 .. n
    OBVIOUS
  <2>2. \A k \in 0 .. n : dir[k] \in Seq(Names)
    BY <1>1
  <2> QED
    BY <1>2, <2>1, <2>2
<1>4. next[n + 1] = last /\ \A k \in 0 .. n : next[k] = dir[k]
  OBVIOUS
<1> HIDE DEF next
<1>5. ASSUME NEW k \in 1 .. n + 1
      PROVE  next[k] = Walk(next[k - 1], elements[k])
  <2>1. CASE k = n + 1
    <3>1. next[k - 1] = dir[n]
      BY <1>4, <2>1
    <3> QED
      BY <1>4, <2>1, <3>1 DEF last
  <2>2. CASE k # n + 1
    <3>1. k \in 1 .. n /\ k - 1 \in 0 .. n
      BY <2>2
    <3>2. next[k] = dir[k] /\ next[k - 1] = dir[k - 1]
      BY <1>4, <3>1
    <3>3. dir[k] = Walk(dir[k - 1], elements[k])
      BY <3>1 DEF IsWalk
    <3> QED
      BY <3>2, <3>3
  <2> QED
    BY <2>1, <2>2
<1>6. next[0] = << >>
  BY <1>4 DEF IsWalk
<1> QED
  BY <1>3, <1>5, <1>6 DEF IsWalk

LEMMA WalkExists ==
    ASSUME NEW elements \in Seq(Elements)
    PROVE  \E dir : IsWalk(elements, Len(elements), dir)
<1> DEFINE S == {n \in Nat : n <= Len(elements) => \E dir : IsWalk(elements, n, dir)}
<1>1. 0 \in S
  <2> DEFINE dir == [k \in 0 .. 0 |-> << >>]
  <2>1. dir[0] = << >> /\ dir \in [0 .. 0 -> Seq(Names)]
    OBVIOUS
  <2>2. 1 .. 0 = {}
    OBVIOUS
  <2> HIDE DEF dir
  <2>3. IsWalk(elements, 0, dir)
    BY <2>1, <2>2 DEF IsWalk
  <2> QED
    BY <2>3
<1>2. ASSUME NEW n \in Nat, n \in S
      PROVE  n + 1 \in S
  BY <1>2, WalkGoesOn
<1>3. Nat \subseteq S
  <2> HIDE DEF S
  <2> QED
    BY <1>1, <1>2, InductionOnNat
<1> QED
  BY <1>3

LEMMA WalkIsUnique ==
    ASSUME NEW elements \in Seq(Elements),
           NEW dir, IsWalk(elements, Len(elements), dir),
           NEW other,
           other = [n \in 0 .. Len(elements) |->
                       IF n = 0 THEN << >> ELSE Walk(other[n - 1], elements[n])]
    PROVE  other = dir
<1> DEFINE S == {n \in Nat : n <= Len(elements) => other[n] = dir[n]}
<1>1. 0 \in S
  BY DEF IsWalk
<1>2. ASSUME NEW n \in Nat, n \in S
      PROVE  n + 1 \in S
  <2> SUFFICES ASSUME n + 1 <= Len(elements)
               PROVE  other[n + 1] = dir[n + 1]
    OBVIOUS
  <2>1. other[n] = dir[n] /\ n + 1 \in 1 .. Len(elements)
    BY <1>2
  <2>2. other[n + 1] = Walk(other[n], elements[n + 1])
    BY <2>1
  <2>3. dir[n + 1] = Walk(dir[n], elements[n + 1])
    BY <2>1 DEF IsWalk
  <2> QED
    BY <2>1, <2>2, <2>3
<1>3. Nat \subseteq S
  <2> HIDE DEF S
  <2> QED
    BY <1>1, <1>2, InductionOnNat
<1>4. \A n \in 0 .. Len(elements) : other[n] = dir[n]
  BY <1>3
<1>5. DOMAIN other = 0 .. Len(elements) /\ DOMAIN dir = 0 .. Len(elements)
  BY DEF IsWalk
<1>6. other = [n \in 0 .. Len(elements) |-> other[n]]
  BY <1>5
<1>7. dir = [n \in 0 .. Len(elements) |-> dir[n]]
  BY DEF IsWalk
<1> QED
  BY <1>4, <1>6, <1>7

\* The recursive definition defines: Canonical is where the walk ends.
LEMMA CanonicalEndsWalk ==
    ASSUME NEW elements \in Seq(Elements)
    PROVE  \E dir : /\ IsWalk(elements, Len(elements), dir)
                    /\ Canonical(elements) = dir[Len(elements)]
<1> DEFINE Fixed(dir) == dir = [n \in 0 .. Len(elements) |->
                            IF n = 0 THEN << >> ELSE Walk(dir[n - 1], elements[n])]
           it == CHOOSE dir : Fixed(dir)
<1>1. PICK dir : IsWalk(elements, Len(elements), dir)
  BY WalkExists
<1>2. Fixed(dir)
  <2>1. dir = [n \in 0 .. Len(elements) |-> dir[n]]
    BY <1>1 DEF IsWalk
  <2>2. \A n \in 0 .. Len(elements) :
           dir[n] = IF n = 0 THEN << >> ELSE Walk(dir[n - 1], elements[n])
    BY <1>1 DEF IsWalk
  <2> QED
    BY <2>1, <2>2
<1>3. Fixed(it)
  <2> HIDE DEF Fixed
  <2> QED
    BY <1>2
<1>4. it = dir
  BY <1>1, <1>3, WalkIsUnique
<1>5. Canonical(elements) = it[Len(elements)]
  BY DEF Canonical
<1> QED
  BY <1>1, <1>4, <1>5

-----------------------------------------------------------------------------
(* Canonical paths.                                                        *)

\* A walk passes the canonical forms of the paths it begins with.
LEMMA WalkPassesCanonical ==
    ASSUME NEW elements \in Seq(Elements),
           NEW dir, IsWalk(elements, Len(elements), dir),
           NEW start \in Seq(Elements), Len(start) <= Len(elements),
           \A k \in 1 .. Len(start) : start[k] = elements[k]
    PROVE  Canonical(start) = dir[Len(start)]
<1>1. PICK w : IsWalk(start, Len(start), w) /\ Canonical(start) = w[Len(start)]
  BY CanonicalEndsWalk
<1> DEFINE S == {n \in Nat : n <= Len(start) => w[n] = dir[n]}
<1>2. 0 \in S
  BY <1>1 DEF IsWalk
<1>3. ASSUME NEW n \in Nat, n \in S
      PROVE  n + 1 \in S
  <2> SUFFICES ASSUME n + 1 <= Len(start)
               PROVE  w[n + 1] = dir[n + 1]
    OBVIOUS
  <2>1. /\ w[n] = dir[n]
        /\ n + 1 \in 1 .. Len(start) /\ n + 1 \in 1 .. Len(elements)
    BY <1>3
  <2>2. w[n + 1] = Walk(w[n], start[n + 1])
    BY <1>1, <2>1 DEF IsWalk
  <2>3. dir[n + 1] = Walk(dir[n], elements[n + 1])
    BY <2>1 DEF IsWalk
  <2> QED
    BY <2>1, <2>2, <2>3
<1>4. Nat \subseteq S
  <2> HIDE DEF S
  <2> QED
    BY <1>2, <1>3, InductionOnNat
<1> QED
  BY <1>1, <1>4

LEMMA CanonicalType ==
    ASSUME NEW elements \in Seq(Elements)
    PROVE  Canonical(elements) \in Seq(Names)
BY CanonicalEndsWalk DEF IsWalk

\* A path of names alone is canonical.
LEMMA CanonicalOfNames ==
    ASSUME NEW names \in Seq(Names)
    PROVE  Canonical(names) = names
<1>1. names \in Seq(Elements)
  BY DEF Elements
<1>2. PICK dir : IsWalk(names, Len(names), dir) /\ Canonical(names) = dir[Len(names)]
  BY <1>1, CanonicalEndsWalk
<1> DEFINE S == {n \in Nat : n <= Len(names) => dir[n] = SubSeq(names, 1, n)}
<1>3. 0 \in S
  BY <1>2 DEF IsWalk
<1>4. ASSUME NEW n \in Nat, n \in S
      PROVE  n + 1 \in S
  <2> SUFFICES ASSUME n + 1 <= Len(names)
               PROVE  dir[n + 1] = SubSeq(names, 1, n + 1)
    OBVIOUS
  <2>1. dir[n] = SubSeq(names, 1, n) /\ n + 1 \in 1 .. Len(names) /\ (n + 1) - 1 = n
    BY <1>4
  <2>2. \A k \in 1 .. Len(names) : dir[k] = Walk(dir[k - 1], names[k])
    BY <1>2 DEF IsWalk
  <2>3. dir[n + 1] = Walk(dir[n], names[n + 1])
    BY <2>1, <2>2
  <2>4. names[n + 1] \in Names /\ names[n + 1] \notin {".", ".."}
    BY <2>1, NameAssumption
  <2>5. Walk(dir[n], names[n + 1]) = Append(dir[n], names[n + 1])
    BY <2>4 DEF Walk
  <2>6. Append(SubSeq(names, 1, n), names[n + 1]) = SubSeq(names, 1, n + 1)
    BY <2>1
  <2> QED
    BY <2>1, <2>3, <2>5, <2>6
<1>5. Nat \subseteq S
  <2> HIDE DEF S
  <2> QED
    BY <1>3, <1>4, InductionOnNat
<1>6. dir[Len(names)] = SubSeq(names, 1, Len(names))
  BY <1>5
<1> QED
  BY <1>2, <1>6

\* path.Clean of an absolute path (pull.go:57): what it returns has neither
\* "." nor "..", and cleaning it again changes nothing.
LEMMA CanonicalIsCanonical ==
    \A elements \in Seq(Elements) :
        /\ Canonical(elements) \in Seq(Names)
        /\ Canonical(Canonical(elements)) = Canonical(elements)
BY CanonicalType, CanonicalOfNames

\* A relative path of the annotation is looked up from the source's path
\* (pull.go:57): it makes no difference whether that is cleaned first, so
\* ".." leads out of a source, but never above the root.
LEMMA JoinIsFromSource ==
    \A path, relative \in Seq(Elements) :
        Canonical(path \o relative) = Canonical(Canonical(path) \o relative)
<1> SUFFICES ASSUME NEW path \in Seq(Elements), NEW relative \in Seq(Elements)
             PROVE  Canonical(path \o relative) = Canonical(Canonical(path) \o relative)
  OBVIOUS
<1> DEFINE clean == Canonical(path)
           p == path \o relative
           q == clean \o relative
<1>1. clean \in Seq(Names) /\ clean \in Seq(Elements) /\ Canonical(clean) = clean
  BY CanonicalIsCanonical DEF Elements
<1> HIDE DEF clean
<1>2. /\ p \in Seq(Elements) /\ Len(p) = Len(path) + Len(relative)
      /\ \A k \in 1 .. Len(path) : p[k] = path[k]
      /\ \A k \in 1 .. Len(relative) : p[Len(path) + k] = relative[k]
  OBVIOUS
<1>3. /\ q \in Seq(Elements) /\ Len(q) = Len(clean) + Len(relative)
      /\ \A k \in 1 .. Len(clean) : q[k] = clean[k]
      /\ \A k \in 1 .. Len(relative) : q[Len(clean) + k] = relative[k]
  BY <1>1
<1> HIDE DEF p, q
<1>4. PICK v : IsWalk(p, Len(p), v) /\ Canonical(p) = v[Len(p)]
  BY <1>2, CanonicalEndsWalk
<1>5. PICK w : IsWalk(q, Len(q), w) /\ Canonical(q) = w[Len(q)]
  BY <1>3, CanonicalEndsWalk
<1>6. v[Len(path)] = clean
  <2>1. Len(path) <= Len(p) /\ \A k \in 1 .. Len(path) : path[k] = p[k]
    BY <1>2
  <2>2. Canonical(path) = v[Len(path)]
    BY <1>2, <1>4, <2>1, WalkPassesCanonical
  <2> QED
    BY <2>2 DEF clean
<1>7. w[Len(clean)] = clean
  <2>1. Len(clean) <= Len(q) /\ \A k \in 1 .. Len(clean) : clean[k] = q[k]
    BY <1>1, <1>3
  <2>2. Canonical(clean) = w[Len(clean)]
    BY <1>1, <1>3, <1>5, <2>1, WalkPassesCanonical
  <2> QED
    BY <1>1, <2>2
<1> DEFINE S == {n \in Nat : n <= Len(relative) => v[Len(path) + n] = w[Len(clean) + n]}
<1>8. 0 \in S
  BY <1>1, <1>6, <1>7
<1>9. ASSUME NEW n \in Nat, n \in S
      PROVE  n + 1 \in S
  <2> SUFFICES ASSUME n + 1 <= Len(relative)
               PROVE  v[Len(path) + (n + 1)] = w[Len(clean) + (n + 1)]
    OBVIOUS
  <2>1. v[Len(path) + n] = w[Len(clean) + n]
    BY <1>9
  <2>2. /\ Len(path) + (n + 1) \in 1 .. Len(p)
        /\ (Len(path) + (n + 1)) - 1 = Len(path) + n
        /\ Len(clean) + (n + 1) \in 1 .. Len(q)
        /\ (Len(clean) + (n + 1)) - 1 = Len(clean) + n
        /\ n + 1 \in 1 .. Len(relative)
    BY <1>1, <1>2, <1>3
  <2>3. v[Len(path) + (n + 1)] = Walk(v[Len(path) + n], relative[n + 1])
    BY <1>2, <1>4, <2>2 DEF IsWalk
  <2>4. w[Len(clean) + (n + 1)] = Walk(w[Len(clean) + n], relative[n + 1])
    BY <1>3, <1>5, <2>2 DEF IsWalk
  <2> QED
    BY <2>1, <2>3, <2>4
<1>10. Nat \subseteq S
  <2> HIDE DEF S
  <2> QED
    BY <1>8, <1>9, InductionOnNat
<1>11. v[Len(p)] = w[Len(q)]
  BY <1>2, <1>3, <1>10
<1>12. Canonical(p) = Canonical(q)
  BY <1>4, <1>5, <1>11
<1> QED
  BY <1>12 DEF p, q, clean

-----------------------------------------------------------------------------
(* What the functions of pull.go make of the paths.                        *)

\* An Application as pull.go sees it: its annotation and the paths of its
\* sources.
IsPathed(app) ==
    /\ app.annotation \in Seq(WrittenPaths)
    /\ \A s \in ToSet(app.sources) : s.path \in WrittenPaths

\* All these paths consist of names and dots.
LEMMA PathsAreTyped ==
    ASSUME NEW app, IsPathed(app)
    PROVE  /\ \A w \in ToSet(app.annotation) : w.elements \in Seq(Elements)
           /\ \A s \in ToSet(app.sources) : s.path.elements \in Seq(Elements)
<1>1. \A w \in WrittenPaths : w.elements \in Seq(Elements)
  BY DEF WrittenPaths, Elements
<1>2. ToSet(app.annotation) \subseteq WrittenPaths
  BY DEF IsPathed, ToSet
<1>3. \A s \in ToSet(app.sources) : s.path \in WrittenPaths
  BY DEF IsPathed
<1> QED
  BY <1>1, <1>2, <1>3

\* "getManifestGeneratePaths returns canonical paths" (pull.go:41): whatever
\* dots the annotation and the sources are written with, none is left for
\* strings.HasPrefix to trip over.
THEOREM ManifestGeneratePathsAreCanonical ==
    ASSUME NEW app, IsPathed(app), NEW d \in getManifestGeneratePaths(app)
    PROVE  d \in Seq(Names) /\ Canonical(d) = d
<1> DEFINE written == ToSet(app.annotation)
<1>1. /\ \A w \in written : w.elements \in Seq(Elements)
      /\ \A s \in ToSet(app.sources) : s.path.elements \in Seq(Elements)
  BY PathsAreTyped
<1>2. PICK elements \in Seq(Elements) : d = Canonical(elements)
  <2>1. CASE \E w \in written : d = Canonical(w.elements)
    BY <1>1, <2>1
  <2>2. CASE \E s \in ToSet(app.sources), w \in written :
                d = Canonical(s.path.elements \o w.elements)
    <3>1. PICK s \in ToSet(app.sources), w \in written :
             d = Canonical(s.path.elements \o w.elements)
      BY <2>2
    <3>2. s.path.elements \in Seq(Elements) /\ w.elements \in Seq(Elements)
      BY <1>1
    <3>3. s.path.elements \o w.elements \in Seq(Elements)
      BY <3>2
    <3> QED
      BY <3>1, <3>3
  <2> QED
    BY <2>1, <2>2 DEF getManifestGeneratePaths
<1> QED
  BY <1>2, CanonicalIsCanonical

\* The same sources, but for dots in their paths.
SameSources(s, t) ==
    /\ \A x \in ToSet(s) : \E y \in ToSet(t) :
          Canonical(x.path.elements) = Canonical(y.path.elements)
    /\ \A y \in ToSet(t) : \E x \in ToSet(s) :
          Canonical(x.path.elements) = Canonical(y.path.elements)

LEMMA OneWayGeneratePaths ==
    ASSUME NEW app, NEW other, IsPathed(app), IsPathed(other),
           app.annotation = other.annotation,
           SameSources(app.sources, other.sources)
    PROVE  getManifestGeneratePaths(app) \subseteq getManifestGeneratePaths(other)
<1> DEFINE written == ToSet(app.annotation)
<1> SUFFICES ASSUME NEW d \in getManifestGeneratePaths(app)
             PROVE  d \in getManifestGeneratePaths(other)
  OBVIOUS
<1>1. EmptyPath \notin written
  BY DEF getManifestGeneratePaths
<1>2. CASE \E w \in written : w.absolute /\ d = Canonical(w.elements)
  BY <1>1, <1>2 DEF getManifestGeneratePaths
<1>3. CASE \E s \in ToSet(app.sources), w \in written :
              ~w.absolute /\ d = Canonical(s.path.elements \o w.elements)
  <2>1. PICK s \in ToSet(app.sources), w \in written :
           ~w.absolute /\ d = Canonical(s.path.elements \o w.elements)
    BY <1>3
  <2>2. PICK t \in ToSet(other.sources) :
           Canonical(s.path.elements) = Canonical(t.path.elements)
    BY DEF SameSources
  <2>3. /\ s.path.elements \in Seq(Elements)
        /\ t.path.elements \in Seq(Elements)
        /\ w.elements \in Seq(Elements)
    BY PathsAreTyped
  <2>4. d = Canonical(t.path.elements \o w.elements)
    BY <2>1, <2>2, <2>3, JoinIsFromSource
  <2> QED
    BY <1>1, <2>1, <2>4 DEF getManifestGeneratePaths
<1> QED
  BY <1>1, <1>2, <1>3 DEF getManifestGeneratePaths

\* Who is told does not depend on how the paths of the sources are spelled:
\* with "app/./x" or "app/y/../x" for "app/x", the annotation names the same
\* directories (pull.go:60) and the same files match (pull.go:26).
THEOREM SpellingIsIgnored ==
    ASSUME NEW app, NEW other, IsPathed(app), IsPathed(other),
           app.annotation = other.annotation,
           SameSources(app.sources, other.sources)
    PROVE  /\ getManifestGeneratePaths(app) = getManifestGeneratePaths(other)
           /\ \A s \in ToSet(app.sources), t \in ToSet(other.sources) : \A files :
                 Canonical(s.path.elements) = Canonical(t.path.elements) =>
                    (isPullRequestRelatedToEvent(files, s, getManifestGeneratePaths(app))
                     <=> isPullRequestRelatedToEvent(files, t, getManifestGeneratePaths(other)))
<1>1. SameSources(other.sources, app.sources)
  BY DEF SameSources
<1>2. getManifestGeneratePaths(app) = getManifestGeneratePaths(other)
  <2>1. getManifestGeneratePaths(app) \subseteq getManifestGeneratePaths(other)
    BY OneWayGeneratePaths
  <2>2. getManifestGeneratePaths(other) \subseteq getManifestGeneratePaths(app)
    BY <1>1, OneWayGeneratePaths
  <2> QED
    BY <2>1, <2>2
<1>3. ASSUME NEW s, NEW t, NEW files, NEW paths,
             Canonical(s.path.elements) = Canonical(t.path.elements)
      PROVE  isPullRequestRelatedToEvent(files, s, paths)
             <=> isPullRequestRelatedToEvent(files, t, paths)
  BY <1>3 DEF isPullRequestRelatedToEvent
<1> QED
  BY <1>2, <1>3

=============================================================================
