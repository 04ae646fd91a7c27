------------------------ MODULE SpecificationProofs ------------------------
(***************************************************************************)
(* Specifications of environments, as "reproman retrace" makes them and    *)
(* "reproman diff" compares them: satisfaction is a preorder, the status of *)
(* "diff" is right for any specifications, and whatever the system, the    *)
(* names of APT sources in what was traced resolve and no path vanishes.   *)
(***************************************************************************)
EXTENDS Diff, Retrace, FiniteSetTheorems, WellFoundedInduction, TLAPS

-----------------------------------------------------------------------------
(* Diff *)

\* A package satisfies itself, whatever it leaves unstated.
LEMMA Reflexive == \A p : SatisfiedBy(p, p)
BY DEF SatisfiedBy

\* A package that satisfies one that satisfies a third satisfies that one.
LEMMA Transitive ==
    ASSUME NEW p, NEW q, NEW r, SatisfiedBy(p, q), SatisfiedBy(q, r)
    PROVE  SatisfiedBy(p, r)
BY DEF SatisfiedBy

\* What is left of a distribution after a subtraction is nothing exactly if all
\* of its packages are satisfied.
LEMMA MinusEmpty == \A P, Q : Minus(P, Q) = {} <=> AllSatisfied(P, Q)
BY DEF Minus, AllSatisfied

\* Distributions: each satisfies itself, and what satisfies one that satisfies a
\* third satisfies that one; a specification may be replaced twice (DEBPackage,
\* SpecObject.compare with mode satisfied_by).
THEOREM SatisfactionIsAPreorder ==
    /\ \A P : AllSatisfied(P, P)
    /\ \A P, Q, R : AllSatisfied(P, Q) /\ AllSatisfied(Q, R) => AllSatisfied(P, R)
<1>1. \A P : AllSatisfied(P, P)
  BY Reflexive DEF AllSatisfied, AnySatisfies
<1>2. ASSUME NEW P, NEW Q, NEW R, AllSatisfied(P, Q), AllSatisfied(Q, R)
      PROVE  AllSatisfied(P, R)
  <2>1. SUFFICES ASSUME NEW p \in P PROVE \E r \in R : SatisfiedBy(p, r)
    BY DEF AllSatisfied, AnySatisfies
  <2>2. PICK q \in Q : SatisfiedBy(p, q)
    BY <1>2 DEF AllSatisfied, AnySatisfies
  <2>3. PICK r \in R : SatisfiedBy(q, r)
    BY <1>2 DEF AllSatisfied, AnySatisfies
  <2> QED  BY <2>2, <2>3, Transitive
<1> QED  BY <1>1, <1>2

\* Two packages are identical exactly if they have one identity and one version,
\* which is what "diff" compares; each then satisfies the other.
LEMMA IdentityAndVersion ==
    \A p, q \in Package : CmpId(p) = CmpId(q) /\ Vals(p) = Vals(q) => p = q
<1> SUFFICES ASSUME NEW p \in Package, NEW q \in Package, CmpId(p) = CmpId(q), Vals(p) = Vals(q)
             PROVE p = q
  OBVIOUS
<1>1. p.name = q.name /\ p.detail = q.detail /\ p.version = q.version
  BY DEF CmpId, Vals
<1>2. /\ p = [name |-> p.name, detail |-> p.detail, version |-> p.version]
      /\ q = [name |-> q.name, detail |-> q.detail, version |-> q.version]
  BY DiffAssumption
<1> QED  BY <1>1, <1>2

\* Identical packages satisfy each other.
LEMMA IdenticalSatisfies ==
    \A p, q : IdenticalTo(p, q) => SatisfiedBy(p, q) /\ SatisfiedBy(q, p)
BY DEF IdenticalTo, SatisfiedBy

\* The packages of a type in a specification are a sequence of packages.
LEMMA PackagesType == \A e \in Env : \A t : Packages(e, t) \in Seq(Package)
<1> SUFFICES ASSUME NEW e \in Env, NEW t PROVE Packages(e, t) \in Seq(Package)
  OBVIOUS
<1>1. CASE Of(e, t) = {}
  BY <1>1 DEF Packages
<1>2. CASE Of(e, t) # {}
  <2> DEFINE k == CHOOSE k \in Of(e, t) : TRUE
  <2>1. k \in DOMAIN e.dists
    BY <1>2 DEF Of
  <2>2. Packages(e, t) = e.dists[k].packages
    BY <1>2 DEF Packages
  <2> HIDE DEF k
  <2> QED  BY <2>1, <2>2, DiffAssumption
<1> QED  BY <1>1, <1>2

\* Without two packages of one identity the dictionary has them all.
LEMMA KeyedUnique ==
    ASSUME NEW e \in Env, NEW t, Unique(e, t)
    PROVE  Keyed(Packages(e, t)) = Set(Packages(e, t))
<1> DEFINE P == Packages(e, t)
<1>1. \A i, k \in DOMAIN P : CmpId(P[k]) = CmpId(P[i]) => k = i
  BY DEF Unique
<1>2. DOMAIN P \subseteq Nat
  BY PackagesType
<1> HIDE DEF P
<1>3. \A i, k \in DOMAIN P : k > i => CmpId(P[k]) # CmpId(P[i])
  BY <1>1, <1>2
<1>4. Keyed(P) = Set(P)
  BY <1>3 DEF Keyed, Set
<1> QED  BY <1>4 DEF P

\* Where nothing is shown, two sets of packages are the same.
LEMMA NothingShown ==
    ASSUME NEW P \in SUBSET Package, NEW Q \in SUBSET Package,
           Shown(P, Q) = {}, Shown(Q, P) = {}
    PROVE  P = Q
<1>1. ASSUME NEW A \in SUBSET Package, NEW B \in SUBSET Package, Shown(A, B) = {}, NEW p \in A
      PROVE  p \in B
  <2>1. PICK q \in B : CmpId(p) = CmpId(q)
    BY <1>1 DEF Shown, Only
  <2>2. Vals(p) = Vals(q)
    BY <1>1, <2>1 DEF Shown, Changed
  <2> QED  BY <1>1, <2>1, <2>2, IdentityAndVersion
<1> QED  BY <1>1

\* "diff" without a difference: the specifications have the same packages.
LEMMA DiffIsTrue ==
    ASSUME NEW e1 \in Env, NEW e2 \in Env, DiffStatus(e1, e2) = 0,
           NEW t \in Types(e1) \cup Types(e2), Unique(e1, t), Unique(e2, t)
    PROVE  Set(Packages(e1, t)) = Set(Packages(e2, t))
<1> DEFINE types == Types(e1) \cup Types(e2)
           K1 == Keyed(Packages(e1, t))
           K2 == Keyed(Packages(e2, t))
<1>1. DiffReport(e1, e2) = <<{}, {}>>
  BY DEF DiffStatus
<1>2. ByType(e1, e2, types) = {} /\ ByType(e2, e1, types) = {}
  BY <1>1 DEF DiffReport
<1>3. Shown(K1, K2) = {} /\ Shown(K2, K1) = {}
  BY <1>2 DEF ByType
<1>4. K1 = Set(Packages(e1, t)) /\ K2 = Set(Packages(e2, t))
  BY KeyedUnique
<1>5. Set(Packages(e1, t)) \in SUBSET Package /\ Set(Packages(e2, t)) \in SUBSET Package
  BY PackagesType DEF Set
<1> HIDE DEF K1, K2
<1> QED  BY <1>3, <1>4, <1>5, NothingShown

\* "diff --satisfies" without a lack: each package is met by another.
LEMMA SatisfiesIsTrue ==
    ASSUME NEW e1 \in Env, NEW e2 \in Env, SatisfiesStatus(e1, e2) = 0,
           NEW t \in Types(e2), NEW p \in Set(Packages(e2, t))
    PROVE  \E q \in Set(Packages(e1, t)) : \A f \in Fields : p[f] \in {Unstated, q[f]}
<1>1. SatisfiesReport(e1, e2) = {}
  BY DEF SatisfiesStatus
<1>2. Minus(Set(Packages(e2, t)), Set(Packages(e1, t))) = {}
  BY <1>1 DEF SatisfiesReport
<1>3. PICK q \in Set(Packages(e1, t)) : SatisfiedBy(p, q)
  BY <1>2, MinusEmpty DEF AllSatisfied, AnySatisfies
<1> QED  BY <1>3 DEF SatisfiedBy

\* The status stays what the request made it.
DiffIInv ==
    /\ request = <<>> => status = Unstated
    /\ request # <<>> =>
          \E e1, e2 \in Env :
              \/ request = <<e1, e2, "diff">> /\ status \in {Error, DiffStatus(e1, e2)}
              \/ request = <<e1, e2, "satisfies">> /\ status \in {Error, SatisfiesStatus(e1, e2)}

\* The status of "reproman diff" is right for any specifications: 0 stands for
\* the same packages, or with --satisfies for packages that can replace those
\* of the second (Diff.diff and Diff.satisfies).
THEOREM DiffCorrect == DiffSpec => []StatusIsTrue
<1>1. DiffInit => DiffIInv
  BY DEF DiffInit, DiffIInv
<1>2. DiffIInv /\ [DiffNext]_diffVars => DiffIInv'
  <2> SUFFICES ASSUME DiffIInv, [DiffNext]_diffVars PROVE DiffIInv'  OBVIOUS
  <2>1. CASE Compare
    <3>1. PICK e1, e2 \in Env : request' = <<e1, e2, "diff">>
      BY <2>1 DEF Compare
    <3>2. request'[1] = e1 /\ request'[2] = e2 /\ request' # <<>>
      BY <3>1
    <3>3. status' \in {Error, DiffStatus(e1, e2)}
      BY <2>1, <3>2 DEF Compare
    <3> QED  BY <3>1, <3>2, <3>3 DEF DiffIInv
  <2>2. CASE CompareSatisfies
    <3>1. PICK e1, e2 \in Env : request' = <<e1, e2, "satisfies">>
      BY <2>2 DEF CompareSatisfies
    <3>2. request'[1] = e1 /\ request'[2] = e2 /\ request' # <<>>
      BY <3>1
    <3>3. status' \in {Error, SatisfiesStatus(e1, e2)}
      BY <2>2, <3>2 DEF CompareSatisfies
    <3> QED  BY <3>1, <3>2, <3>3 DEF DiffIInv
  <2>3. CASE UNCHANGED diffVars
    BY <2>3 DEF DiffIInv, diffVars
  <2> QED  BY <2>1, <2>2, <2>3 DEF DiffNext
<1>3. DiffIInv => StatusIsTrue
  <2> SUFFICES ASSUME DiffIInv, status = 0 PROVE StatusIsTrue  BY DEF StatusIsTrue
  <2>1. request # <<>> /\ status # Error
    BY DiffAssumption DEF DiffIInv, Error
  <2>2. PICK e1, e2 \in Env :
            \/ request = <<e1, e2, "diff">> /\ DiffStatus(e1, e2) = 0
            \/ request = <<e1, e2, "satisfies">> /\ SatisfiesStatus(e1, e2) = 0
    BY <2>1 DEF DiffIInv
  <2>3. request[1] = e1 /\ request[2] = e2
    BY <2>2
  <2>4. CASE request[3] = "diff"
    <3>1. DiffStatus(e1, e2) = 0
      BY <2>2, <2>4
    <3> QED  BY <2>3, <2>4, <3>1, DiffIsTrue DEF StatusIsTrue
  <2>5. CASE request[3] # "diff"
    <3>1. SatisfiesStatus(e1, e2) = 0
      BY <2>2, <2>5
    <3> QED  BY <2>3, <2>5, <3>1, SatisfiesIsTrue DEF StatusIsTrue
  <2> QED  BY <2>4, <2>5
<1> QED  BY <1>1, <1>2, <1>3, PTL DEF DiffSpec

-----------------------------------------------------------------------------
(* Retrace: the names of APT sources *)

\* SetToSeq() of a finite set is a sequence in which each element has one place.
LEMMA OnePlaceEach ==
    ASSUME NEW S, IsFiniteSet(S)
    PROVE  /\ Cardinality(S) \in Nat
           /\ SetToSeq(S) \in [1..Cardinality(S) -> S]
           /\ \A i, j \in 1..Cardinality(S) : SetToSeq(S)[i] = SetToSeq(S)[j] => i = j
           /\ \A x \in S : \E i \in 1..Cardinality(S) : SetToSeq(S)[i] = x
<1> DEFINE n == Cardinality(S)
           order == SetToSeq(S)
<1>1. n \in Nat /\ ExistsBijection(1..n, S)
  BY FS_CardinalityType
<1>2. PICK f \in [1..n -> S] : IsInjective(f)
  BY <1>1 DEF ExistsBijection, Bijection, Injection
<1>3. order \in [1..n -> S] /\ IsInjective(order)
  BY <1>2 DEF SetToSeq
<1>4. order \in Injection(1..n, S)
  BY <1>3 DEF Injection
<1>5. IsFiniteSet(1..n) /\ Cardinality(1..n) = n
  BY <1>1, FS_Interval
<1>6. order \in Surjection(1..n, S)
  BY <1>4, <1>5, FS_Injection
<1>7. \A x \in S : \E i \in 1..n : order[i] = x
  BY <1>6 DEF Surjection
<1>8. \A i, j \in 1..n : order[i] = order[j] => i = j
  BY <1>3 DEF IsInjective
<1> QED  BY <1>1, <1>3, <1>7, <1>8

\* Of two lines of one origin, archive and component, in any order of lines, the
\* later one gets the higher number (generate_unique_name).
LEMMA LaterIsHigher ==
    ASSUME NEW n \in Nat, NEW S, NEW order \in [1..n -> S],
           \A i, j \in 1..n : order[i] = order[j] => i = j,
           NEW a \in 1..n, NEW b \in 1..n, a < b, SameName(order[a], order[b])
    PROVE  SourceNumber(order[a], order) # SourceNumber(order[b], order)
<1> DEFINE Before(c) ==
             {i \in DOMAIN order : /\ SameName(order[i], order[c])
                                   /\ \E j \in DOMAIN order : j > i /\ order[j] = order[c]}
<1>1. \A c \in 1..n : Before(c) = {i \in 1..n : SameName(order[i], order[c]) /\ i < c}
  OBVIOUS
<1>2. Before(a) \subseteq Before(b)
  BY <1>1 DEF SameName
<1>3. a \in Before(b) /\ a \notin Before(a)
  BY <1>1
<1>4. IsFiniteSet(1..n)
  BY FS_Interval
<1>5. Before(b) \in SUBSET (1..n)
  OBVIOUS
<1>6. IsFiniteSet(Before(b))
  BY <1>4, <1>5, FS_Subset
<1>7. Before(a) # Before(b)
  BY <1>3
<1>8. Cardinality(Before(a)) # Cardinality(Before(b))
  <2> HIDE DEF Before
  <2> QED  BY <1>2, <1>6, <1>7, FS_Subset
<1> QED  BY <1>8 DEF SourceNumber

\* No two source lines of a system get one name.
LEMMA NamesAreUnique ==
    ASSUME NEW used \in SUBSET DOMAIN Deb.sources, NEW l \in used, NEW m \in used,
           SourceName(l, SetToSeq(used)) = SourceName(m, SetToSeq(used))
    PROVE  l = m
<1> DEFINE order == SetToSeq(used)
           n == Cardinality(used)
<1>1. IsFiniteSet(used)
  BY TracersAssumption, FS_Subset
<1>2. /\ n \in Nat
      /\ order \in [1..n -> used]
      /\ \A i, j \in 1..n : order[i] = order[j] => i = j
      /\ \A x \in used : \E i \in 1..n : order[i] = x
  BY <1>1, OnePlaceEach
<1>3. SourceName(l, order) = SourceName(m, order)
  OBVIOUS
<1> HIDE DEF order, n
<1>4. PICK a \in 1..n : order[a] = l
  BY <1>2
<1>5. PICK b \in 1..n : order[b] = m
  BY <1>2
<1>6. Deb.sources[l] = Deb.sources[m] /\ SourceNumber(l, order) = SourceNumber(m, order)
  BY <1>3 DEF SourceName
<1>7. SameName(l, m) /\ SameName(m, l)
  BY <1>6 DEF SameName
<1>8. ASSUME a < b PROVE FALSE
  <2>1. SameName(order[a], order[b])
    BY <1>4, <1>5, <1>7
  <2>2. SourceNumber(order[a], order) # SourceNumber(order[b], order)
    BY <1>2, <1>8, <2>1, LaterIsHigher
  <2> QED  BY <1>4, <1>5, <1>6, <2>2
<1>9. ASSUME b < a PROVE FALSE
  <2>1. SameName(order[b], order[a])
    BY <1>4, <1>5, <1>7
  <2>2. SourceNumber(order[b], order) # SourceNumber(order[a], order)
    BY <1>2, <1>9, <2>1, LaterIsHigher
  <2> QED  BY <1>4, <1>5, <1>6, <2>2
<1>10. a = b
  BY <1>2, <1>8, <1>9
<1> QED  BY <1>4, <1>5, <1>10
-----------------------------------------------------------------------------
(* Retrace: every round *)

\* A distribution of a Debian system can be provisioned: its sources resolve.
Resolves(d) ==
    /\ \A p \in DOMAIN d.versions : \A v \in DOMAIN d.versions[p] :
          d.versions[p][v] \subseteq {s.name : s \in d.apt_sources}
    /\ \A s, t \in d.apt_sources : s.name = t.name => s = t

Good(d) == d.kind = "debian" => Resolves(d.details)
GoodDists(ds) == \E D : ds \in Seq(D) /\ \A d \in D : Good(d)

\* The inductive invariant: what was found in earlier rounds stays good.
RetraceIInv == GoodDists(dists)

\* What a tracer adds to distributions that are good.
LEMMA GoodTogether ==
    ASSUME NEW ds, NEW es, GoodDists(ds), GoodDists(es)
    PROVE  GoodDists(ds \o es)
<1>1. PICK D : ds \in Seq(D) /\ \A d \in D : Good(d)
  BY DEF GoodDists
<1>2. PICK E : es \in Seq(E) /\ \A d \in E : Good(d)
  BY DEF GoodDists
<1>3. ds \in Seq(D \cup E) /\ es \in Seq(D \cup E)
  BY <1>1, <1>2
<1>4. ds \o es \in Seq(D \cup E)
  BY <1>3
<1> QED  BY <1>1, <1>2, <1>4 DEF GoodDists

\* A tracer that finds nothing leaves good distributions good.
LEMMA NothingIsGood == GoodDists(<<>>)
<1>1. PICK D : D = {}
  OBVIOUS
<1>2. <<>> \in Seq(D) /\ \A d \in D : Good(d)
  BY <1>1
<1> QED  BY <1>2 DEF GoodDists

\* A tracer that yields one distribution.
LEMMA OneIsGood == ASSUME NEW d, Good(d) PROVE GoodDists(<<d>>)
<1>1. PICK D : D = {d}
  OBVIOUS
<1>2. <<d>> \in Seq(D) /\ \A e \in D : Good(e)
  BY <1>1
<1> QED  BY <1>2 DEF GoodDists

\* The details of packages: each short name is that of a listed source line, and
\* no two lines have one (DebTracer: _finalize, _get_packages_info).
LEMMA DetailsResolve == ASSUME NEW packages PROVE Resolves(Details(packages))
<1> DEFINE used == (UNION {Lines(p) : p \in packages}) \cap DOMAIN Deb.sources
           order == SetToSeq(used)
           sources == {[name |-> SourceName(l, order), line |-> l] : l \in used}
           versions == [p \in packages |-> Versions(p, order)]
<1>1. Details(packages) = [versions |-> versions, apt_sources |-> sources]
  BY DEF Details
<1>2. \A s, t \in sources : s.name = t.name => s = t
  <2>1. used \in SUBSET DOMAIN Deb.sources
    OBVIOUS
  <2>2. ASSUME NEW l \in used, NEW m \in used, SourceName(l, order) = SourceName(m, order)
        PROVE  l = m
    <3> HIDE DEF used
    <3> QED  BY <2>1, <2>2, NamesAreUnique
  <2> HIDE DEF used, order
  <2> QED  BY <2>2
<1>3. \A p \in packages : \A v \in DOMAIN versions[p] :
          versions[p][v] \subseteq {s.name : s \in sources}
  <2>1. SUFFICES ASSUME NEW p \in packages, NEW v \in DOMAIN versions[p]
                 PROVE  versions[p][v] \subseteq {s.name : s \in sources}
    OBVIOUS
  <2>2. v \in DOMAIN Deb.policy[p]
    BY DEF Versions
  <2>3. versions[p][v] = {SourceName(l, order) : l \in Deb.policy[p][v] \cap DOMAIN Deb.sources}
    BY <2>2 DEF Versions
  <2>4. Deb.policy[p][v] \cap DOMAIN Deb.sources \subseteq used
    BY <2>2 DEF Lines
  <2>5. ASSUME NEW x \in versions[p][v] PROVE x \in {s.name : s \in sources}
    <3>1. PICK l \in used : x = SourceName(l, order)
      BY <2>3, <2>4, <2>5
    <3>2. [name |-> x, line |-> l] \in sources
      BY <3>1
    <3> HIDE DEF sources
    <3> QED  BY <3>2
  <2> QED  BY <2>5
<1> HIDE DEF sources, versions
<1>4. DOMAIN versions = packages
  BY DEF versions
<1>5. /\ Details(packages).versions = versions
      /\ Details(packages).apt_sources = sources
  BY <1>1
<1> QED  BY <1>2, <1>3, <1>4, <1>5 DEF Resolves

\* The one tracer that yields a distribution of Debian (DebTracer).
LEMMA DebGood == ASSUME NEW h, NEW fs, NEW o \in DebTracer(h, fs) PROVE GoodDists(o.dists)
<1>1. \/ o = Nothing(fs)
      \/ \E found \in IdentifyPackages(fs, [f \in fs |-> DpkgField(f)]) :
            o = Outcome(<<Dist("debian", found.listed, found.taken, Details(found.packages))>>,
                        found.rest)
  BY DEF DebTracer
<1>2. CASE o = Nothing(fs)
  BY <1>2, NothingIsGood DEF Nothing, Outcome
<1>3. ASSUME NEW found, o = Outcome(<<Dist("debian", found.listed, found.taken,
                                           Details(found.packages))>>, found.rest)
      PROVE  GoodDists(o.dists)
  <2> DEFINE d == Dist("debian", found.listed, found.taken, Details(found.packages))
  <2>1. d.details = Details(found.packages)
    BY DEF Dist
  <2>2. Good(d)
    BY <2>1, DetailsResolve DEF Good
  <2>3. o.dists = <<d>>
    BY <1>3 DEF Outcome
  <2> HIDE DEF d
  <2> QED  BY <2>2, <2>3, OneIsGood
<1> QED  BY <1>1, <1>2, <1>3

\* A distribution of another kind says nothing of APT sources.
LEMMA OtherKind ==
    ASSUME NEW k, k # "debian", NEW listed, NEW taken, NEW details
    PROVE  Good(Dist(k, listed, taken, details))
BY DEF Good, Dist

\* rpm: one distribution of Red Hat, or a crash (RPMTracer).
LEMMA RPMGood == ASSUME NEW h, NEW fs, NEW o \in RPMTracer(h, fs) PROVE GoodDists(o.dists)
<1>1. \/ o = Nothing(fs) \/ o = Crash(fs)
      \/ \E found : o = Outcome(<<Dist("redhat", found.listed, found.taken, None)>>, found.rest)
  BY DEF RPMTracer
<1>2. CASE o = Nothing(fs) \/ o = Crash(fs)
  BY <1>2, NothingIsGood DEF Nothing, Outcome, Crash
<1>3. ASSUME NEW found, o = Outcome(<<Dist("redhat", found.listed, found.taken, None)>>, found.rest)
      PROVE  GoodDists(o.dists)
  <2> DEFINE d == Dist("redhat", found.listed, found.taken, None)
  <2>1. Good(d)
    BY OtherKind
  <2>2. o.dists = <<d>>
    BY <1>3 DEF Outcome
  <2> HIDE DEF d
  <2> QED  BY <2>1, <2>2, OneIsGood
<1> QED  BY <1>1, <1>2, <1>3

\* conda: one distribution for each installation (CondaTracer).
LEMMA CondaGood == ASSUME NEW h, NEW fs, NEW o \in CondaTracer(h, fs) PROVE GoodDists(o.dists)
<1> DEFINE envs == {e \in DOMAIN Conda.root \cap {Conda.env[f] : f \in fs} : Conda.root[e] # None}
<1>1. \/ o = Nothing(fs) \/ o = Crash(fs)
      \/ \E acc : o = Outcome(CondaDists(envs, acc), acc.unknown)
  BY DEF CondaTracer
<1>2. CASE o = Nothing(fs) \/ o = Crash(fs)
  BY <1>2, NothingIsGood DEF Nothing, Outcome, Crash
<1>3. ASSUME NEW acc, o = Outcome(CondaDists(envs, acc), acc.unknown)
      PROVE  GoodDists(o.dists)
  <2> DEFINE T == {Conda.root[e] : e \in envs}
             roots == SetToSeq(T)
             n == Cardinality(T)
  <2>1. IsFiniteSet(envs)
    BY TracersAssumption, FS_Subset
  <2>2. [e \in envs |-> Conda.root[e]] \in Surjection(envs, T)
    BY DEF Surjection
  <2>3. IsFiniteSet(T)
    BY <2>1, <2>2, FS_Surjection
  <2> HIDE DEF T
  <2>4. n \in Nat /\ roots \in [1..n -> T]
    BY <2>3, OnePlaceEach
  <2>5. PICK ds : ds = CondaDists(envs, acc)
    OBVIOUS
  <2>6. DOMAIN ds = 1..n /\ \A i \in 1..n : Good(ds[i])
    BY <2>4, <2>5, OtherKind DEF CondaDists, T
  <2>7. ds = [i \in 1..n |-> ds[i]]
    BY <2>4, <2>5 DEF CondaDists, T
  <2>8. ds \in Seq({ds[i] : i \in 1..n})
    BY <2>4, <2>7
  <2>9. o.dists = ds
    BY <1>3, <2>5 DEF Outcome
  <2> QED  BY <2>6, <2>8, <2>9 DEF GoodDists
<1> QED  BY <1>1, <1>2, <1>3

\* virtualenv: one distribution for all environments (VenvTracer).
LEMMA VenvGood == ASSUME NEW h, NEW fs, NEW o \in VenvTracer(h, fs) PROVE GoodDists(o.dists)
<1>1. \/ o = Nothing(fs) \/ o = Crash(fs)
      \/ \E acc, packages : o = Outcome(<<Dist("venv", acc.taken, acc.taken, [envs |-> packages])>>,
                                        acc.unknown)
  BY DEF VenvTracer
<1>2. CASE o = Nothing(fs) \/ o = Crash(fs)
  BY <1>2, NothingIsGood DEF Nothing, Outcome, Crash
<1>3. ASSUME NEW acc, NEW packages,
             o = Outcome(<<Dist("venv", acc.taken, acc.taken, [envs |-> packages])>>, acc.unknown)
      PROVE  GoodDists(o.dists)
  <2> DEFINE d == Dist("venv", acc.taken, acc.taken, [envs |-> packages])
  <2>1. Good(d)
    BY OtherKind
  <2>2. o.dists = <<d>>
    BY <1>3 DEF Outcome
  <2> HIDE DEF d
  <2> QED  BY <2>1, <2>2, OneIsGood
<1> QED  BY <1>1, <1>2, <1>3

\* git and svn: one distribution for each, if there is one (VCSTracer).
LEMMA VCSGood == ASSUME NEW h, NEW fs, NEW o \in VCSTracer(h, fs) PROVE GoodDists(o.dists)
<1>1. \/ o = Nothing(fs) \/ o = Crash(fs)
      \/ \E acc, found :
            o = Outcome(VCSDist(acc, found, "git") \o VCSDist(acc, found, "svn"), found.rest)
  BY DEF VCSTracer
<1>2. CASE o = Nothing(fs) \/ o = Crash(fs)
  BY <1>2, NothingIsGood DEF Nothing, Outcome, Crash
<1>3. ASSUME NEW acc, NEW found, NEW k, k # "debian" PROVE GoodDists(VCSDist(acc, found, k))
  <2>1. \/ VCSDist(acc, found, k) = <<>>
        \/ \E l, t, more : VCSDist(acc, found, k) = <<Dist(k, l, t, more)>>
    BY DEF VCSDist
  <2> QED  BY <1>3, <2>1, NothingIsGood, OneIsGood, OtherKind
<1>4. ASSUME NEW acc, NEW found,
             o = Outcome(VCSDist(acc, found, "git") \o VCSDist(acc, found, "svn"), found.rest)
      PROVE  GoodDists(o.dists)
  <2>1. o.dists = VCSDist(acc, found, "git") \o VCSDist(acc, found, "svn")
    BY <1>4 DEF Outcome
  <2>2. GoodDists(VCSDist(acc, found, "git")) /\ GoodDists(VCSDist(acc, found, "svn"))
    BY <1>3
  <2> QED  BY <2>1, <2>2, GoodTogether
<1> QED  BY <1>1, <1>2, <1>4

\* Docker: one distribution of images (DockerTracer).
LEMMA DockerGood == ASSUME NEW h, NEW fs, NEW o \in DockerTracer(h, fs) PROVE GoodDists(o.dists)
<1>1. \/ o = Nothing(fs)
      \/ \E images : o = Outcome(<<Dist("docker", {}, images, None)>>, fs \ images)
  BY DEF DockerTracer
<1>2. CASE o = Nothing(fs)
  BY <1>2, NothingIsGood DEF Nothing, Outcome
<1>3. ASSUME NEW images, o = Outcome(<<Dist("docker", {}, images, None)>>, fs \ images)
      PROVE  GoodDists(o.dists)
  <2> DEFINE d == Dist("docker", {}, images, None)
  <2>1. Good(d)
    BY OtherKind
  <2>2. o.dists = <<d>>
    BY <1>3 DEF Outcome
  <2> HIDE DEF d
  <2> QED  BY <2>1, <2>2, OneIsGood
<1> QED  BY <1>1, <1>2, <1>3

\* Singularity: one distribution of images (SingularityTracer).
LEMMA SingularityGood ==
    ASSUME NEW h, NEW fs, NEW o \in SingularityTracer(h, fs) PROVE GoodDists(o.dists)
<1>1. \/ o = Nothing(fs)
      \/ \E acc, images :
            o = Outcome(<<Dist("singularity", {}, images, [images |-> acc.images])>>, acc.rest)
  BY DEF SingularityTracer
<1>2. CASE o = Nothing(fs)
  BY <1>2, NothingIsGood DEF Nothing, Outcome
<1>3. ASSUME NEW acc, NEW images,
             o = Outcome(<<Dist("singularity", {}, images, [images |-> acc.images])>>, acc.rest)
      PROVE  GoodDists(o.dists)
  <2> DEFINE d == Dist("singularity", {}, images, [images |-> acc.images])
  <2>1. Good(d)
    BY OtherKind
  <2>2. o.dists = <<d>>
    BY <1>3 DEF Outcome
  <2> HIDE DEF d
  <2> QED  BY <2>1, <2>2, OneIsGood
<1> QED  BY <1>1, <1>2, <1>3

\* Rounds only append what their tracers yield.
LEMMA RoundKeepsGood == ASSUME RetraceIInv, [RetraceNext]_retraceVars PROVE RetraceIInv'
<1>1. CASE RunTracer
  <2>1. PICK o \in IF Given = {} THEN {Nothing({})} ELSE Trace(Tracers[at], host, Given) :
             dists' = dists \o o.dists
    BY <1>1 DEF RunTracer
  <2>2. CASE Given = {}
    <3>1. o.dists = <<>>
      BY <2>1, <2>2 DEF Nothing, Outcome
    <3> QED  BY <2>1, <3>1, NothingIsGood, GoodTogether DEF RetraceIInv
  <2>3. CASE Given # {}
    <3>1. o \in Trace(Tracers[at], host, Given)
      BY <2>1, <2>3
    <3>2. GoodDists(o.dists)
      BY <3>1, DebGood, RPMGood, CondaGood, VenvGood, VCSGood, DockerGood, SingularityGood DEF Trace
    <3> QED  BY <2>1, <3>2, GoodTogether DEF RetraceIInv
  <2> QED  BY <2>2, <2>3
<1>2. CASE UNCHANGED dists
  BY <1>2 DEF RetraceIInv
<1> QED  BY <1>1, <1>2 DEF RetraceNext, Retrace, NewRound, EndRound, retraceVars

\* The inductive invariant of "reproman retrace".
THEOREM RetraceInvariant == RetraceSpec => []RetraceIInv
<1>1. RetraceInit => RetraceIInv
  BY NothingIsGood DEF RetraceInit, RetraceIInv
<1> QED  BY <1>1, RoundKeepsGood, PTL DEF RetraceSpec

\* The names of APT sources in what was traced resolve, for any paths, packages
\* and sources: a version refers to a listed source, by a name that no other has.
THEOREM SourcesCorrect == RetraceSpec => []SourcesResolve
<1>1. RetraceIInv => SourcesResolve
  <2> SUFFICES ASSUME RetraceIInv, NEW i \in DOMAIN dists, dists[i].kind = "debian"
               PROVE  Resolves(dists[i].details)
    BY DEF SourcesResolve, Resolves
  <2>1. PICK D : dists \in Seq(D) /\ \A d \in D : Good(d)
    BY DEF RetraceIInv, GoodDists
  <2>2. dists[i] \in D
    BY <2>1
  <2> QED  BY <2>1, <2>2 DEF Good
<1> QED  BY <1>1, RetraceInvariant, PTL
-----------------------------------------------------------------------------
(* Retrace: where the paths are that were given.  Several tracers fold over  *)
(* a set in some order; what each step keeps is shown by LeftFold.           *)

\* What distributions list and what they took.
ListedOf(ds) == UNION {ds[i].listed \cup (IF ds[i].kind \in {"docker", "singularity"}
                                          THEN ds[i].taken ELSE {}) : i \in DOMAIN ds}
TakenOf(ds) == UNION {ds[i].taken : i \in DOMAIN ds}

\* Where a path is, after tracers that left some paths, listed some and took some.
Follows(f, rest, listed, taken) ==
    \/ f \in rest \cup listed \/ HubName(f) \in rest \cup listed
    \/ f \in Dir \cap taken
    \/ /\ Venv.env[f] # None
       /\ Venv.env[Venv.real[f]] # None \/ Venv.real[f] \in rest \cup taken

\* What each tracer promises of the paths it was given.
Accounts(given, o) ==
    /\ o.rest \in SUBSET Path
    /\ ListedOf(o.dists) \subseteq TakenOf(o.dists)
    /\ \A f \in given : Follows(f, o.rest, ListedOf(o.dists), TakenOf(o.dists))

\* A sequence of all members of a finite set has each of them at some place.
LEMMA AllSeen ==
    ASSUME NEW S, IsFiniteSet(S), NEW order \in SetToSeqs(S)
    PROVE  /\ Len(order) \in Nat /\ DOMAIN order = 1 .. Len(order)
           /\ \A i \in DOMAIN order : order[i] \in S
           /\ \A x \in S : \E i \in DOMAIN order : order[i] = x
<1> DEFINE n == Cardinality(S)
<1>1. n \in Nat
  BY FS_CardinalityType
<1>2. order \in [1..n -> S] /\ \A i, j \in 1..n : i # j => order[i] # order[j]
  BY DEF SetToSeqs
<1>3. order \in Injection(1..n, S)
  BY <1>2 DEF Injection, IsInjective
<1>4. IsFiniteSet(1..n) /\ Cardinality(1..n) = n
  BY <1>1, FS_Interval
<1>5. order \in Surjection(1..n, S)
  BY <1>3, <1>4, FS_Injection
<1> HIDE DEF n
<1>6. Len(order) = n
  BY <1>1, <1>2
<1> QED BY <1>1, <1>2, <1>5, <1>6 DEF Surjection

\* A tracer that finds nothing, or crashes, leaves what it was given.
LEMMA NothingAccounts ==
    ASSUME NEW given \in SUBSET Path, NEW o, o = Nothing(given) \/ o = Crash(given)
    PROVE  Accounts(given, o)
<1>1. o.rest = given /\ o.dists = <<>>
  BY DEF Nothing, Outcome, Crash
<1>2. ListedOf(<<>>) = {}
  BY DEF ListedOf
<1> QED BY <1>1, <1>2 DEF Accounts, Follows

\* What one distribution lists and takes.
LEMMA OneDist ==
    ASSUME NEW k, NEW l, NEW t, NEW more
    PROVE  /\ ListedOf(<<Dist(k, l, t, more)>>) = l \cup (IF k \in {"docker", "singularity"} THEN t ELSE {})
           /\ TakenOf(<<Dist(k, l, t, more)>>) = t
<1> DEFINE d == Dist(k, l, t, more)
<1>1. d.listed = l /\ d.taken = t /\ d.kind = k
  BY DEF Dist
<1> HIDE DEF d
<1>2. DOMAIN <<d>> = {1} /\ <<d>>[1] = d
  OBVIOUS
<1>3. ListedOf(<<d>>) = d.listed \cup (IF d.kind \in {"docker", "singularity"} THEN d.taken ELSE {})
  BY <1>2 DEF ListedOf
<1>4. TakenOf(<<d>>) = d.taken
  BY <1>2 DEF TakenOf
<1> QED BY <1>1, <1>3, <1>4 DEF d

\* What a distribution lists is listed by the distributions.
LEMMA EachListed ==
    ASSUME NEW ds, \A i \in DOMAIN ds : ds[i].listed \subseteq ds[i].taken
    PROVE  /\ ListedOf(ds) \subseteq TakenOf(ds)
           /\ \A i \in DOMAIN ds : ds[i].listed \subseteq ListedOf(ds)
           /\ \A i \in DOMAIN ds : ds[i].taken \subseteq TakenOf(ds)
<1>1. \A i \in DOMAIN ds : ds[i].listed \subseteq ListedOf(ds)
  BY DEF ListedOf
<1>2. \A i \in DOMAIN ds : ds[i].taken \subseteq TakenOf(ds)
  BY DEF TakenOf
<1>3. ASSUME NEW f \in ListedOf(ds) PROVE f \in TakenOf(ds)
  <2>1. PICK i \in DOMAIN ds :
           f \in ds[i].listed \cup (IF ds[i].kind \in {"docker", "singularity"} THEN ds[i].taken ELSE {})
    BY <1>3 DEF ListedOf
  <2> QED BY <1>2, <2>1
<1> QED BY <1>1, <1>2, <1>3

\* A path that belongs to a package is taken and, but for directories, listed
\* (PackageTracer.identify_packages_from_files).
LEMMA Identified ==
    ASSUME NEW given \in SUBSET Path, NEW field, NEW found \in IdentifyPackages(given, field)
    PROVE  /\ found.taken \subseteq given /\ found.rest = given \ found.taken
           /\ found.listed \subseteq found.taken
           /\ found.taken = {f \in given : field[f] # None}
           /\ \A f \in found.taken \ found.listed : f \in Dir
<1> DEFINE taken == {f \in given : field[f] # None}
           packages == {field[f] : f \in taken}
           Holders(p) == {f \in taken : field[f] = p}
<1>1. PICK F \in [packages -> Dir \cup {None}] :
         found = [packages |-> packages, taken |-> taken, rest |-> given \ taken,
                  listed |-> taken \ {F[p] : p \in packages}]
  BY DEF IdentifyPackages
<1>2. /\ found.taken = taken /\ found.rest = given \ taken
      /\ found.listed = taken \ {F[p] : p \in packages}
  BY <1>1
<1>3. ASSUME NEW f \in found.taken \ found.listed PROVE f \in Dir
  <2>1. PICK p \in packages : f = F[p]
    BY <1>2, <1>3
  <2>2. f \in Path
    BY <1>2
  <2> HIDE DEF packages
  <2> QED BY <1>1, <2>1, <2>2, RetraceAssumption
<1> QED BY <1>2, <1>3

\* A package tracer that yields one distribution.
LEMMA PackagesAccount ==
    ASSUME NEW given \in SUBSET Path, NEW field, NEW found \in IdentifyPackages(given, field),
           NEW k, k \notin {"docker", "singularity"}, NEW more,
           NEW o, o = Outcome(<<Dist(k, found.listed, found.taken, more)>>, found.rest)
    PROVE  Accounts(given, o)
<1>1. o.rest = found.rest /\ o.dists = <<Dist(k, found.listed, found.taken, more)>>
  BY DEF Outcome
<1>2. ListedOf(o.dists) = found.listed /\ TakenOf(o.dists) = found.taken
  BY <1>1, OneDist
<1>3. /\ found.taken \subseteq given /\ found.rest = given \ found.taken
      /\ found.listed \subseteq found.taken
      /\ \A f \in found.taken \ found.listed : f \in Dir
  BY Identified
<1> QED BY <1>1, <1>2, <1>3 DEF Accounts, Follows

\* dpkg (DebTracer).
LEMMA DebAccounts ==
    ASSUME NEW h, NEW given \in SUBSET Path, NEW o \in DebTracer(h, given)
    PROVE  Accounts(given, o)
<1> DEFINE field == [f \in given |-> DpkgField(f)]
<1>1. \/ o = Nothing(given)
      \/ \E found \in IdentifyPackages(given, field) :
            o = Outcome(<<Dist("debian", found.listed, found.taken, Details(found.packages))>>,
                        found.rest)
  BY DEF DebTracer
<1> HIDE DEF field
<1> QED BY <1>1, NothingAccounts, PackagesAccount

\* rpm (RPMTracer).
LEMMA RPMAccounts ==
    ASSUME NEW h, NEW given \in SUBSET Path, NEW o \in RPMTracer(h, given)
    PROVE  Accounts(given, o)
<1> DEFINE field == [f \in given |-> RpmField(f)]
<1>1. \/ o = Nothing(given) \/ o = Crash(given)
      \/ \E found \in IdentifyPackages(given, field) :
            o = Outcome(<<Dist("redhat", found.listed, found.taken, None)>>, found.rest)
  BY DEF RPMTracer
<1> HIDE DEF field
<1> QED BY <1>1, NothingAccounts, PackagesAccount

\* Docker: every image that is found is listed (DockerTracer).
LEMMA DockerAccounts ==
    ASSUME NEW h, NEW given \in SUBSET Path, NEW o \in DockerTracer(h, given)
    PROVE  Accounts(given, o)
<1> DEFINE images == given \cap Images.docker
<1>1. \/ o = Nothing(given)
      \/ o = Outcome(<<Dist("docker", {}, images, None)>>, given \ images)
  BY DEF DockerTracer
<1>2. CASE o = Outcome(<<Dist("docker", {}, images, None)>>, given \ images)
  <2>1. o.rest = given \ images /\ o.dists = <<Dist("docker", {}, images, None)>>
    BY <1>2 DEF Outcome
  <2>2. ListedOf(o.dists) = images /\ TakenOf(o.dists) = images
    BY <2>1, OneDist
  <2> QED BY <2>1, <2>2 DEF Accounts, Follows
<1> QED BY <1>1, <1>2, NothingAccounts

\* What the tracer of conda environments keeps of the files it was given.
CondaKeeps(c, acc) ==
    /\ acc.unknown \in SUBSET Path
    /\ c.files \subseteq acc.unknown \cup acc.taken
    /\ acc.taken = UNION {e.files : e \in acc.envs}
    /\ \A e \in acc.envs : e.path \in c.envs
CondaFold == INSTANCE LeftFold WITH Op <- CondaEnv, Keeps <- CondaKeeps

\* Each environment hands on what it does not have.
LEMMA CondaKept ==
    ASSUME NEW c, NEW acc, CondaKeeps(c, acc), NEW env \in c.envs, env \in DOMAIN Conda.root
    PROVE  CondaKeeps(c, CondaEnv(acc, env))
<1> DEFINE pip == Conda.pip[env]
           found == acc.unknown \cap (Conda.meta[env] \cup PipFiles(pip))
           more == {l \in PipLocations(pip) : Conda.env[l] # env}
           new == CondaEnv(acc, env)
           entry == [path |-> env, files |-> found, pip |-> PipShow(pip)]
<1>1. /\ new.unknown = (acc.unknown \ found) \cup more
      /\ new.taken = acc.taken \cup found
      /\ new.envs = acc.envs \cup {entry}
  BY DEF CondaEnv
<1>2. entry.path = env /\ entry.files = found
  OBVIOUS
<1>3. more \subseteq Path
  BY RetraceAssumption
<1> HIDE DEF new, entry, more, found
<1>4. new.taken = UNION {e.files : e \in new.envs}
  BY <1>1, <1>2 DEF CondaKeeps
<1>5. \A e \in new.envs : e.path \in c.envs
  BY <1>1, <1>2 DEF CondaKeeps
<1>6. new.unknown \in SUBSET Path
  BY <1>1, <1>3 DEF CondaKeeps
<1>7. c.files \subseteq new.unknown \cup new.taken
  BY <1>1 DEF CondaKeeps
<1> QED BY <1>4, <1>5, <1>6, <1>7 DEF CondaKeeps, new

\* conda: what an environment took is in the distribution of its root (CondaTracer).
LEMMA CondaAccounts ==
    ASSUME NEW h, NEW given \in SUBSET Path, NEW o \in CondaTracer(h, given)
    PROVE  Accounts(given, o)
<1> DEFINE envs == {e \in DOMAIN Conda.root \cap {Conda.env[f] : f \in given} : Conda.root[e] # None}
           start == [unknown |-> given, taken |-> {}, envs |-> {}]
           c == [files |-> given, envs |-> envs]
<1>1. \/ o = Nothing(given) \/ o = Crash(given)
      \/ \E order \in SetToSeqs(envs) :
            LET acc == FoldLeft(CondaEnv, start, order)
            IN  o = Outcome(CondaDists(envs, acc), acc.unknown)
  BY DEF CondaTracer
<1>2. CASE o = Nothing(given) \/ o = Crash(given)
  BY <1>2, NothingAccounts
<1>3. ASSUME NEW order \in SetToSeqs(envs),
             o = Outcome(CondaDists(envs, FoldLeft(CondaEnv, start, order)),
                         FoldLeft(CondaEnv, start, order).unknown)
      PROVE  Accounts(given, o)
  <2>1. IsFiniteSet(envs) /\ envs \subseteq DOMAIN Conda.root
    BY TracersAssumption, FS_Subset
  <2>2. c.files = given /\ c.envs = envs
    OBVIOUS
  <2>3. CondaKeeps(c, start)
    BY DEF CondaKeeps
  <2>4. FoldLeft(CondaEnv, start, order) = CondaFold!Result(start, order)
    BY DEF FoldLeft, MapThenFoldSet, Max, CondaFold!Result, CondaFold!FoldLeft,
           CondaFold!MapThenFoldSet, CondaFold!Max
  <2> HIDE DEF envs, start, c
  <2>5. /\ Len(order) \in Nat /\ DOMAIN order = 1 .. Len(order)
        /\ \A i \in DOMAIN order : order[i] \in envs
    BY <1>3, <2>1, AllSeen
  <2>6. ASSUME NEW acc, NEW i, i \in DOMAIN order, CondaKeeps(c, acc)
        PROVE  CondaKeeps(c, CondaEnv(acc, order[i]))
    BY <2>1, <2>2, <2>5, <2>6, CondaKept
  <2>7. CondaKeeps(c, CondaFold!Result(start, order))
    BY <2>3, <2>5, <2>6, CondaFold!FoldKeeps
  <2>8. PICK acc : acc = CondaFold!Result(start, order)
    OBVIOUS
  <2>9. o.rest = acc.unknown /\ o.dists = CondaDists(envs, acc)
    BY <1>3, <2>4, <2>8 DEF Outcome
  <2>10. CondaKeeps(c, acc)
    BY <2>7, <2>8
  <2> DEFINE ds == CondaDists(envs, acc)
             T == {Conda.root[e] : e \in envs}
             roots == SetToSeq(T)
             n == Cardinality(T)
             Files(i) == UNION {e.files : e \in {x \in acc.envs : Conda.root[x.path] = roots[i]}}
  <2>11. /\ n \in Nat /\ roots \in [1..n -> T]
         /\ \A x \in T : \E i \in 1..n : roots[i] = x
    <3>1. [e \in envs |-> Conda.root[e]] \in Surjection(envs, T)
      BY DEF Surjection
    <3>2. IsFiniteSet(T)
      BY <2>1, <3>1, FS_Surjection
    <3> HIDE DEF T
    <3> QED BY <3>2, OnePlaceEach
  <2>12. /\ DOMAIN ds = 1..n
         /\ \A i \in 1..n : ds[i].kind = "conda" /\ ds[i].listed = Files(i) /\ ds[i].taken = Files(i)
    BY <2>11 DEF CondaDists, Dist
  <2> HIDE DEF ds
  <2>13. ListedOf(ds) \subseteq TakenOf(ds) /\ \A i \in 1..n : Files(i) \subseteq ListedOf(ds)
    <3> HIDE DEF Files, n
    <3> QED BY <2>12, EachListed
  <2>14. ASSUME NEW f \in acc.taken PROVE f \in ListedOf(ds)
    <3>1. PICK e \in acc.envs : f \in e.files
      BY <2>10, <2>14 DEF CondaKeeps
    <3>2. Conda.root[e.path] \in T
      BY <2>2, <2>10 DEF CondaKeeps
    <3>3. PICK i \in 1..n : roots[i] = Conda.root[e.path]
      BY <2>11, <3>2
    <3>4. f \in Files(i)
      BY <3>1, <3>3
    <3> HIDE DEF Files
    <3> QED BY <2>13, <3>4
  <2>15. /\ acc.unknown \in SUBSET Path
         /\ \A f \in given : f \in acc.unknown \cup acc.taken
    BY <2>2, <2>10 DEF CondaKeeps
  <2> QED BY <2>9, <2>13, <2>14, <2>15 DEF Accounts, Follows, ds
<1> QED BY <1>1, <1>2, <1>3

\* What the tracer of virtual environments keeps of the files it was given.
VenvPlace(f, acc) ==
    \/ f \in acc.unknown \cup acc.taken
    \/ /\ Venv.env[f] # None
       /\ Venv.env[Venv.real[f]] # None \/ Venv.real[f] \in acc.unknown \cup acc.taken
VenvKeeps(c, acc) ==
    /\ acc.unknown \in SUBSET Path
    /\ \A f \in c.files : VenvPlace(f, acc)
VenvFold == INSTANCE LeftFold WITH Op <- VenvEnv, Keeps <- VenvKeeps

\* An environment lets go only of what is below it, and follows the links out of it.
LEMMA VenvKept ==
    ASSUME NEW c, NEW acc, VenvKeeps(c, acc),
           NEW g \in Path, Venv.env[g] # None, NEW env, env = Venv.env[g]
    PROVE  VenvKeeps(c, VenvEnv(acc, env))
<1> DEFINE found == acc.unknown \cap PipFiles(Venv.pip[env])
           dropped == {f \in acc.unknown \ found : Inside(f, env)}
           targets == {Venv.real[f] : f \in {h \in dropped : ~Inside(Venv.real[h], env)}}
           more == {l \in PipLocations(Venv.pip[env]) : ~Inside(l, env)}
           new == VenvEnv(acc, env)
<1>1. /\ new.unknown = ((acc.unknown \ (found \cup dropped)) \cup targets) \cup more
      /\ new.taken = acc.taken \cup found
  BY DEF VenvEnv
<1>2. /\ dropped \subseteq acc.unknown
      /\ \A f \in dropped : Venv.env[f] = env
      /\ \A f \in dropped : Venv.env[Venv.real[f]] = env \/ Venv.real[f] \in targets
  BY DEF Inside
<1>3. targets \subseteq Path
  <2> SUFFICES ASSUME NEW f \in dropped PROVE Venv.real[f] \in Path
    OBVIOUS
  <2>1. f \in Path /\ Venv.env[f] # None
    BY <1>2 DEF VenvKeeps
  <2> QED BY <2>1, RetraceAssumption
<1>4. more \subseteq Path
  BY RetraceAssumption
<1> HIDE DEF new, found, dropped, targets, more
<1>5. new.unknown \in SUBSET Path
  BY <1>1, <1>3, <1>4 DEF VenvKeeps
<1>6. \A f \in acc.unknown \cup acc.taken : f \in new.unknown \cup new.taken \/ f \in dropped
  BY <1>1
<1>7. ASSUME NEW f \in c.files PROVE VenvPlace(f, new)
  <2>1. VenvPlace(f, acc)
    BY DEF VenvKeeps
  <2>2. CASE f \in dropped
    BY <1>1, <1>2, <2>2 DEF VenvPlace
  <2>3. CASE f \in acc.unknown \cup acc.taken /\ f \notin dropped
    BY <1>6, <2>3 DEF VenvPlace
  <2>4. CASE f \notin acc.unknown \cup acc.taken
    BY <1>2, <1>6, <2>1, <2>4 DEF VenvPlace
  <2> QED BY <2>2, <2>3, <2>4
<1> QED BY <1>5, <1>7 DEF VenvKeeps, new

\* virtualenv (VenvTracer).
LEMMA VenvAccounts ==
    ASSUME NEW h, NEW given \in SUBSET Path, NEW o \in VenvTracer(h, given)
    PROVE  Accounts(given, o)
<1> DEFINE T == {Venv.env[f] : f \in given}
           envs == T \ {None}
           start == [unknown |-> given, taken |-> {}]
           packages == {[path |-> e, pip |-> PipShow(Venv.pip[e])] : e \in envs}
           c == [files |-> given]
<1>1. \/ o = Nothing(given) \/ o = Crash(given)
      \/ \E order \in SetToSeqs(envs) :
            LET acc == FoldLeft(VenvEnv, start, order)
            IN  o = Outcome(<<Dist("venv", acc.taken, acc.taken, [envs |-> packages])>>, acc.unknown)
  BY DEF VenvTracer
<1>2. CASE o = Nothing(given) \/ o = Crash(given)
  BY <1>2, NothingAccounts
<1>3. ASSUME NEW order \in SetToSeqs(envs), NEW acc, acc = FoldLeft(VenvEnv, start, order),
             o = Outcome(<<Dist("venv", acc.taken, acc.taken, [envs |-> packages])>>, acc.unknown)
      PROVE  Accounts(given, o)
  <2>1. IsFiniteSet(envs)
    <3>1. [f \in given |-> Venv.env[f]] \in Surjection(given, T)
      BY DEF Surjection
    <3>2. IsFiniteSet(given)
      BY RetraceAssumption, FS_Subset
    <3> HIDE DEF T
    <3>3. IsFiniteSet(T)
      BY <3>1, <3>2, FS_Surjection
    <3> QED BY <3>3, FS_Subset
  <2>2. c.files = given
    OBVIOUS
  <2>3. VenvKeeps(c, start)
    BY DEF VenvKeeps, VenvPlace
  <2>4. FoldLeft(VenvEnv, start, order) = VenvFold!Result(start, order)
    BY DEF FoldLeft, MapThenFoldSet, Max, VenvFold!Result, VenvFold!FoldLeft,
           VenvFold!MapThenFoldSet, VenvFold!Max
  <2>5. \A e \in envs : \E g \in given : e = Venv.env[g] /\ Venv.env[g] # None
    OBVIOUS
  <2> HIDE DEF envs, T, start, c, packages
  <2>6. /\ Len(order) \in Nat /\ DOMAIN order = 1 .. Len(order)
        /\ \A i \in DOMAIN order : order[i] \in envs
    BY <1>3, <2>1, AllSeen
  <2>7. ASSUME NEW a, NEW i, i \in DOMAIN order, VenvKeeps(c, a)
        PROVE  VenvKeeps(c, VenvEnv(a, order[i]))
    BY <2>5, <2>6, <2>7, VenvKept
  <2>8. VenvKeeps(c, VenvFold!Result(start, order))
    BY <2>3, <2>6, <2>7, VenvFold!FoldKeeps
  <2>9. VenvKeeps(c, acc)
    BY <1>3, <2>4, <2>8
  <2>10. /\ o.rest = acc.unknown
         /\ o.dists = <<Dist("venv", acc.taken, acc.taken, [envs |-> packages])>>
    BY <1>3 DEF Outcome
  <2>11. ListedOf(o.dists) = acc.taken /\ TakenOf(o.dists) = acc.taken
    <3> DEFINE more == [envs |-> packages]
    <3> HIDE DEF more, packages, envs, start, c
    <3>1. o.dists = <<Dist("venv", acc.taken, acc.taken, more)>>
      BY <2>10 DEF more
    <3>2. ListedOf(<<Dist("venv", acc.taken, acc.taken, more)>>)
          = acc.taken \cup (IF "venv" \in {"docker", "singularity"} THEN acc.taken ELSE {})
      BY OneDist
    <3>3. TakenOf(<<Dist("venv", acc.taken, acc.taken, more)>>) = acc.taken
      BY OneDist
    <3> QED BY <3>1, <3>2, <3>3
  <2>12. o.rest \in SUBSET Path
    BY <2>9, <2>10 DEF VenvKeeps
  <2>13. ASSUME NEW f \in given PROVE Follows(f, o.rest, ListedOf(o.dists), TakenOf(o.dists))
    <3>1. VenvPlace(f, acc)
      BY <2>2, <2>9 DEF VenvKeeps
    <3> QED BY <2>10, <2>11, <3>1 DEF VenvPlace, Follows
  <2> QED BY <2>11, <2>12, <2>13 DEF Accounts
<1> QED BY <1>1, <1>2, <1>3

\* What the tracer of singularity images leaves, between two sets of paths.
SingularityKeeps(c, acc) == c.least \subseteq acc.rest /\ acc.rest \subseteq c.most
SingularityFold == INSTANCE LeftFold WITH Op <- SingularityImage, Keeps <- SingularityKeeps

\* The full form of an image name is a path as well.
LEMMA HubNameIsPath == \A f \in Path : HubName(f) \in Path
BY RetraceAssumption DEF HubName

\* A name that is no image is left over.
LEMMA SingularityRest ==
    ASSUME NEW acc, NEW f
    PROVE  SingularityImage(acc, f).rest =
             IF HubName(f) \in Images.singularity THEN acc.rest ELSE acc.rest \cup {HubName(f)}
BY DEF SingularityImage

\* Singularity: the images are listed, the others left, the one that stands for the
\* local paths among them (SingularityTracer).
LEMMA SingularityAccounts ==
    ASSUME NEW h, NEW given \in SUBSET Path, NEW o \in SingularityTracer(h, given)
    PROVE  Accounts(given, o)
<1> DEFINE images == {f \in given : HubName(f) \in Images.singularity}
           locals == {f \in given \ images : HubName(f) \notin Images.hub}
           some == IF locals = {} THEN {} ELSE {CHOOSE f \in locals : TRUE}
           left == {HubName(f) : f \in given \ (images \cup some)}
           start == [url |-> None, path |-> None, images |-> {}, rest |-> left]
<1>1. \/ o = Nothing(given)
      \/ \E order \in SetToSeqs(images \cup some) :
            LET acc == FoldLeft(SingularityImage, start, order)
            IN  o = Outcome(<<Dist("singularity", {}, images, [images |-> acc.images])>>, acc.rest)
  BY DEF SingularityTracer
<1>2. CASE o = Nothing(given)
  BY <1>2, NothingAccounts
<1>3. ASSUME NEW order \in SetToSeqs(images \cup some),
             NEW acc, acc = FoldLeft(SingularityImage, start, order),
             o = Outcome(<<Dist("singularity", {}, images, [images |-> acc.images])>>, acc.rest)
      PROVE  Accounts(given, o)
  <2>1. images \cup some \subseteq given
    OBVIOUS
  <2>2. IsFiniteSet(images \cup some)
    BY <2>1, RetraceAssumption, FS_Subset
  <2>3. left \subseteq Path
    BY HubNameIsPath
  <2>4. start.rest = left
    OBVIOUS
  <2>5. \A f \in given : f \in images \/ f \in some \/ HubName(f) \in left
    OBVIOUS
  <2>6. \A f \in some : HubName(f) \notin Images.singularity
    OBVIOUS
  <2>7. FoldLeft(SingularityImage, start, order) = SingularityFold!Result(start, order)
    BY DEF FoldLeft, MapThenFoldSet, Max, SingularityFold!Result, SingularityFold!FoldLeft,
           SingularityFold!MapThenFoldSet, SingularityFold!Max
  <2> HIDE DEF images, some, start, left
  <2>8. /\ Len(order) \in Nat /\ DOMAIN order = 1 .. Len(order)
        /\ \A i \in DOMAIN order : order[i] \in images \cup some
        /\ \A f \in images \cup some : \E i \in DOMAIN order : order[i] = f
    BY <1>3, <2>2, AllSeen
  <2>9. \A i \in DOMAIN order : HubName(order[i]) \in Path
    BY <2>1, <2>8, HubNameIsPath
  <2> DEFINE c(paths) == [least |-> paths, most |-> Path]
  <2>10. ASSUME NEW paths, NEW a, NEW i, i \in DOMAIN order, SingularityKeeps(c(paths), a)
         PROVE  SingularityKeeps(c(paths), SingularityImage(a, order[i]))
    <3>1. /\ a.rest \subseteq SingularityImage(a, order[i]).rest
          /\ SingularityImage(a, order[i]).rest \subseteq a.rest \cup {HubName(order[i])}
      BY SingularityRest
    <3> QED BY <2>9, <2>10, <3>1 DEF SingularityKeeps
  <2>11. SingularityKeeps(c(left), start)
    BY <2>3, <2>4 DEF SingularityKeeps
  <2>12. left \subseteq acc.rest /\ acc.rest \subseteq Path
    <3> HIDE DEF c
    <3>1. SingularityKeeps(c(left), SingularityFold!Result(start, order))
      BY <2>8, <2>10, <2>11, SingularityFold!FoldKeeps
    <3> QED BY <1>3, <2>7, <3>1 DEF SingularityKeeps, c
  <2>13. ASSUME NEW f \in some PROVE HubName(f) \in acc.rest
    <3>1. PICK p \in DOMAIN order : order[p] = f
      BY <2>8
    <3>2. ASSUME NEW a, SingularityKeeps(c(left), a)
          PROVE  SingularityKeeps(c({HubName(f)}), SingularityImage(a, order[p]))
      <4>1. SingularityImage(a, order[p]).rest = a.rest \cup {HubName(f)}
        BY <2>6, <3>1, SingularityRest
      <4> QED BY <2>9, <3>1, <3>2, <4>1 DEF SingularityKeeps
    <3> HIDE DEF c
    <3>3. SingularityKeeps(c({HubName(f)}), SingularityFold!Result(start, order))
      BY <2>8, <2>10, <2>11, <3>2, SingularityFold!FoldReaches
    <3> QED BY <1>3, <2>7, <3>3 DEF SingularityKeeps, c
  <2>14. /\ o.rest = acc.rest
         /\ o.dists = <<Dist("singularity", {}, images, [images |-> acc.images])>>
    BY <1>3 DEF Outcome
  <2>15. ListedOf(o.dists) = images /\ TakenOf(o.dists) = images
    <3> DEFINE more == [images |-> acc.images]
    <3> HIDE DEF more, images, locals, some, left, c
    <3>1. o.dists = <<Dist("singularity", {}, images, more)>>
      BY <2>14 DEF more
    <3>2. ListedOf(<<Dist("singularity", {}, images, more)>>)
          = {} \cup (IF "singularity" \in {"docker", "singularity"} THEN images ELSE {})
      BY OneDist
    <3>3. TakenOf(<<Dist("singularity", {}, images, more)>>) = images
      BY OneDist
    <3> QED BY <3>1, <3>2, <3>3
  <2> QED BY <2>5, <2>12, <2>13, <2>14, <2>15 DEF Accounts, Follows
<1> QED BY <1>1, <1>2, <1>3

\* The first of some places.
LEMMA FirstPlace ==
    ASSUME NEW places \in SUBSET Nat, places # {}
    PROVE  Min(places) \in places
<1> DEFINE R == OpToRel(<, Nat)
<1>1. IsWellFoundedOn(R, Nat)
  BY NatLessThanWellFounded
<1>2. \A x, y \in Nat : x < y => <<x, y>> \in R
  BY DEF OpToRel
<1> HIDE DEF R
<1>3. PICK x \in places : \A y \in places : ~ (<<y, x>> \in R)
  BY <1>1, WFMin
<1>4. ASSUME NEW y \in places PROVE x <= y
  <2>1. x \in Nat /\ y \in Nat /\ ~(y < x)
    BY <1>2, <1>3
  <2> QED BY <2>1
<1> QED BY <1>3, <1>4 DEF Min

\* The repositories that paths can belong to.
Repos == [kind : {"git", "svn"},
          path : Vcs.svn \cup Vcs.unreadable \cup {Vcs.top[DirPath(f)] : f \in Path}]
KnownAt(known, path) == \E i \in DOMAIN known : known[i].path = path

\* What the shims find for a path are repositories.
LEMMA SniffedType == ASSUME NEW f \in Path PROVE Sniffed(f) \in Seq(Repos)
<1> DEFINE dir == DirPath(f)
<1>1. SvnAt(dir) \in Seq(Repos)
  <2>1. CASE dir \in Vcs.svn \cup Vcs.unreadable
    <3>1. [kind |-> "svn", path |-> dir] \in Repos
      BY <2>1 DEF Repos
    <3> QED BY <2>1, <3>1 DEF SvnAt
  <2> QED BY <2>1 DEF SvnAt
<1>2. GitAt(dir) \in Seq(Repos)
  <2>1. [kind |-> "git", path |-> Vcs.top[dir]] \in Repos
    BY DEF Repos
  <2> QED BY <2>1 DEF GitAt
<1> HIDE DEF dir
<1>3. SvnAt(dir) \o GitAt(dir) \in Seq(Repos)
  BY <1>1, <1>2
<1> QED BY <1>3 DEF Sniffed, dir

\* A repository that is remembered takes the place of another kind at its path;
\* no path is forgotten.
RememberKeeps(paths, known) ==
    /\ known \in Seq(Repos)
    /\ \A path \in paths : KnownAt(known, path)
RememberFold == INSTANCE LeftFold WITH Op <- Remember, Keeps <- RememberKeeps

\* One repository more is known, and those before it.
LEMMA Remembered ==
    ASSUME NEW paths, NEW known, RememberKeeps(paths, known), NEW repo \in Repos
    PROVE  RememberKeeps(paths \cup {repo.path}, Remember(known, repo))
<1>1. known \in Seq(Repos) /\ \A path \in paths : KnownAt(known, path)
  BY DEF RememberKeeps
<1>2. CASE KnownAt(known, repo.path)
  <2> DEFINE new == [i \in DOMAIN known |-> IF known[i].path = repo.path THEN repo ELSE known[i]]
  <2>1. Remember(known, repo) = new
    BY <1>2 DEF Remember, KnownAt
  <2>2. new \in Seq(Repos)
    BY <1>1
  <2>3. DOMAIN new = DOMAIN known /\ \A i \in DOMAIN known : new[i].path = known[i].path
    OBVIOUS
  <2> HIDE DEF new
  <2> QED BY <1>1, <1>2, <2>1, <2>2, <2>3 DEF RememberKeeps, KnownAt
<1>3. CASE ~KnownAt(known, repo.path)
  <2> DEFINE new == Append(known, repo)
  <2>1. Remember(known, repo) = new
    BY <1>3 DEF Remember, KnownAt
  <2>2. new \in Seq(Repos)
    BY <1>1
  <2>3. /\ DOMAIN known \subseteq DOMAIN new /\ \A i \in DOMAIN known : new[i] = known[i]
        /\ Len(known) + 1 \in DOMAIN new /\ new[Len(known) + 1] = repo
    BY <1>1
  <2> HIDE DEF new
  <2> QED BY <1>1, <2>1, <2>2, <2>3 DEF RememberKeeps, KnownAt
<1> QED BY <1>2, <1>3

\* All repositories that were tried are known afterwards.
LEMMA AllRemembered ==
    ASSUME NEW known \in Seq(Repos), NEW tried \in Seq(Repos)
    PROVE  LET new == FoldLeft(Remember, known, tried) IN
           /\ new \in Seq(Repos)
           /\ \A path : KnownAt(known, path) => KnownAt(new, path)
           /\ \A p \in DOMAIN tried : KnownAt(new, tried[p].path)
<1>1. FoldLeft(Remember, known, tried) = RememberFold!Result(known, tried)
  BY DEF FoldLeft, MapThenFoldSet, Max, RememberFold!Result, RememberFold!FoldLeft,
         RememberFold!MapThenFoldSet, RememberFold!Max
<1>2. /\ Len(tried) \in Nat /\ DOMAIN tried = 1 .. Len(tried)
      /\ \A i \in DOMAIN tried : tried[i] \in Repos
  OBVIOUS
<1>3. \A paths, acc, i : i \in DOMAIN tried /\ RememberKeeps(paths, acc)
         => RememberKeeps(paths \cup {tried[i].path}, Remember(acc, tried[i]))
  BY <1>2, Remembered
<1>4. \A paths, acc, i : i \in DOMAIN tried /\ RememberKeeps(paths, acc)
         => RememberKeeps(paths, Remember(acc, tried[i]))
  BY <1>3 DEF RememberKeeps
<1>5. RememberKeeps({}, known)
  BY DEF RememberKeeps
<1>6. RememberKeeps({}, RememberFold!Result(known, tried))
  BY <1>2, <1>4, <1>5, RememberFold!FoldKeeps
<1>7. ASSUME NEW path, KnownAt(known, path)
      PROVE  KnownAt(RememberFold!Result(known, tried), path)
  <2>1. RememberKeeps({path}, known)
    BY <1>7 DEF RememberKeeps
  <2>2. RememberKeeps({path}, RememberFold!Result(known, tried))
    BY <1>2, <1>4, <2>1, RememberFold!FoldKeeps
  <2> QED BY <2>2 DEF RememberKeeps
<1>8. ASSUME NEW p \in DOMAIN tried
      PROVE  KnownAt(RememberFold!Result(known, tried), tried[p].path)
  <2>1. ASSUME NEW acc, RememberKeeps({}, acc)
        PROVE  RememberKeeps({tried[p].path}, Remember(acc, tried[p]))
    <3>1. RememberKeeps({} \cup {tried[p].path}, Remember(acc, tried[p]))
      BY <1>3, <2>1
    <3> QED BY <3>1 DEF RememberKeeps
  <2>2. RememberKeeps({tried[p].path}, RememberFold!Result(known, tried))
    BY <1>2, <1>4, <1>5, <2>1, RememberFold!FoldReaches
  <2> QED BY <2>2 DEF RememberKeeps
<1> QED BY <1>1, <1>6, <1>7, <1>8 DEF RememberKeeps

\* Whatever repository a path is found to belong to is among those that are known.
VCSKeeps(paths, acc) ==
    /\ acc = [known |-> acc.known, repo |-> acc.repo, failed |-> acc.failed]
    /\ acc.known \in Seq(Repos)
    /\ DOMAIN acc.repo \subseteq paths
    /\ \A f \in DOMAIN acc.repo : KnownAt(acc.known, acc.repo[f])
VCSFold == INSTANCE LeftFold WITH Op <- ResolveFile, Keeps <- VCSKeeps

\* A path is assigned a repository that is known (_resolve_file).
LEMMA VCSKept ==
    ASSUME NEW paths \in SUBSET Path, NEW acc, VCSKeeps(paths, acc), NEW f \in paths
    PROVE  VCSKeeps(paths, ResolveFile(acc, f))
<1> DEFINE places == {i \in DOMAIN acc.known : acc.known[i].path = DirPath(f)}
           Owning(repos) == {i \in DOMAIN repos : Owns(repos[i], f)}
           owners == Owning(acc.known)
           sniffed == Sniffed(f)
           new == Owning(sniffed)
           tried == IF new # {} /\ sniffed[Min(new)].kind = "svn" THEN <<sniffed[Min(new)]>> ELSE sniffed
           Found(r) == [g \in DOMAIN acc.repo \cup {f} |-> IF g = f THEN r.path ELSE acc.repo[g]]
           next == ResolveFile(acc, f)
           K == FoldLeft(Remember, acc.known, tried)
<1>1. /\ acc = [known |-> acc.known, repo |-> acc.repo, failed |-> acc.failed]
      /\ acc.known \in Seq(Repos)
      /\ DOMAIN acc.repo \subseteq paths
      /\ \A g \in DOMAIN acc.repo : KnownAt(acc.known, acc.repo[g])
  BY DEF VCSKeeps
<1>2. sniffed \in Seq(Repos)
  BY SniffedType
<1>3. places \in SUBSET Nat /\ owners \in SUBSET Nat /\ new \in SUBSET Nat
  BY <1>1, <1>2
<1>4. ASSUME NEW i \in DOMAIN acc.known, next = [acc EXCEPT !.repo = Found(acc.known[i])]
      PROVE  VCSKeeps(paths, next)
  <2>1. /\ next = [known |-> acc.known, repo |-> Found(acc.known[i]), failed |-> acc.failed]
    BY <1>1, <1>4
  <2> HIDE DEF next
  <2>2. /\ next.known = acc.known /\ next.repo = Found(acc.known[i])
        /\ next = [known |-> next.known, repo |-> next.repo, failed |-> next.failed]
    BY <2>1
  <2>3. KnownAt(acc.known, acc.known[i].path)
    BY DEF KnownAt
  <2>4. /\ DOMAIN Found(acc.known[i]) = DOMAIN acc.repo \cup {f}
        /\ \A g \in DOMAIN acc.repo \cup {f} : KnownAt(acc.known, Found(acc.known[i])[g])
    BY <1>1, <2>3
  <2> HIDE DEF Found
  <2> QED BY <1>1, <2>2, <2>4 DEF VCSKeeps
<1>5. ASSUME places # {} PROVE VCSKeeps(paths, next)
  <2>1. Min(places) \in places
    BY <1>3, <1>5, FirstPlace
  <2>2. next = [acc EXCEPT !.repo = Found(acc.known[Min(places)])]
    BY <1>5 DEF ResolveFile
  <2> HIDE DEF next, Found
  <2> QED BY <1>4, <2>1, <2>2
<1>6. ASSUME places = {} /\ owners # {} PROVE VCSKeeps(paths, next)
  <2>1. Min(owners) \in owners
    BY <1>3, <1>6, FirstPlace
  <2>2. next = [acc EXCEPT !.repo = Found(acc.known[Min(owners)])]
    BY <1>6 DEF ResolveFile
  <2> HIDE DEF next, Found
  <2> QED BY <1>4, <2>1, <2>2
<1>7. ASSUME places = {} /\ owners = {} PROVE VCSKeeps(paths, next)
  <2> DEFINE R == IF new # {} THEN Found(sniffed[Min(new)]) ELSE acc.repo
             bad == acc.failed \/ \E i \in DOMAIN tried : Unreadable(tried[i])
  <2>1. next = [known |-> K, repo |-> R, failed |-> bad]
    BY <1>7 DEF ResolveFile
  <2>2. new # {} => Min(new) \in DOMAIN sniffed
    BY <1>3, FirstPlace
  <2>3. /\ tried \in Seq(Repos)
        /\ new # {} => \E p \in DOMAIN tried : tried[p] = sniffed[Min(new)]
    <3>1. CASE new # {} /\ sniffed[Min(new)].kind = "svn"
      <4>1. tried = <<sniffed[Min(new)]>>
        BY <3>1
      <4>2. sniffed[Min(new)] \in Repos
        BY <1>2, <2>2, <3>1
      <4> HIDE DEF tried, sniffed, new
      <4> QED BY <4>1, <4>2
    <3>2. CASE ~(new # {} /\ sniffed[Min(new)].kind = "svn")
      <4>1. tried = sniffed
        BY <3>2
      <4> HIDE DEF tried, sniffed, new
      <4> QED BY <1>2, <2>2, <4>1
    <3> QED BY <3>1, <3>2
  <2> HIDE DEF tried, sniffed, new, next, bad
  <2>4. /\ K \in Seq(Repos)
        /\ \A path : KnownAt(acc.known, path) => KnownAt(K, path)
        /\ \A p \in DOMAIN tried : KnownAt(K, tried[p].path)
    BY <1>1, <2>3, AllRemembered
  <2> HIDE DEF K
  <2>5. DOMAIN R \subseteq paths /\ \A g \in DOMAIN R : KnownAt(K, R[g])
    <3>1. CASE new # {}
      <4>1. R = Found(sniffed[Min(new)])
        BY <3>1
      <4>2. KnownAt(K, sniffed[Min(new)].path)
        BY <2>3, <2>4, <3>1
      <4> HIDE DEF R
      <4> QED BY <1>1, <2>4, <4>1, <4>2
    <3>2. CASE new = {}
      <4>1. R = acc.repo
        BY <3>2
      <4> HIDE DEF R
      <4> QED BY <1>1, <2>4, <4>1
    <3> QED BY <3>1, <3>2
  <2> HIDE DEF R
  <2>6. /\ next.known = K /\ next.repo = R
        /\ next = [known |-> next.known, repo |-> next.repo, failed |-> next.failed]
    BY <2>1
  <2> QED BY <2>4, <2>5, <2>6 DEF VCSKeeps
<1> QED BY <1>5, <1>6, <1>7 DEF next

\* Distributions after others.
LEMMA Together ==
    ASSUME NEW S, NEW T, NEW ds \in Seq(S), NEW es \in Seq(T)
    PROVE  /\ ListedOf(ds \o es) = ListedOf(ds) \cup ListedOf(es)
           /\ TakenOf(ds \o es) = TakenOf(ds) \cup TakenOf(es)
<1> DEFINE Lists(d) == d.listed \cup (IF d.kind \in {"docker", "singularity"} THEN d.taken ELSE {})
<1>1. /\ \A i \in DOMAIN ds : i \in DOMAIN (ds \o es) /\ (ds \o es)[i] = ds[i]
      /\ \A i \in DOMAIN es : /\ Len(ds) + i \in DOMAIN (ds \o es)
                              /\ (ds \o es)[Len(ds) + i] = es[i]
      /\ \A i \in DOMAIN (ds \o es) : \/ i \in DOMAIN ds /\ (ds \o es)[i] = ds[i]
                                      \/ \E j \in DOMAIN es : (ds \o es)[i] = es[j]
  <2>1. Len(ds) \in Nat /\ Len(es) \in Nat /\ DOMAIN ds = 1..Len(ds) /\ DOMAIN es = 1..Len(es)
    OBVIOUS
  <2>2. DOMAIN (ds \o es) = 1..(Len(ds) + Len(es))
    BY <2>1
  <2>3. \A i \in 1..(Len(ds) + Len(es)) :
           (ds \o es)[i] = IF i <= Len(ds) THEN ds[i] ELSE es[i - Len(ds)]
    BY <2>1
  <2>4. ASSUME NEW i \in 1..(Len(ds) + Len(es)), i \notin DOMAIN ds
        PROVE  \E j \in DOMAIN es : (ds \o es)[i] = es[j]
    <3>1. i - Len(ds) \in DOMAIN es /\ ~(i <= Len(ds))
      BY <2>1, <2>4
    <3> QED BY <2>3, <3>1
  <2>5. ASSUME NEW i \in DOMAIN es
        PROVE  Len(ds) + i \in DOMAIN (ds \o es) /\ (ds \o es)[Len(ds) + i] = es[i]
    <3>1. Len(ds) + i \in 1..(Len(ds) + Len(es)) /\ ~(Len(ds) + i <= Len(ds)) /\ (Len(ds) + i) - Len(ds) = i
      BY <2>1
    <3> QED BY <2>2, <2>3, <3>1
  <2>6. \A i \in DOMAIN ds : i \in DOMAIN (ds \o es) /\ (ds \o es)[i] = ds[i]
    BY <2>1, <2>2, <2>3
  <2> QED BY <2>2, <2>4, <2>5, <2>6
<1>2. \A f : /\ f \in ListedOf(ds) <=> \E i \in DOMAIN ds : f \in Lists(ds[i])
             /\ f \in ListedOf(es) <=> \E i \in DOMAIN es : f \in Lists(es[i])
             /\ f \in ListedOf(ds \o es) <=> \E i \in DOMAIN (ds \o es) : f \in Lists((ds \o es)[i])
  BY DEF ListedOf
<1>3. \A f : /\ f \in TakenOf(ds) <=> \E i \in DOMAIN ds : f \in ds[i].taken
             /\ f \in TakenOf(es) <=> \E i \in DOMAIN es : f \in es[i].taken
             /\ f \in TakenOf(ds \o es) <=> \E i \in DOMAIN (ds \o es) : f \in (ds \o es)[i].taken
  BY DEF TakenOf
<1> HIDE DEF Lists
<1> DEFINE both == ds \o es
<1> HIDE DEF both
<1>4. /\ \A i \in DOMAIN ds : i \in DOMAIN both /\ both[i] = ds[i]
      /\ \A i \in DOMAIN es : \E j \in DOMAIN both : both[j] = es[i]
      /\ \A i \in DOMAIN both : \/ i \in DOMAIN ds /\ both[i] = ds[i]
                                \/ \E j \in DOMAIN es : both[i] = es[j]
  BY <1>1 DEF both
<1>5. \A f : f \in ListedOf(both) <=> f \in ListedOf(ds) \cup ListedOf(es)
  <2>1. \A f : f \in ListedOf(both) <=> \E i \in DOMAIN both : f \in Lists(both[i])
    BY <1>2 DEF both
  <2> QED BY <1>2, <1>4, <2>1
<1>6. \A f : f \in TakenOf(both) <=> f \in TakenOf(ds) \cup TakenOf(es)
  <2>1. \A f : f \in TakenOf(both) <=> \E i \in DOMAIN both : f \in both[i].taken
    BY <1>3 DEF both
  <2> QED BY <1>3, <1>4, <2>1
<1>7. ListedOf(both) = ListedOf(ds) \cup ListedOf(es)
  BY <1>5
<1>8. TakenOf(both) = TakenOf(ds) \cup TakenOf(es)
  BY <1>6
<1> QED BY <1>7, <1>8 DEF both

\* The kind under which a path's repository is known.
KindIn(acc, f) == acc.known[CHOOSE i \in DOMAIN acc.known : acc.known[i].path = acc.repo[f]].kind

\* The distribution of one kind of repository, for paths found in known ones.
LEMMA VCSDistOf ==
    ASSUME NEW acc, NEW found, found.listed \subseteq found.taken, NEW kind \in {"git", "svn"}
    PROVE  /\ \E S : VCSDist(acc, found, kind) \in Seq(S)
           /\ ListedOf(VCSDist(acc, found, kind)) = {f \in found.listed : KindIn(acc, f) = kind}
           /\ TakenOf(VCSDist(acc, found, kind)) = {f \in found.taken : KindIn(acc, f) = kind}
<1> DEFINE ds == VCSDist(acc, found, kind)
           listed == {f \in found.listed : KindIn(acc, f) = kind}
           taken == {f \in found.taken : KindIn(acc, f) = kind}
           d == Dist(kind, listed, taken, [repos |-> {acc.repo[f] : f \in taken}])
<1>1. ds = IF taken = {} THEN <<>> ELSE <<d>>
  BY DEF VCSDist, KindIn
<1>2. listed \subseteq taken
  OBVIOUS
<1>3. ListedOf(<<d>>) = listed /\ TakenOf(<<d>>) = taken
  BY OneDist
<1>4. ListedOf(<<>>) = {} /\ TakenOf(<<>>) = {}
  BY DEF ListedOf, TakenOf
<1>5. <<d>> \in Seq({d}) /\ <<>> \in Seq({d})
  <2> HIDE DEF d
  <2> QED OBVIOUS
<1> DEFINE Goal == /\ \E S : ds \in Seq(S)
                   /\ ListedOf(ds) = listed
                   /\ TakenOf(ds) = taken
<1>6. Goal
  <2> HIDE DEF ds, listed, taken, d
  <2> QED BY <1>1, <1>2, <1>3, <1>4, <1>5
<1> QED BY <1>6

\* git and svn: what was assigned is in the distribution of its kind (VCSTracer).
LEMMA VCSAccounts ==
    ASSUME NEW h, NEW given \in SUBSET Path, NEW o \in VCSTracer(h, given)
    PROVE  Accounts(given, o)
<1> DEFINE versioned == {f \in given : Sniffed(f) # <<>> \/ \E d \in Dir : <<d, f>> \in Vcs.beside}
           start == [known |-> <<>>, repo |-> [f \in {} |-> None], failed |-> FALSE]
           Field(acc) == [f \in given |-> IF f \in DOMAIN acc.repo THEN acc.repo[f] ELSE None]
<1>1. \E order \in SetToSeqs(versioned) :
         \/ o = Crash(given) \/ o = Nothing(given)
         \/ \E found \in IdentifyPackages(given, Field(ResolveFiles(order))) :
               LET acc == ResolveFiles(order) IN
               o = Outcome(VCSDist(acc, found, "git") \o VCSDist(acc, found, "svn"), found.rest)
  BY DEF VCSTracer
<1>2. ASSUME NEW order \in SetToSeqs(versioned), NEW acc, acc = ResolveFiles(order),
             NEW found \in IdentifyPackages(given, Field(acc)),
             o = Outcome(VCSDist(acc, found, "git") \o VCSDist(acc, found, "svn"), found.rest)
      PROVE  Accounts(given, o)
  <2>1. IsFiniteSet(versioned) /\ versioned \subseteq given
    BY RetraceAssumption, FS_Subset
  <2>2. VCSKeeps(given, start)
    <3>1. <<>> \in Seq(Repos)
      OBVIOUS
    <3> QED BY <3>1 DEF VCSKeeps
  <2>3. ResolveFiles(order) = VCSFold!Result(start, order)
    BY DEF ResolveFiles, FoldLeft, MapThenFoldSet, Max, VCSFold!Result, VCSFold!FoldLeft,
           VCSFold!MapThenFoldSet, VCSFold!Max
  <2> HIDE DEF versioned, start
  <2>4. /\ Len(order) \in Nat /\ DOMAIN order = 1 .. Len(order)
        /\ \A i \in DOMAIN order : order[i] \in given
    BY <1>2, <2>1, AllSeen
  <2>5. ASSUME NEW a, NEW i, i \in DOMAIN order, VCSKeeps(given, a)
        PROVE  VCSKeeps(given, ResolveFile(a, order[i]))
    BY <2>4, <2>5, VCSKept
  <2>6. VCSKeeps(given, VCSFold!Result(start, order))
    BY <2>2, <2>4, <2>5, VCSFold!FoldKeeps
  <2>7. VCSKeeps(given, acc)
    BY <1>2, <2>3, <2>6
  <2> DEFINE field == Field(acc)
  <2>8. \A f \in given : field[f] # None => f \in DOMAIN acc.repo
    OBVIOUS
  <2> HIDE DEF field, Field
  <2>9. /\ found.taken \subseteq given /\ found.rest = given \ found.taken
        /\ found.listed \subseteq found.taken
        /\ found.taken = {f \in given : field[f] # None}
        /\ \A f \in found.taken \ found.listed : f \in Dir
    BY <1>2, Identified DEF field
  <2>10. ASSUME NEW f \in found.taken PROVE KindIn(acc, f) \in {"git", "svn"}
    <3>1. KnownAt(acc.known, acc.repo[f])
      BY <2>7, <2>8, <2>9 DEF VCSKeeps
    <3>2. (CHOOSE i \in DOMAIN acc.known : acc.known[i].path = acc.repo[f]) \in DOMAIN acc.known
      BY <3>1 DEF KnownAt
    <3>3. \A i \in DOMAIN acc.known : acc.known[i] \in Repos
      BY <2>7 DEF VCSKeeps
    <3>4. \A r \in Repos : r.kind \in {"git", "svn"}
      BY DEF Repos
    <3> QED BY <3>2, <3>3, <3>4 DEF KindIn
  <2> DEFINE G == VCSDist(acc, found, "git")
             V == VCSDist(acc, found, "svn")
  <2>11. /\ \E S : G \in Seq(S)
         /\ ListedOf(G) = {f \in found.listed : KindIn(acc, f) = "git"}
         /\ TakenOf(G) = {f \in found.taken : KindIn(acc, f) = "git"}
    BY <2>9, VCSDistOf
  <2>12. /\ \E S : V \in Seq(S)
         /\ ListedOf(V) = {f \in found.listed : KindIn(acc, f) = "svn"}
         /\ TakenOf(V) = {f \in found.taken : KindIn(acc, f) = "svn"}
    BY <2>9, VCSDistOf
  <2>13. o.dists = G \o V /\ o.rest = found.rest
    BY <1>2 DEF Outcome
  <2> HIDE DEF G, V
  <2>14. ListedOf(o.dists) = ListedOf(G) \cup ListedOf(V) /\ TakenOf(o.dists) = TakenOf(G) \cup TakenOf(V)
    <3>1. PICK S, T : G \in Seq(S) /\ V \in Seq(T)
      BY <2>11, <2>12
    <3>2. ListedOf(G \o V) = ListedOf(G) \cup ListedOf(V) /\ TakenOf(G \o V) = TakenOf(G) \cup TakenOf(V)
      BY <3>1, Together
    <3> QED BY <2>13, <3>2
  <2>15. ListedOf(o.dists) = found.listed /\ TakenOf(o.dists) = found.taken
    <3>1. ListedOf(o.dists) = found.listed
      BY <2>9, <2>10, <2>11, <2>12, <2>14
    <3>2. TakenOf(o.dists) = found.taken
      BY <2>10, <2>11, <2>12, <2>14
    <3> QED BY <3>1, <3>2
  <2> QED BY <2>9, <2>13, <2>15 DEF Accounts, Follows
<1>3. CASE o = Crash(given) \/ o = Nothing(given)
  BY <1>3, NothingAccounts
<1> HIDE DEF Field, versioned
<1> QED BY <1>1, <1>2, <1>3

\* The inductive invariant: every path that was given is somewhere, in each phase
\* and between any two tracers; only a command that gave up has counted to the end.
RetraceFollowed ==
    /\ RetraceTypeOK
    /\ \E S : dists \in Seq(S)
    /\ rPhase # "unsettled" => niter <= MaxIter
    /\ \A f \in input : Follows(f, consider, ListedOf(dists), TakenOf(dists))

\* Every tracer accounts for the paths that it gets.
LEMMA TracerAccounts ==
    ASSUME NEW t, NEW h, NEW paths \in SUBSET Path, NEW o \in Trace(t, h, paths)
    PROVE  Accounts(paths, o)
BY DebAccounts, RPMAccounts, CondaAccounts, VenvAccounts, VCSAccounts, DockerAccounts,
   SingularityAccounts DEF Trace

\* A path that was followed so far is followed by what the next tracer promises.
LEMMA StillFollowed ==
    ASSUME NEW f \in Path, NEW held, NEW given \in SUBSET held, NEW l, NEW t, Follows(f, held, l, t),
           NEW rest, NEW lo, NEW to, lo \subseteq to,
           \A g \in given : Follows(g, rest, lo, to)
    PROVE  Follows(f, rest \cup (held \ given), l \cup lo, t \cup to)
<1> DEFINE held2 == rest \cup (held \ given)
           l2 == l \cup lo
           t2 == t \cup to
           Goal == Follows(f, held2, l2, t2)
<1>1. /\ \A g \in held : g \in held2 \/ g \in given
      /\ \A g \in rest \cup lo : g \in held2 \cup l2
      /\ \A g \in rest \cup to : g \in held2 \cup t2
      /\ l \subseteq l2 /\ t \subseteq t2 /\ to \subseteq t2
  OBVIOUS
<1> HIDE DEF held2, l2, t2
<1>2. ASSUME f \in held \cup l PROVE Goal
  BY <1>1, <1>2 DEF Follows
<1>3. ASSUME HubName(f) \in held \cup l PROVE Goal
  <2>1. CASE f \in DOMAIN Images.url
    <3> DEFINE g == HubName(f)
    <3>1. g \notin Dir /\ HubName(g) = g /\ Venv.env[g] = None
      BY <2>1, RetraceAssumption DEF HubName
    <3>2. g \in held2 \cup l2 \/ g \in given
      BY <1>1, <1>3
    <3>3. CASE g \in given
      <4>1. Follows(g, rest, lo, to)
        BY <3>3
      <4> HIDE DEF g
      <4>2. g \in rest \cup lo
        BY <3>1, <4>1 DEF Follows
      <4> QED BY <1>1, <4>2 DEF Follows, g
    <3> QED BY <3>2, <3>3 DEF Follows
  <2>2. CASE f \notin DOMAIN Images.url
    BY <1>2, <1>3, <2>2 DEF HubName
  <2> QED BY <2>1, <2>2
<1>4. ASSUME f \in Dir \cap t PROVE Goal
  BY <1>1, <1>4 DEF Follows
<1>5. ASSUME Venv.env[f] # None, Venv.env[Venv.real[f]] # None \/ Venv.real[f] \in held \cup t PROVE Goal
  <2> DEFINE r == Venv.real[f]
  <2>1. r \in Path /\ HubName(r) = r
    BY <1>5, RetraceAssumption DEF HubName
  <2>2. CASE Venv.env[r] # None
    BY <1>5, <2>2 DEF Follows
  <2>3. CASE r \in t \/ r \in held2
    BY <1>1, <1>5, <2>3 DEF Follows
  <2>4. CASE r \in given
    <3>1. Follows(r, rest, lo, to)
      BY <2>4
    <3>2. Venv.env[r] # None \/ r \in rest \cup to
      <4> HIDE DEF r
      <4> QED BY <2>1, <3>1 DEF Follows
    <3> QED BY <1>1, <1>5, <3>2 DEF Follows
  <2> QED BY <1>1, <1>5, <2>2, <2>3, <2>4
<1> HIDE DEF Goal
<1>6. Goal
  BY <1>2, <1>3, <1>4, <1>5 DEF Follows
<1> QED BY <1>6 DEF Goal, held2, l2, t2

\* Each step of "reproman retrace" keeps the places of all paths known.
LEMMA RetraceFollows ==
    ASSUME RetraceFollowed, [RetraceNext]_retraceVars PROVE RetraceFollowed'
<1>1. Len(Tracers) = 7 /\ MaxIter = 10
  BY DEF Tracers, MaxIter
<1>2. /\ \E S : dists \in Seq(S)
      /\ \A f \in input : Follows(f, consider, ListedOf(dists), TakenOf(dists))
  BY DEF RetraceFollowed
<1>3. RetraceTypeOK
  BY DEF RetraceFollowed
<1>4. rPhase # "unsettled" => niter <= MaxIter
  BY DEF RetraceFollowed
<1>5. CASE Retrace
  <2>1. input' \subseteq Path
    BY <1>5, RetraceAssumption DEF Retrace, Normal, kSubset
  <2>2. /\ consider' = input' /\ toTrace' = input' /\ rPhase' = "round" /\ host' \in Host
        /\ UNCHANGED <<processed, niter, at, before, dists>>
        /\ rPhase = "idle"
    BY <1>5 DEF Retrace
  <2>3. RetraceTypeOK'
    BY <1>3, <2>1, <2>2 DEF RetraceTypeOK
  <2>4. \A f \in input' : Follows(f, consider', ListedOf(dists'), TakenOf(dists'))
    BY <2>2 DEF Follows
  <2> QED BY <1>2, <1>3, <1>4, <2>2, <2>3, <2>4 DEF RetraceFollowed
<1>6. CASE NewRound
  <2>1. /\ rPhase = "round" /\ niter' = niter + 1 /\ at' = 1
        /\ rPhase' = IF niter' > MaxIter THEN "unsettled" ELSE "trace"
        /\ UNCHANGED <<host, input, consider, toTrace, processed, dists>>
    BY <1>6 DEF NewRound, files
  <2>2. niter \in 0..10
    <3>1. niter \in 0..11
      BY <1>1, <1>3 DEF RetraceTypeOK
    <3>2. niter <= 10
      BY <1>1, <1>4, <2>1
    <3> QED BY <3>1, <3>2
  <2>3. /\ niter' \in 0..11 /\ rPhase' \in {"unsettled", "trace"}
        /\ rPhase' # "unsettled" => niter' <= 10
    <3>1. niter' \in 0..11
      BY <2>1, <2>2
    <3>2. rPhase' = IF niter' > 10 THEN "unsettled" ELSE "trace"
      BY <1>1, <2>1
    <3> QED BY <3>1, <3>2
  <2>4. RetraceTypeOK'
    <3> DEFINE paths == {input, consider, toTrace, processed}
    <3>1. paths' = paths
      BY <2>1
    <3>2. (\A p \in paths : p \subseteq Path)'
      BY <1>2, <1>3, <1>4, <3>1 DEF RetraceTypeOK
    <3> QED BY <1>1, <1>2, <1>3, <1>4, <2>1, <2>3, <3>2 DEF RetraceTypeOK
  <2> QED BY <1>1, <1>2, <1>3, <1>4, <2>1, <2>3, <2>4 DEF RetraceFollowed
<1>7. CASE RunTracer
  <2>1. PICK o \in IF Given = {} THEN {Nothing({})} ELSE Trace(Tracers[at], host, Given) :
            /\ dists' = dists \o o.dists
            /\ processed' = processed \cup (Given \ o.rest)
            /\ toTrace' = o.rest
            /\ consider' = toTrace' \cup (consider \ Given)
            /\ rPhase' = IF o.failed THEN "error" ELSE rPhase
    BY <1>7 DEF RunTracer
  <2>2. /\ at' = at + 1 /\ at <= 7 /\ rPhase = "trace"
        /\ host' = host /\ input' = input /\ niter' = niter
    BY <1>1, <1>7 DEF RunTracer
  <2>3. Given \subseteq consider /\ consider \subseteq Path /\ processed \subseteq Path /\ input \subseteq Path
    BY <1>2, <1>3, <1>4 DEF Given, RetraceTypeOK
  <2>4. Accounts(Given, o)
    <3>1. CASE Given = {}
      <4>1. o = Nothing(Given)
        BY <2>1, <3>1
      <4> QED BY <2>3, <4>1, NothingAccounts
    <3>2. CASE Given # {}
      <4>1. Given \in SUBSET Path /\ o \in Trace(Tracers[at], host, Given)
        BY <2>1, <2>3, <3>2
      <4> QED BY <4>1, TracerAccounts
    <3> QED BY <3>1, <3>2
  <2>5. GoodDists(o.dists)
    <3>1. CASE Given = {}
      <4>1. o.dists = <<>>
        BY <2>1, <3>1 DEF Nothing, Outcome
      <4> QED BY <4>1, NothingIsGood
    <3>2. CASE Given # {}
      <4>1. o \in Trace(Tracers[at], host, Given)
        BY <2>1, <3>2
      <4> QED BY <4>1, DebGood, RPMGood, CondaGood, VenvGood, VCSGood, DockerGood,
                 SingularityGood DEF Trace
    <3> QED BY <3>1, <3>2
  <2>6. PICK ds, es : ds = dists /\ es = o.dists
    OBVIOUS
  <2>7. PICK S, T : ds \in Seq(S) /\ es \in Seq(T)
    BY <1>2, <1>3, <1>4, <2>5, <2>6 DEF GoodDists
  <2>8. /\ ListedOf(dists') = ListedOf(dists) \cup ListedOf(o.dists)
        /\ TakenOf(dists') = TakenOf(dists) \cup TakenOf(o.dists)
        /\ dists' \in Seq(S \cup T)
    <3>1. dists' = ds \o es
      BY <2>1, <2>6
    <3>2. /\ ListedOf(ds \o es) = ListedOf(ds) \cup ListedOf(es)
          /\ TakenOf(ds \o es) = TakenOf(ds) \cup TakenOf(es)
      BY <2>7, Together
    <3>3. ds \in Seq(S \cup T) /\ es \in Seq(S \cup T)
      BY <2>7
    <3>4. ds \o es \in Seq(S \cup T)
      BY <3>3
    <3> QED BY <2>6, <3>1, <3>2, <3>4
  <2>9. ASSUME NEW f \in input
        PROVE  Follows(f, consider', ListedOf(dists'), TakenOf(dists'))
    <3>1. f \in Path /\ Follows(f, consider, ListedOf(dists), TakenOf(dists))
      BY <1>2, <1>3, <1>4, <2>3
    <3>2. /\ ListedOf(o.dists) \subseteq TakenOf(o.dists)
          /\ \A g \in Given : Follows(g, o.rest, ListedOf(o.dists), TakenOf(o.dists))
      BY <2>4 DEF Accounts
    <3>3. Follows(f, o.rest \cup (consider \ Given), ListedOf(dists) \cup ListedOf(o.dists),
                  TakenOf(dists) \cup TakenOf(o.dists))
      BY <2>3, <3>1, <3>2, StillFollowed
    <3> QED BY <2>1, <2>8, <3>3
  <2>10. RetraceTypeOK'
    <3>1. o.rest \subseteq Path
      BY <2>4 DEF Accounts
    <3> QED BY <1>1, <1>2, <1>3, <1>4, <2>1, <2>2, <2>3, <3>1 DEF RetraceTypeOK
  <2>11. \A f \in input' : Follows(f, consider', ListedOf(dists'), TakenOf(dists'))
    BY <2>2, <2>9
  <2>12. (rPhase # "unsettled" => niter <= MaxIter)'
    BY <1>2, <1>3, <1>4, <2>2
  <2> QED BY <2>8, <2>10, <2>11, <2>12 DEF RetraceFollowed
<1>8. CASE EndRound
  <2>1. RetraceTypeOK'
    BY <1>8, <1>2, <1>3, <1>4 DEF EndRound, RetraceTypeOK, files
  <2> QED BY <1>8, <1>2, <1>3, <1>4, <2>1 DEF EndRound, files, RetraceFollowed
<1>9. CASE UNCHANGED retraceVars
  <2>1. RetraceTypeOK'
    BY <1>9, <1>2, <1>3, <1>4 DEF retraceVars, RetraceTypeOK, files
  <2> QED BY <1>9, <1>2, <1>3, <1>4, <2>1 DEF retraceVars, files, RetraceFollowed
<1> QED BY <1>5, <1>6, <1>7, <1>8, <1>9 DEF RetraceNext

\* The places of all paths, as an invariant of "reproman retrace".
THEOREM RetraceFollowedInvariant == RetraceSpec => []RetraceFollowed
<1>1. RetraceInit => RetraceFollowed
  <2> SUFFICES ASSUME RetraceInit PROVE RetraceFollowed
    OBVIOUS
  <2>1. RetraceTypeOK
    BY DEF RetraceInit, RetraceTypeOK, Tracers, MaxIter
  <2>2. dists \in Seq({})
    BY DEF RetraceInit
  <2> QED BY <2>1, <2>2 DEF RetraceInit, RetraceFollowed, MaxIter
<1> QED BY <1>1, RetraceFollows, PTL DEF RetraceSpec

\* The variables of "reproman retrace" keep their types: the tracers leave paths
\* only, and the rounds end at the limit (identify_distributions).
THEOREM RetraceType == RetraceSpec => []RetraceTypeOK
<1>1. RetraceFollowed => RetraceTypeOK
  BY DEF RetraceFollowed
<1> QED BY <1>1, RetraceFollowedInvariant, PTL

\* No path that was given vanishes, for any files, packages, environments,
\* repositories and images, however many rounds there are: each is listed, left
\* over, a directory by which a package was found, or followed to what it links to.
THEOREM AccountedCorrect == RetraceSpec => []Accounted
<1>1. RetraceFollowed => Accounted
  <2> SUFFICES ASSUME RetraceFollowed, NEW f \in input
               PROVE  \/ Kept(f)
                      \/ f \in Dir \cap Taken
                      \/ /\ Venv.env[f] # None
                         /\ \/ Venv.env[Venv.real[f]] # None
                            \/ Venv.real[f] \in Taken \cup consider
    BY DEF Accounted
  <2>1. Listed = ListedOf(dists) /\ Taken = TakenOf(dists)
    BY DEF Listed, Taken, ListedOf, TakenOf
  <2>2. Follows(f, consider, Listed, Taken)
    BY <2>1 DEF RetraceFollowed
  <2> QED BY <2>2 DEF Follows, Kept
<1> QED BY <1>1, RetraceFollowedInvariant, PTL
=============================================================================
