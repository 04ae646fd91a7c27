-------------------------------- MODULE Diff --------------------------------
(***************************************************************************)
(* How specifications are compared: SpecObject.compare(), subtraction of   *)
(* distributions, and "reproman diff" with and without --satisfies.        *)
(*                                                                         *)
(* A package has a name, a detail (its architecture or build) and a        *)
(* version; the last two may be None, here Unstated: less specific.        *)
(***************************************************************************)
EXTENDS Naturals, Sequences

CONSTANTS Env,      \* the specifications that are compared
          Package,  \* their packages: records of name, detail and version
          Unstated

ASSUME DiffAssumption ==
    /\ Unstated # 0
    /\ \A p \in Package : p = [name |-> p.name, detail |-> p.detail, version |-> p.version]
    /\ \A e \in Env : \A i \in DOMAIN e.dists : e.dists[i].packages \in Seq(Package)

VARIABLES request,  \* the two specifications and whether --satisfies is given
          status,   \* what diff() or satisfies() returned: its exit status
          report    \* the packages that it shows for the first and the second

diffVars == <<request, status, report>>

Fields == {"name", "detail", "version"}
Set(packages) == {packages[i] : i \in DOMAIN packages}
-----------------------------------------------------------------------------
(* SpecObject *)

\* Mutant of SatisfiedBy: a value that the other does not know is accepted.
SatisfiedByUnknown(p, q) == \A f \in Fields : p[f] = Unstated \/ q[f] = Unstated \/ p[f] = q[f]
\* _satisfied_by() of packages: what p says q says too.
SatisfiedBy(p, q) == \A f \in Fields : p[f] = Unstated \/ p[f] = q[f]
IdenticalTo(p, q) == \A f \in Fields : p[f] = q[f]

\* A package and a distribution; two distributions; what the second lacks.
AnySatisfies(p, packages) == \E q \in packages : SatisfiedBy(p, q)
AllSatisfied(packages, others) == \A p \in packages : AnySatisfies(p, others)
Minus(packages, others) == {p \in packages : ~AnySatisfies(p, others)}

\* _diff_cmp_id, _diff_vals
CmpId(p) == <<p.name, p.detail>>
Vals(p) == p.version
-----------------------------------------------------------------------------
(* get_distribution() *)

Of(env, type) == {i \in DOMAIN env.dists : env.dists[i].type = type}
Ambiguous(env, type) == \E i, j \in Of(env, type) : i # j
Types(env) == {env.dists[i].type : i \in DOMAIN env.dists}
Packages(env, type) ==
    IF Of(env, type) = {} THEN <<>> ELSE env.dists[CHOOSE i \in Of(env, type) : TRUE].packages

\* The dictionary of packages: of several with one identity the last is kept.
Keyed(packages) ==
    {packages[i] : i \in {j \in DOMAIN packages :
        \A k \in DOMAIN packages : k > j => CmpId(packages[k]) # CmpId(packages[j])}}
-----------------------------------------------------------------------------
(* Diff.diff() and its output *)

DiffTypes == {"debian", "conda", "git", "svn"}

Only(packages, others) == {p \in packages : \A q \in others : CmpId(p) # CmpId(q)}
Changed(packages, others) ==
    {p \in packages : \E q \in others : CmpId(p) = CmpId(q) /\ Vals(p) # Vals(q)}

\* The identity of a changed package cannot be printed without its detail, nor
\* can identities be sorted that differ in having one.
Unprintable(packages, others) ==
    \/ \E p \in Changed(packages, others) : p.detail = Unstated
    \/ \E set \in {Only(packages, others), Only(others, packages)} :
          \E p, q \in set : p.name = q.name /\ p.detail = Unstated /\ q.detail # Unstated

Shown(packages, others) == Only(packages, others) \cup Changed(packages, others)

ByType(e1, e2, types) ==
    UNION {Shown(Keyed(Packages(e1, t)), Keyed(Packages(e2, t))) : t \in types}
DiffReport(e1, e2) ==
    LET types == Types(e1) \cup Types(e2)
    IN  <<ByType(e1, e2, types), ByType(e2, e1, types)>>
DiffFails(e1, e2) ==
    \E t \in Types(e1) \cup Types(e2) :
        \/ t \notin DiffTypes \/ Ambiguous(e1, t) \/ Ambiguous(e2, t)
        \/ Unprintable(Keyed(Packages(e1, t)), Keyed(Packages(e2, t)))
DiffStatus(e1, e2) ==
    IF DiffReport(e1, e2) = <<{}, {}>> /\ e1.files = e2.files THEN 0 ELSE 3
-----------------------------------------------------------------------------
(* Diff.satisfies(): what of the second specification the first lacks *)

SatisfiesReport(e1, e2) ==
    UNION {Minus(Set(Packages(e2, t)), Set(Packages(e1, t))) : t \in Types(e2)}
\* Debian packages only; without a distribution in the first specification a
\* package is compared with None.
SatisfiesFails(e1, e2) ==
    \E t \in Types(e1) \cup Types(e2) :
        \/ t # "debian" \/ Ambiguous(e1, t) \/ Ambiguous(e2, t)
        \/ t \notin Types(e1) /\ Packages(e2, t) # <<>>
SatisfiesStatus(e1, e2) ==
    IF SatisfiesReport(e1, e2) = {} /\ e2.files \subseteq e1.files THEN 0 ELSE 3
-----------------------------------------------------------------------------
Error == 1 \* an exception

DiffInit == request = <<>> /\ status = Unstated /\ report = <<>>

Compare ==
    /\ request = <<>>
    /\ \E e1, e2 \in Env : request' = <<e1, e2, "diff">>
    /\ LET e1 == request'[1]
           e2 == request'[2]
       IN  IF DiffFails(e1, e2) THEN status' = Error /\ report' = <<>>
           ELSE status' = DiffStatus(e1, e2) /\ report' = DiffReport(e1, e2)

CompareSatisfies ==
    /\ request = <<>>
    /\ \E e1, e2 \in Env : request' = <<e1, e2, "satisfies">>
    /\ LET e1 == request'[1]
           e2 == request'[2]
       IN  IF SatisfiesFails(e1, e2) THEN status' = Error /\ report' = <<>>
           ELSE status' = SatisfiesStatus(e1, e2) /\ report' = <<{}, SatisfiesReport(e1, e2)>>

DiffNext == Compare \/ CompareSatisfies
DiffSpec == DiffInit /\ [][DiffNext]_diffVars
-----------------------------------------------------------------------------
DiffTypeOK ==
    /\ request = <<>> \/ request \in Env \X Env \X {"diff", "satisfies"}
    /\ status \in {Unstated, 0, 3, Error}

(* What a status of 0 promises.  "diff": the two specifications have the     *)
(* same packages, by identity and version, of every type, unless one of them *)
(* has two packages of one identity; "diff --satisfies": each package of the *)
(* second is met by one of the first, so that it could replace it.          *)
Unique(e, t) ==
    \A i, j \in DOMAIN Packages(e, t) :
        CmpId(Packages(e, t)[i]) = CmpId(Packages(e, t)[j]) => i = j
StatusIsTrue ==
    status = 0 =>
        LET e1 == request[1]
            e2 == request[2]
        IN  IF request[3] = "diff"
            THEN \A t \in Types(e1) \cup Types(e2) :
                    Unique(e1, t) /\ Unique(e2, t) =>
                        Set(Packages(e1, t)) = Set(Packages(e2, t))
            ELSE \A t \in Types(e2) : \A p \in Set(Packages(e2, t)) :
                    \E q \in Set(Packages(e1, t)) : \A f \in Fields : p[f] \in {Unstated, q[f]}
=============================================================================
