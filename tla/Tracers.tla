------------------------------ MODULE Tracers -------------------------------
(***************************************************************************)
(* What each tracer of "reproman retrace" makes of a set of paths: the     *)
(* distributions it yields and the paths that are left to others.          *)
(*                                                                         *)
(* The file system and the databases of the package managers are the       *)
(* records below; a path is a name, and what the code finds out about it   *)
(* by running a command is looked up in them.  Python sets have no order:  *)
(* where the result depends on it, a tracer has several outcomes.          *)
(***************************************************************************)
EXTENDS Naturals, Sequences, FiniteSetsExt, SequencesExt

CONSTANTS
  Path,   \* the paths and image names that can come up
  Dir,    \* the directories among them
  None,
  Deb,    \* owners: the packages dpkg-query -S lists for a path, in order;
          \* policy: the version table of a package; sources: apt-cache policy
  Rpm,    \* owners: the packages rpm -qf prints for a path, in order
  Conda,  \* env, root: where a path and an environment belong;
          \* meta: the files that conda records; pip: what pip says
  Venv,   \* env, pip; real: os.path.realpath
  Vcs,    \* parent directory, svn: checked out by svn, unreadable: without
          \* success, top: git's top directory, tracked: the paths under version
          \* control, beside: a directory and a path that continues its name
  Images  \* docker, singularity: the images; hub, url: the names under shub:

\* A system has finitely many lines of APT sources and conda environments.
ASSUME TracersAssumption == IsFiniteSet(DOMAIN Deb.sources) /\ IsFiniteSet(DOMAIN Conda.root)

Outcome(dists, rest) == [dists |-> dists, rest |-> rest, failed |-> FALSE]
\* A generator that yields nothing: identify_distributions() keeps the paths.
Nothing(files) == Outcome(<<>>, files)
Crash(files) == [dists |-> <<>>, rest |-> files, failed |-> TRUE]

\* A distribution: its kind, the paths it lists, all that it took from the set,
\* and what only its kind has.
Dist(kind, listed, taken, details) ==
    [kind |-> kind, listed |-> listed, taken |-> taken, details |-> details]

\* Fields of a path by which packages are told apart; None if there are none.
\* The first path of a package is not listed if it is a directory.
Firsts(paths) == (paths \cap Dir) \cup (IF paths \subseteq Dir THEN {} ELSE {None})
IdentifyPackages(files, field) ==
    LET taken == {f \in files : field[f] # None}
        packages == {field[f] : f \in taken}
        Of(p) == {f \in taken : field[f] = p}
        firsts == {F \in [packages -> Dir \cup {None}] : \A p \in packages : F[p] \in Firsts(Of(p))}
    IN  {[packages |-> packages, taken |-> taken, rest |-> files \ taken,
          listed |-> taken \ {F[p] : p \in packages}] : F \in firsts}
-----------------------------------------------------------------------------
(* dpkg and apt *)

\* The line for a path names all its packages: the first one is taken, none
\* for a directory.
DpkgField(f) ==
    IF Deb.owners[f] = <<>> \/ (Len(Deb.owners[f]) > 1 /\ f \in Dir) THEN None
    ELSE Head(Deb.owners[f])

Lines(p) == UNION {Deb.policy[p][v] : v \in DOMAIN Deb.policy[p]}

\* generate_unique_name(): the origin, archive and component of a source line
\* and the first number that is free, in the order in which lines are met.
SameName(l, m) == Deb.sources[l] = Deb.sources[m]
\* Mutant of SourceNumber: the name that was given is not remembered.
SourceNumberForgotten(line, order) == 0
SourceNumber(line, order) ==
    Cardinality({i \in DOMAIN order : /\ SameName(order[i], line)
                                      /\ \E j \in DOMAIN order : j > i /\ order[j] = line})
SourceName(line, order) == <<Deb.sources[line], SourceNumber(line, order)>>

\* versions: the short names for each package and version; a source line that
\* "apt-cache policy" did not list is left out.
Versions(p, order) ==
    [v \in DOMAIN Deb.policy[p] |->
        {SourceName(l, order) : l \in Deb.policy[p][v] \cap DOMAIN Deb.sources}]

\* The details of the packages; the order of a set of paths is any.
Details(packages) ==
    LET used == (UNION {Lines(p) : p \in packages}) \cap DOMAIN Deb.sources
        order == SetToSeq(used)
    IN  [versions |-> [p \in packages |-> Versions(p, order)],
         apt_sources |-> {[name |-> SourceName(l, order), line |-> l] : l \in used}]

DebTracer(host, files) ==
    IF ~host.debian THEN {Nothing(files)}
    ELSE {IF found.packages = {} THEN Nothing(files)
          ELSE Outcome(<<Dist("debian", found.listed, found.taken, Details(found.packages))>>,
                       found.rest)
          : found \in IdentifyPackages(files, [f \in files |-> DpkgField(f)])}
-----------------------------------------------------------------------------
(* rpm *)

\* Of several packages the first one is taken.
RpmField(f) == IF Rpm.owners[f] = <<>> THEN None ELSE Head(Rpm.owners[f])

\* redhat_version is read before the directory of yum is looked at: on a system
\* without the release file, but with dnf, it has no value when it is used.
RPMTracer(host, files) ==
    IF host.redhat = "no" THEN {Nothing(files)}
    ELSE {IF found.packages = {} THEN Nothing(files)
          ELSE IF host.redhat = "dnf only" THEN Crash(files)
          ELSE Outcome(<<Dist("redhat", found.listed, found.taken, None)>>, found.rest)
          : found \in IdentifyPackages(files, [f \in files |-> RpmField(f)])}
-----------------------------------------------------------------------------
(* pip: names is what is asked about, in order; shown those that pip show    *)
(* finds, with their files and locations; editable and local are the lists  *)
(* of pip list; it may not run at all.                                      *)

PipWorks(pip) == pip.runs
PipShowFails(pip) == pip.names # <<>> /\ pip.shown = {}
PipFiles(pip) == UNION {pip.files[n] : n \in pip.shown}
PipLocations(pip) == {pip.location[n] : n \in pip.shown} \ {None}
\* The answers are paired with the questions by position: after a package that
\* is not shown each one goes by the name of another.
PipShow(pip) ==
    LET shown == SelectSeq(pip.names, LAMBDA n : n \in pip.shown)
    IN  {[name |-> shown[i], editable |-> pip.names[i] \in pip.editable,
          local |-> pip.names[i] \in pip.local] : i \in DOMAIN shown}
-----------------------------------------------------------------------------
(* conda *)

\* Files of the packages are taken out, locations of editable ones outside of
\* the environment are handed on.
CondaEnv(acc, env) ==
    LET pip == Conda.pip[env]
        found == acc.unknown \cap (Conda.meta[env] \cup PipFiles(pip))
    IN  [unknown |-> (acc.unknown \ found) \cup {l \in PipLocations(pip) : Conda.env[l] # env},
         taken |-> acc.taken \cup found,
         envs |-> acc.envs \cup {[path |-> env, files |-> found, pip |-> PipShow(pip)]}]

\* One distribution for each installation; they are numbered if there are more.
CondaDists(envs, acc) ==
    LET roots == SetToSeq({Conda.root[e] : e \in envs})
        Mine(i) == {e \in acc.envs : Conda.root[e.path] = roots[i]}
        Files(i) == UNION {e.files : e \in Mine(i)}
    IN  [i \in DOMAIN roots |->
            Dist("conda", Files(i), Files(i),
                 [name |-> IF Len(roots) > 1 THEN i - 1 ELSE None,
                  envs |-> {[path |-> e.path, pip |-> e.pip] : e \in Mine(i)}])]

\* An environment whose installation is not found is passed over; what pip
\* cannot answer ends the command.
CondaTracer(host, files) ==
    LET envs == {e \in DOMAIN Conda.root \cap {Conda.env[f] : f \in files} : Conda.root[e] # None}
        start == [unknown |-> files, taken |-> {}, envs |-> {}]
    IN  IF envs = {} THEN {Nothing(files)}
        ELSE IF \E e \in envs : ~PipWorks(Conda.pip[e]) \/ PipShowFails(Conda.pip[e])
             THEN {Crash(files)}
        ELSE {LET acc == FoldLeft(CondaEnv, start, order)
              IN  Outcome(CondaDists(envs, acc), acc.unknown) : order \in SetToSeqs(envs)}
-----------------------------------------------------------------------------
(* virtualenv *)

Inside(f, env) == Venv.env[f] = env

\* Of the other paths below the environment only what they link to is kept, if
\* it is outside.
VenvEnv(acc, env) ==
    LET found == acc.unknown \cap PipFiles(Venv.pip[env])
        dropped == {f \in acc.unknown \ found : Inside(f, env)}
    IN  [unknown |-> (acc.unknown \ (found \cup dropped))
                     \cup {Venv.real[f] : f \in {g \in dropped : ~Inside(Venv.real[g], env)}}
                     \cup {l \in PipLocations(Venv.pip[env]) : ~Inside(l, env)},
         taken |-> acc.taken \cup found]

\* The list of local packages is asked for without a net: an environment whose
\* pip does not run ends the command.
VenvTracer(host, files) ==
    LET envs == {Venv.env[f] : f \in files} \ {None}
        start == [unknown |-> files, taken |-> {}]
        packages == {[path |-> e, pip |-> PipShow(Venv.pip[e])] : e \in envs}
    IN  IF envs = {} THEN {Nothing(files)}
        ELSE IF \E e \in envs : ~PipWorks(Venv.pip[e]) THEN {Crash(files)}
        ELSE {LET acc == FoldLeft(VenvEnv, start, order)
              IN  Outcome(<<Dist("venv", acc.taken, acc.taken, [envs |-> packages])>>, acc.unknown)
              : order \in SetToSeqs(envs)}
-----------------------------------------------------------------------------
(* svn and git *)

DirPath(f) == IF f \in Dir THEN f ELSE Vcs.parent[f]
Below(f, dir) ==
    LET below[g \in Path \cup {None}] == g # None /\ (g = dir \/ below[Vcs.parent[g]])
    IN  below[f]

\* The paths whose name begins with that of the repository, by characters: with
\* /r also /r-f, of which "f" is looked up in the list.
BeginsWith(f, dir) == Below(f, dir) \/ <<dir, f>> \in Vcs.beside

\* owns_path(): the repository itself, or what it lists.
Owns(repo, f) == f = repo.path \/ (BeginsWith(f, repo.path) /\ <<repo.kind, f>> \in Vcs.tracked)
\* What a checkout lists can be asked for only if svn can read it, and its
\* attributes as well.
Unreadable(repo) == repo.kind = "svn" /\ repo.path \in Vcs.unreadable

\* svn counts every directory as a repository of its own.
SvnAt(dir) ==
    IF dir \in Vcs.svn \cup Vcs.unreadable THEN <<[kind |-> "svn", path |-> dir]>> ELSE <<>>
GitAt(dir) ==
    IF Vcs.top[dir] # None THEN <<[kind |-> "git", path |-> Vcs.top[dir]]>> ELSE <<>>
Sniffed(f) == SvnAt(DirPath(f)) \o GitAt(DirPath(f))

Remember(known, repo) ==
    IF \E i \in DOMAIN known : known[i].path = repo.path
    THEN [i \in DOMAIN known |-> IF known[i].path = repo.path THEN repo ELSE known[i]]
    ELSE Append(known, repo)

\* _resolve_file(): in a directory that is known as a repository's top a path is
\* not asked about; otherwise known repositories, then the shims, which are
\* recorded whether they own the path or not.
ResolveFile(acc, f) ==
    LET at == {i \in DOMAIN acc.known : acc.known[i].path = DirPath(f)}
        Owning(repos) == {i \in DOMAIN repos : Owns(repos[i], f)}
        owners == Owning(acc.known)
        sniffed == Sniffed(f)
        new == Owning(sniffed)
        tried == IF new # {} /\ sniffed[Min(new)].kind = "svn" THEN <<sniffed[Min(new)]>> ELSE sniffed
        Found(r) == [g \in DOMAIN acc.repo \cup {f} |-> IF g = f THEN r.path ELSE acc.repo[g]]
    IN  IF at # {} THEN [acc EXCEPT !.repo = Found(acc.known[Min(at)])]
        ELSE IF owners # {} THEN [acc EXCEPT !.repo = Found(acc.known[Min(owners)])]
        ELSE [known |-> FoldLeft(Remember, acc.known, tried),
              repo |-> IF new # {} THEN Found(sniffed[Min(new)]) ELSE acc.repo,
              failed |-> acc.failed \/ \E i \in DOMAIN tried : Unreadable(tried[i])]

\* The tracer is made anew for each round: nothing is known at first.
ResolveFiles(order) ==
    FoldLeft(ResolveFile, [known |-> <<>>, repo |-> [f \in {} |-> None], failed |-> FALSE], order)

\* One distribution for each kind of repository that was found.
VCSDist(acc, found, kind) ==
    LET Kind(f) == acc.known[CHOOSE i \in DOMAIN acc.known : acc.known[i].path = acc.repo[f]].kind
        Of(paths) == {f \in paths : Kind(f) = kind}
        taken == Of(found.taken)
    IN  IF taken = {} THEN <<>>
        ELSE <<Dist(kind, Of(found.listed), taken, [repos |-> {acc.repo[f] : f \in taken}])>>

VCSTracer(host, files) ==
    LET versioned == {f \in files : Sniffed(f) # <<>> \/ \E d \in Dir : <<d, f>> \in Vcs.beside}
    IN  UNION {LET acc == ResolveFiles(order)
                   field == [f \in files |-> IF f \in DOMAIN acc.repo THEN acc.repo[f] ELSE None]
               IN  IF acc.failed THEN {Crash(files)}
                   ELSE {IF found.packages = {} THEN Nothing(files)
                         ELSE Outcome(VCSDist(acc, found, "git") \o VCSDist(acc, found, "svn"),
                                      found.rest)
                         : found \in IdentifyPackages(files, field)}
               : order \in SetToSeqs(versioned)}
-----------------------------------------------------------------------------
(* images *)

\* A daemon that goes away in the middle takes with it what was found before.
DockerTracer(host, files) ==
    LET images == files \cap Images.docker
    IN  IF host.dockerd # "up" \/ images = {} THEN {Nothing(files)}
        ELSE {Outcome(<<Dist("docker", {}, images, None)>>, files \ images)}

\* normpath() made "shub:/" of "shub://".
HubName(f) == IF f \in DOMAIN Images.url THEN Images.url[f] ELSE f

\* url and path keep the values of an earlier path of the loop.
SingularityImage(acc, f) ==
    LET name == HubName(f)
        good == name \in Images.singularity
        hub == name \in Images.hub
        url == IF hub /\ good THEN name ELSE acc.url
        path == IF hub THEN acc.path ELSE name
    IN  [url |-> url, path |-> path,
         images |-> IF good THEN acc.images \cup {[of |-> name, url |-> url, path |-> path]}
                    ELSE acc.images,
         rest |-> IF good THEN acc.rest ELSE acc.rest \cup {name}]

\* The order matters for the images and for a local path before them: one such
\* path stands for all.
SingularityTracer(host, files) ==
    LET images == {f \in files : HubName(f) \in Images.singularity}
        locals == {f \in files \ images : HubName(f) \notin Images.hub}
        some == IF locals = {} THEN {} ELSE {CHOOSE f \in locals : TRUE}
        start(seen) == [url |-> None, path |-> None, images |-> {},
                        rest |-> {HubName(f) : f \in files \ (images \cup seen)}]
    IN  IF images = {} THEN {Nothing(files)}
        ELSE {LET acc == FoldLeft(SingularityImage, start(some), order)
              IN  Outcome(<<Dist("singularity", {}, images, [images |-> acc.images])>>, acc.rest)
              : order \in SetToSeqs(images \cup some)}
=============================================================================
