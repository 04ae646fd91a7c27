------------------------------ MODULE Retrace -------------------------------
(***************************************************************************)
(* "reproman retrace": the paths go through all tracers, round after       *)
(* round, until a round changes nothing.  A tracer takes paths away and    *)
(* may add new ones: what a link leads to, where an editable package is.   *)
(***************************************************************************)
EXTENDS Tracers

CONSTANTS Host,      \* the systems on which paths are traced
          Pycache,   \* pycache_source(): the source of a compiled file
          MaxInput   \* bound on the paths given

\* Of finitely many paths, what one leads to is a path.  The full form of a name
\* of the registry is a name only, and realpath() does not give the short form.
ASSUME RetraceAssumption ==
    /\ MaxInput \in Nat /\ IsFiniteSet(Path) /\ Dir \subseteq Path /\ None \notin Path
    /\ \A f \in DOMAIN Pycache : Pycache[f] \in Path
    /\ \A e \in DOMAIN Conda.root : PipLocations(Conda.pip[e]) \subseteq Path
    /\ \A f \in Path : Venv.env[f] # None =>
          /\ Venv.real[f] \in Path \ DOMAIN Images.url
          /\ PipLocations(Venv.pip[Venv.env[f]]) \subseteq Path
    /\ \A u \in {Images.url[f] : f \in DOMAIN Images.url} :
          u \in Path \ (Dir \cup DOMAIN Images.url) /\ Venv.env[u] = None

VARIABLES
  rPhase,      \* where identify_distributions() is
  host,        \* the system
  input,       \* the paths it was given
  consider,    \* files_to_consider
  toTrace,     \* files_to_trace
  processed,   \* files_processed
  niter,       \* the number of the round
  at,          \* the tracer whose turn it is
  before,      \* nfiles_processed and nfiles_to_trace
  dists        \* distributions

files == <<consider, toTrace, processed>>
retraceVars == <<rPhase, host, input, files, niter, at, before, dists>>

MaxIter == 10
Tracers == <<"deb", "rpm", "conda", "venv", "vcs", "docker", "singularity">>
HandlesDirs == {"conda", "venv", "vcs"}
Trace(t, h, paths) ==
    IF t = "deb" THEN DebTracer(h, paths)
    ELSE IF t = "rpm" THEN RPMTracer(h, paths)
    ELSE IF t = "conda" THEN CondaTracer(h, paths)
    ELSE IF t = "venv" THEN VenvTracer(h, paths)
    ELSE IF t = "vcs" THEN VCSTracer(h, paths)
    ELSE IF t = "docker" THEN DockerTracer(h, paths)
    ELSE SingularityTracer(h, paths)
-----------------------------------------------------------------------------
RetraceInit ==
    /\ rPhase = "idle" /\ host = None
    /\ input = {} /\ consider = {} /\ toTrace = {} /\ processed = {}
    /\ niter = 0 /\ at = 1 /\ before = <<0, 0>> /\ dists = <<>>

\* Compiled files are replaced by their sources.
Normal(f) == IF f \in DOMAIN Pycache THEN Pycache[f] ELSE f

Retrace ==
    /\ rPhase = "idle"
    /\ host' \in Host
    /\ \E k \in 1..MaxInput : \E paths \in kSubset(k, Path \cup DOMAIN Pycache) :
          input' = {Normal(f) : f \in paths}
    /\ consider' = input' /\ toTrace' = input'
    /\ rPhase' = "round"
    /\ UNCHANGED <<processed, niter, at, before, dists>>

NewRound ==
    /\ rPhase = "round"
    /\ niter' = niter + 1
    /\ before' = <<Cardinality(processed), Cardinality(toTrace)>>
    /\ at' = 1
    /\ rPhase' = IF niter' > MaxIter THEN "unsettled" ELSE "trace"
    /\ UNCHANGED <<host, input, files, dists>>

\* Which paths the next tracer gets: without the directories if it does not
\* handle them, as far as they are among those the tracer before it was given.
Given ==
    IF Tracers[at] \in HandlesDirs THEN consider ELSE consider \ (toTrace \cap Dir)

\* Mutant of RunTracer: the directories put aside are not taken back.
RunTracerDropsDirs ==
    /\ rPhase = "trace" /\ at <= Len(Tracers)
    /\ \E o \in IF Given = {} THEN {Nothing({})} ELSE Trace(Tracers[at], host, Given) :
          /\ dists' = dists \o o.dists
          /\ processed' = processed \cup (Given \ o.rest)
          /\ toTrace' = o.rest
          /\ consider' = toTrace'
          /\ rPhase' = IF o.failed THEN "error" ELSE rPhase
    /\ at' = at + 1
    /\ UNCHANGED <<host, input, niter, before>>

RunTracer ==
    /\ rPhase = "trace" /\ at <= Len(Tracers)
    /\ \E o \in IF Given = {} THEN {Nothing({})} ELSE Trace(Tracers[at], host, Given) :
          /\ dists' = dists \o o.dists
          /\ processed' = processed \cup (Given \ o.rest)
          /\ toTrace' = o.rest
          /\ consider' = toTrace' \cup (consider \ Given)
          /\ rPhase' = IF o.failed THEN "error" ELSE rPhase
    /\ at' = at + 1
    /\ UNCHANGED <<host, input, niter, before>>

\* Mutant of NoMoreChanges: a round that leaves paths is followed by another.
NoMoreFiles == toTrace = {}

\* Two sizes are compared, not the sets.
NoMoreChanges == toTrace = {} \/ before = <<Cardinality(processed), Cardinality(toTrace)>>

EndRound ==
    /\ rPhase = "trace" /\ at > Len(Tracers)
    /\ rPhase' = IF NoMoreChanges THEN "done" ELSE "round"
    /\ UNCHANGED <<host, input, files, niter, at, before, dists>>

RetraceNext ==
    \/ Retrace
    \/ NewRound
    \/ RunTracer
    \/ EndRound

RetraceSpec == RetraceInit /\ [][RetraceNext]_retraceVars
-----------------------------------------------------------------------------
RetraceTypeOK ==
    /\ rPhase \in {"idle", "round", "trace", "done", "error", "unsettled"}
    /\ host \in Host \cup {None}
    /\ \A paths \in {input, consider, toTrace, processed} : paths \subseteq Path
    /\ niter \in 0..(MaxIter + 1) /\ at \in 1..(Len(Tracers) + 1)

Listed == UNION {dists[i].listed \cup (IF dists[i].kind \in {"docker", "singularity"}
                                       THEN dists[i].taken ELSE {}) : i \in DOMAIN dists}
Taken == UNION {dists[i].taken : i \in DOMAIN dists}

(* No path that was given vanishes: it is listed by a distribution or left  *)
(* over, under its own name or that of the registry; or it is the directory *)
(* by which a package was found first; or it belongs to a virtual           *)
(* environment, where only what it links to is followed, if that is in none. *)
(* (The sets that the tracers and the loop hand to each other.)             *)
Kept(f) == {f, HubName(f)} \cap (Listed \cup consider) # {}
Accounted ==
    rPhase = "done" =>
        \A f \in input :
            \/ Kept(f)
            \/ f \in Dir \cap Taken
            \/ /\ Venv.env[f] # None
               /\ \/ Venv.env[Venv.real[f]] # None
                  \/ Venv.real[f] \in Taken \cup consider

(* The loop comes to rest by itself, never by the limit of ten rounds, and   *)
(* it rests where another round would find nothing: no tracer would take one *)
(* of the files that are left.  (Sizes are compared, not sets, and the last  *)
(* tracer may not have seen the directories.)                               *)
Settles ==
    /\ rPhase # "unsettled"
    /\ rPhase = "done" =>
          \A f \in consider \ Dir, i \in DOMAIN Tracers :
              \E o \in Trace(Tracers[i], host, {f}) : f \in o.rest

(* The names of APT sources in the version tables of a traced system refer   *)
(* to sources that are listed with it, and no two sources have one name:     *)
(* what provisioning would look up is there and is not ambiguous.            *)
SourcesResolve ==
    \A i \in DOMAIN dists : dists[i].kind = "debian" =>
        LET d == dists[i].details IN
        /\ \A p \in DOMAIN d.versions : \A v \in DOMAIN d.versions[p] :
              d.versions[p][v] \subseteq {s.name : s \in d.apt_sources}
        /\ \A s, t \in d.apt_sources : s.name = t.name => s = t
=============================================================================
