----------------------------- MODULE Provision ------------------------------
(***************************************************************************)
(* "reproman install": the distributions of a specification are set up on  *)
(* a resource one after the other, by commands of apt, yum, conda,         *)
(* virtualenv, docker and git.  The first error ends the command; the user *)
(* may run it again, and may work on the resource in between.              *)
(***************************************************************************)
EXTENDS Naturals, Sequences, FiniteSets

CONSTANTS
  Environments,  \* the specifications: sequences of kinds of distributions
  AptLines,      \* the lines for sources of Debian and NeuroDebian, in order
  NextLines,     \* those of them that are made of a link to the next snapshot
  Undated,       \* the lines whose source was traced without a date
  YumSources,    \* the repositories of the specification
  ThirdParty,    \* those of them that a package can install
  CondaEnvs,     \* the environments, in the order in which they are made
  VenvEnvs,      \* what each virtualenv has: packages that are "local" and not
                 \* editable, and others, which are "left"
  Digests,       \* repo_digests of the image
  Original,      \* the git repository that was traced: head (NoCommit before the
                 \* first one), branch, config (the remote of its branch) and the
                 \* commits of each remote
  NoCommit,
  Commits,
  Branches,
  NoBranch,      \* HEAD is detached
  MaxTries       \* bound on how often the user tries

\* An entry of conda may have no path.
Kinds == {"debian", "redhat", "conda", "empty conda", "venv", "docker", "singularity", "git", "svn"}

\* A specification has distributions, one of conda or virtualenv environments.
ASSUME ProvisionAssumption ==
    /\ Original.head \in Commits \cup {NoCommit} /\ Original.branch \in Branches \cup {NoBranch}
    /\ \A r \in DOMAIN Original.remotes : Original.remotes[r] \subseteq Commits
    /\ \A e \in Environments : e \in Seq(Kinds) /\ e # <<>>
    /\ AptLines \in Seq({AptLines[i] : i \in DOMAIN AptLines})
    /\ NextLines \subseteq {AptLines[i] : i \in DOMAIN AptLines}
    /\ VenvEnvs \in Seq(SUBSET {"local", "left"})
    /\ Len(CondaEnvs) \in Nat \ {0} /\ Len(VenvEnvs) \in Nat \ {0} /\ MaxTries \in Nat \ {0}

VARIABLES
  spec,      \* the specification
  todo,      \* its distributions that are not finished
  step,      \* what comes next
  index,     \* the position in the sequence that the step goes through
  outcome,   \* how the command ended
  skipped,   \* the kinds about which it gave a warning
  tries,
  apt, yum, conda, venv, docker, git  \* what is on the resource

resource == <<apt, yum, conda, venv, docker, git>>
provisionVars == <<spec, todo, step, index, outcome, skipped, tries, resource>>
Others(x) == \* what the step of one kind leaves alone
    /\ x # "apt" => UNCHANGED apt
    /\ x # "yum" => UNCHANGED yum
    /\ x # "conda" => UNCHANGED conda
    /\ x # "venv" => UNCHANGED venv
    /\ x # "docker" => UNCHANGED docker
    /\ x # "git" => UNCHANGED git

\* Directories that may be there in part.
Made == {"no", "partial", "yes"}
\* What a repository is: nothing, something else, with another root, or ours.
AtPath == {"nothing", "other", "foreign", "ours"}

\* What the specification says of the repository, as GitRepoShim found it: no
\* remote is recorded if none has the commit, and the tracked one only of a
\* branch.
Containing == {r \in DOMAIN Original.remotes : Original.head \in Original.remotes[r]}
TrackedRemote == IF Original.branch = NoBranch THEN "" ELSE Original.config
Recorded ==
    [hexsha |-> Original.head, branch |-> Original.branch, tracked |-> TrackedRemote,
     remotes |-> [r \in IF Containing = {} THEN {} ELSE DOMAIN Original.remotes |->
                    [contains |-> r \in Containing, commits |-> Original.remotes[r]]]]

ProvisionInit ==
    /\ spec = <<>> /\ todo = <<>> /\ step = "idle" /\ index = 1
    /\ outcome = "none" /\ skipped = {} /\ tries = 0
    /\ apt = [file |-> FALSE, lines |-> {}, unlinked |-> {}, fresh |-> FALSE, installed |-> FALSE]
    /\ yum = [repos |-> {}, installed |-> FALSE]
    /\ conda = [root |-> "no", envs |-> [e \in 1..Len(CondaEnvs) |-> "no"], tmp |-> FALSE]
    /\ venv = [path |-> [e \in 1..Len(VenvEnvs) |-> "no"],
               installed |-> [e \in 1..Len(VenvEnvs) |-> {}]]
    /\ docker = [image |-> FALSE, tag |-> FALSE]
    /\ git = [at |-> "nothing", branch |-> NoBranch, head |-> Recorded.hexsha,
              heads |-> [b \in {} |-> Recorded.hexsha], known |-> {}, dirty |-> FALSE,
              remotes |-> {}, cloned |-> FALSE, tracking |-> FALSE]

Control == <<spec, tries>>
Go(label) == step' = label /\ index' = 1 /\ UNCHANGED <<Control, todo, outcome, skipped>>
Warn(kind) == skipped' = skipped \cup {kind}
\* An error of a command, or in the code, ends "reproman install".
Fail == /\ step' = "ended" /\ outcome' = "failed" /\ index' = 1
        /\ UNCHANGED <<Control, todo, skipped>>
Finished == /\ todo' = Tail(todo) /\ index' = 1
            /\ step' = IF Len(todo) = 1 THEN "ended" ELSE "initiate"
            /\ outcome' = IF Len(todo) = 1 THEN "done" ELSE outcome
            /\ UNCHANGED Control
Done == Finished /\ UNCHANGED skipped
-----------------------------------------------------------------------------
(* The resource before, the command, and the user in between *)

\* A repository somebody works in, at any commit and on any branch.
InUse ==
    \E at \in AtPath \ {"nothing"}, c \in Commits, h \in [Branches -> Commits],
       b \in Branches \cup {NoBranch}, dirty \in BOOLEAN, remotes \in {{}, DOMAIN Recorded.remotes} :
        /\ b # NoBranch => h[b] = c
        /\ git' = [git EXCEPT !.at = at, !.branch = b, !.head = c, !.heads = h,
                      !.known = {c} \cup {h[x] : x \in Branches}, !.dirty = dirty,
                      !.remotes = remotes]

\* A resource that was used before.
Used ==
    /\ \E known \in SUBSET {AptLines[i] : i \in DOMAIN AptLines} :
          apt' = [apt EXCEPT !.file = TRUE, !.lines = known]
    /\ \E r \in SUBSET YumSources : yum' = [yum EXCEPT !.repos = r]
    /\ conda' = [conda EXCEPT !.root = "yes"]
    /\ venv' = [venv EXCEPT !.path = [e \in DOMAIN @ |-> "yes"]]
    /\ docker' = [docker EXCEPT !.image = TRUE]
    /\ InUse

SetUp ==
    /\ step = "idle"
    /\ \E s \in Environments : spec' = s /\ todo' = s
    /\ UNCHANGED resource \/ Used
    /\ step' = "initiate" /\ tries' = 1
    /\ UNCHANGED <<index, outcome, skipped>>

\* The user tries again, after having worked in the repository or not.
Again ==
    /\ step = "ended" /\ outcome # "done" /\ tries < MaxTries
    /\ step' = "initiate" /\ todo' = spec /\ outcome' = "none" /\ skipped' = {}
    /\ tries' = tries + 1
    /\ \E dirty \in BOOLEAN :
          git' = [git EXCEPT !.cloned = FALSE, !.dirty = dirty /\ git.at # "nothing"]
    /\ apt' = [apt EXCEPT !.unlinked = {}]
    /\ UNCHANGED <<spec, index, yum, conda, venv, docker>>

\* Interrupted, or the connection is lost; nothing is cleaned up, and what git
\* was cloning may be there in part.
Killed ==
    /\ step \notin {"idle", "ended"}
    /\ step' = "ended" /\ outcome' = "killed" /\ index' = 1
    /\ \/ UNCHANGED git
       \/ step = "clone" /\ git' = [git EXCEPT !.at = "foreign"]
    /\ UNCHANGED <<Control, todo, skipped, apt, yum, conda, venv, docker>>

\* initiate() of each kind; svn without a command fails, and is not
\* implemented.
Initiate ==
    /\ step = "initiate"
    /\ LET kind == Head(todo) IN
       \/ kind = "debian" /\ Go("apt file")
       \/ kind = "redhat" /\ Go("repolist")
       \/ kind = "conda" /\ Go("tmp")
       \/ kind = "venv" /\ Go("virtualenv")
       \/ kind = "docker" /\ Go("inspect")
       \/ kind = "git" /\ Go("remote")
       \/ kind \in {"svn", "docker", "singularity"} /\ Fail
       \/ kind \in {"singularity", "empty conda"} /\ Done
    /\ UNCHANGED resource
-----------------------------------------------------------------------------
(* DebianDistribution *)

AptFile ==
    /\ step = "apt file"
    /\ apt' = [apt EXCEPT !.file = @ \/ AptLines # <<>>]
    /\ Go(IF AptLines = <<>> THEN "apt update" ELSE "apt line")
    /\ Others("apt")

\* What is left of the loop after a line; the key is received for each source.
AfterLine ==
    /\ index' = index + 1
    /\ step' = IF index = Len(AptLines) THEN "apt key" ELSE "apt line"
    /\ UNCHANGED <<Control, todo, outcome, skipped>>

\* _write_apt_sources(): "grep -q" fails for a line that is not there, which
\* the session raises; only what it prints to stderr makes the line be added.
\* The page with the next snapshot, or the key, may not be had. A page without
\* the link leaves the line out.
AptLine ==
    /\ step = "apt line"
    /\ \/ /\ AptLines[index] \in NextLines
          /\ apt' = [apt EXCEPT !.unlinked = @ \cup {AptLines[index]}] /\ AfterLine
       \/ /\ IF AptLines[index] \in Undated \/ AptLines[index] \notin apt.lines
             THEN Fail
             ELSE AfterLine \/ Fail
          /\ UNCHANGED apt
    /\ Others("apt")

AptKey == step = "apt key" /\ Go("apt update") /\ UNCHANGED resource
AptUpdate ==
    /\ step = "apt update" /\ apt' = [apt EXCEPT !.fresh = TRUE]
    /\ Go("apt install") /\ Others("apt")
AptInstall ==
    /\ step = "apt install" /\ apt' = [apt EXCEPT !.installed = TRUE]
    /\ Done /\ Others("apt")
-----------------------------------------------------------------------------
(* RedhatDistribution *)

Missing == YumSources \ yum.repos

\* Only repositories of third parties can be installed; others are logged.
YumRepos ==
    /\ step = "repolist"
    /\ yum' = [yum EXCEPT !.repos = @ \cup (Missing \cap ThirdParty)]
    /\ step' = "yum install"
    /\ IF Missing \ ThirdParty # {} THEN Warn("redhat") ELSE UNCHANGED skipped
    /\ UNCHANGED <<Control, todo, index, outcome>> /\ Others("yum")
YumInstall ==
    /\ step = "yum install" /\ yum' = [yum EXCEPT !.installed = TRUE]
    /\ Done /\ Others("yum")
-----------------------------------------------------------------------------
(* CondaDistribution *)

CondaTmp ==
    /\ step = "tmp" /\ conda' = [conda EXCEPT !.tmp = TRUE]
    /\ Go("conda root") /\ Others("conda")

\* The installer may stop half way; a directory is taken for an installation.
CondaRoot ==
    /\ step = "conda root"
    /\ \/ conda.root # "no" /\ Go("conda env") /\ UNCHANGED conda
       \/ /\ conda.root = "no" /\ conda' = [conda EXCEPT !.root = "yes"]
          /\ Go("conda env")
       \/ /\ conda.root = "no" /\ \E part \in {"no", "partial"} : conda' = [conda EXCEPT !.root = part]
          /\ Go("rm failed")
    /\ Others("conda")

Update(env) == conda.root = "yes" /\ conda' = [conda EXCEPT !.envs[env] = "yes"]
NextEnv ==
    /\ index' = index + 1
    /\ step' = IF index = Len(CondaEnvs) THEN "rm" ELSE "conda env"
    /\ UNCHANGED <<Control, todo, outcome, skipped>>

\* An environment that is there is updated, another is created or, if that
\* fails, updated.
CondaEnvironment ==
    /\ step = "conda env"
    /\ \/ Update(index) /\ NextEnv
       \/ /\ conda.envs[index] = "no"
          /\ \E part \in {"no", "partial"} : conda' = [conda EXCEPT !.envs[index] = part]
          /\ Go("rm failed")
       \/ conda.envs[index] # "no" /\ UNCHANGED conda /\ Go("rm failed")
    /\ Others("conda")

\* finally: the temporary directory is removed, which may fail as well.
CondaClean ==
    /\ \/ step = "rm" /\ Done /\ conda' = [conda EXCEPT !.tmp = FALSE]
       \/ step = "rm failed" /\ Fail /\ conda' = [conda EXCEPT !.tmp = FALSE]
       \/ step \in {"rm", "rm failed"} /\ Fail /\ UNCHANGED conda
    /\ Others("conda")
-----------------------------------------------------------------------------
(* VenvDistribution *)

NextVenv ==
    IF index = Len(VenvEnvs) THEN Done
    ELSE index' = index + 1 /\ step' = "virtualenv" /\ UNCHANGED <<Control, todo, outcome, skipped>>
ToPip == step' = "pip" /\ UNCHANGED <<Control, todo, index, outcome, skipped>>

\* An environment with nothing to install in it is not made.
Virtualenv ==
    /\ step = "virtualenv"
    /\ IF "local" \notin VenvEnvs[index] THEN NextVenv /\ UNCHANGED venv
       ELSE \/ venv.path[index] # "no" /\ UNCHANGED venv /\ ToPip
            \/ venv.path[index] = "no" /\ venv' = [venv EXCEPT !.path[index] = "yes"] /\ ToPip
            \/ /\ venv.path[index] = "no"
               /\ \E part \in {"no", "partial"} : venv' = [venv EXCEPT !.path[index] = part]
               /\ Fail
    /\ Others("venv")
PipInstall ==
    /\ step = "pip" /\ venv.path[index] = "yes"
    /\ venv' = [venv EXCEPT !.installed[index] = {"local"}]
    /\ NextVenv /\ Others("venv")
-----------------------------------------------------------------------------
(* DockerDistribution *)

Inspect ==
    /\ step = "inspect"
    /\ IF docker.image THEN Done ELSE IF Digests = <<>> THEN Fail ELSE Go("pull")
    /\ UNCHANGED resource

\* Mutant of Pull: the last digest ends the loop without an error.
PullNoError ==
    /\ step = "pull"
    /\ \/ docker' = [image |-> TRUE, tag |-> TRUE] /\ Done
       \/ /\ \E pulled \in BOOLEAN : docker' = [docker EXCEPT !.image = @ \/ pulled]
          /\ IF index = Len(Digests) THEN Done
             ELSE /\ index' = index + 1
                  /\ UNCHANGED <<Control, todo, step, outcome, skipped>>
    /\ Others("docker")

\* The digests are tried in turn, until one can be pulled and tagged.
Pull ==
    /\ step = "pull"
    /\ \/ docker' = [image |-> TRUE, tag |-> TRUE] /\ Done
       \/ /\ \E pulled \in BOOLEAN : docker' = [docker EXCEPT !.image = @ \/ pulled]
          /\ IF index = Len(Digests) THEN Fail
             ELSE /\ index' = index + 1
                  /\ UNCHANGED <<Control, todo, step, outcome, skipped>>
    /\ Others("docker")
-----------------------------------------------------------------------------
(* GitDistribution._install_repo() *)

Sources == {r \in DOMAIN Recorded.remotes : Recorded.remotes[r].contains}
\* Which remote is used: the tracked one, origin, any.
Remotes ==
    IF Recorded.tracked \in Sources THEN {Recorded.tracked}
    ELSE IF "origin" \in Sources THEN {"origin"} ELSE Sources

SkipRepo == Warn("git") /\ Finished /\ UNCHANGED resource

GitRemote ==
    /\ step = "remote"
    /\ IF Sources = {} \/ git.at \in {"other", "foreign"} THEN SkipRepo
       ELSE /\ Go(IF git.at = "nothing" THEN "clone"
                  ELSE IF Recorded.hexsha \in git.known THEN "add" ELSE "fetch")
            /\ UNCHANGED resource

\* A remote that the existing repository does not have is not added before.
GitFetch ==
    /\ step = "fetch"
    /\ \E r \in Remotes \cap git.remotes :
          git' = [git EXCEPT !.known = @ \cup Recorded.remotes[r].commits]
    /\ Go("add") /\ Others("git")

\* The branch of the remote is checked out.
GitClone ==
    /\ step = "clone"
    /\ \E r \in Remotes, b \in Branches, c \in Commits :
          /\ c \in Recorded.remotes[r].commits
          /\ git' = [git EXCEPT !.at = "ours", !.cloned = TRUE, !.branch = b, !.head = c,
                        !.heads = [x \in {b} |-> c], !.remotes = {r},
                        !.known = Recorded.remotes[r].commits]
    /\ Go("add") /\ Others("git")

\* "git remote add -f": one that cannot be fetched is added all the same.
GitAdd ==
    /\ step = "add"
    /\ \E fetched \in SUBSET (DOMAIN Recorded.remotes \ git.remotes) :
          git' = [git EXCEPT !.remotes = @ \cup DOMAIN Recorded.remotes,
                     !.known = @ \cup UNION {Recorded.remotes[r].commits : r \in fetched}]
    /\ Go("revision") /\ Others("git")

GitRevision ==
    /\ step = "revision"
    /\ IF Recorded.hexsha \notin git.known \/ git.dirty THEN SkipRepo
       ELSE Go("checkout") /\ UNCHANGED resource

At(branch) == git.branch = branch /\ git.head = Recorded.hexsha
Detach == git' = [git EXCEPT !.branch = NoBranch, !.head = Recorded.hexsha]
\* The branch is checked out, and its remote set, if one is recorded.
SwitchTo(branch) ==
    git' = [git EXCEPT !.branch = branch, !.head = Recorded.hexsha,
               !.heads = [b \in DOMAIN @ \cup {branch} |-> IF b = branch THEN Recorded.hexsha ELSE @[b]],
               !.tracking = @ \/ Recorded.tracked # ""]

\* Mutant of GitCheckout: the branch is reset in any repository.
GitCheckoutForced ==
    /\ step = "checkout"
    /\ IF Recorded.branch = NoBranch THEN Detach ELSE SwitchTo(Recorded.branch)
    /\ Done /\ Others("git")

\* _checkout(): only a branch of our own clone is reset; one that has the commit
\* is used, and otherwise HEAD is detached.
GitCheckout ==
    /\ step = "checkout"
    /\ IF Recorded.branch = NoBranch THEN Detach
       ELSE IF At(Recorded.branch) THEN UNCHANGED git
       ELSE IF git.cloned THEN SwitchTo(Recorded.branch)
       ELSE IF /\ git.branch # Recorded.branch
               /\ Recorded.branch \in DOMAIN git.heads
               /\ git.heads[Recorded.branch] = Recorded.hexsha
            THEN SwitchTo(Recorded.branch)
            ELSE Detach
    /\ Done /\ Others("git")
-----------------------------------------------------------------------------
\* The commands that may fail and leave everything as it was.
CommandFails ==
    \E label \in {"apt file", "apt key", "apt update", "apt install", "repolist",
                  "yum install", "tmp", "pip", "fetch", "clone", "checkout"} :
        step = label /\ Fail /\ UNCHANGED resource

ProvisionNext ==
    \/ SetUp \/ Again \/ Killed \/ Initiate \/ CommandFails
    \/ AptFile \/ AptLine \/ AptKey \/ AptUpdate \/ AptInstall
    \/ YumRepos \/ YumInstall
    \/ CondaTmp \/ CondaRoot \/ CondaEnvironment \/ CondaClean
    \/ Virtualenv \/ PipInstall
    \/ Inspect \/ Pull
    \/ GitRemote \/ GitFetch \/ GitClone \/ GitAdd \/ GitRevision \/ GitCheckout

ProvisionSpec == ProvisionInit /\ [][ProvisionNext]_provisionVars
-----------------------------------------------------------------------------
ProvisionTypeOK ==
    /\ spec \in Environments \cup {<<>>}
    /\ outcome \in {"none", "done", "failed", "killed"}
    /\ conda.root \in Made /\ git.at \in AtPath
    /\ \A e \in DOMAIN VenvEnvs : venv.path[e] \in Made /\ venv.installed[e] \subseteq VenvEnvs[e]
    /\ apt.lines \subseteq {AptLines[i] : i \in DOMAIN AptLines} /\ apt.unlinked \subseteq NextLines
    /\ yum.repos \subseteq YumSources
    /\ git.head \in Commits \cup {NoCommit} /\ DOMAIN git.heads \subseteq Branches /\ git.known \subseteq Commits
    /\ tries \in 0..MaxTries

(* A command that says nothing has set everything up, in the first attempt   *)
(* or in one after a failure or an interrupt, on whatever it found: packages *)
(* are installed, the environments of conda are whole and so are those of    *)
(* virtualenv as far as their packages are local and not editable, the image *)
(* can be used, the repository is at the recorded commit; or a warning told  *)
(* of what was passed over.  What it passes over without one is named here:  *)
(* an entry of conda without a path, the other packages of a virtualenv, and *)
(* the next snapshot where the page has no link to it.  (Provisioning goes   *)
(* through the steps of every kind and takes what exists for granted.)       *)
SetUpAsRecorded(kind) ==
    /\ kind = "debian" =>
          apt.installed /\ apt.lines \cup apt.unlinked = {AptLines[i] : i \in DOMAIN AptLines}
    /\ kind = "redhat" => yum.installed /\ YumSources \subseteq yum.repos
    /\ kind = "conda" => conda.root = "yes" /\ \A e \in DOMAIN conda.envs : conda.envs[e] = "yes"
    /\ kind = "venv" => \A e \in DOMAIN VenvEnvs : "local" \in VenvEnvs[e] =>
                            venv.path[e] = "yes" /\ "local" \in venv.installed[e]
    /\ kind = "docker" => docker.image
    /\ kind = "git" => git.at = "ours" /\ git.head = Recorded.hexsha
InstalledOrSaid ==
    outcome = "done" =>
        \A i \in DOMAIN spec :
            SetUpAsRecorded(spec[i]) \/ spec[i] \in skipped \cup {"singularity", "empty conda"}

(* Work in a repository that the command did not clone is safe: no branch of *)
(* it ever moves or goes away, and while it has changes that are not saved   *)
(* HEAD stays where it is.                                                   *)
UserWorkKept ==
    [][~git'.cloned /\ git.at # "nothing" /\ step # "idle" =>
          /\ \A b \in DOMAIN git.heads : b \in DOMAIN git'.heads /\ git'.heads[b] = git.heads[b]
          /\ git.dirty => git'.head = git.head /\ git'.branch = git.branch]_provisionVars

(* "Write snapshot repo to apt sources file": a dated source that is not     *)
(* there yet is written, and does not end the command.                      *)
MissingLineIsWritten ==
    [][step = "apt line" /\ AptLines[index] \notin Undated /\ outcome' = "failed"
          => AptLines[index] \in apt.lines']_provisionVars
=============================================================================
