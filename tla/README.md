# ReproMan in TLA+

A model of [ReproMan](https://github.com/ReproNim/reproman) (`src/` of this
repository): what happens to a job from `reproman run` until its results are in
the local dataset; what happens to the inventory of resources under concurrent
commands; and what happens on a resource besides jobs: sessions, traced
execution, retracing, comparison and installation. The models have the
interleavings, kills and lost answers that tests do not reach. TLC checks the
modules on small instances; TLAPS proves theorems about the run script for any
number of subjobs, job specs for any files, parameters and options, the submitters
for any array, the life of jobs for any clients, the remote dataset and the local
one for any number of jobs, the inventory and its backends for any commands and
resources, sessions for any variables and trees of files, traced execution for any
users, and retracing, comparison and installation for any systems and
specifications. Of the safety properties that the runs check, all but one are
proved.

## The system

| Component | State | Operations | Interacts with |
|---|---|---|---|
| Run scripts (`support/jobs/job_templates/runscript`) | files in the job's metadata directory (`status.N`, `failed/N`, `pre-finished.N`), `outputs/JOB.tar.gz`, a commit, `refs/reproman/JOB`, `completed/JOB` | one shell script per subjob; the last one is also the barrier and the post-command | the other subjobs and the client, through files only |
| Submission templates (`.../submission`) | none | start the subjobs, in order or as an array | batch system, GNU parallel |
| Submitters (`support/jobs/submitters.py`) | submission ID, the query method (Condor) | `submit`, `status`, `follow` | batch system, through a session |
| Orchestrators (`support/jobs/orchestrators.py`) | job spec, job ID, the head of the dataset | `prepare_remote`, `submit`, `follow`, `has_completed`, `status`, `get_failed_subjobs`, `fetch` | session, submitter, local and remote dataset |
| `reproman run` (`interface/run.py`) | none of its own | prepare, submit, register, follow, fetch, release, unregister | all of the above, the inventory |
| `reproman jobs` (`interface/jobs.py`), local registry | one file per job | list, show, delete, fetch; register, unregister | orchestrators, resurrected from the record |
| Resource manager (`resource/base.py`) | the inventory file and its copy in memory | create, delete, start, stop, find, save | backends; other processes through the file |
| Backends (`resource/*.py`) | container, host, EC2 instance | connect, create, start, stop, delete, session | Docker, ssh, AWS, Singularity |
| Sessions (`resource/session.py`) | environment of the session, files on both sides | execute, set and query variables, source a script, put, get | the resource |
| `execute --trace` (`interface/execute.py`) | the cached tracer, here and on the resource; directories of traces | fetch, unpack and run the tracer, collect the trace, report | sessions, other commands through the cache |
| `retrace`, tracers (`distributions/`) | the sets of files to consider, to trace and processed | identify packages, round after round | sessions, package managers |
| `diff`, spec objects (`interface/diff.py`, `distributions/base.py`) | none | compare, satisfy, subtract | |
| `install` (`interface/install.py`, `distributions/`) | packages, environments, images and repositories on the resource | initiate and install, kind by kind | sessions; the user, who works there too |
| Local dataset (`orchestrators.py`, `head_at`, the fetches) | HEAD, branches, worktree, refs of jobs | fetch, commit, merge, restore | the user, other fetches |
| Formats, config, constraints, command line, ui, utilities | | conversions and display | |

What is hard: subjobs that end in any order and share files without locks; a
barrier that counts files; a worktree that the last subjob resets under the
eyes of clients; two commands that fetch one job; commands that are interrupted
between launching and registering, or between fetching and unregistering; a
resource that is released by a callback in the middle of a fetch; batch systems
that do not answer, answer about one subjob, or forget; a HEAD that is moved and
must come back; a cache that commands fill while others run from it; installations
that are cut, tried again and meet work of the user; sets without an order.
PROJECT.json lists these
hazards at their lines, with the properties that watch over them.

What makes each part correct:

* the scripts: the completion marker only after every command has ended, whole
  results, a true list of failures, no barrier that never opens;
* the submitters: "completed" only when it is so, an early end only for a
  reason, an end to following;
* run, jobs and the orchestrators: no launched job lost, no job forgotten before
  its results are local, nothing fetched before completion, a true report, the
  resource released only after the fetch;
* the dataset on the resource: a job runs on its commit, keeps its files while
  it runs, and its ref marks its own results;
* the inventory: what exists is listed, with its status; a command changes its own
  entry only; no entry goes while its instance runs;
* job specs: the last source that says something wins, at every level, and the
  record of a job makes the same job again;
* sessions: a command sees what was set before it, and a transfer without an
  error is whole;
* traced execution: a command that is done ran under a whole tracer and reports
  its own trace;
* retracing: no path is lost, the loop ends where another round would find
  nothing, sources have unambiguous names;
* diff: a status of 0 is true;
* installation: all is set up, or a warning said what is not, or the command
  failed; and the user's repositories are not touched;
* the local dataset: after a fetch the user is where he was, and a job's ref has
  that job's results only.

## Modules

```
JobArray  <--implements--  RunScript
JobSpecs, Submitters  <- MCSubmission   (one after the other)
Tracers  <- Retrace
Retrace, Provision, Diff, Sessions, TracedExec, LocalHead
                      <- MCEnvironment  (one part in a behaviour)
```

`<-` is EXTENDS. JobLifecycle, RemoteDataset and Inventory stand by themselves.
`MCRunScript`, `MCJobLifecycle`, `MCRemoteDataset`, `MCInventory` and `MCProvision`
instantiate one module for TLC. The proofs:

| Proofs | About |
|---|---|
| `RunScriptProofs` | RunScript, JobArray |
| `ClientProofs` | JobLifecycle, RemoteDataset |
| `SubmittersProofs` | MCSubmission: JobSpecs, Submitters |
| `InventoryProofs` | Inventory |
| `ExecutionProofs` | Sessions, TracedExec, Provision, LocalHead |
| `SpecificationProofs` | Diff, Retrace |
| `EnvironmentProofs` | MCEnvironment, from the last two |
| `LeftFold` | folds over sequences; instantiated by SubmittersProofs and SpecificationProofs |

**JobArray** is the promise to the user: the command of each subjob ends at most
once, and the job is marked complete only when all have ended.

**RunScript** models the rendered shell script. `job` is how it was rendered
(`template`) and started (`order`, `slots`); `pc[i]` is the next command of
subjob `i`. One action is one command that another process can see, in the
order of `base.template.sh`:

| Action | Code |
|---|---|
| `Start` | the submission templates |
| `Begin`, `GetCommand`, `PreCommandFailure` | `base.template.sh` 18-39 |
| `Stamp` | `pre-run.template.sh` |
| `RunCommand`, `RecordSuccess`, `RecordFailure`, `MarkFailed` | the command block, 42-47; status and marker are two commands, so two actions |
| `Barrier` | `nstatus` and its loop, 55-63 |
| `Bundle`, `Save`, `CreateRef` | `post-run`, `datalad-save`, `create-ref` |
| `CheckClean`, `Reset` | the end of `datalad-pair-run.template.sh` |
| `Finish` | 70-71 |
| `Die` | `set -e` (line 5), or a kill by the batch system |

Data is abstract. A tarball or a commit is what it contains: status files,
failed markers and the subjobs whose output is in it. Time stamps become the
relation `older[i]`, the stamps that existed when subjob `i` wrote its output;
`pre-run.template.sh` sleeps a second after it stamps, which the model takes to
suffice. `ClientStatus` and `ClientFailed` are the orchestrator's reads, with
the fallback to the job's ref.

**JobLifecycle** has a process for each `reproman run` (named by its job) and
for each `reproman jobs` command. They share the registry (a job file is
`absent`, `empty`, or holds its `record`: `register()` opens and then dumps), the
local dataset, the inventory entry and the resource. What the script does is
reduced to two ends, `completed` or `broken`, and to what became of a failed subjob:
it has left its marker, it has not yet (`unmarked`: the script writes the status
first, and the last subjob looks at statuses only), or it did so late
(`MarkerArrives`). The steps of a command follow `Run.__call__`, `Jobs.__call__` and the
three `fetch` methods (`plain`, `datalad-pair`, and the tarball of
`datalad-pair-run` and `datalad-local-run`). `Interrupt` ends a command
anywhere. Whether an exception is logged (`OrchestratorError` in
`reproman jobs`) or ends the command (`ResourceError`) is modelled per step.
`Answers` is what `get_failed_subjobs()` may say: the subjobs that are marked, or an
empty list where its query fails; `AskFails` is what it raises instead. The code reads
it up to three times, for the log, for the callback and for the report, and each time
the answer may differ (`misread` notes that the last one of a run was wrong). With
`QueriesFail` a command may fail although the resource is up. A `stoppable` resource
(Docker, EC2) does not answer once it is stopped; a `deletable` one (Singularity) can be
deleted only, and its silence reads as an empty list; a `permanent` one (ssh, shell) has
neither. Fetching with `reproman jobs` loads all
records first and then works through the `queue`; queries may name a job twice.

**JobSpecs** is what `reproman run` does before it submits. A spec is a function
from parameters to values; a parameter within a mapping has a name of its own,
and `Within` says which mapping. `Load` combines files, `--job-parameter` and
options (`_combine_job_specs`), `Resolve` expands the batch parameters
(`_resolve_batch_parameters`; `CombineBatchParams` is `itertools.product`, one parameter
after the other) and finds command and resource, `Construct` is the
orchestrator with its `_prepare_spec`, `_datalad_check_container`,
`_datalad_format_command` and the expansion of patterns, and `SubmitAndRegister`
makes the record (`as_dict`). A later command may take that record as a job spec
file. The error paths are guards of their own (`BatchFails`, `ConstructFails`, an
empty file, a value where a mapping comes). `RunsAsAsked` computes what was asked
from the sources, independently of how the code combines them. It names what the
code does otherwise: a command that was typed over a `command_str` is recorded
beside it, so that a rerun takes the string; `container: null` keeps the command
that a record formed for its container, and so does the plain orchestrator.
A `resource_id`, as every record has one, goes before a `resource_name` that a
later file gives.

**Submitters** models `submit`, `status` and `follow` of the five submitters
against an external batch system that lists, starts, holds, suspends, ends and forgets
subjobs. `suspended` is every state in which a job can go on and that no submitter
knows by name. `Verdict` is the set of values `status` may have: PBS and LSF look at
one subjob of the answer, Condor and Slurm at all of them, `local` at one
process. `MCSubmission` puts the two together: `Hand` gives the submitter of the
last record to Submitters.

**RemoteDataset** has many jobs in the one worktree that all jobs of a dataset
share on a resource. `client[j]` is where `reproman run` is in preparing and
submitting job `j`, `script[j]` where the job's script is (one subjob: RunScript
has the barrier between subjobs). The dataset is `head`, a local commit and what
was added to it, and `work`, the files in the worktree.

| Action | Code |
|---|---|
| `Sibling`, `Check`, `Checkout` | `prepare_remote`, `_assert_clean_repo`, `_checkout_target` and `_fix_up_dataset` (`orchestrators.py`) |
| `Put`, `Launch`, `WriteIdmap` | `Orchestrator.submit`; the submission ID is written after the launch |
| `Command`, `ReadPrev`, `Save`, `CreateRef`, `ReadStatus`, `Reset`, `Complete` | the script, one git or DataLad command each |
| `GiveUp`, `Die` | an error or a kill, anywhere |

What keeps jobs apart in the code is only that a dirty worktree is refused, and
that a job under way has files that are not committed. That leaves windows in
which the worktree is clean although a job uses it: after the check of a job
until its files are put, and between its save and its ref or reset (`Busy`). The
code does not protect them. With `Overlap = FALSE` no other job's check falls into
such a window, as when one person submits one job after another; everything
else interleaves freely. With `Overlap = TRUE` it may, and the run
`dataset_overlap` shows what comes of it. The sibling's creation, the push and
the subdatasets are left to DataLad; inputs do not change the worktree's state.

**Inventory** has a process for each `create`, `delete`, `start`, `stop` and `ls
--refresh`, each with the inventory `mem[c]` that its own `ResourceManager` read
when it was made (a `reproman run --follow=stop` is a `stop` that takes as long as
the job). What the backends keep is `state`, the state of each instance (Docker
container, Singularity instance, EC2 machine), and `tagged`; ssh and shell
resources have none. A cluster (aws-condor) has an instance for each node.

| Action | Code |
|---|---|
| `Load` | `ResourceManager.__init__`, `_get_inventory`, the look-up; an emptied file makes it fail |
| `ConnectCreate`, `ConnectEntry`, `Refresh` | `connect()` of each backend: by the ID in the entry, or by name |
| `Make`, `Tag`, `StartContainer` | the calls of the backends' `create()`; a cluster's nodes are made in threads |
| `YieldHost`, `YieldContainer`, `YieldInstance`, `YieldNode`, `YieldCluster` | what a `create()` yields, put into the entry |
| `Act`, `ForceDelete` | `delete()`, `start()`, `stop()`, node by node; `delete --force` |
| `Truncate`, `Write` | `save_inventory()`: opening the file empties it |
| `Cut` | an error or a kill, anywhere |

Nothing locks the file. A command whose inventory another one has changed
(`outdated`) and that then writes (`raced`) undoes that change: the properties say
what holds until then, `ForceDelete` apart. Parameters of backends,
secrets, and references by ID are left out.

**Tracers** and **Retrace** model `identify_distributions`. A path is a name; the
file system and the databases of the package managers are constant records
(`Deb`, `Rpm`, `Conda`, `Venv`, `Vcs`, `Images`), and what the code finds by
running a command is looked up there. Each tracer is an operator from a set of
paths to the set of its outcomes: the distributions it yields, the paths it
leaves, and whether it raised. Python's sets have no order, so where the result
depends on one (the first file of a package, the numbers of APT sources, which
directory is tried as a repository first) there are several outcomes. `Retrace`,
`NewRound`, `RunTracer` and `EndRound` are the loop with its ten rounds, the
directories put aside for tracers that do not handle them, and the comparison of
two sizes that ends it.

**Provision** is `reproman install`: `Initiate` and then, per kind, the steps of
`install_packages`: `AptFile`, `AptLine`, `AptKey`, `AptUpdate`, `AptInstall`;
`YumRepos`, `YumInstall`; `CondaTmp`, `CondaRoot`, `CondaEnvironment`,
`CondaClean`; `Virtualenv`, `PipInstall`; `Inspect`, `Pull`; `GitRemote`,
`GitFetch`, `GitClone`, `GitAdd`, `GitRevision`, `GitCheckout`. The resource is new
or was used before (`SetUp`). Any command may fail (`CommandFails`), an installer
may stop half way, the command may be killed (`Killed`), and the user may work in
the repository and try again (`Again`). What the code passes over in silence is part
of it: packages of a virtual environment that are not local or are editable, and an
environment without any others (`Virtualenv`); a conda entry without a path
(`empty conda`); a snapshot page without a link to the next one (`AptLine`,
`NextLines`).

**Diff** is `SpecObject.compare` with `_satisfied_by` and `_identical_to`, the
subtraction of distributions, and `diff()` and `satisfies()` with their status and
what they show. A package has a name, a detail (architecture, build) and a
version, any but the name `Unstated`. What raises (two distributions of a type, a
type that is not handled, identities that cannot be sorted or printed) is a guard.

**Sessions** has one session of a backend: how it comes about (`Connect`, with the
second attempt by password; `GetLocalSession`; `GetSession`), the environment that
it collects (`SetEnvvar`, `DropEnvvar`, `FormatEnvvar`, `QueryEnvvars`,
`SourceScript`), a command (`ExecuteCommand`: what each backend makes of variables, of which all but
the local session export a None as an empty value (`Exported`), of directory and `sh
-c`, who reads the result, and the second attempt with `sudo`),
and the transfer of files and directories (`StartTransfer` to `Owner`; `CatFails` is the
pipe by which Singularity puts a file, whose first command may fail unseen). `wanted` is
what the calls have promised; it is the specification's own and no part of the code.

**TracedExec** has several commands `execute --trace` with one cache and one
resource, which may be the same (`shared`). Each step that leaves something in a
file is an action: the cache is opened before its checksum is compared
(`OpenLocal`, `WriteLocal`), the tracer is truncated and then unpacked
(`Truncate`, `Unpack`, `Chmod`). `KillTraced` cuts a command anywhere, a write in its
middle.

**LocalHead** is the local dataset under fetches. A commit is the set of what it
contains. `HeadAt` and `Restore` are the two ends of `head_at()`; between them come
`GetTarball`, `Extract`, `Unlink`, `CommitRun` and `UpdateRef`, each of which may fail
and then leads to `Restore`. `FetchRef`, `Merge` and `Conflict` are the fetch of
`datalad-pair`. The user edits, checks out and submits while no fetch is under
way. `disturbed` says that a fetch was cut, met another one, or could not restore:
the code does not exclude any of these, and nothing is asked of what follows.

## Runs

| Run | Shows | Bounds |
|---|---|---|
| `runscript` | type, `CompletedMeansAllEnded`, `ResultsAreWhole`, `FailuresKnown`, `StatusKnown`, `CompletesWithoutFaults`, and that RunScript implements JobArray | 3 subjobs, all templates, orders and slots. Three are the first, the last and one between; with them a failing subjob can be late while another one has been counted. |
| `runscript_failed_list` | *violation*: the failed list of a complete job can be wrong | 2 subjobs |
| `runscript_barrier` | *violation*: the last subjob never sees one that left with "pre-command failure" | 2 subjobs |
| `lifecycle` | type, `LaunchedIsKnown`, `UnregisteredIsFetched`, `FetchedIsCompleted`, `ReportIsTrue`, `ReleasedAfterFetch`, `FollowerEnds` | 1 job, one `reproman jobs` command, every `--follow`, at most 2 queries per command (`MaxQueries`), and commands that fail (`QueriesFail`). That is the least at which two fetch one job: a followed run and `reproman jobs`, which may also be given the job twice. Every read of the failed list may miss a late marker, come back empty or raise. More jobs and more commands are left to the theorems of ClientProofs. |
| `lifecycle_final_read` | *violation*: `reproman run` reads the failed list after it released the resource | 1 job, no other command |
| `lifecycle_conflict` | *violation*: after a merge conflict the outputs are lost with the resource | 1 job, no other command |
| `submission` | types, `RunsAsAsked`, `CompletedIsTrue`, `EarlyEndHasReason`, `FollowEnds` | 2 commands (`MaxRuns`), the second of which may start from the first one's record; five files (one empty), job parameters and options that overlap in every way the combination knows: a mapping changed in part, replaced by a value, a list by a text, one key twice. Two batch parameters, one with two values. Then 2 subjobs, 2 failing queries (`MaxFailures`): one that makes Condor change its method, and one after it. |
| `dataset` | type, `RanOnRequested`, `RefIsOwn`, `RunningKeepsFiles`, `DirtHasReason` | 3 jobs, 2 commits, no overlap. With three, one runs or lingers while two are prepared; two commits tell a job's target from another's. Jobs, and commits, are interchangeable: symmetry. |
| `dataset_overlap` | *violation*: a ref marks the commit of another job | 2 jobs, overlap |
| `inventory` | type, `LiveIsListed`, `StatusHasReason`, `OwnEntryOnly`, `DeleteLeavesNothing` | 3 commands, 2 names, all types, clusters of 2, up to the first race (`UpToFirstRace`). Three commands are a creation, a cut or concurrent second one, and a third that meets what they leave. At most one resource has instances (`OneBackend`), the other one is an ssh entry that could be lost; a cluster is alone. Commands, and names, are interchangeable: symmetry. |
| `environment` | types, `Accounted`, `Settles`, `SourcesResolve`; `InstalledOrSaid`, `UserWorkKept`; `StatusIsTrue`; `SeesItsEnvironment`, `DoneIsWhole`; `DoneIsTraced`; `FetchLeavesHead` | A behaviour is one of the six parts, which share no state. Retrace: up to 3 paths (`MaxInput`) out of 22 and a compiled file, on three systems: so any two paths, of one tracer or of two, meet. Provision: all kinds, two lines, one of which may find no link, two conda environments, two virtual ones (one with nothing to install), two digests, a repository with three remotes; 2 attempts (`MaxTries`), of which the first leaves what the second finds. Diff: up to two packages. Sessions: one variable with the values that shells treat differently, the empty one among them, which the resource does not set by itself (`MCInit`), 3 calls (`MaxCalls`), directories of 2 files. TracedExec: 2 users and 2 IDs, shared or not. LocalHead: 2 jobs, 2 branches, 1 edit (`MaxEdits`), up to the first meeting (`UpToFirstMeeting`). |
| `provision_grep` | *violation*: a dated source that is missing ends the installation | as `environment` |

Deadlock is not checked: scripts, commands and `follow()` end.

The six violations are real disagreements of code and text, described under
"findings" in PROJECT.json. In the scripts: the order of status and marker
(`base.template.sh:45`) and the pattern of `nstatus` (`:56`). In `reproman run`: the last
read of the failed list, of a resource that was released (`run.py:493`); the conflict
that is only warned of (`orchestrators.py:998`); the checkout for one job between the
save and the ref of another (`:724`). In `reproman install`: the `grep -q` whose failure
is taken for an error (`debian.py:234`).

Some disagreements have no run of their own: the model does what the code does, and the
passing property that touches one names it as an exception and holds in all other
cases.

* `ReportIsTrue`, `ReleasedAfterFetch`: the failed list may miss a marker that comes later
  than the completion marker, and is empty when the query for it fails, as it does of a
  singularity instance that has gone (`orchestrators.py:297-301`). A run of a failed job may
  then end with success, and `-if-success` releases a resource (`run.py:471-484`), although
  `test_run.py:319-323` has it otherwise. `misread` and `"unmarked"` are these cases.
* `EarlyEndHasReason`, `CompletedIsTrue`: a job that is suspended, or in another state that no
  list of the submitter has, is over for `follow()`, which is to exit "once it is finished"
  (`submitters.py:89`, `162-163`, `227-259`).
* `SeesItsEnvironment`: a variable given as None is to be removed (`session.py:95-96`,
  `186-187`), but `shlex.quote(None)` is `''`, so that on ssh, docker and singularity a command
  sees it, empty (`:624`).
* `DoneIsWhole`: Singularity puts a file by `cat ... | ... tee`, and the shell reports the end of
  `tee` only: a file that cannot be read arrives in part, without an error
  (`singularity.py:187-188`).
* `InstalledOrSaid`: passed over in silence are the packages of a virtual environment that
  are not local or are editable, and an environment of such packages only
  (`venv.py:69-76`), a conda entry without a path (`conda.py:174`), and a snapshot page without
  a link to the next (`debian.py:200`).

Every property of a passing run has a mutant: a plausible mistake in a modelled
definition (the operators marked "Mutant of") under which TLC finds the property
violated.

### Fairness

* RunScript: `WF(Start(i))` and `WF(Run(i))`. The batch system goes on starting
  and running subjobs. No fairness for `Die` and `PreCommandFailure`.
  `CompletesWithoutFaults` also assumes a start in order or a second slot:
  the last subjob holds its slot while it waits, and an array that is started in
  any order on one slot can hang.
* JobLifecycle: a command that was started goes on. No fairness for users who
  start commands, nor for jobs that end.
* RemoteDataset, Inventory and the six parts of `environment`: none; they have
  safety properties only. That the rounds of Retrace end is a safety property
  (`Settles`): their number is counted.
* Submitters, in `submission`: the loops of `follow()` and of `LSFSubmitter.submit()` go on, and
  LSF lists at last what it took. No fairness for the subjobs.

## Proofs

`RunScriptProofs` proves, for every `NumSubjobs \in Nat \ {0}` (the assumption
`NumSubjobsAssumption`; an empty command array is never submitted):

* `TypeCorrect`: `Spec => []TypeOK`;
* `CompletedCorrect`, `ResultsCorrect`, `StatusCorrect`: the invariants
  `CompletedMeansAllEnded`, `ResultsAreWhole` and `StatusKnown`;
* `FailuresCorrect`: the invariant `FailuresKnown`;
* `Implements`: `Spec => Abstract!Spec`, the refinement of JobArray.

None of the invariants is inductive. `Inductive` proves `IInv`, in five
parts: `TypeOK`; `ControlOK` (label, outcome and status file of a subjob agree
and only the last one passes its command); `StampOK` (a subjob has stamped
before it runs, so the oldest stamp is older than any output); `BarrierOK` (past
the barrier all commands have ended, and the status files say so until the
reset, when the ref does); `ResultsOK` (what exists at each label of the
post-command). The heart is the step of `Barrier`: the script knows a *number* of
matching files, and a lemma on cardinality turns "at least `NumSubjobs` of the
subjobs" into "all of them"; `ControlOK` then turns statuses into outcomes. The
number of slots plays no part. `FailuresCorrect` adds `MarkersOK`: markers are of failed
subjobs past their block only (`MarkersOfBad`), and each of these has its marker
(`AllMarked`) until the reset of `datalad-pair-run`, after which the commit, not the
directory, has it (`Wiped`).

`ClientProofs` proves, for any jobs, `reproman run` and `reproman jobs` commands and
number of queries (`LifecycleAssumption`: a command is not a job, and `--follow` has
one of its six values):

* `LifecycleType`, `LaunchedCorrect`, `UnregisterCorrect`, `FetchCorrect`: the
  invariants `TypeOK`, `LaunchedIsKnown`, `UnregisteredIsFetched` and
  `FetchedIsCompleted`;
* `ReportCorrect`, `ReleaseCorrect`: the action properties `ReportIsTrue` and
  `ReleasedAfterFetch`;
* `LifecycleInvariant`: `IInv`. The commands share everything, so what one of them
  relies on must survive the steps of the others. `IInv` says it command by command:
  `Placed(p)`, at which labels a command can be, with a job to be busy with;
  `Knows(p)`, what it has found out about that job (from the first step of a fetch
  on, that it has completed; before it unregisters, that the results are local);
  `SeesFailures(j)`, that what `reproman run` has read of its subjobs is so;
  `Accounts(j)`, that it leaves a job that can be found again, and a true report.

The argument is that these facts are stable. `Grows(p)` is what every step, of
whichever command, leaves true: a completed job stays so, results stay local, and a
job file goes only when the results are there or the user removes it. Each action is
shown to satisfy it; `OthersKeep` then carries the part of all other commands over
the step, and `StepKeeps` leaves the part of the command that moved. That a second
`reproman jobs` fetches the same job at the same time changes nothing in this.

Of the dataset on the resource `ClientProofs` proves, for any set of jobs and any
non-empty set of commits (`DatasetAssumption`), each from `Overlap = FALSE`:

* `DatasetType`, `RanCorrect`, `RefCorrect`, `FilesKept`: `DatasetTypeOK`,
  `RanOnRequested`, `RefIsOwn` and `RunningKeepsFiles` hold;
* `Isolated`: so does the inductive invariant behind them. `DatasetIInv` adds to
  `DatasetTypeOK`, `RanOnRequested` and `RefIsOwn`: `Isolation` (one job at most is
  under way, and what is not committed is its own or a late idmap); `OnTarget` (until
  its results are saved HEAD is its target and its files are in the worktree);
  `SavedOwn` (from the save to the reset HEAD holds its results and `prev_commit`
  is its target);
* `DirtCorrect`: `DirtHasReason`. It adds `Uncommitted`: what HEAD does not have is a
  late idmap or of a job whose script has not saved, or died.

The heart is the lemma `CleanIsIdle`: where a job finds the worktree clean, and
nobody is in a window, no job is under way, since a running one has files that
HEAD, a bare local commit, does not have. That is what `_assert_clean_repo()` is
worth.

`InventoryProofs` proves, for any commands, names, types and cluster sizes
(`InventoryAssumption`: the size is positive, and `None` is no command or name), two
layers. The first is about the file alone:

* `InventoryType`: `Spec => []TypeOK`. An entry is only worked on where there is one,
  which takes `EntryAtHand`: it relates the label of a command to its operation and
  its entry.
* `OwnEntryCorrect`: `Spec => OwnEntryOnly`. It rests on `MemoryIsCurrent`: while no
  other command has written since, a command's inventory differs from the file in
  its own entry only, or, when it refreshes, in statuses only;
* `Inductive`: `IInv`, the conjunction of the three.

The heart is the step of `Write`, which makes every other command under way
`outdated`, and the lemma `ChangesOwnEntry`, which goes through everything that a
command does to its inventory between reading and writing it.

The second layer relates the file, the inventories in memory and the instances at
the backend: `ListedCorrect`, `StatusCorrect` and `DeleteCorrect` prove `LiveIsListed`,
`StatusHasReason` and `DeleteLeavesNothing`. None is inductive, and `BackendIInv`, which
`BackendInductive` proves, adds two parts to `IInv`. `Places` holds always: which
commands have made which instances (`Made`), that of a name one Singularity instance
runs at a time (`OneRunning`), that an entry, in the file or in memory, names a
creation of its resource and nodes that were made (`Entries`), that nobody knows the
instance of a creation that has saved nothing (`Private`), and for each command
(`Place`) that it is connected to what belongs to its resource, that a creation holds
what it made, that an inventory that is the latest has the file's entry, and that what
`act` works on is the instance of the entry. `Unraced` holds until a command writes an
inventory that is out of date, which really does forget instances: the nodes of
an unfinished cluster are listed (`Cluster`), what was reported as created is listed
(`Created`), what a deletion is about to forget has gone (`Deleting`), and a status
that is not the instance's is owed to a command that has not come to its end
(`Reasons`). The last one is a statement about another command than the one that
steps: each step has to hand on the excuses of all names.

`ExecutionProofs` proves two theories of `Sessions`, for any variables, values, parts of
files and number of calls (`SessionsAssumption`: no marker is a plain value).
`EnvironmentInvariant` and `SeesCorrect`: a command sees what the calls before it
promised, `SeesItsEnvironment`. `PromiseKept` is the inductive part: for each variable
the dictionary of the session and the promise agree, or nothing is promised.
`SeesGiven` then goes through the ways in which a backend runs a command
(`WaysToRun`), and `QueryShows` through what a query of the variables brings back.
`TransferInvariant` and `TransferCorrect`: `DoneIsWhole`. The sources stay as they are
(`SourcesWhole`), and `Copying` says how far a transfer is: what is not among the
parts still to be copied has arrived whole (`HasAllBut`). `SessionsType` is the type
invariant of both.

Of traced execution it proves, for any users and IDs (`TracedAssumption`: the marks for
"no trace" are no users), `TracedType` and `TracedCorrect`: `DoneIsTraced`. The
invariant `TracedIInv` adds to the types `TracesHaveOwners` (a trace under an ID,
here or there, is that of a command with this ID whose program ran) and
`ReportsHaveTraces`. The cache needs no part of it: whatever is cut there, a
trace comes from `ExecuteTraced` with a whole tracer only.

Of installation it proves, for any specifications, lines, repositories and number
of attempts (`ProvisionAssumption`: a specification has distributions, the lists of
conda and virtual environments are not empty, and the commits of the repository are `Commits`),
`ProvisionType`, `InstalledCorrect`: `InstalledOrSaid`, and `UserWorkCorrect`:
`UserWorkKept`. `Facts` says what each step finds done by the steps before it,
`Progress` that each distribution is fine or still to do; the heart is `Monotone`: no
step undoes what is set up, not even a second attempt.

Of fetches into the local dataset it proves, for any branches and number of edits
(`LocalHeadAssumption`: a job is no tarball, and `Unknown` no job), `LocalHeadType` and
`LocalHeadCorrect`: `FetchLeavesHead`. `LocalHeadIInv` has, while nothing was disturbed,
`Alone` (one fetch at most is under way), `HeadKept` (the user's branch is checked out or
remembered), `Worktree` (what HEAD and the worktree hold at each step of the fetch, so
that the run commit takes in the results and nothing else) and `RefsRight`.

`SpecificationProofs` proves, for any paths, packages and databases
(`TracersAssumption`: a system has finitely many APT source lines and conda
environments), `SourcesCorrect`: `SourcesResolve`. `RetraceIInv` says of what earlier rounds
have found that every distribution of Debian resolves, and each tracer is shown to
append good distributions only. The heart is `NamesAreUnique`, that
`generate_unique_name()` gives no name twice: of two lines with one origin, archive and
component, the later one counts all that the earlier one counted, and that one too
(`LaterIsHigher`, on cardinalities); `SetToSeq`, the order of the lines, gives each a
place of its own (`OnePlaceEach`).

That no path vanishes is `AccountedCorrect`: `Accounted` (`RetraceAssumption`: there are
finitely many paths, what one of them leads to is a path, and the full form of a name
in the Singularity registry is neither in turn a short one nor in a virtualenv). Each of
the seven tracers is shown to account for what it gets (`TracerAccounts`): a path
is left for the next one, listed by a distribution, a directory of one, or the
interpreter of a virtualenv that stands for another path. `RetraceFollowed` says that
this holds of all paths given, after any tracer of any round, and `StillFollowed` that
the tracers compose: what one left, another one may take. `RetraceType` comes with it.
Conda, virtualenv, Singularity and the version control systems work through their paths
in some order, each step with what the steps before it have found. So do the lemmas
`CondaKept`, `VenvKept` and `VCSKept`, by an induction over that order.

It proves of comparison, for any specifications of packages (`DiffAssumption`:
packages are records of the three fields), `SatisfactionIsAPreorder` (what replaces a
distribution that replaces a third replaces that one) and `DiffCorrect`:
`StatusIsTrue`. The lemma `NothingShown` goes from an empty report to equal sets;
the dictionary, which keeps the last package of an identity, is why `Unique` is
needed.

`EnvironmentProofs` proves of the parts put together: `EachPart`, that each of the six
behaves as its own specification says, hence `PartsKeepTheirPromises`, and
`EnvironmentType`: `EnvironmentTypeOK`, with the type of comparison (`DiffType`).

`SubmittersProofs` proves, for any array, number of failing queries and choice of
the five submitters (`SubmittersAssumption`), `SubmittersType`, `CompletedCorrect`:
`CompletedIsTrue`, and `EarlyEndCorrect`: `EarlyEndHasReason`. `FollowIInv` adds `Taken`:
by the time `follow()` asks, the batch system has taken every subjob, and LSF has
shown one; it is what turns "not listed" into "over". The heart is
`VerdictHasReason`, a case for each submitter.

Of job specs it proves `RunsCorrect`: `RunsAsAsked`, for any job spec files,
parameters, options, batch parameters and patterns, and any number of commands, each of
which may start from the record of any earlier job (`NamesAssumption`: what the user
gives has no name with an underscore, and lists are sequences; `JobSpecsAssumption`:
mappings are one level deep). It has two layers:

* `SpecsIInv` is about parameters: up to the names that the run computes itself, the
  spec has at each step what the sources ask for. The lemma behind it is `CombineAsAsked`:
  combining from the left, each source over what came before it, gives every
  parameter the value of the last source that speaks of it or of its mapping;
* `RunsIInv` is about what is run. A spec under way has a command that is one of those
  asked for (`Commanded`), records that are (`Batched`), and from `Construct` on
  commands and files that were formed from these (`Formatted`). The hard case is the
  record of an earlier job as a source: it brings computed names with it. That they
  are still right is what `Recorded` says of a record: its computed parts are those
  that its own parameters would form again. `InternalFromFirst` says that only the
  first source brings any; `Unchanged`, that a record by itself comes through every
  step as it is, which gives `SameAgain`. `CombineEach` shows that
  `_combine_batch_params` makes every combination, and, where no value is given twice
  (`NoneTwice`), makes it once.

`SubmissionIInv` joins both to `FollowIInv` (`HandAssumption`: the submitters that a spec
can name are the five), so `HandedFollowCorrect` has `CompletedIsTrue` and
`EarlyEndHasReason` for the submitter of any record, and `SubmissionType` is
`SubmissionTypeOK`.

`LeftFold` is the induction that these need. The prover cannot take an operator as
the argument of a theorem, so the theorems of the library on induction are out of
reach; here the predicate is a set of naturals (`SetInduction`, from the well-foundedness
of `<`) and the operator of the fold a constant of the module, for which an INSTANCE
puts the model's operator: `CombineTwo`, `WithValues`, `Concatenate`, the steps of the
tracers. `Fold` says that `FoldLeft` has its accumulators, place by place; `FoldKeeps`
and `FoldReaches` that what each step keeps, or one step reaches and the later ones keep,
holds of the result.

Left to TLC:

* liveness (`CompletesWithoutFaults`, `FollowerEnds`, `FollowEnds`), which is beyond the
  prover, and so is ENABLED, on which fairness rests;
* `Settles`, that retracing comes to rest within its ten rounds, and where another round
  would find nothing. Whether it does depends on how deep the paths of a system lead to
  one another, and the loop compares sizes, not sets; no assumption short of the
  property itself would give it for every system. The instance has environments with
  packages from checkouts, and images named by other names.

## Not modelled

Formats, configuration, constraints, command line, user interface and most
helpers convert or display and keep no state over time. How the output of dpkg,
apt-cache, rpm, conda, pip and git is parsed is left out: tracers get its records.
Also left out: secrets, key pairs, images and other parameters of backends;
references to resources by ID, which find the same entries; `reproman_exec`; the
transfer of data by git-annex; the configuration of a dataset's siblings; the text
of reports. Batch systems, git, git-annex and DataLad are external and appear by
what the code expects of them. The `list` and `show` actions of `reproman jobs`
read only. Job IDs are taken to be distinct in the models of jobs; TracedExec
lets its IDs be equal. A command's own memory is lost when it ends.
`datalad-no-remote` fetches nothing and is left out of JobLifecycle.

## What could come next

1. **Proofs**: one abstract specification of a job from its launch to its fetch, which
   JobLifecycle implements, joined to what RunScript promises at `completed`.
2. **LocalHead beyond the first meeting**: two fetches in one dataset are not kept
   apart by the code; once they are, `disturbed` can be narrowed to kills.
3. **Parsing** as operators, where a misread record changes what is identified.
