--------------------------- MODULE RemoteDataset ----------------------------
(***************************************************************************)
(* The dataset on the resource that all jobs of one local dataset share    *)
(* (PrepareRemoteDataladMixin, and the run scripts of datalad-pair and     *)
(* datalad-pair-run).  "reproman run" checks the job's commit out in it    *)
(* and puts the job's files there; the job's script commits its results,   *)
(* marks the commit with the job's ref and, for datalad-pair-run, resets   *)
(* HEAD.  What keeps jobs apart is that a dirty worktree is refused.       *)
(*                                                                         *)
(* Files are abstract: those that submit() puts, the idmap that it writes  *)
(* after the launch, and the results.  A commit is the local commit it     *)
(* goes back to and the files that were added.                             *)
(***************************************************************************)
EXTENDS FiniteSets

CONSTANTS DatasetJob, \* the jobs
          Commit,     \* the commits of the local dataset
          None,       \* no commit
          Overlap     \* may a job be prepared while another is put or finishes?

ASSUME DatasetAssumption == Commit # {} /\ None \notin Commit /\ Overlap \in BOOLEAN

VARIABLES
  orc,     \* the orchestrator of each job; never changes
  target,  \* Orchestrator.head, the commit each job is to run on; never changes
  client,  \* where each "reproman run" is
  script,  \* where each job's script is
  exists,  \* whether the sibling was created
  head,    \* its HEAD
  work,    \* the files in its worktree
  prev,    \* prev_commit of each script
  ref,     \* refs/reproman/$jobid
  ranOn    \* the commit that each job's command saw

request == <<orc, target>>
git == <<exists, head, work>>
remoteVars == <<request, client, script, git, prev, ref, ranOn>>

File == DatasetJob \X {"meta", "idmap", "results"}
State == [base : Commit, files : SUBSET File]
Local(c) == [base |-> c, files |-> {}]
NoCommit == Local(None)

Clients == {"sibling", "check", "checkout", "put", "launch", "idmap", "out"}
Scripts == {"none", "command", "prev", "save", "ref", "status", "reset", "finish", "done", "dead"}
-----------------------------------------------------------------------------
DatasetInit ==
    /\ orc \in [DatasetJob -> {"datalad-pair", "datalad-pair-run"}]
    /\ target \in [DatasetJob -> Commit]
    /\ client = [j \in DatasetJob |-> "sibling"]
    /\ script = [j \in DatasetJob |-> "none"]
    /\ exists = FALSE
    /\ \E c \in Commit : head = Local(c)
    /\ work = {}
    /\ prev = [j \in DatasetJob |-> NoCommit]
    /\ ref = [j \in DatasetJob |-> NoCommit]
    /\ ranOn = [j \in DatasetJob |-> None]

GoClient(j, label) == client' = [client EXCEPT ![j] = label]
GoScript(j, label) == script' = [script EXCEPT ![j] = label]

\* An OrchestratorError, another error or an interrupt ends "reproman run".
GiveUp(j) ==
    /\ client[j] # "out"
    /\ GoClient(j, "out")
    /\ UNCHANGED <<request, script, git, prev, ref, ranOn>>

\* git status --porcelain --untracked-files=normal
DirtyFiles == work # head.files

\* "git checkout" and "git reset --hard": tracked files become those of the
\* commit, untracked ones stay.
Switch(state) ==
    /\ head' = state
    /\ work' = (work \ head.files) \cup state.files

\* The windows in which a clean worktree is about to change or to be used.
Busy(j) == client[j] \in {"checkout", "put"} \/ script[j] \in {"ref", "status", "reset"}
-----------------------------------------------------------------------------
(* prepare_remote() and submit() *)

\* create_sibling() skips one that exists; push() brings the local commits.
Sibling(j) ==
    /\ client[j] = "sibling"
    /\ exists' = TRUE
    /\ IF exists THEN UNCHANGED <<head, work>> ELSE head' = Local(target[j]) /\ UNCHANGED work
    /\ GoClient(j, "check")
    /\ UNCHANGED <<request, script, prev, ref, ranOn>>

\* Mutant of Check: the worktree is not looked at.
CheckNothing(j) ==
    /\ client[j] = "check"
    /\ ~Overlap => \A k \in DatasetJob : ~Busy(k)
    /\ GoClient(j, "checkout")
    /\ UNCHANGED <<request, script, git, prev, ref, ranOn>>

\* _assert_clean_repo(); a dirty one is given up.
Check(j) ==
    /\ client[j] = "check"
    /\ ~Overlap => \A k \in DatasetJob : ~Busy(k)
    /\ ~DirtyFiles
    /\ GoClient(j, "checkout")
    /\ UNCHANGED <<request, script, git, prev, ref, ranOn>>

\* Mutants of Checkout: HEAD stays, or is left at what was saved on the target.
CheckoutNothing(j) ==
    /\ client[j] = "checkout"
    /\ GoClient(j, "put")
    /\ UNCHANGED <<request, script, git, prev, ref, ranOn>>
CheckoutOther(j) ==
    /\ client[j] = "checkout"
    /\ IF head.base = target[j] THEN UNCHANGED <<head, work>> ELSE Switch(Local(target[j]))
    /\ GoClient(j, "put")
    /\ UNCHANGED <<request, script, exists, prev, ref, ranOn>>

\* _checkout_target(), unless HEAD is there; then the subdatasets follow.
Checkout(j) ==
    /\ client[j] = "checkout"
    /\ IF head = Local(target[j]) THEN UNCHANGED <<head, work>> ELSE Switch(Local(target[j]))
    /\ GoClient(j, "put")
    /\ UNCHANGED <<request, script, exists, prev, ref, ranOn>>

\* The runscript, the submit file, the command array and the spec.
Put(j) ==
    /\ client[j] = "put"
    /\ work' = work \cup {<<j, "meta">>}
    /\ GoClient(j, "launch")
    /\ UNCHANGED <<request, script, exists, head, prev, ref, ranOn>>

Launch(j) ==
    /\ client[j] = "launch"
    /\ GoScript(j, "command")
    /\ GoClient(j, "idmap")
    /\ UNCHANGED <<request, git, prev, ref, ranOn>>

HasDirectory(j) == \E f \in work : f[1] = j

\* The submission ID is written into the metadata directory, if that is still
\* there: the script is running already.
WriteIdmap(j) ==
    /\ client[j] = "idmap"
    /\ HasDirectory(j)
    /\ work' = work \cup {<<j, "idmap">>}
    /\ GoClient(j, "out")
    /\ UNCHANGED <<request, script, exists, head, prev, ref, ranOn>>
-----------------------------------------------------------------------------
(* The script. It dies when its metadata directory is gone. *)

\* Mutant of Command: datalad-pair-run does not read prev_commit.
CommandNoPrev(j) ==
    /\ script[j] = "command"
    /\ <<j, "meta">> \in work
    /\ work' = work \cup {<<j, "results">>}
    /\ ranOn' = [ranOn EXCEPT ![j] = head.base]
    /\ GoScript(j, "save")
    /\ UNCHANGED <<request, client, exists, head, prev, ref>>

Command(j) ==
    /\ script[j] = "command"
    /\ <<j, "meta">> \in work
    /\ work' = work \cup {<<j, "results">>}
    /\ ranOn' = [ranOn EXCEPT ![j] = head.base]
    /\ GoScript(j, IF orc[j] = "datalad-pair-run" THEN "prev" ELSE "save")
    /\ UNCHANGED <<request, client, exists, head, prev, ref>>

\* prev_commit=$(git rev-parse HEAD)
ReadPrev(j) ==
    /\ script[j] = "prev"
    /\ prev' = [prev EXCEPT ![j] = head]
    /\ GoScript(j, "save")
    /\ UNCHANGED <<request, client, git, ref, ranOn>>

\* datalad save . .reproman: whatever lies in the worktree.
Save(j) ==
    /\ script[j] = "save"
    /\ head' = [head EXCEPT !.files = work]
    /\ GoScript(j, "ref")
    /\ UNCHANGED <<request, client, exists, work, prev, ref, ranOn>>

\* git update-ref refs/reproman/$jobid HEAD
CreateRef(j) ==
    /\ script[j] = "ref"
    /\ ref' = [ref EXCEPT ![j] = head]
    /\ GoScript(j, IF orc[j] = "datalad-pair-run" THEN "status" ELSE "finish")
    /\ UNCHANGED <<request, client, git, prev, ranOn>>

\* Only a clean worktree is reset.
ReadStatus(j) ==
    /\ script[j] = "status"
    /\ GoScript(j, IF DirtyFiles THEN "finish" ELSE "reset")
    /\ UNCHANGED <<request, client, git, prev, ref, ranOn>>

\* Mutant of Reset: "--soft" leaves the files of the run in the worktree.
ResetSoft(j) ==
    /\ script[j] = "reset"
    /\ head' = prev[j]
    /\ GoScript(j, "finish")
    /\ UNCHANGED <<request, client, exists, work, prev, ref, ranOn>>

Reset(j) ==
    /\ script[j] = "reset"
    /\ Switch(prev[j])
    /\ GoScript(j, "finish")
    /\ UNCHANGED <<request, client, exists, prev, ref, ranOn>>

\* touch completed/$jobid, outside the dataset
Complete(j) ==
    /\ script[j] = "finish"
    /\ GoScript(j, "done")
    /\ UNCHANGED <<request, client, git, prev, ref, ranOn>>

Die(j) ==
    /\ script[j] \notin {"none", "done", "dead"}
    /\ GoScript(j, "dead")
    /\ UNCHANGED <<request, client, git, prev, ref, ranOn>>
-----------------------------------------------------------------------------
ClientStep(j) ==
    \/ Sibling(j) \/ Check(j) \/ Checkout(j) \/ Put(j) \/ Launch(j) \/ WriteIdmap(j) \/ GiveUp(j)

ScriptStep(j) ==
    \/ Command(j) \/ ReadPrev(j) \/ Save(j) \/ CreateRef(j)
    \/ ReadStatus(j) \/ Reset(j) \/ Complete(j) \/ Die(j)

DatasetNext == \E j \in DatasetJob : ClientStep(j) \/ ScriptStep(j)

DatasetSpec == DatasetInit /\ [][DatasetNext]_remoteVars
-----------------------------------------------------------------------------
DatasetTypeOK ==
    /\ orc \in [DatasetJob -> {"datalad-pair", "datalad-pair-run"}]
    /\ target \in [DatasetJob -> Commit]
    /\ client \in [DatasetJob -> Clients]
    /\ script \in [DatasetJob -> Scripts]
    /\ exists \in BOOLEAN
    /\ head \in State
    /\ work \subseteq File
    /\ prev \in [DatasetJob -> State \cup {NoCommit}]
    /\ ref \in [DatasetJob -> State \cup {NoCommit}]
    /\ ranOn \in [DatasetJob -> Commit \cup {None}]

\* A job's command runs on the commit that was requested for it.
RanOnRequested == \A j \in DatasetJob : ranOn[j] \in {None, target[j]}

\* A commit holds the results of job j, and of no other job, on top of the commit
\* that was requested.
OwnResults(commit, j) ==
    /\ commit.base = target[j]
    /\ {k \in DatasetJob : <<k, "results">> \in commit.files} = {j}

\* A job's ref, once there, marks the results of that job alone.
RefIsOwn == \A j \in DatasetJob : ref[j] # NoCommit => OwnResults(ref[j], j)

\* Nothing takes a running script its files away before it has saved them.
RunningKeepsFiles ==
    \A j \in DatasetJob : script[j] \in {"command", "prev", "save"} => <<j, "meta">> \in work

\* When all is quiet the worktree is clean, for the next job to be accepted,
\* but for an idmap that came after the save, and for jobs that were cut short.
DirtHasReason ==
    (\A j \in DatasetJob : client[j] = "out" /\ script[j] \in {"none", "done", "dead"}) =>
        \A f \in work \ head.files : f[2] = "idmap" \/ script[f[1]] \in {"none", "dead"}

\* The inductive invariant when jobs do not overlap. A job is under way from its
\* checkout until its script has left HEAD alone for good.
UnderWay(j) ==
    \/ client[j] \in {"checkout", "put", "launch"}
    \/ script[j] \in {"command", "prev", "save", "ref", "status", "reset"}

\* One job at most is, and what is not committed, late idmaps aside, is its own.
Isolation ==
    /\ \A j, k \in DatasetJob : UnderWay(j) /\ UnderWay(k) => j = k
    /\ \A j \in DatasetJob : client[j] = "check" \/ UnderWay(j) => exists
    /\ \A j \in DatasetJob : UnderWay(j) =>
          \A f \in work \ head.files : f[1] = j \/ f[2] = "idmap"
    /\ \A j \in DatasetJob : script[j] # "none" => client[j] \in {"idmap", "out"}

\* Until its results are saved HEAD is its target and the worktree is dirty.
Running(j) == client[j] = "launch" \/ script[j] \in {"command", "prev", "save"}

OnTarget ==
    \A j \in DatasetJob :
        /\ client[j] = "put" \/ Running(j) => head = Local(target[j])
        /\ Running(j) => <<j, "meta">> \in work

\* Then HEAD is the commit of its results, and prev_commit its target.
SavedOwn ==
    \A j \in DatasetJob :
        /\ script[j] \in {"prev", "save"} => <<j, "results">> \in work
        /\ script[j] = "ref" => OwnResults(head, j)
        /\ script[j] \in {"status", "reset"} => orc[j] = "datalad-pair-run"
        /\ script[j] \in {"save", "ref", "status", "reset"} /\ orc[j] = "datalad-pair-run"
              => prev[j] = Local(target[j])

DatasetIInv == DatasetTypeOK /\ Isolation /\ OnTarget /\ SavedOwn /\ RanOnRequested /\ RefIsOwn
-----------------------------------------------------------------------------
\* DataladPairOrchestrator: "On completion, the HEAD on the remote will be a
\* commit recording changes from the run. It is marked with a git ref". When
\* another job is prepared between the save and the ref, HEAD is that job's.
MarkedOnCompletion ==
    \A j \in DatasetJob :
        script[j] = "done" => ref[j] # NoCommit /\ <<j, "results">> \in ref[j].files
=============================================================================
