----------------------------- MODULE RunScript ------------------------------
(***************************************************************************)
(* The shell script that ReproMan renders for a job and that the batch     *)
(* system starts once per subjob (job_templates/runscript/*.sh).  The      *)
(* subjobs share the job's metadata directory and nothing else: each keeps *)
(* its state in a status file, adds itself to the directory "failed" when  *)
(* its command fails, and the last one waits at a barrier built from the   *)
(* status files before it runs the post-command and marks completion.      *)
(*                                                                         *)
(* One step is one shell command that other subjobs or the client can see. *)
(* A subjob may be killed, or be aborted by "set -e", between two steps.   *)
(***************************************************************************)
EXTENDS Naturals, FiniteSets

CONSTANT NumSubjobs       \* _num_subjobs

ASSUME NumSubjobsAssumption == NumSubjobs \in Nat \ {0}

Sub  == 0 .. NumSubjobs - 1
Last == NumSubjobs - 1

VARIABLES
  job,        \* how the script was rendered and submitted; never changes
  pc,         \* the next command of each subjob
  status,     \* the worktree's status.$subjob files
  failedDir,  \* the worktree's failed/$subjob files
  outcome,    \* how the command of each subjob ended, if it did
  stamps,     \* the pre-finished.$subjob files
  older,      \* the stamps that are older than the output of each subjob
  tarball,    \* outputs/$jobid.tar.gz
  commit,     \* the commit that "datalad save" makes
  ref,        \* whether refs/reproman/$jobid exists
  completed   \* whether completed/$jobid exists

files == <<status, failedDir, stamps, older>>
results == <<tarball, commit, ref, completed>>
vars == <<job, pc, outcome, files, results>>

\* The templates, by orchestrator. datalad-no-remote renders datalad-pair.
Templates == {"plain", "datalad-pair", "datalad-local-run", "datalad-pair-run"}

\* GNU parallel and launcher start the subjobs in order, batch systems in any.
Jobs == [template : Templates, order : {"seq", "array"}, slots : 1 .. NumSubjobs]

Stamped == job.template \in {"datalad-local-run", "datalad-pair-run"}
Saved   == job.template \in {"datalad-pair", "datalad-pair-run"}

Statuses == {"none", "submitted", "pre-command failure", "running", "succeeded", "failed"}
Outcomes == {"none", "ok", "bad"}
Waiting  == {"queued"}
PostPcs  == {"bundle", "save", "ref", "check", "reset", "finish"}
Ended    == {"done", "dead"}
Pcs == Waiting \cup {"begin", "stamp", "get", "command", "record", "mark", "barrier"}
               \cup PostPcs \cup Ended

\* What a tarball or a commit holds: the status files, the failed markers and
\* the subjobs whose output is in it.
Snapshots == [taken : BOOLEAN, status : [Sub -> Statuses], failed : SUBSET Sub, out : SUBSET Sub]
NoSnapshot == [taken |-> FALSE, status |-> [i \in Sub |-> "none"], failed |-> {}, out |-> {}]
-----------------------------------------------------------------------------
Init ==
    /\ job \in Jobs
    /\ pc = [i \in Sub |-> "queued"]
    /\ status = [i \in Sub |-> "none"]
    /\ failedDir = {}
    /\ outcome = [i \in Sub |-> "none"]
    /\ stamps = {}
    /\ older = [i \in Sub |-> {}]
    /\ tarball = NoSnapshot
    /\ commit = NoSnapshot
    /\ ref = FALSE
    /\ completed = FALSE

Goto(i, label) == pc' = [pc EXCEPT ![i] = label]
SetStatus(i, s) == status' = [status EXCEPT ![i] = s]

Active == {i \in Sub : pc[i] \notin Waiting \cup Ended}

\* The submitter starts a subjob in a free slot.
Start(i) ==
    /\ pc[i] = "queued"
    /\ Cardinality(Active) < job.slots
    /\ job.order = "seq" => \A j \in 0 .. i - 1 : pc[j] # "queued"
    /\ Goto(i, "begin")
    /\ UNCHANGED <<job, outcome, files, results>>

Begin(i) ==
    /\ pc[i] = "begin"
    /\ SetStatus(i, "submitted")
    /\ Goto(i, IF Stamped THEN "stamp" ELSE "get")
    /\ UNCHANGED <<job, outcome, failedDir, stamps, older, results>>

\* pre-run.template.sh. The sleep puts later output in a later second.
Stamp(i) ==
    /\ pc[i] = "stamp"
    /\ stamps' = stamps \cup {i}
    /\ Goto(i, "get")
    /\ UNCHANGED <<job, outcome, status, failedDir, older, results>>

GetCommand(i) ==
    /\ pc[i] = "get"
    /\ SetStatus(i, "running")
    /\ Goto(i, "command")
    /\ UNCHANGED <<job, outcome, failedDir, stamps, older, results>>

\* get_command prints nothing.
PreCommandFailure(i) ==
    /\ pc[i] = "get"
    /\ SetStatus(i, "pre-command failure")
    /\ Goto(i, "dead")
    /\ UNCHANGED <<job, outcome, failedDir, stamps, older, results>>

\* The command ends; its output is on disk, well or badly.
RunCommand(i) ==
    /\ pc[i] = "command"
    /\ \E how \in {"ok", "bad"} : outcome' = [outcome EXCEPT ![i] = how]
    /\ older' = [older EXCEPT ![i] = stamps]
    /\ Goto(i, "record")
    /\ UNCHANGED <<job, status, failedDir, stamps, results>>

AfterCommand(i) == IF i = Last THEN "barrier" ELSE "done"

\* The && branch of the command block.
RecordSuccess(i) ==
    /\ pc[i] = "record"
    /\ outcome[i] = "ok"
    /\ SetStatus(i, "succeeded")
    /\ Goto(i, AfterCommand(i))
    /\ UNCHANGED <<job, outcome, failedDir, stamps, older, results>>

\* The || branch, up to its first command.
RecordFailure(i) ==
    /\ pc[i] = "record"
    /\ outcome[i] = "bad"
    /\ SetStatus(i, "failed")
    /\ Goto(i, "mark")
    /\ UNCHANGED <<job, outcome, failedDir, stamps, older, results>>

\* Mutant of MarkFailed: the marker is named by _reproman_cmd_idx.
MarkByCommandIndex(i) ==
    /\ pc[i] = "mark"
    /\ failedDir' = failedDir \cup {i + 1}
    /\ Goto(i, AfterCommand(i))
    /\ UNCHANGED <<job, outcome, status, stamps, older, results>>

\* mkdir -p failed && touch failed/$subjob
MarkFailed(i) ==
    /\ pc[i] = "mark"
    /\ failedDir' = failedDir \cup {i}
    /\ Goto(i, AfterCommand(i))
    /\ UNCHANGED <<job, outcome, status, stamps, older, results>>
-----------------------------------------------------------------------------
\* Mutants of Counted: the pattern forgets failures, or takes a started subjob.
CountedSucceeded == {i \in Sub : status[i] = "succeeded"}
CountedStarted == {i \in Sub : status[i] \in {"running", "succeeded", "failed"}}

\* The status files that match '^(succeed|fail)'.
Counted == {i \in Sub : status[i] \in {"succeeded", "failed"}}

\* First command of the post_command block that follows.
PostCommand == IF Stamped THEN "bundle" ELSE IF Saved THEN "save" ELSE "finish"

\* Mutant of Barrier: the last subjob does not wait for the one before it.
BarrierOffByOne(i) ==
    /\ pc[i] = "barrier"
    /\ Cardinality(Counted) >= NumSubjobs - 1
    /\ Goto(i, PostCommand)
    /\ UNCHANGED <<job, outcome, files, results>>

\* The loop of the last subjob sees enough status files and is left.
Barrier(i) ==
    /\ pc[i] = "barrier"
    /\ Cardinality(Counted) >= NumSubjobs
    /\ Goto(i, PostCommand)
    /\ UNCHANGED <<job, outcome, files, results>>

\* Mutant of NewerThanOldestStamp: "tail" instead of "head" of the sorted stamps.
NewerThanNewestStamp == {i \in Sub : outcome[i] # "none" /\ older[i] = stamps}

\* Output that "find -newermt" finds: newer than the oldest stamp.
NewerThanOldestStamp == {i \in Sub : outcome[i] # "none" /\ older[i] # {}}

\* post-run.template.sh: the metadata files and the output that is new.
Bundle(i) ==
    /\ pc[i] = "bundle"
    /\ tarball' = [taken |-> TRUE, status |-> status, failed |-> failedDir,
                   out |-> NewerThanOldestStamp]
    /\ Goto(i, IF Saved THEN "save" ELSE "finish")
    /\ UNCHANGED <<job, outcome, files, commit, ref, completed>>

Save(i) ==
    /\ pc[i] = "save"
    /\ commit' = [taken |-> TRUE, status |-> status, failed |-> failedDir,
                  out |-> {j \in Sub : outcome[j] # "none"}]
    /\ Goto(i, "ref")
    /\ UNCHANGED <<job, outcome, files, tarball, ref, completed>>

CreateRef(i) ==
    /\ pc[i] = "ref"
    /\ ref' = TRUE
    /\ Goto(i, IF Stamped THEN "check" ELSE "finish")
    /\ UNCHANGED <<job, outcome, files, tarball, commit, completed>>

\* git status --porcelain prints nothing
WorktreeClean == status = commit.status /\ failedDir = commit.failed

\* datalad-pair-run: a dirty worktree is reported and left as it is.
CheckClean(i) ==
    /\ pc[i] = "check"
    /\ Goto(i, IF WorktreeClean THEN "reset" ELSE "finish")
    /\ UNCHANGED <<job, outcome, files, results>>

\* git reset --hard removes from the worktree what the commit added.
Reset(i) ==
    /\ pc[i] = "reset"
    /\ status' = [j \in Sub |-> IF commit.status[j] = "none" THEN status[j] ELSE "none"]
    /\ failedDir' = failedDir \ commit.failed
    /\ Goto(i, "finish")
    /\ UNCHANGED <<job, outcome, stamps, older, results>>

Finish(i) ==
    /\ pc[i] = "finish"
    /\ completed' = TRUE
    /\ Goto(i, "done")
    /\ UNCHANGED <<job, outcome, files, tarball, commit, ref>>

\* A command of the script fails under "set -e", or the subjob is killed.
Die(i) ==
    /\ i \in Active
    /\ Goto(i, "dead")
    /\ UNCHANGED <<job, outcome, files, results>>

Run(i) ==
    \/ Begin(i) \/ Stamp(i) \/ GetCommand(i) \/ RunCommand(i)
    \/ RecordSuccess(i) \/ RecordFailure(i) \/ MarkFailed(i)
    \/ Barrier(i) \/ Bundle(i) \/ Save(i) \/ CreateRef(i)
    \/ CheckClean(i) \/ Reset(i) \/ Finish(i)

Next == \E i \in Sub : Start(i) \/ Run(i) \/ PreCommandFailure(i) \/ Die(i)

\* The batch system keeps starting subjobs and running those it started; it
\* is not bound to kill one, nor a command to be missing.
Fairness == \A i \in Sub : WF_vars(Start(i)) /\ WF_vars(Run(i))

Spec == Init /\ [][Next]_vars
FairSpec == Spec /\ Fairness
-----------------------------------------------------------------------------
\* What a client on the same machine reads of the job (Orchestrator).

HasRef == Saved /\ ref

\* Mutants of ClientStatus and ClientFailed: the ref is not consulted.
WorktreeStatus == status[0]
WorktreeFailed == failedDir

\* get_status(subjob 0), with the fallback of the DataLad orchestrators.
ClientStatus == IF status[0] = "none" /\ HasRef THEN commit.status[0] ELSE status[0]

\* get_failed_subjobs: the ref is read only when the worktree lists nothing.
ClientFailed == IF failedDir = {} /\ HasRef THEN commit.failed ELSE failedDir
-----------------------------------------------------------------------------
TypeOK ==
    /\ job \in Jobs
    /\ pc \in [Sub -> Pcs]
    /\ status \in [Sub -> Statuses]
    /\ failedDir \subseteq Sub
    /\ outcome \in [Sub -> Outcomes]
    /\ stamps \subseteq Sub
    /\ older \in [Sub -> SUBSET Sub]
    /\ tarball \in Snapshots
    /\ commit \in Snapshots
    /\ ref \in BOOLEAN
    /\ completed \in BOOLEAN

Bad == {i \in Sub : outcome[i] = "bad"}

\* The status file that belongs to an outcome.
StatusOf(o) == IF o = "ok" THEN "succeeded" ELSE IF o = "bad" THEN "failed" ELSE "none"

AllEnded == \A i \in Sub : outcome[i] # "none"

\* A snapshot holds the results of the whole job: the output of every subjob
\* and the status each one ended with.
WholeJob(snapshot) ==
    /\ AllEnded
    /\ snapshot.out = Sub
    /\ \A i \in Sub : snapshot.status[i] = StatusOf(outcome[i])

\* The completion marker is what "reproman jobs" trusts before it fetches:
\* once it exists every command has ended, and the tarball and the ref that
\* the fetch of this orchestrator reads exist as well.
CompletedMeansAllEnded ==
    completed =>
        /\ AllEnded
        /\ Stamped => tarball.taken
        /\ Saved => commit.taken /\ ref

\* Neither the tarball nor the commit misses an output or a status of any
\* subjob, in whatever order the subjobs stamped, ran and ended.
ResultsAreWhole ==
    /\ tarball.taken => WholeJob(tarball)
    /\ commit.taken => WholeJob(commit)

\* When a job is complete and all its scripts ran to their end, a client sees
\* exactly the failures there were. (FailedListIsComplete has no exception.)
FailuresKnown ==
    completed /\ (\A i \in Sub : pc[i] = "done")
              /\ (job.template = "datalad-pair-run" => commit.failed = Bad)
        => ClientFailed = Bad

\* The status a client reads (that of subjob 0) agrees with what happened
\* once the job is complete, although datalad-pair-run wiped the worktree.
StatusKnown == completed => ClientStatus = StatusOf(outcome[0])

\* If no subjob dies and the last one cannot keep the only slot from others,
\* the job completes.
CompletesWithoutFaults ==
    [](\A i \in Sub : pc[i] # "dead") /\ [](job.order = "seq" \/ job.slots > 1)
        => <>completed

\* The inductive invariant, in four parts. Each subjob's label, outcome and
\* status file agree, and only the last one gets past its command.
ControlOK ==
    \A i \in Sub :
        /\ pc[i] \in {"queued", "begin", "stamp", "get", "command"} => outcome[i] = "none"
        /\ pc[i] \in {"record", "mark", "barrier", "done"} \cup PostPcs => outcome[i] # "none"
        /\ pc[i] \in {"barrier"} \cup PostPcs => i = Last
        /\ status[i] \in {"succeeded", "failed"} => status[i] = StatusOf(outcome[i])

\* A subjob stamps before it runs, so the oldest stamp is older than any output.
StampOK ==
    Stamped => \A i \in Sub :
        /\ pc[i] \in {"get", "command"} => i \in stamps
        /\ outcome[i] # "none" => older[i] # {}

\* Past the barrier every command has ended, and the status files say so until
\* the worktree is reset, when the ref says it instead.
BarrierOK ==
    /\ pc[Last] \in PostPcs \/ completed => AllEnded
    /\ pc[Last] \in PostPcs \ {"finish"} => \A i \in Sub : status[i] = StatusOf(outcome[i])
    /\ pc[Last] = "finish" \/ completed =>
          \A i \in Sub : status[i] = StatusOf(outcome[i]) \/ (status[i] = "none" /\ HasRef)

\* What the post-command has produced by the time it reaches a label.
ResultsOK ==
    /\ pc[Last] = "bundle" => Stamped
    /\ pc[Last] \in {"save", "ref", "check", "reset"} => Saved
    /\ Stamped /\ (pc[Last] \in PostPcs \ {"bundle"} \/ completed) => tarball.taken
    /\ Saved /\ (pc[Last] \in {"ref", "check", "reset", "finish"} \/ completed) => commit.taken
    /\ Saved /\ (pc[Last] \in {"check", "reset", "finish"} \/ completed) => ref
    /\ ResultsAreWhole

IInv == TypeOK /\ ControlOK /\ StampOK /\ BarrierOK /\ ResultsOK

\* The script keeps the promise of JobArray.
Abstract == INSTANCE JobArray WITH Subjobs <- Sub
AbstractSpec == Abstract!Spec
-----------------------------------------------------------------------------
\* orchestrators.py calls this the "List of failed subjobs". A subjob writes
\* "failed" to its status file before it touches its marker, so the last one
\* may save, and reset, before the marker exists: the late marker is then all
\* a client sees, and hides the committed ones.
FailedListIsComplete ==
    completed /\ (\A i \in Sub : pc[i] = "done") => ClientFailed = Bad

\* The two places where the script leaves by itself.
HasExited(i) == pc[i] = "done" \/ status[i] = "pre-command failure"

\* base.template.sh says that "the last job waits until it sees that all other
\* jobs have exited and then runs the post-command stuff". A subjob that exits
\* with "pre-command failure" is never seen, and the last one waits for ever.
BarrierOpens ==
    pc[Last] = "barrier" /\ (\A i \in Sub \ {Last} : HasExited(i)) ~> pc[Last] # "barrier"
=============================================================================
