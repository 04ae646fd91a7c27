---------------------------- MODULE JobLifecycle ----------------------------
(***************************************************************************)
(* The life of jobs seen from the user's machine.  "reproman run" prepares *)
(* the resource, launches the job, registers it locally and, with          *)
(* --follow, waits for it, fetches it, releases the resource and           *)
(* unregisters it (interface/run.py).  "reproman jobs" fetches or deletes  *)
(* registered jobs (interface/jobs.py).  Every command is a process of its *)
(* own, may be interrupted anywhere, and shares with the others the local  *)
(* registry, the local dataset, the inventory and the resource.            *)
(*                                                                         *)
(* What happens to the job on the resource is RunScript's business; here   *)
(* it ends complete, or broken (its completion marker never comes).        *)
(***************************************************************************)
EXTENDS Naturals, Sequences

CONSTANTS Job,        \* the jobs; each is also the "reproman run" that makes it
          Client,     \* the "reproman jobs" commands
          Follow,     \* the values of --follow that are considered
          MaxQueries, \* bound: queries given to one "reproman jobs" command
          QueriesFail \* whether a command run on a resource that is up may fail

ASSUME LifecycleAssumption ==
    /\ Follow \subseteq {"no", "yes", "stop", "stop-if-success", "delete", "delete-if-success"}
    /\ Job \cap Client = {}
    /\ MaxQueries \in Nat \ {0}
    /\ QueriesFail \in BOOLEAN

Proc == Job \cup Client

VARIABLES
  spec,      \* how each job was requested; never changes
  kind,      \* docker and EC2 can be stopped and deleted, singularity deleted only
  pc,        \* where each command is
  queue,     \* the job records a "reproman jobs" command loaded and has to fetch
  seen,      \* whether the failed list that a command read was non-empty
  result,    \* how a command ended
  remote,    \* the job on the resource
  failed,    \* whether some subjob failed, and left a marker of it in failed/
  misread,   \* history: the last query of a run's own took marked failures for none
  machine,   \* the resource itself
  listed,    \* whether the inventory lists the resource
  registry,  \* the job files of the local registry
  removed,   \* who removed a job file: a fetch or the user
  local,     \* what the local dataset has of the results
  tars       \* the tarballs that lie in the local dataset

requests == <<spec, kind>>
jobs == <<remote, failed, misread>>
resource == <<machine, listed>>
files == <<registry, removed>>
dataset == <<local, tars>>
vars == <<requests, pc, queue, seen, result, jobs, resource, files, dataset>>

\* The orchestrators, by the way they fetch. datalad-run is datalad-pair-run and
\* datalad-local-run; datalad-no-remote has nothing to fetch.
Orchestrators == {"plain", "datalad-pair", "datalad-run"}
Specs == [orc : Orchestrators, follow : Follow]

IfSuccess(j) == spec[j].follow \in {"stop-if-success", "delete-if-success"}
DoDelete(j)  == spec[j].follow \in {"delete", "delete-if-success"}
Releases(j)  == spec[j].follow \notin {"no", "yes"}
Up == machine = "up"

\* A failed subjob writes its status before its marker, and the job may complete in
\* between: "unmarked", and "late" once the marker came after all.
Bad(j) == failed[j] # "no"
Marked(j) == failed[j] \in {"marked", "late"}

RunPcs   == {"prepare", "submit", "register", "dump", "follow", "final"}
JobsPcs  == {"idle", "load", "resurrect"}
FetchPcs == {"fetch", "failed", "merge", "outputs", "head", "tarball",
             "finish", "delete", "extract", "commit", "unregister"}
Pcs == RunPcs \cup JobsPcs \cup FetchPcs \cup {"exit"}
Results == {"none", "ok", "JobError", "error", "interrupted"}
-----------------------------------------------------------------------------
Init ==
    /\ spec \in [Job -> Specs]
    /\ kind \in {"stoppable", "deletable", "permanent"}
    /\ pc = [p \in Proc |-> IF p \in Job THEN "prepare" ELSE "idle"]
    /\ queue = [c \in Client |-> <<>>]
    /\ seen = [p \in Proc |-> FALSE]
    /\ result = [p \in Proc |-> "none"]
    /\ remote = [j \in Job |-> "absent"]
    /\ failed = [j \in Job |-> "no"]
    /\ misread = [j \in Job |-> FALSE]
    /\ machine = "up"
    /\ listed = TRUE
    /\ registry = [j \in Job |-> "absent"]
    /\ removed = [j \in Job |-> "no"]
    /\ local = [j \in Job |-> "none"]
    /\ tars = {}

Goto(p, label) == pc' = [pc EXCEPT ![p] = label]

\* The job a command is busy with.
Cur(p) == IF p \in Job THEN p ELSE Head(queue[p]).job

\* Its memory goes with the command.
End(p, how) ==
    /\ Goto(p, "exit")
    /\ result' = [result EXCEPT ![p] = how]
    /\ queue' = [c \in Client |-> IF c = p THEN <<>> ELSE queue[c]]
    /\ seen' = [seen EXCEPT ![p] = FALSE]

\* "reproman jobs" goes on with the next record.
NextJob(c) ==
    \/ Len(queue[c]) = 1 /\ End(c, "ok")
    \/ /\ Len(queue[c]) > 1
       /\ queue' = [queue EXCEPT ![c] = Tail(@)]
       /\ Goto(c, "resurrect")
       /\ UNCHANGED <<result, seen>>

\* A leftover tarball, or extracted files without a commit.
Dirty == tars # {} \/ \E j \in Job : local[j] = "files"

world == <<requests, jobs, resource, files, dataset>>

Exit(p, how) == End(p, how) /\ UNCHANGED world

Skip(c) == NextJob(c) /\ UNCHANGED world

\* An OrchestratorError ends "reproman run"; "reproman jobs" logs it.
OrchestratorError(p) == IF p \in Client THEN Skip(p) ELSE Exit(p, "error")

\* Talking to a stopped or deleted resource raises what nobody catches.
ResourceError(p) == ~Up /\ Exit(p, "error")
-----------------------------------------------------------------------------
(* The job on the resource. *)

\* The last subjob touches the completion marker.
RemoteCompletes(j) ==
    /\ remote[j] = "running"
    /\ Up
    /\ remote' = [remote EXCEPT ![j] = "completed"]
    /\ \E how \in {"no", "unmarked", "marked"} : failed' = [failed EXCEPT ![j] = how]
    /\ UNCHANGED <<requests, pc, queue, seen, result, misread, resource, files, dataset>>

\* A failed subjob that was slow to make its marker makes it, or never does.
MarkerArrives(j) ==
    /\ failed[j] = "unmarked"
    /\ Up
    /\ failed' = [failed EXCEPT ![j] = "late"]
    /\ UNCHANGED <<requests, pc, queue, seen, result, remote, misread, resource, files, dataset>>

\* The script stops short of the marker; the batch system calls the job ended.
RemoteBreaks(j) ==
    /\ remote[j] = "running"
    /\ remote' = [remote EXCEPT ![j] = "broken"]
    /\ UNCHANGED <<requests, pc, queue, seen, result, failed, misread, resource, files, dataset>>
-----------------------------------------------------------------------------
(* get_failed_subjobs() *)

\* The answer, TRUE for a list with subjobs: what is marked; or, when the queries
\* fail, an empty list.  They do when a singularity instance has gone, which the
\* orchestrators that look into git notice.
Answers(j) ==
    {heard \in BOOLEAN :
        \/ Up /\ heard = Marked(j)
        \/ ~heard /\ IF Up THEN QueriesFail ELSE kind = "deletable" /\ spec[j].orc # "datalad-pair"}

\* ... or none: the resource is lost, the directory is there but does not list,
\* or the job's ref does not.
AskFails(p) ==
    \/ ResourceError(p)
    \/ QueriesFail /\ (spec[Cur(p)].orc # "plain" \/ Bad(Cur(p))) /\ OrchestratorError(p)

Hears(p, heard) == misread' = [j \in Job |-> IF j = p THEN Marked(j) /\ ~heard ELSE misread[j]]
-----------------------------------------------------------------------------
(* reproman run *)

\* The resource may not be in the inventory any more, the DataLad orchestrators
\* refuse a dirty local dataset, and orc.prepare_remote() a dirty remote one.
Prepare(j) ==
    /\ pc[j] = "prepare"
    /\ \/ ResourceError(j)
       \/ OrchestratorError(j)
       \/ /\ Up /\ listed
          /\ spec[j].orc # "plain" => ~Dirty
          /\ Goto(j, "submit")
          /\ UNCHANGED <<requests, queue, seen, result, jobs, resource, files, dataset>>

\* Mutant of Submit: only a detached job is registered.
SubmitFollowed(j) ==
    /\ pc[j] = "submit"
    /\ Up
    /\ remote' = [remote EXCEPT ![j] = "running"]
    /\ Goto(j, IF spec[j].follow = "no" THEN "register" ELSE "follow")
    /\ UNCHANGED <<requests, queue, seen, result, failed, misread, resource, files, dataset>>

\* orc.submit(): the files are put first; the submit command starts the job. An
\* error after that, without a submission ID or in writing the idmap, is still
\* an error of submit().
Submit(j) ==
    /\ pc[j] = "submit"
    /\ \/ ResourceError(j)
       \/ Exit(j, "error")
       \/ /\ Up
          /\ remote' = [remote EXCEPT ![j] = "running"]
          /\ (Goto(j, "register") /\ UNCHANGED <<queue, seen, result>>) \/ End(j, "error")
          /\ UNCHANGED <<requests, failed, misread, resource, files, dataset>>

\* lreg.register(): the job file is created empty ...
Register(j) ==
    /\ pc[j] = "register"
    /\ registry' = [registry EXCEPT ![j] = "empty"]
    /\ Goto(j, "dump")
    /\ UNCHANGED <<requests, queue, seen, result, jobs, resource, removed, dataset>>

\* ... and the record is dumped into it. The write goes to the open file, so it
\* does not bring back a file that was unlinked in between.
Dump(j) ==
    /\ pc[j] = "dump"
    /\ registry' = [registry EXCEPT ![j] = IF @ = "empty" THEN "record" ELSE @]
    /\ IF spec[j].follow = "no" THEN End(j, "ok")
                               ELSE Goto(j, "follow") /\ UNCHANGED <<queue, result, seen>>
    /\ UNCHANGED <<requests, jobs, resource, removed, dataset>>

\* Mutant of HasCompleted: that the job ended is taken for its completion.
HasEnded(j) == Up /\ remote[j] \in {"completed", "broken"}

\* Session.exists() answers False for any error, a lost resource included; that a
\* query fails is an alternative where this is used.
HasCompleted(j) == Up /\ remote[j] = "completed"

\* Mutant of FollowJob: it waits for the marker, without the error.
FollowUntilCompleted(j) ==
    /\ pc[j] = "follow"
    /\ HasCompleted(j)
    /\ Goto(j, "fetch")
    /\ UNCHANGED <<requests, queue, seen, result, jobs, resource, files, dataset>>

\* orc.follow(): the submitter says that the job ended, which some say early,
\* or loses the resource; only the completion marker counts.
FollowJob(j) ==
    /\ pc[j] = "follow"
    /\ \/ ResourceError(j)
       \/ (QueriesFail \/ ~HasCompleted(j)) /\ OrchestratorError(j)
       \/ /\ HasCompleted(j)
          /\ Goto(j, "fetch")
          /\ UNCHANGED <<requests, queue, seen, result, jobs, resource, files, dataset>>

\* Mutant of Final: the failed subjobs are not asked for.
FinalSilent(j) == pc[j] = "final" /\ Exit(j, "ok")

\* After lreg.unregister(): orc.get_failed_subjobs() of a resource that may have
\* been released, and JobError if there are.
Final(j) ==
    /\ pc[j] = "final"
    /\ \/ AskFails(j)
       \/ \E heard \in Answers(j) :
             /\ Hears(j, heard)
             /\ End(j, IF heard THEN "JobError" ELSE "ok")
             /\ UNCHANGED <<requests, remote, failed, resource, files, dataset>>
-----------------------------------------------------------------------------
(* reproman jobs *)

Registered == {j \in Job : registry[j] # "absent"}

\* find_job_files() and the match of the queries, which may repeat a job.
FindJobs(c) ==
    /\ pc[c] = "idle"
    /\ \/ Registered = {} /\ Exit(c, "ok")
       \/ \E n \in 1 .. MaxQueries : \E matched \in [1 .. n -> Registered] :
             /\ queue' = [queue EXCEPT ![c] = [k \in 1 .. n |-> [job |-> matched[k], loaded |-> FALSE]]]
             /\ Goto(c, "load")
             /\ UNCHANGED <<result, seen, world>>

\* --action delete removes the job files, and nothing on the resource.
DeleteJobs(c) ==
    /\ pc[c] = "idle"
    /\ \E S \in (SUBSET Registered) \ {{}} :
          /\ registry' = [j \in Job |-> IF j \in S THEN "absent" ELSE registry[j]]
          /\ removed' = [j \in Job |-> IF j \in S THEN "user" ELSE removed[j]]
    /\ End(c, "ok")
    /\ UNCHANGED <<requests, jobs, resource, dataset>>

\* All records are loaded before any is fetched. A file that is gone by then
\* raises; one that is still empty loads as None.
LoadJobs(c) ==
    /\ pc[c] = "load"
    /\ LET found == {queue[c][k].job : k \in DOMAIN queue[c]} IN
       \/ ~(found \subseteq Registered) /\ Exit(c, "error")
       \/ /\ found \subseteq Registered
          /\ queue' = [queue EXCEPT ![c] =
                [k \in DOMAIN @ |-> [job |-> @[k].job, loaded |-> registry[@[k].job] = "record"]]]
          /\ Goto(c, "resurrect")
          /\ UNCHANGED <<result, seen, world>>

\* _resurrect_orc() of the next record, and the check of its completion.
Resurrect(c) ==
    /\ pc[c] = "resurrect"
    /\ \/ ~Head(queue[c]).loaded /\ Exit(c, "error")
       \/ Head(queue[c]).loaded /\ (QueriesFail \/ ~(listed /\ HasCompleted(Cur(c)))) /\ Skip(c)
       \/ /\ Head(queue[c]).loaded /\ listed /\ HasCompleted(Cur(c))
          /\ Goto(c, "fetch")
          /\ UNCHANGED <<queue, result, seen, world>>
-----------------------------------------------------------------------------
(* orc.fetch(), in "reproman run" and in "reproman jobs" *)

FetchStep(p, orchestrator, label) == pc[p] = label /\ spec[Cur(p)].orc = orchestrator

ReadFailed(p, next) ==
    \E heard \in Answers(Cur(p)) :
        /\ seen' = [seen EXCEPT ![p] = heard]
        /\ Hears(p, heard)
        /\ Goto(p, next)
        /\ UNCHANGED <<requests, queue, result, remote, failed, resource, files, dataset>>

Bring(p, what, next) ==
    /\ local' = [local EXCEPT ![Cur(p)] = what]
    /\ Goto(p, next)
    /\ UNCHANGED <<requests, queue, result, seen, jobs, resource, files, tars>>

\* session.get() of the outputs, which may be missing, then of status, stdout and stderr.
PlainGet(p) ==
    /\ FetchStep(p, "plain", "fetch")
    /\ ResourceError(p) \/ Exit(p, "error") \/ (Up /\ Bring(p, "full", "failed"))

PlainFailed(p) ==
    /\ FetchStep(p, "plain", "failed")
    /\ AskFails(p) \/ ReadFailed(p, "finish")

PairFailed(p) ==
    /\ FetchStep(p, "datalad-pair", "fetch")
    /\ AskFails(p) \/ ReadFailed(p, "merge")

\* The ref is fetched and merged. After a conflict, which is only warned of,
\* the outputs are not brought over.
PairMerge(p) ==
    /\ FetchStep(p, "datalad-pair", "merge")
    /\ \/ ResourceError(p)
       \/ Up /\ Bring(p, IF local[Cur(p)] = "full" THEN "full" ELSE "ref", "finish")
       \/ Up /\ Bring(p, IF local[Cur(p)] = "full" THEN "full" ELSE "ref", "outputs")

\* ds.get(path=outputs)
PairOutputs(p) ==
    /\ FetchStep(p, "datalad-pair", "outputs")
    /\ ResourceError(p) \/ Exit(p, "error") \/ (Up /\ Bring(p, "full", "finish"))

\* No tarball, or a lost resource, is an OrchestratorError.
RunFailed(p) ==
    /\ FetchStep(p, "datalad-run", "fetch")
    /\ \/ (QueriesFail \/ ~Up) /\ OrchestratorError(p)
       \/ Up /\ (AskFails(p) \/ ReadFailed(p, "head"))

\* head_at() refuses a dirty dataset.
RunHead(p) ==
    /\ FetchStep(p, "datalad-run", "head")
    /\ \/ Dirty /\ OrchestratorError(p)
       \/ /\ ~Dirty
          /\ Goto(p, "tarball")
          /\ UNCHANGED <<queue, result, seen, world>>

RunTarball(p) ==
    /\ FetchStep(p, "datalad-run", "tarball")
    /\ \/ ResourceError(p)
       \/ /\ Up
          /\ tars' = tars \cup {Cur(p)}
          /\ Goto(p, "finish")
          /\ UNCHANGED <<requests, queue, result, seen, jobs, resource, files, local>>

\* log_failed(), before on_remote_finish: an empty list is asked for again, and of
\* the answer only an error counts; datalad-pair gets the job's files if there are
\* failed subjobs.
LogFails(p) ==
    /\ pc[p] = "finish"
    /\ \/ ~seen[p] /\ AskFails(p)
       \/ spec[Cur(p)].orc = "datalad-pair" /\ (seen[p] \/ Marked(Cur(p))) /\ Exit(p, "error")

\* Mutants of AfterFinish: the tarball is left alone, or put to a step there is not.
AfterFinishNoExtract(p) == "unregister"
AfterFinishUnknown(p) == "extractall"

AfterFinish(p) == IF spec[Cur(p)].orc = "datalad-run" THEN "extract" ELSE "unregister"

\* Mutant of Finish: "-if-success" is not looked at.
FinishAnyway(p) ==
    /\ pc[p] = "finish"
    /\ IF p \in Job /\ Releases(p)
       THEN /\ machine # "gone"
            /\ machine' = IF kind = "stoppable" THEN "stopped" ELSE machine
            /\ Goto(p, IF DoDelete(p) THEN "delete" ELSE AfterFinish(p))
            /\ UNCHANGED <<requests, queue, result, seen, jobs, listed, files, dataset>>
       ELSE Goto(p, AfterFinish(p)) /\ UNCHANGED <<queue, result, seen, world>>

\* on_remote_finish, up to manager.stop(), which is logged and nothing else for a
\* resource that cannot be stopped. A "reproman jobs" command has none.
Finish(p) ==
    /\ pc[p] = "finish"
    /\ IF p \in Job /\ Releases(p) /\ ~(seen[p] /\ IfSuccess(p))
       THEN \/ machine = "gone" /\ kind = "stoppable" /\ Exit(p, "error")
            \/ /\ machine = "gone" => kind # "stoppable"
               /\ machine' = IF kind = "stoppable" THEN "stopped" ELSE machine
               /\ Goto(p, IF DoDelete(p) THEN "delete" ELSE AfterFinish(p))
               /\ UNCHANGED <<requests, queue, result, seen, jobs, listed, files, dataset>>
       ELSE Goto(p, AfterFinish(p)) /\ UNCHANGED <<queue, result, seen, world>>

\* manager.delete(): the resource first, the inventory after it.
Delete(p) ==
    /\ pc[p] = "delete"
    /\ \/ machine = "gone" /\ Exit(p, "error")
       \/ /\ machine # "gone"
          /\ machine' = IF kind = "permanent" THEN machine ELSE "gone"
          /\ listed' = FALSE
          /\ Goto(p, AfterFinish(p))
          /\ UNCHANGED <<requests, queue, result, seen, jobs, files, dataset>>

\* tarfile.open() raises when another command has unlinked the tarball.
RunExtract(p) ==
    /\ FetchStep(p, "datalad-run", "extract")
    /\ \/ Cur(p) \notin tars /\ Exit(p, "error")
       \/ /\ Cur(p) \in tars
          /\ tars' = tars \ {Cur(p)}
          /\ local' = [local EXCEPT ![Cur(p)] = IF @ = "full" THEN "full" ELSE "files"]
          /\ Goto(p, "commit")
          /\ UNCHANGED <<requests, queue, result, seen, jobs, resource, files>>

\* The run commit and the job's ref.
RunCommit(p) ==
    /\ FetchStep(p, "datalad-run", "commit")
    /\ OrchestratorError(p) \/ Bring(p, "full", "unregister")

\* lreg.unregister()
Unregister(p) ==
    /\ pc[p] = "unregister"
    /\ registry' = [registry EXCEPT ![Cur(p)] = "absent"]
    /\ removed' = [removed EXCEPT ![Cur(p)] = IF registry[Cur(p)] = "absent" THEN @ ELSE "fetch"]
    /\ IF p \in Job THEN Goto(p, "final") /\ UNCHANGED <<queue, result, seen>> ELSE NextJob(p)
    /\ UNCHANGED <<requests, jobs, resource, dataset>>
-----------------------------------------------------------------------------
\* A command is killed, or the user presses Ctrl-C.
Interrupt(p) ==
    /\ pc[p] \notin {"prepare", "idle", "exit"}
    /\ Exit(p, "interrupted")

RunStep(j) ==
    \/ Prepare(j) \/ Submit(j) \/ Register(j) \/ Dump(j) \/ FollowJob(j) \/ Final(j)

JobsStep(c) == LoadJobs(c) \/ Resurrect(c)

FetchedStep(p) ==
    \/ PlainGet(p) \/ PlainFailed(p)
    \/ PairFailed(p) \/ PairMerge(p) \/ PairOutputs(p)
    \/ RunFailed(p) \/ RunHead(p) \/ RunTarball(p) \/ RunExtract(p) \/ RunCommit(p)
    \/ LogFails(p) \/ Finish(p) \/ Delete(p) \/ Unregister(p)

Next ==
    \/ \E j \in Job : RunStep(j) \/ RemoteCompletes(j) \/ MarkerArrives(j) \/ RemoteBreaks(j)
    \/ \E c \in Client : FindJobs(c) \/ DeleteJobs(c) \/ JobsStep(c)
    \/ \E p \in Proc : FetchedStep(p) \/ Interrupt(p)

\* A command that was started goes on. Nothing makes a user start one, nor a
\* job end.
Fairness ==
    /\ \A j \in Job : WF_vars(RunStep(j) \/ FetchedStep(j))
    /\ \A c \in Client : WF_vars(JobsStep(c) \/ FetchedStep(c))

Spec == Init /\ [][Next]_vars
FairSpec == Spec /\ Fairness
-----------------------------------------------------------------------------
Records == [job : Job, loaded : BOOLEAN]

TypeOK ==
    /\ spec \in [Job -> Specs]
    /\ kind \in {"stoppable", "deletable", "permanent"}
    /\ pc \in [Proc -> Pcs]
    /\ queue \in [Client -> Seq(Records)]
    /\ seen \in [Proc -> BOOLEAN]
    /\ result \in [Proc -> Results]
    /\ remote \in [Job -> {"absent", "running", "completed", "broken"}]
    /\ failed \in [Job -> {"no", "unmarked", "late", "marked"}]
    /\ misread \in [Job -> BOOLEAN]
    /\ machine \in {"up", "stopped", "gone"}
    /\ listed \in BOOLEAN
    /\ registry \in [Job -> {"absent", "empty", "record"}]
    /\ removed \in [Job -> {"no", "fetch", "user"}]
    /\ local \in [Job -> {"none", "ref", "files", "full"}]
    /\ tars \subseteq Job

\* A launched job can be found again: it has a job file, or the user or a fetch
\* removed that, or its "reproman run" is about to register it. It is orphaned
\* only when that command was interrupted, or raised, and ended.
LaunchedIsKnown ==
    \A j \in Job :
        remote[j] # "absent" =>
            \/ registry[j] # "absent" \/ removed[j] # "no"
            \/ pc[j] = "register"
            \/ pc[j] = "exit" /\ result[j] \in {"interrupted", "error"}

\* A job file is never removed by a fetch before the results are local: those
\* of the whole job, or the ref alone when the merge met a conflict.
UnregisteredIsFetched ==
    \A j \in Job :
        removed[j] = "fetch" =>
            local[j] = "full" \/ (spec[j].orc = "datalad-pair" /\ local[j] = "ref")

\* Nothing is fetched of a job that has not completed.
FetchedIsCompleted ==
    \A j \in Job : local[j] # "none" \/ j \in tars => remote[j] = "completed"

\* What "reproman run" reports of a followed job is true: success means that the
\* results were fetched and that, when it asked at the end, no failed subjob had a
\* marker, or that query failed and was taken for an empty list; JobError means that
\* the results were fetched and a subjob failed.
ReportIsTrue ==
    [][\A j \in Job :
        /\ result[j] = "none" /\ result'[j] = "ok" /\ spec[j].follow # "no" =>
              /\ remote[j] = "completed" /\ local[j] # "none"
              /\ Marked(j) => misread'[j]
        /\ result[j] = "none" /\ result'[j] = "JobError" => Bad(j) /\ local[j] # "none"]_vars

\* A followed run that releases the resource does so only after it has brought
\* over what its orchestrator fetches, and "-if-success" never when a subjob had
\* failed and made its marker in time, unless the query for it failed.
ReleasedAfterFetch ==
    [][machine' # machine \/ listed' # listed =>
          \E j \in Job :
              /\ Releases(j) /\ pc[j] \in {"finish", "delete"}
              /\ local[j] # "none" \/ j \in tars
              /\ IfSuccess(j) => failed[j] # "marked" \/ misread[j]]_vars

\* A "reproman run --follow" whose job has ended ends too.
FollowerEnds ==
    \A j \in Job :
        pc[j] = "follow" /\ remote[j] \in {"completed", "broken"} ~> pc[j] = "exit"
-----------------------------------------------------------------------------
\* test_run_and_follow_action expects JobError from a followed run with a failed
\* subjob for every action: but the failed list is read once more, after a
\* resource that can be stopped is stopped or deleted.
FailedRunRaisesJobError ==
    \A j \in Job :
        removed[j] = "fetch" /\ failed[j] = "marked" /\ pc[j] = "exit"
            => result[j] \in {"JobError", "interrupted"}

\* DataladPairOrchestrator promises "a `datalad get` call to fetch the specified
\* outputs". After a merge conflict there is none, but the resource is released.
OutputsBeforeRelease ==
    \A j \in Job : machine = "gone" /\ removed[j] = "fetch" => local[j] = "full"
=============================================================================
