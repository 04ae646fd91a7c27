----------------------------- MODULE Submitters -----------------------------
(***************************************************************************)
(* Submitting an array of subjobs to a batch system and following it until *)
(* it is over (support/jobs/submitters.py).  The submitters differ in what *)
(* they make of the batch system's answer, of no answer and of a query     *)
(* that fails.  The batch system is external: it is modelled from the      *)
(* states and the orders of answers the submitters handle.                 *)
(***************************************************************************)
EXTENDS Naturals, FiniteSets

CONSTANTS Subjob,        \* the subjobs of the array
          Submitter,     \* the submitters considered
          MaxFailures    \* bound: queries that fail

ASSUME SubmittersAssumption ==
    /\ Submitter \subseteq {"pbs", "condor", "slurm", "local", "lsf"}
    /\ MaxFailures \in Nat

VARIABLES
  submitter,   \* the one in use; never changes
  pc,          \* where Orchestrator.submit() or follow() is
  id,          \* submission_id: "none" or "known"
  json,        \* CondorSubmitter._status_method is _status_json
  job,         \* the batch system's state of each subjob
  failures,    \* queries that have failed
  verdict      \* what follow() made of the last answer

client == <<submitter, pc, id, json, failures, verdict>>
vars == <<client, job>>

\* "suspended" is every state that no submitter knows by name although the job can
\* still go on: suspended, and what PBS and Slurm say of a job in between.
States == {"absent", "hidden", "pending", "running", "held", "suspended",
           "completed", "failed", "forgotten"}
Verdicts == {"none", "waiting", "completed", "unknown"}
Ended == {"completed", "failed", "forgotten"}

\* Every subjob has come to its end, well or badly.
AllEnded == \A i \in Subjob : job[i] \in Ended

\* What a query lists. A batch system forgets ended jobs after a while.
Listed == {i \in Subjob : job[i] \notin {"absent", "hidden", "forgotten"}}
In(states) == {i \in Listed : job[i] \in states}
-----------------------------------------------------------------------------
Init ==
    /\ submitter \in Submitter
    /\ pc = "submit"
    /\ id = "none"
    /\ json = TRUE
    /\ job = [i \in Subjob |-> "absent"]
    /\ failures = 0
    /\ verdict = "none"

\* The submit command fails.
SubmitFails ==
    /\ pc = "submit"
    /\ pc' = "raised"
    /\ UNCHANGED <<submitter, id, json, job, failures, verdict>>

\* What submit() makes of what the submit command printed: the job's ID or
\* nothing, which Condor, Slurm and LSF take apart and raise.
Raised == [id |-> "none", pc |-> "raised"]
PbsId(out) == [id |-> out, pc |-> "follow"]
CondorId(out) == IF out = "none" THEN Raised ELSE [id |-> out, pc |-> "follow"]
SlurmId(out) == IF out = "none" THEN Raised ELSE [id |-> out, pc |-> "follow"]
LocalId(out) == [id |-> out, pc |-> "follow"]
\* Mutant of LsfId: LSFSubmitter does not wait for the job to appear.
LsfIdAtOnce(out) == IF out = "none" THEN Raised ELSE [id |-> out, pc |-> "follow"]
LsfId(out) == IF out = "none" THEN Raised ELSE [id |-> out, pc |-> "appear"]
IdFrom(out) ==
    CASE submitter = "pbs" -> PbsId(out)       [] submitter = "condor" -> CondorId(out)
      [] submitter = "slurm" -> SlurmId(out)   [] submitter = "local" -> LocalId(out)
      [] submitter = "lsf" -> LsfId(out)

\* LSF may take the job without listing it.
Submit ==
    /\ pc = "submit"
    /\ job' = [i \in Subjob |-> IF submitter = "lsf" THEN "hidden" ELSE "pending"]
    /\ \E out \in {"known", "none"} : id' = IdFrom(out).id /\ pc' = IdFrom(out).pc
    /\ UNCHANGED <<submitter, json, failures, verdict>>

\* The loop at the end of LSFSubmitter.submit().
Appear ==
    /\ pc = "appear"
    /\ Listed # {}
    /\ pc' = "follow"
    /\ UNCHANGED <<submitter, id, json, job, failures, verdict>>

\* bjobs fails in that loop: submit() raises although the job is in.
AppearFails ==
    /\ pc = "appear"
    /\ failures < MaxFailures
    /\ failures' = failures + 1
    /\ pc' = "raised"
    /\ UNCHANGED <<submitter, id, json, job, verdict>>
-----------------------------------------------------------------------------
(* The verdicts on an answer that lists some subjobs. *)

\* Mutant of CondorVerdict: one finished subjob is enough.
AnyCompleted ==
    IF In({"completed"}) # {} THEN "completed" ELSE IF Listed # {} THEN "waiting" ELSE "unknown"

\* Both ways of asking Condor. Held subjobs wait; removed and suspended ones are
\* in no list.
CondorVerdict ==
    IF In({"pending", "running", "held"}) # {} THEN "waiting"
    ELSE IF Listed # {} /\ In({"completed"}) = Listed THEN "completed" ELSE "unknown"

\* scontrol lists every subjob, a held one as pending. A state that is written
\* with an underscore (REQUEUE_HOLD) is not matched: that subjob is not read.
SlurmVerdict(unread) ==
    IF In({"pending", "running", "held"}) # {} THEN "waiting"
    ELSE IF Listed # unread /\ In({"completed"}) = Listed \ unread THEN "completed" ELSE "unknown"

\* The state of the one subjob that the submitter looks at.
PbsVerdict(i) ==
    IF job[i] \in {"pending", "running", "held"} THEN "waiting"
    ELSE IF job[i] \in {"completed", "failed"} THEN "completed" ELSE "unknown"

\* Mutant of LsfVerdict: the two halves of the status are swapped.
LsfTheirs(i) == job[i]

LsfVerdict(i) ==
    IF job[i] \in {"pending", "running"} THEN "waiting"
    ELSE IF job[i] \in {"completed", "failed"} THEN "completed" ELSE "unknown"

\* Mutant of LocalVerdict: a failure of ps is ignored.
LocalWaiting == "waiting"

\* ps fails for a process that is gone, which is "unknown".
LocalVerdict == IF AllEnded THEN "unknown" ELSE "waiting"

Verdict ==
    CASE submitter = "condor" -> {CondorVerdict}
      [] submitter = "slurm"  -> {SlurmVerdict(unread) : unread \in SUBSET In({"suspended"})}
      [] submitter = "local"  -> {LocalVerdict}
      [] submitter = "pbs"    -> IF Listed = {} THEN {"unknown"} ELSE {PbsVerdict(i) : i \in Listed}
      [] submitter = "lsf"    -> IF Listed = {} THEN {"unknown"} ELSE {LsfVerdict(i) : i \in Listed}
-----------------------------------------------------------------------------
(* follow() *)

\* The loop is left as soon as the verdict is not "waiting".
Conclude(v) ==
    /\ verdict' = v
    /\ pc' = IF v = "waiting" THEN "follow" ELSE "over"

\* assert_submission_id
NoSubmissionId ==
    /\ pc = "follow"
    /\ id = "none"
    /\ Conclude("unknown")
    /\ UNCHANGED <<submitter, id, json, job, failures>>

Poll ==
    /\ pc = "follow"
    /\ id = "known"
    /\ \E v \in Verdict : Conclude(v)
    /\ UNCHANGED <<submitter, id, json, job, failures>>

\* The query command fails. PBS, Slurm, local and the plain condor_q make it
\* "unknown"; LSF lets the error through.
QueryFails ==
    /\ pc = "follow"
    /\ id = "known"
    /\ failures < MaxFailures
    /\ ~(submitter = "condor" /\ json)
    /\ failures' = failures + 1
    /\ IF submitter = "lsf" THEN pc' = "raised" /\ UNCHANGED verdict ELSE Conclude("unknown")
    /\ UNCHANGED <<submitter, id, json, job>>

\* condor_q -json fails: plain condor_q is asked at once, and from now on. It
\* may fail too, which nothing catches, as is an empty answer.
CondorFallsBack ==
    /\ pc = "follow"
    /\ id = "known"
    /\ failures < MaxFailures
    /\ submitter = "condor" /\ json
    /\ failures' = failures + 1
    /\ json' = FALSE
    /\ Conclude(CondorVerdict) \/ (pc' = "raised" /\ UNCHANGED verdict)
    /\ UNCHANGED <<submitter, id, job>>

\* An answer without jobs is "unknown" or raises: the JSON form takes the first
\* element of an empty list, the plain one the last line of an empty text.
CondorListsNothing ==
    /\ pc = "follow"
    /\ id = "known"
    /\ submitter = "condor" /\ Listed = {}
    /\ pc' = "raised"
    /\ UNCHANGED <<submitter, id, json, job, failures, verdict>>
-----------------------------------------------------------------------------
(* The batch system *)

Become(i, from, to) ==
    /\ job[i] \in from
    /\ job' = [job EXCEPT ![i] = to]
    /\ UNCHANGED client

Show(i)    == Become(i, {"hidden"}, "pending")
Start(i)   == Become(i, {"pending"}, "running")
Hold(i)    == submitter # "local" /\ Become(i, {"pending", "running"}, "held")
Release(i) == Become(i, {"held"}, "pending")
Suspend(i) == submitter # "local" /\ Become(i, {"pending", "running"}, "suspended")
Resume(i)  == \E to \in {"pending", "running"} : Become(i, {"suspended"}, to)
Finish(i)  ==
    \/ Become(i, {"running", "suspended"}, "completed")
    \/ Become(i, {"pending", "running", "held", "suspended"}, "failed")
Forget(i)  == Become(i, {"completed", "failed"}, "forgotten")

Follow == Appear \/ NoSubmissionId \/ Poll

Next ==
    \/ Submit \/ SubmitFails \/ Follow
    \/ AppearFails \/ QueryFails \/ CondorFallsBack \/ CondorListsNothing
    \/ \E i \in Subjob :
          \/ Show(i) \/ Start(i) \/ Hold(i) \/ Release(i)
          \/ Suspend(i) \/ Resume(i) \/ Finish(i) \/ Forget(i)

\* The loops of submit() and follow() go on; LSF lists what it took.
Fairness ==
    /\ WF_vars(Follow)
    /\ \A i \in Subjob : WF_vars(Show(i))

Spec == Init /\ [][Next]_vars
FairSpec == Spec /\ Fairness
-----------------------------------------------------------------------------
TypeOK ==
    /\ submitter \in Submitter
    /\ pc \in {"submit", "appear", "follow", "over", "raised"}
    /\ id \in {"none", "known"}
    /\ json \in BOOLEAN
    /\ job \in [Subjob -> States]
    /\ failures \in 0 .. MaxFailures
    /\ verdict \in Verdicts

\* The submitters that look at every subjob find an array completed only when
\* none of them can still run, but for one whose state Slurm writes as it is not read.
CompletedIsTrue ==
    [][verdict # "completed" /\ verdict' = "completed" /\ submitter \in {"condor", "slurm"} =>
          \A i \in Subjob : job[i] \in Ended \/ (submitter = "slurm" /\ job[i] = "suspended")]_vars

\* follow() leaves a job that is not over only for a reason it has at that moment:
\* no submission ID; a failed query, unless another way of asking is left; every
\* subjob over or in a state nobody waits for (Condor and Slurm); or one subjob,
\* taken for the array, that is (PBS and LSF).  A subjob that is pending or running
\* is never a reason, a held one only to LSF, and neither is a job not yet listed.
EarlyEndHasReason ==
    [][pc = "follow" /\ pc' = "over" /\ ~AllEnded =>
          \/ id = "none"
          \/ failures' > failures /\ ~(submitter = "condor" /\ json)
          \/ submitter \in {"condor", "slurm"} /\ \A i \in Subjob : job[i] \in Ended \cup {"suspended"}
          \/ submitter \in {"pbs", "lsf"} /\ \E i \in Subjob : job[i] \in Ended \cup {"suspended"}
          \/ submitter = "lsf" /\ \E i \in Subjob : job[i] = "held"]_vars

\* When all subjobs have ended follow() comes back.
FollowEnds == pc = "follow" /\ AllEnded ~> pc \in {"over", "raised"}
=============================================================================
