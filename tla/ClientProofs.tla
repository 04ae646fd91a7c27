---------------------------- MODULE ClientProofs ----------------------------
(***************************************************************************)
(* Jobs, for any jobs, commands, queries and commits.                      *)
(*                                                                         *)
(* Jobs, commands and resources: a launched job can be found again, only   *)
(* what has completed is fetched, what is unregistered or released was     *)
(* fetched, and what "reproman run" reports is true as far as its queries   *)
(* go.  Every command relies on facts about its own job that no other      *)
(* command undoes.                                                         *)
(*                                                                         *)
(* The dataset on the resource, which jobs share: if none is prepared while *)
(* another is put or finishes, each runs on the commit that was requested   *)
(* and its ref marks its own results and no others.                         *)
(***************************************************************************)
EXTENDS JobLifecycle, RemoteDataset, SequenceTheorems, TLAPS

(***************************************************************************)
(* Jobs, commands and resources.                                           *)
(***************************************************************************)
\* What the orchestrator fetches is local; something of the results is.
Brought(j) == local[j] = "full" \/ (spec[j].orc = "datalad-pair" /\ local[j] = "ref")
Here(j) == local[j] # "none" \/ j \in tars

\* Where a command can be, and that it has a job to be busy with.
Placed(p) ==
    /\ p \in Job => pc[p] \in RunPcs \cup FetchPcs \cup {"exit"}
    /\ p \in Client => pc[p] \in (JobsPcs \cup FetchPcs \cup {"exit"}) \ {"delete"}
    /\ p \in Client /\ pc[p] \notin {"idle", "exit"} => queue[p] # <<>>

\* What it knows of that job.
Knows(p) ==
    /\ p \in Job /\ pc[p] \in {"prepare", "submit"} => remote[p] = "absent"
    /\ pc[p] \in FetchPcs \cup {"final"} => remote[Cur(p)] = "completed"
    /\ pc[p] \in {"failed", "unregister", "final"} => Brought(Cur(p))
    /\ pc[p] \in {"finish", "delete"} =>
          IF spec[Cur(p)].orc = "datalad-run" THEN Here(Cur(p)) ELSE Brought(Cur(p))

\* No failure was marked in time, or the last query for the markers failed.
Excused(j) == failed[j] # "marked" \/ misread[j]

\* What a "reproman run" knows of its subjobs.
SeesFailures(j) ==
    /\ pc[j] \in {"merge", "outputs", "head", "tarball", "finish", "delete"} => seen[j] \/ Excused(j)
    /\ pc[j] = "delete" => Releases(j) /\ (IfSuccess(j) => Excused(j))

\* How it leaves its job: to be found again.
Accounts(j) ==
    remote[j] # "absent" =>
          \/ registry[j] # "absent" \/ removed[j] # "no"
          \/ pc[j] = "register"
          \/ pc[j] = "exit" /\ result[j] \in {"interrupted", "error"}

IInv ==
    /\ TypeOK
    /\ \A p \in Proc : Placed(p) /\ Knows(p)
    /\ \A j \in Job : SeesFailures(j) /\ Accounts(j)
    /\ UnregisteredIsFetched /\ FetchedIsCompleted

\* A command is not touched by a step.
Stays(p) ==
    /\ pc'[p] = pc[p] /\ seen'[p] = seen[p] /\ result'[p] = result[p]
    /\ p \in Client => queue'[p] = queue[p]

\* What every step leaves true, whoever takes it: p is the command whose step it
\* is, or the job that goes on.
Grows(p) ==
    /\ spec' = spec
    /\ \A j \in Job :
        /\ j # p /\ remote[j] = "absent" => remote'[j] = "absent"
        /\ remote[j] = "completed" =>
              remote'[j] = "completed" /\ (failed'[j] = "marked" => failed[j] = "marked")
        /\ j # p => misread'[j] = misread[j]
        /\ Brought(j) => Brought(j)'
        /\ Here(j) => Here(j)'
        /\ Here(j)' => Here(j) \/ remote[j] = "completed"
        /\ local[j] # "none" => local'[j] # "none"
        /\ removed'[j] = "fetch" => removed[j] = "fetch" \/ Brought(j)
        /\ removed'[j] = "no" => removed[j] = "no" /\ (registry[j] # "absent" => registry'[j] # "absent")
-----------------------------------------------------------------------------
\* A command is busy with a job.
LEMMA CurIsJob ==
    ASSUME TypeOK, NEW p \in Proc, Placed(p), pc[p] \notin {"idle", "exit"}
    PROVE  Cur(p) \in Job /\ (p \in Client => Head(queue[p]) \in Records)
<1>1. CASE p \in Job
  BY <1>1, LifecycleAssumption DEF Cur
<1>2. CASE p \in Client
  <2>1. queue[p] \in Seq(Records) /\ queue[p] # <<>> /\ p \notin Job
    BY <1>2, LifecycleAssumption DEF TypeOK, Placed
  <2>2. Head(queue[p]) \in Records
    BY <2>1, HeadTailProperties
  <2> QED  BY <1>2, <2>1, <2>2 DEF Cur, Records
<1> QED  BY <1>1, <1>2 DEF Proc

\* What a command that does not move knows, stays true.
LEMMA OthersKeep ==
    ASSUME IInv, NEW p \in Proc, Grows(p), NEW q \in Proc, q # p, Stays(q)
    PROVE  /\ Placed(q)' /\ Knows(q)'
           /\ q \in Job => SeesFailures(q)' /\ Accounts(q)'
<1>1. TypeOK /\ Placed(q) /\ Knows(q) /\ (q \in Job => SeesFailures(q) /\ Accounts(q))
  BY DEF IInv
<1>2. Placed(q)'
  BY <1>1 DEF Placed, Stays
<1>3. ASSUME pc[q] \notin {"idle", "exit"} PROVE Cur(q)' = Cur(q) /\ Cur(q) \in Job
  BY <1>1, <1>3, CurIsJob DEF Cur, Stays, Proc
<1>4. Knows(q)'
  <2>1. q \in Job /\ pc[q] \in {"prepare", "submit"} => remote'[q] = "absent"
    BY <1>1 DEF Knows, Grows
  <2>2. ASSUME pc[q] \in FetchPcs \cup {"final"}
        PROVE  /\ remote'[Cur(q)'] = "completed"
               /\ pc[q] \in {"failed", "unregister", "final"} => Brought(Cur(q))'
               /\ pc[q] \in {"finish", "delete"} =>
                    IF spec'[Cur(q)'].orc = "datalad-run" THEN Here(Cur(q))' ELSE Brought(Cur(q))'
    <3> DEFINE j == Cur(q)
    <3>1. pc[q] \notin {"idle", "exit"} /\ j \in Job /\ Cur(q)' = j
      BY <1>3, <2>2 DEF FetchPcs
    <3>2. /\ remote[j] = "completed"
          /\ pc[q] \in {"failed", "unregister", "final"} => Brought(j)
          /\ pc[q] \in {"finish", "delete"} =>
                IF spec[j].orc = "datalad-run" THEN Here(j) ELSE Brought(j)
      BY <1>1, <2>2 DEF Knows
    <3>3. spec' = spec /\ remote'[j] = "completed" /\ (Brought(j) => Brought(j)') /\ (Here(j) => Here(j)')
      BY <3>1, <3>2 DEF Grows
    <3> HIDE DEF j
    <3>4. Brought(Cur(q))' = Brought(j)' /\ Here(Cur(q))' = Here(j)'
      BY <3>1 DEF Brought, Here, j
    <3> QED  BY <3>1, <3>2, <3>3, <3>4
  <2> QED  BY <2>1, <2>2 DEF Knows, Stays, FetchPcs
<1>5. ASSUME q \in Job PROVE SeesFailures(q)' /\ Accounts(q)'
  <2>1. pc[q] \in FetchPcs => (Excused(q) => Excused(q)')
    BY <1>1, <1>5, LifecycleAssumption DEF Knows, Cur, Grows, Excused
  <2>2. SeesFailures(q)'
    BY <1>1, <1>5, <2>1 DEF SeesFailures, Stays, FetchPcs, Grows, Releases, IfSuccess
  <2>3. Accounts(q)'
    BY <1>1, <1>5 DEF Accounts, Stays, Grows
  <2> QED  BY <2>2, <2>3
<1> QED  BY <1>2, <1>4, <1>5

\* A step that leaves the other commands alone keeps the invariant, if its own
\* command's part holds after it.
LEMMA StepKeeps ==
    ASSUME IInv, TypeOK', NEW p \in Proc, Grows(p), \A q \in Proc \ {p} : Stays(q),
           Placed(p)', Knows(p)', p \in Job => SeesFailures(p)' /\ Accounts(p)'
    PROVE  IInv'
<1>1. \A q \in Proc : Placed(q)' /\ Knows(q)'
  BY OthersKeep
<1>2. \A j \in Job : SeesFailures(j)' /\ Accounts(j)'
  BY OthersKeep DEF Proc
<1>3. UnregisteredIsFetched'
  BY DEF Grows, IInv, UnregisteredIsFetched, Brought
<1>4. FetchedIsCompleted'
  BY DEF Grows, IInv, FetchedIsCompleted, Here
<1> QED  BY <1>1, <1>2, <1>3, <1>4 DEF IInv
-----------------------------------------------------------------------------
(* The types of what is shared, and of what the commands have of their own. *)
SharedOK ==
    /\ spec \in [Job -> Specs]
    /\ kind \in {"stoppable", "deletable", "permanent"}
    /\ remote \in [Job -> {"absent", "running", "completed", "broken"}]
    /\ failed \in [Job -> {"no", "unmarked", "late", "marked"}]
    /\ misread \in [Job -> BOOLEAN]
    /\ machine \in {"up", "stopped", "gone"}
    /\ listed \in BOOLEAN
    /\ registry \in [Job -> {"absent", "empty", "record"}]
    /\ removed \in [Job -> {"no", "fetch", "user"}]
    /\ local \in [Job -> {"none", "ref", "files", "full"}]
    /\ tars \subseteq Job
OwnOK ==
    /\ pc \in [Proc -> Pcs]
    /\ queue \in [Client -> Seq(Records)]
    /\ seen \in [Proc -> BOOLEAN]
    /\ result \in [Proc -> Results]

\* The types, of what is shared and of what is not.
LEMMA Types == (TypeOK <=> SharedOK /\ OwnOK) /\ (TypeOK' <=> SharedOK' /\ OwnOK')
BY DEF TypeOK, SharedOK, OwnOK

\* Nothing that is shared changes.
LEMMA WorldKept ==
    ASSUME IInv, UNCHANGED world, NEW p \in Proc
    PROVE  SharedOK' /\ Grows(p)
<1>1. SharedOK'
  BY Types DEF IInv, SharedOK, world, requests, jobs, resource, files, dataset
<1>2. Grows(p)
  BY DEF Grows, Brought, Here, world, requests, jobs, resource, files, dataset
<1> QED  BY <1>1, <1>2

\* The initial state.
LEMMA LifecycleInitially == Init => IInv
<1> SUFFICES ASSUME Init PROVE IInv
  OBVIOUS
<1>1. SharedOK
  BY DEF Init, SharedOK
<1>2. OwnOK
  <2>1. pc \in [Proc -> Pcs]
    BY DEF Init, Pcs, RunPcs, JobsPcs
  <2>2. queue \in [Client -> Seq(Records)]
    BY EmptySeq DEF Init
  <2> QED  BY <2>1, <2>2 DEF Init, OwnOK, Results
<1>3. \A p \in Proc : pc[p] \in {"prepare", "idle"} /\ (pc[p] = "prepare" <=> p \in Job)
  BY DEF Init
<1>4. \A p \in Proc : Placed(p) /\ Knows(p)
  BY <1>3, LifecycleAssumption DEF Init, Placed, Knows, RunPcs, JobsPcs, FetchPcs, Proc
<1>5. \A j \in Job : SeesFailures(j) /\ Accounts(j)
  BY DEF Init, SeesFailures, Accounts, Proc
<1>6. UnregisteredIsFetched /\ FetchedIsCompleted
  BY DEF Init, UnregisteredIsFetched, FetchedIsCompleted
<1> QED  BY <1>1, <1>2, <1>4, <1>5, <1>6, Types DEF IInv
-----------------------------------------------------------------------------
(* How a command goes on. *)

\* It ends.
LEMMA EndKeeps ==
    ASSUME IInv, NEW p \in Proc, NEW how \in Results, End(p, how), SharedOK', Grows(p),
           p \in Job => Accounts(p)'
    PROVE  IInv'
<1>1. TypeOK /\ OwnOK
  BY Types DEF IInv
<1>2. OwnOK'
  <2>1. queue' \in [Client -> Seq(Records)]
    BY <1>1, EmptySeq DEF End, OwnOK
  <2>2. "exit" \in Pcs
    BY DEF Pcs
  <2> QED  BY <1>1, <2>1, <2>2 DEF End, Goto, OwnOK
<1>3. pc'[p] = "exit"
  BY <1>1 DEF End, Goto, OwnOK
<1>4. Placed(p)' /\ Knows(p)' /\ (p \in Job => SeesFailures(p)')
  BY <1>3, LifecycleAssumption
     DEF Placed, Knows, SeesFailures, FetchPcs, RunPcs, JobsPcs, Proc
<1>5. \A q \in Proc \ {p} : Stays(q)
  BY <1>1 DEF End, Goto, OwnOK, Stays
<1> QED  BY <1>2, <1>4, <1>5, StepKeeps, Types

\* It goes to another label, with the same job.
LEMMA GotoKeeps ==
    ASSUME IInv, NEW p \in Proc, NEW label \in Pcs, Goto(p, label), UNCHANGED <<queue, result>>,
           seen' = seen \/ \E b \in BOOLEAN : seen' = [seen EXCEPT ![p] = b],
           SharedOK', Grows(p), Placed(p)', Knows(p)', p \in Job => SeesFailures(p)' /\ Accounts(p)'
    PROVE  IInv'
<1>1. OwnOK
  BY Types DEF IInv
<1>2. OwnOK'
  BY <1>1 DEF Goto, OwnOK
<1>3. \A q \in Proc \ {p} : Stays(q)
  BY <1>1 DEF Goto, OwnOK, Stays
<1> QED  BY <1>2, <1>3, StepKeeps, Types

\* An error, an interrupt: a launched job of its own may be orphaned.
LEMMA ExitKeeps ==
    ASSUME IInv, NEW p \in Proc, NEW how \in {"error", "interrupted"}, Exit(p, how)
    PROVE  IInv'
<1>1. End(p, how) /\ how \in Results /\ UNCHANGED world
  BY DEF Exit, Results
<1>2. SharedOK' /\ Grows(p)
  BY <1>1, WorldKept
<1>3. p \in Job => Accounts(p)'
  BY <1>1, Types DEF IInv, OwnOK, End, Goto, Accounts
<1> QED  BY <1>1, <1>2, <1>3, EndKeeps

\* "reproman jobs" turns to the next job.
LEMMA NextJobKeeps ==
    ASSUME IInv, NEW c \in Client, pc[c] \notin {"idle", "exit"}, NextJob(c), SharedOK', Grows(c)
    PROVE  IInv'
<1>1. TypeOK /\ OwnOK /\ c \in Proc /\ c \notin Job
  BY Types, LifecycleAssumption DEF IInv, Proc
<1>2. CASE End(c, "ok")
  BY <1>1, <1>2, EndKeeps DEF Results
<1>3. CASE /\ Len(queue[c]) > 1
           /\ queue' = [queue EXCEPT ![c] = Tail(@)]
           /\ Goto(c, "resurrect")
           /\ UNCHANGED <<result, seen>>
  <2>1. queue[c] \in Seq(Records) /\ queue[c] # <<>>
    BY <1>1, <1>3, EmptySeq DEF OwnOK
  <2>2. Tail(queue[c]) \in Seq(Records) /\ Tail(queue[c]) # <<>>
    BY <1>3, <2>1, HeadTailProperties, EmptySeq
  <2>3. OwnOK'
    BY <1>1, <1>3, <2>2 DEF OwnOK, Goto, Pcs, JobsPcs
  <2>4. queue'[c] # <<>> /\ pc'[c] = "resurrect"
    BY <1>1, <1>3, <2>2 DEF OwnOK, Goto
  <2>5. Placed(c)' /\ Knows(c)'
    BY <1>1, <2>4 DEF Placed, Knows, JobsPcs, FetchPcs
  <2>6. \A q \in Proc \ {c} : Stays(q)
    BY <1>1, <1>3 DEF Goto, OwnOK, Stays
  <2> QED  BY <1>1, <2>3, <2>5, <2>6, StepKeeps, Types
<1> QED  BY <1>2, <1>3 DEF NextJob

\* An OrchestratorError, and a lost resource.
LEMMA ErrorKeeps ==
    ASSUME IInv, NEW p \in Proc, pc[p] \notin {"idle", "exit"},
           OrchestratorError(p) \/ ResourceError(p)
    PROVE  IInv'
<1>1. CASE p \in Client /\ Skip(p)
  BY <1>1, WorldKept, NextJobKeeps DEF Skip
<1>2. CASE Exit(p, "error")
  BY <1>2, ExitKeeps
<1> QED  BY <1>1, <1>2 DEF OrchestratorError, ResourceError
-----------------------------------------------------------------------------
\* The job on the resource goes on only while it runs.
LEMMA RemoteKeeps ==
    ASSUME IInv, NEW j \in Job, RemoteCompletes(j) \/ RemoteBreaks(j)
    PROVE  IInv'
<1>1. TypeOK /\ j \in Proc /\ remote[j] = "running"
  BY DEF IInv, Proc, RemoteCompletes, RemoteBreaks
<1>2. TypeOK'
  <2>1. UNCHANGED <<requests, pc, queue, seen, result, misread, resource, files, dataset>>
    BY DEF RemoteCompletes, RemoteBreaks
  <2>2. remote' \in [Job -> {"absent", "running", "completed", "broken"}]
    BY <1>1 DEF RemoteCompletes, RemoteBreaks, TypeOK
  <2>3. failed' \in [Job -> {"no", "unmarked", "late", "marked"}]
    BY <1>1 DEF RemoteCompletes, RemoteBreaks, TypeOK
  <2> QED  BY <1>1, <2>1, <2>2, <2>3 DEF TypeOK, requests, resource, files, dataset
<1>3. /\ UNCHANGED <<requests, pc, queue, seen, result, files, dataset>>
      /\ \A i \in Job \ {j} : remote'[i] = remote[i] /\ failed'[i] = failed[i]
      /\ misread' = misread
      /\ remote'[j] \in {"completed", "broken"}
  BY <1>1 DEF RemoteCompletes, RemoteBreaks, TypeOK
<1>4. Grows(j)
  BY <1>1, <1>3 DEF Grows, Brought, Here, requests, files, dataset
<1>5. Placed(j)' /\ \A q \in Proc \ {j} : Stays(q)
  BY <1>1, <1>3 DEF Placed, Stays, IInv
<1>6. Cur(j) = j /\ Cur(j)' = j
  BY DEF Cur
<1>7. Knows(j) /\ SeesFailures(j) /\ Accounts(j)
  BY <1>1 DEF IInv
<1>8. pc[j] \notin FetchPcs \cup {"final", "prepare", "submit"}
  BY <1>1, <1>6, <1>7 DEF Knows
<1>9. Knows(j)'
  BY <1>3, <1>8 DEF Knows, FetchPcs
<1>10. SeesFailures(j)'
  BY <1>3, <1>8 DEF SeesFailures, FetchPcs
<1>11. Accounts(j)'
  BY <1>1, <1>3, <1>7 DEF Accounts, requests, files, dataset
<1> QED  BY <1>1, <1>2, <1>4, <1>5, <1>9, <1>10, <1>11, StepKeeps

\* A marker that comes late takes nobody's excuse away.
LEMMA MarkerKeeps == ASSUME IInv, NEW j \in Job, MarkerArrives(j) PROVE IInv'
<1>1. TypeOK /\ j \in Proc
  BY DEF IInv, Proc
<1>2. /\ UNCHANGED <<requests, pc, queue, seen, result, remote, misread, resource, files, dataset>>
      /\ failed' \in [Job -> {"no", "unmarked", "late", "marked"}]
      /\ \A i \in Job : failed'[i] = "marked" => failed[i] = "marked"
  BY <1>1 DEF MarkerArrives, TypeOK
<1>3. TypeOK'
  BY <1>1, <1>2 DEF TypeOK, requests, resource, files, dataset
<1>4. Grows(j)
  BY <1>1, <1>2 DEF Grows, Brought, Here, requests, files, dataset
<1>5. \A q \in Proc : Placed(q)' /\ Stays(q)
  BY <1>2 DEF Placed, Stays, IInv
<1>6. Knows(j)' /\ SeesFailures(j)' /\ Accounts(j)'
  BY <1>2 DEF IInv, Proc, Knows, SeesFailures, Accounts, Excused, Brought, Here, Cur, Releases, IfSuccess,
     requests, files, dataset
<1> QED  BY <1>1, <1>3, <1>4, <1>5, <1>6, StepKeeps
-----------------------------------------------------------------------------
(* get_failed_subjobs() *)

\* Its errors end the command, or the fetch of the job.
LEMMA AskFailsKeeps ==
    ASSUME IInv, NEW p \in Proc, pc[p] \notin {"idle", "exit"}, AskFails(p) PROVE IInv'
BY ErrorKeeps DEF AskFails

\* What was marked in time is heard of, or the query failed; a failure that is
\* heard of happened.  What others have heard stays.
LEMMA Hearing ==
    ASSUME IInv, NEW p \in Proc, NEW j \in Job, p \in Job => j = p, NEW heard \in Answers(j), Hears(p, heard),
           UNCHANGED <<requests, remote, failed, resource, files, dataset>>
    PROVE  /\ SharedOK' /\ Grows(p)
           /\ heard \in BOOLEAN /\ (heard => Bad(j))
           /\ p \in Job => heard \/ Excused(p)'
           /\ p \in Job /\ ~heard /\ Marked(p) => misread'[p]
<1>1. TypeOK
  BY DEF IInv
<1>2. heard \in BOOLEAN /\ (heard => Marked(j))
  BY DEF Answers
<1>3. misread' \in [Job -> BOOLEAN] /\ \A i \in Job \ {p} : misread'[i] = misread[i]
  <2>1. \A i \in Job : (IF i = p THEN Marked(i) /\ ~heard ELSE misread[i]) \in BOOLEAN
    BY <1>1, <1>2 DEF TypeOK, Marked
  <2> QED  BY <2>1 DEF Hears
<1>4. SharedOK' /\ Grows(p)
  BY <1>1, <1>3 DEF SharedOK, TypeOK, Grows, Brought, Here, requests, resource, files, dataset
<1>5. p \in Job => misread'[p] = (Marked(p) /\ ~heard)
  BY DEF Hears
<1> QED  BY <1>2, <1>4, <1>5 DEF Marked, Bad, Excused
-----------------------------------------------------------------------------
(* reproman run *)

\* Before it is submitted a job changes nothing that is shared.
LEMMA PrepareKeeps == ASSUME IInv, NEW j \in Job, Prepare(j) PROVE IInv'
<1>1. TypeOK /\ j \in Proc /\ pc[j] = "prepare" /\ Knows(j) /\ Accounts(j)
  BY DEF IInv, Proc, Prepare
<1>2. CASE OrchestratorError(j) \/ ResourceError(j)
  BY <1>1, <1>2, ErrorKeeps
<1>3. CASE Goto(j, "submit") /\ UNCHANGED <<requests, queue, seen, result, jobs, resource, files, dataset>>
  <2>1. UNCHANGED world
    BY <1>3 DEF world
  <2>2. SharedOK' /\ Grows(j)
    BY <1>1, <2>1, WorldKept
  <2>3. pc'[j] = "submit" /\ remote' = remote
    BY <1>1, <1>3 DEF Goto, TypeOK, jobs
  <2>4. Placed(j)' /\ Knows(j)' /\ SeesFailures(j)'
    BY <1>1, <2>3, LifecycleAssumption DEF Placed, Knows, SeesFailures, RunPcs, FetchPcs
  <2>5. Accounts(j)'
    BY <1>1, <1>3, <2>3 DEF Accounts, Knows, requests, jobs, files, dataset
  <2> QED  BY <1>1, <1>3, <2>2, <2>4, <2>5, GotoKeeps DEF Pcs, RunPcs
<1> QED  BY <1>2, <1>3 DEF Prepare

\* The job's absence until now is what makes it a new one.
LEMMA SubmitKeeps == ASSUME IInv, NEW j \in Job, Submit(j) PROVE IInv'
<1>1. TypeOK /\ j \in Proc /\ pc[j] = "submit" /\ Knows(j) /\ Accounts(j)
  BY DEF IInv, Proc, Submit
<1>2. CASE Exit(j, "error") \/ ResourceError(j)
  BY <1>1, <1>2, ErrorKeeps, ExitKeeps
<1>3. CASE /\ Up
           /\ remote' = [remote EXCEPT ![j] = "running"]
           /\ (Goto(j, "register") /\ UNCHANGED <<queue, seen, result>>) \/ End(j, "error")
           /\ UNCHANGED <<requests, failed, misread, resource, files, dataset>>
  <2>1. remote[j] = "absent" /\ remote'[j] = "running"
    BY <1>1, <1>3 DEF Knows, TypeOK
  <2>2. SharedOK'
    BY <1>1, <1>3 DEF SharedOK, TypeOK, requests, resource, files, dataset
  <2>3. Grows(j)
    BY <1>1, <1>3, <2>1 DEF Grows, TypeOK, Brought, Here, requests, resource, files, dataset
  <2>4. CASE End(j, "error")
    <3>1. pc'[j] = "exit" /\ result'[j] = "error"
      BY <1>1, <2>4 DEF End, Goto, TypeOK
    <3>2. Accounts(j)'
      BY <3>1 DEF Accounts
    <3> QED  BY <1>1, <2>2, <2>3, <2>4, <3>2, EndKeeps DEF Results
  <2>5. CASE Goto(j, "register") /\ UNCHANGED <<queue, seen, result>>
    <3>1. pc'[j] = "register" /\ result' = result
      BY <1>1, <2>5 DEF Goto, TypeOK
    <3>2. Accounts(j)'
      BY <3>1 DEF Accounts
    <3>3. Placed(j)' /\ Knows(j)' /\ SeesFailures(j)'
      BY <3>1, LifecycleAssumption DEF Placed, Knows, SeesFailures, RunPcs, FetchPcs
    <3> QED  BY <1>1, <2>2, <2>3, <2>5, <3>2, <3>3, GotoKeeps DEF Pcs, RunPcs
  <2> QED  BY <1>3, <2>4, <2>5
<1> QED  BY <1>2, <1>3 DEF Submit

\* The job file, empty at first, is there from now on unless somebody removes it.
LEMMA RegisterKeeps == ASSUME IInv, NEW j \in Job, Register(j) \/ Dump(j) PROVE IInv'
<1>1. TypeOK /\ j \in Proc /\ pc[j] \in {"register", "dump"} /\ Accounts(j)
  BY DEF IInv, Proc, Register, Dump
<1>2. UNCHANGED <<requests, jobs, resource, removed, dataset>>
  BY DEF Register, Dump
<1>3. /\ registry' \in [Job -> {"absent", "empty", "record"}]
      /\ \A i \in Job : registry[i] # "absent" => registry'[i] # "absent"
      /\ pc[j] = "register" => registry'[j] = "empty"
  BY <1>1 DEF Register, Dump, TypeOK
<1>4. SharedOK'
  BY <1>1, <1>2, <1>3 DEF SharedOK, TypeOK, requests, jobs, resource, dataset
<1>5. Grows(j)
  BY <1>2, <1>3 DEF Grows, Brought, Here, requests, jobs, dataset
<1>6. ASSUME Goto(j, "dump") \/ Goto(j, "follow"), UNCHANGED <<queue, result, seen>>
      PROVE  IInv'
  <2>1. PICK label \in {"dump", "follow"} : Goto(j, label)
    BY <1>6
  <2>2. pc'[j] = label
    BY <1>1, <2>1 DEF Goto, TypeOK
  <2>3. Placed(j)' /\ Knows(j)' /\ SeesFailures(j)'
    BY <2>2, LifecycleAssumption DEF Placed, Knows, SeesFailures, RunPcs, FetchPcs
  <2>4. Accounts(j)'
    BY <1>1, <1>2, <1>3, <1>6 DEF Accounts, requests, jobs, dataset
  <2> QED  BY <1>1, <1>4, <1>5, <1>6, <2>1, <2>3, <2>4, GotoKeeps DEF Pcs, RunPcs
<1>7. ASSUME pc[j] = "dump", spec[j].follow = "no", End(j, "ok") PROVE IInv'
  <2>1. result'[j] = "ok"
    BY <1>1, <1>7 DEF End, TypeOK
  <2>2. Accounts(j)'
    BY <1>1, <1>2, <1>3, <1>7, <2>1 DEF Accounts, requests, jobs, dataset
  <2> QED  BY <1>1, <1>4, <1>5, <1>7, <2>2, EndKeeps DEF Results
<1> QED  BY <1>6, <1>7 DEF Register, Dump

\* Only a job with its completion marker is fetched.
LEMMA FollowKeeps == ASSUME IInv, NEW j \in Job, FollowJob(j) PROVE IInv'
<1>1. TypeOK /\ j \in Proc /\ pc[j] = "follow" /\ Accounts(j)
  BY DEF IInv, Proc, FollowJob
<1>2. CASE OrchestratorError(j) \/ ResourceError(j)
  BY <1>1, <1>2, ErrorKeeps
<1>3. CASE /\ HasCompleted(j)
           /\ Goto(j, "fetch")
           /\ UNCHANGED <<requests, queue, seen, result, jobs, resource, files, dataset>>
  <2>1. UNCHANGED world
    BY <1>3 DEF world
  <2>2. SharedOK' /\ Grows(j)
    BY <1>1, <2>1, WorldKept
  <2>3. pc'[j] = "fetch" /\ remote'[j] = "completed"
    BY <1>1, <1>3 DEF Goto, TypeOK, jobs, HasCompleted
  <2>4. Placed(j)' /\ Knows(j)' /\ SeesFailures(j)' /\ Accounts(j)'
    BY <1>1, <1>3, <2>1, <2>3, LifecycleAssumption
       DEF Placed, Knows, Cur, SeesFailures, Accounts, RunPcs, FetchPcs, world, requests, jobs, files, dataset
  <2> QED  BY <1>1, <1>3, <2>2, <2>4, GotoKeeps DEF Pcs, FetchPcs
<1> QED  BY <1>2, <1>3 DEF FollowJob

\* The last query is of a job whose results are there.
LEMMA FinalKeeps == ASSUME IInv, NEW j \in Job, Final(j) PROVE IInv'
<1>1. TypeOK /\ j \in Proc /\ pc[j] = "final" /\ Accounts(j)
  BY DEF IInv, Proc, Final
<1>2. CASE AskFails(j)
  BY <1>1, <1>2, AskFailsKeeps
<1>3. ASSUME NEW heard \in Answers(j), Hears(j, heard), End(j, IF heard THEN "JobError" ELSE "ok"),
             UNCHANGED <<requests, remote, failed, resource, files, dataset>>
      PROVE  IInv'
  <2>1. SharedOK' /\ Grows(j)
    BY <1>1, <1>3, Hearing
  <2>2. PICK how \in {"JobError", "ok"} : End(j, how)
    BY <1>3
  <2>3. Accounts(j)'
    BY <1>1, <1>3 DEF Accounts, files
  <2> QED  BY <1>1, <2>1, <2>2, <2>3, EndKeeps DEF Results
<1> QED  BY <1>2, <1>3 DEF Final
-----------------------------------------------------------------------------
(* reproman jobs *)

\* A command that is not that of a job goes where it has a job to work on.
LEMMA ClientGoes ==
    ASSUME IInv, NEW c \in Client, NEW label \in {"load", "resurrect", "fetch"}, Goto(c, label),
           queue' \in [Client -> Seq(Records)], \A d \in Client \ {c} : queue'[d] = queue[d],
           queue'[c] # <<>>, UNCHANGED <<result, seen, world>>,
           label = "fetch" => remote[Head(queue'[c]).job] = "completed"
    PROVE  IInv'
<1>1. TypeOK /\ OwnOK /\ c \in Proc /\ c \notin Job
  BY Types, LifecycleAssumption DEF IInv, Proc
<1>2. SharedOK' /\ Grows(c)
  BY <1>1, WorldKept
<1>3. OwnOK' /\ pc'[c] = label /\ \A q \in Proc \ {c} : Stays(q)
  BY <1>1 DEF OwnOK, Goto, Pcs, JobsPcs, FetchPcs, Stays
<1>4. Placed(c)'
  BY <1>1, <1>3 DEF Placed, JobsPcs, FetchPcs
<1>5. label = "fetch" => remote'[Cur(c)'] = "completed"
  BY <1>1 DEF Cur, world, jobs
<1>6. Knows(c)'
  BY <1>1, <1>3, <1>5 DEF Knows, FetchPcs
<1> QED  BY <1>1, <1>2, <1>3, <1>4, <1>6, StepKeeps, Types

\* The jobs that a command asks for are jobs.
LEMMA FindKeeps == ASSUME IInv, NEW c \in Client, FindJobs(c) PROVE IInv'
<1>1. TypeOK /\ c \in Proc /\ c \notin Job
  BY LifecycleAssumption DEF IInv, Proc
<1>2. CASE Exit(c, "ok")
  <2>1. SharedOK' /\ Grows(c) /\ End(c, "ok")
    BY <1>1, <1>2, WorldKept DEF Exit
  <2> QED  BY <1>1, <2>1, EndKeeps DEF Results
<1>3. ASSUME NEW n \in 1 .. MaxQueries, NEW matched \in [1 .. n -> Registered],
             queue' = [queue EXCEPT ![c] = [k \in 1 .. n |-> [job |-> matched[k], loaded |-> FALSE]]],
             Goto(c, "load"), UNCHANGED <<result, seen, world>>
      PROVE  IInv'
  <2> DEFINE q == [k \in 1 .. n |-> [job |-> matched[k], loaded |-> FALSE]]
  <2>1. n \in Nat /\ 1 \in 1 .. n
    BY LifecycleAssumption
  <2>2. q \in Seq(Records) /\ q # <<>>
    <3>1. \A k \in 1 .. n : [job |-> matched[k], loaded |-> FALSE] \in Records
      BY DEF Records, Registered
    <3>2. q \in [1 .. n -> Records]
      BY <3>1
    <3>3. q \in Seq(Records) /\ Len(q) = n
      BY <2>1, <3>2
    <3> QED  BY <2>1, <3>3
  <2> HIDE DEF q
  <2>3. queue' = [queue EXCEPT ![c] = q]
    BY <1>3 DEF q
  <2>4. queue' \in [Client -> Seq(Records)] /\ queue'[c] = q /\ \A d \in Client \ {c} : queue'[d] = queue[d]
    BY <1>1, <2>2, <2>3 DEF TypeOK
  <2> QED  BY <1>3, <2>2, <2>4, ClientGoes
<1> QED  BY <1>2, <1>3 DEF FindJobs

\* A job file that the user removes is not lost.
LEMMA DeleteJobsKeeps == ASSUME IInv, NEW c \in Client, DeleteJobs(c) PROVE IInv'
<1>1. TypeOK /\ c \in Proc /\ c \notin Job
  BY LifecycleAssumption DEF IInv, Proc
<1>2. PICK S \in SUBSET Registered :
         /\ registry' = [j \in Job |-> IF j \in S THEN "absent" ELSE registry[j]]
         /\ removed' = [j \in Job |-> IF j \in S THEN "user" ELSE removed[j]]
  BY DEF DeleteJobs
<1>3. End(c, "ok") /\ UNCHANGED <<requests, jobs, resource, dataset>>
  BY DEF DeleteJobs
<1>4. SharedOK'
  BY <1>1, <1>2, <1>3 DEF SharedOK, TypeOK, requests, jobs, resource, dataset
<1>5. Grows(c)
  BY <1>1, <1>2, <1>3 DEF Grows, TypeOK, Brought, Here, requests, jobs, dataset
<1> QED  BY <1>1, <1>3, <1>4, <1>5, EndKeeps DEF Results

\* What is loaded is a job file, of a launched job.
LEMMA LoadKeeps == ASSUME IInv, NEW c \in Client, LoadJobs(c) PROVE IInv'
<1>1. TypeOK /\ c \in Proc /\ pc[c] = "load" /\ Placed(c)
  BY DEF IInv, Proc, LoadJobs
<1>2. CASE Exit(c, "error")
  BY <1>1, <1>2, ExitKeeps
<1>3. CASE /\ queue' = [queue EXCEPT ![c] =
                [k \in DOMAIN @ |-> [job |-> @[k].job, loaded |-> registry[@[k].job] = "record"]]]
           /\ Goto(c, "resurrect")
           /\ UNCHANGED <<result, seen, world>>
  <2> DEFINE q == [k \in DOMAIN queue[c] |->
                      [job |-> queue[c][k].job, loaded |-> registry[queue[c][k].job] = "record"]]
  <2>1. queue[c] \in Seq(Records) /\ queue[c] # <<>>
    BY <1>1 DEF TypeOK, Placed
  <2>2. Len(queue[c]) \in Nat \ {0} /\ DOMAIN queue[c] = 1 .. Len(queue[c])
        /\ \A k \in 1 .. Len(queue[c]) : queue[c][k] \in Records
    BY <2>1, EmptySeq, LenProperties, ElementOfSeq
  <2>3. q \in Seq(Records) /\ q # <<>>
    <3>1. \A k \in 1 .. Len(queue[c]) :
             [job |-> queue[c][k].job, loaded |-> registry[queue[c][k].job] = "record"] \in Records
      BY <2>2 DEF Records
    <3>2. q \in [1 .. Len(queue[c]) -> Records]
      BY <2>2, <3>1
    <3>3. q \in Seq(Records) /\ Len(q) = Len(queue[c])
      BY <2>2, <3>2
    <3> QED  BY <2>2, <3>3
  <2> HIDE DEF q
  <2>4. queue' = [queue EXCEPT ![c] = q]
    BY <1>3 DEF q
  <2> QED  BY <1>1, <1>3, <2>3, <2>4, ClientGoes DEF TypeOK
<1> QED  BY <1>2, <1>3 DEF LoadJobs

\* Only a job that is loaded and has completed is fetched.
LEMMA ResurrectKeeps == ASSUME IInv, NEW c \in Client, Resurrect(c) PROVE IInv'
<1>1. TypeOK /\ c \in Proc /\ c \notin Job /\ pc[c] = "resurrect" /\ Placed(c)
  BY LifecycleAssumption DEF IInv, Proc, Resurrect
<1>2. CASE Exit(c, "error")
  BY <1>1, <1>2, ExitKeeps
<1>3. CASE Skip(c)
  BY <1>1, <1>3, WorldKept, NextJobKeeps DEF Skip
<1>4. CASE HasCompleted(Cur(c)) /\ Goto(c, "fetch") /\ UNCHANGED <<queue, result, seen, world>>
  BY <1>1, <1>4, ClientGoes DEF HasCompleted, Cur, Placed, TypeOK
<1> QED  BY <1>2, <1>3, <1>4 DEF Resurrect
-----------------------------------------------------------------------------
(* orc.fetch() *)

\* A fetch goes on to a label whose facts it has established.
LEMMA FetchGoes ==
    ASSUME IInv, NEW p \in Proc, pc[p] \in FetchPcs, NEW label \in FetchPcs \cup {"final"},
           Goto(p, label), UNCHANGED <<queue, result>>,
           seen' = seen \/ \E b \in BOOLEAN : seen' = [seen EXCEPT ![p] = b],
           SharedOK', Grows(p), label \in {"delete", "final"} => p \in Job,
           label \in {"failed", "unregister", "final"} => Brought(Cur(p))',
           label \in {"finish", "delete"} =>
              IF spec[Cur(p)].orc = "datalad-run" THEN Here(Cur(p))' ELSE Brought(Cur(p))',
           p \in Job /\ label \in {"merge", "outputs", "head", "tarball", "finish", "delete"}
              => seen'[p] \/ Excused(p)',
           label = "delete" => Releases(p) /\ (IfSuccess(p) => Excused(p)')
    PROVE  IInv'
<1>1. TypeOK /\ Placed(p) /\ Knows(p) /\ (p \in Job => Accounts(p))
  BY DEF IInv
<1>2. pc[p] \notin {"idle", "exit", "register"}
  BY DEF FetchPcs
<1>3. Cur(p) \in Job /\ Cur(p)' = Cur(p) /\ remote[Cur(p)] = "completed"
  BY <1>1, <1>2, CurIsJob DEF Cur, Knows
<1>4. pc'[p] = label
  BY <1>1 DEF Goto, TypeOK
<1>5. /\ remote'[Cur(p)'] = "completed"
      /\ spec' = spec
  BY <1>3 DEF Grows
<1>6. Placed(p)'
  BY <1>1, <1>2, <1>4, LifecycleAssumption DEF Placed, RunPcs, FetchPcs
<1>7. Knows(p)'
  BY <1>3, <1>4, <1>5 DEF Knows, FetchPcs
<1>8. ASSUME p \in Job PROVE SeesFailures(p)' /\ Accounts(p)'
  <2>1. Cur(p) = p
    BY <1>3, <1>8 DEF Cur
  <2>2. SeesFailures(p)'
    BY <1>4, <1>5, <1>8, <2>1 DEF SeesFailures, Releases, IfSuccess
  <2>3. Accounts(p)'
    BY <1>1, <1>2, <1>3, <1>5, <1>8, <2>1 DEF Accounts, Grows
  <2> QED  BY <2>2, <2>3
<1> QED  BY <1>4, <1>6, <1>7, <1>8, GotoKeeps DEF Pcs, RunPcs

\* What is brought over is never less than what was there, and of a job that
\* has completed.
LEMMA Brings ==
    ASSUME IInv, NEW p \in Proc, NEW j \in Job, remote[j] = "completed",
           UNCHANGED <<requests, jobs, resource, files>>,
           local' \in [Job -> {"none", "ref", "files", "full"}], tars' \subseteq Job,
           \A i \in Job \ {j} : local'[i] = local[i] /\ (i \in tars' <=> i \in tars),
           local[j] = "full" => local'[j] = "full",
           spec[j].orc = "datalad-pair" /\ local[j] = "ref" => local'[j] \in {"ref", "full"},
           local[j] # "none" => local'[j] # "none", Here(j) => Here(j)'
    PROVE  SharedOK' /\ Grows(p)
<1>1. SharedOK'
  BY Types DEF IInv, SharedOK, requests, jobs, resource, files
<1>2. \A i \in Job \ {j} : (Here(i) <=> Here(i)') /\ (Brought(i) => Brought(i)')
  BY DEF Here, Brought, requests
<1>3. Brought(j) => Brought(j)'
  BY DEF Brought, requests
<1>4. Grows(p)
  BY <1>2, <1>3 DEF Grows, requests, jobs, files
<1> QED  BY <1>1, <1>4

\* The first two steps of a fetch, whose errors end the command or the job.
LEMMA FetchFacts ==
    ASSUME IInv, NEW p \in Proc, pc[p] \in FetchPcs
    PROVE  /\ TypeOK /\ Placed(p) /\ Knows(p) /\ pc[p] \notin {"idle", "exit"}
           /\ Cur(p) \in Job /\ remote[Cur(p)] = "completed"
           /\ p \in Job => Cur(p) = p /\ SeesFailures(p)
<1>1. TypeOK /\ Placed(p) /\ Knows(p) /\ (p \in Job => SeesFailures(p))
  BY DEF IInv
<1>2. pc[p] \notin {"idle", "exit"}
  BY DEF FetchPcs
<1> QED  BY <1>1, <1>2, CurIsJob DEF Knows, Cur

\* The failed list is read, and remembered.
LEMMA ReadFailedKeeps ==
    ASSUME IInv, NEW p \in Proc, pc[p] \in FetchPcs, NEW next \in {"finish", "merge", "head"},
           ReadFailed(p, next), next = "finish" => spec[Cur(p)].orc = "plain" /\ Brought(Cur(p))
    PROVE  IInv'
<1>1. TypeOK /\ Cur(p) \in Job /\ (p \in Job => Cur(p) = p)
  BY FetchFacts
<1>2. PICK heard \in Answers(Cur(p)) :
         /\ seen' = [seen EXCEPT ![p] = heard]
         /\ Hears(p, heard) /\ Goto(p, next)
         /\ UNCHANGED <<requests, queue, result, remote, failed, resource, files, dataset>>
  BY DEF ReadFailed
<1>3. /\ SharedOK' /\ Grows(p) /\ heard \in BOOLEAN
      /\ p \in Job => heard \/ Excused(p)'
  BY <1>1, <1>2, Hearing
<1>4. seen'[p] = heard
  BY <1>1, <1>2 DEF TypeOK
<1>5. next = "finish" => Brought(Cur(p))'
  BY <1>1, <1>2 DEF Brought, Cur, requests, dataset
<1> QED  BY <1>2, <1>3, <1>4, <1>5, FetchGoes DEF FetchPcs

\* Results are brought over.
LEMMA BringKeeps ==
    ASSUME IInv, NEW p \in Proc, pc[p] \in FetchPcs, NEW what \in {"ref", "full"},
           NEW next \in {"failed", "finish", "outputs", "unregister"}, Bring(p, what, next),
           what = "ref" => spec[Cur(p)].orc = "datalad-pair" /\ local[Cur(p)] # "full",
           next # "outputs" => what = "full" \/ spec[Cur(p)].orc = "datalad-pair",
           next = "finish" => spec[Cur(p)].orc # "datalad-run",
           next \in {"outputs", "finish"} => pc[p] \in {"merge", "outputs"}
    PROVE  IInv'
<1>1. PICK j \in Job : /\ j = Cur(p) /\ TypeOK /\ remote[j] = "completed"
                       /\ p \in Job => j = p /\ SeesFailures(p)
  BY FetchFacts
<1>2. /\ local' = [local EXCEPT ![j] = what] /\ Goto(p, next)
      /\ UNCHANGED <<requests, queue, result, seen, jobs, resource, files, tars>>
  BY <1>1 DEF Bring
<1>3. Cur(p)' = j
  BY <1>1, <1>2 DEF Cur
<1>4. local' \in [Job -> {"none", "ref", "files", "full"}] /\ local'[j] = what
      /\ \A i \in Job \ {j} : local'[i] = local[i]
  BY <1>1, <1>2 DEF TypeOK
<1>5. SharedOK' /\ Grows(p)
  BY <1>1, <1>2, <1>4, Brings DEF Here, TypeOK
<1>6. next # "outputs" => Brought(j)'
  BY <1>1, <1>2, <1>4 DEF Brought, requests
<1>7. p \in Job /\ next \in {"outputs", "finish"} => seen'[p] \/ Excused(p)'
  BY <1>1, <1>2 DEF SeesFailures, Excused, jobs
<1>8. Brought(Cur(p))' = Brought(j)'
  BY <1>3 DEF Brought
<1> QED  BY <1>2, <1>5, <1>6, <1>7, <1>8, <1>1, FetchGoes DEF FetchPcs

\* The plain orchestrator copies the outputs.
LEMMA PlainKeeps ==
    ASSUME IInv, NEW p \in Proc, PlainGet(p) \/ PlainFailed(p) PROVE IInv'
<1>1. spec[Cur(p)].orc = "plain" /\ pc[p] \in FetchPcs
  BY DEF PlainGet, PlainFailed, FetchStep, FetchPcs
<1>2. Knows(p) /\ pc[p] \notin {"idle", "exit"}
  BY <1>1, FetchFacts
<1>3. CASE ResourceError(p) \/ Exit(p, "error")
  BY <1>2, <1>3, ErrorKeeps, ExitKeeps
<1>4. CASE Bring(p, "full", "failed")
  BY <1>1, <1>4, BringKeeps
<1>5. CASE pc[p] = "failed" /\ ReadFailed(p, "finish")
  BY <1>1, <1>2, <1>5, ReadFailedKeeps DEF Knows
<1>6. CASE AskFails(p)
  BY <1>2, <1>6, AskFailsKeeps
<1> QED  BY <1>3, <1>4, <1>5, <1>6 DEF PlainGet, PlainFailed, FetchStep

\* datalad-pair fetches the commit, or gets its content.
LEMMA PairKeeps ==
    ASSUME IInv, NEW p \in Proc, PairFailed(p) \/ PairMerge(p) \/ PairOutputs(p) PROVE IInv'
<1>1. spec[Cur(p)].orc = "datalad-pair" /\ pc[p] \in FetchPcs
  BY DEF PairFailed, PairMerge, PairOutputs, FetchStep, FetchPcs
<1>2. pc[p] \notin {"idle", "exit"}
  BY <1>1, FetchFacts
<1>3. CASE ResourceError(p) \/ Exit(p, "error")
  BY <1>2, <1>3, ErrorKeeps, ExitKeeps
<1>4. CASE ReadFailed(p, "merge")
  BY <1>1, <1>4, ReadFailedKeeps
<1>5. ASSUME pc[p] = "merge", NEW next \in {"finish", "outputs"},
             Bring(p, IF local[Cur(p)] = "full" THEN "full" ELSE "ref", next)
      PROVE  IInv'
  <2>1. CASE local[Cur(p)] = "full"
    BY <1>1, <1>5, <2>1, BringKeeps
  <2>2. CASE local[Cur(p)] # "full"
    BY <1>1, <1>5, <2>2, BringKeeps
  <2> QED  BY <2>1, <2>2
<1>6. CASE pc[p] = "outputs" /\ Bring(p, "full", "finish")
  BY <1>1, <1>6, BringKeeps
<1>7. CASE AskFails(p)
  BY <1>2, <1>7, AskFailsKeeps
<1> QED  BY <1>3, <1>4, <1>5, <1>6, <1>7 DEF PairFailed, PairMerge, PairOutputs, FetchStep

\* The tarball lies in the local dataset from now on, or its files do.
LEMMA TarballKeeps ==
    ASSUME IInv, NEW p \in Proc, RunFailed(p) \/ RunHead(p) \/ RunTarball(p) PROVE IInv'
<1>1. spec[Cur(p)].orc = "datalad-run" /\ pc[p] \in {"fetch", "head", "tarball"}
  BY DEF RunFailed, RunHead, RunTarball, FetchStep
<1>2. pc[p] \in FetchPcs
  BY <1>1 DEF FetchPcs
<1>3. PICK j \in Job : /\ j = Cur(p) /\ TypeOK /\ remote[j] = "completed"
                       /\ p \in Job => j = p /\ SeesFailures(p)
  BY <1>2, FetchFacts
<1>4. CASE OrchestratorError(p) \/ ResourceError(p) \/ AskFails(p)
  BY <1>2, <1>4, FetchFacts, ErrorKeeps, AskFailsKeeps
<1>5. CASE ReadFailed(p, "head")
  BY <1>2, <1>5, ReadFailedKeeps
<1>6. CASE pc[p] = "head" /\ Goto(p, "tarball") /\ UNCHANGED <<queue, result, seen, world>>
  <2>1. SharedOK' /\ Grows(p)
    BY <1>6, WorldKept
  <2>2. p \in Job => seen'[p] \/ Excused(p)'
    BY <1>3, <1>6 DEF SeesFailures, Excused, world, jobs
  <2> QED  BY <1>2, <1>6, <2>1, <2>2, FetchGoes DEF FetchPcs
<1>7. CASE /\ pc[p] = "tarball" /\ tars' = tars \cup {Cur(p)}
           /\ Goto(p, "finish")
           /\ UNCHANGED <<requests, queue, result, seen, jobs, resource, files, local>>
  <2>1. Here(j)' /\ Cur(p)' = j
    BY <1>3, <1>7 DEF Here, Cur
  <2>2. SharedOK' /\ Grows(p)
    BY <1>3, <1>7, <2>1, Brings DEF TypeOK
  <2>3. p \in Job => seen'[p] \/ Excused(p)'
    BY <1>3, <1>7 DEF SeesFailures, Excused, jobs
  <2>4. Here(Cur(p))' = Here(j)'
    BY <2>1 DEF Here
  <2> QED  BY <1>1, <1>2, <1>7, <2>1, <2>2, <2>3, <2>4, FetchGoes DEF FetchPcs
<1> QED  BY <1>4, <1>5, <1>6, <1>7 DEF RunFailed, RunHead, RunTarball, FetchStep

\* The tarball becomes files of the local dataset.
LEMMA ExtractKeeps ==
    ASSUME IInv, NEW p \in Proc, RunExtract(p) \/ RunCommit(p) PROVE IInv'
<1>1. spec[Cur(p)].orc = "datalad-run" /\ pc[p] \in FetchPcs
  BY DEF RunExtract, RunCommit, FetchStep, FetchPcs
<1>2. PICK j \in Job : j = Cur(p) /\ TypeOK /\ remote[j] = "completed" /\ pc[p] \notin {"idle", "exit"}
  BY <1>1, FetchFacts
<1>3. CASE Exit(p, "error")
  BY <1>3, ExitKeeps
<1>4. CASE OrchestratorError(p)
  BY <1>2, <1>4, ErrorKeeps
<1>5. CASE /\ tars' = tars \ {Cur(p)}
           /\ local' = [local EXCEPT ![Cur(p)] = IF @ = "full" THEN "full" ELSE "files"]
           /\ Goto(p, "commit")
           /\ UNCHANGED <<requests, queue, result, seen, jobs, resource, files>>
  <2>1. /\ local' \in [Job -> {"none", "ref", "files", "full"}] /\ tars' \subseteq Job
        /\ local'[j] = IF local[j] = "full" THEN "full" ELSE "files"
        /\ \A i \in Job \ {j} : local'[i] = local[i] /\ (i \in tars' <=> i \in tars)
    BY <1>2, <1>5 DEF TypeOK
  <2>2. SharedOK' /\ Grows(p)
    BY <1>1, <1>2, <1>5, <2>1, Brings DEF Here
  <2> QED  BY <1>1, <1>5, <2>2, FetchGoes DEF FetchPcs
<1>6. CASE Bring(p, "full", "unregister")
  BY <1>1, <1>6, BringKeeps
<1> QED  BY <1>3, <1>4, <1>5, <1>6 DEF RunExtract, RunCommit

\* After on_remote_finish: unregister, or extract the tarball first.
LEMMA AfterFinishGoes ==
    ASSUME IInv, NEW p \in Proc, pc[p] \in {"finish", "delete"}, Goto(p, AfterFinish(p)),
           UNCHANGED <<requests, queue, result, seen, jobs, files, dataset>>, SharedOK'
    PROVE  IInv'
<1>1. pc[p] \in FetchPcs
  BY DEF FetchPcs
<1>2. PICK j \in Job : j = Cur(p) /\ Knows(p)
  BY <1>1, FetchFacts
<1>3. Grows(p)
  BY DEF Grows, Brought, Here, requests, jobs, files, dataset
<1>4. Cur(p)' = j
  BY <1>2 DEF Cur
<1>5. CASE spec[j].orc = "datalad-run"
  BY <1>1, <1>2, <1>3, <1>5, FetchGoes DEF AfterFinish, FetchPcs
<1>6. CASE spec[j].orc # "datalad-run"
  <2>1. Brought(j)
    BY <1>2, <1>6 DEF Knows
  <2>2. Brought(Cur(p))'
    BY <1>4, <2>1 DEF Brought, requests, dataset
  <2> QED  BY <1>1, <1>2, <1>3, <1>6, <2>2, FetchGoes DEF AfterFinish, FetchPcs
<1> QED  BY <1>5, <1>6

\* The resource is stopped, and then deleted, by a "reproman run" that has what
\* it came for.
LEMMA ReleaseKeeps == ASSUME IInv, NEW p \in Proc, Finish(p) \/ Delete(p) PROVE IInv'
<1>1. pc[p] \in {"finish", "delete"} /\ pc[p] \in FetchPcs
  BY DEF Finish, Delete, FetchPcs
<1>2. PICK j \in Job : /\ j = Cur(p) /\ TypeOK /\ Knows(p) /\ pc[p] \notin {"idle", "exit"}
                       /\ p \in Job => j = p /\ SeesFailures(p)
  BY <1>1, FetchFacts
<1>3. CASE Exit(p, "error")
  BY <1>3, ExitKeeps
<1>4. CASE /\ Goto(p, AfterFinish(p))
           /\ machine' \in {"up", "stopped", "gone"} /\ listed' \in BOOLEAN
           /\ UNCHANGED <<requests, queue, result, seen, jobs, files, dataset>>
  <2>1. SharedOK'
    BY <1>2, <1>4 DEF SharedOK, TypeOK, requests, jobs, files, dataset
  <2> QED  BY <1>1, <1>4, <2>1, AfterFinishGoes
<1>5. CASE /\ pc[p] = "finish" /\ p \in Job /\ Releases(p) /\ ~(seen[p] /\ IfSuccess(p))
           /\ machine' \in {"up", "stopped", "gone"}
           /\ Goto(p, "delete")
           /\ UNCHANGED <<requests, queue, result, seen, jobs, listed, files, dataset>>
  <2>1. SharedOK' /\ Grows(p)
    BY <1>2, <1>5 DEF SharedOK, TypeOK, Grows, Brought, Here, requests, jobs, files, dataset
  <2>2. (seen'[p] \/ Excused(p)') /\ (IfSuccess(p) => Excused(p)')
    BY <1>2, <1>5 DEF SeesFailures, Excused, jobs
  <2>3. IF spec[j].orc = "datalad-run" THEN Here(j) ELSE Brought(j)
    BY <1>2, <1>5 DEF Knows
  <2>4. IF spec[Cur(p)].orc = "datalad-run" THEN Here(Cur(p))' ELSE Brought(Cur(p))'
    BY <1>2, <1>5, <2>3 DEF Here, Brought, Cur, requests, dataset
  <2> QED  BY <1>1, <1>5, <2>1, <2>2, <2>4, FetchGoes DEF FetchPcs
<1>6. Finish(p) => \/ Exit(p, "error")
                   \/ /\ p \in Job /\ Releases(p) /\ ~(seen[p] /\ IfSuccess(p))
                      /\ machine' \in {"up", "stopped", "gone"}
                      /\ Goto(p, "delete") \/ Goto(p, AfterFinish(p))
                      /\ UNCHANGED <<requests, queue, result, seen, jobs, listed, files, dataset>>
                   \/ Goto(p, AfterFinish(p)) /\ UNCHANGED <<queue, result, seen, world>>
  BY <1>2 DEF Finish, TypeOK
<1>7. Delete(p) => \/ Exit(p, "error")
                   \/ /\ machine' \in {"up", "stopped", "gone"} /\ listed' = FALSE
                      /\ Goto(p, AfterFinish(p))
                      /\ UNCHANGED <<requests, queue, result, seen, jobs, files, dataset>>
  BY <1>2 DEF Delete, TypeOK
<1>8. listed \in BOOLEAN /\ machine \in {"up", "stopped", "gone"}
      /\ (UNCHANGED world => UNCHANGED <<requests, jobs, files, dataset, machine, listed>>)
  BY <1>2 DEF TypeOK, world, resource
<1>9. CASE Finish(p)
  <2>1. pc[p] = "finish"
    BY <1>9 DEF Finish
  <2> QED  BY <1>3, <1>4, <1>5, <1>6, <1>8, <1>9, <2>1
<1>10. CASE Delete(p)
  BY <1>3, <1>4, <1>7, <1>10
<1> QED  BY <1>9, <1>10

\* log_failed() has no effect but its errors.
LEMMA LogFailsKeeps == ASSUME IInv, NEW p \in Proc, LogFails(p) PROVE IInv'
<1>1. pc[p] \notin {"idle", "exit"}
  BY DEF LogFails
<1> QED  BY <1>1, AskFailsKeeps, ExitKeeps DEF LogFails

\* A job file is removed once the results are there.
LEMMA UnregisterKeeps == ASSUME IInv, NEW p \in Proc, Unregister(p) PROVE IInv'
<1>1. pc[p] = "unregister" /\ pc[p] \in FetchPcs
  BY DEF Unregister, FetchPcs
<1>2. PICK j \in Job : j = Cur(p) /\ TypeOK /\ Knows(p) /\ pc[p] \notin {"idle", "exit"}
  BY <1>1, FetchFacts
<1>3. Brought(j)
  BY <1>1, <1>2 DEF Knows
<1>4. /\ registry' = [registry EXCEPT ![j] = "absent"]
      /\ removed' = [removed EXCEPT ![j] = IF registry[j] = "absent" THEN @ ELSE "fetch"]
      /\ UNCHANGED <<requests, jobs, resource, dataset>>
  BY <1>2 DEF Unregister
<1>5. SharedOK'
  BY <1>2, <1>4 DEF SharedOK, TypeOK, requests, jobs, resource, dataset
<1>6. Grows(p)
  BY <1>2, <1>3, <1>4 DEF Grows, TypeOK, Brought, Here, requests, jobs, dataset
<1>7. CASE p \in Job
  <2>1. Goto(p, "final") /\ UNCHANGED <<queue, result, seen>>
    BY <1>7 DEF Unregister
  <2>2. Brought(Cur(p))'
    BY <1>2, <1>3, <1>4, <2>1 DEF Brought, Cur, requests, dataset
  <2> QED  BY <1>1, <1>5, <1>6, <1>7, <2>1, <2>2, FetchGoes
<1>8. CASE p \notin Job
  BY <1>2, <1>5, <1>6, <1>8, NextJobKeeps DEF Unregister, Proc
<1> QED  BY <1>7, <1>8
-----------------------------------------------------------------------------
\* Every step keeps the invariant.
LEMMA LifecycleStep == IInv /\ [Next]_vars => IInv'
<1> SUFFICES ASSUME IInv, [Next]_vars PROVE IInv'
  OBVIOUS
<1>1. CASE UNCHANGED vars
  BY <1>1 DEF IInv, TypeOK, Placed, Knows, SeesFailures, Accounts, Excused, Brought, Here, Cur,
     Releases, IfSuccess, UnregisteredIsFetched, FetchedIsCompleted, vars, requests, jobs, resource, files, dataset
<1>2. ASSUME NEW j \in Job, RunStep(j) \/ RemoteCompletes(j) \/ MarkerArrives(j) \/ RemoteBreaks(j)
      PROVE  IInv'
  BY <1>2, PrepareKeeps, SubmitKeeps, RegisterKeeps, FollowKeeps, FinalKeeps, RemoteKeeps, MarkerKeeps
     DEF RunStep
<1>3. ASSUME NEW c \in Client, FindJobs(c) \/ DeleteJobs(c) \/ JobsStep(c) PROVE IInv'
  BY <1>3, FindKeeps, DeleteJobsKeeps, LoadKeeps, ResurrectKeeps DEF JobsStep
<1>4. ASSUME NEW p \in Proc, FetchedStep(p) PROVE IInv'
  BY <1>4, PlainKeeps, PairKeeps, TarballKeeps, ExtractKeeps, LogFailsKeeps, ReleaseKeeps, UnregisterKeeps
     DEF FetchedStep
<1>5. ASSUME NEW p \in Proc, Interrupt(p) PROVE IInv'
  BY <1>5, ExitKeeps DEF Interrupt
<1> QED  BY <1>1, <1>2, <1>3, <1>4, <1>5 DEF Next

\* The inductive invariant holds of every reachable state.
THEOREM LifecycleInvariant == Spec => []IInv
BY LifecycleInitially, LifecycleStep, PTL DEF Spec

\* Every variable keeps its type, for any jobs, commands and queries.
THEOREM LifecycleType == Spec => []TypeOK
<1>1. IInv => TypeOK
  BY DEF IInv
<1> QED  BY LifecycleInvariant, <1>1, PTL

\* A launched job can be found again, unless its own command was cut short:
\* submit(), register() and unregister() leave no gap otherwise.
THEOREM LaunchedCorrect == Spec => []LaunchedIsKnown
<1>1. IInv => LaunchedIsKnown
  BY DEF IInv, Accounts, LaunchedIsKnown
<1> QED  BY LifecycleInvariant, <1>1, PTL

\* No fetch of any command removes a job file before the results are local.
THEOREM UnregisterCorrect == Spec => []UnregisteredIsFetched
<1>1. IInv => UnregisteredIsFetched
  BY DEF IInv
<1> QED  BY LifecycleInvariant, <1>1, PTL

\* Whoever fetches, and however often: only a completed job's results come.
THEOREM FetchCorrect == Spec => []FetchedIsCompleted
<1>1. IInv => FetchedIsCompleted
  BY DEF IInv
<1> QED  BY LifecycleInvariant, <1>1, PTL

-----------------------------------------------------------------------------
\* A step that is not the last of a followed run leaves no report but an error.
LEMMA OnlyFinal ==
    ASSUME TypeOK, [Next]_vars, NEW j \in Job, ~Final(j)
    PROVE  \/ result'[j] \in {result[j], "error", "interrupted"}
           \/ result'[j] = "ok" /\ spec[j].follow = "no"
<1> USE DEF Exit, End, Skip, NextJob, OrchestratorError, ResourceError, AskFails, TypeOK, Proc
<1>1. \A p \in Proc : p \in Client => p # j
  BY LifecycleAssumption
<1>2. CASE UNCHANGED vars
  BY <1>2 DEF vars
<1>3. ASSUME NEW i \in Job, RunStep(i), ~Final(i)
      PROVE  result'[j] \in {result[j], "error"} \/ (result'[j] = "ok" /\ spec[j].follow = "no")
  BY <1>1, <1>3 DEF RunStep, Prepare, Submit, Register, Dump, FollowJob
<1>4. ASSUME NEW i \in Job, Final(i), i # j PROVE result'[j] \in {result[j], "error"}
  BY <1>1, <1>4 DEF Final
<1>5. ASSUME NEW i \in Job, RemoteCompletes(i) \/ MarkerArrives(i) \/ RemoteBreaks(i)
      PROVE  result'[j] = result[j]
  BY <1>5 DEF RemoteCompletes, MarkerArrives, RemoteBreaks
<1>6. ASSUME NEW c \in Client, FindJobs(c) \/ DeleteJobs(c) \/ JobsStep(c)
      PROVE  result'[j] = result[j]
  BY <1>1, <1>6 DEF JobsStep, FindJobs, DeleteJobs, LoadJobs, Resurrect
<1>7. ASSUME NEW p \in Proc, FetchedStep(p) PROVE result'[j] \in {result[j], "error"}
  BY <1>1, <1>7 DEF FetchedStep, PlainGet, PlainFailed, PairFailed, PairMerge, PairOutputs, RunFailed,
     RunHead, RunTarball, RunExtract, RunCommit, LogFails, Finish, Delete, Unregister, Bring, ReadFailed
<1>8. ASSUME NEW p \in Proc, Interrupt(p) PROVE result'[j] \in {result[j], "interrupted"}
  BY <1>8 DEF Interrupt
<1> QED  BY <1>2, <1>3, <1>4, <1>5, <1>6, <1>7, <1>8 DEF Next

\* What "reproman run --follow" reports in the end is what happened to its job,
\* whatever other commands did to the job in the meantime, unless its last query
\* fails or markers come after it.
THEOREM ReportCorrect == Spec => ReportIsTrue
<1> DEFINE Reported ==
        \A j \in Job :
          /\ result[j] = "none" /\ result'[j] = "ok" /\ spec[j].follow # "no" =>
                /\ remote[j] = "completed" /\ local[j] # "none"
                /\ Marked(j) => misread'[j]
          /\ result[j] = "none" /\ result'[j] = "JobError" => Bad(j) /\ local[j] # "none"
<1>1. ASSUME IInv, [Next]_vars PROVE Reported
  <2> SUFFICES ASSUME NEW j \in Job, result[j] = "none",
                      \/ result'[j] = "ok" /\ spec[j].follow # "no"
                      \/ result'[j] = "JobError"
               PROVE  /\ remote[j] = "completed" /\ local[j] # "none"
                      /\ result'[j] = "ok" => (Marked(j) => misread'[j])
                      /\ result'[j] = "JobError" => Bad(j)
    OBVIOUS
  <2>1. Final(j) /\ TypeOK
    BY <1>1, OnlyFinal DEF IInv
  <2>2. pc[j] = "final" /\ j \in Proc /\ j \notin Client
    BY <2>1, LifecycleAssumption DEF Final, Proc
  <2>3. remote[j] = "completed" /\ local[j] # "none"
    BY <1>1, <2>2 DEF IInv, Knows, Brought, Cur
  <2>4. PICK heard \in Answers(j) :
           /\ Hears(j, heard)
           /\ End(j, IF heard THEN "JobError" ELSE "ok")
           /\ UNCHANGED <<requests, remote, failed, resource, files, dataset>>
    <3>1. ~AskFails(j)
      BY <2>1, <2>2 DEF AskFails, ResourceError, OrchestratorError, Exit, End, TypeOK
    <3> QED  BY <2>1, <3>1 DEF Final
  <2>5. result'[j] = IF heard THEN "JobError" ELSE "ok"
    BY <2>1, <2>2, <2>4 DEF End, TypeOK
  <2> QED  BY <1>1, <2>2, <2>3, <2>4, <2>5, Hearing
<1>2. Spec => [][Reported]_vars
  BY LifecycleInvariant, <1>1, PTL DEF Spec
<1> QED  BY <1>2 DEF ReportIsTrue
-----------------------------------------------------------------------------
\* Only on_remote_finish of a "reproman run" touches the resource.
LEMMA OnlyRelease ==
    ASSUME Next, machine' # machine \/ listed' # listed
    PROVE  \E p \in Proc : Finish(p) \/ Delete(p)
<1> USE DEF world, resource, Exit, Skip, OrchestratorError, ResourceError, AskFails
<1>1. ASSUME NEW j \in Job, RunStep(j) \/ RemoteCompletes(j) \/ MarkerArrives(j) \/ RemoteBreaks(j)
      PROVE  FALSE
  BY <1>1 DEF RunStep, Prepare, Submit, Register, Dump, FollowJob, Final, RemoteCompletes, MarkerArrives,
     RemoteBreaks
<1>2. ASSUME NEW c \in Client, FindJobs(c) \/ DeleteJobs(c) \/ JobsStep(c) PROVE FALSE
  BY <1>2 DEF JobsStep, FindJobs, DeleteJobs, LoadJobs, Resurrect
<1>3. ASSUME NEW p \in Proc, FetchedStep(p), ~(Finish(p) \/ Delete(p)) PROVE FALSE
  BY <1>3 DEF FetchedStep, PlainGet, PlainFailed, PairFailed, PairMerge, PairOutputs, RunFailed,
     RunHead, RunTarball, RunExtract, RunCommit, LogFails, Unregister, Bring, ReadFailed
<1>4. ASSUME NEW p \in Proc, Interrupt(p) PROVE FALSE
  BY <1>4 DEF Interrupt
<1> QED  BY <1>1, <1>2, <1>3, <1>4 DEF Next

\* The resource is released only by a followed run that has brought over what it
\* fetches, and with "-if-success" only if no failure was marked in time or the query
\* for the markers failed: nobody else's fetch or delete in between changes that.
THEOREM ReleaseCorrect == Spec => ReleasedAfterFetch
<1> DEFINE Released ==
        machine' # machine \/ listed' # listed =>
          \E j \in Job :
              /\ Releases(j) /\ pc[j] \in {"finish", "delete"}
              /\ local[j] # "none" \/ j \in tars
              /\ IfSuccess(j) => failed[j] # "marked" \/ misread[j]
<1>1. ASSUME IInv, [Next]_vars PROVE Released
  <2>1. CASE UNCHANGED vars
    BY <2>1 DEF vars, resource
  <2>2. ASSUME NEW p \in Proc, Finish(p) \/ Delete(p), machine' # machine \/ listed' # listed
        PROVE  Released
    <3>1. pc[p] \in FetchPcs /\ pc[p] \in {"finish", "delete"}
      BY <2>2 DEF Finish, Delete, FetchPcs
    <3>2. TypeOK /\ Placed(p) /\ Knows(p) /\ (p \in Job => Cur(p) = p /\ SeesFailures(p))
      BY <1>1, <3>1, FetchFacts
    <3>3. p \in Job /\ Releases(p) /\ (IfSuccess(p) => Excused(p))
      <4>1. CASE Finish(p)
        <5>1. p \in Job /\ Releases(p) /\ ~(seen[p] /\ IfSuccess(p)) /\ pc[p] = "finish"
          BY <2>2, <4>1 DEF Finish, world, resource
        <5> QED  BY <3>2, <5>1 DEF SeesFailures
      <4>2. CASE Delete(p)
        <5>1. pc[p] = "delete"
          BY <4>2 DEF Delete
        <5> QED  BY <3>2, <5>1 DEF Placed, SeesFailures, Proc
      <4> QED  BY <2>2, <4>1, <4>2
    <3>4. local[p] # "none" \/ p \in tars
      BY <3>1, <3>2, <3>3 DEF Knows, Brought, Here
    <3> QED  BY <3>1, <3>3, <3>4 DEF Excused
  <2> QED  BY <1>1, <2>1, <2>2, OnlyRelease
<1>2. ReleasedAfterFetch <=> [][Released]_vars
  BY DEF ReleasedAfterFetch
<1> QED  BY LifecycleInvariant, <1>1, <1>2, PTL DEF Spec
-----------------------------------------------------------------------------
(***************************************************************************)
(* The dataset that jobs share.                                            *)
(***************************************************************************)
USE DEF DirtyFiles, Switch, Busy, GoClient, GoScript, request, git

\* Commits of the local dataset are states of the remote one, which are not
\* the absent commit.
LEMMA LocalState ==
    /\ \A c \in Commit : Local(c) \in State /\ Local(c).base = c /\ Local(c).files = {}
    /\ NoCommit \notin State
BY DatasetAssumption DEF Local, State, NoCommit

\* What the initial states give.
LEMMA InitInv == DatasetInit => DatasetIInv
<1> SUFFICES ASSUME DatasetInit PROVE DatasetIInv
    OBVIOUS
<1> USE DEF DatasetInit
<1>1. /\ head \in State /\ work \subseteq File
      /\ client \in [DatasetJob -> Clients] /\ script \in [DatasetJob -> Scripts]
      BY LocalState DEF Clients, Scripts
<1>2. /\ prev \in [DatasetJob -> State \cup {NoCommit}] /\ ref \in [DatasetJob -> State \cup {NoCommit}]
      /\ ranOn \in [DatasetJob -> Commit \cup {None}]
      OBVIOUS
<1>3. DatasetTypeOK
      BY <1>1, <1>2 DEF DatasetTypeOK
<1>4. Isolation /\ OnTarget /\ SavedOwn
      BY DEF Isolation, OnTarget, SavedOwn, UnderWay, Running
<1>5. RanOnRequested /\ RefIsOwn
      BY DEF RanOnRequested, RefIsOwn
<1> QED BY <1>3, <1>4, <1>5 DEF DatasetIInv

\* A step keeps the types, given what a reset relies on.
LEMMA StepType == DatasetTypeOK /\ SavedOwn /\ [DatasetNext]_remoteVars => DatasetTypeOK'
<1> SUFFICES ASSUME DatasetTypeOK, SavedOwn, [DatasetNext]_remoteVars PROVE DatasetTypeOK'
    OBVIOUS
<1> USE DEF DatasetTypeOK
<1>1. CASE UNCHANGED remoteVars
      BY <1>1 DEF remoteVars
<1> SUFFICES ASSUME NEW j \in DatasetJob, ClientStep(j) \/ ScriptStep(j) PROVE DatasetTypeOK'
    BY <1>1 DEF DatasetNext
<1>2. Clients = {"sibling", "check", "checkout", "put", "launch", "idmap", "out"}
      BY DEF Clients
<1>3. Scripts = {"none", "command", "prev", "save", "ref", "status", "reset", "finish", "done", "dead"}
      BY DEF Scripts
<1>4. /\ <<j, "meta">> \in File /\ <<j, "idmap">> \in File /\ <<j, "results">> \in File
      /\ head.base \in Commit /\ head.files \subseteq File
      BY DEF File, State
<1>5. CASE Sibling(j)     BY <1>2, <1>5, LocalState DEF Sibling
<1>6. CASE Check(j)       BY <1>2, <1>6 DEF Check
<1>7. CASE Checkout(j)    BY <1>2, <1>4, <1>7, LocalState DEF Checkout
<1>8. CASE Put(j)         BY <1>2, <1>4, <1>8 DEF Put
<1>9. CASE Launch(j)      BY <1>2, <1>3, <1>9 DEF Launch
<1>10. CASE WriteIdmap(j) BY <1>2, <1>4, <1>10 DEF WriteIdmap
<1>11. CASE GiveUp(j)     BY <1>2, <1>11 DEF GiveUp
<1>12. CASE Command(j)    BY <1>3, <1>4, <1>12 DEF Command
<1>13. CASE ReadPrev(j)   BY <1>3, <1>13 DEF ReadPrev
<1>14. CASE Save(j)
  <2>1. head' \in State
        BY <1>4, <1>14 DEF Save, State
  <2> QED BY <1>3, <1>14, <2>1 DEF Save
<1>15. CASE CreateRef(j)  BY <1>3, <1>15 DEF CreateRef
<1>16. CASE ReadStatus(j) BY <1>3, <1>16 DEF ReadStatus
<1>17. CASE Reset(j)
  <2>1. prev[j] = Local(target[j])
        BY <1>17 DEF Reset, SavedOwn
  <2> QED BY <1>3, <1>4, <1>17, <2>1, LocalState DEF Reset
<1>18. CASE Complete(j)     BY <1>3, <1>18 DEF Complete
<1>19. CASE Die(j)        BY <1>3, <1>19 DEF Die
<1> QED BY <1>5, <1>6, <1>7, <1>8, <1>9, <1>10, <1>11, <1>12, <1>13, <1>14, <1>15, <1>16,
           <1>17, <1>18, <1>19 DEF ClientStep, ScriptStep

-----------------------------------------------------------------------------
\* A clean worktree, and nobody in a window, means that no job is under way: a
\* running one has files that are not committed.
LEMMA CleanIsIdle ==
    ASSUME Overlap = FALSE, OnTarget, DatasetTypeOK, NEW j \in DatasetJob, Check(j)
    PROVE  \A k \in DatasetJob : ~UnderWay(k)
<1> SUFFICES ASSUME NEW k \in DatasetJob, UnderWay(k) PROVE FALSE
    OBVIOUS
<1>1. Running(k)
      BY DEF Check, UnderWay, Running
<1>2. <<k, "meta">> \in work /\ head = Local(target[k]) /\ target[k] \in Commit
      BY <1>1 DEF OnTarget, DatasetTypeOK
<1>3. head.files = {}
      BY <1>2, LocalState
<1> QED BY <1>2, <1>3 DEF Check

\* Jobs stay isolated.
LEMMA StepIsolation ==
    ASSUME Overlap = FALSE, DatasetTypeOK, Isolation, OnTarget, SavedOwn, [DatasetNext]_remoteVars
    PROVE  Isolation'
<1> USE DEF DatasetTypeOK, Isolation, UnderWay
<1>1. CASE UNCHANGED remoteVars
      BY <1>1 DEF remoteVars
<1> SUFFICES ASSUME NEW j \in DatasetJob, ClientStep(j) \/ ScriptStep(j) PROVE Isolation'
    BY <1>1 DEF DatasetNext
<1>2. CASE Sibling(j)     BY <1>2 DEF Sibling
<1>3. CASE Check(j)
  <2>1. \A k \in DatasetJob : ~UnderWay(k)
        BY <1>3, CleanIsIdle
  <2> QED BY <1>3, <2>1 DEF Check
<1>4. CASE Checkout(j)    BY <1>4, LocalState DEF Checkout
<1>5. CASE Put(j)         BY <1>5 DEF Put
<1>6. CASE Launch(j)      BY <1>6 DEF Launch
<1>7. CASE WriteIdmap(j)  BY <1>7 DEF WriteIdmap
<1>8. CASE GiveUp(j)      BY <1>8 DEF GiveUp
<1>9. CASE Command(j)     BY <1>9 DEF Command
<1>10. CASE ReadPrev(j)   BY <1>10 DEF ReadPrev
<1>11. CASE Save(j)
  <2>1. head'.files = work
        BY <1>11 DEF Save, State
  <2> QED BY <1>11, <2>1 DEF Save
<1>12. CASE CreateRef(j)  BY <1>12 DEF CreateRef
<1>13. CASE ReadStatus(j) BY <1>13 DEF ReadStatus
<1>14. CASE Reset(j)      BY <1>14 DEF Reset
<1>15. CASE Complete(j)     BY <1>15 DEF Complete
<1>16. CASE Die(j)        BY <1>16 DEF Die
<1> QED BY <1>2, <1>3, <1>4, <1>5, <1>6, <1>7, <1>8, <1>9, <1>10, <1>11, <1>12, <1>13,
           <1>14, <1>15, <1>16 DEF ClientStep, ScriptStep

\* A job's commands find HEAD at its target and its files in the worktree.
LEMMA StepOnTarget ==
    ASSUME Overlap = FALSE, DatasetTypeOK, Isolation, OnTarget, [DatasetNext]_remoteVars
    PROVE  OnTarget'
<1> USE DEF DatasetTypeOK, Isolation, OnTarget, UnderWay, Running
<1>1. CASE UNCHANGED remoteVars
      BY <1>1 DEF remoteVars
<1> SUFFICES ASSUME NEW j \in DatasetJob, ClientStep(j) \/ ScriptStep(j) PROVE OnTarget'
    BY <1>1 DEF DatasetNext
<1>2. CASE Sibling(j)     BY <1>2 DEF Sibling
<1>3. CASE Check(j)       BY <1>3 DEF Check
<1>4. CASE Checkout(j)
  <2>1. script[j] = "none" /\ \A k \in DatasetJob \ {j} : ~UnderWay(k)
        BY <1>4 DEF Checkout
  <2>2. head' = Local(target[j])
        BY <1>4 DEF Checkout
  <2> QED BY <1>4, <2>1, <2>2 DEF Checkout
<1>5. CASE Put(j)         BY <1>5 DEF Put
<1>6. CASE Launch(j)      BY <1>6 DEF Launch
<1>7. CASE WriteIdmap(j)  BY <1>7 DEF WriteIdmap
<1>8. CASE GiveUp(j)      BY <1>8 DEF GiveUp
<1>9. CASE Command(j)     BY <1>9 DEF Command
<1>10. CASE ReadPrev(j)   BY <1>10 DEF ReadPrev
<1>11. CASE Save(j)
  <2>1. client[j] \in {"idmap", "out"} /\ \A k \in DatasetJob \ {j} : ~UnderWay(k)
        BY <1>11 DEF Save
  <2> QED BY <1>11, <2>1 DEF Save
<1>12. CASE CreateRef(j)  BY <1>12 DEF CreateRef
<1>13. CASE ReadStatus(j) BY <1>13 DEF ReadStatus
<1>14. CASE Reset(j)
  <2>1. client[j] \in {"idmap", "out"} /\ \A k \in DatasetJob \ {j} : ~UnderWay(k)
        BY <1>14 DEF Reset
  <2> QED BY <1>14, <2>1 DEF Reset
<1>15. CASE Complete(j)     BY <1>15 DEF Complete
<1>16. CASE Die(j)        BY <1>16 DEF Die
<1> QED BY <1>2, <1>3, <1>4, <1>5, <1>6, <1>7, <1>8, <1>9, <1>10, <1>11, <1>12, <1>13,
           <1>14, <1>15, <1>16 DEF ClientStep, ScriptStep

\* The commit of a job's results holds no others: at the save HEAD is the bare
\* target, and all results that lie in the worktree are the job's.
LEMMA SaveIsOwn ==
    ASSUME DatasetTypeOK, Isolation, OnTarget, SavedOwn, NEW j \in DatasetJob, Save(j)
    PROVE  OwnResults(head', j)
<1>1. UnderWay(j) /\ head = Local(target[j]) /\ <<j, "results">> \in work
      BY DEF Save, UnderWay, Running, OnTarget, SavedOwn
<1>2. target[j] \in Commit /\ head.files = {} /\ head.base = target[j]
      BY <1>1, LocalState DEF DatasetTypeOK
<1>3. head'.files = work /\ head'.base = target[j]
      BY <1>2 DEF Save, DatasetTypeOK, State
<1>4. ASSUME NEW k \in DatasetJob, <<k, "results">> \in work
      PROVE  k = j
      BY <1>1, <1>2, <1>4 DEF Isolation
<1> QED BY <1>1, <1>3, <1>4 DEF OwnResults

\* What a script has saved stays what it was until its ref is made.
LEMMA StepSavedOwn ==
    ASSUME DatasetTypeOK, Isolation, OnTarget, SavedOwn, [DatasetNext]_remoteVars
    PROVE  SavedOwn'
<1> USE DEF DatasetTypeOK, SavedOwn
<1>1. CASE UNCHANGED remoteVars
      BY <1>1 DEF remoteVars, OwnResults
<1> SUFFICES ASSUME NEW j \in DatasetJob, ClientStep(j) \/ ScriptStep(j),
                    NEW k \in DatasetJob
             PROVE  /\ script'[k] \in {"prev", "save"} => <<k, "results">> \in work'
                    /\ script'[k] = "ref" => OwnResults(head, k)'
                    /\ script'[k] \in {"status", "reset"} => orc'[k] = "datalad-pair-run"
                    /\ script'[k] \in {"save", "ref", "status", "reset"} /\ orc'[k] = "datalad-pair-run"
                          => prev'[k] = Local(target'[k])
    BY <1>1 DEF DatasetNext
<1>2. /\ UnderWay(j) /\ UnderWay(k) => j = k
      /\ UnderWay(k) => exists
      /\ script[k] # "none" => client[k] \in {"idmap", "out"}
      BY DEF Isolation
<1>3. script[k] \in {"command", "prev", "save", "ref", "status", "reset"} => UnderWay(k)
      BY DEF UnderWay
<1>4. client[j] \in {"checkout", "put", "launch"} => UnderWay(j)
      BY DEF UnderWay
<1>5. script[j] \in {"command", "prev", "save", "ref", "status", "reset"} => UnderWay(j)
      BY DEF UnderWay
<1> USE DEF OwnResults
<1>6. CASE Sibling(j)     BY <1>2, <1>3, <1>6 DEF Sibling
<1>7. CASE Check(j)       BY <1>7 DEF Check
<1>8. CASE Checkout(j)    BY <1>2, <1>3, <1>4, <1>8 DEF Checkout
<1>9. CASE Put(j)         BY <1>9 DEF Put
<1>10. CASE Launch(j)     BY <1>10 DEF Launch
<1>11. CASE WriteIdmap(j) BY <1>11 DEF WriteIdmap
<1>12. CASE GiveUp(j)     BY <1>12 DEF GiveUp
<1>13. CASE Command(j)    BY <1>2, <1>3, <1>5, <1>13 DEF Command
<1>14. CASE ReadPrev(j)
  <2>1. head = Local(target[j])
        BY <1>14 DEF ReadPrev, OnTarget, Running
  <2> QED BY <1>14, <2>1 DEF ReadPrev
<1>15. CASE Save(j)
  <2>1. OwnResults(head, j)'
        BY <1>15, SaveIsOwn DEF Save
  <2> QED BY <1>2, <1>3, <1>5, <1>15, <2>1 DEF Save
<1>16. CASE CreateRef(j)  BY <1>16 DEF CreateRef
<1>17. CASE ReadStatus(j) BY <1>17 DEF ReadStatus
<1>18. CASE Reset(j)      BY <1>2, <1>3, <1>5, <1>18 DEF Reset
<1>19. CASE Complete(j)     BY <1>19 DEF Complete
<1>20. CASE Die(j)        BY <1>20 DEF Die
<1> QED BY <1>6, <1>7, <1>8, <1>9, <1>10, <1>11, <1>12, <1>13, <1>14, <1>15, <1>16,
           <1>17, <1>18, <1>19, <1>20 DEF ClientStep, ScriptStep

\* A command sees the target of its job.
LEMMA StepRanOn ==
    ASSUME DatasetTypeOK, OnTarget, RanOnRequested, [DatasetNext]_remoteVars
    PROVE  RanOnRequested'
<1> USE DEF DatasetTypeOK, RanOnRequested
<1>1. CASE ranOn' = ranOn /\ target' = target
      BY <1>1
<1>2. ASSUME NEW j \in DatasetJob, Command(j)
      PROVE  RanOnRequested'
  <2>1. head.base = target[j]
        BY <1>2, LocalState DEF Command, OnTarget, Running
  <2> QED BY <1>2, <2>1 DEF Command
<1> QED BY <1>1, <1>2 DEF DatasetNext, remoteVars, ClientStep, ScriptStep, Sibling, Check, Checkout, Put,
           Launch, WriteIdmap, GiveUp, ReadPrev, Save, CreateRef, ReadStatus, Reset, Complete, Die

\* A ref is made of the commit that holds its job's results.
LEMMA StepRef ==
    ASSUME DatasetTypeOK, SavedOwn, RefIsOwn, [DatasetNext]_remoteVars
    PROVE  RefIsOwn'
<1> USE DEF DatasetTypeOK, RefIsOwn, OwnResults
<1>1. CASE ref' = ref /\ target' = target
      BY <1>1
<1>2. ASSUME NEW j \in DatasetJob, CreateRef(j)
      PROVE  RefIsOwn'
  <2>1. OwnResults(head, j)
        BY <1>2 DEF CreateRef, SavedOwn
  <2> QED BY <1>2, <2>1 DEF CreateRef
<1> QED BY <1>1, <1>2 DEF DatasetNext, remoteVars, ClientStep, ScriptStep, Sibling, Check, Checkout, Put,
           Launch, WriteIdmap, GiveUp, Command, ReadPrev, Save, ReadStatus, Reset, Complete, Die
-----------------------------------------------------------------------------
\* Without overlap the inductive invariant holds of every reachable state.
THEOREM Isolated == ASSUME Overlap = FALSE PROVE DatasetSpec => []DatasetIInv
<1>1. DatasetIInv /\ [DatasetNext]_remoteVars => DatasetIInv'
      BY StepType, StepIsolation, StepOnTarget, StepSavedOwn, StepRanOn, StepRef DEF DatasetIInv
<1> QED BY InitInv, <1>1, PTL DEF DatasetSpec

\* The types, for any jobs and commits, when jobs do not overlap.
THEOREM DatasetType == ASSUME Overlap = FALSE PROVE DatasetSpec => []DatasetTypeOK
<1>1. DatasetIInv => DatasetTypeOK
      BY DEF DatasetIInv
<1> QED BY Isolated, <1>1, PTL

\* Every job's command runs on the commit that was checked out for it.
THEOREM RanCorrect == ASSUME Overlap = FALSE PROVE DatasetSpec => []RanOnRequested
<1>1. DatasetIInv => RanOnRequested
      BY DEF DatasetIInv
<1> QED BY Isolated, <1>1, PTL

\* Every ref refs/reproman/JOBID marks the results of its job alone.
THEOREM RefCorrect == ASSUME Overlap = FALSE PROVE DatasetSpec => []RefIsOwn
<1>1. DatasetIInv => RefIsOwn
      BY DEF DatasetIInv
<1> QED BY Isolated, <1>1, PTL

\* No script loses its files before it has saved its results.
THEOREM FilesKept == ASSUME Overlap = FALSE PROVE DatasetSpec => []RunningKeepsFiles
<1>1. DatasetIInv => RunningKeepsFiles
      BY DEF DatasetIInv, OnTarget, Running, RunningKeepsFiles
<1> QED BY Isolated, <1>1, PTL
-----------------------------------------------------------------------------
\* What is not committed, late idmaps aside, is of a job whose script has not
\* started, has not saved, or died; before the sibling is made there is nothing.
Uncommitted ==
    /\ ~exists => work = {}
    /\ \A f \in work \ head.files :
          f[2] = "idmap" \/ script[f[1]] \in {"none", "command", "prev", "save", "dead"}

\* A step leaves dirt of such jobs only: a save commits all there is, and a
\* checkout or reset to a bare commit leaves what was not committed.
LEMMA StepUncommitted == DatasetIInv /\ Uncommitted /\ [DatasetNext]_remoteVars => Uncommitted'
<1> SUFFICES ASSUME DatasetIInv, Uncommitted, [DatasetNext]_remoteVars PROVE Uncommitted'
    OBVIOUS
<1> USE DEF Uncommitted
<1>1. DatasetTypeOK /\ Isolation /\ OnTarget /\ SavedOwn
      BY DEF DatasetIInv
<1>2. CASE UNCHANGED remoteVars
      BY <1>2 DEF remoteVars
<1> SUFFICES ASSUME NEW j \in DatasetJob, ClientStep(j) \/ ScriptStep(j) PROVE Uncommitted'
    BY <1>2 DEF DatasetNext
<1>3. /\ UnderWay(j) => exists
      /\ script[j] # "none" => client[j] \in {"idmap", "out"}
      BY <1>1 DEF Isolation
<1>4. \A f \in work : f[1] \in DatasetJob
      BY <1>1 DEF DatasetTypeOK, File
<1>5. script \in [DatasetJob -> Scripts]
      BY <1>1 DEF DatasetTypeOK
<1>6. target[j] \in Commit /\ Local(target[j]).files = {}
      BY <1>1, LocalState DEF DatasetTypeOK
<1>7. CASE Sibling(j)     BY <1>6, <1>7 DEF Sibling
<1>8. CASE Check(j)       BY <1>8 DEF Check
<1>9. CASE Checkout(j)    BY <1>3, <1>6, <1>9 DEF Checkout, UnderWay
<1>10. CASE Put(j)
  <2>1. exists /\ script[j] = "none"
        BY <1>3, <1>10 DEF Put, UnderWay
  <2> QED BY <1>10, <2>1 DEF Put
<1>11. CASE Launch(j)     BY <1>4, <1>5, <1>11 DEF Launch
<1>12. CASE WriteIdmap(j)
  <2>1. exists
        BY <1>12 DEF WriteIdmap, HasDirectory
  <2> QED BY <1>12, <2>1 DEF WriteIdmap
<1>13. CASE GiveUp(j)     BY <1>13 DEF GiveUp
<1>14. CASE Command(j)    BY <1>3, <1>4, <1>5, <1>14 DEF Command, UnderWay
<1>15. CASE ReadPrev(j)   BY <1>4, <1>5, <1>15 DEF ReadPrev
<1>16. CASE Save(j)
  <2>1. head'.files = work /\ work' = work /\ exists' = exists
        BY <1>1, <1>16 DEF Save, DatasetTypeOK, State
  <2> QED BY <2>1
<1>17. CASE CreateRef(j)  BY <1>4, <1>5, <1>17 DEF CreateRef
<1>18. CASE ReadStatus(j) BY <1>4, <1>5, <1>18 DEF ReadStatus
<1>19. CASE Reset(j)
  <2>1. prev[j] = Local(target[j])
        BY <1>1, <1>19 DEF Reset, SavedOwn
  <2> QED BY <1>3, <1>4, <1>5, <1>6, <1>19, <2>1 DEF Reset, UnderWay
<1>20. CASE Complete(j)     BY <1>4, <1>5, <1>20 DEF Complete
<1>21. CASE Die(j)        BY <1>4, <1>5, <1>21 DEF Die
<1> QED BY <1>7, <1>8, <1>9, <1>10, <1>11, <1>12, <1>13, <1>14, <1>15, <1>16, <1>17,
           <1>18, <1>19, <1>20, <1>21 DEF ClientStep, ScriptStep

\* When no job is put or runs, the worktree is clean for the next one, but for
\* late idmaps and the files of jobs that were cut short.
THEOREM DirtCorrect == ASSUME Overlap = FALSE PROVE DatasetSpec => []DirtHasReason
<1>1. DatasetInit => Uncommitted
      BY LocalState DEF DatasetInit, Uncommitted
<1>2. DatasetIInv /\ Uncommitted => DirtHasReason
  <2> SUFFICES ASSUME DatasetIInv, Uncommitted,
                      \A j \in DatasetJob : client[j] = "out" /\ script[j] \in {"none", "done", "dead"},
                      NEW f \in work \ head.files
               PROVE  f[2] = "idmap" \/ script[f[1]] \in {"none", "dead"}
      BY DEF DirtHasReason
  <2>1. f[1] \in DatasetJob
        BY DEF DatasetIInv, DatasetTypeOK, File
  <2> QED BY <2>1 DEF Uncommitted
<1> QED BY Isolated, <1>1, <1>2, StepUncommitted, PTL DEF DatasetSpec
=============================================================================
