----------------------------- MODULE LocalHead -----------------------------
(***************************************************************************)
(* The local dataset while results are fetched into it.  head_at() checks  *)
(* out the commit a job was submitted at, for as long as its results are   *)
(* unpacked and committed, and then restores what was checked out before;  *)
(* the results of a datalad-pair job are merged into what is checked out.  *)
(*                                                                         *)
(* A commit is the set of what it contains: edits of the user and results. *)
(***************************************************************************)
EXTENDS Naturals, FiniteSets

CONSTANTS
  Fetched,      \* the jobs
  LocalBranch,
  Detached,     \* HEAD is not on a branch
  Unknown,
  MaxEdits      \* bound on the edits of the user

VARIABLES
  current,     \* the commit at HEAD, and its branch
  active,
  tips,        \* the commits of the branches
  loose,       \* what is in the worktree and not in the commit
  ref,         \* refs/reproman/JOBID
  submittedAt, \* head of the job
  way,         \* FetchDataladRunMixin or FetchDataladPairMixin
  stage,       \* where the fetch of each job is
  moved, toRestore, \* in head_at()
  edits,
  own,         \* the branch that the user has checked out
  disturbed    \* a fetch was cut, could not restore, or met another one

datasetVars == <<current, active, tips, loose, ref>>
fetchVars == <<stage, moved, toRestore>>
localHeadVars == <<datasetVars, fetchVars, submittedAt, way, edits, own, disturbed>>

Tarball(j) == <<"tarball", j>>
ASSUME LocalHeadAssumption ==
    MaxEdits \in Nat /\ Unknown \notin Fetched /\ \A j \in Fetched : Tarball(j) # j
Markers == <<"conflict", Unknown>>
UnderWay == {j \in Fetched : stage[j] \notin {"idle", "done"}}

LocalHeadInit ==
    /\ current = {} /\ tips = [b \in LocalBranch |-> {}] /\ loose = {}
    /\ active \in LocalBranch \cup {Detached} /\ own = active
    /\ ref = [j \in Fetched |-> Unknown] /\ submittedAt = [j \in Fetched |-> Unknown]
    /\ way \in [Fetched -> {"run", "pair"}] /\ stage = [j \in Fetched |-> "idle"]
    /\ moved = [j \in Fetched |-> FALSE] /\ toRestore = [j \in Fetched |-> Unknown]
    /\ edits = 0 /\ disturbed = FALSE
-----------------------------------------------------------------------------
(* The user, who waits for the fetches to end *)

Advance(commit) ==
    /\ current' = commit
    /\ tips' = IF active = Detached THEN tips ELSE [tips EXCEPT ![active] = commit]
\* What a fetch has left is committed, a conflict resolved, a tarball removed.
Edit ==
    /\ UnderWay = {} /\ edits < MaxEdits /\ edits' = edits + 1
    /\ Advance(current \cup (loose \cap Fetched) \cup {<<"edit", edits + 1>>}) /\ loose' = {}
    /\ UNCHANGED <<active, ref, fetchVars, submittedAt, way, own, disturbed>>
CheckOutBranch ==
    /\ UnderWay = {} /\ loose = {}
    /\ active' \in LocalBranch /\ own' = active' /\ current' = tips[active']
    /\ UNCHANGED <<tips, loose, ref, fetchVars, submittedAt, way, edits, disturbed>>
SubmitJob ==
    /\ UnderWay = {} /\ loose = {}
    /\ \E j \in Fetched : /\ submittedAt[j] = Unknown
                          /\ submittedAt' = [submittedAt EXCEPT ![j] = current]
    /\ UNCHANGED <<datasetVars, fetchVars, way, edits, own, disturbed>>
-----------------------------------------------------------------------------
(* The fetches *)

Goes(j, from, to) == stage[j] = from /\ stage' = [stage EXCEPT ![j] = to]
Fixed == UNCHANGED <<submittedAt, way, edits, own>>
Meets(j) == disturbed' = (disturbed \/ UnderWay \ {j} # {})

\* Mutant of RestoreOf: only the commit is remembered.
RestoreCommit(j) == [moved |-> current # submittedAt[j], to |-> Detached, at |-> current]
\* The branch is restored, or a commit if there was none.
RestoreOf(j) == [moved |-> current # submittedAt[j], to |-> active, at |-> current]

\* A dirty dataset is refused.
HeadAt(j) ==
    /\ way[j] = "run" /\ submittedAt[j] # Unknown /\ loose = {}
    /\ Goes(j, "idle", "get") /\ Meets(j)
    /\ moved' = [moved EXCEPT ![j] = RestoreOf(j).moved]
    /\ toRestore' = [toRestore EXCEPT ![j] = RestoreOf(j)]
    /\ current' = submittedAt[j]
    /\ active' = IF current = submittedAt[j] THEN active ELSE Detached
    /\ Fixed /\ UNCHANGED <<tips, loose, ref>>

\* An error anywhere leads to the end of head_at().
Fetch(j, from, to, result) ==
    /\ \/ Goes(j, from, to) /\ result
       \/ Goes(j, from, "restore") /\ UNCHANGED datasetVars
    /\ Fixed /\ UNCHANGED <<moved, toRestore, disturbed>>
GetTarball(j) ==
    Fetch(j, "get", "extract", /\ loose' = loose \cup {Tarball(j)}
                               /\ UNCHANGED <<current, active, tips, ref>>)
\* The remote is released before; extraction may stop half way.
Extract(j) ==
    Fetch(j, "extract", "unlink", /\ loose' = loose \cup ({j} \ current)
                                  /\ UNCHANGED <<current, active, tips, ref>>)
Unlink(j) ==
    Fetch(j, "unlink", "commit", /\ Tarball(j) \in loose /\ loose' = loose \ {Tarball(j)}
                                 /\ UNCHANGED <<current, active, tips, ref>>)
\* The run commit takes in everything that is in the worktree.
CommitRun(j) ==
    Fetch(j, "commit", "ref", /\ Advance(current \cup loose) /\ loose' = {}
                              /\ UNCHANGED <<active, ref>>)
UpdateRef(j) ==
    Fetch(j, "ref", "restore", /\ ref' = [ref EXCEPT ![j] = current]
                               /\ UNCHANGED <<current, active, tips, loose>>)

\* finally; git refuses where it would overwrite what is in the worktree.
Restore(j) ==
    /\ Goes(j, "restore", IF ref[j] = Unknown THEN "idle" ELSE "done")
    /\ LET r == toRestore[j] IN
       \/ /\ moved[j] /\ active' = r.to
          /\ current' = IF r.to = Detached THEN r.at ELSE tips[r.to]
          /\ UNCHANGED disturbed
       \/ moved[j] /\ loose # {} /\ disturbed' = TRUE /\ UNCHANGED <<current, active>>
       \/ ~moved[j] /\ UNCHANGED <<current, active, disturbed>>
    /\ moved' = [moved EXCEPT ![j] = FALSE] /\ toRestore' = [toRestore EXCEPT ![j] = Unknown]
    /\ Fixed /\ UNCHANGED <<tips, loose, ref>>

\* repo.fetch of the ref, and the merge into whatever is checked out; a
\* conflict stays in the worktree.
FetchRef(j) ==
    /\ way[j] = "pair" /\ submittedAt[j] # Unknown /\ Goes(j, "idle", "merge") /\ Meets(j)
    /\ ref' = [ref EXCEPT ![j] = submittedAt[j] \cup {j}]
    /\ Fixed /\ UNCHANGED <<current, active, tips, loose, moved, toRestore>>
Merge(j) ==
    /\ Goes(j, "merge", "done") /\ loose = {} /\ Advance(current \cup ref[j])
    /\ UNCHANGED <<active, loose, ref, moved, toRestore, disturbed>> /\ Fixed
Conflict(j) ==
    /\ Goes(j, "merge", "idle")
    /\ loose' = loose \cup {Markers}
    /\ UNCHANGED <<current, active, tips, ref, moved, toRestore, disturbed>> /\ Fixed

KillFetch(j) ==
    /\ j \in UnderWay /\ stage' = [stage EXCEPT ![j] = "idle"] /\ disturbed' = TRUE
    /\ Fixed /\ UNCHANGED <<datasetVars, moved, toRestore>>

LocalHeadNext ==
    \/ Edit \/ CheckOutBranch \/ SubmitJob
    \/ \E j \in Fetched :
          \/ HeadAt(j) \/ GetTarball(j) \/ Extract(j) \/ Unlink(j) \/ CommitRun(j) \/ UpdateRef(j)
          \/ Restore(j) \/ FetchRef(j) \/ Merge(j) \/ Conflict(j) \/ KillFetch(j)
LocalHeadSpec == LocalHeadInit /\ [][LocalHeadNext]_localHeadVars
-----------------------------------------------------------------------------
(* Properties *)

\* Every variable keeps its type.
LocalHeadTypeOK ==
    /\ active \in LocalBranch \cup {Detached} /\ own \in LocalBranch \cup {Detached}
    /\ moved \in [Fetched -> BOOLEAN] /\ edits \in 0..MaxEdits /\ disturbed \in BOOLEAN
    /\ active # Detached => current = tips[active]

\* After fetches that were not cut and did not meet, failed or not, the user
\* finds the branch checked out that was checked out before; and each job's
\* ref is what it was submitted at with its own results and nothing else
\* (head_at and the run commit).
FetchLeavesHead ==
    UnderWay = {} /\ ~disturbed =>
        /\ active = own
        /\ \A j \in Fetched : ref[j] # Unknown => ref[j] = submittedAt[j] \cup {j}
=============================================================================
