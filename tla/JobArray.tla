------------------------------ MODULE JobArray ------------------------------
(***************************************************************************)
(* What ReproMan promises about a submitted job, whatever runs it: each    *)
(* subjob's command ends at most once, well or badly, and the job is       *)
(* marked complete only when the command of every subjob has ended.        *)
(* RunScript, the shell script that really runs, implements this.          *)
(***************************************************************************)

CONSTANT Subjobs      \* the subjobs of the job

VARIABLES outcome,    \* how the command of each subjob ended, if it did
          completed   \* whether the completion marker of the job exists

vars == <<outcome, completed>>

Outcomes == {"none", "ok", "bad"}

Init ==
    /\ outcome = [i \in Subjobs |-> "none"]
    /\ completed = FALSE

\* The command of subjob i ends. No command runs once the job is complete.
End(i) ==
    /\ ~completed
    /\ outcome[i] = "none"
    /\ \E how \in Outcomes \ {"none"} : outcome' = [outcome EXCEPT ![i] = how]
    /\ UNCHANGED completed

\* The job is marked complete.
Complete ==
    /\ ~completed
    /\ \A i \in Subjobs : outcome[i] # "none"
    /\ completed' = TRUE
    /\ UNCHANGED outcome

Next == Complete \/ \E i \in Subjobs : End(i)

Spec == Init /\ [][Next]_vars
=============================================================================
