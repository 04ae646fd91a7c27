---------------------------- MODULE MCSubmission ----------------------------
(***************************************************************************)
(* "reproman run" up to the end of --follow: job specs are combined and    *)
(* recorded, a second command may start from the first one's record, and   *)
(* the submitter a record names then submits the array and follows it.     *)
(* The job specs are forgotten when the submitter takes over.              *)
(***************************************************************************)
EXTENDS Submitters, JobSpecs, TLC

\* Whichever submitter a record names can be the one in use.
ASSUME HandAssumption == KnownSubmitters \subseteq Submitter

VARIABLE handed   \* the submitter has taken over
MCvars == <<vars, jobSpecVars, handed>>

\* Two batch parameters of which one has two values; patterns that match two
\* files, nothing, or nothing but what is above; a mapping that another file
\* changes in part and one that puts a value in its place.
MCSpecFile ==
    {"command_str" :> Text("s") @@ "resource_name" :> Text("ra") @@ "submitter" :> Text("pbs")
       @@ "inputs" :> List(<<"i*", "sub/x">>) @@ "env.a" :> Text("1") @@ "env.b" :> Text("2"),
     "command" :> List(<<"c">>) @@ "resource_id" :> Text("id-b")
       @@ "orchestrator" :> Text("datalad-pair") @@ "inputs" :> List(<<".", "none">>)
       @@ "env.b" :> Text("3")
       @@ "batch_parameters" :> Batch(<<[key |-> "k", values |-> <<"v", "w">>],
                                        [key |-> "l", values |-> <<"x">>]>>),
     "orchestrator" :> Text("datalad-pair-run") @@ "container" :> Text("box")
       @@ "outputs" :> List(<<"o">>) @@ "env" :> Text("0") @@ "submitter" :> Text("lsf"),
     "container" :> Null @@ "orchestrator" :> Text("datalad-no-remote") @@ "inputs" :> Null,
     NoSpec}
MCJobParameter ==
    {NoRecord, "submitter" :> Text("condor") @@ "outputs" :> Text("text"), "orchestrator" :> Text("nope")}
MCOption ==
    {NoRecord, "submitter" :> Text("slurm"),
     "orchestrator" :> Text("plain") @@ "inputs" :> List(<<"i*">>),
     "batch_spec" :> Text("records") @@ "orchestrator" :> Text("datalad-local-run"),
     "batch_parameters" :> Batch(<<[key |-> "k", values |-> <<"v">>], [key |-> "k", values |-> <<"w">>]>>)}
MCCommandLine ==
    {NothingTyped, [command |-> List(<<"t">>), resref |-> Null], [command |-> Null, resref |-> Text("id-a")]}
MCBatchFile == <<"k" :> "1", "k" :> "2">>
MCHits == "i*" :> {"i1", "i2"}
MCSubHits == "sub/x" :> {"sub"}
MCNameOf == "id-a" :> "ra" @@ "id-b" :> "rb"
MCWithin == "env.a" :> "env" @@ "env.b" :> "env"

\* orc.submit() with the submitter of the record.
Hand ==
    /\ ~handed /\ progress = "idle" /\ submitted # <<>>
    /\ handed' = TRUE
    /\ submitter' = Last(submitted).record.submitter[2]
    /\ UNCHANGED <<pc, id, json, job, failures, verdict>>
    /\ progress' = "idle" /\ runs' = 0 /\ sources' = NoSources /\ typed' = NothingTyped
    /\ jobSpec' = NoRecord /\ where' = Null /\ submitted' = <<>>

MCInit == Init /\ submitter = "local" /\ JobSpecsInit /\ handed = FALSE
MCNext ==
    \/ ~handed /\ JobSpecsNext /\ UNCHANGED <<vars, handed>>
    \/ Hand
    \/ handed /\ Next /\ UNCHANGED <<jobSpecVars, handed>>
MCSpec ==
    /\ MCInit /\ [][MCNext]_MCvars
    /\ WF_MCvars(handed /\ Follow /\ UNCHANGED <<jobSpecVars, handed>>)
    /\ \A i \in Subjob : WF_MCvars(handed /\ Show(i) /\ UNCHANGED <<jobSpecVars, handed>>)

\* The types of both parts.
SubmissionTypeOK == TypeOK /\ JobSpecsTypeOK
=============================================================================
