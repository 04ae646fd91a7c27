------------------------------ MODULE JobSpecs ------------------------------
(***************************************************************************)
(* How "reproman run" puts a job together: job spec files, job parameters  *)
(* and options of the command line are combined, batch parameters become   *)
(* records, and the orchestrator forms a command, inputs and outputs for   *)
(* each of them.  The result is recorded with the job, and the record may  *)
(* be given to a later run as a job spec file.                             *)
(*                                                                         *)
(* A spec is a function from parameters to values.  A parameter within a   *)
(* mapping has a name of its own; a mapping is what is within it.          *)
(***************************************************************************)
EXTENDS Naturals, Sequences, FiniteSets, SequencesExt

CONSTANTS
  SpecFile,     \* what job spec files hold
  NoSpec,       \* ... an empty one
  JobParameter, \* what --job-parameter gives: texts
  Option,       \* the options that are also parameters
  CommandLine,  \* the command and the resource on the command line, or Null
  BatchFile,    \* the records in the file of a batch_spec
  Hits,         \* what a pattern matches, and
  SubHits,      \* where nothing does, what the paths above it match
  NameOf,       \* the names of resources by their IDs
  Within,       \* what a parameter within a mapping is in
  MaxRuns       \* bound on the commands

Text(x) == <<"text", x>>
List(l) == <<"list", l>>
Batch(b) == <<"batch", b>>
Null == <<"null">>
\* A text that is taken for a list is a list of its letters: one stands for them.
Elements(v) == CASE v[1] = "list" -> v[2] [] v = Null -> <<>> [] OTHER -> <<"a letter">>

\* A file may say nothing; there is one inventory.
ASSUME JobSpecsAssumption ==
    /\ MaxRuns \in Nat /\ NoSpec \notin JobParameter \cup Option
    /\ \A p, q \in DOMAIN Within : Within[p] # q

VARIABLES
  progress,  \* where Run.__call__() is
  runs,      \* how many commands there were
  sources,   \* the specs that are combined: files, parameters, options
  typed,     \* the command and the resource on the command line
  jobSpec,   \* the spec
  where,     \* the resource
  submitted  \* the jobs: their sources, what was typed, and their records

jobSpecVars == <<progress, runs, sources, typed, jobSpec, where, submitted>>

\* What one spec or mapping has comes before what another has.
Over(u, d) == [p \in DOMAIN u \cup DOMAIN d |-> IF p \in DOMAIN u THEN u[p] ELSE d[p]]
Given(spec, p) == p \in DOMAIN spec /\ spec[p] \notin {Null, List(<<>>)}
ValueOf(spec, p) == IF Given(spec, p) THEN spec[p] ELSE Null
NoRecord == [k \in {} |-> Null]
NoSources == [files |-> <<>>, given |-> NoRecord, option |-> NoRecord]
NothingTyped == [command |-> Null, resref |-> Null]
-----------------------------------------------------------------------------
(* Combining specs *)

\* Mutant of Update: mappings are replaced as a whole.
UpdateTop(d, u) ==
    LET Top(p) == IF p \in DOMAIN Within THEN Within[p] ELSE p
    IN  Over(u, [p \in {x \in DOMAIN d : \A y \in DOMAIN u : Top(y) # Top(x)} |-> d[p]])
\* The later value is taken, at all levels: a value takes the place of a mapping.
Update(d, u) ==
    Over(u, [p \in {x \in DOMAIN d : x \in DOMAIN Within => Within[x] \notin DOMAIN u} |-> d[p]])
\* A mapping cannot take the place of a value: TypeError.
Conflict(d, u) == \E p \in DOMAIN u \cap DOMAIN Within : Within[p] \in DOMAIN d

\* An empty file, wherever it is, ends the command.
CombineTwo(d, u) ==
    IF NoSpec \in {d, u} THEN NoSpec
    ELSE IF Conflict(d, u) THEN NoSpec ELSE Update(d, u)
Combine(specs) == FoldLeft(CombineTwo, Head(specs), Tail(specs))

\* A second command starts from the record of a job (bound), with or without
\* another file; the command line comes after the files.
Load ==
    /\ progress \in {"idle", "failed"} /\ runs < MaxRuns /\ runs' = runs + 1
    /\ \E files \in IF runs = 0 THEN {<<f>> : f \in SpecFile} \cup (SpecFile \X SpecFile)
                    ELSE UNION {{<<submitted[i].record>>} \cup
                                {<<submitted[i].record, f>> : f \in SpecFile} : i \in DOMAIN submitted},
          given \in JobParameter, option \in Option :
         LET spec == Combine(files \o <<given, option>>)
         IN  /\ sources' = [files |-> files, given |-> given, option |-> option]
             /\ progress' = IF spec = NoSpec THEN "failed" ELSE "resolve"
             /\ jobSpec' = IF spec = NoSpec THEN NoRecord ELSE spec
    /\ typed' \in CommandLine
    /\ where' = Null
    /\ UNCHANGED submitted
-----------------------------------------------------------------------------
(* Batch parameters, the command and the resource *)

\* Every combination of the values, the first key varying most slowly.
Concatenate(s, t) == s \o t
WithValues(done, param) ==
    FoldLeft(Concatenate, <<>>,
             [i \in DOMAIN done |-> [j \in DOMAIN param.values |->
                                       Over([k \in {param.key} |-> param.values[j]], done[i])]])
CombineBatchParams(params) == FoldLeft(WithValues, <<NoRecord>>, params)

\* Two sources, a text, which has no "=" in its first letter, or a key twice.
BatchFails(spec) ==
    \/ Given(spec, "batch_spec") /\ Given(spec, "batch_parameters")
    \/ /\ Given(spec, "batch_parameters")
       /\ \/ spec.batch_parameters[1] # "batch"
          \/ \E i, j \in DOMAIN spec.batch_parameters[2] :
                i # j /\ spec.batch_parameters[2][i].key = spec.batch_parameters[2][j].key
ResolveBatchParameters(spec) ==
    IF Given(spec, "batch_spec") THEN List(BatchFile)
    ELSE IF Given(spec, "batch_parameters") THEN List(CombineBatchParams(spec.batch_parameters[2]))
    ELSE Null

\* Mutant of UsesString: a command that was typed does not matter.
UsesStringAlways(spec) == "command_str" \in DOMAIN spec
\* The string form is used unless a command was typed.
UsesString(spec) == typed.command = Null /\ "command_str" \in DOMAIN spec
ResolveCommand(spec) ==
    IF UsesString(spec) THEN Over([_resolved_command_str |-> spec.command_str], spec)
    ELSE LET command == IF typed.command = Null THEN spec.command ELSE typed.command
         IN  Over([command |-> command, _resolved_command_str |-> List(Elements(command))], spec)

\* The one typed, else by the ID, else by the name; a command needs one.
Resource(spec) ==
    {i \in DOMAIN NameOf :
        CASE typed.resref # Null -> typed.resref = Text(i)
          [] typed.resref = Null /\ "resource_id" \in DOMAIN spec -> spec.resource_id = Text(i)
          [] OTHER -> "resource_name" \in DOMAIN spec /\ spec.resource_name = Text(NameOf[i])}

Resolve ==
    /\ progress = "resolve"
    /\ IF \/ BatchFails(jobSpec)
          \/ typed.command = Null /\ {"command_str", "command"} \cap DOMAIN jobSpec = {}
          \/ Resource(jobSpec) = {}
       THEN progress' = "failed" /\ UNCHANGED <<jobSpec, where>>
       ELSE /\ progress' = "construct"
            /\ where' \in {Text(i) : i \in Resource(jobSpec)}
            /\ jobSpec' = Over([_resolved_batch_parameters |-> ResolveBatchParameters(jobSpec)],
                               ResolveCommand(jobSpec))
    /\ UNCHANGED <<runs, sources, typed, submitted>>
-----------------------------------------------------------------------------
(* The orchestrator *)

Orchestrators == {"plain", "datalad-pair", "datalad-no-remote", "datalad-pair-run", "datalad-local-run"}
KnownSubmitters == {"pbs", "condor", "slurm", "local", "lsf"}
OrchestratorOf(spec) == IF "orchestrator" \in DOMAIN spec THEN spec.orchestrator ELSE Text("plain")
SubmitterOf(spec) == IF Given(spec, "submitter") THEN spec.submitter ELSE Text("local")

\* What the nearest pattern above a pattern matches, if any does.
Above(pattern) == IF pattern \in DOMAIN SubHits THEN SubHits[pattern] ELSE {}
\* GlobbedPaths.expand(dot=False), for the record p: a pattern that matches
\* nothing is kept, with what is above it.
Expand(patterns, p) ==
    UNION {LET hits == IF patterns[i] \in DOMAIN Hits THEN Hits[patterns[i]] ELSE {}
           IN  {<<f, p>> : f \in IF hits = {} THEN Above(patterns[i]) \cup {patterns[i]} ELSE hits}
           : i \in {j \in DOMAIN patterns : patterns[j] # "."}}

PlainArray(spec, key) == List(<<Expand(Elements(spec[key]), NoRecord)>>)
\* _prepare_spec(): the command is not formatted.
Plain(spec) ==
    LET from == [_inputs_array |-> "inputs", _outputs_array |-> "outputs"]
        arrays == [a \in {x \in DOMAIN from : from[x] \in DOMAIN spec} |-> PlainArray(spec, from[a])]
        commands == List(<< <<spec._resolved_command_str, NoRecord>> >>)
    IN  Over(arrays, Over([_command_array |-> commands], spec))

\* _datalad_check_container(): without a container what a record had is kept.
Contained(spec) ==
    IF ValueOf(spec, "container") = Null THEN spec
    ELSE Over([_container_command_str |-> <<"in", spec.container, spec._resolved_command_str>>,
               _extra_inputs |-> List(<<spec.container[2]>>)], spec)

\* _datalad_format_command(): one of each for each record.
Records(spec) ==
    LET batch == spec._resolved_batch_parameters
    IN  IF batch \in {Null, List(<<>>)} THEN <<NoRecord>> ELSE batch[2]
FormatArray(spec, key) ==
    List(IF key \in DOMAIN spec
         THEN [i \in DOMAIN Records(spec) |-> Expand(Elements(spec[key]), Records(spec)[i])]
         ELSE <<>>)
FormatCommand(spec) ==
    LET command == IF "_container_command_str" \in DOMAIN spec THEN spec._container_command_str
                   ELSE spec._resolved_command_str
        extra == IF "_extra_inputs" \in DOMAIN spec THEN spec._extra_inputs[2] ELSE <<>>
    IN  Over([_command_array |-> List([i \in DOMAIN Records(spec) |-> <<command, Records(spec)[i]>>]),
              _inputs_array  |-> FormatArray(spec, "inputs"),
              _outputs_array |-> FormatArray(spec, "outputs"),
              _extra_inputs_array |->
                 List([i \in DOMAIN Records(spec) |-> {<<x, NoRecord>> : x \in ToSet(extra)}])], spec)

\* An unknown orchestrator or submitter; records with plain; no list to format.
ConstructFails(spec) ==
    \/ OrchestratorOf(spec) \notin {Text(o) : o \in Orchestrators}
    \/ SubmitterOf(spec) \notin {Text(s) : s \in KnownSubmitters}
    \/ /\ OrchestratorOf(spec) = Text("plain")
       /\ Given(spec, "_resolved_batch_parameters")
    \/ /\ OrchestratorOf(spec) # Text("plain")
       /\ \E key \in {"inputs", "outputs"} \cap DOMAIN spec : spec[key] = Null

Construct ==
    /\ progress = "construct"
    /\ IF ConstructFails(jobSpec) THEN progress' = "failed" /\ UNCHANGED jobSpec
       ELSE \* The local dataset is not one, or dirty.
         \/ OrchestratorOf(jobSpec) # Text("plain") /\ progress' = "failed" /\ UNCHANGED jobSpec
         \/ /\ progress' = "submit"
            /\ LET spec == Over([orchestrator |-> OrchestratorOf(jobSpec)], jobSpec)
               IN  jobSpec' = IF spec.orchestrator = Text("plain") THEN Plain(spec)
                              ELSE FormatCommand(Contained(spec))
    /\ UNCHANGED <<runs, sources, typed, where, submitted>>

\* The directories: a record has those of its job.
RootDirectory(spec) == IF Given(spec, "root_directory") THEN spec.root_directory ELSE Text("run-root")
WorkingDirectory(spec, jobid) ==
    IF spec.orchestrator = Text("datalad-no-remote") THEN Text("the dataset")
    ELSE IF Given(spec, "working_directory") THEN spec.working_directory
    ELSE <<"in", RootDirectory(spec), IF spec.orchestrator = Text("plain") THEN jobid ELSE 0>>

\* as_dict()
AsDict(spec, jobid) ==
    Over([_jobid |-> jobid, _num_subjobs |-> Len(spec._command_array[2]),
          root_directory |-> RootDirectory(spec), working_directory |-> WorkingDirectory(spec, jobid),
          resource_id |-> where, resource_name |-> Text(NameOf[where[2]]),
          submitter |-> SubmitterOf(spec)], spec)

SubmitAndRegister ==
    /\ progress = "submit" /\ progress' = "idle"
    /\ submitted' = Append(submitted, [sources |-> sources, typed |-> typed,
                                       record |-> AsDict(jobSpec, runs)])
    /\ sources' = NoSources /\ typed' = NothingTyped /\ jobSpec' = NoRecord /\ where' = Null
    /\ UNCHANGED runs

JobSpecsInit ==
    /\ progress = "idle" /\ runs = 0 /\ sources = NoSources /\ typed = NothingTyped /\ jobSpec = NoRecord
    /\ where = Null /\ submitted = <<>>
JobSpecsNext == Load \/ Resolve \/ Construct \/ SubmitAndRegister
-----------------------------------------------------------------------------
(* Properties *)

\* What subjob i of a record runs, with which files.
IOSet(record, which, i) ==
    IF which \notin DOMAIN record \/ record[which][2] = <<>> THEN {} ELSE record[which][2][i]
SubjobsOf(record) ==
    [i \in DOMAIN record._command_array[2] |->
        [command |-> record._command_array[2][i],
         inputs  |-> IOSet(record, "_inputs_array", i) \cup IOSet(record, "_extra_inputs_array", i),
         outputs |-> IOSet(record, "_outputs_array", i)]]

\* From the least to the most.
Specs(made) == made.sources.files \o <<made.sources.given, made.sources.option>>

\* What the last source that says anything of a parameter, or of what it is
\* within, has for it: a set of one value or none.
Asked(given, p) ==
    LET about == {i \in DOMAIN given :
                    p \in DOMAIN given[i] \/ (p \in DOMAIN Within /\ Within[p] \in DOMAIN given[i])}
    IN  {given[i][p] : i \in {j \in about : p \in DOMAIN given[j] /\ \A k \in about : k <= j}}
AskedSome(given, p) == Asked(given, p) \ {Null, List(<<>>)}

\* The parameters: names without an underscore. The run fills in some.
Internal == {"_jobid", "_num_subjobs", "_resolved_batch_parameters", "_resolved_command_str",
             "_container_command_str", "_extra_inputs", "_command_array", "_inputs_array",
             "_outputs_array", "_extra_inputs_array"}
FilledIn(made) ==
    {"command", "resource_id", "resource_name"}
    \cup {p \in {"orchestrator", "submitter", "root_directory", "working_directory"} :
            AskedSome(Specs(made), p) = {}}
    \cup (IF made.record.orchestrator = Text("datalad-no-remote") THEN {"working_directory"} ELSE {})
\* The user's specs have none of the names with an underscore, which are no
\* mappings; batch parameters, their values and records come in sequences.
Combinable(b) ==
    b[1] = "batch" =>
        b[2] \in Seq(ToSet(b[2])) /\ \A i \in DOMAIN b[2] : b[2][i].values \in Seq(ToSet(b[2][i].values))
ASSUME NamesAssumption ==
    /\ DOMAIN Within \cap (Internal \cup {"inputs", "outputs"}) = {}
    /\ \A s \in (SpecFile \cup JobParameter \cup Option) \ {NoSpec} :
          /\ DOMAIN s \cap Internal = {}
          /\ "batch_parameters" \in DOMAIN s => Combinable(s.batch_parameters)
    /\ BatchFile \in Seq(ToSet(BatchFile))

ParametersAsAsked(made) ==
    \A p \in ((UNION {DOMAIN Specs(made)[i] : i \in DOMAIN Specs(made)}) \cup DOMAIN made.record)
             \ (Internal \cup FilledIn(made)) :
        Asked(Specs(made), p) = IF p \in DOMAIN made.record THEN {made.record[p]} ELSE {}

AskedRecords(given) ==
    IF AskedSome(given, "batch_spec") # {} THEN ToSet(BatchFile)
    ELSE UNION {{f \in [{b[2][i].key : i \in DOMAIN b[2]} -> UNION {ToSet(b[2][i].values) : i \in DOMAIN b[2]}] :
                    \A i \in DOMAIN b[2] : f[b[2][i].key] \in ToSet(b[2][i].values)}
                : b \in AskedSome(given, "batch_parameters")}
\* No record, and no value of a batch parameter, is given twice.
NoneTwice(given) ==
    /\ AskedSome(given, "batch_spec") # {} => IsInjective(BatchFile)
    /\ \A b \in AskedSome(given, "batch_parameters") : \A i \in DOMAIN b[2] : IsInjective(b[2][i].values)
\* The command typed, or the string form, or the list form; in the container.
AskedCommand(made) ==
    LET list == IF made.typed.command # Null THEN {made.typed.command} ELSE Asked(Specs(made), "command")
        bare == IF made.typed.command = Null /\ Asked(Specs(made), "command_str") # {}
                THEN Asked(Specs(made), "command_str") ELSE {List(Elements(c)) : c \in list}
        container == AskedSome(Specs(made), "container")
    IN  IF container = {} \/ made.record.orchestrator = Text("plain") THEN bare
        ELSE {<<"in", c, b>> : c \in container, b \in bare}
AskedFiles(given, key, record) == UNION {Expand(Elements(v), record) : v \in Asked(given, key)}

\* A record keeps the command that it ran in a container when the container is
\* taken back, and the image when the orchestrator is now the plain one.
ContainerIsStale(made) ==
    /\ \E i \in DOMAIN Specs(made) : "_container_command_str" \in DOMAIN Specs(made)[i]
    /\ AskedSome(Specs(made), "container") = {} \/ made.record.orchestrator = Text("plain")

\* One subjob for every combination of the batch parameters, each with the
\* command and the files of its own combination.
SubjobsAsAsked(made) ==
    LET subjobs == SubjobsOf(made.record)
        combination == [i \in DOMAIN subjobs |-> subjobs[i].command[2]]
        asked == IF AskedRecords(Specs(made)) = {} THEN {NoRecord} ELSE AskedRecords(Specs(made))
        image == IF made.record.orchestrator = Text("plain") THEN {}
                 ELSE {<<c[2], NoRecord>> : c \in AskedSome(Specs(made), "container")}
    IN  /\ ToSet(combination) = asked /\ (NoneTwice(Specs(made)) => Len(subjobs) = Cardinality(asked))
        /\ \A i \in DOMAIN subjobs :
              /\ {subjobs[i].command[1]} = AskedCommand(made)
              /\ subjobs[i].inputs = AskedFiles(Specs(made), "inputs", combination[i]) \cup image
              /\ subjobs[i].outputs = AskedFiles(Specs(made), "outputs", combination[i])

\* The record alone makes the same job again, unless a command was typed over a
\* command string: then both are in the record and the string is run.
SameAgain(made) ==
    LET old == made.sources.files[1]
    IN  /\ made.sources = [NoSources EXCEPT !.files = <<old>>] /\ made.typed = NothingTyped
        /\ "_jobid" \in DOMAIN old /\ ~({"command", "command_str"} \subseteq DOMAIN old)
        => /\ SubjobsOf(made.record) = SubjobsOf(old)
           /\ \A p \in {"resource_id", "orchestrator", "submitter", "working_directory"} :
                 made.record[p] = old[p]

\* "When a value is specified in multiple sources, the order of precedence is
\* the dedicated option, then the value specified via --job_parameters, and
\* finally ... the value from the last specified file": a job is recorded, and
\* run, as its sources ask for it, the record of an earlier job among them, and
\* what was recorded alone makes the same job again.
RunsAsAsked ==
    \A i \in DOMAIN submitted :
        /\ ParametersAsAsked(submitted[i]) /\ SameAgain(submitted[i])
        /\ ContainerIsStale(submitted[i]) \/ SubjobsAsAsked(submitted[i])

\* Every variable keeps its type.
JobSpecsTypeOK ==
    /\ progress \in {"idle", "failed", "resolve", "construct", "submit"} /\ runs \in 0 .. MaxRuns
    /\ where \in {Text(i) : i \in DOMAIN NameOf} \cup {Null} /\ Len(submitted) <= runs
=============================================================================
