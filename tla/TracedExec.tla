---------------------------- MODULE TracedExec -----------------------------
(***************************************************************************)
(* "reproman execute --trace": each command brings the tracer of ReproZip  *)
(* to a local cache and from there to the resource, unless it is there,    *)
(* runs its program under it and writes a report of what was traced.       *)
(* Commands may run at the same time, and each may be killed anywhere.     *)
(***************************************************************************)
EXTENDS Naturals, FiniteSets

CONSTANTS
  Users,   \* the commands
  ExecIds, \* a second and two random characters
  NoTrace  \* a directory of traces without a trace

ASSUME TracedAssumption == NoTrace \notin Users /\ "none" \notin Users

VARIABLES
  shared,  \* the resource is the local shell: one cache for both
  gz,      \* the compressed tracer, here and on the resource
  tracer,  \* the tracer on the resource, and whether it can be executed
  trace,   \* of each ID, here and there: no directory, nothing, or whose
  doing,   \* where each command is
  id,
  ran,     \* its program ran under the tracer
  code,    \* how its program ended
  described \* whose trace its report describes

cacheVars == <<gz, tracer, trace>>
userVars == <<doing, id, ran, code, described>>
tracedVars == <<shared, cacheVars, userVars>>

Content == {"none", "empty", "part", "whole"}
Places == {"here", "there"}
There == IF shared THEN "here" ELSE "there"
Step == {"prepare", "download", "open", "write", "directory", "tracer", "gz", "put", "zcat",
         "unpack", "chmod", "shim", "execute", "collect", "get", "config", "done", "failed"}

TracedInit ==
    /\ shared \in BOOLEAN
    /\ gz = [p \in Places |-> "none"] /\ tracer = [is |-> "none", x |-> FALSE]
    /\ trace = [p \in Places |-> [i \in ExecIds |-> "none"]]
    /\ doing = [c \in Users |-> "prepare"] /\ id \in [Users -> ExecIds]
    /\ ran = [c \in Users |-> FALSE] /\ code = [c \in Users |-> "none"]
    /\ described = [c \in Users |-> "none"]
-----------------------------------------------------------------------------
Moves(c, from, to) == doing[c] = from /\ doing' = [doing EXCEPT ![c] = to]
OnlyMoves == UNCHANGED <<shared, cacheVars, id, ran, code, described>>
Cached == UNCHANGED <<shared, tracer, trace, id, ran, code, described>>

(* The local cache *)

FindLocal(c) == \* whatever the file holds
    /\ Moves(c, "prepare", IF gz["here"] = "none" THEN "download" ELSE "directory")
    /\ OnlyMoves
Download(c) ==
    /\ \E to \in {"open", "failed"} : Moves(c, "download", to)
    /\ OnlyMoves
\* The file is opened for writing, then the checksum is compared.
OpenLocal(c) ==
    /\ \E to \in {"write", "failed"} : Moves(c, "open", to)
    /\ gz' = [gz EXCEPT !["here"] = "empty"] /\ Cached
WriteLocal(c) ==
    /\ Moves(c, "write", "directory")
    /\ gz' = [gz EXCEPT !["here"] = "whole"] /\ Cached

(* The resource *)

MakeDirectories(c) ==
    /\ \/ /\ Moves(c, "directory", "tracer")
          /\ trace' = [trace EXCEPT ![There][id[c]] = IF @ = "none" THEN NoTrace ELSE @]
       \/ Moves(c, "directory", "failed") /\ UNCHANGED trace
    /\ UNCHANGED <<shared, gz, tracer, id, ran, code, described>>

\* exists() answers no after any error.
FindTracer(c) ==
    /\ \/ tracer.is # "none" /\ Moves(c, "tracer", "shim")
       \/ Moves(c, "tracer", "gz")
    /\ OnlyMoves
FindRemoteGz(c) ==
    /\ \/ gz[There] # "none" /\ Moves(c, "gz", "zcat")
       \/ Moves(c, "gz", "put")
    /\ OnlyMoves
\* Onto itself a file is not copied.
PutGz(c) ==
    /\ \/ /\ Moves(c, "put", "zcat") /\ ~shared /\ gz["here"] # "none"
          /\ gz' = [gz EXCEPT !["there"] = gz["here"]]
       \/ /\ Moves(c, "put", "failed")
          /\ gz' \in {gz, IF shared THEN gz ELSE [gz EXCEPT !["there"] = "part"]}
    /\ Cached

\* zcat gz > tracer: the shell truncates the tracer, which keeps its mode.
Truncate(c) ==
    /\ \/ /\ Moves(c, "zcat", "unpack")
          /\ tracer' = [tracer EXCEPT !.is = "empty"]
       \/ Moves(c, "zcat", "failed") /\ UNCHANGED tracer
    /\ UNCHANGED <<shared, gz, trace, id, ran, code, described>>
Unpack(c) ==
    /\ \/ /\ gz[There] = "whole" /\ Moves(c, "unpack", "chmod")
          /\ tracer' = [tracer EXCEPT !.is = "whole"]
       \/ /\ Moves(c, "unpack", "failed")
          /\ tracer' \in {tracer, [tracer EXCEPT !.is = IF gz[There] = "empty" THEN @ ELSE "part"]}
    /\ UNCHANGED <<shared, gz, trace, id, ran, code, described>>
Chmod(c) ==
    /\ \/ Moves(c, "chmod", "shim") /\ tracer' = [tracer EXCEPT !.x = TRUE]
       \/ Moves(c, "chmod", "failed") /\ UNCHANGED tracer
    /\ UNCHANGED <<shared, gz, trace, id, ran, code, described>>
PutShim(c) ==
    /\ \E to \in {"execute", "failed"} : Moves(c, "shim", to)
    /\ OnlyMoves

(* The program, and the trace of it *)

\* Without the tracer, or without its mode, the command fails; a shell takes
\* an empty executable for a script that does nothing, and succeeds.
ExecuteTraced(c) ==
    /\ Moves(c, "execute", "collect")
    /\ \/ /\ tracer = [is |-> "whole", x |-> TRUE]
          /\ \E result \in {"ok", "error"} : code' = [code EXCEPT ![c] = result]
          /\ ran' = [ran EXCEPT ![c] = TRUE] /\ trace' = [trace EXCEPT ![There][id[c]] = c]
       \/ /\ tracer = [is |-> "empty", x |-> TRUE] /\ ~shared
          /\ code' = [code EXCEPT ![c] = "ok"] /\ UNCHANGED <<ran, trace>>
       \/ code' = [code EXCEPT ![c] = "error"] /\ UNCHANGED <<ran, trace>>
    /\ UNCHANGED <<shared, gz, tracer, id, described>>

\* post_command comes after the program, however that ended.
Collect(c) ==
    /\ Moves(c, "collect", IF trace["here"][id[c]] = "none" THEN "get" ELSE "config")
    /\ OnlyMoves
GetTrace(c) ==
    /\ \/ /\ Moves(c, "get", "config") /\ trace["there"][id[c]] \in Users
          /\ trace' = [trace EXCEPT !["here"][id[c]] = trace["there"][id[c]]]
       \/ /\ Moves(c, "get", "failed")
          /\ trace' \in {trace, [trace EXCEPT !["here"][id[c]] = NoTrace]}
    /\ UNCHANGED <<shared, gz, tracer, id, ran, code, described>>

\* Mutant of WriteReport: without a trace there is no error.
WriteReportAnyway(c) ==
    /\ Moves(c, "config", "done")
    /\ described' = [described EXCEPT ![c] = trace["here"][id[c]]]
    /\ UNCHANGED <<shared, cacheVars, id, ran, code>>
\* The configuration of ReproZip, and "reproman retrace" of it.  An error of
\* the program is the command's own.
WriteReport(c) ==
    /\ \/ /\ trace["here"][id[c]] \in Users
          /\ Moves(c, "config", IF code[c] = "ok" THEN "done" ELSE "failed")
          /\ described' = [described EXCEPT ![c] = trace["here"][id[c]]]
       \/ Moves(c, "config", "failed") /\ UNCHANGED described
    /\ UNCHANGED <<shared, cacheVars, id, ran, code>>

\* Interrupted; a write is then cut.
KillTraced(c) ==
    /\ doing[c] \notin {"done", "failed"}
    /\ doing' = [doing EXCEPT ![c] = "failed"]
    /\ gz' \in {gz, IF doing[c] = "write" THEN [gz EXCEPT !["here"] = "part"] ELSE gz}
    /\ Cached

TracedNext ==
    \E c \in Users :
        \/ FindLocal(c) \/ Download(c) \/ OpenLocal(c) \/ WriteLocal(c)
        \/ MakeDirectories(c) \/ FindTracer(c) \/ FindRemoteGz(c) \/ PutGz(c)
        \/ Truncate(c) \/ Unpack(c) \/ Chmod(c) \/ PutShim(c)
        \/ ExecuteTraced(c) \/ Collect(c) \/ GetTrace(c) \/ WriteReport(c) \/ KillTraced(c)
TracedSpec == TracedInit /\ [][TracedNext]_tracedVars
-----------------------------------------------------------------------------
(* Properties *)

\* Every variable keeps its type.
TracedTypeOK ==
    /\ gz \in [Places -> Content] /\ tracer \in [is : Content, x : BOOLEAN]
    /\ trace \in [Places -> [ExecIds -> {"none", NoTrace} \cup Users]]
    /\ doing \in [Users -> Step] /\ id \in [Users -> ExecIds] /\ ran \in [Users -> BOOLEAN]
    /\ code \in [Users -> {"none", "ok", "error"}] /\ described \in [Users -> {"none"} \cup Users]

\* A command that ends without an error ran its program under a tracer that
\* was whole, and reports its own trace, whatever downloads, transfers and
\* other commands were cut, and although a command may unpack the tracer anew
\* under one that is about to run it (TracedCommand); nothing excludes that
\* two commands have the same ID.
DoneIsTraced ==
    \A c \in Users : doing[c] = "done" =>
        \/ ran[c] /\ described[c] = c
        \/ \E d \in Users \ {c} : id[d] = id[c]
=============================================================================
