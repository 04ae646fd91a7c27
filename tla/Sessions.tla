----------------------------- MODULE Sessions ------------------------------
(***************************************************************************)
(* A session on a resource: how it comes about, the environment that it    *)
(* collects and what each command sees of it, and the transfer of files    *)
(* and directories.  How a command is put together, and which shell reads  *)
(* it, is the backend's.                                                   *)
(***************************************************************************)
EXTENDS Naturals, FiniteSets

CONSTANTS
  Variables,   \* of the environment
  Plain,       \* values that no shell changes
  Empty,       \* the empty one of them
  Spaced,      \* a value that a shell splits unless it is quoted
  Own,         \* "/a/directory:$X" as the value of X
  Unset,
  Null,        \* None as a value
  Anything,    \* no promise was made
  Leaves,      \* the files of a directory
  MaxCalls     \* bound on the calls of a session

\* None is no text, and a text that a shell changes, before or after it did, is
\* not one that no shell changes.
ASSUME SessionsAssumption ==
    /\ Empty \in Plain
    /\ Unset \notin Plain /\ Spaced \notin Plain /\ Own \notin Plain
    /\ Null \notin Plain \cup {Spaced, Own}
    /\ \A known \in Plain \cup {Unset} : <<Own, known>> \notin Plain
    /\ MaxCalls \in Nat

VARIABLES
  backend,
  base,      \* the environment of a command that is not given another one
  outside,      \* ... and that of the process that runs reproman
  features,  \* what the resource has: "env -0", perl, a program named cd, sudo
  access,    \* the connection: that of SSH has the names of its status
  env, permanent, \* the dictionaries of the session
  query,     \* _GET_ENVIRON_CMD
  last,      \* the last command
  wanted,    \* what the calls so far promise to the next command
  here, there, \* local files and those on the resource, under two names
  transfer,  \* the one under way
  calls

sessionEnv == <<env, permanent, query, last, wanted>>
sessionFiles == <<here, there, transfer>>
resourceFacts == <<backend, base, outside, features>>
sessionVars == <<resourceFacts, access, sessionEnv, sessionFiles, calls>>

Dictionary == UNION {[vs -> Plain \cup {Spaced, Own, Null}] : vs \in SUBSET Variables}
NoDictionary == [v \in {} |-> Unset]
With(old, new) == [v \in DOMAIN old \cup DOMAIN new |->
                     IF v \in DOMAIN new THEN new[v] ELSE old[v]]
NoCommand == [result |-> "none", where |-> "nowhere", whole |-> FALSE,
              sees |-> [v \in Variables |-> Unset], extra |-> {}]

\* A command: the directory it is to run in, whether /bin/sh -c is asked for,
\* whether an argument needs quotes, what it runs into, and whether it is a list
\* of arguments, where that matters.
Commands ==
    {c \in [cwd : {"none", "relative", "absolute"}, shell : BOOLEAN, quoted : BOOLEAN,
            obstacle : {"none", "denied", "no program", "no directory"}, list : BOOLEAN] :
        /\ c.obstacle = "no directory" => c.cwd # "none"
        /\ c.list \/ c.obstacle = "no program"}
SimpleCommand == [cwd |-> "none", shell |-> FALSE, quoted |-> FALSE, list |-> TRUE,
                  obstacle |-> "none"]

Node == [is : {"no", "file", "dir"},
         has : UNION {[ls -> {"source", "old", "part"}] : ls \in SUBSET (Leaves \cup {"."})}]
Absent == [is |-> "no", has |-> [l \in {} |-> "old"]]
Names == {"mine", "data", "copy"} \* a local one, one on the resource, the target
NoTransfer == [way |-> "none", left |-> {}, unread |-> {}, owner |-> "none", result |-> "none"]

\* A file or directory with every part from one place.
Tree(kind, from) == [is |-> kind,
    has |-> [l \in IF kind = "file" THEN {"."} ELSE Leaves |-> from]]
SessionsInit ==
    /\ backend \in {"shell", "ssh", "docker", "singularity"}
    /\ base \in [Variables -> Plain \cup {Unset}]
    /\ outside = IF backend = "shell" THEN base ELSE [v \in Variables |-> Unset]
    /\ features \in {{"env -0", "sudo"}, {"perl", "cd"}, {"cd"}}
    /\ access = "none" /\ env = NoDictionary /\ permanent = NoDictionary /\ query = "env -0"
    /\ last = NoCommand /\ wanted = base
    /\ \E kind \in {"file", "dir"}, old \in BOOLEAN :
         LET tree(source) == [n \in Names |-> IF n = source THEN Tree(kind, "source")
                                              ELSE IF old THEN Tree(kind, "old") ELSE Absent]
         IN here = tree("mine") /\ there = tree("data")
    /\ transfer = NoTransfer /\ calls = 0
-----------------------------------------------------------------------------
(* connect() and get_session() *)

Connecting(from, to) == access = from /\ access' \in to
               /\ UNCHANGED <<resourceFacts, sessionEnv, sessionFiles, calls>>
\* With the key or the configuration first; a refusal, but no other error, leads
\* to the question for a password, which is tried once.
Connect ==
    /\ backend = "ssh"
    /\ \/ Connecting("none", {"ONLINE", "password", "CONNECTION ERROR"})
       \/ Connecting("password", {"ONLINE", "CONNECTION ERROR"})
GetLocalSession == backend = "shell" /\ Connecting("none", {"ONLINE"})
\* The container, or the instance, may not be there: there is a session anyway.
GetSession ==
    backend \in {"docker", "singularity"} /\ Connecting("none", {"ONLINE", "nobody"})

InSession == access \in {"ONLINE", "nobody"}
-----------------------------------------------------------------------------
(* One command *)

\* "$X" in the value of X, replaced by a shell that knows X as "known".
Expanded(g, known) == IF g = Own THEN <<Own, known>> ELSE g
Seen(given, own) ==
    [v \in Variables |-> IF v \notin DOMAIN given THEN base[v]
                         ELSE IF given[v] = Null THEN Unset ELSE own[v]]
Ran(where, whole, sees) == [result |-> "done", where |-> where, whole |-> whole, sees |-> sees]
Fails(error) == [result |-> error, where |-> "nowhere", whole |-> FALSE,
                 sees |-> [v \in Variables |-> Unset]]

\* The shell of the resource and that of the container take the variables
\* from the process environment; a name that is not in it stays as it is.
InProcess(given) ==
    Ran("resource", TRUE,
        Seen(given, [v \in DOMAIN given |->
                        IF base[v] = Unset THEN given[v] ELSE Expanded(given[v], base[v])]))

\* "export X=... && cd ... && command": read by the login shell over ssh, but
\* neither docker nor "singularity exec" starts a shell: they look for a
\* program named export or cd, and what follows && is left to the local shell.
Prefixed(given) ==
    IF backend = "ssh" THEN Ran("resource", TRUE, Seen(given, given))
    ELSE IF backend = "singularity" /\ given = NoDictionary /\ "cd" \in features
         THEN Ran("local", TRUE, outside)
    ELSE Fails("CommandError")

\* The prefix and the command between the quotes of sh -c '...': the quotes
\* of a value or of an argument end it, what comes after is not run.
InQuotes(given, quoted) ==
    LET known == IF backend = "singularity" THEN outside ELSE base
    IN Ran("resource", ~quoted /\ \A v \in DOMAIN given : given[v] # Spaced,
           Seen(given, [v \in DOMAIN given |-> Expanded(given[v], known[v])]))

\* Runner.run(): what cannot be started is another error than what fails, but a
\* string is started by a shell.
RunnerError(command) ==
    IF command.obstacle = "no directory" \/ (command.list /\ command.obstacle = "no program")
    THEN "FileNotFoundError" ELSE "CommandError"

\* A command over ssh that was denied is prefixed again behind "sudo", which
\* has no export and no cd; within sh -c '...' a relative directory is left
\* twice and "$X" replaced twice.
WithSudo(given, command) ==
    IF "sudo" \notin features THEN Fails("CommandError")
    ELSE IF given = NoDictionary /\ command.cwd = "none"
         THEN Ran("resource", ~command.shell \/ ~command.quoted, base)
    ELSE IF ~command.shell \/ command.cwd = "relative" THEN Fails("CommandError")
    ELSE Ran("resource", ~command.quoted /\ \A v \in DOMAIN given : given[v] # Spaced,
             Seen(given, [v \in DOMAIN given |-> Expanded(given[v], Own)]))

\* What _prefix_command() makes of the values: shlex.quote(None) is two quotes.
Exported(given) == [v \in DOMAIN given |-> IF given[v] = Null THEN Empty ELSE given[v]]

\* Only the local session takes a variable away that is None.
Execute(given, command) ==
    IF backend = "shell"
    THEN IF command.obstacle = "none" THEN InProcess(given) ELSE Fails(RunnerError(command))
    ELSE IF access = "nobody"
         THEN Fails(IF backend = "docker" THEN "NullResource" ELSE "CommandError")
    ELSE IF command.obstacle = "denied" /\ backend = "ssh" THEN WithSudo(Exported(given), command)
    ELSE IF command.obstacle # "none" THEN Fails("CommandError")
    ELSE IF command.shell THEN InQuotes(Exported(given), command.quoted)
    ELSE IF given # NoDictionary \/ command.cwd # "none" THEN Prefixed(Exported(given))
    ELSE Ran("resource", TRUE, base)

Answered(r, extra) == last' = [result |-> r.result, where |-> r.where, whole |-> r.whole,
                               sees |-> r.sees, extra |-> extra]
\* Bounds: transfers come after the other calls, and a command, which leaves
\* the session as it is, comes last.
Call == InSession /\ calls < MaxCalls /\ transfer = NoTransfer /\ calls' = calls + 1
LastCall == InSession /\ calls < MaxCalls /\ transfer = NoTransfer /\ calls' = MaxCalls
Quiet == UNCHANGED <<resourceFacts, access, sessionFiles>>

ExecuteCommand ==
    /\ LastCall /\ Quiet
    /\ \E extra \in {NoDictionary} \cup UNION {[{v} -> Plain \cup {Spaced, Own, Null}] : v \in Variables},
          command \in Commands :
         Answered(Execute(With(env, extra), command), DOMAIN extra)
    /\ UNCHANGED <<env, permanent, query, wanted>>

\* Plain values can be promised; the others depend on who reads them.
Promise(v, g) == wanted' = [wanted EXCEPT ![v] = g]
SetEnvvar ==
    /\ Call /\ Quiet
    /\ \E v \in Variables, g \in Plain \cup {Spaced, Own}, always \in BOOLEAN :
         /\ env' = With(env, [x \in {v} |-> g])
         /\ permanent' = IF always THEN With(permanent, [x \in {v} |-> g]) ELSE permanent
         /\ last' = [NoCommand EXCEPT !.result = IF always THEN "NotImplementedError" ELSE "set"]
         /\ Promise(v, IF g = Own THEN Anything ELSE g)
    /\ UNCHANGED query

\* Without a value: what the session had is dropped, and that of the resource
\* is back; what it did not have is kept as None, and only to the local session
\* that means no value.
DropEnvvar ==
    /\ Call /\ Quiet
    /\ \E v \in Variables :
         IF v \in DOMAIN env
         THEN /\ env' = [x \in DOMAIN env \ {v} |-> env[x]]
              /\ Promise(v, base[v])
         ELSE /\ env' = With(env, [x \in {v} |-> Null])
              /\ Promise(v, IF backend = "shell" THEN Unset ELSE Empty)
    /\ last' = [NoCommand EXCEPT !.result = "set"]
    /\ UNCHANGED <<permanent, query>>

\* With format=True the new value is made of the old one, which must be there.
FormatEnvvar ==
    /\ Call /\ Quiet
    /\ \E v \in Variables : v \notin DOMAIN env
    /\ last' = [NoCommand EXCEPT !.result = "KeyError"]
    /\ UNCHANGED <<env, permanent, query, wanted>>

\* query_envvars: the command that is in use, and the other one for good.
Query == Execute(env, SimpleCommand)
Queried(asked) == asked \in features /\ Query.result = "done"
QueryEnvvars ==
    /\ Call /\ Quiet
    /\ query' = IF Queried(query) THEN query ELSE "perl"
    /\ Answered(IF Queried(query) \/ Queried("perl") THEN Query
                ELSE IF Query.result = "done" THEN Fails("CommandError") ELSE Query, {})
    /\ UNCHANGED <<env, permanent, wanted>>

\* Mutant of Stored: what the session had is forgotten.
StoredAgainstBase(before, after) ==
    [v \in {x \in Variables : after[x] # Unset /\ after[x] # base[x]} |-> after[v]]
\* What the session keeps of the environment after a script.
Stored(before, after) ==
    [v \in {x \in Variables : after[x] # Unset /\ after[x] # before[x]} |-> after[v]]

SourceScript ==
    /\ Call /\ Quiet
    /\ \E g \in Plain \cup {Unset}, vs \in SUBSET Variables :
         LET known == IF Queried(query) THEN query ELSE "perl"
             before == Query.sees
             after == [v \in Variables |-> IF v \in vs THEN g ELSE before[v]]
         IN /\ query' = known
            /\ IF Queried(known)
               THEN /\ env' = With(env, Stored(before, after))
                    /\ wanted' = [v \in Variables |->
                                    IF after[v] \in Plain THEN after[v] ELSE Anything]
                    /\ last' = [NoCommand EXCEPT !.result = "sourced"]
               ELSE /\ last' = [NoCommand EXCEPT !.result =
                                  IF Query.result = "done" THEN "CommandError" ELSE Query.result]
                    /\ UNCHANGED <<env, wanted>>
    /\ UNCHANGED permanent
-----------------------------------------------------------------------------
(* put and get *)

SourceOf(way) == IF way = "put" THEN here["mine"] ELSE there["data"]
Source == SourceOf(transfer.way)
Target == IF transfer.way = "put" THEN there["copy"] ELSE here["copy"]
SetTarget(name, node) ==
    IF transfer.way = "put" THEN there' = [there EXCEPT ![name] = node] /\ UNCHANGED here
    ELSE here' = [here EXCEPT ![name] = node] /\ UNCHANGED there

\* docker unpacks what it gets under the name on the resource.
Unpacks == backend = "docker" /\ transfer.way = "get"
Arriving == IF Unpacks THEN "data" ELSE "copy"
ArrivingNode == IF Unpacks THEN here["data"] ELSE Target

StartTransfer ==
    /\ InSession /\ transfer.way = "none" /\ calls < MaxCalls /\ calls' = calls + 1
    /\ \E way \in {"put", "get"}, owner \in {"none", "user and group", "user", "text"} :
         transfer' = [way |-> way, owner |-> owner, result |-> "started",
                      left |-> DOMAIN SourceOf(way).has, unread |-> {}]
    /\ last' = NoCommand
    /\ UNCHANGED <<resourceFacts, access, here, there, env, permanent, query, wanted>>

Ended(result) == transfer' = [transfer EXCEPT !.way = "none", !.result = result]
Keeps == UNCHANGED <<resourceFacts, access, sessionEnv, calls>>

\* What asks the resource fails when no command runs in this session:
\* exists() says no and the directory above cannot be made; to singularity a
\* directory is then a file, of which it gets the empty beginning.
Lost == Query.result # "done" /\ backend # "shell"
NoCommandRuns ==
    /\ transfer.result = "started" /\ transfer.way # "none" /\ Keeps /\ Lost
    /\ \/ /\ transfer.way = "put" \/ (backend = "docker" /\ access = "nobody")
          /\ UNCHANGED <<here, there>>
       \/ /\ backend = "singularity" /\ transfer.way = "get"
          /\ Source.is = "dir" \/ access = "nobody"
          /\ SetTarget("copy", IF Target.is = "dir" THEN Target
                               ELSE [is |-> "file", has |-> [l \in {"."} |-> "part"]])
    /\ Ended("failed")

\* A directory is made first; one that is there stops all but docker.
MakeDirectory ==
    /\ transfer.result = "started" /\ transfer.way # "none" /\ Keeps
    /\ access = "ONLINE"
    /\ Lost => transfer.way = "get" /\ ~(backend = "singularity" /\ Source.is = "dir")
    /\ IF Source.is = "dir" /\ ArrivingNode.is # "no" /\ backend # "docker"
       THEN Ended("exists") /\ UNCHANGED <<here, there>>
       ELSE /\ transfer' = [transfer EXCEPT !.result = "copying"]
            /\ IF ArrivingNode.is = "no"
               THEN SetTarget(Arriving, [is |-> Source.is, has |-> Absent.has])
               ELSE UNCHANGED <<here, there>>

Receives(l, what) ==
    SetTarget(Arriving, [ArrivingNode EXCEPT
        !.has = [x \in DOMAIN ArrivingNode.has \cup {l} |-> IF x = l THEN what ELSE ArrivingNode.has[x]]])
CopyOne ==
    /\ transfer.result = "copying" /\ Keeps
    /\ \E l \in transfer.left :
         /\ Receives(l, Source.has[l])
         /\ transfer' = [transfer EXCEPT !.left = @ \ {l}]

\* Mutant of CopyFails: the error of one file is dropped.
CopyFailsUnseen ==
    /\ transfer.result = "copying" /\ Keeps
    /\ \E l \in transfer.left :
         Receives(l, "part") /\ transfer' = [transfer EXCEPT !.left = @ \ {l}]
\* The connection, the disk or the container fails; a file is left in part.
CopyFails ==
    /\ transfer.result = "copying" /\ Keeps
    /\ \E l \in transfer.left : Receives(l, "part")
    /\ Ended("failed")

\* singularity puts a file by "cat ... | ... tee ...", of which the shell reports
\* tee: what cat could not read is missing, and nobody notices.
CatFails ==
    /\ transfer.result = "copying" /\ Keeps
    /\ backend = "singularity" /\ transfer.way = "put"
    /\ \E l \in transfer.left :
         Receives(l, "part") /\ transfer' = [transfer EXCEPT !.left = @ \ {l}, !.unread = @ \cup {l}]

Rename ==
    /\ transfer.result = "copying" /\ transfer.left = {} /\ Unpacks /\ Keeps
    /\ IF here["copy"].is = "dir"
       THEN Ended("failed") /\ UNCHANGED here
       ELSE /\ here' = [here EXCEPT !["copy"] = here["data"], !["data"] = Absent]
            /\ transfer' = [transfer EXCEPT !.result = "copied"]
    /\ UNCHANGED there
Copied ==
    /\ transfer.result = "copying" /\ transfer.left = {} /\ ~Unpacks /\ Keeps
    /\ transfer' = [transfer EXCEPT !.result = "copied"] /\ UNCHANGED <<here, there>>

\* chown: a number alone is put into the command as it is, and a number that
\* comes from the command line is compared as text: both are a TypeError.
Owner ==
    /\ transfer.result = "copied" /\ transfer.way # "none" /\ Keeps
    /\ \/ transfer.owner = "none" /\ Ended("done")
       \/ transfer.owner = "user and group" /\ \E result \in {"done", "failed"} : Ended(result)
       \/ transfer.owner \in {"user", "text"} /\ Ended("TypeError")
    /\ UNCHANGED <<here, there>>

SessionsNext ==
    \/ Connect \/ GetLocalSession \/ GetSession
    \/ ExecuteCommand \/ SetEnvvar \/ DropEnvvar \/ FormatEnvvar \/ QueryEnvvars \/ SourceScript
    \/ StartTransfer \/ NoCommandRuns \/ MakeDirectory \/ CopyOne \/ CopyFails \/ CatFails \/ Rename \/ Copied \/ Owner
SessionsSpec == SessionsInit /\ [][SessionsNext]_sessionVars
-----------------------------------------------------------------------------
(* Properties *)

\* Every variable keeps its type; _GET_ENVIRON_CMD never goes back.
SessionsTypeOK ==
    /\ DOMAIN env \subseteq Variables /\ DOMAIN permanent \subseteq DOMAIN env \cup Variables
    /\ access \in {"none", "password", "ONLINE", "CONNECTION ERROR", "nobody"}
    /\ query \in {"env -0", "perl"} /\ calls \in 0..MaxCalls
    /\ \A n \in Names : here[n] \in Node /\ there[n] \in Node
    /\ transfer.way \in {"none", "put", "get"}

\* A command that ran on the resource saw of every variable what the calls
\* before it had promised: the value that was set, that a script had left, or
\* the one of the resource (set_envvar, source_script, execute_command).
SeesItsEnvironment ==
    last.result = "done" /\ last.where = "resource" /\ last.whole =>
        \A v \in Variables \ last.extra : wanted[v] \in {Anything, last.sees[v]}

\* A transfer that ends without an error has brought every file of the source,
\* whole (put and get of the sessions, transfer_recursive), but for the local
\* files that a put of singularity could not read.
DoneIsWhole ==
    transfer.result = "done" =>
        \E n \in {here["copy"], there["copy"]} :
            /\ n.is # "no"
            /\ \A l \in DOMAIN there["data"].has :
                  l \in DOMAIN n.has /\ (n.has[l] = "source" \/ l \in transfer.unread)
=============================================================================
