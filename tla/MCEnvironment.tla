--------------------------- MODULE MCEnvironment ----------------------------
(***************************************************************************)
(* What ReproMan does on one resource besides jobs, and in the dataset to   *)
(* which results come: a behaviour is one of Retrace, Provision, Diff,      *)
(* Sessions, TracedExec or LocalHead, which share no state.                 *)
(***************************************************************************)
EXTENDS Retrace, MCProvision, Diff, Sessions, TracedExec, LocalHead, TLC

VARIABLE part  \* which of them

\* Retrace: a system with something for every tracer.

MCPath == {"sh", "py", "etc", "yumd", "cfile", "cjunk", "vpy", "vlib", "vjunk", "vbad",
           "src", "srcf", "srcu", "srcx", "svnd", "oldd", "svnf", "img", "simg", "shub:/i", "shub://i", "junk"}
MCDir == {"etc", "yumd", "src", "svnd", "oldd"}
MCHost == {[debian |-> TRUE, redhat |-> "no", dockerd |-> "up"],
           [debian |-> FALSE, redhat |-> "yum", dockerd |-> "lost"],
           [debian |-> FALSE, redhat |-> "dnf only", dockerd |-> "down"]}
MCPycache == [f \in {"lib.pyc"} |-> "vlib"]

On(some, default) == [f \in MCPath |-> IF f \in DOMAIN some THEN some[f] ELSE default]
MCDeb == [owners |-> On([sh |-> <<"dash">>, py |-> <<"python3", "python3-minimal">>,
                         etc |-> <<"base", "dash">>], <<>>),
          policy |-> [dash |-> [new |-> {"main", "security"}, old |-> {"gone"}],
                      python3 |-> [new |-> {"main", "mirror"}]],
          sources |-> [main |-> [origin |-> "Debian", archive |-> "stable", component |-> "main"],
                       mirror |-> [origin |-> "Debian", archive |-> "stable", component |-> "main"],
                       security |-> [origin |-> "Debian", archive |-> "sec", component |-> "main"]]]
MCRpm == [owners |-> On([sh |-> <<"bash">>, py |-> <<"python3">>, etc |-> <<"filesystem", "bash">>,
                         yumd |-> <<"yum">>], <<>>)]
\* One of the packages of the second environment is not shown.
MCPip(location, mine) ==
    [runs |-> TRUE, names |-> <<"lib", "tool">>, shown |-> {"lib", "tool"}, editable |-> {"tool"},
     local |-> {"lib"}, files |-> [lib |-> mine, tool |-> {}],
     location |-> [lib |-> None, tool |-> location]]
MCConda == [env |-> On([cfile |-> "/conda", cjunk |-> "/conda/envs/e"], None),
            root |-> ("/conda" :> "/conda" @@ "/conda/envs/e" :> "/conda"),
            meta |-> ("/conda" :> {"cfile"} @@ "/conda/envs/e" :> {}),
            pip |-> ("/conda" :> MCPip("src", {"srcf"})
                     @@ "/conda/envs/e" :> [MCPip("src", {}) EXCEPT !.shown = {"tool"}])]
MCVenv == [env |-> On([vpy |-> "/v", vlib |-> "/v", vjunk |-> "/v", vbad |-> "/w"], None),
           pip |-> ("/v" :> MCPip("svnd", {"vlib"}) @@ "/w" :> [MCPip(None, {}) EXCEPT !.runs = FALSE]),
           real |-> [f \in MCPath |-> IF f = "vpy" THEN "py" ELSE f]]
MCVcs == [parent |-> On([srcf |-> "src", srcu |-> "src", svnf |-> "svnd"], None),
          svn |-> {"svnd"}, unreadable |-> {"oldd"}, beside |-> {<<"src", "srcx">>},
          top |-> [d \in MCDir \cup {None} |-> IF d = "src" THEN "src" ELSE None],
          tracked |-> {<<"git", "srcf">>, <<"git", "srcx">>, <<"svn", "svnf">>}]
MCImages == [docker |-> {"img"}, singularity |-> {"simg", "shub://i"},
             hub |-> {"shub:/i", "shub://i"}, url |-> [f \in {"shub:/i"} |-> "shub://i"]]

\* Diff: one package, as specific as can be or less.
MCPackage == [name : {"a"}, detail : {Unstated, "x"}, version : {Unstated, 1, 2}]
MCPackages == {<<>>} \cup [1..1 -> MCPackage] \cup [1..2 -> MCPackage]
MCEnv ==
    [dists : {<<>>} \cup [1..1 -> [type : {"debian", "conda"}, packages : MCPackages]],
     files : {{}}]
    \cup [dists : [1..2 -> [type : {"debian", "redhat"},
                            packages : {<<>>} \cup [1..1 -> MCPackage]]],
          files : {{}}]

\* LocalHead: nothing is asked of what follows a fetch that was cut or met another.
UpToFirstMeeting == ~disturbed
-----------------------------------------------------------------------------
\* The parts that do not take part are in one of their initial states.
MCInit ==
    /\ part \in {"retrace", "provision", "diff", "session", "trace", "head"}
    /\ RetraceInit /\ ProvisionInit /\ DiffInit /\ SessionsInit /\ TracedInit /\ LocalHeadInit
    /\ \A v \in Variables : base[v] # Empty \* a bound: only reproman sets an empty value
    /\ part # "session" => /\ backend = "ssh" /\ base = [v \in Variables |-> Unset]
                           /\ features = {"cd"} /\ here["mine"].is = "file" /\ here["copy"].is = "no"
    /\ part # "trace" => shared /\ id = [c \in Users |-> CHOOSE i \in ExecIds : TRUE]
    /\ part # "head" => active = Detached /\ way = [j \in Fetched |-> "run"]

MCNext ==
    /\ UNCHANGED part
    /\ \/ /\ part = "retrace" /\ RetraceNext
          /\ UNCHANGED <<provisionVars, diffVars, sessionVars, tracedVars, localHeadVars>>
       \/ /\ part = "provision" /\ ProvisionNext
          /\ UNCHANGED <<retraceVars, diffVars, sessionVars, tracedVars, localHeadVars>>
       \/ /\ part = "diff" /\ DiffNext
          /\ UNCHANGED <<retraceVars, provisionVars, sessionVars, tracedVars, localHeadVars>>
       \/ /\ part = "session" /\ SessionsNext
          /\ UNCHANGED <<retraceVars, provisionVars, diffVars, tracedVars, localHeadVars>>
       \/ /\ part = "trace" /\ TracedNext
          /\ UNCHANGED <<retraceVars, provisionVars, diffVars, sessionVars, localHeadVars>>
       \/ /\ part = "head" /\ LocalHeadNext
          /\ UNCHANGED <<retraceVars, provisionVars, diffVars, sessionVars, tracedVars>>

MCVars == <<part, retraceVars, provisionVars, diffVars, sessionVars, tracedVars, localHeadVars>>
MCSpec == MCInit /\ [][MCNext]_MCVars

\* Every variable of every part keeps its type.
EnvironmentTypeOK ==
    /\ RetraceTypeOK /\ ProvisionTypeOK /\ DiffTypeOK
    /\ SessionsTypeOK /\ TracedTypeOK /\ LocalHeadTypeOK
=============================================================================
