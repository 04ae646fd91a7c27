---------------------------- MODULE MCProvision -----------------------------
EXTENDS Provision

\* A repository with three remotes, one without the commit.
MCEnvironments == {<<"debian">>, <<"redhat">>, <<"conda">>, <<"venv", "svn">>,
                   <<"empty conda", "venv">>, <<"docker", "git">>, <<"singularity", "git">>}
MCOriginal == [head |-> "c1", branch |-> "main", config |-> "mine",
               remotes |-> [mine |-> {"c2"}, origin |-> {"c1", "c2"}, fork |-> {"c1"}]]
MCAptLines == <<"snapshot", "next">>
MCDigests == <<"d1", "d2">>
MCCondaEnvs == <<"root", "e">>
MCVenvEnvs == <<{"local", "left"}, {"left"}>>
=============================================================================
