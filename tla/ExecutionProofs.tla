-------------------------- MODULE ExecutionProofs ---------------------------
(***************************************************************************)
(* Installations, commands and files on a resource, and the dataset to      *)
(* which results come, for any specifications, variables, files, users and *)
(* branches.                                                               *)
(*                                                                         *)
(* "reproman install": work in a repository that it did not clone is safe, *)
(* and a command that says nothing has set up all.  Of each kind the steps *)
(* are in a fixed order, and what a step relies on was done before it      *)
(* (Facts).  No step undoes what is set up, so that each distribution is   *)
(* either fine or still to do (Progress).                                  *)
(*                                                                         *)
(* A command of a session sees what the calls before it had promised: the  *)
(* dictionary of the session agrees with every promise, and each way to    *)
(* run a command hands that dictionary on.  A transfer that ends without   *)
(* an error has brought every file, whole: all that has not arrived is     *)
(* still to be copied.                                                     *)
(*                                                                         *)
(* A traced command that ends without an error reports its own trace: only *)
(* a command whose program ran under the tracer leaves one, under its own  *)
(* ID, and no step gives a trace to another ID.                            *)
(*                                                                         *)
(* The local head: fetches that are not cut and do not meet leave the      *)
(* user's branch, and the refs of the jobs, as they should be.  As long as *)
(* nothing was disturbed one fetch at most is under way; it remembers      *)
(* where to go back to, and the worktree holds its own files.              *)
(***************************************************************************)
EXTENDS Provision, Sessions, TracedExec, LocalHead, SequenceTheorems, TLAPS

-----------------------------------------------------------------------------
(* An installation *)

Heads == UNION {[bs -> Commits \cup {NoCommit}] : bs \in SUBSET Branches}
ListLines == {AptLines[i] : i \in DOMAIN AptLines}

AptOK == apt \in [file : BOOLEAN, lines : SUBSET ListLines, unlinked : SUBSET NextLines,
                  fresh : BOOLEAN, installed : BOOLEAN]
YumOK == yum \in [repos : SUBSET YumSources, installed : BOOLEAN]
CondaOK == conda \in [root : Made, envs : [1..Len(CondaEnvs) -> Made], tmp : BOOLEAN]
VenvOK == /\ venv \in [path : [1..Len(VenvEnvs) -> Made],
                       installed : [1..Len(VenvEnvs) -> SUBSET {"local"}]]
          /\ \A e \in 1..Len(VenvEnvs) : venv.installed[e] \subseteq VenvEnvs[e]
DockerOK == docker \in [image : BOOLEAN, tag : BOOLEAN]
GitOK == git \in [at : AtPath, branch : Branches \cup {NoBranch}, head : Commits \cup {NoCommit},
                  heads : Heads, known : SUBSET Commits, dirty : BOOLEAN,
                  remotes : SUBSET DOMAIN Recorded.remotes, cloned : BOOLEAN, tracking : BOOLEAN]
ResourceOK == AptOK /\ YumOK /\ CondaOK /\ VenvOK /\ DockerOK /\ GitOK

AptSteps == {"apt file", "apt line", "apt key", "apt update", "apt install"}
YumSteps == {"repolist", "yum install"}
CondaSteps == {"tmp", "conda root", "conda env", "rm", "rm failed"}
VenvSteps == {"virtualenv", "pip"}
DockerSteps == {"inspect", "pull"}
GitSteps == {"remote", "fetch", "clone", "add", "revision", "checkout"}
Steps == {"idle", "initiate", "ended"} \cup AptSteps \cup YumSteps \cup CondaSteps \cup VenvSteps
         \cup DockerSteps \cup GitSteps

\* Which steps are those of the first distribution that is left.
InKind(label, kind) ==
    /\ label \in AptSteps => kind = "debian"
    /\ label \in YumSteps => kind = "redhat"
    /\ label \in CondaSteps => kind = "conda"
    /\ label \in VenvSteps => kind = "venv"
    /\ label \in DockerSteps => kind = "docker"
    /\ label \in GitSteps => kind = "git"

ControlOK ==
    /\ spec \in Environments \cup {<<>>} /\ todo \in Seq(Kinds) /\ step \in Steps
    /\ skipped \subseteq Kinds /\ tries \in 0..MaxTries
    /\ outcome \in {"none", "done", "failed", "killed"}
    /\ step # "ended" => outcome = "none"
    /\ step # "idle" => spec \in Environments
    /\ step \notin {"idle", "ended"} => todo # <<>> /\ InKind(step, Head(todo))
    /\ outcome = "done" => step = "ended" /\ todo = <<>>

\* The lines that are there, or could not be made, and the virtualenvs that are as
\* they should be.
SeenTo == apt.lines \cup apt.unlinked
WholeVenv(e) == "local" \in VenvEnvs[e] => venv.path[e] = "yes" /\ "local" \in venv.installed[e]

\* What the steps before have seen to.
Facts ==
    /\ step = "apt line" => index \in DOMAIN AptLines /\ \A i \in 1..(index - 1) : AptLines[i] \in SeenTo
    /\ step \in {"apt key", "apt update", "apt install"} => ListLines \subseteq SeenTo
    /\ step = "yum install" => YumSources \subseteq yum.repos \/ "redhat" \in skipped
    /\ step = "conda env" => /\ index \in 1..Len(CondaEnvs)
                             /\ \A e \in 1..(index - 1) : conda.envs[e] = "yes"
    /\ step = "rm" => conda.root = "yes" /\ \A e \in 1..Len(CondaEnvs) : conda.envs[e] = "yes"
    /\ step \in {"virtualenv", "pip"} => index \in 1..Len(VenvEnvs) /\ \A e \in 1..(index - 1) : WholeVenv(e)
    /\ step = "pip" => "local" \in VenvEnvs[index]
    /\ step = "clone" => git.at = "nothing"
    /\ step \in {"fetch", "add", "revision", "checkout"} => git.at = "ours"
    /\ step = "checkout" => ~git.dirty

Fine(kind) == SetUpAsRecorded(kind) \/ kind \in skipped \cup {"singularity", "empty conda"}
Progress ==
    step # "idle" =>
        \A i \in DOMAIN spec : Fine(spec[i]) \/ \E k \in DOMAIN todo : todo[k] = spec[i]

ProvisionIInv == ResourceOK /\ ControlOK /\ Facts /\ Progress

\* No step of a command undoes what is set up.
Monotone == \A kind \in Kinds : SetUpAsRecorded(kind) => SetUpAsRecorded(kind)'
-----------------------------------------------------------------------------
\* What is recorded of the repository is what it was.
LEMMA RecordedFacts ==
    /\ Recorded.hexsha \in Commits \cup {NoCommit}
    /\ Recorded.branch \in Branches \cup {NoBranch}
    /\ \A r \in DOMAIN Recorded.remotes : Recorded.remotes[r].commits \subseteq Commits
<1>1. Recorded.hexsha = Original.head /\ Recorded.branch = Original.branch
  BY DEF Recorded
<1>2. ASSUME NEW r \in DOMAIN Recorded.remotes PROVE Recorded.remotes[r].commits \subseteq Commits
  <2> DEFINE rs == IF Containing = {} THEN {} ELSE DOMAIN Original.remotes
  <2>1. Recorded.remotes = [q \in rs |-> [contains |-> q \in Containing, commits |-> Original.remotes[q]]]
    BY DEF Recorded
  <2>2. r \in rs /\ r \in DOMAIN Original.remotes
    BY <1>2, <2>1
  <2>3. Recorded.remotes[r] = [contains |-> r \in Containing, commits |-> Original.remotes[r]]
    BY <2>1, <2>2
  <2>4. Recorded.remotes[r].commits = Original.remotes[r]
    BY <2>3
  <2> QED  BY <2>2, <2>4, ProvisionAssumption
<1> QED  BY <1>1, <1>2, ProvisionAssumption

\* An empty sequence has nothing to do; of another one the head is done first.
LEMMA HeadOrTail ==
    ASSUME NEW s \in Seq(Kinds), s # <<>>
    PROVE  /\ Head(s) \in Kinds /\ Tail(s) \in Seq(Kinds) /\ Len(s) \in Nat /\ Len(s) > 0
           /\ Len(s) = 1 <=> Tail(s) = <<>>
           /\ \A k \in DOMAIN s : s[k] = Head(s) \/ \E l \in DOMAIN Tail(s) : Tail(s)[l] = s[k]
<1>1. /\ Head(s) \in Kinds /\ Tail(s) \in Seq(Kinds) /\ Len(s) \in Nat /\ Len(s) > 0
      /\ Len(Tail(s)) = Len(s) - 1 /\ \A l \in 1..(Len(s) - 1) : Tail(s)[l] = s[l + 1]
  OBVIOUS
<1>2. Len(s) = 1 <=> Tail(s) = <<>>
  <2> DEFINE t == Tail(s)
  <2>1. t \in Seq(Kinds) /\ Len(t) = Len(s) - 1 /\ Len(s) \in Nat
    BY <1>1
  <2> HIDE DEF t
  <2>2. t # <<>> => Len(t) \in Nat \ {0}
    BY <2>1, EmptySeq
  <2>3. t = <<>> => Len(t) = 0
    BY EmptySeq
  <2>4. Len(s) = 1 => t = <<>>
    BY <2>1, <2>2
  <2>5. t = <<>> => Len(s) = 1
    BY <2>1, <2>3
  <2> QED  BY <2>4, <2>5 DEF t
<1>3. ASSUME NEW k \in DOMAIN s, s[k] # Head(s)
      PROVE  \E l \in DOMAIN Tail(s) : Tail(s)[l] = s[k]
  <2>1. k \in 2..Len(s)
    BY <1>3
  <2>2. k - 1 \in DOMAIN Tail(s) /\ Tail(s)[k - 1] = s[k]
    BY <1>1, <2>1
  <2> QED  BY <2>2
<1> QED  BY <1>1, <1>2, <1>3

\* Positions in a sequence.
LEMMA Positions ==
    /\ \A i : i = 1 => \A k \in 1..(i - 1) : FALSE
    /\ \A n \in Nat \ {0} : 1 \in 1..n
    /\ \A n \in Nat : \A i \in 1..n : i # n => i + 1 \in 1..n
    /\ \A n \in Nat : \A i \in 1..n : (i + 1) - 1 = i
    /\ \A n \in Nat : \A i \in 1..n : \A k \in 1..i : k \in 1..n /\ (k = i \/ k \in 1..(i - 1))
OBVIOUS

\* The kinds of a specification.
LEMMA SpecKinds == ASSUME ControlOK, NEW i \in DOMAIN spec PROVE spec[i] \in Kinds
BY ProvisionAssumption DEF ControlOK

\* A step that only leads to another one of the same kind.
LEMMA StepsOn ==
    ASSUME ProvisionIInv, ResourceOK', Facts', Monotone, step \notin {"idle", "ended"},
           step' \in Steps \ {"idle", "initiate", "ended"}, InKind(step', Head(todo)),
           skipped \subseteq skipped', skipped' \subseteq Kinds,
           UNCHANGED <<spec, todo, outcome, tries>>
    PROVE  ProvisionIInv'
<1>1. ControlOK'
  BY DEF ProvisionIInv, ControlOK
<1>2. Progress'
  <2>1. \A i \in DOMAIN spec : Fine(spec[i]) => Fine(spec[i])'
    BY SpecKinds DEF ProvisionIInv, Monotone, Fine
  <2> QED  BY <2>1 DEF ProvisionIInv, Progress
<1> QED  BY <1>1, <1>2 DEF ProvisionIInv

\* The first distribution that was left is done.
LEMMA IsFinished ==
    ASSUME ProvisionIInv, ResourceOK', Monotone, step \notin {"idle", "ended"}, Finished,
           skipped \subseteq skipped', skipped' \subseteq Kinds,
           NEW kind \in Kinds, Head(todo) = kind, Fine(kind)'
    PROVE  ProvisionIInv'
<1>1. todo \in Seq(Kinds) /\ todo # <<>>
  BY DEF ProvisionIInv, ControlOK
<1>2. /\ todo' = Tail(todo) /\ UNCHANGED <<spec, tries>>
      /\ step' = IF Len(todo) = 1 THEN "ended" ELSE "initiate"
      /\ outcome' = IF Len(todo) = 1 THEN "done" ELSE outcome
  BY DEF Finished, Control
<1>3. ControlOK'
  <2>1. step' \in {"ended", "initiate"} /\ step' \in Steps
    BY <1>2 DEF Steps
  <2>2. todo' \in Seq(Kinds) /\ (Len(todo) = 1 <=> todo' = <<>>)
    BY <1>1, <1>2, HeadOrTail
  <2>3. InKind("initiate", Head(todo'))
    BY DEF InKind, AptSteps, YumSteps, CondaSteps, VenvSteps, DockerSteps, GitSteps
  <2>4. outcome = "none"
    BY DEF ProvisionIInv, ControlOK
  <2> QED  BY <1>2, <2>1, <2>2, <2>3, <2>4 DEF ProvisionIInv, ControlOK
<1>4. Facts'
  BY <1>2 DEF Facts
<1>5. Progress'
  <2> SUFFICES ASSUME NEW i \in DOMAIN spec
               PROVE  Fine(spec[i])' \/ \E k \in DOMAIN todo' : todo'[k] = spec[i]
    BY <1>2 DEF Progress
  <2>1. CASE Fine(spec[i])
    BY <1>2, <2>1, SpecKinds DEF ProvisionIInv, Monotone, Fine
  <2>2. CASE \E k \in DOMAIN todo : todo[k] = spec[i]
    <3>1. spec[i] = Head(todo) \/ \E k \in DOMAIN todo' : todo'[k] = spec[i]
      BY <1>1, <1>2, <2>2, HeadOrTail
    <3>2. ASSUME spec[i] = kind PROVE Fine(spec[i])'
      <4>1. spec'[i] = kind
        BY <1>2, <3>2
      <4> QED  BY <4>1
    <3> QED  BY <3>1, <3>2
  <2> QED  BY <2>1, <2>2 DEF ProvisionIInv, Progress
<1> QED  BY <1>3, <1>4, <1>5 DEF ProvisionIInv

\* A command that ends otherwise keeps what is set up.
LEMMA EndsOtherwise ==
    ASSUME ProvisionIInv, ResourceOK', Monotone, step \notin {"idle", "ended"},
           step' = "ended", outcome' \in {"failed", "killed"}, UNCHANGED <<spec, todo, skipped, tries>>
    PROVE  ProvisionIInv'
<1>1. ControlOK'
  BY DEF ProvisionIInv, ControlOK, Steps
<1>2. Facts'
  BY DEF Facts
<1>3. Progress'
  <2>1. \A i \in DOMAIN spec : Fine(spec[i]) => Fine(spec[i])'
    BY SpecKinds DEF ProvisionIInv, Monotone, Fine
  <2> QED  BY <2>1 DEF ProvisionIInv, Progress
<1> QED  BY <1>1, <1>2, <1>3 DEF ProvisionIInv
-----------------------------------------------------------------------------
(* The steps of the kinds *)

\* What is set up stays set up if no resource changes.
LEMMA SameResource ==
    ASSUME UNCHANGED resource
    PROVE  Monotone /\ (ResourceOK => ResourceOK')
BY DEF resource, Monotone, SetUpAsRecorded, ResourceOK, AptOK, YumOK, CondaOK, VenvOK, DockerOK, GitOK

\* An error ends the command.
LEMMA FailKeeps ==
    ASSUME ProvisionIInv, ResourceOK', Monotone, step \notin {"idle", "ended"}, Fail
    PROVE  ProvisionIInv'
<1>1. step' = "ended" /\ outcome' = "failed" /\ UNCHANGED <<spec, todo, skipped, tries>>
  BY DEF Fail, Control
<1> QED  BY <1>1, EndsOtherwise

\* The kind of a step.
LEMMA KindOfStep ==
    ASSUME ProvisionIInv, step \notin {"idle", "ended"}
    PROVE  todo # <<>> /\ Head(todo) \in Kinds /\ InKind(step, Head(todo))
BY HeadOrTail DEF ProvisionIInv, ControlOK

\* Debian: only what adds to apt changes it.
LEMMA AptSame ==
    ASSUME ProvisionIInv, Others("apt"), AptOK',
           SeenTo \subseteq SeenTo', apt.installed => apt'.installed
    PROVE  ResourceOK' /\ Monotone
<1>1. UNCHANGED <<yum, conda, venv, docker, git>>
  BY DEF Others
<1>2. ResourceOK'
  BY <1>1 DEF ProvisionIInv, ResourceOK, AptOK, YumOK, CondaOK, VenvOK, DockerOK, GitOK
<1>3. SeenTo' \subseteq ListLines
  BY ProvisionAssumption DEF AptOK, SeenTo, ListLines
<1>4. Monotone
  BY <1>1, <1>3 DEF Monotone, SetUpAsRecorded, SeenTo, ListLines
<1> QED  BY <1>2, <1>4

LEMMA AptActions ==
    ASSUME ProvisionIInv, AptFile \/ AptLine \/ AptKey \/ AptUpdate \/ AptInstall
    PROVE  ProvisionIInv'
<1>0. /\ AptOK /\ Len(AptLines) \in Nat /\ DOMAIN AptLines = 1..Len(AptLines)
      /\ (AptLines = <<>> => ListLines = {}) /\ (AptLines # <<>> => 1 \in DOMAIN AptLines)
      /\ skipped \subseteq Kinds
  <2>2. AptLines \in Seq(ListLines)
    BY ProvisionAssumption DEF ListLines
  <2>1. Len(AptLines) \in Nat /\ DOMAIN AptLines = 1..Len(AptLines)
    BY <2>2
  <2>3. AptLines # <<>> => 1 \in DOMAIN AptLines
    BY <2>1, <2>2, EmptySeq
  <2> QED  BY <2>1, <2>3 DEF ListLines, ProvisionIInv, ResourceOK, ControlOK
<1>1. CASE AptFile
  <2>1. AptOK' /\ SeenTo' = SeenTo /\ apt'.installed = apt.installed
    BY <1>0, <1>1 DEF AptFile, AptOK, SeenTo
  <2>2. ResourceOK' /\ Monotone
    BY <1>1, <2>1, AptSame DEF AptFile
  <2>3. /\ step = "apt file" /\ index' = 1 /\ UNCHANGED <<spec, tries, todo, outcome, skipped>>
        /\ step' = IF AptLines = <<>> THEN "apt update" ELSE "apt line"
    BY <1>1 DEF AptFile, Go, Control
  <2>4. Facts'
    <3>1. CASE AptLines = <<>>
      BY <1>0, <2>3, <3>1 DEF Facts
    <3>2. CASE AptLines # <<>>
      <4>1. step' = "apt line" /\ index' = 1 /\ 1 \in DOMAIN AptLines
        BY <1>0, <2>3, <3>2
      <4>2. \A i \in 1..(index' - 1) : AptLines[i] \in SeenTo'
        BY <4>1, Positions
      <4> QED  BY <4>1, <4>2 DEF Facts
    <3> QED  BY <3>1, <3>2
  <2>5. InKind(step', Head(todo)) /\ step' \in Steps \ {"idle", "initiate", "ended"}
    BY <2>3, KindOfStep DEF InKind, Steps, AptSteps, YumSteps, CondaSteps, VenvSteps, DockerSteps, GitSteps
  <2> QED  BY <1>0, <2>2, <2>3, <2>4, <2>5, StepsOn
<1>2. CASE AptLine
  <2>1. step = "apt line" /\ Others("apt")
    BY <1>2 DEF AptLine
  <2>2. CASE Fail /\ UNCHANGED apt
    <3>1. UNCHANGED resource
      BY <2>1, <2>2 DEF Others, resource
    <3> QED  BY <2>1, <2>2, <3>1, SameResource, FailKeeps DEF ProvisionIInv
  <2>3. ASSUME AfterLine, AptOK', SeenTo \subseteq SeenTo', apt'.installed = apt.installed,
               AptLines[index] \in SeenTo'
        PROVE  ProvisionIInv'
    <3>1. /\ index' = index + 1 /\ step' = IF index = Len(AptLines) THEN "apt key" ELSE "apt line"
          /\ UNCHANGED <<spec, tries, todo, outcome, skipped>>
      BY <2>3 DEF AfterLine, Control
    <3>2. index \in 1..Len(AptLines) /\ \A i \in 1..(index - 1) : AptLines[i] \in SeenTo
      BY <1>0, <2>1 DEF ProvisionIInv, Facts
    <3>3. ASSUME NEW i \in 1..index PROVE AptLines[i] \in SeenTo'
      <4>1. i = index \/ i \in 1..(index - 1)
        BY <1>0, <3>2, Positions
      <4> QED  BY <2>3, <3>2, <4>1
    <3>4. ResourceOK' /\ Monotone
      BY <2>1, <2>3, AptSame
    <3>5. CASE index = Len(AptLines)
      <4>1. ListLines \subseteq SeenTo'
        BY <1>0, <3>3, <3>5 DEF ListLines
      <4>2. Facts'
        BY <3>1, <3>5, <4>1 DEF Facts
      <4> QED  BY <3>1, <3>5, <4>2, <2>1, <3>4, <1>0, KindOfStep, StepsOn
               DEF InKind, Steps, AptSteps, YumSteps, CondaSteps, VenvSteps, DockerSteps, GitSteps
    <3>6. CASE index # Len(AptLines)
      <4>1. index' \in DOMAIN AptLines /\ index' - 1 = index
        BY <1>0, <3>1, <3>2, <3>6, Positions
      <4>2. Facts'
        BY <3>1, <3>3, <3>6, <4>1 DEF Facts
      <4> QED  BY <3>1, <3>6, <4>2, <2>1, <3>4, <1>0, KindOfStep, StepsOn
               DEF InKind, Steps, AptSteps, YumSteps, CondaSteps, VenvSteps, DockerSteps, GitSteps
    <3> QED  BY <3>5, <3>6
  <2>4. CASE AptLines[index] \in apt.lines /\ AfterLine /\ UNCHANGED apt
    <3>1. AptOK' /\ SeenTo' = SeenTo /\ apt' = apt /\ AptLines[index] \in SeenTo'
      BY <1>0, <2>4 DEF AptOK, SeenTo
    <3> QED  BY <2>3, <2>4, <3>1
  <2>5. CASE /\ AptLines[index] \in NextLines /\ AfterLine
             /\ apt' = [apt EXCEPT !.unlinked = @ \cup {AptLines[index]}]
    <3>1. AptOK' /\ SeenTo' = SeenTo \cup {AptLines[index]} /\ apt'.installed = apt.installed
      BY <1>0, <2>5 DEF AptOK, SeenTo
    <3> QED  BY <2>3, <2>5, <3>1
  <2> QED  BY <1>2, <2>2, <2>4, <2>5 DEF AptLine
<1>3. CASE AptKey
  <2>1. /\ step = "apt key" /\ step' = "apt update" /\ UNCHANGED resource
        /\ UNCHANGED <<spec, tries, todo, outcome, skipped, apt>>
    BY <1>3 DEF AptKey, Go, Control, resource
  <2>2. ResourceOK' /\ Monotone
    BY <2>1, SameResource DEF ProvisionIInv
  <2>3. Facts'
    BY <2>1 DEF ProvisionIInv, Facts, SeenTo
  <2> QED  BY <1>0, <2>1, <2>2, <2>3, KindOfStep, StepsOn
           DEF InKind, Steps, AptSteps, YumSteps, CondaSteps, VenvSteps, DockerSteps, GitSteps
<1>4. CASE AptUpdate
  <2>1. /\ step = "apt update" /\ step' = "apt install"
        /\ UNCHANGED <<spec, tries, todo, outcome, skipped>>
    BY <1>4 DEF AptUpdate, Go, Control
  <2>2. AptOK' /\ SeenTo' = SeenTo /\ apt'.installed = apt.installed
    BY <1>0, <1>4 DEF AptUpdate, AptOK, SeenTo
  <2>3. ResourceOK' /\ Monotone
    BY <1>4, <2>2, AptSame DEF AptUpdate
  <2>4. Facts'
    BY <2>1, <2>2 DEF ProvisionIInv, Facts
  <2> QED  BY <1>0, <2>1, <2>3, <2>4, KindOfStep, StepsOn
           DEF InKind, Steps, AptSteps, YumSteps, CondaSteps, VenvSteps, DockerSteps, GitSteps
<1>5. CASE AptInstall
  <2>1. step = "apt install" /\ Finished /\ UNCHANGED skipped
    BY <1>5 DEF AptInstall, Done
  <2>2. AptOK' /\ SeenTo' = SeenTo /\ apt'.installed
    BY <1>0, <1>5 DEF AptInstall, AptOK, SeenTo
  <2>3. ResourceOK' /\ Monotone
    BY <1>5, <2>2, AptSame DEF AptInstall
  <2>4. Head(todo) = "debian" /\ "debian" \in Kinds
    BY <2>1, KindOfStep DEF InKind, AptSteps, Kinds
  <2>5. SetUpAsRecorded("debian")'
    <3>1. ListLines \subseteq SeenTo' /\ SeenTo' \subseteq ListLines
      BY <2>1, <2>2, ProvisionAssumption DEF ProvisionIInv, Facts, AptOK, SeenTo, ListLines
    <3> QED  BY <2>2, <3>1 DEF SetUpAsRecorded, SeenTo, ListLines
  <2> QED  BY <1>0, <2>1, <2>3, <2>4, <2>5, IsFinished DEF Fine
<1> QED  BY <1>1, <1>2, <1>3, <1>4, <1>5

\* Redhat.
LEMMA YumActions ==
    ASSUME ProvisionIInv, YumRepos \/ YumInstall
    PROVE  ProvisionIInv'
<1>0. YumOK /\ skipped \subseteq Kinds
  BY DEF ProvisionIInv, ResourceOK, ControlOK
<1>1. UNCHANGED <<apt, conda, venv, docker, git>>
  BY DEF YumRepos, YumInstall, Others
<1>2. /\ YumOK' /\ yum.repos \subseteq yum'.repos /\ (yum.installed => yum'.installed)
      /\ YumRepos => yum'.repos = yum.repos \cup (Missing \cap ThirdParty)
      /\ YumInstall => yum'.installed /\ yum'.repos = yum.repos
  BY <1>0 DEF YumRepos, YumInstall, YumOK, Missing
<1>3. ResourceOK'
  BY <1>1, <1>2 DEF ProvisionIInv, ResourceOK, AptOK, CondaOK, VenvOK, DockerOK, GitOK
<1>4. Monotone
  BY <1>1, <1>2 DEF Monotone, SetUpAsRecorded
<1>5. CASE YumRepos
  <2>1. /\ step = "repolist" /\ step' = "yum install" /\ UNCHANGED <<spec, tries, todo, outcome>>
        /\ IF Missing \ ThirdParty # {} THEN skipped' = skipped \cup {"redhat"} ELSE UNCHANGED skipped
    BY <1>5 DEF YumRepos, Warn, Control
  <2>2. skipped \subseteq skipped' /\ skipped' \subseteq Kinds
    BY <1>0, <2>1 DEF Kinds
  <2>3. YumSources \subseteq yum'.repos \/ "redhat" \in skipped'
    BY <1>2, <1>5, <2>1 DEF Missing
  <2>4. Facts'
    BY <2>1, <2>3 DEF Facts
  <2> QED  BY <1>3, <1>4, <2>1, <2>2, <2>4, KindOfStep, StepsOn
           DEF InKind, Steps, AptSteps, YumSteps, CondaSteps, VenvSteps, DockerSteps, GitSteps
<1>6. CASE YumInstall
  <2>1. step = "yum install" /\ Finished /\ UNCHANGED skipped
    BY <1>6 DEF YumInstall, Done
  <2>2. Head(todo) = "redhat" /\ "redhat" \in Kinds
    BY <2>1, KindOfStep DEF InKind, YumSteps, Kinds
  <2>3. YumSources \subseteq yum'.repos \/ "redhat" \in skipped'
    BY <1>2, <1>6, <2>1 DEF ProvisionIInv, Facts
  <2>4. Fine("redhat")'
    BY <1>2, <1>6, <2>3 DEF Fine, SetUpAsRecorded
  <2> QED  BY <1>0, <1>3, <1>4, <2>1, <2>2, <2>4, IsFinished
<1> QED  BY <1>5, <1>6

\* Conda: what is whole stays whole.
LEMMA CondaSame ==
    ASSUME ProvisionIInv, Others("conda"), CondaOK', conda.root = "yes" => conda'.root = "yes",
           \A e \in 1..Len(CondaEnvs) : conda.envs[e] = "yes" => conda'.envs[e] = "yes"
    PROVE  ResourceOK' /\ Monotone
<1>1. UNCHANGED <<apt, yum, venv, docker, git>>
  BY DEF Others
<1>2. ResourceOK'
  BY <1>1 DEF ProvisionIInv, ResourceOK, AptOK, YumOK, CondaOK, VenvOK, DockerOK, GitOK
<1>3. DOMAIN conda.envs = 1..Len(CondaEnvs) /\ DOMAIN conda'.envs = 1..Len(CondaEnvs)
  BY DEF ProvisionIInv, ResourceOK, CondaOK
<1>4. Monotone
  BY <1>1, <1>3 DEF Monotone, SetUpAsRecorded
<1> QED  BY <1>2, <1>4

\* The steps of conda that lead to the removal of its temporary directory after
\* an error.
LEMMA CondaStops ==
    ASSUME ProvisionIInv, step \in CondaSteps, ResourceOK', Monotone, Go("rm failed")
    PROVE  ProvisionIInv'
<1>1. step' = "rm failed" /\ UNCHANGED <<spec, tries, todo, outcome, skipped>> /\ skipped \subseteq Kinds
  BY DEF Go, Control, ProvisionIInv, ControlOK
<1>2. Facts'
  BY <1>1 DEF Facts
<1>3. step \notin {"idle", "ended"}
  BY DEF CondaSteps
<1> QED  BY <1>1, <1>2, <1>3, KindOfStep, StepsOn
         DEF InKind, Steps, AptSteps, YumSteps, CondaSteps, VenvSteps, DockerSteps, GitSteps

LEMMA CondaActions ==
    ASSUME ProvisionIInv, CondaTmp \/ CondaRoot \/ CondaEnvironment \/ CondaClean
    PROVE  ProvisionIInv'
<1>0. /\ CondaOK /\ Len(CondaEnvs) \in Nat /\ 1 \in 1..Len(CondaEnvs)
      /\ skipped \subseteq Kinds /\ Others("conda") /\ step \in CondaSteps
  <2>1. CondaOK /\ skipped \subseteq Kinds
    BY DEF ProvisionIInv, ResourceOK, ControlOK
  <2>2. Len(CondaEnvs) \in Nat /\ 1 \in 1..Len(CondaEnvs)
    BY ProvisionAssumption
  <2>3. Others("conda") /\ step \in CondaSteps
    BY DEF CondaTmp, CondaRoot, CondaEnvironment, CondaClean, CondaSteps
  <2> QED  BY <2>1, <2>2, <2>3
<1>1. CASE CondaTmp
  <2>1. CondaOK' /\ conda'.root = conda.root /\ conda'.envs = conda.envs
    BY <1>0, <1>1 DEF CondaTmp, CondaOK
  <2>2. ResourceOK' /\ Monotone
    BY <1>0, <2>1, CondaSame
  <2>3. /\ step = "tmp" /\ step' = "conda root" /\ UNCHANGED <<spec, tries, todo, outcome, skipped>>
    BY <1>1 DEF CondaTmp, Go, Control
  <2>4. Facts'
    BY <2>3 DEF Facts
  <2> QED  BY <1>0, <2>2, <2>3, <2>4, KindOfStep, StepsOn
           DEF InKind, Steps, AptSteps, YumSteps, CondaSteps, VenvSteps, DockerSteps, GitSteps
<1>2. CASE CondaRoot
  <2>1. /\ CondaOK' /\ conda'.envs = conda.envs
        /\ conda.root = "yes" => conda'.root = "yes"
    BY <1>0, <1>2 DEF CondaRoot, CondaOK, Made
  <2>2. ResourceOK' /\ Monotone
    BY <1>0, <2>1, CondaSame
  <2>3. step = "conda root" /\ (Go("conda env") \/ Go("rm failed"))
    BY <1>2 DEF CondaRoot
  <2>4. CASE Go("conda env")
    <3>1. /\ step' = "conda env" /\ index' = 1 /\ UNCHANGED <<spec, tries, todo, outcome, skipped>>
      BY <2>4 DEF Go, Control
    <3>2. \A e \in 1..(index' - 1) : conda'.envs[e] = "yes"
      BY <3>1, Positions
    <3>3. Facts'
      BY <1>0, <3>1, <3>2 DEF Facts
    <3> QED  BY <1>0, <2>2, <2>3, <3>1, <3>3, KindOfStep, StepsOn
             DEF InKind, Steps, AptSteps, YumSteps, CondaSteps, VenvSteps, DockerSteps, GitSteps
  <2> QED  BY <1>0, <2>2, <2>3, <2>4, CondaStops
<1>3. CASE CondaEnvironment
  <2>1. step = "conda env" /\ index \in 1..Len(CondaEnvs) /\ \A e \in 1..(index - 1) : conda.envs[e] = "yes"
    BY <1>3 DEF CondaEnvironment, ProvisionIInv, Facts
  <2>2. CASE Update(index) /\ NextEnv
    <3>1. conda.root = "yes" /\ conda' = [conda EXCEPT !.envs[index] = "yes"]
      BY <2>2 DEF Update
    <3>2. /\ CondaOK' /\ conda'.root = "yes" /\ conda'.envs[index] = "yes"
          /\ \A e \in 1..Len(CondaEnvs) : e # index => conda'.envs[e] = conda.envs[e]
      BY <1>0, <2>1, <3>1 DEF CondaOK, Made
    <3>3. ResourceOK' /\ Monotone
      BY <1>0, <3>2, CondaSame
    <3>4. /\ index' = index + 1 /\ step' = IF index = Len(CondaEnvs) THEN "rm" ELSE "conda env"
          /\ UNCHANGED <<spec, tries, todo, outcome, skipped>>
      BY <2>2 DEF NextEnv, Control
    <3>5. ASSUME NEW e \in 1..index PROVE conda'.envs[e] = "yes"
      <4>1. e \in 1..Len(CondaEnvs) /\ (e = index \/ e \in 1..(index - 1))
        BY <1>0, <2>1, Positions
      <4> QED  BY <2>1, <3>2, <4>1
    <3>6. Facts'
      <4>1. index' - 1 = index /\ (index # Len(CondaEnvs) => index' \in 1..Len(CondaEnvs))
        BY <1>0, <2>1, <3>4, Positions
      <4> QED  BY <3>2, <3>4, <3>5, <4>1 DEF Facts
    <3> QED  BY <1>0, <2>1, <3>3, <3>4, <3>6, KindOfStep, StepsOn
             DEF InKind, Steps, AptSteps, YumSteps, CondaSteps, VenvSteps, DockerSteps, GitSteps
  <2>3. CASE conda.envs[index] = "no" /\ Go("rm failed")
             /\ \E some \in {"no", "partial"} : conda' = [conda EXCEPT !.envs[index] = some]
    <3>0. PICK some \in {"no", "partial"} : conda' = [conda EXCEPT !.envs[index] = some]
      BY <2>3
    <3>1. /\ CondaOK' /\ conda'.root = conda.root
          /\ \A e \in 1..Len(CondaEnvs) : e # index => conda'.envs[e] = conda.envs[e]
      BY <1>0, <2>1, <3>0 DEF CondaOK, Made
    <3>2. ResourceOK' /\ Monotone
      BY <1>0, <2>3, <3>1, CondaSame
    <3> QED  BY <1>0, <2>3, <3>2, CondaStops
  <2>4. CASE UNCHANGED conda /\ Go("rm failed")
    <3>1. CondaOK'
      BY <1>0, <2>4 DEF CondaOK
    <3>2. ResourceOK' /\ Monotone
      BY <1>0, <2>4, <3>1, CondaSame
    <3> QED  BY <1>0, <2>4, <3>2, CondaStops
  <2> QED  BY <1>3, <2>2, <2>3, <2>4 DEF CondaEnvironment
<1>4. CASE CondaClean
  <2>1. CondaOK' /\ conda'.root = conda.root /\ conda'.envs = conda.envs
    BY <1>0, <1>4 DEF CondaClean, CondaOK
  <2>2. ResourceOK' /\ Monotone
    BY <1>0, <2>1, CondaSame
  <2>3. CASE step = "rm" /\ Done
    <3>1. conda'.root = "yes" /\ \A e \in DOMAIN conda'.envs : conda'.envs[e] = "yes"
      BY <1>0, <2>1, <2>3 DEF ProvisionIInv, Facts, CondaOK
    <3>2. Head(todo) = "conda" /\ "conda" \in Kinds
      BY <2>3, KindOfStep DEF InKind, CondaSteps, Kinds
    <3>3. Fine("conda")'
      BY <3>1 DEF Fine, SetUpAsRecorded
    <3> QED  BY <1>0, <2>2, <2>3, <3>2, <3>3, IsFinished DEF Done
  <2>4. CASE Fail
    BY <1>0, <2>2, <2>4, FailKeeps DEF CondaSteps
  <2> QED  BY <1>4, <2>3, <2>4 DEF CondaClean
<1> QED  BY <1>1, <1>2, <1>3, <1>4

\* Virtualenv: an environment that is whole stays whole.
LEMMA VenvSame ==
    ASSUME ProvisionIInv, Others("venv"), VenvOK',
           \A e \in 1..Len(VenvEnvs) : WholeVenv(e) => WholeVenv(e)'
    PROVE  ResourceOK' /\ Monotone
<1>1. UNCHANGED <<apt, yum, conda, docker, git>>
  BY DEF Others
<1>2. ResourceOK'
  BY <1>1 DEF ProvisionIInv, ResourceOK, AptOK, YumOK, CondaOK, VenvOK, DockerOK, GitOK
<1>3. DOMAIN VenvEnvs = 1..Len(VenvEnvs)
  BY ProvisionAssumption
<1>4. Monotone
  BY <1>1, <1>3 DEF Monotone, SetUpAsRecorded, WholeVenv
<1> QED  BY <1>2, <1>4

\* One environment after the other is seen to.
LEMMA VenvGoesOn ==
    ASSUME ProvisionIInv, step \in VenvSteps, Others("venv"), VenvOK', NextVenv,
           \A e \in 1..Len(VenvEnvs) : WholeVenv(e) => WholeVenv(e)',
           NEW now, now = index, WholeVenv(now)'
    PROVE  ProvisionIInv'
<1>0. /\ ResourceOK' /\ Monotone /\ step \notin {"idle", "ended"} /\ skipped \subseteq Kinds
      /\ DOMAIN VenvEnvs = 1..Len(VenvEnvs) /\ Len(VenvEnvs) \in Nat
  BY VenvSame, ProvisionAssumption DEF ProvisionIInv, ControlOK, VenvSteps
<1>1. index \in 1..Len(VenvEnvs) /\ \A e \in 1..(index - 1) : WholeVenv(e)
  BY DEF ProvisionIInv, Facts, VenvSteps
<1>2. ASSUME NEW e \in 1..index PROVE WholeVenv(e)'
  <2>1. e \in 1..Len(VenvEnvs) /\ (e = index \/ e \in 1..(index - 1))
    BY <1>0, <1>1, Positions
  <2>2. CASE e = now
    BY <2>2
  <2>3. CASE e # now
    BY <1>1, <2>1, <2>3
  <2> QED  BY <2>2, <2>3
<1>3. CASE index = Len(VenvEnvs)
  <2>1. Finished /\ UNCHANGED skipped
    BY <1>3 DEF NextVenv, Done
  <2>2. Head(todo) = "venv" /\ "venv" \in Kinds
    BY <1>0, KindOfStep DEF InKind, Kinds
  <2>3. Fine("venv")'
    BY <1>0, <1>2, <1>3 DEF Fine, SetUpAsRecorded, WholeVenv
  <2> QED  BY <1>0, <2>1, <2>2, <2>3, IsFinished
<1>4. CASE index # Len(VenvEnvs)
  <2>1. index' = index + 1 /\ step' = "virtualenv" /\ UNCHANGED <<spec, tries, todo, outcome, skipped>>
    BY <1>4 DEF NextVenv, Control
  <2>2. index' \in 1..Len(VenvEnvs) /\ index' - 1 = index
    BY <1>0, <1>1, <1>4, <2>1, Positions
  <2>3. Facts'
    BY <1>2, <2>1, <2>2 DEF Facts
  <2> QED  BY <1>0, <2>1, <2>3, KindOfStep, StepsOn
           DEF InKind, Steps, AptSteps, YumSteps, CondaSteps, VenvSteps, DockerSteps, GitSteps
<1> QED  BY <1>3, <1>4

LEMMA VenvActions ==
    ASSUME ProvisionIInv, Virtualenv \/ PipInstall
    PROVE  ProvisionIInv'
<1>0. /\ VenvOK /\ skipped \subseteq Kinds /\ step \in VenvSteps /\ step \notin {"idle", "ended"}
      /\ Others("venv") /\ index \in 1..Len(VenvEnvs) /\ \A e \in 1..(index - 1) : WholeVenv(e)
  BY DEF ProvisionIInv, ResourceOK, ControlOK, Facts, Virtualenv, PipInstall, VenvSteps
<1>e. PICK e : e = index
  OBVIOUS
<1>1. CASE Virtualenv /\ "local" \notin VenvEnvs[index]
  <2>1. venv' = venv /\ NextVenv
    BY <1>1 DEF Virtualenv
  <2>2. VenvOK' /\ \A d \in 1..Len(VenvEnvs) : WholeVenv(d) => WholeVenv(d)'
    BY <1>0, <2>1 DEF VenvOK, WholeVenv
  <2>3. WholeVenv(e)'
    BY <1>e, <1>1 DEF WholeVenv
  <2> QED  BY <1>0, <1>e, <2>1, <2>2, <2>3, VenvGoesOn
<1>2. CASE Virtualenv /\ "local" \in VenvEnvs[index]
  <2>1. /\ VenvOK' /\ venv'.installed = venv.installed
        /\ \A d \in 1..Len(VenvEnvs) : venv.path[d] = "yes" => venv'.path[d] = "yes"
    <3>1. CASE venv' = venv
      BY <1>0, <3>1 DEF VenvOK
    <3>2. ASSUME NEW made \in Made, venv.path[index] = "no", venv' = [venv EXCEPT !.path[index] = made]
          PROVE  /\ VenvOK' /\ venv'.installed = venv.installed
                 /\ \A d \in 1..Len(VenvEnvs) : venv.path[d] = "yes" => venv'.path[d] = "yes"
      <4>1. venv' = [venv EXCEPT !.path[e] = made] /\ venv.path[e] = "no" /\ e \in 1..Len(VenvEnvs)
        BY <1>0, <1>e, <3>2
      <4> QED  BY <1>0, <4>1 DEF VenvOK
    <3> QED  BY <1>2, <3>1, <3>2 DEF Virtualenv, Made
  <2>2. \A d \in 1..Len(VenvEnvs) : WholeVenv(d) => WholeVenv(d)'
    BY <2>1 DEF WholeVenv
  <2>3. ResourceOK' /\ Monotone
    BY <1>0, <2>1, <2>2, VenvSame
  <2>4. CASE ToPip
    <3>1. step' = "pip" /\ UNCHANGED <<spec, tries, todo, index, outcome, skipped>>
      BY <2>4 DEF ToPip, Control
    <3>2. \A d \in 1..(index - 1) : d \in 1..Len(VenvEnvs)
      BY <1>0, ProvisionAssumption
    <3>3. Facts'
      BY <1>0, <1>2, <2>2, <3>1, <3>2 DEF Facts
    <3> QED  BY <1>0, <2>3, <3>1, <3>3, KindOfStep, StepsOn
             DEF InKind, Steps, AptSteps, YumSteps, CondaSteps, VenvSteps, DockerSteps, GitSteps
  <2> QED  BY <1>0, <1>2, <2>3, <2>4, FailKeeps DEF Virtualenv
<1>3. CASE PipInstall
  <2>1. /\ "local" \in VenvEnvs[e] /\ venv.path[e] = "yes" /\ e \in 1..Len(VenvEnvs)
        /\ venv' = [venv EXCEPT !.installed[e] = {"local"}] /\ NextVenv
    BY <1>0, <1>e, <1>3 DEF PipInstall, ProvisionIInv, Facts
  <2>2. /\ VenvOK' /\ venv'.path = venv.path /\ venv'.installed[e] = {"local"}
        /\ \A d \in 1..Len(VenvEnvs) : d # e => venv'.installed[d] = venv.installed[d]
    BY <1>0, <2>1 DEF VenvOK
  <2>3. WholeVenv(e)' /\ \A d \in 1..Len(VenvEnvs) : WholeVenv(d) => WholeVenv(d)'
    BY <2>1, <2>2 DEF WholeVenv
  <2> QED  BY <1>0, <1>e, <2>1, <2>2, <2>3, VenvGoesOn
<1> QED  BY <1>1, <1>2, <1>3 DEF Virtualenv

\* Docker: an image that is there is taken for granted.
LEMMA DockerActions ==
    ASSUME ProvisionIInv, Inspect \/ Pull
    PROVE  ProvisionIInv'
<1>0. DockerOK /\ skipped \subseteq Kinds /\ step \in DockerSteps /\ step \notin {"idle", "ended"}
  BY DEF ProvisionIInv, ResourceOK, ControlOK, Inspect, Pull, DockerSteps
<1>1. UNCHANGED <<apt, yum, conda, venv, git>>
  BY DEF Inspect, Pull, Others, resource
<1>2. DockerOK' /\ (docker.image => docker'.image)
  <2>1. CASE UNCHANGED docker
    BY <1>0, <2>1 DEF DockerOK
  <2>2. CASE docker' = [image |-> TRUE, tag |-> TRUE]
    BY <2>2 DEF DockerOK
  <2>3. CASE \E pulled \in BOOLEAN : docker' = [docker EXCEPT !.image = @ \/ pulled]
    <3>1. PICK pulled \in BOOLEAN : docker' = [docker EXCEPT !.image = @ \/ pulled]
      BY <2>3
    <3>2. CASE pulled
      <4>1. docker' = [docker EXCEPT !.image = TRUE]
        BY <1>0, <3>1, <3>2 DEF DockerOK
      <4> QED  BY <1>0, <4>1 DEF DockerOK
    <3>3. CASE ~pulled
      <4>1. docker' = [docker EXCEPT !.image = docker.image]
        BY <1>0, <3>1, <3>3 DEF DockerOK
      <4> QED  BY <1>0, <4>1 DEF DockerOK
    <3> QED  BY <3>2, <3>3
  <2> QED  BY <2>1, <2>2, <2>3 DEF Inspect, Pull, resource
<1>3. ResourceOK'
  BY <1>1, <1>2 DEF ProvisionIInv, ResourceOK, AptOK, YumOK, CondaOK, VenvOK, GitOK
<1>4. Monotone
  BY <1>1, <1>2 DEF Monotone, SetUpAsRecorded
<1>5. ASSUME step' = "pull", UNCHANGED <<spec, tries, todo, outcome, skipped>> PROVE ProvisionIInv'
  <2>1. Facts'
    BY <1>5 DEF Facts
  <2> QED  BY <1>0, <1>3, <1>4, <1>5, <2>1, KindOfStep, StepsOn
           DEF InKind, Steps, AptSteps, YumSteps, CondaSteps, VenvSteps, DockerSteps, GitSteps
<1>6. ASSUME docker'.image, Done PROVE ProvisionIInv'
  <2>1. Head(todo) = "docker" /\ "docker" \in Kinds
    BY <1>0, KindOfStep DEF InKind, Kinds
  <2>2. Fine("docker")'
    BY <1>6 DEF Fine, SetUpAsRecorded
  <2> QED  BY <1>0, <1>3, <1>4, <1>6, <2>1, <2>2, IsFinished DEF Done
<1>7. CASE Inspect
  <2>1. \/ docker'.image /\ Done
        \/ Fail
        \/ step' = "pull" /\ UNCHANGED <<spec, tries, todo, outcome, skipped>>
    BY <1>7 DEF Inspect, resource, Go, Control
  <2> QED  BY <1>0, <1>3, <1>4, <1>5, <1>6, <2>1, FailKeeps
<1>8. CASE Pull
  <2>1. \/ docker'.image /\ Done
        \/ Fail
        \/ step' = "pull" /\ UNCHANGED <<spec, tries, todo, outcome, skipped>>
    <3>1. CASE docker' = [image |-> TRUE, tag |-> TRUE] /\ Done
      BY <3>1
    <3>2. CASE IF index = Len(Digests) THEN Fail
               ELSE /\ index' = index + 1
                    /\ UNCHANGED <<Control, todo, step, outcome, skipped>>
      BY <1>8, <3>2 DEF Pull, Control
    <3> QED  BY <1>8, <3>1, <3>2 DEF Pull
  <2> QED  BY <1>0, <1>3, <1>4, <1>5, <1>6, <2>1, FailKeeps
<1> QED  BY <1>7, <1>8

\* Git: our repository stays at the recorded commit.
LEMMA GitSame ==
    ASSUME ProvisionIInv, Others("git"), GitOK',
           git.at = "ours" /\ git.head = Recorded.hexsha => git'.at = "ours" /\ git'.head = Recorded.hexsha
    PROVE  ResourceOK' /\ Monotone
<1>1. UNCHANGED <<apt, yum, conda, venv, docker>>
  BY DEF Others
<1>2. ResourceOK'
  BY <1>1 DEF ProvisionIInv, ResourceOK, AptOK, YumOK, CondaOK, VenvOK, DockerOK
<1>3. Monotone
  BY <1>1 DEF Monotone, SetUpAsRecorded
<1> QED  BY <1>2, <1>3

\* A step of git that leads to another one.
LEMMA GitGoesOn ==
    ASSUME ProvisionIInv, step \in GitSteps, ResourceOK', Monotone,
           NEW label \in GitSteps, Go(label), Facts'
    PROVE  ProvisionIInv'
<1>1. step' = label /\ UNCHANGED <<spec, tries, todo, outcome, skipped>> /\ skipped \subseteq Kinds
  BY DEF Go, Control, ProvisionIInv, ControlOK
<1>2. step \notin {"idle", "ended"} /\ step' \in GitSteps
  BY <1>1 DEF GitSteps
<1>3. step' \in Steps \ {"idle", "initiate", "ended"} /\ InKind(step', Head(todo))
  BY <1>2, KindOfStep
  DEF InKind, Steps, AptSteps, YumSteps, CondaSteps, VenvSteps, DockerSteps, GitSteps
<1> QED  BY <1>1, <1>2, <1>3, StepsOn

\* A repository that is passed over.
LEMMA Skipping ==
    ASSUME ProvisionIInv, step \in GitSteps, SkipRepo
    PROVE  ProvisionIInv'
<1>1. /\ skipped' = skipped \cup {"git"} /\ Finished /\ UNCHANGED resource
      /\ skipped \subseteq Kinds /\ step \notin {"idle", "ended"}
  BY DEF SkipRepo, Warn, ProvisionIInv, ControlOK, GitSteps
<1>2. ResourceOK' /\ Monotone
  BY <1>1, SameResource DEF ProvisionIInv
<1>3. Head(todo) = "git" /\ "git" \in Kinds
  BY <1>1, KindOfStep DEF InKind, Kinds
<1>4. Fine("git")' /\ skipped \subseteq skipped' /\ skipped' \subseteq Kinds
  BY <1>1, <1>3 DEF Fine
<1> QED  BY <1>1, <1>2, <1>3, <1>4, IsFinished

\* What is recorded of the remotes that are used.
LEMMA RemotesKnown == Remotes \subseteq DOMAIN Recorded.remotes
BY DEF Remotes, Sources

LEMMA GitLooks ==
    ASSUME ProvisionIInv, GitRemote \/ GitRevision
    PROVE  ProvisionIInv'
<1>0. step \in GitSteps /\ GitOK
  BY DEF GitRemote, GitRevision, GitSteps, ProvisionIInv, ResourceOK
<1>1. CASE SkipRepo
  BY <1>0, <1>1, Skipping
<1>2. CASE UNCHANGED resource
  <2>1. ResourceOK' /\ Monotone /\ git' = git
    BY <1>2, SameResource DEF ProvisionIInv, resource
  <2>2. CASE Go("clone") /\ git.at = "nothing"
    <3>1. Facts'
      BY <2>1, <2>2 DEF Facts, Go
    <3> QED  BY <1>0, <2>1, <2>2, <3>1, GitGoesOn DEF GitSteps
  <2>3. CASE Go("add") /\ git.at = "ours"
    <3>1. Facts'
      BY <2>1, <2>3 DEF Facts, Go
    <3> QED  BY <1>0, <2>1, <2>3, <3>1, GitGoesOn DEF GitSteps
  <2>4. CASE Go("fetch") /\ git.at = "ours"
    <3>1. Facts'
      BY <2>1, <2>4 DEF Facts, Go
    <3> QED  BY <1>0, <2>1, <2>4, <3>1, GitGoesOn DEF GitSteps
  <2>5. CASE step = "revision" /\ Go("checkout") /\ ~git.dirty
    <3>1. Facts'
      BY <2>1, <2>5 DEF Facts, Go, ProvisionIInv
    <3> QED  BY <1>0, <2>1, <2>5, <3>1, GitGoesOn DEF GitSteps
  <2>6. SkipRepo \/ (Go("clone") /\ git.at = "nothing") \/ (Go("add") /\ git.at = "ours")
        \/ (Go("fetch") /\ git.at = "ours") \/ (step = "revision" /\ Go("checkout") /\ ~git.dirty)
    <3>1. git.at \in AtPath
      BY <1>0 DEF GitOK
    <3>2. CASE GitRevision
      BY <3>2 DEF GitRevision
    <3>3. CASE GitRemote
      BY <3>1, <3>3 DEF GitRemote, AtPath
    <3> QED  BY <3>2, <3>3
  <2> QED  BY <1>1, <2>2, <2>3, <2>4, <2>5, <2>6
<1> QED  BY <1>1, <1>2 DEF GitRemote, GitRevision

LEMMA GitWorks ==
    ASSUME ProvisionIInv, GitFetch \/ GitAdd
    PROVE  ProvisionIInv'
<1>0. step \in GitSteps /\ GitOK /\ git.at = "ours" /\ Others("git")
  BY DEF GitFetch, GitAdd, GitSteps, ProvisionIInv, ResourceOK, Facts
<1>1. GitOK' /\ git'.at = git.at /\ git'.head = git.head
  <2>1. CASE GitFetch
    <3>1. PICK r \in Remotes \cap git.remotes : git' = [git EXCEPT !.known = @ \cup Recorded.remotes[r].commits]
      BY <2>1 DEF GitFetch
    <3> DEFINE known == git.known \cup Recorded.remotes[r].commits
    <3>2. known \subseteq Commits
      BY <1>0, RecordedFacts, RemotesKnown DEF GitOK
    <3>3. git' = [git EXCEPT !.known = known]
      BY <3>1
    <3> HIDE DEF known
    <3> QED  BY <1>0, <3>2, <3>3 DEF GitOK
  <2>2. CASE GitAdd
    <3>1. PICK fetched \in SUBSET (DOMAIN Recorded.remotes \ git.remotes) :
            git' = [git EXCEPT !.remotes = @ \cup DOMAIN Recorded.remotes,
                      !.known = @ \cup UNION {Recorded.remotes[r].commits : r \in fetched}]
      BY <2>2 DEF GitAdd
    <3> DEFINE known == git.known \cup UNION {Recorded.remotes[r].commits : r \in fetched}
               remotes == git.remotes \cup DOMAIN Recorded.remotes
    <3>2. known \subseteq Commits
      BY <1>0, RecordedFacts DEF GitOK
    <3>3. remotes \subseteq DOMAIN Recorded.remotes
      BY <1>0 DEF GitOK
    <3>4. git' = [git EXCEPT !.remotes = remotes, !.known = known]
      BY <3>1
    <3> HIDE DEF known, remotes
    <3> QED  BY <1>0, <3>2, <3>3, <3>4 DEF GitOK
  <2> QED  BY <2>1, <2>2
<1>2. ResourceOK' /\ Monotone
  BY <1>0, <1>1, GitSame
<1>3. Go("add") \/ Go("revision")
  BY DEF GitFetch, GitAdd
<1>4. Facts'
  BY <1>0, <1>1, <1>3 DEF Facts, Go
<1> QED  BY <1>0, <1>2, <1>3, <1>4, GitGoesOn DEF GitSteps

LEMMA GitClones ==
    ASSUME ProvisionIInv, GitClone
    PROVE  ProvisionIInv'
<1>0. step \in GitSteps /\ GitOK /\ git.at = "nothing" /\ Others("git") /\ Go("add")
  BY DEF GitClone, GitSteps, ProvisionIInv, ResourceOK, Facts
<1>1. PICK r \in Remotes, b \in Branches, c \in Commits :
          /\ c \in Recorded.remotes[r].commits
          /\ git' = [git EXCEPT !.at = "ours", !.cloned = TRUE, !.branch = b, !.head = c,
                        !.heads = [x \in {b} |-> c], !.remotes = {r},
                        !.known = Recorded.remotes[r].commits]
  BY DEF GitClone
<1>2. GitOK' /\ git'.at = "ours"
  <2> DEFINE heads == [x \in {b} |-> c]
             known == Recorded.remotes[r].commits
  <2>1. known \subseteq Commits /\ {r} \subseteq DOMAIN Recorded.remotes
    BY RecordedFacts, RemotesKnown
  <2>2. heads \in Heads
    <3>1. heads \in [{b} -> Commits \cup {NoCommit}] /\ {b} \in SUBSET Branches
      OBVIOUS
    <3> QED  BY <3>1 DEF Heads
  <2>3. git' = [git EXCEPT !.at = "ours", !.cloned = TRUE, !.branch = b, !.head = c,
                   !.heads = heads, !.remotes = {r}, !.known = known]
    BY <1>1
  <2> HIDE DEF heads, known
  <2>4. "ours" \in AtPath
    BY DEF AtPath
  <2> QED  BY <1>0, <2>1, <2>2, <2>3, <2>4 DEF GitOK
<1>3. ResourceOK' /\ Monotone
  BY <1>0, <1>2, GitSame
<1>4. Facts'
  BY <1>0, <1>2 DEF Facts, Go
<1> QED  BY <1>0, <1>3, <1>4, GitGoesOn DEF GitSteps

LEMMA GitChecksOut ==
    ASSUME ProvisionIInv, GitCheckout
    PROVE  ProvisionIInv'
<1>0. /\ step = "checkout" /\ step \in GitSteps /\ GitOK /\ git.at = "ours" /\ Others("git") /\ Done
      /\ skipped \subseteq Kinds
  BY DEF GitCheckout, GitSteps, ProvisionIInv, ResourceOK, Facts, ControlOK
<1>1. GitOK' /\ git'.at = "ours" /\ git'.head = Recorded.hexsha
  <2>1. CASE Detach
    BY <1>0, <2>1, RecordedFacts DEF Detach, GitOK
  <2>2. CASE UNCHANGED git /\ At(Recorded.branch)
    BY <1>0, <2>2 DEF At, GitOK
  <2>3. CASE Recorded.branch # NoBranch /\ SwitchTo(Recorded.branch)
    <3> DEFINE branch == Recorded.branch
               hexsha == Recorded.hexsha
               heads == [b \in DOMAIN git.heads \cup {branch} |->
                           IF b = branch THEN hexsha ELSE git.heads[b]]
               tracking == git.tracking \/ Recorded.tracked # ""
    <3>1. branch \in Branches /\ hexsha \in Commits \cup {NoCommit}
      BY <2>3, RecordedFacts
    <3>2. git' = [git EXCEPT !.branch = branch, !.head = hexsha, !.heads = heads, !.tracking = tracking]
      BY <2>3 DEF SwitchTo
    <3>3. heads \in Heads
      <4>1. PICK bs \in SUBSET Branches : git.heads \in [bs -> Commits \cup {NoCommit}]
        BY <1>0 DEF GitOK, Heads
      <4>2. bs \cup {branch} \in SUBSET Branches
        BY <3>1
      <4>3. heads \in [bs \cup {branch} -> Commits \cup {NoCommit}]
        BY <3>1, <4>1
      <4> QED  BY <4>2, <4>3 DEF Heads
    <3>4. tracking \in BOOLEAN
      OBVIOUS
    <3> HIDE DEF heads, tracking
    <3>5. GitOK' /\ git'.at = git.at /\ git'.head = hexsha
      BY <1>0, <3>1, <3>2, <3>3, <3>4 DEF GitOK
    <3> QED  BY <1>0, <3>5
  <2> QED  BY <2>1, <2>2, <2>3 DEF GitCheckout
<1>2. ResourceOK' /\ Monotone
  BY <1>0, <1>1, GitSame
<1>3. Head(todo) = "git" /\ "git" \in Kinds
  BY <1>0, KindOfStep DEF InKind, Kinds
<1>4. Fine("git")'
  BY <1>1 DEF Fine, SetUpAsRecorded
<1> QED  BY <1>0, <1>2, <1>3, <1>4, IsFinished DEF Done
-----------------------------------------------------------------------------
(* The command *)

\* initiate() leads to the first step of a kind, or is an error.
LEMMA Initiates ==
    ASSUME ProvisionIInv, Initiate
    PROVE  ProvisionIInv'
<1>0. step = "initiate" /\ UNCHANGED resource /\ skipped \subseteq Kinds
  BY DEF Initiate, ProvisionIInv, ControlOK
<1>1. ResourceOK' /\ Monotone /\ Head(todo) \in Kinds
  BY <1>0, SameResource, KindOfStep DEF ProvisionIInv
<1>2. ASSUME NEW label \in {"apt file", "repolist", "tmp", "virtualenv", "inspect", "remote"},
             Go(label), InKind(label, Head(todo))
      PROVE  ProvisionIInv'
  <2>1. step' = label /\ UNCHANGED <<spec, tries, todo, outcome, skipped>>
    BY <1>2 DEF Go, Control
  <2>2. Facts'
    <3>1. index' = 1
      BY <1>2 DEF Go
    <3>3. 1 \in 1..Len(VenvEnvs)
      <4>1. Len(VenvEnvs) \in Nat \ {0}
        BY ProvisionAssumption
      <4> QED  BY <4>1, Positions
    <3>2. \A e \in 1..(index' - 1) : WholeVenv(e)'
      BY <3>1, Positions
    <3> QED  BY <2>1, <3>1, <3>2, <3>3 DEF Facts
  <2>3. step' \in Steps \ {"idle", "initiate", "ended"}
    BY <2>1 DEF Steps, AptSteps, YumSteps, CondaSteps, VenvSteps, DockerSteps, GitSteps
  <2> QED  BY <1>0, <1>1, <1>2, <2>1, <2>2, <2>3, StepsOn
<1>3. CASE Fail
  BY <1>0, <1>1, <1>3, FailKeeps
<1>4. CASE Head(todo) \in {"singularity", "empty conda"} /\ Done
  BY <1>0, <1>1, <1>4, IsFinished DEF Fine, Done
<1>5. \/ Fail \/ (Head(todo) \in {"singularity", "empty conda"} /\ Done)
      \/ \E label \in {"apt file", "repolist", "tmp", "virtualenv", "inspect", "remote"} :
            Go(label) /\ InKind(label, Head(todo))
  BY DEF Initiate, InKind, AptSteps, YumSteps, CondaSteps, VenvSteps, DockerSteps, GitSteps
<1> QED  BY <1>2, <1>3, <1>4, <1>5

\* Errors and interrupts end the command.
LEMMA Endings ==
    ASSUME ProvisionIInv, CommandFails \/ Killed
    PROVE  ProvisionIInv'
<1>1. CASE CommandFails
  <2>1. step \notin {"idle", "ended"} /\ Fail /\ UNCHANGED resource
    BY <1>1 DEF CommandFails
  <2> QED  BY <2>1, SameResource, FailKeeps DEF ProvisionIInv
<1>2. CASE Killed
  <2>1. /\ step \notin {"idle", "ended"} /\ step' = "ended" /\ outcome' = "killed"
        /\ UNCHANGED <<spec, tries, todo, skipped, apt, yum, conda, venv, docker>>
    BY <1>2 DEF Killed, Control
  <2>2. CASE UNCHANGED git
    <3>1. UNCHANGED resource
      BY <2>1, <2>2 DEF resource
    <3> QED  BY <2>1, <3>1, SameResource, EndsOtherwise DEF ProvisionIInv
  <2>3. CASE step = "clone" /\ git' = [git EXCEPT !.at = "foreign"]
    <3>1. GitOK /\ git.at = "nothing"
      BY <2>3 DEF ProvisionIInv, ResourceOK, Facts
    <3>2. GitOK'
      BY <2>3, <3>1 DEF GitOK, AtPath
    <3>3. Others("git")
      BY <2>1 DEF Others
    <3>4. ResourceOK' /\ Monotone
      BY <3>1, <3>2, <3>3, GitSame
    <3> QED  BY <2>1, <3>4, EndsOtherwise
  <2> QED  BY <1>2, <2>2, <2>3 DEF Killed
<1> QED  BY <1>1, <1>2

\* A try begins with everything left to do.
LEMMA Beginnings ==
    ASSUME ProvisionIInv, ResourceOK', step' = "initiate", outcome' = "none", todo' = spec',
           spec' \in Environments, skipped' \subseteq Kinds, tries' \in 0..MaxTries
    PROVE  ProvisionIInv'
<1>1. spec' \in Seq(Kinds) /\ spec' # <<>>
  BY ProvisionAssumption
<1>2. InKind("initiate", Head(todo'))
  BY DEF InKind, AptSteps, YumSteps, CondaSteps, VenvSteps, DockerSteps, GitSteps
<1>3. ControlOK'
  BY <1>1, <1>2 DEF ControlOK, Steps
<1>4. Facts' /\ Progress'
  BY DEF Facts, Progress
<1> QED  BY <1>3, <1>4 DEF ProvisionIInv

\* The command is given, on any resource, or given again.
LEMMA Tries ==
    ASSUME ProvisionIInv, SetUp \/ Again
    PROVE  ProvisionIInv'
<1>0. /\ AptOK /\ YumOK /\ CondaOK /\ VenvOK /\ DockerOK /\ GitOK
      /\ skipped \subseteq Kinds /\ tries \in 0..MaxTries /\ MaxTries \in Nat \ {0}
  BY ProvisionAssumption DEF ProvisionIInv, ResourceOK, ControlOK
<1>1. CASE SetUp
  <2>1. /\ step' = "initiate" /\ todo' = spec' /\ spec' \in Environments /\ tries' \in 0..MaxTries
        /\ skipped' \subseteq Kinds /\ outcome' = "none"
    BY <1>0, <1>1 DEF SetUp, ProvisionIInv, ControlOK
  <2>2. CASE UNCHANGED resource
    BY <2>1, <2>2, SameResource, Beginnings DEF ProvisionIInv
  <2>3. CASE Used
    <3>1. AptOK'
      <4>1. PICK known \in SUBSET ListLines : apt' = [apt EXCEPT !.file = TRUE, !.lines = known]
        BY <2>3 DEF Used, ListLines
      <4> QED  BY <1>0, <4>1 DEF AptOK
    <3>2. YumOK'
      <4>1. PICK r \in SUBSET YumSources : yum' = [yum EXCEPT !.repos = r]
        BY <2>3 DEF Used
      <4> QED  BY <1>0, <4>1 DEF YumOK
    <3>3. CondaOK' /\ VenvOK' /\ DockerOK'
      <4>1. /\ conda' = [conda EXCEPT !.root = "yes"]
            /\ venv' = [venv EXCEPT !.path = [e \in DOMAIN @ |-> "yes"]]
            /\ docker' = [docker EXCEPT !.image = TRUE]
        BY <2>3 DEF Used
      <4> QED  BY <1>0, <4>1 DEF CondaOK, VenvOK, DockerOK, Made
    <3>4. GitOK'
      <4>0. InUse
        BY <2>3 DEF Used
      <4>1. PICK where \in AtPath \ {"nothing"}, c \in Commits, h \in [Branches -> Commits],
                 b \in Branches \cup {NoBranch}, dirty \in BOOLEAN,
                 remotes \in {{}, DOMAIN Recorded.remotes} :
               /\ b # NoBranch => h[b] = c
               /\ git' = [git EXCEPT !.at = where, !.branch = b, !.head = c, !.heads = h,
                             !.known = {c} \cup {h[x] : x \in Branches}, !.dirty = dirty,
                             !.remotes = remotes]
        BY <4>0, Zenon DEF InUse
      <4> DEFINE known == {c} \cup {h[x] : x \in Branches}
      <4>2. known \subseteq Commits /\ remotes \subseteq DOMAIN Recorded.remotes
        OBVIOUS
      <4>3. h \in Heads
        <5>1. h \in [Branches -> Commits \cup {NoCommit}] /\ Branches \in SUBSET Branches
          OBVIOUS
        <5> QED  BY <5>1 DEF Heads
      <4>4. git' = [git EXCEPT !.at = where, !.branch = b, !.head = c, !.heads = h,
                       !.known = known, !.dirty = dirty, !.remotes = remotes]
        BY <4>1
      <4> HIDE DEF known
      <4> QED  BY <1>0, <4>2, <4>3, <4>4 DEF GitOK
    <3>5. ResourceOK'
      BY <3>1, <3>2, <3>3, <3>4 DEF ResourceOK
    <3> QED  BY <2>1, <3>5, Beginnings
  <2> QED  BY <1>1, <2>2, <2>3 DEF SetUp
<1>2. CASE Again
  <2>1. /\ step' = "initiate" /\ todo' = spec' /\ outcome' = "none" /\ skipped' \subseteq Kinds
        /\ tries' = tries + 1 /\ tries < MaxTries
        /\ spec' \in Environments
    BY <1>2 DEF Again, ProvisionIInv, ControlOK
  <2>2. tries' \in 0..MaxTries
    BY <1>0, <2>1
  <2>3. PICK dirty \in BOOLEAN : git' = [git EXCEPT !.cloned = FALSE, !.dirty = dirty /\ git.at # "nothing"]
    BY <1>2 DEF Again
  <2>4. GitOK'
    <3> DEFINE changed == dirty /\ git.at # "nothing"
    <3>1. changed \in BOOLEAN
      OBVIOUS
    <3>2. git' = [git EXCEPT !.cloned = FALSE, !.dirty = changed]
      BY <2>3
    <3> HIDE DEF changed
    <3> QED  BY <1>0, <3>1, <3>2 DEF GitOK
  <2>5. ResourceOK'
    BY <1>0, <1>2, <2>4 DEF Again, ResourceOK, AptOK, YumOK, CondaOK, VenvOK, DockerOK
  <2> QED  BY <2>1, <2>2, <2>5, Beginnings
<1> QED  BY <1>1, <1>2

LEMMA InitProvision == ProvisionInit => ProvisionIInv
<1> SUFFICES ASSUME ProvisionInit PROVE ProvisionIInv
  OBVIOUS
<1>1. AptOK /\ YumOK /\ VenvOK /\ DockerOK
  BY DEF ProvisionInit, AptOK, YumOK, VenvOK, DockerOK, Made, ListLines
<1>2. CondaOK
  BY DEF ProvisionInit, CondaOK, Made
<1>3. GitOK
  <2> DEFINE hexsha == Recorded.hexsha
             heads == [b \in {} |-> hexsha]
  <2>1. heads \in Heads
    <3>1. heads \in [{} -> Commits \cup {NoCommit}] /\ {} \in SUBSET Branches
      OBVIOUS
    <3> QED  BY <3>1 DEF Heads
  <2>2. git = [at |-> "nothing", branch |-> NoBranch, head |-> hexsha,
               heads |-> heads, known |-> {}, dirty |-> FALSE,
               remotes |-> {}, cloned |-> FALSE, tracking |-> FALSE]
    BY DEF ProvisionInit
  <2>3. hexsha \in Commits \cup {NoCommit}
    BY RecordedFacts
  <2> HIDE DEF heads, hexsha
  <2> QED  BY <2>1, <2>2, <2>3 DEF GitOK, AtPath
<1>4. ControlOK
  <2>1. spec = <<>> /\ todo = <<>> /\ step = "idle" /\ outcome = "none" /\ skipped = {} /\ tries = 0
    BY DEF ProvisionInit
  <2>2. todo \in Seq(Kinds)
    BY <2>1
  <2> QED  BY <2>1, <2>2, ProvisionAssumption DEF ControlOK, Steps
<1>5. Facts /\ Progress
  BY DEF ProvisionInit, Facts, Progress
<1> QED  BY <1>1, <1>2, <1>3, <1>4, <1>5 DEF ProvisionIInv, ResourceOK

LEMMA NextProvision == ProvisionIInv /\ [ProvisionNext]_provisionVars => ProvisionIInv'
<1> SUFFICES ASSUME ProvisionIInv, [ProvisionNext]_provisionVars PROVE ProvisionIInv'
  OBVIOUS
<1>1. CASE SetUp \/ Again
  BY <1>1, Tries
<1>2. CASE Killed \/ CommandFails
  BY <1>2, Endings
<1>3. CASE Initiate
  BY <1>3, Initiates
<1>4. CASE AptFile \/ AptLine \/ AptKey \/ AptUpdate \/ AptInstall
  BY <1>4, AptActions
<1>5. CASE YumRepos \/ YumInstall
  BY <1>5, YumActions
<1>6. CASE CondaTmp \/ CondaRoot \/ CondaEnvironment \/ CondaClean
  BY <1>6, CondaActions
<1>7. CASE Virtualenv \/ PipInstall
  BY <1>7, VenvActions
<1>8. CASE Inspect \/ Pull
  BY <1>8, DockerActions
<1>9. CASE GitRemote \/ GitRevision
  BY <1>9, GitLooks
<1>10. CASE GitFetch \/ GitAdd
  BY <1>10, GitWorks
<1>11. CASE GitClone \/ GitCheckout
  BY <1>11, GitClones, GitChecksOut
<1>12. CASE UNCHANGED provisionVars
  <2>1. UNCHANGED <<spec, todo, step, index, outcome, skipped, tries, apt, yum, conda, venv, docker, git>>
    BY <1>12 DEF provisionVars, resource
  <2>2. ResourceOK'
    BY <2>1, SameResource DEF ProvisionIInv, resource
  <2>3. ControlOK'
    BY <2>1 DEF ProvisionIInv, ControlOK
  <2>5. Facts'
    <3>1. SeenTo' = SeenTo /\ \A e : WholeVenv(e)' = WholeVenv(e)
      BY <2>1 DEF SeenTo, WholeVenv
    <3> QED  BY <2>1, <3>1 DEF ProvisionIInv, Facts
  <2>4. Progress'
    BY <2>1 DEF ProvisionIInv, Progress, Fine, SetUpAsRecorded
  <2> QED  BY <2>2, <2>3, <2>4, <2>5 DEF ProvisionIInv
<1> QED  BY <1>1, <1>2, <1>3, <1>4, <1>5, <1>6, <1>7, <1>8, <1>9, <1>10, <1>11, <1>12 DEF ProvisionNext
-----------------------------------------------------------------------------
(* Every step relies on what the steps before it have seen to, and what is   *)
(* set up stays so: "reproman install" keeps to this for every specification *)
(* and every resource.                                                      *)
THEOREM ProvisionInvariant == ProvisionSpec => []ProvisionIInv
BY InitProvision, NextProvision, PTL DEF ProvisionSpec

(* The state of the command and of the resource has the types that the model *)
(* gives it.                                                                *)
THEOREM ProvisionType == ProvisionSpec => []ProvisionTypeOK
<1>1. ProvisionIInv => ProvisionTypeOK
  <2> SUFFICES ASSUME ProvisionIInv PROVE ProvisionTypeOK
    OBVIOUS
  <2>1. AptOK /\ YumOK /\ CondaOK /\ VenvOK /\ GitOK /\ ControlOK
    BY DEF ProvisionIInv, ResourceOK
  <2>2. DOMAIN git.heads \subseteq Branches
    <3>1. git.heads \in Heads
      BY <2>1 DEF GitOK
    <3> QED  BY <3>1 DEF Heads
  <2>3. DOMAIN VenvEnvs = 1..Len(VenvEnvs)
    BY ProvisionAssumption
  <2> QED  BY <2>1, <2>2, <2>3 DEF ProvisionTypeOK, AptOK, YumOK, CondaOK, VenvOK, GitOK, ControlOK, ListLines
<1> QED  BY <1>1, ProvisionInvariant, PTL

(* A command that says nothing has set everything up, but for what Provision *)
(* names as passed over silently, whatever specification it was given,       *)
(* whatever it found, and however often it had been tried.                   *)
THEOREM InstalledCorrect == ProvisionSpec => []InstalledOrSaid
<1>1. ProvisionIInv => InstalledOrSaid
  <2> SUFFICES ASSUME ProvisionIInv, outcome = "done", NEW i \in DOMAIN spec
               PROVE  SetUpAsRecorded(spec[i]) \/ spec[i] \in skipped \cup {"singularity", "empty conda"}
    BY DEF InstalledOrSaid
  <2>1. todo = <<>> /\ step # "idle"
    BY DEF ProvisionIInv, ControlOK
  <2>2. DOMAIN todo = {}
    BY <2>1
  <2> QED  BY <2>1, <2>2 DEF ProvisionIInv, Progress, Fine
<1> QED  BY <1>1, ProvisionInvariant, PTL

(* Work in a repository that the command did not clone is safe: no step moves *)
(* a branch of it or, while it is dirty, HEAD.                              *)
THEOREM UserWorkCorrect == ProvisionSpec => UserWorkKept
<1> DEFINE WorkKept ==
      ~git'.cloned /\ git.at # "nothing" /\ step # "idle" =>
          /\ \A b \in DOMAIN git.heads : b \in DOMAIN git'.heads /\ git'.heads[b] = git.heads[b]
          /\ git.dirty => git'.head = git.head /\ git'.branch = git.branch
<1>1. ProvisionIInv /\ [ProvisionNext]_provisionVars => [WorkKept]_provisionVars
  <2> SUFFICES ASSUME ProvisionIInv, ProvisionNext,
                      ~git'.cloned, git.at # "nothing", step # "idle"
               PROVE  /\ \A b \in DOMAIN git.heads :
                            b \in DOMAIN git'.heads /\ git'.heads[b] = git.heads[b]
                      /\ git.dirty => git'.head = git.head /\ git'.branch = git.branch
    OBVIOUS
  <2>0. GitOK
    BY DEF ProvisionIInv, ResourceOK
  <2>1. CASE UNCHANGED git
    BY <2>1
  <2>2. CASE Again
    <3>1. PICK dirty \in BOOLEAN : git' = [git EXCEPT !.cloned = FALSE, !.dirty = dirty /\ git.at # "nothing"]
      BY <2>2 DEF Again
    <3>2. git'.heads = git.heads /\ git'.head = git.head /\ git'.branch = git.branch
      BY <2>0, <3>1 DEF GitOK
    <3> QED  BY <3>2
  <2>3. CASE Killed /\ ~UNCHANGED git
    BY <2>3 DEF Killed, ProvisionIInv, Facts
  <2>4. CASE GitFetch \/ GitAdd
    <3>1. git'.heads = git.heads /\ git'.head = git.head /\ git'.branch = git.branch
      BY <2>0, <2>4 DEF GitFetch, GitAdd, GitOK
    <3> QED  BY <3>1
  <2>5. CASE GitClone
    BY <2>5 DEF GitClone, ProvisionIInv, Facts
  <2>6. CASE GitCheckout
    <3>1. ~git.dirty
      BY <2>6 DEF GitCheckout, ProvisionIInv, Facts
    <3>2. CASE Detach
      BY <2>0, <3>1, <3>2 DEF Detach, GitOK
    <3>3. CASE SwitchTo(Recorded.branch)
      <4> DEFINE branch == Recorded.branch
                 hexsha == Recorded.hexsha
                 heads == [b \in DOMAIN git.heads \cup {branch} |->
                             IF b = branch THEN hexsha ELSE git.heads[b]]
                 tracking == git.tracking \/ Recorded.tracked # ""
      <4>1. git' = [git EXCEPT !.branch = branch, !.head = hexsha, !.heads = heads, !.tracking = tracking]
        BY <3>3 DEF SwitchTo
      <4>2. git'.heads = heads /\ git'.cloned = git.cloned
        <5> HIDE DEF heads, tracking, branch, hexsha
        <5> QED  BY <2>0, <4>1 DEF GitOK
      <4>3. SwitchTo(Recorded.branch) => git.cloned \/ UNCHANGED git \/ Detach \/ git.heads[branch] = hexsha
        BY <2>6 DEF GitCheckout
      <4> QED  BY <2>1, <3>1, <3>2, <3>3, <4>2, <4>3
    <3> QED  BY <2>1, <2>6, <3>2, <3>3 DEF GitCheckout
  <2>7. UNCHANGED git \/ Again \/ (Killed /\ ~UNCHANGED git) \/ GitFetch \/ GitAdd \/ GitClone \/ GitCheckout
    <3>1. ~SetUp
      BY DEF SetUp
    <3> QED  BY <3>1
       DEF ProvisionNext, Initiate, CommandFails, AptFile, AptLine, AptKey, AptUpdate, AptInstall,
           YumRepos, YumInstall, CondaTmp, CondaRoot, CondaEnvironment, CondaClean, Virtualenv, PipInstall,
           Inspect, Pull, GitRemote, GitRevision, SkipRepo, Others, resource
  <2> QED  BY <2>1, <2>2, <2>3, <2>4, <2>5, <2>6, <2>7
<1> QED  BY <1>1, ProvisionInvariant, PTL DEF UserWorkKept, ProvisionSpec
-----------------------------------------------------------------------------
(* The environment of a session *)

\* What the dictionaries may hold.
Values == Plain \cup {Spaced, Own, Null}

\* The environment of the resource and the dictionaries of the session.
DictionariesType ==
    /\ base \in [Variables -> Plain \cup {Unset}]
    /\ env \in Dictionary /\ permanent \in Dictionary
    /\ wanted = [v \in Variables |-> wanted[v]]

\* What a command sees of a variable that is None in the dictionary.
Removed == IF backend = "shell" THEN Unset ELSE Empty

\* A promise to the next command is what a command gets from the session: the
\* value of the resource, none, or one that comes through every shell.
PromiseKept ==
    \A v \in Variables :
        \/ wanted[v] = Anything
        \/ v \notin DOMAIN env /\ wanted[v] = base[v]
        \/ v \in DOMAIN env /\ env[v] = Null /\ wanted[v] = Removed
        \/ v \in DOMAIN env /\ env[v] \in Plain \cup {Spaced} /\ env[v] # Own /\ wanted[v] = env[v]

EnvironmentIInv == DictionariesType /\ PromiseKept /\ SeesItsEnvironment

\* A dictionary is a function on some of the variables.
LEMMA DictionaryFacts ==
    ASSUME NEW d
    PROVE  d \in Dictionary <=>
             /\ DOMAIN d \in SUBSET Variables /\ d = [v \in DOMAIN d |-> d[v]]
             /\ \A v \in DOMAIN d : d[v] \in Values
BY DEF Dictionary, Values

\* What With makes of two dictionaries is one; the new values win.
LEMMA WithDictionary ==
    ASSUME NEW old \in Dictionary, NEW new \in Dictionary
    PROVE  /\ With(old, new) \in Dictionary
           /\ DOMAIN With(old, new) = DOMAIN old \cup DOMAIN new
           /\ \A v \in DOMAIN new : With(old, new)[v] = new[v]
           /\ \A v \in DOMAIN old \ DOMAIN new : With(old, new)[v] = old[v]
<1>1. /\ DOMAIN With(old, new) = DOMAIN old \cup DOMAIN new
      /\ With(old, new) = [v \in DOMAIN With(old, new) |-> With(old, new)[v]]
      /\ \A v \in DOMAIN new : With(old, new)[v] = new[v]
      /\ \A v \in DOMAIN old \ DOMAIN new : With(old, new)[v] = old[v]
  BY DEF With
<1> HIDE DEF With
<1>2. \A v \in DOMAIN With(old, new) : With(old, new)[v] \in Values
  BY <1>1, DictionaryFacts
<1>3. DOMAIN With(old, new) \in SUBSET Variables
  BY <1>1, DictionaryFacts
<1> QED  BY <1>1, <1>2, <1>3, DictionaryFacts

\* The dictionary of a session that was just made.
LEMMA EmptyDictionary == NoDictionary \in Dictionary /\ DOMAIN NoDictionary = {}
BY DictionaryFacts DEF NoDictionary

\* One variable and its value, as set_envvar is given.
LEMMA SingleDictionary ==
    ASSUME NEW v \in Variables, NEW g \in Values
    PROVE  [x \in {v} |-> g] \in Dictionary /\ DOMAIN [x \in {v} |-> g] = {v}
BY DictionaryFacts

\* A command that ran, whole, on the resource.
Served(r) == r.result = "done" /\ r.where = "resource" /\ r.whole

\* What a command may see of a variable, if one of its dictionary was not replaced.
SeesGiven(r, given) ==
    \A v \in Variables :
        /\ v \notin DOMAIN given => r.sees[v] = base[v]
        /\ v \in DOMAIN given /\ given[v] = Null => r.sees[v] = Unset
        /\ v \in DOMAIN given /\ given[v] \notin {Null, Own} => r.sees[v] = given[v]

\* ... and of what a session gives it, in which None is exported as it can be.
SeesSession(r, given) ==
    \A v \in Variables :
        /\ v \notin DOMAIN given => r.sees[v] = base[v]
        /\ v \in DOMAIN given /\ given[v] = Null => r.sees[v] = Removed
        /\ v \in DOMAIN given /\ given[v] \notin {Null, Own} => r.sees[v] = given[v]

\* What is exported is a dictionary of the same variables, without None.
LEMMA ExportedDictionary ==
    ASSUME NEW given \in Dictionary
    PROVE  /\ Exported(given) \in Dictionary /\ DOMAIN Exported(given) = DOMAIN given
           /\ \A v \in DOMAIN given :
                  Exported(given)[v] = IF given[v] = Null THEN Empty ELSE given[v]
           /\ given = NoDictionary => Exported(given) = NoDictionary
<1>1. PICK e : e = Exported(given)
  OBVIOUS
<1>2. /\ DOMAIN e = DOMAIN given /\ e = [v \in DOMAIN e |-> e[v]]
      /\ \A v \in DOMAIN given : e[v] = IF given[v] = Null THEN Empty ELSE given[v]
  BY <1>1 DEF Exported
<1>3. \A v \in DOMAIN e : e[v] \in Values
  BY <1>2, DictionaryFacts, SessionsAssumption DEF Values
<1>4. e \in Dictionary
  BY <1>2, <1>3, DictionaryFacts
<1>5. ASSUME given = NoDictionary PROVE e = NoDictionary
  <2>1. DOMAIN given = {}
    BY <1>5, EmptyDictionary
  <2> QED  BY <1>2, <2>1 DEF NoDictionary
<1> QED  BY <1>1, <1>2, <1>4, <1>5

\* Whoever sees what was exported sees what the session gives.
LEMMA SeesExported ==
    ASSUME NEW given \in Dictionary, backend # "shell", NEW r, SeesGiven(r, Exported(given))
    PROVE  SeesSession(r, given)
BY ExportedDictionary, SessionsAssumption DEF SeesGiven, SeesSession, Removed

\* Each way to run a command shows it the dictionary that it is given: that of
\* the process, the export before it, the one between quotes, and that for sudo.
LEMMA WaysToRun ==
    ASSUME NEW given \in Dictionary, NEW command \in Commands
    PROVE  /\ SeesGiven(InProcess(given), given)
           /\ Served(Prefixed(given)) => SeesGiven(Prefixed(given), given)
           /\ Served(InQuotes(given, command.quoted)) =>
                  SeesGiven(InQuotes(given, command.quoted), given)
           /\ Served(WithSudo(given, command)) => SeesGiven(WithSudo(given, command), given)
           /\ given = NoDictionary => SeesGiven(Ran("resource", TRUE, base), given)
<1>1. SeesGiven(InProcess(given), given)
  BY DEF SeesGiven, InProcess, Ran, Seen, Expanded
<1>2. Served(Prefixed(given)) => SeesGiven(Prefixed(given), given)
  BY DEF Served, SeesGiven, Prefixed, Ran, Fails, Seen, Expanded
<1>3. Served(InQuotes(given, command.quoted)) => SeesGiven(InQuotes(given, command.quoted), given)
  BY DEF Served, SeesGiven, InQuotes, Ran, Seen, Expanded
<1>4. \A whole : given = NoDictionary => SeesGiven(Ran("resource", whole, base), given)
  BY EmptyDictionary DEF SeesGiven, Ran
<1>5. Served(WithSudo(given, command)) => SeesGiven(WithSudo(given, command), given)
  <2>1. CASE "sudo" \notin features
    BY <2>1 DEF Served, WithSudo, Fails
  <2>2. CASE "sudo" \in features /\ given = NoDictionary /\ command.cwd = "none"
    BY <1>4, <2>2 DEF Served, WithSudo
  <2>3. CASE "sudo" \in features /\ ~(given = NoDictionary /\ command.cwd = "none")
    BY <2>3 DEF Served, SeesGiven, WithSudo, Ran, Fails, Seen, Expanded
  <2> QED  BY <2>1, <2>2, <2>3
<1> QED  BY <1>1, <1>2, <1>3, <1>4, <1>5

\* Whichever way the backend takes, the command sees what it is given.
LEMMA ExecuteSees ==
    ASSUME NEW given \in Dictionary, NEW command \in Commands, Served(Execute(given, command))
    PROVE  SeesSession(Execute(given, command), given)
<1> DEFINE out == Exported(given)  r == Execute(given, command)
<1>1. CASE backend = "shell"
  <2>1. r = InProcess(given)
    BY <1>1 DEF Execute, Served, Fails, RunnerError
  <2>2. SeesGiven(r, given)
    BY <2>1, WaysToRun
  <2> HIDE DEF r
  <2>3. SeesSession(r, given)
    BY <1>1, <2>2 DEF SeesGiven, SeesSession, Removed
  <2> QED  BY <2>3 DEF r
<1>2. CASE backend # "shell"
  <2>1. out \in Dictionary
    BY ExportedDictionary
  <2>2. \/ r = WithSudo(out, command) \/ r = InQuotes(out, command.quoted) \/ r = Prefixed(out)
        \/ r = Ran("resource", TRUE, base) /\ given = NoDictionary
    BY <1>2 DEF Execute, Served, Fails
  <2>3. SeesGiven(r, out)
    <3>1. CASE r = Ran("resource", TRUE, base) /\ given = NoDictionary
      BY <2>1, <3>1, WaysToRun, ExportedDictionary
    <3>2. CASE r # Ran("resource", TRUE, base) \/ given # NoDictionary
      <4> HIDE DEF out, r
      <4>1. Served(r)
        BY DEF r
      <4> QED  BY <2>1, <2>2, <3>2, <4>1, WaysToRun
    <3> QED  BY <3>1, <3>2
  <2> QED  BY <1>2, <2>3, SeesExported
<1> QED  BY <1>1, <1>2

\* query_envvars() is such a command: it shows the session as it is, and "$X"
\* in a value, replaced or not, is never a plain value.
LEMMA QueryShows ==
    ASSUME DictionariesType, Query.result = "done"
    PROVE  /\ Served(Query) /\ SeesSession(Query, env)
           /\ \A v \in DOMAIN env : env[v] = Own => Query.sees[v] \notin Plain
<1> USE DEF DictionariesType
<1>0. SimpleCommand \in Commands /\ SimpleCommand.obstacle = "none" /\ ~SimpleCommand.shell
      /\ SimpleCommand.cwd = "none"
  BY DEF SimpleCommand, Commands
<1>1. CASE backend = "shell"
  <2>1. Query = InProcess(env)
    BY <1>0, <1>1 DEF Query, Execute
  <2>2. Served(Query)
    BY <2>1 DEF InProcess, Ran, Served
  <2>3. ASSUME NEW v \in DOMAIN env, env[v] = Own
        PROVE  Query.sees[v] \notin Plain
    <3>1. v \in Variables /\ base[v] \in Plain \cup {Unset} /\ Own # Null
      BY DictionaryFacts, SessionsAssumption
    <3>2. Query.sees[v] \in {Own, <<Own, base[v]>>}
      BY <2>1, <2>3, <3>1 DEF InProcess, Ran, Seen, Expanded
    <3> QED  BY <3>1, <3>2, SessionsAssumption
  <2>4. SeesGiven(Query, env)
    BY <2>1, <1>0, WaysToRun
  <2> QED  BY <1>1, <2>2, <2>3, <2>4 DEF SeesGiven, SeesSession, Removed
<1>2. CASE backend # "shell" /\ env = NoDictionary
  <2>1. Query = Ran("resource", TRUE, base)
    BY <1>0, <1>2 DEF Query, Execute, Fails
  <2>2. Served(Query) /\ SeesGiven(Query, env)
    BY <2>1, <1>0, <1>2, WaysToRun DEF Served, Ran
  <2>3. DOMAIN env = {}
    BY <1>2, EmptyDictionary
  <2> QED  BY <2>2, <2>3 DEF SeesGiven, SeesSession
<1>3. CASE backend # "shell" /\ env # NoDictionary
  <2> DEFINE out == Exported(env)
  <2>0. /\ out \in Dictionary /\ DOMAIN out = DOMAIN env /\ DOMAIN env # {}
        /\ \A v \in DOMAIN env : out[v] = IF env[v] = Null THEN Empty ELSE env[v]
    <3>1. DOMAIN env # {}
      BY <1>3, DictionaryFacts DEF NoDictionary
    <3> QED  BY <3>1, ExportedDictionary
  <2>1. Query = Prefixed(out)
    BY <1>0, <1>3 DEF Query, Execute, Fails
  <2> HIDE DEF out
  <2>2. out # NoDictionary
    BY <2>0, EmptyDictionary
  <2>3. Query = Ran("resource", TRUE, Seen(out, out))
    BY <2>1, <2>2 DEF Prefixed, Fails
  <2>4. Served(Query)
    BY <2>3 DEF Served, Ran
  <2>5. ASSUME NEW v \in DOMAIN env, env[v] = Own
        PROVE  Query.sees[v] \notin Plain
    <3>1. v \in Variables /\ out[v] = Own /\ Own # Null
      BY <2>0, <2>5, DictionaryFacts, SessionsAssumption
    <3>2. Query.sees[v] = Own
      BY <2>0, <2>3, <3>1 DEF Ran, Seen
    <3> QED  BY <3>2, SessionsAssumption
  <2>6. SeesSession(Query, env)
    BY <1>3, <2>0, <2>1, <2>4, <1>0, WaysToRun, SeesExported DEF out
  <2> QED  BY <2>4, <2>5, <2>6
<1> QED  BY <1>1, <1>2, <1>3

\* A command that is given the dictionary of the session, and more, sees what
\* was promised of all that it is not given by itself.
LEMMA PromiseSeen ==
    ASSUME EnvironmentIInv, NEW extra \in Dictionary, NEW command \in Commands,
           Served(Execute(With(env, extra), command))
    PROVE  \A v \in Variables \ DOMAIN extra :
               wanted[v] \in {Anything, Execute(With(env, extra), command).sees[v]}
<1> DEFINE given == With(env, extra)  r == Execute(given, command)
<1>1. /\ given \in Dictionary /\ DOMAIN given = DOMAIN env \cup DOMAIN extra
      /\ \A v \in DOMAIN env \ DOMAIN extra : given[v] = env[v]
  BY WithDictionary DEF EnvironmentIInv, DictionariesType
<1>2. SeesSession(r, given)
  BY <1>1, ExecuteSees
<1> HIDE DEF given, r
<1>3. ASSUME NEW v \in Variables \ DOMAIN extra
      PROVE  wanted[v] \in {Anything, r.sees[v]}
  BY <1>1, <1>2, SessionsAssumption DEF SeesSession, EnvironmentIInv, PromiseKept
<1> QED  BY <1>3 DEF r, given

\* A step that says nothing of the resource, and keeps what was promised true.
LEMMA NothingRan ==
    ASSUME last'.result # "done" \/ last'.where # "resource"
    PROVE  SeesItsEnvironment'
BY DEF SeesItsEnvironment

\* What leaves the dictionaries, the promises and the last command alone.
LEMMA EnvironmentStays ==
    ASSUME EnvironmentIInv, UNCHANGED backend, UNCHANGED base, UNCHANGED env, UNCHANGED permanent,
           UNCHANGED wanted, UNCHANGED last
    PROVE  EnvironmentIInv'
BY DEF EnvironmentIInv, DictionariesType, PromiseKept, Removed, SeesItsEnvironment

\* A new session promises what the resource has.
LEMMA EnvironmentInitially == SessionsInit => EnvironmentIInv
<1> SUFFICES ASSUME SessionsInit PROVE EnvironmentIInv  OBVIOUS
<1>1. DictionariesType
  BY EmptyDictionary DEF SessionsInit, DictionariesType
<1>2. PromiseKept
  BY EmptyDictionary DEF SessionsInit, PromiseKept
<1>3. SeesItsEnvironment
  BY DEF SessionsInit, SeesItsEnvironment, NoCommand
<1> QED  BY <1>1, <1>2, <1>3 DEF EnvironmentIInv

\* execute_command: what it is given by itself is not what was promised.
LEMMA CommandStep ==
    ASSUME EnvironmentIInv, ExecuteCommand
    PROVE  EnvironmentIInv'
<1>1. PICK extra \in Dictionary, command \in Commands :
          Answered(Execute(With(env, extra), command), DOMAIN extra)
  <2>1. PICK extra \in {NoDictionary} \cup UNION {[{v} -> Values] : v \in Variables},
             command \in Commands :
            Answered(Execute(With(env, extra), command), DOMAIN extra)
    BY DEF ExecuteCommand, Values
  <2>2. extra \in Dictionary
    <3>1. CASE extra = NoDictionary
      BY <3>1, EmptyDictionary
    <3>2. CASE extra \in UNION {[{v} -> Values] : v \in Variables}
      <4>1. PICK v \in Variables : extra \in [{v} -> Values]
        BY <3>2
      <4> QED  BY <4>1, DictionaryFacts
    <3> QED  BY <2>1, <3>1, <3>2
  <2> QED  BY <2>1, <2>2
<1>2. /\ UNCHANGED backend /\ UNCHANGED base /\ UNCHANGED env /\ UNCHANGED permanent
      /\ UNCHANGED wanted
  BY DEF ExecuteCommand, Quiet, resourceFacts
<1>3. DictionariesType' /\ PromiseKept'
  BY <1>2 DEF EnvironmentIInv, DictionariesType, PromiseKept, Removed
<1>4. SeesItsEnvironment'
  <2> DEFINE r == Execute(With(env, extra), command)
  <2>1. /\ last'.result = r.result /\ last'.where = r.where /\ last'.whole = r.whole
        /\ last'.sees = r.sees /\ last'.extra = DOMAIN extra
    BY <1>1 DEF Answered
  <2>2. Served(r) => \A v \in Variables \ DOMAIN extra : wanted[v] \in {Anything, r.sees[v]}
    BY <1>1, PromiseSeen
  <2> HIDE DEF r
  <2> QED  BY <1>2, <2>1, <2>2 DEF SeesItsEnvironment, Served
<1> QED  BY <1>3, <1>4 DEF EnvironmentIInv

\* set_envvar with a value
LEMMA SetStep ==
    ASSUME EnvironmentIInv, SetEnvvar
    PROVE  EnvironmentIInv'
<1> USE DEF EnvironmentIInv
<1>1. PICK v \in Variables, g \in Plain \cup {Spaced, Own} :
          /\ env' = With(env, [x \in {v} |-> g])
          /\ permanent' \in {permanent, With(permanent, [x \in {v} |-> g])}
          /\ wanted' = [wanted EXCEPT ![v] = IF g = Own THEN Anything ELSE g]
  BY DEF SetEnvvar, Promise
<1>2. UNCHANGED base /\ UNCHANGED backend
  BY DEF SetEnvvar, Quiet, resourceFacts
<1>a. PICK new : new = [x \in {v} |-> g]
  OBVIOUS
<1>b. new \in Dictionary
  <2>1. g \in Values
    BY DEF Values
  <2> QED  BY <1>a, <2>1, SingleDictionary
<1>3. DOMAIN new = {v} /\ new[v] = g
  BY <1>a
<1>c. env' = With(env, new) /\ permanent' \in {permanent, With(permanent, new)}
  BY <1>1, <1>a
<1>4. /\ env' \in Dictionary /\ DOMAIN env' = DOMAIN env \cup {v}
      /\ env'[v] = g /\ \A x \in DOMAIN env \ {v} : env'[x] = env[x]
  <2>1. PICK d : d = env'
    OBVIOUS
  <2>2. env \in Dictionary /\ d = With(env, new)
    BY <1>c, <2>1 DEF DictionariesType
  <2>3. d \in Dictionary /\ DOMAIN d = DOMAIN env \cup DOMAIN new
    BY <1>b, <2>2, WithDictionary
  <2>4. \A x \in DOMAIN new : d[x] = new[x]
    BY <1>b, <2>2, WithDictionary
  <2>5. \A x \in DOMAIN env \ DOMAIN new : d[x] = env[x]
    BY <1>b, <2>2, WithDictionary
  <2> QED  BY <1>3, <2>1, <2>3, <2>4, <2>5
<1>5. permanent' \in Dictionary
  <2>1. permanent \in Dictionary
    BY DEF DictionariesType
  <2>2. With(permanent, new) \in Dictionary
    BY <1>b, <2>1, WithDictionary
  <2> QED  BY <1>c, <2>1, <2>2
<1>6. /\ wanted' = [x \in Variables |-> wanted'[x]]
      /\ wanted'[v] = (IF g = Own THEN Anything ELSE g)
      /\ \A x \in Variables \ {v} : wanted'[x] = wanted[x]
  BY <1>1 DEF DictionariesType
<1>7. DictionariesType'
  BY <1>2, <1>4, <1>5, <1>6 DEF DictionariesType
<1>8. PromiseKept'
  BY <1>2, <1>4, <1>6 DEF PromiseKept, Removed
<1>9. SeesItsEnvironment'
  <2>1. last'.where = "nowhere"
    BY DEF SetEnvvar, NoCommand
  <2> QED  BY <2>1, NothingRan
<1> QED  BY <1>7, <1>8, <1>9

\* set_envvar without one
LEMMA DropStep ==
    ASSUME EnvironmentIInv, DropEnvvar
    PROVE  EnvironmentIInv'
<1> USE DEF EnvironmentIInv
<1>1. PICK v \in Variables :
          IF v \in DOMAIN env
          THEN env' = [x \in DOMAIN env \ {v} |-> env[x]]
               /\ wanted' = [wanted EXCEPT ![v] = base[v]]
          ELSE env' = With(env, [x \in {v} |-> Null])
               /\ wanted' = [wanted EXCEPT ![v] = Removed]
  BY DEF DropEnvvar, Promise, Removed
<1>2. UNCHANGED base /\ UNCHANGED permanent /\ UNCHANGED backend /\ Removed' = Removed
  BY DEF DropEnvvar, Quiet, resourceFacts, Removed
<1>3. SeesItsEnvironment'
  <2>1. last'.where = "nowhere"
    BY DEF DropEnvvar, NoCommand
  <2> QED  BY <2>1, NothingRan
<1>4. CASE v \in DOMAIN env
  <2>1. /\ DOMAIN env' = DOMAIN env \ {v} /\ \A x \in DOMAIN env \ {v} : env'[x] = env[x]
        /\ env' = [x \in DOMAIN env' |-> env'[x]]
    BY <1>1, <1>4
  <2>2. env' \in Dictionary
    BY <2>1, DictionaryFacts DEF DictionariesType
  <2>3. /\ wanted' = [x \in Variables |-> wanted'[x]]
        /\ wanted'[v] = base[v] /\ \A x \in Variables \ {v} : wanted'[x] = wanted[x]
    BY <1>1, <1>4 DEF DictionariesType
  <2> QED  BY <1>2, <1>3, <2>1, <2>2, <2>3 DEF DictionariesType, PromiseKept
<1>5. CASE v \notin DOMAIN env
  <2>a. PICK new : new = [x \in {v} |-> Null]
    OBVIOUS
  <2>b. new \in Dictionary
    <3>1. Null \in Values
      BY DEF Values
    <3> QED  BY <2>a, <3>1, SingleDictionary
  <2>1. env' = With(env, new) /\ DOMAIN new = {v} /\ new[v] = Null
    BY <1>1, <1>5, <2>a
  <2>2. /\ env' \in Dictionary /\ DOMAIN env' = DOMAIN env \cup {v}
        /\ env'[v] = Null /\ \A x \in DOMAIN env \ {v} : env'[x] = env[x]
    <3>1. PICK d : d = env'
      OBVIOUS
    <3>2. env \in Dictionary /\ d = With(env, new)
      BY <2>1, <3>1 DEF DictionariesType
    <3>3. d \in Dictionary /\ DOMAIN d = DOMAIN env \cup DOMAIN new
      BY <2>b, <3>2, WithDictionary
    <3>4. \A x \in DOMAIN new : d[x] = new[x]
      BY <2>b, <3>2, WithDictionary
    <3>5. \A x \in DOMAIN env \ DOMAIN new : d[x] = env[x]
      BY <2>b, <3>2, WithDictionary
    <3> QED  BY <2>1, <3>1, <3>3, <3>4, <3>5
  <2>3. /\ wanted' = [x \in Variables |-> wanted'[x]]
        /\ wanted'[v] = Removed /\ \A x \in Variables \ {v} : wanted'[x] = wanted[x]
    BY <1>1, <1>5 DEF DictionariesType
  <2> QED  BY <1>2, <1>3, <2>2, <2>3 DEF DictionariesType, PromiseKept
<1> QED  BY <1>4, <1>5

\* query_envvars
LEMMA QueryStep ==
    ASSUME EnvironmentIInv, QueryEnvvars
    PROVE  EnvironmentIInv'
<1>1. /\ UNCHANGED backend /\ UNCHANGED base /\ UNCHANGED env /\ UNCHANGED permanent
      /\ UNCHANGED wanted
  BY DEF QueryEnvvars, Quiet, resourceFacts
<1>2. DictionariesType' /\ PromiseKept'
  BY <1>1 DEF EnvironmentIInv, DictionariesType, PromiseKept, Removed
<1>3. last'.result = "done" =>
          /\ Query.result = "done"
          /\ last'.sees = Query.sees
  BY DEF QueryEnvvars, Answered, Fails
<1>4. ASSUME last'.result = "done", NEW v \in Variables
      PROVE  wanted[v] \in {Anything, Query.sees[v]}
  <2>1. SeesSession(Query, env)
    BY <1>3, <1>4, QueryShows DEF EnvironmentIInv
  <2> QED  BY <2>1, SessionsAssumption DEF SeesSession, EnvironmentIInv, PromiseKept
<1>5. SeesItsEnvironment'
  BY <1>1, <1>3, <1>4 DEF SeesItsEnvironment
<1> QED  BY <1>2, <1>5 DEF EnvironmentIInv

\* source_script: what differs from before is kept, what does not is there.
LEMMA SourceStep ==
    ASSUME EnvironmentIInv, SourceScript
    PROVE  EnvironmentIInv'
<1>1. UNCHANGED base /\ UNCHANGED permanent /\ UNCHANGED backend
  BY DEF SourceScript, Quiet, resourceFacts
<1>2. SeesItsEnvironment'
  <2>1. last'.where = "nowhere"
    BY DEF SourceScript, NoCommand
  <2> QED  BY <2>1, NothingRan
<1>3. CASE UNCHANGED env /\ UNCHANGED wanted
  BY <1>1, <1>2, <1>3 DEF EnvironmentIInv, DictionariesType, PromiseKept, Removed
<1>4. CASE ~(UNCHANGED env /\ UNCHANGED wanted)
  <2>0. PICK g \in Plain \cup {Unset}, vs \in SUBSET Variables : \E after :
            /\ Query.result = "done"
            /\ after = [v \in Variables |-> IF v \in vs THEN g ELSE Query.sees[v]]
            /\ env' = With(env, Stored(Query.sees, after))
            /\ wanted' = [v \in Variables |-> IF after[v] \in Plain THEN after[v] ELSE Anything]
    BY <1>4 DEF SourceScript, Queried
  <2>1. PICK after :
            /\ Query.result = "done"
            /\ after = [v \in Variables |-> IF v \in vs THEN g ELSE Query.sees[v]]
            /\ env' = With(env, Stored(Query.sees, after))
            /\ wanted' = [v \in Variables |-> IF after[v] \in Plain THEN after[v] ELSE Anything]
    BY <2>0
  <2>2. SeesSession(Query, env) /\ \A v \in DOMAIN env : env[v] = Own => Query.sees[v] \notin Plain
    BY <2>1, QueryShows DEF EnvironmentIInv
  <2>3. PICK new : new = Stored(Query.sees, after)
    OBVIOUS
  <2>4. /\ DOMAIN new = {v \in Variables : after[v] # Unset /\ after[v] # Query.sees[v]}
        /\ new = [v \in DOMAIN new |-> new[v]]
        /\ \A v \in DOMAIN new : new[v] = after[v]
    BY <2>3 DEF Stored
  <2>5. \A v \in DOMAIN new : new[v] \in Plain
    BY <2>1, <2>4
  <2>6. new \in Dictionary
    <3>1. DOMAIN new \in SUBSET Variables
      BY <2>4
    <3>2. \A v \in DOMAIN new : new[v] \in Values
      BY <2>5 DEF Values
    <3> QED  BY <2>4, <3>1, <3>2, DictionaryFacts
  <2>7. /\ env' \in Dictionary /\ DOMAIN env' = DOMAIN env \cup DOMAIN new
        /\ \A v \in DOMAIN new : env'[v] = new[v]
        /\ \A v \in DOMAIN env \ DOMAIN new : env'[v] = env[v]
    <3>1. PICK d : d = env'
      OBVIOUS
    <3>2. env \in Dictionary /\ d = With(env, new)
      BY <2>1, <2>3, <3>1 DEF EnvironmentIInv, DictionariesType
    <3>3. d \in Dictionary /\ DOMAIN d = DOMAIN env \cup DOMAIN new
      BY <2>6, <3>2, WithDictionary
    <3>4. \A v \in DOMAIN new : d[v] = new[v]
      BY <2>6, <3>2, WithDictionary
    <3>5. \A v \in DOMAIN env \ DOMAIN new : d[v] = env[v]
      BY <2>6, <3>2, WithDictionary
    <3> QED  BY <3>1, <3>3, <3>4, <3>5
  <2>8. \A v \in Variables : wanted'[v] = (IF after[v] \in Plain THEN after[v] ELSE Anything)
    BY <2>1
  <2>9. DictionariesType'
    BY <1>1, <2>1, <2>7 DEF EnvironmentIInv, DictionariesType
  <2>10. ASSUME NEW v \in Variables, after[v] \in Plain, v \notin DOMAIN new
         PROVE  \/ v \notin DOMAIN env /\ base[v] = after[v]
                \/ v \in DOMAIN env /\ env[v] = Null /\ Removed = after[v]
                \/ v \in DOMAIN env /\ env[v] = after[v] /\ env[v] # Own
    <3>1. Query.sees[v] = after[v]
      BY <2>4, <2>10, SessionsAssumption
    <3>2. CASE v \notin DOMAIN env
      BY <3>1, <3>2, <2>2 DEF SeesSession
    <3>3. CASE v \in DOMAIN env
      <4>1. env[v] # Own
        BY <2>2, <2>10, <3>1, <3>3
      <4> QED  BY <2>2, <3>1, <3>3, <4>1 DEF SeesSession
    <3> QED  BY <3>2, <3>3
  <2>11. ASSUME NEW v \in Variables, after[v] \in Plain
         PROVE  \/ v \notin DOMAIN env' /\ wanted'[v] = base'[v]
                \/ v \in DOMAIN env' /\ env'[v] = Null /\ wanted'[v] = Removed
                \/ /\ v \in DOMAIN env' /\ env'[v] \in Plain /\ env'[v] # Own
                   /\ wanted'[v] = env'[v]
    <3>1. wanted'[v] = after[v] /\ after[v] # Own
      BY <2>8, <2>11, SessionsAssumption
    <3>2. CASE v \in DOMAIN new
      BY <2>4, <2>7, <2>11, <3>1, <3>2
    <3>3. CASE v \notin DOMAIN new
      BY <1>1, <2>7, <2>10, <2>11, <3>1, <3>3
    <3> QED  BY <3>2, <3>3
  <2>12. PromiseKept'
    BY <1>1, <2>8, <2>11 DEF PromiseKept, Removed
  <2> QED  BY <1>2, <2>9, <2>12 DEF EnvironmentIInv
<1> QED  BY <1>3, <1>4

\* No other step is about the environment.
LEMMA OtherSteps ==
    ASSUME EnvironmentIInv,
           \/ Connect \/ GetLocalSession \/ GetSession \/ FormatEnvvar \/ StartTransfer
           \/ NoCommandRuns \/ MakeDirectory \/ CopyOne \/ CopyFails \/ CatFails \/ Rename
           \/ Copied \/ Owner \/ UNCHANGED sessionVars
    PROVE  EnvironmentIInv'
<1>1. /\ UNCHANGED backend /\ UNCHANGED base /\ UNCHANGED env /\ UNCHANGED permanent
      /\ UNCHANGED wanted
  BY DEF Connect, GetLocalSession, GetSession, Connecting, FormatEnvvar, Quiet, StartTransfer,
         NoCommandRuns, MakeDirectory, CopyOne, CopyFails, CatFails, Rename, Copied, Owner, Keeps,
         sessionVars, sessionEnv, resourceFacts
<1>2. UNCHANGED last \/ last'.where = "nowhere"
  <2>1. CASE FormatEnvvar
    <3>1. last'.where = "nowhere"
      BY <2>1 DEF FormatEnvvar, NoCommand
    <3> QED  BY <3>1
  <2>2. CASE StartTransfer
    <3>1. last'.where = "nowhere"
      BY <2>2 DEF StartTransfer, NoCommand
    <3> QED  BY <3>1
  <2>3. CASE Connect \/ GetLocalSession \/ GetSession \/ UNCHANGED sessionVars
    BY <2>3 DEF Connect, GetLocalSession, GetSession, Connecting, sessionVars, sessionEnv
  <2>4. CASE \/ NoCommandRuns \/ MakeDirectory \/ CopyOne \/ CopyFails \/ CatFails
             \/ Rename \/ Copied \/ Owner
    BY <2>4 DEF NoCommandRuns, MakeDirectory, CopyOne, CopyFails, CatFails, Rename, Copied, Owner,
                Keeps, sessionEnv
  <2> QED  BY <2>1, <2>2, <2>3, <2>4
<1>3. DictionariesType' /\ PromiseKept'
  BY <1>1 DEF EnvironmentIInv, DictionariesType, PromiseKept, Removed
<1>4. SeesItsEnvironment'
  <2>1. CASE UNCHANGED last
    BY <1>1, <2>1 DEF EnvironmentIInv, SeesItsEnvironment
  <2>2. CASE last'.where = "nowhere"
    BY <2>2, NothingRan
  <2> QED  BY <1>2, <2>1, <2>2
<1> QED  BY <1>3, <1>4 DEF EnvironmentIInv

\* Every step keeps the promises.
LEMMA EnvironmentStep == EnvironmentIInv /\ [SessionsNext]_sessionVars => EnvironmentIInv'
BY CommandStep, SetStep, DropStep, QueryStep, SourceStep, OtherSteps DEF SessionsNext

\* What was promised is what the session gives to the next command.
THEOREM EnvironmentInvariant == SessionsSpec => []EnvironmentIInv
BY EnvironmentInitially, EnvironmentStep, PTL DEF SessionsSpec

\* A command sees of every variable what the calls before it had promised.
THEOREM SeesCorrect == SessionsSpec => []SeesItsEnvironment
<1>1. EnvironmentIInv => SeesItsEnvironment
  BY DEF EnvironmentIInv
<1> QED  BY <1>1, EnvironmentInvariant, PTL
-----------------------------------------------------------------------------
(* put and get *)

Parts == Leaves \cup {"."}
Contents == UNION {[ls -> {"source", "old", "part"}] : ls \in SUBSET Parts}
Results == {"none", "started", "copying", "copied", "exists", "failed", "done", "TypeError"}

FilesType ==
    /\ here \in [Names -> Node] /\ there \in [Names -> Node]
    /\ transfer \in [way : {"none", "put", "get"}, left : SUBSET Parts, unread : SUBSET Parts,
                     owner : {"none", "user and group", "user", "text"}, result : Results]

ControlType ==
    /\ access \in {"none", "password", "ONLINE", "CONNECTION ERROR", "nobody"}
    /\ query \in {"env -0", "perl"} /\ calls \in 0..MaxCalls

\* What is put and what is gotten are there, whole, and have the same parts.
SourcesWhole ==
    \A n \in {here["mine"], there["data"]} :
        n.is # "no" /\ DOMAIN n.has = DOMAIN there["data"].has
        /\ \A l \in DOMAIN n.has : n.has[l] = "source"

\* A file or directory that has arrived but for some parts, and what was unread.
HasAllBut(n, left) ==
    /\ n.is # "no"
    /\ \A l \in DOMAIN there["data"].has \ left :
          l \in DOMAIN n.has /\ (n.has[l] = "source" \/ l \in transfer.unread)

\* How far the transfer is.
Copying ==
    /\ transfer.result = "started" /\ transfer.way # "none" =>
           transfer.left = DOMAIN there["data"].has
    /\ transfer.result = "copying" =>
           /\ transfer.way # "none" /\ transfer.left \subseteq DOMAIN there["data"].has
           /\ HasAllBut(ArrivingNode, transfer.left)
    /\ transfer.result = "copied" => transfer.way # "none" /\ HasAllBut(Target, {})

TransferIInv == FilesType /\ ControlType /\ SourcesWhole /\ Copying /\ DoneIsWhole

\* The number of calls stays within its bound.
LEMMA CallsBound ==
    MaxCalls \in Nat /\ \A n \in 0..MaxCalls : n < MaxCalls => n + 1 \in 0..MaxCalls
BY SessionsAssumption

\* What a file or directory has is a function on some of the parts.
LEMMA ContentsFacts ==
    ASSUME NEW h
    PROVE  h \in Contents <=>
             /\ DOMAIN h \in SUBSET Parts /\ h = [l \in DOMAIN h |-> h[l]]
             /\ \A l \in DOMAIN h : h[l] \in {"source", "old", "part"}
BY DEF Contents

\* A kind and the contents make a file or directory, ...
LEMMA NodeFacts ==
    ASSUME NEW is \in {"no", "file", "dir"}, NEW has \in Contents
    PROVE  [is |-> is, has |-> has] \in Node
BY DEF Node, Contents, Parts

\* ... and it is nothing but these.
LEMMA NodeParts ==
    ASSUME NEW n \in Node
    PROVE  n = [is |-> n.is, has |-> n.has] /\ n.is \in {"no", "file", "dir"} /\ n.has \in Contents
BY DEF Node, Contents, Parts

\* What MakeDirectory makes, and what a file of which a part arrived is.
LEMMA SmallNodes ==
    /\ \A is \in {"no", "file", "dir"} : [is |-> is, has |-> Absent.has] \in Node
    /\ [is |-> "file", has |-> [l \in {"."} |-> "part"]] \in Node
    /\ Absent \in Node
<1>1. Absent.has \in Contents
  <2>1. Absent.has = [l \in {} |-> "old"]
    BY DEF Absent
  <2>2. PICK h : h = [l \in {} |-> "old"]
    OBVIOUS
  <2>3. DOMAIN h = {} /\ h = [l \in DOMAIN h |-> h[l]]
    BY <2>2
  <2>4. h \in Contents
    BY <2>3, ContentsFacts
  <2> QED  BY <2>1, <2>2, <2>4
<1>2. [l \in {"."} |-> "part"] \in Contents
  <2>1. PICK h : h = [l \in {"."} |-> "part"]
    OBVIOUS
  <2>2. DOMAIN h = {"."} /\ h = [l \in DOMAIN h |-> h[l]] /\ \A l \in DOMAIN h : h[l] = "part"
    BY <2>1
  <2>3. h \in Contents
    BY <2>2, ContentsFacts DEF Parts
  <2> QED  BY <2>1, <2>3
<1>3. Absent = [is |-> "no", has |-> Absent.has]
  BY DEF Absent
<1> QED  BY <1>1, <1>2, <1>3, NodeFacts

\* A tree from one place has all its parts from there.
LEMMA TreeNode ==
    ASSUME NEW kind \in {"file", "dir"}, NEW from \in {"source", "old"}
    PROVE  /\ Tree(kind, from) \in Node /\ Tree(kind, from).is = kind
           /\ DOMAIN Tree(kind, from).has = (IF kind = "file" THEN {"."} ELSE Leaves)
           /\ \A l \in DOMAIN Tree(kind, from).has : Tree(kind, from).has[l] = from
<1> DEFINE ls == IF kind = "file" THEN {"."} ELSE Leaves
<1>1. PICK h : h = [l \in ls |-> from]
  OBVIOUS
<1>2. DOMAIN h = ls /\ h = [l \in DOMAIN h |-> h[l]] /\ \A l \in DOMAIN h : h[l] = from
  BY <1>1
<1>3. h \in Contents
  BY <1>2, ContentsFacts DEF Parts
<1>4. Tree(kind, from) = [is |-> kind, has |-> h]
  BY <1>1 DEF Tree
<1> QED  BY <1>2, <1>3, <1>4, NodeFacts

\* At first nothing is under way, and both sources are whole.
LEMMA TransferInitially == SessionsInit => TransferIInv
<1> SUFFICES ASSUME SessionsInit PROVE TransferIInv  OBVIOUS
<1>1. PICK kind \in {"file", "dir"}, old \in BOOLEAN :
          /\ here = [n \in Names |-> IF n = "mine" THEN Tree(kind, "source")
                                     ELSE IF old THEN Tree(kind, "old") ELSE Absent]
          /\ there = [n \in Names |-> IF n = "data" THEN Tree(kind, "source")
                                      ELSE IF old THEN Tree(kind, "old") ELSE Absent]
  BY DEF SessionsInit
<1>2. /\ Tree(kind, "source") \in Node /\ Tree(kind, "old") \in Node /\ Absent \in Node
  BY TreeNode, SmallNodes
<1>3. here \in [Names -> Node] /\ there \in [Names -> Node]
  BY <1>1, <1>2
<1>4. transfer = NoTransfer
  BY DEF SessionsInit
<1>5. FilesType
  BY <1>3, <1>4 DEF FilesType, NoTransfer, Results
<1>6. ControlType
  <2>1. access = "none" /\ query = "env -0"
    BY DEF SessionsInit
  <2>2. calls \in 0..MaxCalls
    <3>1. calls = 0
      BY DEF SessionsInit
    <3> QED  BY <3>1, CallsBound
  <2> QED  BY <2>1, <2>2 DEF ControlType
<1>7. here["mine"] = Tree(kind, "source") /\ there["data"] = Tree(kind, "source")
  BY <1>1 DEF Names
<1>8. SourcesWhole
  BY <1>7, TreeNode DEF SourcesWhole
<1>9. Copying /\ DoneIsWhole
  BY <1>4 DEF NoTransfer, Copying, DoneIsWhole
<1> QED  BY <1>5, <1>6, <1>8, <1>9 DEF TransferIInv

\* Nothing but the target, or the name under which docker unpacks, is written.
LEMMA SetTargetFacts ==
    ASSUME FilesType, SourcesWhole, NEW name \in {"copy", "data"}, NEW node \in Node,
           transfer.way \in {"put", "get"}, transfer.way = "put" => name = "copy",
           SetTarget(name, node)
    PROVE  /\ here' \in [Names -> Node] /\ there' \in [Names -> Node]
           /\ here'["mine"] = here["mine"] /\ there'["data"] = there["data"] /\ SourcesWhole'
           /\ IF transfer.way = "put" THEN there'[name] = node ELSE here'[name] = node
<1>1. name \in Names /\ "mine" \in Names /\ "data" \in Names
  BY DEF Names
<1>2. CASE transfer.way = "put"
  <2>1. there' = [there EXCEPT ![name] = node] /\ UNCHANGED here
    BY <1>2 DEF SetTarget
  <2> QED  BY <1>1, <1>2, <2>1 DEF FilesType, SourcesWhole
<1>3. CASE transfer.way = "get"
  <2>1. here' = [here EXCEPT ![name] = node] /\ UNCHANGED there
    BY <1>3 DEF SetTarget
  <2> QED  BY <1>1, <1>3, <2>1 DEF FilesType, SourcesWhole
<1> QED  BY <1>2, <1>3

\* A step that changes neither a file nor what a command does to them.
LEMMA FilesStay ==
    ASSUME TransferIInv, UNCHANGED backend, UNCHANGED sessionFiles, ControlType'
    PROVE  TransferIInv'
<1>1. UNCHANGED here /\ UNCHANGED there /\ UNCHANGED transfer
  BY DEF sessionFiles
<1>2. FilesType' /\ SourcesWhole' /\ DoneIsWhole'
  BY <1>1 DEF TransferIInv, FilesType, SourcesWhole, DoneIsWhole
<1>3. ArrivingNode' = ArrivingNode /\ Target' = Target
  BY <1>1 DEF ArrivingNode, Unpacks, Target
<1>4. Copying'
  BY <1>1, <1>3 DEF TransferIInv, Copying, HasAllBut
<1> QED  BY <1>2, <1>4 DEF TransferIInv

\* A transfer that ends otherwise than in success.
LEMMA Stops ==
    ASSUME TransferIInv, NEW how \in {"exists", "failed", "TypeError"}, Ended(how),
           here' \in [Names -> Node], there' \in [Names -> Node], SourcesWhole', ControlType'
    PROVE  TransferIInv'
<1>1. transfer' \in [way : {"none", "put", "get"}, left : SUBSET Parts, unread : SUBSET Parts,
                     owner : {"none", "user and group", "user", "text"}, result : Results]
      /\ transfer'.result = how
  BY DEF TransferIInv, FilesType, Ended, Results
<1> QED  BY <1>1 DEF TransferIInv, FilesType, Copying, DoneIsWhole

\* connect() and get_session(), and the calls that are about the environment.
LEMMA CallSteps ==
    ASSUME TransferIInv,
           \/ Connect \/ GetLocalSession \/ GetSession \/ ExecuteCommand \/ SetEnvvar
           \/ DropEnvvar \/ FormatEnvvar \/ QueryEnvvars \/ SourceScript
           \/ UNCHANGED sessionVars
    PROVE  TransferIInv'
<1>1. UNCHANGED backend /\ UNCHANGED sessionFiles
  BY DEF Connect, GetLocalSession, GetSession, Connecting, ExecuteCommand, SetEnvvar, DropEnvvar,
         FormatEnvvar, QueryEnvvars, SourceScript, Quiet, sessionVars, resourceFacts
<1>2. access' \in {"none", "password", "ONLINE", "CONNECTION ERROR", "nobody"}
  BY DEF Connect, GetLocalSession, GetSession, Connecting, ExecuteCommand, SetEnvvar, DropEnvvar,
         FormatEnvvar, QueryEnvvars, SourceScript, Quiet, sessionVars, TransferIInv, ControlType
<1>3. query' \in {"env -0", "perl"}
  BY DEF Connect, GetLocalSession, GetSession, Connecting, ExecuteCommand, SetEnvvar, DropEnvvar,
         FormatEnvvar, QueryEnvvars, SourceScript, sessionVars, sessionEnv,
         TransferIInv, ControlType
<1>4. calls' \in 0..MaxCalls
  <2>1. calls \in 0..MaxCalls
    BY DEF TransferIInv, ControlType
  <2>2. CASE Connect \/ GetLocalSession \/ GetSession
    <3>1. UNCHANGED calls
      BY <2>2 DEF Connect, GetLocalSession, GetSession, Connecting
    <3> QED  BY <2>1, <3>1
  <2>3. CASE UNCHANGED sessionVars
    <3>1. UNCHANGED calls
      BY <2>3 DEF sessionVars
    <3> QED  BY <2>1, <3>1
  <2>4. CASE ExecuteCommand
    <3>1. calls' = MaxCalls
      BY <2>4 DEF ExecuteCommand, LastCall
    <3> QED  BY <3>1, CallsBound
  <2>5. CASE SetEnvvar \/ DropEnvvar \/ FormatEnvvar \/ QueryEnvvars \/ SourceScript
    <3>1. calls' = calls + 1 /\ calls < MaxCalls
      BY <2>5 DEF SetEnvvar, DropEnvvar, FormatEnvvar, QueryEnvvars, SourceScript, Call
    <3> QED  BY <2>1, <3>1, CallsBound
  <2> QED  BY <2>2, <2>3, <2>4, <2>5
<1> QED  BY <1>1, <1>2, <1>3, <1>4, FilesStay DEF ControlType

\* A transfer starts with every part of its source still to come.
LEMMA StartStep ==
    ASSUME TransferIInv, StartTransfer
    PROVE  TransferIInv'
<1>1. PICK w \in {"put", "get"}, owner \in {"none", "user and group", "user", "text"} :
          transfer' = [way |-> w, owner |-> owner, result |-> "started",
                       left |-> DOMAIN SourceOf(w).has, unread |-> {}]
  BY DEF StartTransfer
<1>2. UNCHANGED backend /\ UNCHANGED here /\ UNCHANGED there /\ UNCHANGED access /\ UNCHANGED query
      /\ calls' = calls + 1 /\ calls < MaxCalls
  BY DEF StartTransfer, resourceFacts
<1>3. DOMAIN SourceOf(w).has = DOMAIN there["data"].has
  BY DEF SourceOf, TransferIInv, SourcesWhole
<1>4. DOMAIN SourceOf(w).has \subseteq Parts
  <2>1. there["data"] \in Node
    BY DEF TransferIInv, FilesType, Names
  <2> QED  BY <1>3, <2>1, NodeParts, ContentsFacts
<1>5. FilesType'
  BY <1>1, <1>2, <1>4 DEF TransferIInv, FilesType, Results
<1>6. ControlType'
  <2>1. calls \in 0..MaxCalls
    BY DEF TransferIInv, ControlType
  <2>2. calls' \in 0..MaxCalls
    <3>1. calls' = calls + 1 /\ calls < MaxCalls
      BY <1>2
    <3> QED  BY <2>1, <3>1, CallsBound
  <2> QED  BY <1>2, <2>2 DEF TransferIInv, ControlType
<1>7. transfer'.result = "started" /\ transfer'.left = DOMAIN there'["data"].has
  BY <1>1, <1>2, <1>3
<1>8. Copying' /\ DoneIsWhole' /\ SourcesWhole'
  BY <1>2, <1>7 DEF TransferIInv, Copying, DoneIsWhole, SourcesWhole
<1> QED  BY <1>5, <1>6, <1>8 DEF TransferIInv

\* What Keeps leaves alone is all that is not the transfer or a file.
LEMMA KeepsControl ==
    ASSUME TransferIInv, Keeps
    PROVE  ControlType' /\ UNCHANGED backend
BY DEF TransferIInv, ControlType, Keeps, resourceFacts, sessionEnv

\* Where no command runs, the transfer fails and no source is touched.
LEMMA NoCommandStep ==
    ASSUME TransferIInv, NoCommandRuns
    PROVE  TransferIInv'
<1>1. Ended("failed") /\ ControlType' /\ transfer.way \in {"put", "get"}
  BY KeepsControl DEF NoCommandRuns, TransferIInv, FilesType
<1>2. CASE UNCHANGED <<here, there>>
  BY <1>1, <1>2, Stops DEF TransferIInv, FilesType, SourcesWhole
<1>3. CASE SetTarget("copy", IF Target.is = "dir" THEN Target
                             ELSE [is |-> "file", has |-> [l \in {"."} |-> "part"]])
  <2>1. Target \in Node
    BY DEF Target, TransferIInv, FilesType, Names
  <2>2. PICK node : node = IF Target.is = "dir" THEN Target
                           ELSE [is |-> "file", has |-> [l \in {"."} |-> "part"]]
    OBVIOUS
  <2>3. node \in Node /\ SetTarget("copy", node)
    BY <1>3, <2>1, <2>2, SmallNodes
  <2>4. here' \in [Names -> Node] /\ there' \in [Names -> Node] /\ SourcesWhole'
    BY <1>1, <2>3, SetTargetFacts DEF TransferIInv
  <2> QED  BY <1>1, <2>4, Stops
<1> QED  BY <1>2, <1>3 DEF NoCommandRuns

\* The node that a part arrives in, before and after it is written.
LEMMA Arrives ==
    ASSUME TransferIInv, transfer.way \in {"put", "get"}, NEW node \in Node,
           SetTarget(Arriving, node), UNCHANGED backend, transfer'.way = transfer.way
    PROVE  /\ here' \in [Names -> Node] /\ there' \in [Names -> Node]
           /\ there'["data"] = there["data"] /\ SourcesWhole' /\ ArrivingNode' = node
<1>1. Arriving \in {"copy", "data"} /\ (transfer.way = "put" => Arriving = "copy")
      /\ Arriving = (IF Unpacks THEN "data" ELSE "copy")
  BY DEF Arriving, Unpacks
<1>2. /\ here' \in [Names -> Node] /\ there' \in [Names -> Node]
      /\ there'["data"] = there["data"] /\ SourcesWhole'
      /\ IF transfer.way = "put" THEN there'[Arriving] = node ELSE here'[Arriving] = node
  BY <1>1, SetTargetFacts DEF TransferIInv
<1>3. ArrivingNode' = IF Unpacks THEN here'["data"]
                      ELSE IF transfer.way = "put" THEN there'["copy"] ELSE here'["copy"]
  BY DEF ArrivingNode, Target, Unpacks
<1> QED  BY <1>1, <1>2, <1>3 DEF Unpacks

\* The two ends of a transfer are files or directories.
LEMMA ArrivingIsNode ==
    ASSUME TransferIInv
    PROVE  ArrivingNode \in Node /\ Source \in Node /\ Source \in {here["mine"], there["data"]}
BY DEF ArrivingNode, Target, Source, SourceOf, TransferIInv, FilesType, Names

\* A directory is there for the parts to arrive in, or a file.
LEMMA MakeStep ==
    ASSUME TransferIInv, MakeDirectory
    PROVE  TransferIInv'
<1>1. /\ transfer.result = "started" /\ transfer.way \in {"put", "get"}
      /\ ControlType' /\ UNCHANGED backend
  BY KeepsControl DEF MakeDirectory, TransferIInv, FilesType
<1>2. CASE Ended("exists") /\ UNCHANGED <<here, there>>
  BY <1>1, <1>2, Stops DEF TransferIInv, FilesType, SourcesWhole
<1>3. CASE /\ transfer' = [transfer EXCEPT !.result = "copying"]
           /\ IF ArrivingNode.is = "no"
              THEN SetTarget(Arriving, [is |-> Source.is, has |-> Absent.has])
              ELSE UNCHANGED <<here, there>>
  <2>1. /\ transfer' \in [way : {"none", "put", "get"}, left : SUBSET Parts, unread : SUBSET Parts,
                           owner : {"none", "user and group", "user", "text"}, result : Results]
        /\ transfer'.result = "copying" /\ transfer'.way = transfer.way
        /\ transfer'.left = transfer.left /\ transfer'.unread = transfer.unread
    BY <1>3 DEF TransferIInv, FilesType, Results
  <2>2. transfer.left = DOMAIN there["data"].has
    BY <1>1 DEF TransferIInv, Copying
  <2>3. /\ here' \in [Names -> Node] /\ there' \in [Names -> Node]
        /\ there'["data"] = there["data"] /\ SourcesWhole' /\ ArrivingNode'.is # "no"
    <3>1. CASE ArrivingNode.is = "no"
      <4>1. Source.is # "no" /\ Source.is \in {"no", "file", "dir"}
        BY ArrivingIsNode, NodeParts DEF TransferIInv, SourcesWhole
      <4>2. PICK node \in Node : node = [is |-> Source.is, has |-> Absent.has]
        BY <4>1, SmallNodes
      <4>3. SetTarget(Arriving, node) /\ node.is # "no"
        BY <1>3, <3>1, <4>1, <4>2
      <4> QED  BY <1>1, <2>1, <4>3, Arrives
    <3>2. CASE ArrivingNode.is # "no"
      <4>1. UNCHANGED here /\ UNCHANGED there
        BY <1>3, <3>2
      <4>2. ArrivingNode' = ArrivingNode
        BY <1>1, <2>1, <4>1 DEF ArrivingNode, Target, Unpacks
      <4> QED  BY <3>2, <4>1, <4>2 DEF TransferIInv, FilesType, SourcesWhole
    <3> QED  BY <3>1, <3>2
  <2>4. Copying'
    BY <1>1, <2>1, <2>2, <2>3 DEF Copying, HasAllBut
  <2> QED  BY <1>1, <2>1, <2>3, <2>4 DEF TransferIInv, FilesType, DoneIsWhole
<1> QED  BY <1>2, <1>3 DEF MakeDirectory

\* A part that arrives, whole or not, leaves the others as they are.
LEMMA ReceivesPart ==
    ASSUME TransferIInv, transfer.way \in {"put", "get"}, NEW l \in Parts,
           NEW what \in {"source", "part"}, Receives(l, what),
           UNCHANGED backend, transfer'.way = transfer.way
    PROVE  /\ here' \in [Names -> Node] /\ there' \in [Names -> Node]
           /\ there'["data"] = there["data"] /\ SourcesWhole' /\ ArrivingNode'.is = ArrivingNode.is
           /\ l \in DOMAIN ArrivingNode'.has /\ ArrivingNode'.has[l] = what
           /\ \A x \in DOMAIN ArrivingNode.has \ {l} :
                  x \in DOMAIN ArrivingNode'.has /\ ArrivingNode'.has[x] = ArrivingNode.has[x]
<1>1. PICK n \in Node : n = ArrivingNode
  BY ArrivingIsNode
<1>2. PICK h : h = [x \in DOMAIN n.has \cup {l} |-> IF x = l THEN what ELSE n.has[x]]
  OBVIOUS
<1>3. n = [is |-> n.is, has |-> n.has] /\ n.is \in {"no", "file", "dir"} /\ n.has \in Contents
  BY NodeParts
<1>4. /\ DOMAIN h = DOMAIN n.has \cup {l} /\ h[l] = what
      /\ h = [x \in DOMAIN h |-> h[x]] /\ \A x \in DOMAIN n.has \ {l} : h[x] = n.has[x]
  BY <1>2
<1>5. h \in Contents
  BY <1>3, <1>4, ContentsFacts
<1>6. PICK node \in Node : node = [is |-> n.is, has |-> h]
  BY <1>3, <1>5, NodeFacts
<1>7. [n EXCEPT !.has = h] = node
  BY <1>3, <1>6
<1>8. SetTarget(Arriving, node)
  BY <1>1, <1>2, <1>7 DEF Receives
<1>9. /\ here' \in [Names -> Node] /\ there' \in [Names -> Node]
      /\ there'["data"] = there["data"] /\ SourcesWhole' /\ ArrivingNode' = node
  BY <1>8, Arrives
<1> QED  BY <1>1, <1>4, <1>6, <1>9

\* A part of the source arrives whole.
LEMMA CopyOneStep ==
    ASSUME TransferIInv, CopyOne
    PROVE  TransferIInv'
<1>1. PICK l \in transfer.left :
          Receives(l, Source.has[l]) /\ transfer' = [transfer EXCEPT !.left = @ \ {l}]
  BY DEF CopyOne
<1>2. /\ transfer.result = "copying" /\ transfer.way \in {"put", "get"} /\ l \in Parts
      /\ l \in DOMAIN there["data"].has /\ HasAllBut(ArrivingNode, transfer.left)
      /\ transfer.left \subseteq DOMAIN there["data"].has
  BY <1>1 DEF CopyOne, TransferIInv, FilesType, Copying
<1>3. Source.has[l] = "source"
  BY <1>2, ArrivingIsNode DEF TransferIInv, SourcesWhole
<1>4. /\ transfer' \in [way : {"none", "put", "get"}, left : SUBSET Parts, unread : SUBSET Parts,
                         owner : {"none", "user and group", "user", "text"}, result : Results]
      /\ transfer'.result = "copying" /\ transfer'.way = transfer.way
      /\ transfer'.left = transfer.left \ {l} /\ transfer'.unread = transfer.unread
  BY <1>1, <1>2 DEF TransferIInv, FilesType
<1>5. ControlType' /\ UNCHANGED backend
  BY KeepsControl DEF CopyOne
<1>6. /\ here' \in [Names -> Node] /\ there' \in [Names -> Node]
      /\ there'["data"] = there["data"] /\ SourcesWhole' /\ ArrivingNode'.is = ArrivingNode.is
      /\ l \in DOMAIN ArrivingNode'.has /\ ArrivingNode'.has[l] = "source"
      /\ \A x \in DOMAIN ArrivingNode.has \ {l} :
             x \in DOMAIN ArrivingNode'.has /\ ArrivingNode'.has[x] = ArrivingNode.has[x]
  BY <1>1, <1>2, <1>3, <1>4, <1>5, ReceivesPart
<1>7. ASSUME NEW x \in DOMAIN there["data"].has \ (transfer.left \ {l})
      PROVE  /\ x \in DOMAIN ArrivingNode'.has
             /\ ArrivingNode'.has[x] = "source" \/ x \in transfer'.unread
  <2>1. CASE x = l
    BY <1>6, <2>1
  <2>2. CASE x # l
    BY <1>2, <1>4, <1>6, <2>2 DEF HasAllBut
  <2> QED  BY <2>1, <2>2
<1>8. HasAllBut(ArrivingNode, transfer.left)'
  BY <1>2, <1>4, <1>6, <1>7 DEF HasAllBut
<1>9. Copying'
  BY <1>2, <1>4, <1>6, <1>8 DEF Copying
<1> QED  BY <1>4, <1>5, <1>6, <1>9 DEF TransferIInv, FilesType, DoneIsWhole

\* A part that nobody could read counts as copied.
LEMMA CatFailsStep ==
    ASSUME TransferIInv, CatFails
    PROVE  TransferIInv'
<1>1. PICK l \in transfer.left :
          /\ Receives(l, "part")
          /\ transfer' = [transfer EXCEPT !.left = @ \ {l}, !.unread = @ \cup {l}]
  BY DEF CatFails
<1>2. /\ transfer.result = "copying" /\ transfer.way \in {"put", "get"} /\ l \in Parts
      /\ HasAllBut(ArrivingNode, transfer.left) /\ transfer.left \subseteq DOMAIN there["data"].has
  BY <1>1 DEF CatFails, TransferIInv, FilesType, Copying
<1>3. /\ transfer' \in [way : {"none", "put", "get"}, left : SUBSET Parts, unread : SUBSET Parts,
                         owner : {"none", "user and group", "user", "text"}, result : Results]
      /\ transfer'.result = "copying" /\ transfer'.way = transfer.way
      /\ transfer'.left = transfer.left \ {l} /\ transfer'.unread = transfer.unread \cup {l}
  BY <1>1, <1>2 DEF TransferIInv, FilesType
<1>4. ControlType' /\ UNCHANGED backend
  BY KeepsControl DEF CatFails
<1>5. /\ here' \in [Names -> Node] /\ there' \in [Names -> Node]
      /\ there'["data"] = there["data"] /\ SourcesWhole' /\ ArrivingNode'.is = ArrivingNode.is
      /\ l \in DOMAIN ArrivingNode'.has
      /\ \A x \in DOMAIN ArrivingNode.has \ {l} :
             x \in DOMAIN ArrivingNode'.has /\ ArrivingNode'.has[x] = ArrivingNode.has[x]
  BY <1>1, <1>2, <1>3, <1>4, ReceivesPart
<1>6. ASSUME NEW x \in DOMAIN there["data"].has \ (transfer.left \ {l})
      PROVE  /\ x \in DOMAIN ArrivingNode'.has
             /\ ArrivingNode'.has[x] = "source" \/ x \in transfer'.unread
  <2>1. CASE x = l
    BY <1>3, <1>5, <2>1
  <2>2. CASE x # l
    BY <1>2, <1>3, <1>5, <2>2 DEF HasAllBut
  <2> QED  BY <2>1, <2>2
<1>7. HasAllBut(ArrivingNode, transfer.left)'
  BY <1>2, <1>3, <1>5, <1>6 DEF HasAllBut
<1>8. Copying'
  BY <1>2, <1>3, <1>5, <1>7 DEF Copying
<1> QED  BY <1>3, <1>4, <1>5, <1>8 DEF TransferIInv, FilesType, DoneIsWhole

\* A part that does not arrive ends the transfer with an error.
LEMMA CopyFailsStep ==
    ASSUME TransferIInv, CopyFails
    PROVE  TransferIInv'
<1>1. PICK l \in transfer.left : Receives(l, "part")
  BY DEF CopyFails
<1>2. transfer.result = "copying" /\ transfer.way \in {"put", "get"} /\ l \in Parts
  BY <1>1 DEF CopyFails, TransferIInv, FilesType, Copying
<1>3. ControlType' /\ UNCHANGED backend /\ Ended("failed")
  BY KeepsControl DEF CopyFails
<1>4. PICK n \in Node : n = ArrivingNode
  BY ArrivingIsNode
<1>5. PICK h : h = [x \in DOMAIN n.has \cup {l} |-> IF x = l THEN "part" ELSE n.has[x]]
  OBVIOUS
<1>6. n = [is |-> n.is, has |-> n.has] /\ n.is \in {"no", "file", "dir"} /\ n.has \in Contents
  BY NodeParts
<1>7. /\ DOMAIN h = DOMAIN n.has \cup {l} /\ h = [x \in DOMAIN h |-> h[x]]
      /\ h[l] = "part" /\ \A x \in DOMAIN n.has \ {l} : h[x] = n.has[x]
  BY <1>5
<1>8. h \in Contents
  BY <1>2, <1>6, <1>7, ContentsFacts
<1>9. PICK node \in Node : node = [is |-> n.is, has |-> h]
  BY <1>6, <1>8, NodeFacts
<1>10. [n EXCEPT !.has = h] = node
  BY <1>6, <1>9
<1>11. SetTarget(Arriving, node)
  BY <1>1, <1>4, <1>5, <1>10 DEF Receives
<1>12. Arriving \in {"copy", "data"} /\ (transfer.way = "put" => Arriving = "copy")
  BY DEF Arriving, Unpacks
<1>13. here' \in [Names -> Node] /\ there' \in [Names -> Node] /\ SourcesWhole'
  BY <1>2, <1>11, <1>12, SetTargetFacts DEF TransferIInv
<1> QED  BY <1>3, <1>13, Stops

\* docker's file gets the name it was to have; the others have it.
LEMMA CopiedSteps ==
    ASSUME TransferIInv, Rename \/ Copied
    PROVE  TransferIInv'
<1>1. /\ transfer.result = "copying" /\ transfer.left = {} /\ transfer.way \in {"put", "get"}
      /\ HasAllBut(ArrivingNode, {}) /\ ControlType' /\ UNCHANGED backend /\ UNCHANGED there
  BY KeepsControl DEF Rename, Copied, TransferIInv, FilesType, Copying
<1>2. CASE Copied
  <2>1. transfer' = [transfer EXCEPT !.result = "copied"] /\ UNCHANGED here /\ ~Unpacks
    BY <1>2 DEF Copied
  <2>2. /\ transfer' \in [way : {"none", "put", "get"}, left : SUBSET Parts, unread : SUBSET Parts,
                           owner : {"none", "user and group", "user", "text"}, result : Results]
        /\ transfer'.result = "copied" /\ transfer'.way = transfer.way
        /\ transfer'.unread = transfer.unread
    BY <2>1 DEF TransferIInv, FilesType, Results
  <2>3. HasAllBut(Target, {})'
    BY <1>1, <2>1, <2>2 DEF HasAllBut, ArrivingNode, Target
  <2>4. Copying' /\ DoneIsWhole'
    BY <1>1, <2>2, <2>3 DEF Copying, DoneIsWhole
  <2> QED  BY <1>1, <2>1, <2>2, <2>4 DEF TransferIInv, FilesType, SourcesWhole
<1>3. CASE Rename /\ here["copy"].is = "dir"
  <2>1. Ended("failed") /\ UNCHANGED here
    BY <1>3 DEF Rename
  <2> QED  BY <1>1, <2>1, Stops DEF TransferIInv, FilesType, SourcesWhole
<1>4. CASE Rename /\ here["copy"].is # "dir"
  <2>1. /\ here' = [here EXCEPT !["copy"] = here["data"], !["data"] = Absent]
        /\ transfer' = [transfer EXCEPT !.result = "copied"] /\ Unpacks
    BY <1>4 DEF Rename
  <2>2. /\ transfer' \in [way : {"none", "put", "get"}, left : SUBSET Parts, unread : SUBSET Parts,
                           owner : {"none", "user and group", "user", "text"}, result : Results]
        /\ transfer'.result = "copied" /\ transfer'.way = "get"
        /\ transfer'.unread = transfer.unread
    BY <2>1 DEF TransferIInv, FilesType, Results, Unpacks
  <2>3. /\ here' \in [Names -> Node] /\ here'["mine"] = here["mine"] /\ here'["copy"] = here["data"]
    BY <2>1, SmallNodes DEF TransferIInv, FilesType, Names
  <2>4. HasAllBut(Target, {})'
    <3>1. ArrivingNode = here["data"] /\ Target' = here'["copy"] /\ there' = there
      BY <1>1, <2>1, <2>2 DEF ArrivingNode, Target
    <3> QED  BY <1>1, <2>2, <2>3, <3>1 DEF HasAllBut
  <2>5. Copying' /\ DoneIsWhole'
    BY <1>1, <2>2, <2>4 DEF Copying, DoneIsWhole
  <2>6. there' = there
    BY <1>1
  <2>7. FilesType'
    BY <2>2, <2>3, <2>6 DEF TransferIInv, FilesType
  <2>8. SourcesWhole'
    BY <2>3, <2>6 DEF TransferIInv, SourcesWhole
  <2> QED  BY <1>1, <2>5, <2>7, <2>8 DEF TransferIInv
<1> QED  BY <1>2, <1>3, <1>4

\* chown is the last of a transfer: what is done then was all copied.
LEMMA OwnerStep ==
    ASSUME TransferIInv, Owner
    PROVE  TransferIInv'
<1>1. /\ HasAllBut(Target, {}) /\ transfer.way \in {"put", "get"}
      /\ ControlType' /\ UNCHANGED <<here, there>>
  BY KeepsControl DEF Owner, TransferIInv, FilesType, Copying
<1>2. CASE \E how \in {"failed", "TypeError"} : Ended(how)
  BY <1>1, <1>2, Stops DEF TransferIInv, FilesType, SourcesWhole
<1>3. CASE Ended("done")
  <2>1. /\ transfer' \in [way : {"none", "put", "get"}, left : SUBSET Parts, unread : SUBSET Parts,
                           owner : {"none", "user and group", "user", "text"}, result : Results]
        /\ transfer'.result = "done" /\ transfer'.unread = transfer.unread
    BY <1>3 DEF TransferIInv, FilesType, Results, Ended
  <2>2. Target \in {here["copy"], there["copy"]}
    BY DEF Target
  <2>3. DoneIsWhole'
    BY <1>1, <2>1, <2>2 DEF DoneIsWhole, HasAllBut
  <2> QED  BY <1>1, <2>1, <2>3 DEF TransferIInv, FilesType, SourcesWhole, Copying
<1> QED  BY <1>2, <1>3 DEF Owner

\* Every step keeps what is known of the transfer.
LEMMA TransferStep == TransferIInv /\ [SessionsNext]_sessionVars => TransferIInv'
BY CallSteps, StartStep, NoCommandStep, MakeStep, CopyOneStep, CopyFailsStep, CatFailsStep,
   CopiedSteps, OwnerStep
   DEF SessionsNext

\* While it is copied, the target has all but the parts that are left.
THEOREM TransferInvariant == SessionsSpec => []TransferIInv
BY TransferInitially, TransferStep, PTL DEF SessionsSpec

\* A transfer that ends without an error has brought the source, whole, but for what
\* a put of singularity could not read.
THEOREM TransferCorrect == SessionsSpec => []DoneIsWhole
<1>1. TransferIInv => DoneIsWhole
  BY DEF TransferIInv
<1> QED  BY <1>1, TransferInvariant, PTL

\* Every variable keeps its type.
THEOREM SessionsType == SessionsSpec => []SessionsTypeOK
<1>1. EnvironmentIInv /\ TransferIInv => SessionsTypeOK
  <2> SUFFICES ASSUME EnvironmentIInv, TransferIInv PROVE SessionsTypeOK  OBVIOUS
  <2>1. DOMAIN env \subseteq Variables /\ DOMAIN permanent \subseteq Variables
    BY DictionaryFacts DEF EnvironmentIInv, DictionariesType
  <2>2. \A n \in Names : here[n] \in Node /\ there[n] \in Node
    BY DEF TransferIInv, FilesType
  <2>3. transfer.way \in {"none", "put", "get"}
    BY DEF TransferIInv, FilesType
  <2>4. ControlType
    BY DEF TransferIInv
  <2> QED  BY <2>1, <2>2, <2>3, <2>4 DEF SessionsTypeOK, ControlType
<1> QED  BY <1>1, EnvironmentInvariant, TransferInvariant, PTL
-----------------------------------------------------------------------------
(* A traced command *)


\* A trace is that of a command with its ID, whose program ran.
TracesHaveOwners ==
    \A p \in Places, i \in ExecIds :
        trace[p][i] \in Users => id[trace[p][i]] = i /\ ran[trace[p][i]]

\* What a report describes was a trace under the ID of its command.
ReportsHaveTraces ==
    \A c \in Users :
        doing[c] = "done" =>
            described[c] \in Users /\ id[described[c]] = id[c] /\ ran[described[c]]

TracedIInv == TracedTypeOK /\ TracesHaveOwners /\ ReportsHaveTraces

\* The invariant holds at first.
LEMMA TracedInitially == TracedInit => TracedIInv
<1> SUFFICES ASSUME TracedInit PROVE TracedIInv  OBVIOUS
<1>1. TracedTypeOK
  BY DEF TracedInit, TracedTypeOK, Content, Places, Step
<1>2. TracesHaveOwners
  BY TracedAssumption DEF TracedInit, TracesHaveOwners
<1>3. ReportsHaveTraces
  BY DEF TracedInit, ReportsHaveTraces
<1> QED  BY <1>1, <1>2, <1>3 DEF TracedIInv

\* Where a command is in its sequence of steps is all that Moves changes.
LEMMA MovesType ==
    ASSUME TracedTypeOK, NEW c \in Users, NEW from, NEW to \in Step, Moves(c, from, to)
    PROVE  /\ doing' \in [Users -> Step] /\ doing'[c] = to
           /\ \A d \in Users \ {c} : doing'[d] = doing[d]
BY DEF TracedTypeOK, Moves

\* The steps that change neither a trace nor a report, and do not end in "done",
\* need no more than their types.
LEMMA QuietSteps ==
    ASSUME TracedIInv, NEW c \in Users, TracedTypeOK',
           UNCHANGED <<trace, id, ran, described>>,
           \A d \in Users : doing'[d] = "done" => doing[d] = "done"
    PROVE  TracedIInv'
BY DEF TracedIInv, TracesHaveOwners, ReportsHaveTraces

LEMMA OnlyMovesType ==
    ASSUME TracedTypeOK, NEW c \in Users, NEW from, NEW to \in Step, Moves(c, from, to), OnlyMoves
    PROVE  TracedTypeOK'
BY MovesType DEF TracedTypeOK, OnlyMoves, cacheVars

\* What goes on in the local cache, and before the directories of the trace
\* are made, touches no trace.
LEMMA LocalSteps ==
    ASSUME TracedIInv, NEW c \in Users,
           FindLocal(c) \/ Download(c) \/ OpenLocal(c) \/ WriteLocal(c)
    PROVE  TracedIInv'
<1> USE DEF TracedIInv
<1>1. CASE FindLocal(c)
  <2>1. TracedTypeOK'
    BY <1>1, OnlyMovesType DEF FindLocal, Step
  <2> QED  BY <1>1, <2>1, QuietSteps, MovesType DEF FindLocal, OnlyMoves, cacheVars, Step
<1>2. CASE Download(c)
  <2>1. TracedTypeOK'
    BY <1>2, OnlyMovesType DEF Download, Step
  <2> QED  BY <1>2, <2>1, QuietSteps, MovesType DEF Download, OnlyMoves, cacheVars, Step
<1>3. CASE OpenLocal(c)
  <2>1. TracedTypeOK'
    BY <1>3, MovesType DEF OpenLocal, Cached, TracedTypeOK, Step, Content, Places
  <2> QED  BY <1>3, <2>1, QuietSteps, MovesType DEF OpenLocal, Cached, Step
<1>4. CASE WriteLocal(c)
  <2>1. TracedTypeOK'
    BY <1>4, MovesType DEF WriteLocal, Cached, TracedTypeOK, Step, Content, Places
  <2> QED  BY <1>4, <2>1, QuietSteps, MovesType DEF WriteLocal, Cached, Step
<1> QED  BY <1>1, <1>2, <1>3, <1>4

\* A directory that is made holds no trace.
LEMMA DirectoryStep ==
    ASSUME TracedIInv, NEW c \in Users, MakeDirectories(c)
    PROVE  TracedIInv'
<1> USE DEF TracedIInv
<1>1. There \in Places
  BY DEF There, Places
<1>2. TracedTypeOK'
  BY <1>1, MovesType DEF MakeDirectories, TracedTypeOK, Step, Places
<1>3. \A p \in Places, i \in ExecIds : trace'[p][i] \in Users => trace'[p][i] = trace[p][i]
  BY <1>1, TracedAssumption DEF MakeDirectories, TracedTypeOK
<1>4. TracesHaveOwners'
  BY <1>3 DEF TracesHaveOwners, MakeDirectories
<1>5. ReportsHaveTraces'
  BY MovesType DEF ReportsHaveTraces, MakeDirectories, Step
<1> QED  BY <1>2, <1>4, <1>5

\* Bringing the tracer to the resource and unpacking it there touches no trace.
LEMMA RemoteSteps ==
    ASSUME TracedIInv, NEW c \in Users,
           \/ FindTracer(c) \/ FindRemoteGz(c) \/ PutGz(c)
           \/ Truncate(c) \/ Unpack(c) \/ Chmod(c) \/ PutShim(c)
    PROVE  TracedIInv'
<1> USE DEF TracedIInv
<1>0. There \in Places
  BY DEF There, Places
<1>1. CASE FindTracer(c)
  <2>1. TracedTypeOK'
    BY <1>1, OnlyMovesType DEF FindTracer, Step
  <2> QED  BY <1>1, <2>1, QuietSteps, MovesType DEF FindTracer, OnlyMoves, cacheVars, Step
<1>2. CASE FindRemoteGz(c)
  <2>1. TracedTypeOK'
    BY <1>2, OnlyMovesType DEF FindRemoteGz, Step
  <2> QED  BY <1>2, <2>1, QuietSteps, MovesType DEF FindRemoteGz, OnlyMoves, cacheVars, Step
<1>3. CASE PutGz(c)
  <2>1. TracedTypeOK'
    BY <1>3, MovesType DEF PutGz, Cached, TracedTypeOK, Step, Content, Places
  <2> QED  BY <1>3, <2>1, QuietSteps, MovesType DEF PutGz, Cached, Step
<1>4. CASE Truncate(c)
  <2>1. TracedTypeOK'
    BY <1>4, MovesType DEF Truncate, TracedTypeOK, Step, Content
  <2> QED  BY <1>4, <2>1, QuietSteps, MovesType DEF Truncate, Step
<1>5. CASE Unpack(c)
  <2>1. tracer' \in [is : Content, x : BOOLEAN]
    BY <1>5 DEF Unpack, TracedTypeOK, Content
  <2>2. TracedTypeOK'
    BY <1>5, <2>1, MovesType DEF Unpack, TracedTypeOK, Step
  <2> QED  BY <1>5, <2>2, QuietSteps, MovesType DEF Unpack, Step
<1>6. CASE Chmod(c)
  <2>1. TracedTypeOK'
    BY <1>6, MovesType DEF Chmod, TracedTypeOK, Step
  <2> QED  BY <1>6, <2>1, QuietSteps, MovesType DEF Chmod, Step
<1>7. CASE PutShim(c)
  <2>1. TracedTypeOK'
    BY <1>7, OnlyMovesType DEF PutShim, Step
  <2> QED  BY <1>7, <2>1, QuietSteps, MovesType DEF PutShim, OnlyMoves, cacheVars, Step
<1> QED  BY <1>1, <1>2, <1>3, <1>4, <1>5, <1>6, <1>7

\* A program that runs under the tracer leaves its trace under its own ID.
LEMMA ExecuteStep ==
    ASSUME TracedIInv, NEW c \in Users, ExecuteTraced(c)
    PROVE  TracedIInv'
<1> USE DEF TracedIInv
<1>1. There \in Places
  BY DEF There, Places
<1>2. TracedTypeOK'
  <2>1. code' \in [Users -> {"none", "ok", "error"}] /\ ran' \in [Users -> BOOLEAN]
    BY DEF ExecuteTraced, TracedTypeOK
  <2>2. trace' \in [Places -> [ExecIds -> {"none", NoTrace} \cup Users]]
    BY <1>1 DEF ExecuteTraced, TracedTypeOK
  <2> QED  BY <2>1, <2>2, MovesType DEF ExecuteTraced, TracedTypeOK, Step
<1>3. \A d \in Users : ran[d] => ran'[d]
  BY DEF ExecuteTraced, TracedTypeOK
<1>4. \A p \in Places, i \in ExecIds :
          trace'[p][i] \in Users =>
              \/ trace'[p][i] = trace[p][i]
              \/ trace'[p][i] = c /\ i = id[c] /\ ran'[c]
  BY <1>1 DEF ExecuteTraced, TracedTypeOK
<1>5. TracesHaveOwners'
  BY <1>3, <1>4 DEF TracesHaveOwners, ExecuteTraced
<1>6. ReportsHaveTraces'
  BY <1>3, MovesType DEF ReportsHaveTraces, ExecuteTraced, Step
<1> QED  BY <1>2, <1>5, <1>6

\* A trace is fetched under the ID that it had on the resource, and a report is
\* written of what is under the ID of its command.
LEMMA CollectSteps ==
    ASSUME TracedIInv, NEW c \in Users,
           Collect(c) \/ GetTrace(c) \/ WriteReport(c) \/ KillTraced(c)
    PROVE  TracedIInv'
<1> USE DEF TracedIInv
<1>1. CASE Collect(c)
  <2>1. TracedTypeOK'
    BY <1>1, OnlyMovesType DEF Collect, Step
  <2> QED  BY <1>1, <2>1, QuietSteps, MovesType DEF Collect, OnlyMoves, cacheVars, Step
<1>2. CASE GetTrace(c)
  <2>1. TracedTypeOK'
    <3>1. trace' \in [Places -> [ExecIds -> {"none", NoTrace} \cup Users]]
      BY <1>2 DEF GetTrace, TracedTypeOK, Places
    <3> QED  BY <1>2, <3>1, MovesType DEF GetTrace, TracedTypeOK, Step
  <2>2. \A p \in Places, i \in ExecIds :
            trace'[p][i] \in Users =>
                trace'[p][i] = trace[p][i] \/ trace'[p][i] = trace["there"][i]
    BY <1>2, TracedAssumption DEF GetTrace, TracedTypeOK, Places
  <2>3. TracesHaveOwners'
    BY <1>2, <2>2 DEF TracesHaveOwners, GetTrace, Places
  <2>4. ReportsHaveTraces'
    BY <1>2, MovesType DEF ReportsHaveTraces, GetTrace, Step
  <2> QED  BY <2>1, <2>3, <2>4
<1>3. CASE WriteReport(c)
  <2>1. TracedTypeOK'
    BY <1>3, MovesType DEF WriteReport, TracedTypeOK, cacheVars, Step, Places
  <2>2. TracesHaveOwners'
    BY <1>3 DEF TracesHaveOwners, WriteReport, cacheVars
  <2>3. ReportsHaveTraces'
    BY <1>3, MovesType DEF ReportsHaveTraces, TracesHaveOwners, WriteReport, cacheVars,
       TracedTypeOK, Places, Step
  <2> QED  BY <2>1, <2>2, <2>3
<1>4. CASE KillTraced(c)
  <2>1. doing' \in [Users -> Step] /\ \A d \in Users : doing'[d] = "done" => doing[d] = "done"
    BY <1>4 DEF KillTraced, TracedTypeOK, Step
  <2>2. TracedTypeOK'
    BY <1>4, <2>1 DEF KillTraced, Cached, TracedTypeOK, Content, Places
  <2> QED  BY <1>4, <2>1, <2>2, QuietSteps DEF KillTraced, Cached
<1> QED  BY <1>1, <1>2, <1>3, <1>4

\* Every step keeps the invariant.
LEMMA TracedStep == TracedIInv /\ [TracedNext]_tracedVars => TracedIInv'
<1> SUFFICES ASSUME TracedIInv, [TracedNext]_tracedVars PROVE TracedIInv'  OBVIOUS
<1>1. CASE TracedNext
  BY <1>1, LocalSteps, DirectoryStep, RemoteSteps, ExecuteStep, CollectSteps DEF TracedNext
<1>2. CASE UNCHANGED tracedVars
  BY <1>2 DEF TracedIInv, TracedTypeOK, TracesHaveOwners, ReportsHaveTraces,
     tracedVars, cacheVars, userVars
<1> QED  BY <1>1, <1>2

\* The invariant holds of every reachable state.
THEOREM TracedInvariant == TracedSpec => []TracedIInv
BY TracedInitially, TracedStep, PTL DEF TracedSpec

\* Every variable keeps its type, for any commands and IDs.
THEOREM TracedType == TracedSpec => []TracedTypeOK
<1>1. TracedIInv => TracedTypeOK
  BY DEF TracedIInv
<1> QED  BY <1>1, TracedInvariant, PTL

\* However many commands share a cache and a resource, one that is done ran its
\* program under the tracer and reports that program's trace, or shares its ID
\* with another (TracedCommand).
THEOREM TracedCorrect == TracedSpec => []DoneIsTraced
<1>1. TracedIInv => DoneIsTraced
  BY DEF TracedIInv, ReportsHaveTraces, DoneIsTraced
<1> QED  BY <1>1, TracedInvariant, PTL
-----------------------------------------------------------------------------
(***************************************************************************)
(* The local head.                                                         *)
(***************************************************************************)
Stage == {"idle", "get", "extract", "unlink", "commit", "ref", "restore", "merge", "done"}
Branch == LocalBranch \cup {Detached}

\* The types, with those that the type invariant of the run leaves out.
Shape ==
    /\ LocalHeadTypeOK
    /\ stage \in [Fetched -> Stage] /\ way \in [Fetched -> {"run", "pair"}]
    /\ ref = [j \in Fetched |-> ref[j]] /\ submittedAt = [j \in Fetched |-> submittedAt[j]]
    /\ toRestore = [j \in Fetched |-> toRestore[j]] /\ tips = [b \in LocalBranch |-> tips[b]]
    /\ \A j \in Fetched :
          /\ moved[j] => way[j] = "run" /\ toRestore[j].to \in Branch
          /\ stage[j] = "merge" => way[j] = "pair"
          /\ stage[j] \notin {"idle", "merge", "done"} => way[j] = "run"
          /\ submittedAt[j] = Unknown => ref[j] = Unknown /\ stage[j] = "idle"

Alone == \A j, k \in UnderWay : j = k
HeadKept ==
    /\ UnderWay = {} => active = own
    /\ \A j \in UnderWay : IF moved[j] THEN toRestore[j].to = own ELSE active = own
ContentOf(j) ==
    /\ stage[j] \in {"get", "extract", "unlink", "commit"} => current = submittedAt[j]
    /\ stage[j] = "get" => loose = {}
    /\ stage[j] = "extract" => loose = {Tarball(j)}
    /\ stage[j] = "unlink" => loose = {Tarball(j)} \cup ({j} \ current)
    /\ stage[j] = "commit" => loose = {j} \ current
    /\ stage[j] = "ref" => current = submittedAt[j] \cup {j}
Worktree == \A j \in Fetched : ContentOf(j)
RefsRight == \A j \in Fetched : ref[j] # Unknown => ref[j] = submittedAt[j] \cup {j}

LocalHeadIInv == Shape /\ (~disturbed => Alone /\ HeadKept /\ Worktree /\ RefsRight)

\* The invariant holds at first.
LEMMA LocalHeadInitially == LocalHeadInit => LocalHeadIInv
<1> SUFFICES ASSUME LocalHeadInit PROVE LocalHeadIInv  OBVIOUS
<1>1. Shape
  <2>1. LocalHeadTypeOK
    <3>1. edits \in 0..MaxEdits
      BY LocalHeadAssumption DEF LocalHeadInit
    <3>2. active # Detached => current = tips[active]
      BY DEF LocalHeadInit
    <3>3. moved \in [Fetched -> BOOLEAN] /\ disturbed \in BOOLEAN
      BY DEF LocalHeadInit
    <3> QED  BY <3>1, <3>2, <3>3 DEF LocalHeadInit, LocalHeadTypeOK
  <2>2. /\ stage \in [Fetched -> Stage] /\ way \in [Fetched -> {"run", "pair"}]
        /\ ref = [j \in Fetched |-> ref[j]] /\ submittedAt = [j \in Fetched |-> submittedAt[j]]
        /\ toRestore = [j \in Fetched |-> toRestore[j]] /\ tips = [b \in LocalBranch |-> tips[b]]
    BY DEF LocalHeadInit, Stage
  <2>3. \A j \in Fetched : ~moved[j] /\ stage[j] = "idle" /\ ref[j] = Unknown
    BY DEF LocalHeadInit
  <2> QED  BY <2>1, <2>2, <2>3 DEF Shape
<1>2. UnderWay = {}
  BY DEF LocalHeadInit, UnderWay
<1>3. HeadKept /\ Alone
  BY <1>2 DEF LocalHeadInit, HeadKept, Alone
<1>4. Worktree /\ RefsRight
  BY DEF LocalHeadInit, Worktree, ContentOf, RefsRight
<1> QED  BY <1>1, <1>3, <1>4 DEF LocalHeadIInv

\* Where a fetch is in its sequence of steps is all that Goes changes.
LEMMA GoesStage ==
    ASSUME Shape, NEW j \in Fetched, NEW from, NEW to \in Stage, Goes(j, from, to)
    PROVE  /\ stage' \in [Fetched -> Stage] /\ stage[j] = from /\ stage'[j] = to
           /\ \A k \in Fetched \ {j} : stage'[k] = stage[k]
BY DEF Shape, Goes

\* A commit on what is checked out.
LEMMA AdvanceType ==
    ASSUME Shape, NEW commit, Advance(commit), active' = active
    PROVE  /\ tips' = [b \in LocalBranch |-> tips'[b]] /\ current' = commit
           /\ active' # Detached => current' = tips'[active']
BY DEF Shape, Advance, LocalHeadTypeOK

\* While no fetch is under way nothing is asked of what is in the worktree, so
\* that the user may do as he likes.
LEMMA UserSteps ==
    ASSUME LocalHeadIInv, Edit \/ CheckOutBranch \/ SubmitJob
    PROVE  LocalHeadIInv'
<1> USE DEF LocalHeadIInv
<1>1. UnderWay = {} /\ UnderWay' = {}
  BY DEF Edit, CheckOutBranch, SubmitJob, UnderWay, fetchVars
<1>2. \A j \in Fetched : stage'[j] = stage[j] /\ stage[j] \in {"idle", "done"}
  BY <1>1 DEF Edit, CheckOutBranch, SubmitJob, UnderWay, fetchVars
<1>3. (~disturbed => Alone /\ Worktree)'
  BY <1>1, <1>2 DEF Alone, Worktree, ContentOf
<1>4. CASE Edit
  <2>1. edits' \in 0..MaxEdits
    BY <1>4, LocalHeadAssumption DEF Edit, Shape, LocalHeadTypeOK
  <2>2. active' = active
    BY <1>4 DEF Edit
  <2>3. Shape'
    <3> DEFINE commit == current \cup (loose \cap Fetched) \cup {<<"edit", edits + 1>>}
    <3>1. Advance(commit)
      BY <1>4 DEF Edit
    <3>2. /\ tips' = [b \in LocalBranch |-> tips'[b]]
          /\ active' # Detached => current' = tips'[active']
      BY <2>2, <3>1, AdvanceType
    <3> HIDE DEF commit
    <3>3. UNCHANGED <<active, own, moved, disturbed>>
      BY <1>4 DEF Edit, fetchVars
    <3>4. LocalHeadTypeOK'
      BY <2>1, <3>2, <3>3 DEF Shape, LocalHeadTypeOK
    <3>5. UNCHANGED <<stage, way, ref, submittedAt, toRestore, moved>>
      BY <1>4 DEF Edit, fetchVars
    <3> QED  BY <3>2, <3>4, <3>5 DEF Shape, Branch
  <2>4. (~disturbed => HeadKept /\ RefsRight)'
    BY <1>1, <1>4 DEF Edit, HeadKept, RefsRight, fetchVars
  <2> QED  BY <1>3, <2>3, <2>4
<1>5. CASE CheckOutBranch
  <2>1. Shape'
    BY <1>5 DEF CheckOutBranch, Shape, LocalHeadTypeOK, fetchVars, Branch
  <2>2. (~disturbed => HeadKept /\ RefsRight)'
    BY <1>1, <1>5 DEF CheckOutBranch, HeadKept, RefsRight, fetchVars
  <2> QED  BY <1>3, <2>1, <2>2
<1>6. CASE SubmitJob
  <2>1. PICK k \in Fetched : /\ submittedAt[k] = Unknown
                             /\ submittedAt' = [submittedAt EXCEPT ![k] = current]
    BY <1>6 DEF SubmitJob
  <2>2. UNCHANGED <<datasetVars, fetchVars, way, edits, own, disturbed>>
    BY <1>6 DEF SubmitJob
  <2>3. ref[k] = Unknown /\ stage[k] = "idle"
    BY <2>1 DEF Shape
  <2>4. submittedAt' = [j \in Fetched |-> submittedAt'[j]]
    BY <2>1 DEF Shape
  <2>5. \A j \in Fetched : submittedAt'[j] = Unknown => ref[j] = Unknown /\ stage[j] = "idle"
    BY <2>1, <2>3 DEF Shape
  <2>6. Shape'
    BY <2>2, <2>4, <2>5 DEF Shape, LocalHeadTypeOK, datasetVars, fetchVars, Branch
  <2>7. (~disturbed => HeadKept /\ RefsRight)'
    BY <1>1, <2>1, <2>2, <2>3 DEF Shape, HeadKept, RefsRight, datasetVars, fetchVars
  <2> QED  BY <1>3, <2>6, <2>7
<1> QED  BY <1>4, <1>5, <1>6

\* If no fetch was disturbed, no other one is under way than that which moves.
LEMMA OneUnderWay ==
    ASSUME Shape, ~disturbed => Alone, NEW j \in Fetched, j \in UnderWay, ~disturbed,
           \A k \in Fetched \ {j} : stage'[k] = stage[k]
    PROVE  /\ \A k \in Fetched \ {j} : stage[k] \in {"idle", "done"} /\ stage'[k] \in {"idle", "done"}
           /\ UnderWay' \subseteq {j}
BY DEF Alone, UnderWay

\* A step between the first and the last of head_at(): HEAD and what is to be
\* restored stay, and so does every other job.
LEMMA InFetch ==
    ASSUME LocalHeadIInv, NEW j \in Fetched,
           NEW from \in Stage \ {"idle", "done", "merge"},
           NEW to \in Stage \ {"idle", "done", "merge"}, Goes(j, from, to),
           UNCHANGED <<active, moved, toRestore, submittedAt, way, edits, own, disturbed>>,
           tips' = [b \in LocalBranch |-> tips'[b]], ref' = [k \in Fetched |-> ref'[k]],
           active' # Detached => current' = tips'[active'],
           \A k \in Fetched \ {j} : ref'[k] = ref[k],
           ~disturbed => (ref'[j] # Unknown => ref'[j] = submittedAt[j] \cup {j}),
           ~disturbed => ContentOf(j)'
    PROVE  LocalHeadIInv'
<1>1. /\ stage' \in [Fetched -> Stage] /\ stage[j] = from /\ stage'[j] = to
      /\ \A k \in Fetched \ {j} : stage'[k] = stage[k]
  BY GoesStage DEF LocalHeadIInv
<1>2. Shape'
  <2>1. LocalHeadTypeOK'
    BY DEF LocalHeadIInv, Shape, LocalHeadTypeOK
  <2>2. submittedAt[j] # Unknown /\ way[j] = "run"
    BY <1>1 DEF LocalHeadIInv, Shape
  <2> QED  BY <1>1, <2>1, <2>2 DEF LocalHeadIInv, Shape
<1>3. SUFFICES ASSUME ~disturbed PROVE (Alone /\ HeadKept /\ Worktree /\ RefsRight)'
  BY <1>2 DEF LocalHeadIInv
<1>4. j \in UnderWay
  BY <1>1 DEF UnderWay
<1>5. /\ \A k \in Fetched \ {j} : stage'[k] \in {"idle", "done"}
      /\ UnderWay' \subseteq {j}
  BY <1>1, <1>3, <1>4, OneUnderWay DEF LocalHeadIInv
<1>6. j \in UnderWay'
  BY <1>1 DEF UnderWay
<1>7. Alone' /\ HeadKept'
  BY <1>3, <1>4, <1>5, <1>6 DEF LocalHeadIInv, Alone, HeadKept
<1>8. Worktree'
  BY <1>3, <1>5 DEF Worktree, ContentOf
<1>9. RefsRight'
  BY <1>3 DEF LocalHeadIInv, RefsRight
<1> QED  BY <1>7, <1>8, <1>9

\* An error on the way leaves everything to the end of head_at().
LEMMA FetchGivesUp ==
    ASSUME LocalHeadIInv, NEW j \in Fetched,
           NEW from \in {"get", "extract", "unlink", "commit", "ref"},
           Goes(j, from, "restore"), UNCHANGED datasetVars, Fixed,
           UNCHANGED <<moved, toRestore, disturbed>>
    PROVE  LocalHeadIInv'
<1>1. from \in Stage \ {"idle", "done", "merge"} /\ "restore" \in Stage \ {"idle", "done", "merge"}
  BY DEF Stage
<1>2. stage'[j] = "restore"
  BY <1>1, GoesStage DEF LocalHeadIInv
<1>3. ContentOf(j)'
  BY <1>2 DEF ContentOf
<1>4. UNCHANGED <<active, submittedAt, way, edits, own, current, tips, ref>>
  BY DEF datasetVars, Fixed
<1>5. /\ tips' = [b \in LocalBranch |-> tips'[b]] /\ ref' = [k \in Fetched |-> ref'[k]]
      /\ active' # Detached => current' = tips'[active']
  BY <1>4 DEF LocalHeadIInv, Shape, LocalHeadTypeOK
<1>6. ~disturbed => (ref'[j] # Unknown => ref'[j] = submittedAt[j] \cup {j})
  BY <1>4 DEF LocalHeadIInv, RefsRight
<1> QED  BY <1>1, <1>3, <1>4, <1>5, <1>6, InFetch

\* The tarball comes, is unpacked and removed; the run commit takes what is left.
LEMMA FetchSteps ==
    ASSUME LocalHeadIInv, NEW j \in Fetched,
           GetTarball(j) \/ Extract(j) \/ Unlink(j) \/ CommitRun(j) \/ UpdateRef(j)
    PROVE  LocalHeadIInv'
<1>0. {"get", "extract", "unlink", "commit", "ref", "restore"} \subseteq Stage \ {"idle", "done", "merge"}
  BY DEF Stage
<1>1. ASSUME UNCHANGED <<current, active, tips, ref>>
      PROVE  /\ tips' = [b \in LocalBranch |-> tips'[b]] /\ ref' = [k \in Fetched |-> ref'[k]]
             /\ active' # Detached => current' = tips'[active']
             /\ ~disturbed => (ref'[j] # Unknown => ref'[j] = submittedAt[j] \cup {j})
  BY <1>1 DEF LocalHeadIInv, Shape, LocalHeadTypeOK, RefsRight
<1>2. CASE GetTarball(j)
  <2>1. CASE Goes(j, "get", "extract")
    <3>1. /\ loose' = loose \cup {Tarball(j)} /\ UNCHANGED <<current, active, tips, ref>>
          /\ Fixed /\ UNCHANGED <<moved, toRestore, disturbed>>
      BY <1>0, <1>2, <2>1, GoesStage DEF GetTarball, Fetch, LocalHeadIInv
    <3>2. ~disturbed => ContentOf(j)'
      BY <1>0, <2>1, <3>1, GoesStage DEF LocalHeadIInv, Worktree, ContentOf, Fixed
    <3> QED  BY <1>0, <1>1, <2>1, <3>1, <3>2, InFetch DEF Fixed
  <2> QED  BY <1>2, <2>1, FetchGivesUp DEF GetTarball, Fetch
<1>3. CASE Extract(j)
  <2>1. CASE Goes(j, "extract", "unlink")
    <3>1. /\ loose' = loose \cup ({j} \ current) /\ UNCHANGED <<current, active, tips, ref>>
          /\ Fixed /\ UNCHANGED <<moved, toRestore, disturbed>>
      BY <1>0, <1>3, <2>1, GoesStage DEF Extract, Fetch, LocalHeadIInv
    <3>2. ~disturbed => ContentOf(j)'
      BY <1>0, <2>1, <3>1, GoesStage DEF LocalHeadIInv, Worktree, ContentOf, Fixed
    <3> QED  BY <1>0, <1>1, <2>1, <3>1, <3>2, InFetch DEF Fixed
  <2> QED  BY <1>3, <2>1, FetchGivesUp DEF Extract, Fetch
<1>4. CASE Unlink(j)
  <2>1. CASE Goes(j, "unlink", "commit")
    <3>1. /\ loose' = loose \ {Tarball(j)} /\ UNCHANGED <<current, active, tips, ref>>
          /\ Fixed /\ UNCHANGED <<moved, toRestore, disturbed>>
      BY <1>0, <1>4, <2>1, GoesStage DEF Unlink, Fetch, LocalHeadIInv
    <3>2. ~disturbed => ContentOf(j)'
      BY <1>0, <2>1, <3>1, GoesStage, LocalHeadAssumption
      DEF LocalHeadIInv, Worktree, ContentOf, Fixed
    <3> QED  BY <1>0, <1>1, <2>1, <3>1, <3>2, InFetch DEF Fixed
  <2> QED  BY <1>4, <2>1, FetchGivesUp DEF Unlink, Fetch
<1>5. CASE CommitRun(j)
  <2>1. CASE Goes(j, "commit", "ref")
    <3>1. /\ Advance(current \cup loose) /\ loose' = {} /\ UNCHANGED <<active, ref>>
          /\ Fixed /\ UNCHANGED <<moved, toRestore, disturbed>>
      BY <1>0, <1>5, <2>1, GoesStage DEF CommitRun, Fetch, LocalHeadIInv
    <3>2. /\ tips' = [b \in LocalBranch |-> tips'[b]] /\ current' = current \cup loose
          /\ active' # Detached => current' = tips'[active']
      BY <3>1, AdvanceType DEF LocalHeadIInv
    <3>3. ~disturbed => ContentOf(j)'
      BY <1>0, <2>1, <3>1, <3>2, GoesStage DEF LocalHeadIInv, Worktree, ContentOf, Fixed
    <3>4. ref' = [k \in Fetched |-> ref'[k]]
      BY <3>1 DEF LocalHeadIInv, Shape
    <3>5. ~disturbed => (ref'[j] # Unknown => ref'[j] = submittedAt[j] \cup {j})
      BY <3>1 DEF LocalHeadIInv, RefsRight
    <3> QED  BY <1>0, <2>1, <3>1, <3>2, <3>3, <3>4, <3>5, InFetch DEF Fixed
  <2> QED  BY <1>5, <2>1, FetchGivesUp DEF CommitRun, Fetch
<1>6. CASE UpdateRef(j)
  <2>1. CASE ref' = [ref EXCEPT ![j] = current] /\ Goes(j, "ref", "restore")
             /\ UNCHANGED <<current, active, tips, loose>>
    <3>1. Fixed /\ UNCHANGED <<moved, toRestore, disturbed>>
      BY <1>6 DEF UpdateRef, Fetch
    <3>2. /\ ref' = [k \in Fetched |-> ref'[k]] /\ ref'[j] = current
          /\ \A k \in Fetched \ {j} : ref'[k] = ref[k]
      BY <2>1 DEF LocalHeadIInv, Shape
    <3>3. stage[j] = "ref" /\ stage'[j] = "restore"
      BY <1>0, <2>1, GoesStage DEF LocalHeadIInv
    <3>4. ~disturbed => (ref'[j] # Unknown => ref'[j] = submittedAt[j] \cup {j})
      BY <3>2, <3>3 DEF LocalHeadIInv, Worktree, ContentOf
    <3>5. ~disturbed => ContentOf(j)'
      BY <3>3 DEF ContentOf
    <3>6. /\ tips' = [b \in LocalBranch |-> tips'[b]]
          /\ active' # Detached => current' = tips'[active']
      BY <2>1 DEF LocalHeadIInv, Shape, LocalHeadTypeOK
    <3> QED  BY <1>0, <2>1, <3>1, <3>2, <3>4, <3>5, <3>6, InFetch DEF Fixed
  <2> QED  BY <1>6, <2>1, FetchGivesUp DEF UpdateRef, Fetch
<1> QED  BY <1>2, <1>3, <1>4, <1>5, <1>6

\* A fetch that begins while no other one is under way remembers the branch; one
\* that meets another is disturbed.
LEMMA HeadAtStep ==
    ASSUME LocalHeadIInv, NEW j \in Fetched, HeadAt(j)
    PROVE  LocalHeadIInv'
<1> DEFINE r == RestoreOf(j)
<1>1. /\ stage' \in [Fetched -> Stage] /\ stage[j] = "idle" /\ stage'[j] = "get"
      /\ \A k \in Fetched \ {j} : stage'[k] = stage[k]
  BY GoesStage DEF HeadAt, Stage, LocalHeadIInv
<1>2. /\ r.moved \in BOOLEAN /\ r.moved = (current # submittedAt[j]) /\ r.to = active
  BY DEF RestoreOf
<1> HIDE DEF r
<1>3. /\ moved' = [moved EXCEPT ![j] = r.moved] /\ toRestore' = [toRestore EXCEPT ![j] = r]
  BY DEF HeadAt, r
<1>4. /\ moved' \in [Fetched -> BOOLEAN] /\ toRestore' = [k \in Fetched |-> toRestore'[k]]
      /\ moved'[j] = r.moved /\ toRestore'[j] = r
      /\ \A k \in Fetched \ {j} : moved'[k] = moved[k] /\ toRestore'[k] = toRestore[k]
  BY <1>2, <1>3 DEF LocalHeadIInv, Shape, LocalHeadTypeOK
<1>5. /\ way[j] = "run" /\ submittedAt[j] # Unknown /\ loose = {} /\ current' = submittedAt[j]
      /\ active' = IF current = submittedAt[j] THEN active ELSE Detached
      /\ UNCHANGED <<submittedAt, way, edits, own, tips, loose, ref>>
  BY DEF HeadAt, Fixed
<1>6. disturbed' = (disturbed \/ UnderWay \ {j} # {})
  BY DEF HeadAt, Meets
<1>7. Shape'
  <2>1. LocalHeadTypeOK'
    BY <1>4, <1>5, <1>6 DEF LocalHeadIInv, Shape, LocalHeadTypeOK
  <2>2. r.to \in Branch
    BY <1>2 DEF LocalHeadIInv, Shape, LocalHeadTypeOK, Branch
  <2>3. /\ ref' = [k \in Fetched |-> ref'[k]] /\ submittedAt' = [k \in Fetched |-> submittedAt'[k]]
        /\ tips' = [b \in LocalBranch |-> tips'[b]] /\ way' \in [Fetched -> {"run", "pair"}]
    BY <1>5 DEF LocalHeadIInv, Shape
  <2>4. \A k \in Fetched : moved'[k] => way[k] = "run" /\ toRestore'[k].to \in Branch
    BY <1>4, <1>5, <2>2 DEF LocalHeadIInv, Shape
  <2>5. \A k \in Fetched :
           /\ stage'[k] = "merge" => way[k] = "pair"
           /\ stage'[k] \notin {"idle", "merge", "done"} => way[k] = "run"
           /\ submittedAt[k] = Unknown => ref[k] = Unknown /\ stage'[k] = "idle"
    BY <1>1, <1>5 DEF LocalHeadIInv, Shape
  <2> QED  BY <1>1, <1>4, <1>5, <2>1, <2>3, <2>4, <2>5 DEF Shape
<1>8. SUFFICES ASSUME ~disturbed' PROVE (Alone /\ HeadKept /\ Worktree /\ RefsRight)'
  BY <1>7 DEF LocalHeadIInv
<1>9. ~disturbed /\ UnderWay = {}
  BY <1>1, <1>6, <1>8 DEF UnderWay
<1>10. UnderWay' = {j} /\ \A k \in Fetched \ {j} : stage'[k] \in {"idle", "done"}
  BY <1>1, <1>9 DEF UnderWay
<1>11. active = own
  BY <1>9 DEF LocalHeadIInv, HeadKept
<1>12. Alone' /\ HeadKept'
  BY <1>2, <1>4, <1>5, <1>10, <1>11 DEF Alone, HeadKept
<1>13. Worktree'
  BY <1>1, <1>5, <1>10 DEF Worktree, ContentOf
<1>14. RefsRight'
  BY <1>5, <1>9 DEF LocalHeadIInv, RefsRight
<1> QED  BY <1>12, <1>13, <1>14

\* What was remembered is restored; where git refuses, the fetch is disturbed.
LEMMA RestoreStep ==
    ASSUME LocalHeadIInv, NEW j \in Fetched, Restore(j)
    PROVE  LocalHeadIInv'
<1> DEFINE to == IF ref[j] = Unknown THEN "idle" ELSE "done"
<1>1. to \in {"idle", "done"} /\ to \in Stage /\ Goes(j, "restore", to)
  BY DEF Restore, Stage
<1> HIDE DEF to
<1>2. /\ stage' \in [Fetched -> Stage] /\ stage[j] = "restore" /\ stage'[j] = to
      /\ \A k \in Fetched \ {j} : stage'[k] = stage[k]
  BY <1>1, GoesStage DEF LocalHeadIInv
<1>3. /\ moved' = [moved EXCEPT ![j] = FALSE] /\ toRestore' = [toRestore EXCEPT ![j] = Unknown]
      /\ UNCHANGED <<submittedAt, way, edits, own, tips, loose, ref>>
  BY DEF Restore, Fixed
<1>4. \/ /\ moved[j] /\ active' = toRestore[j].to /\ disturbed' = disturbed
         /\ active' # Detached => current' = tips[active']
      \/ moved[j] /\ disturbed' = TRUE /\ UNCHANGED <<current, active>>
      \/ ~moved[j] /\ UNCHANGED <<current, active, disturbed>>
  BY DEF Restore
<1>5. /\ moved' \in [Fetched -> BOOLEAN] /\ ~moved'[j]
      /\ toRestore' = [k \in Fetched |-> toRestore'[k]]
      /\ \A k \in Fetched \ {j} : moved'[k] = moved[k] /\ toRestore'[k] = toRestore[k]
  BY <1>3 DEF LocalHeadIInv, Shape, LocalHeadTypeOK
<1>6. Shape'
  <2>1. active' \in Branch /\ (active' # Detached => current' = tips[active']) /\ disturbed' \in BOOLEAN
    BY <1>4 DEF LocalHeadIInv, Shape, LocalHeadTypeOK, Branch
  <2>2. LocalHeadTypeOK'
    BY <1>3, <1>5, <2>1 DEF LocalHeadIInv, Shape, LocalHeadTypeOK, Branch
  <2>3. /\ ref' = [k \in Fetched |-> ref'[k]] /\ submittedAt' = [k \in Fetched |-> submittedAt'[k]]
        /\ tips' = [b \in LocalBranch |-> tips'[b]] /\ way' \in [Fetched -> {"run", "pair"}]
    BY <1>3 DEF LocalHeadIInv, Shape
  <2>4. \A k \in Fetched : moved'[k] => way[k] = "run" /\ toRestore'[k].to \in Branch
    BY <1>5 DEF LocalHeadIInv, Shape
  <2>5. \A k \in Fetched :
           /\ stage'[k] = "merge" => way[k] = "pair"
           /\ stage'[k] \notin {"idle", "merge", "done"} => way[k] = "run"
           /\ submittedAt[k] = Unknown => ref[k] = Unknown /\ stage'[k] = "idle"
    BY <1>1, <1>2 DEF LocalHeadIInv, Shape
  <2> QED  BY <1>2, <1>3, <1>5, <2>2, <2>3, <2>4, <2>5 DEF Shape
<1>7. SUFFICES ASSUME ~disturbed' PROVE (Alone /\ HeadKept /\ Worktree /\ RefsRight)'
  BY <1>6 DEF LocalHeadIInv
<1>8. ~disturbed /\ j \in UnderWay
  BY <1>2, <1>4, <1>7 DEF UnderWay
<1>9. UnderWay' = {} /\ \A k \in Fetched : stage'[k] \in {"idle", "done"}
  <2>1. \A k \in Fetched \ {j} : stage'[k] \in {"idle", "done"}
    BY <1>2, <1>8, OneUnderWay DEF LocalHeadIInv
  <2> QED  BY <1>1, <1>2, <2>1 DEF UnderWay
<1>10. active' = own
  BY <1>4, <1>7, <1>8 DEF LocalHeadIInv, HeadKept
<1>11. Alone' /\ HeadKept' /\ Worktree'
  BY <1>3, <1>9, <1>10 DEF Alone, HeadKept, Worktree, ContentOf
<1>12. RefsRight'
  BY <1>3, <1>8 DEF LocalHeadIInv, RefsRight
<1> QED  BY <1>11, <1>12

\* The results of a datalad-pair job come as a ref and are merged into the
\* branch of the user, or leave a conflict.
LEMMA PairSteps ==
    ASSUME LocalHeadIInv, NEW j \in Fetched, FetchRef(j) \/ Merge(j) \/ Conflict(j)
    PROVE  LocalHeadIInv'
<1>1. CASE FetchRef(j)
  <2>1. /\ stage' \in [Fetched -> Stage] /\ stage[j] = "idle" /\ stage'[j] = "merge"
        /\ \A k \in Fetched \ {j} : stage'[k] = stage[k]
    BY <1>1, GoesStage DEF FetchRef, Stage, LocalHeadIInv
  <2>2. /\ way[j] = "pair" /\ submittedAt[j] # Unknown
        /\ UNCHANGED <<submittedAt, way, edits, own, current, active, tips, loose, moved, toRestore>>
        /\ disturbed' = (disturbed \/ UnderWay \ {j} # {})
    BY <1>1 DEF FetchRef, Fixed, Meets
  <2>3. /\ ref' = [k \in Fetched |-> ref'[k]] /\ ref'[j] = submittedAt[j] \cup {j}
        /\ \A k \in Fetched \ {j} : ref'[k] = ref[k]
    BY <1>1 DEF FetchRef, LocalHeadIInv, Shape
  <2>4. LocalHeadTypeOK'
    BY <2>2 DEF LocalHeadIInv, Shape, LocalHeadTypeOK
  <2>5. Shape'
    BY <2>1, <2>2, <2>3, <2>4 DEF LocalHeadIInv, Shape, Branch
  <2>6. SUFFICES ASSUME ~disturbed' PROVE (Alone /\ HeadKept /\ Worktree /\ RefsRight)'
    BY <2>5 DEF LocalHeadIInv
  <2>7. ~disturbed /\ UnderWay = {}
    BY <2>1, <2>2, <2>6 DEF UnderWay
  <2>8. UnderWay' = {j} /\ \A k \in Fetched \ {j} : stage'[k] \in {"idle", "done"}
    BY <2>1, <2>7 DEF UnderWay
  <2>9. active = own /\ ~moved[j]
    BY <2>2, <2>7 DEF LocalHeadIInv, HeadKept, Shape
  <2>10. Alone' /\ HeadKept'
    BY <2>2, <2>8, <2>9 DEF Alone, HeadKept
  <2>11. Worktree'
    BY <2>1, <2>8 DEF Worktree, ContentOf
  <2>12. RefsRight'
    BY <2>2, <2>3, <2>7 DEF LocalHeadIInv, RefsRight
  <2> QED  BY <2>10, <2>11, <2>12
<1>2. CASE Merge(j) \/ Conflict(j)
  <2>1. PICK to \in {"idle", "done"} : Goes(j, "merge", to)
    BY <1>2 DEF Merge, Conflict
  <2>2. /\ stage' \in [Fetched -> Stage] /\ stage[j] = "merge" /\ stage'[j] = to
        /\ \A k \in Fetched \ {j} : stage'[k] = stage[k]
    BY <2>1, GoesStage DEF Stage, LocalHeadIInv
  <2>3. UNCHANGED <<active, ref, moved, toRestore, disturbed, submittedAt, way, edits, own>>
    BY <1>2 DEF Merge, Conflict, Fixed
  <2>4. /\ tips' = [b \in LocalBranch |-> tips'[b]]
        /\ active' # Detached => current' = tips'[active']
    <3>1. CASE Merge(j)
      <4>1. Advance(current \cup ref[j]) /\ active' = active
        BY <3>1 DEF Merge
      <4> QED  BY <4>1, AdvanceType DEF LocalHeadIInv
    <3>2. CASE Conflict(j)
      BY <3>2 DEF Conflict, LocalHeadIInv, Shape, LocalHeadTypeOK
    <3> QED  BY <1>2, <3>1, <3>2
  <2>5. LocalHeadTypeOK'
    BY <2>3, <2>4 DEF LocalHeadIInv, Shape, LocalHeadTypeOK
  <2>6. submittedAt[j] # Unknown /\ ~moved[j]
    BY <2>2 DEF LocalHeadIInv, Shape
  <2>7. Shape'
    <3>1. \A k \in Fetched :
             submittedAt[k] = Unknown => ref[k] = Unknown /\ stage'[k] = "idle"
      BY <2>2, <2>6 DEF LocalHeadIInv, Shape
    <3> QED  BY <2>2, <2>3, <2>4, <2>5, <3>1 DEF LocalHeadIInv, Shape, Branch
  <2>8. SUFFICES ASSUME ~disturbed PROVE (Alone /\ HeadKept /\ Worktree /\ RefsRight)'
    BY <2>3, <2>7 DEF LocalHeadIInv
  <2>9. j \in UnderWay
    BY <2>2 DEF UnderWay
  <2>10. UnderWay' = {} /\ \A k \in Fetched : stage'[k] \in {"idle", "done"}
    <3>1. \A k \in Fetched \ {j} : stage'[k] \in {"idle", "done"}
      BY <2>2, <2>8, <2>9, OneUnderWay DEF LocalHeadIInv
    <3> QED  BY <2>2, <3>1 DEF UnderWay
  <2>11. active = own
    BY <2>6, <2>8, <2>9 DEF LocalHeadIInv, HeadKept
  <2>12. Alone' /\ HeadKept' /\ Worktree'
    BY <2>3, <2>10, <2>11 DEF Alone, HeadKept, Worktree, ContentOf
  <2>13. RefsRight'
    BY <2>3, <2>8 DEF LocalHeadIInv, RefsRight
  <2> QED  BY <2>12, <2>13
<1> QED  BY <1>1, <1>2

\* After a fetch that was cut only the types are known.
LEMMA KillStep ==
    ASSUME LocalHeadIInv, NEW j \in Fetched, KillFetch(j)
    PROVE  LocalHeadIInv'
<1>1. /\ stage' = [stage EXCEPT ![j] = "idle"] /\ disturbed' = TRUE
      /\ UNCHANGED <<submittedAt, way, edits, own, current, active, tips, loose, ref, moved, toRestore>>
  BY DEF KillFetch, Fixed, datasetVars
<1>2. stage' \in [Fetched -> Stage] /\ \A k \in Fetched : stage'[k] \in {stage[k], "idle"}
  BY <1>1 DEF LocalHeadIInv, Shape, Stage
<1>3. LocalHeadTypeOK'
  BY <1>1 DEF LocalHeadIInv, Shape, LocalHeadTypeOK
<1>4. Shape'
  BY <1>1, <1>2, <1>3 DEF LocalHeadIInv, Shape, Branch
<1> QED  BY <1>1, <1>4 DEF LocalHeadIInv

\* Every step keeps the invariant.
LEMMA LocalHeadStep == LocalHeadIInv /\ [LocalHeadNext]_localHeadVars => LocalHeadIInv'
<1> SUFFICES ASSUME LocalHeadIInv, [LocalHeadNext]_localHeadVars PROVE LocalHeadIInv'  OBVIOUS
<1>1. CASE LocalHeadNext
  BY <1>1, UserSteps, FetchSteps, HeadAtStep, RestoreStep, PairSteps, KillStep DEF LocalHeadNext
<1>2. CASE UNCHANGED localHeadVars
  BY <1>2 DEF LocalHeadIInv, Shape, LocalHeadTypeOK, Alone, HeadKept, Worktree, ContentOf,
     RefsRight, UnderWay, localHeadVars, datasetVars, fetchVars
<1> QED  BY <1>1, <1>2

\* The invariant holds of every reachable state.
THEOREM LocalHeadInvariant == LocalHeadSpec => []LocalHeadIInv
BY LocalHeadInitially, LocalHeadStep, PTL DEF LocalHeadSpec

\* Every variable keeps its type; HEAD is where the branch it is on is.
THEOREM LocalHeadType == LocalHeadSpec => []LocalHeadTypeOK
<1>1. LocalHeadIInv => LocalHeadTypeOK
  BY DEF LocalHeadIInv, Shape
<1> QED  BY <1>1, LocalHeadInvariant, PTL

\* For any number of jobs and branches: after fetches that were not cut and did
\* not meet, failed or not, the branch that the user had is checked out, and
\* each job's ref has its own results on top of what it was submitted at.
THEOREM LocalHeadCorrect == LocalHeadSpec => []FetchLeavesHead
<1>1. LocalHeadIInv => FetchLeavesHead
  BY DEF LocalHeadIInv, HeadKept, RefsRight, FetchLeavesHead
<1> QED  BY <1>1, LocalHeadInvariant, PTL
=============================================================================
