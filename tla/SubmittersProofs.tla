-------------------------- MODULE SubmittersProofs --------------------------
(***************************************************************************)
(* "reproman run" up to the end of --follow.  First, following: for any    *)
(* array, submitters and number of failing queries "completed" is true of  *)
(* the submitters that look at all subjobs, and follow() leaves a job that *)
(* is not over for a known reason only.  What the submitters rely on: by   *)
(* the time they ask, the batch system has taken every subjob, and LSF has *)
(* shown one.  Second, job specs: for any files, parameters and options,   *)
(* and any number of runs, a job is recorded and run as it was asked for.  *)
(* What that relies on: each step of the run changes what it computes or   *)
(* fills in, and a record still says how it was formed.                    *)
(***************************************************************************)
EXTENDS MCSubmission, SequenceTheorems, FiniteSetTheorems, TLAPS

\* Where the batch system is when submit() or follow() is somewhere.
Taken ==
    /\ pc = "submit" => verdict = "none"
    /\ pc \in {"appear", "follow", "over"} => \A i \in Subjob : job[i] # "absent"
    /\ submitter # "lsf" => \A i \in Subjob : job[i] # "hidden"
    /\ submitter = "lsf" /\ pc \in {"follow", "over"} => \E i \in Subjob : job[i] # "hidden"

FollowIInv == TypeOK /\ Taken

\* The steps of the batch system, and of the client.
SystemStep ==
    \E i \in Subjob :
       \/ Show(i) \/ Start(i) \/ Hold(i) \/ Release(i)
       \/ Suspend(i) \/ Resume(i) \/ Finish(i) \/ Forget(i)
-----------------------------------------------------------------------------
\* The invariant holds at first.
LEMMA FollowInitially == Init => FollowIInv
<1> SUFFICES ASSUME Init PROVE FollowIInv
  OBVIOUS
<1>1. TypeOK
  BY SubmittersAssumption DEF Init, TypeOK, States, Verdicts
<1>2. Taken
  BY DEF Init, Taken
<1> QED  BY <1>1, <1>2 DEF FollowIInv

\* A job that has ended stays ended, one that was shown is not hidden again.
LEMMA SystemMoves ==
    ASSUME TypeOK, SystemStep
    PROVE  /\ UNCHANGED client /\ job' \in [Subjob -> States]
           /\ \A i \in Subjob : /\ job[i] \in Ended => job'[i] \in Ended
                                /\ job[i] # "hidden" => job'[i] # "hidden"
                                /\ job[i] # "absent" => job'[i] # "absent"
<1>1. PICK i \in Subjob :
         \/ Show(i) \/ Start(i) \/ Hold(i) \/ Release(i)
         \/ Suspend(i) \/ Resume(i) \/ Finish(i) \/ Forget(i)
  BY DEF SystemStep
<1>2. \E from \in SUBSET States, to \in States :
          /\ Become(i, from, to) /\ to \notin {"absent", "hidden"}
          /\ from \cap Ended # {} => to = "forgotten"
  BY <1>1 DEF Show, Start, Hold, Release, Suspend, Resume, Finish, Forget, States, Ended
<1> QED  BY <1>2 DEF Become, TypeOK, Ended

\* The batch system keeps the invariant.
LEMMA SystemKeeps == FollowIInv /\ SystemStep => FollowIInv'
<1> SUFFICES ASSUME FollowIInv, SystemStep PROVE FollowIInv'
  OBVIOUS
<1>1. TypeOK /\ Taken
  BY DEF FollowIInv
<1>2. /\ UNCHANGED client /\ job' \in [Subjob -> States]
      /\ \A i \in Subjob : /\ job[i] # "hidden" => job'[i] # "hidden"
                           /\ job[i] # "absent" => job'[i] # "absent"
  BY <1>1, SystemMoves
<1>3. TypeOK'
  BY <1>1, <1>2 DEF TypeOK, client
<1>4. Taken'
  BY <1>1, <1>2 DEF Taken, client
<1> QED  BY <1>3, <1>4 DEF FollowIInv
-----------------------------------------------------------------------------
\* The job is given to the batch system, or not.
LEMMA SubmitKeeps == FollowIInv /\ (Submit \/ SubmitFails \/ Appear \/ AppearFails) => FollowIInv'
<1> SUFFICES ASSUME FollowIInv, Submit \/ SubmitFails \/ Appear \/ AppearFails PROVE FollowIInv'
  OBVIOUS
<1> USE DEF TypeOK, Taken
<1>1. TypeOK /\ Taken
  BY DEF FollowIInv
<1>2. CASE Submit
  <2>1. PICK out \in {"known", "none"} : id' = IdFrom(out).id /\ pc' = IdFrom(out).pc
    BY <1>2 DEF Submit
  <2>2. /\ id' \in {"known", "none"} /\ pc' \in {"appear", "follow", "raised"}
        /\ submitter = "lsf" => pc' # "follow"
    <3>1. submitter \in {"pbs", "condor", "slurm", "local", "lsf"}
      BY <1>1, SubmittersAssumption
    <3> QED  BY <2>1, <3>1 DEF IdFrom, PbsId, CondorId, SlurmId, LocalId, LsfId, Raised
  <2>3. /\ job' = [i \in Subjob |-> IF submitter = "lsf" THEN "hidden" ELSE "pending"]
        /\ verdict = "none" /\ UNCHANGED <<submitter, json, failures, verdict>>
    BY <1>1, <1>2 DEF Submit
  <2>4. TypeOK' /\ Taken'
    BY <1>1, <2>2, <2>3 DEF States
  <2> QED  BY <2>2, <2>3, <2>4 DEF FollowIInv
<1>3. CASE SubmitFails
  BY <1>1, <1>3 DEF SubmitFails, FollowIInv
<1>4. CASE Appear
  <2>1. \E i \in Subjob : job[i] # "hidden"
    BY <1>4 DEF Appear, Listed
  <2> QED  BY <1>1, <1>4, <2>1 DEF Appear, FollowIInv
<1>5. CASE AppearFails
  <2>1. failures' \in 0 .. MaxFailures
    BY <1>1, <1>5, SubmittersAssumption DEF AppearFails
  <2> QED  BY <1>1, <1>5, <2>1 DEF AppearFails, FollowIInv
<1> QED  BY <1>2, <1>3, <1>4, <1>5
-----------------------------------------------------------------------------
\* While it is followed a subjob is listed, forgotten or, by LSF only, hidden.
LEMMA ListedOrOver ==
    ASSUME TypeOK, Taken, pc = "follow", NEW i \in Subjob, i \notin Listed
    PROVE  job[i] = "forgotten" \/ (submitter = "lsf" /\ job[i] = "hidden")
BY DEF Taken, Listed

\* If Condor's or Slurm's answer is anything but "waiting" every subjob is over or
\* suspended, and if it is "completed" none that was read can still run.
LEMMA AllLookedAt ==
    ASSUME TypeOK, Taken, pc = "follow"
    PROVE  /\ submitter = "condor" /\ CondorVerdict # "waiting" =>
                 \A i \in Subjob : job[i] \in Ended \cup {"suspended"}
           /\ submitter = "condor" /\ CondorVerdict = "completed" => AllEnded
           /\ submitter = "slurm" => \A unread \in SUBSET In({"suspended"}) :
                 SlurmVerdict(unread) # "waiting" =>
                    \A i \in Subjob : job[i] \in Ended \cup {"suspended"}
<1>1. ASSUME submitter \in {"condor", "slurm"}, In({"pending", "running", "held"}) = {}, NEW i \in Subjob
      PROVE  job[i] \in Ended \cup {"suspended"}
  <2>1. CASE i \in Listed
    <3>1. job[i] \in States /\ job[i] \notin {"absent", "hidden", "forgotten", "pending", "running", "held"}
      BY <1>1, <2>1 DEF In, Listed, TypeOK
    <3> QED  BY <3>1 DEF States, Ended
  <2>2. CASE i \notin Listed
    BY <1>1, <2>2, ListedOrOver DEF Ended
  <2> QED  BY <2>1, <2>2
<1>2. ASSUME submitter = "condor", CondorVerdict = "completed", NEW i \in Subjob
      PROVE  job[i] \in Ended
  <2>1. In({"completed"}) = Listed
    BY <1>2 DEF CondorVerdict
  <2>2. i \in Listed => job[i] = "completed"
    BY <2>1 DEF In
  <2> QED  BY <1>2, <2>2, ListedOrOver DEF Ended
<1> QED  BY <1>1, <1>2 DEF AllEnded, CondorVerdict, SlurmVerdict

\* What a poll makes of the answer: a verdict, and unless that is "waiting" there
\* is a reason to stop.
VerdictReason ==
    \/ submitter \in {"condor", "slurm"} /\ \A i \in Subjob : job[i] \in Ended \cup {"suspended"}
    \/ submitter \in {"pbs", "lsf"} /\ \E i \in Subjob : job[i] \in Ended \cup {"suspended"}
    \/ submitter = "lsf" /\ \E i \in Subjob : job[i] = "held"
LEMMA VerdictHasReason ==
    ASSUME TypeOK, Taken, pc = "follow", NEW v \in Verdict
    PROVE  /\ v \in Verdicts
           /\ submitter = "condor" /\ v = "completed" => AllEnded
           /\ v # "waiting" /\ ~AllEnded => VerdictReason
<1>0. submitter \in {"pbs", "condor", "slurm", "local", "lsf"}
  BY SubmittersAssumption DEF TypeOK
<1> USE DEF VerdictReason
<1>1. CASE submitter = "condor"
  BY <1>1, AllLookedAt DEF Verdict, CondorVerdict, Verdicts
<1>2. CASE submitter = "slurm"
  <2>1. PICK unread \in SUBSET In({"suspended"}) : v = SlurmVerdict(unread)
    BY <1>2 DEF Verdict
  <2> QED  BY <1>2, <2>1, AllLookedAt DEF SlurmVerdict, Verdicts
<1>3. CASE submitter = "local"
  BY <1>3 DEF Verdict, LocalVerdict, Verdicts
<1>4. CASE submitter = "pbs"
  <2>1. CASE Listed = {}
    <3>1. AllEnded
      BY <1>4, <2>1, ListedOrOver DEF AllEnded, Ended
    <3> QED  BY <1>4, <2>1, <3>1 DEF Verdict, Verdicts
  <2>2. CASE Listed # {}
    <3>1. PICK i \in Listed : v = PbsVerdict(i)
      BY <1>4, <2>2 DEF Verdict
    <3>2. i \in Subjob /\ job[i] \in States /\ job[i] \notin {"absent", "hidden", "forgotten"}
      BY DEF Listed, TypeOK
    <3> QED  BY <1>4, <3>1, <3>2 DEF PbsVerdict, Verdicts, Ended, States
  <2> QED  BY <2>1, <2>2
<1>5. CASE submitter = "lsf"
  <2>1. CASE Listed = {}
    <3>1. v = "unknown" /\ \E i \in Subjob : job[i] # "hidden"
      BY <1>5, <2>1 DEF Verdict, Taken
    <3>2. \E i \in Subjob : job[i] = "forgotten"
      BY <2>1, <3>1, ListedOrOver
    <3> QED  BY <1>5, <3>1, <3>2 DEF Verdicts, Ended
  <2>2. CASE Listed # {}
    <3>1. PICK i \in Listed : v = LsfVerdict(i)
      BY <1>5, <2>2 DEF Verdict
    <3>2. i \in Subjob /\ job[i] \in States /\ job[i] \notin {"absent", "hidden", "forgotten"}
      BY DEF Listed, TypeOK
    <3> QED  BY <1>5, <3>1, <3>2 DEF LsfVerdict, Verdicts, Ended, States
  <2> QED  BY <2>1, <2>2
<1> QED  BY <1>0, <1>1, <1>2, <1>3, <1>4, <1>5

\* The loop of follow() keeps the invariant, and leaves for a reason.
FollowStep == NoSubmissionId \/ Poll \/ QueryFails \/ CondorFallsBack \/ CondorListsNothing
Reasoned ==
    /\ verdict' \in Verdicts
    /\ submitter = "condor" /\ verdict' = "completed" /\ verdict # "completed" => AllEnded
    /\ verdict' = "completed" /\ verdict # "completed" /\ ~AllEnded => VerdictReason
    /\ pc' = "over" /\ ~AllEnded =>
          \/ id = "none"
          \/ failures' > failures /\ ~(submitter = "condor" /\ json)
          \/ VerdictReason
LEMMA FollowReasoned ==
    ASSUME FollowIInv, FollowStep
    PROVE  /\ pc = "follow" /\ UNCHANGED <<submitter, id, job>>
           /\ FollowIInv' /\ Reasoned
<1>1. TypeOK /\ Taken
  BY DEF FollowIInv
<1>2. pc = "follow" /\ UNCHANGED <<submitter, id, job>>
  BY DEF FollowStep, NoSubmissionId, Poll, QueryFails, CondorFallsBack, CondorListsNothing
<1>3. pc' \in {"follow", "over", "raised"} /\ json' \in BOOLEAN
  BY <1>1 DEF FollowStep, NoSubmissionId, Poll, QueryFails, CondorFallsBack, CondorListsNothing,
     Conclude, TypeOK
<1>4. failures \in Nat /\ failures' \in 0 .. MaxFailures
  BY <1>1, SubmittersAssumption DEF FollowStep, NoSubmissionId, Poll, QueryFails, CondorFallsBack,
     CondorListsNothing, TypeOK
<1>5. Taken'
  BY <1>1, <1>2, <1>3 DEF Taken
<1>6. Reasoned
  <2>1. CASE NoSubmissionId
    BY <2>1 DEF NoSubmissionId, Conclude, Verdicts, Reasoned
  <2>2. CASE Poll
    <3>1. PICK v \in Verdict : Conclude(v)
      BY <2>2 DEF Poll
    <3>2. verdict' = v /\ (pc' = "over" => v # "waiting")
      BY <3>1 DEF Conclude
    <3> QED  BY <1>1, <1>2, <3>2, VerdictHasReason DEF Reasoned
  <2>3. CASE QueryFails
    <3>1. failures' > failures /\ ~(submitter = "condor" /\ json)
      BY <1>4, <2>3 DEF QueryFails
    <3> QED  BY <1>1, <2>3, <3>1 DEF QueryFails, Conclude, Verdicts, TypeOK, Reasoned
  <2>4. CASE CondorFallsBack
    <3>1. submitter = "condor"
      BY <2>4 DEF CondorFallsBack
    <3>2. \/ verdict' = CondorVerdict /\ (pc' = "over" => CondorVerdict # "waiting")
          \/ verdict' = verdict /\ pc' = "raised"
      BY <2>4 DEF CondorFallsBack, Conclude
    <3>3. CondorVerdict \in Verdicts
      BY DEF CondorVerdict, Verdicts
    <3> QED  BY <1>1, <1>2, <3>1, <3>2, <3>3, AllLookedAt DEF TypeOK, Reasoned, VerdictReason
  <2>5. CASE CondorListsNothing
    BY <1>1, <2>5 DEF CondorListsNothing, TypeOK, Reasoned
  <2> QED  BY <2>1, <2>2, <2>3, <2>4, <2>5 DEF FollowStep
<1>7. TypeOK'
  BY <1>1, <1>2, <1>3, <1>4, <1>6 DEF TypeOK, Reasoned
<1> QED  BY <1>2, <1>5, <1>6, <1>7 DEF FollowIInv

\* Every step keeps the invariant.
LEMMA SubmittersStep == FollowIInv /\ [Next]_vars => FollowIInv'
<1>1. FollowIInv /\ UNCHANGED vars => FollowIInv'
  BY DEF FollowIInv, TypeOK, Taken, vars, client
<1>2. Next => \/ Submit \/ SubmitFails \/ Appear \/ AppearFails
              \/ FollowStep \/ SystemStep
  BY DEF Next, Follow, FollowStep, SystemStep
<1> QED  BY <1>1, <1>2, SystemKeeps, SubmitKeeps, FollowReasoned
-----------------------------------------------------------------------------
\* The invariant holds of every reachable state.
THEOREM SubmittersInvariant == Spec => []FollowIInv
BY FollowInitially, SubmittersStep, PTL DEF Spec

\* Every variable keeps its type, for any array and submitters.
THEOREM SubmittersType == Spec => []TypeOK
<1>1. FollowIInv => TypeOK
  BY DEF FollowIInv
<1> QED  BY SubmittersInvariant, <1>1, PTL

\* A step that makes a verdict or leaves follow() has its reason.
CompletedStep ==
    verdict # "completed" /\ verdict' = "completed" /\ submitter \in {"condor", "slurm"} =>
       \A i \in Subjob : job[i] \in Ended \/ (submitter = "slurm" /\ job[i] = "suspended")
EarlyEndStep ==
    pc = "follow" /\ pc' = "over" /\ ~AllEnded =>
       \/ id = "none"
       \/ failures' > failures /\ ~(submitter = "condor" /\ json)
       \/ submitter \in {"condor", "slurm"} /\ \A i \in Subjob : job[i] \in Ended \cup {"suspended"}
       \/ submitter \in {"pbs", "lsf"} /\ \E i \in Subjob : job[i] \in Ended \cup {"suspended"}
       \/ submitter = "lsf" /\ \E i \in Subjob : job[i] = "held"
LEMMA StepHasReason == FollowIInv /\ [Next]_vars => CompletedStep /\ EarlyEndStep
<1> SUFFICES ASSUME FollowIInv, [Next]_vars PROVE CompletedStep /\ EarlyEndStep
  OBVIOUS
<1>1. CASE FollowStep
  <2>1. Reasoned
    BY <1>1, FollowReasoned
  <2> QED  BY <2>1 DEF Reasoned, CompletedStep, EarlyEndStep, VerdictReason, AllEnded
<1>2. CASE SystemStep
  <2>1. pc' = pc /\ verdict' = verdict
    BY <1>2, SystemMoves DEF FollowIInv, client
  <2> QED  BY <2>1 DEF CompletedStep, EarlyEndStep
<1>3. CASE Submit \/ SubmitFails \/ Appear \/ AppearFails
  <2>1. pc # "follow" /\ verdict' = verdict
    BY <1>3 DEF Submit, SubmitFails, Appear, AppearFails
  <2> QED  BY <2>1 DEF CompletedStep, EarlyEndStep
<1>4. CASE UNCHANGED vars
  BY <1>4 DEF vars, client, CompletedStep, EarlyEndStep
<1> QED  BY <1>1, <1>2, <1>3, <1>4 DEF Next, Follow, FollowStep, SystemStep

\* For an array of any size: Condor and Slurm do not take it for completed while a
\* subjob of it, other than one that Slurm's answer hides, can still run.
THEOREM CompletedCorrect == Spec => CompletedIsTrue
<1>1. FollowIInv /\ [Next]_vars => [CompletedStep]_vars
  BY StepHasReason
<1>2. Spec => [][CompletedStep]_vars
  BY SubmittersInvariant, <1>1, PTL DEF Spec
<1> QED  BY <1>2 DEF CompletedIsTrue, CompletedStep

\* For an array of any size and any number of failing queries: a step that leaves
\* follow() before the job is over has one of the known reasons at that moment.
THEOREM EarlyEndCorrect == Spec => EarlyEndHasReason
<1>1. FollowIInv /\ [Next]_vars => [EarlyEndStep]_vars
  BY StepHasReason
<1>2. Spec => [][EarlyEndStep]_vars
  BY SubmittersInvariant, <1>1, PTL DEF Spec
<1> QED  BY <1>2 DEF EarlyEndHasReason, EarlyEndStep
-----------------------------------------------------------------------------
(* What is recorded with a job, before the submitter takes over *)

\* What a spec has for a parameter: a set of one value or none.
Has(spec, p) == IF p \in DOMAIN spec THEN {spec[p]} ELSE {}

\* The specs so far have been combined, unless one of them was refused.
Combined(given, acc) ==
    \/ acc = NoSpec
    \/ /\ \A p : Asked(given, p) = Has(acc, p)
       /\ Len(given) > 1 => acc = [p \in DOMAIN acc |-> acc[p]]
       /\ \A i \in DOMAIN given : given[i] # NoSpec
CombineFold == INSTANCE LeftFold WITH Op <- CombineTwo, Keeps <- Combined

\* A later spec comes before those that were combined, at every level.
LEMMA OneMore ==
    ASSUME NEW S, NEW given \in Seq(S), NEW d, NEW u, NEW p, Asked(given, p) = Has(d, p)
    PROVE  Asked(Append(given, u), p) = Has(Update(d, u), p)
<1> DEFINE Says(spec) == p \in DOMAIN spec \/ (p \in DOMAIN Within /\ Within[p] \in DOMAIN spec)
           n == Len(given)
           more == Append(given, u)
           A == {i \in DOMAIN given : Says(given[i])}
           B == {i \in DOMAIN more : Says(more[i])}
           new == Update(d, u)
<1>1. /\ n \in Nat /\ DOMAIN given = 1 .. n /\ DOMAIN more = 1 .. n + 1
      /\ \A i \in 1 .. n : more[i] = given[i]
      /\ more[n + 1] = u
  OBVIOUS
<1>2. Asked(given, p) = {given[i][p] : i \in {j \in A : p \in DOMAIN given[j] /\ \A k \in A : k <= j}}
  BY DEF Asked
<1>3. Asked(more, p) = {more[i][p] : i \in {j \in B : p \in DOMAIN more[j] /\ \A k \in B : k <= j}}
  BY DEF Asked
<1>4. \A x : x \in DOMAIN new <=> x \in DOMAIN u \/
                 (x \in DOMAIN d /\ (x \in DOMAIN Within => Within[x] \notin DOMAIN u))
  BY DEF Update, Over
<1>5. \A x \in DOMAIN new : new[x] = IF x \in DOMAIN u THEN u[x] ELSE d[x]
  BY DEF Update, Over
<1> HIDE DEF more, new
<1>6. CASE Says(u)
  <2>1. n + 1 \in B /\ \A k \in B : k <= n + 1
    BY <1>1, <1>6
  <2>2. \A j \in B : (\A k \in B : k <= j) => j = n + 1
    BY <1>1, <2>1
  <2> HIDE DEF B
  <2>3. CASE p \in DOMAIN u
    <3>1. Asked(more, p) = {u[p]}
      BY <1>1, <1>3, <2>1, <2>2, <2>3
    <3>2. p \in DOMAIN new /\ new[p] = u[p]
      BY <1>4, <1>5, <2>3
    <3> QED BY <3>1, <3>2 DEF Has, more, new
  <2>4. CASE p \notin DOMAIN u
    <3>1. Asked(more, p) = {}
      BY <1>1, <1>3, <2>1, <2>2, <2>4
    <3>2. p \notin DOMAIN new
      BY <1>4, <1>6, <2>4
    <3> QED BY <3>1, <3>2 DEF Has, more, new
  <2> QED BY <2>3, <2>4
<1>7. CASE ~Says(u)
  <2>1. B = A
    BY <1>1, <1>7
  <2>2. \A j \in A : j \in 1 .. n
    BY <1>1
  <2> HIDE DEF A, B
  <2>3. Asked(more, p) = Asked(given, p)
    BY <1>1, <1>2, <1>3, <2>1, <2>2
  <2>4. p \in DOMAIN new <=> p \in DOMAIN d
    BY <1>4, <1>7
  <2>5. p \in DOMAIN new => new[p] = d[p]
    BY <1>5, <1>7
  <2> QED BY <2>3, <2>4, <2>5 DEF Has, more, new
<1> QED BY <1>6, <1>7

\* What combining makes of any number of specs: by induction over them.
LEMMA CombineAsAsked ==
    ASSUME NEW S, NEW given \in Seq(S), given # <<>>
    PROVE  Combined(given, Combine(given))
<1> DEFINE n == Len(Tail(given))
           upto == [i \in 0 .. n |-> SubSeq(given, 1, i + 1)]
<1>1. /\ n \in Nat /\ DOMAIN Tail(given) = 1 .. n /\ Len(given) = n + 1
      /\ \A i \in 1 .. n : Tail(given)[i] = given[i + 1]
      /\ Head(given) = given[1]
  OBVIOUS
<1>2. Combine(given) = CombineFold!Result(Head(given), Tail(given))
  BY DEF Combine, FoldLeft, MapThenFoldSet, Max, CombineFold!Result, CombineFold!FoldLeft,
         CombineFold!MapThenFoldSet, CombineFold!Max
<1>3. upto[n] = given
  BY <1>1
<1>4. Combined(upto[0], Head(given))
  <2>1. upto[0] = <<given[1]>>
    <3>1. upto[0] = SubSeq(given, 1, 1)
      BY <1>1
    <3>2. 1 \in 1 .. Len(given) /\ given[1] \in S
      BY <1>1
    <3>3. SubSeq(given, 1, 1) \in Seq(S) /\ Len(SubSeq(given, 1, 1)) = 1 /\ SubSeq(given, 1, 1)[1] = given[1]
      BY <1>1, <3>2, SubSeqProperties
    <3>4. <<given[1]>> \in Seq(S) /\ Len(<<given[1]>>) = 1 /\ <<given[1]>>[1] = given[1]
      BY <3>2
    <3>5. PICK s, t : s = SubSeq(given, 1, 1) /\ t = <<given[1]>>
      OBVIOUS
    <3>6. \A i \in 1 .. Len(s) : s[i] = t[i]
      BY <3>3, <3>4, <3>5
    <3>7. s = t
      BY <3>3, <3>4, <3>5, <3>6, SeqEqual
    <3> QED BY <3>1, <3>5, <3>7
  <2>2. ASSUME NEW u, NEW p PROVE Asked(<<u>>, p) = Has(u, p)
    <3>1. DOMAIN <<u>> = {1} /\ <<u>>[1] = u
      OBVIOUS
    <3> QED BY <3>1 DEF Asked, Has
  <2>3. ASSUME NEW u PROVE Combined(<<u>>, u)
    <3>1. ~(Len(<<u>>) > 1) /\ \A i \in DOMAIN <<u>> : <<u>>[i] = u
      OBVIOUS
    <3> QED BY <2>2, <3>1 DEF Combined
  <2> QED BY <1>1, <2>1, <2>3
<1>5. ASSUME NEW acc, NEW i \in DOMAIN Tail(given), Combined(upto[i - 1], acc)
      PROVE  Combined(upto[i], CombineTwo(acc, Tail(given)[i]))
  <2> DEFINE d == upto[i - 1]
             u == given[i + 1]
  <2>1. d \in Seq(S) /\ upto[i] = Append(d, u) /\ Tail(given)[i] = u
    BY <1>1
  <2> HIDE DEF d, u, upto
  <2>2. CASE NoSpec \in {acc, u} \/ Conflict(acc, u)
    BY <2>1, <2>2 DEF CombineTwo, Combined
  <2>3. CASE ~(NoSpec \in {acc, u} \/ Conflict(acc, u))
    <3>1. CombineTwo(acc, u) = Update(acc, u) /\ acc # NoSpec
      BY <2>3 DEF CombineTwo
    <3>2. \A p : Asked(d, p) = Has(acc, p)
      BY <1>5, <3>1 DEF Combined, d
    <3>3. \A p : Asked(Append(d, u), p) = Has(Update(acc, u), p)
      BY <2>1, <3>2, OneMore
    <3>4. Update(acc, u) = [p \in DOMAIN Update(acc, u) |-> Update(acc, u)[p]]
      BY DEF Update, Over
    <3>5. ASSUME NEW k \in DOMAIN Append(d, u) PROVE Append(d, u)[k] # NoSpec
      <4>0. PICK before : before = d
        OBVIOUS
      <4>1. /\ Len(before) \in Nat /\ DOMAIN before = 1 .. Len(before)
            /\ DOMAIN Append(before, u) = 1 .. Len(before) + 1
            /\ Append(before, u)[Len(before) + 1] = u
            /\ \A j \in 1 .. Len(before) : Append(before, u)[j] = before[j]
        BY <2>1, <4>0
      <4>2. u # NoSpec /\ acc # NoSpec
        BY <2>3
      <4>3. \A j \in DOMAIN before : before[j] # NoSpec
        BY <1>5, <3>1, <4>0 DEF Combined, d
      <4> QED BY <3>5, <4>0, <4>1, <4>2, <4>3
    <3> QED BY <2>1, <3>1, <3>3, <3>4, <3>5 DEF Combined
  <2> QED BY <2>2, <2>3
<1> HIDE DEF upto
<1>6. Combined(upto[n], CombineFold!Result(Head(given), Tail(given)))
  BY <1>1, <1>4, <1>5, CombineFold!FoldTracks
<1> QED BY <1>2, <1>3, <1>6

-----------------------------------------------------------------------------
\* Up to some names, a spec has for each parameter what its sources ask for.
Agrees(given, spec, names) == \A p : p \notin names => Asked(given, p) = Has(spec, p)
Computed == Internal \cup {"command"}
Known == {Text(s) : s \in KnownSubmitters}

\* What the specs are that are combined now.
Sought == Specs([sources |-> sources])

\* The inductive invariant: on the way to a job only names that the run computes
\* leave what the sources ask for, and then what it fills in.
SpecsIInv ==
    /\ JobSpecsTypeOK
    /\ progress \in {"resolve", "construct", "submit"} => Len(submitted) < runs
    /\ \E S : /\ submitted \in Seq(S)
              /\ \A made \in S : ParametersAsAsked(made) /\ made.record.submitter \in Known
    /\ progress = "resolve" => Agrees(Sought, jobSpec, {})
    /\ progress = "construct" => Agrees(Sought, jobSpec, Computed)
    /\ progress = "submit" =>
          /\ Agrees(Sought, jobSpec, Computed \cup {"orchestrator"})
          /\ "orchestrator" \in DOMAIN jobSpec
          /\ AskedSome(Sought, "orchestrator") # {} =>
                Asked(Sought, "orchestrator") = {jobSpec.orchestrator}
          /\ SubmitterOf(jobSpec) \in Known

\* What is put before a spec changes it under the new names only.
LEMMA OverKeeps ==
    ASSUME NEW u, NEW spec, NEW p, p \notin DOMAIN u
    PROVE  Has(Over(u, spec), p) = Has(spec, p)
<1>1. p \in DOMAIN Over(u, spec) <=> p \in DOMAIN spec
  BY DEF Over
<1>2. p \in DOMAIN spec => Over(u, spec)[p] = spec[p]
  BY DEF Over
<1> HIDE DEF Over
<1> QED BY <1>1, <1>2 DEF Has

\* What the run puts into a spec under names of its own changes nothing else.
LEMMA OverAgrees ==
    ASSUME NEW given, NEW u, NEW spec, NEW names, Agrees(given, spec, names), DOMAIN u \subseteq names
    PROVE  Agrees(given, Over(u, spec), names)
BY OverKeeps DEF Agrees

\* What agrees up to some names agrees up to more.
LEMMA MoreNames ==
    ASSUME NEW given, NEW spec, NEW names, NEW more, names \subseteq more, Agrees(given, spec, names)
    PROVE  Agrees(given, spec, more)
BY DEF Agrees

\* The specs are combined.
LEMMA LoadKeeps == ASSUME SpecsIInv, Load PROVE SpecsIInv'
<1>1. PICK files \in IF runs = 0 THEN {<<f>> : f \in SpecFile} \cup (SpecFile \X SpecFile)
                       ELSE UNION {{<<submitted[i].record>>} \cup
                                   {<<submitted[i].record, f>> : f \in SpecFile} : i \in DOMAIN submitted},
           given \in JobParameter, option \in Option :
         /\ sources' = [files |-> files, given |-> given, option |-> option]
         /\ LET spec == Combine(files \o <<given, option>>)
            IN  /\ progress' = IF spec = NoSpec THEN "failed" ELSE "resolve"
                /\ jobSpec' = IF spec = NoSpec THEN NoRecord ELSE spec
  BY DEF Load
<1>2. /\ progress \in {"idle", "failed"} /\ runs < MaxRuns /\ runs' = runs + 1
      /\ where' = Null /\ submitted' = submitted
  BY DEF Load
<1>3. \E a, b : files = <<a>> \/ files = <<a, b>>
  <2>1. CASE runs = 0
    BY <1>1, <2>1
  <2>2. CASE runs # 0
    BY <1>1, <2>2
  <2> QED BY <2>1, <2>2
<1>4. PICK a, b : files = <<a>> \/ files = <<a, b>>
  BY <1>3
<1> DEFINE specs == files \o <<given, option>>
<1>5. specs \in Seq({a, b, given, option}) /\ specs # <<>>
  <2> DEFINE D == {a, b, given, option}
  <2>1. files \in Seq(D) /\ Len(files) \in {1, 2}
    <3>1. <<a>> \in Seq(D) /\ Len(<<a>>) = 1
      OBVIOUS
    <3>2. <<a, b>> \in Seq(D) /\ Len(<<a, b>>) = 2
      OBVIOUS
    <3> HIDE DEF D
    <3> QED BY <1>4, <3>1, <3>2
  <2>2. <<given, option>> \in Seq(D) /\ Len(<<given, option>>) = 2
    OBVIOUS
  <2> HIDE DEF D
  <2>3. specs \in Seq(D) /\ Len(specs) = Len(files) + 2
    BY <2>1, <2>2
  <2>4. Len(<<>>) = 0
    OBVIOUS
  <2> QED BY <2>1, <2>3, <2>4 DEF D
<1>6. Combined(specs, Combine(specs))
  <2> HIDE DEF specs
  <2> QED BY <1>5, CombineAsAsked
<1>7. Sought' = specs
  BY <1>1 DEF Sought, Specs
<1> HIDE DEF specs
<1>8. progress' \in {"failed", "resolve"} /\ (progress' = "resolve" => Agrees(Sought', jobSpec', {}))
  <2>1. /\ progress' = IF Combine(specs) = NoSpec THEN "failed" ELSE "resolve"
        /\ jobSpec' = IF Combine(specs) = NoSpec THEN NoRecord ELSE Combine(specs)
    BY <1>1 DEF specs
  <2> QED BY <1>6, <1>7, <2>1 DEF Combined, Agrees
<1>9. JobSpecsTypeOK' /\ Len(submitted') < runs'
  <2>1. runs \in 0 .. MaxRuns /\ Len(submitted) <= runs /\ MaxRuns \in Nat
    BY JobSpecsAssumption DEF SpecsIInv, JobSpecsTypeOK
  <2>2. Len(submitted) \in Nat
    BY DEF SpecsIInv
  <2> QED BY <1>2, <1>8, <2>1, <2>2 DEF JobSpecsTypeOK
<1>10. \E S : /\ submitted' \in Seq(S)
              /\ \A made \in S : ParametersAsAsked(made) /\ made.record.submitter \in Known
  BY <1>2 DEF SpecsIInv
<1> QED BY <1>8, <1>9, <1>10 DEF SpecsIInv

\* Only computed names are added: the command, the records.
LEMMA ResolveKeeps == ASSUME SpecsIInv, Resolve PROVE SpecsIInv'
<1>1. progress = "resolve" /\ UNCHANGED <<runs, sources, typed, submitted>>
  BY DEF Resolve
<1>2. Agrees(Sought, jobSpec, {}) /\ JobSpecsTypeOK /\ Len(submitted) < runs
  BY <1>1 DEF SpecsIInv
<1>3. \/ progress' = "failed" /\ UNCHANGED <<jobSpec, where>>
      \/ /\ progress' = "construct"
         /\ where' \in {Text(i) : i \in DOMAIN NameOf}
         /\ jobSpec' = Over([_resolved_batch_parameters |-> ResolveBatchParameters(jobSpec)],
                            ResolveCommand(jobSpec))
  BY DEF Resolve, Resource
<1>4. Sought' = Sought
  BY <1>1 DEF Sought
<1>5. JobSpecsTypeOK'
  BY <1>1, <1>2, <1>3 DEF JobSpecsTypeOK
<1>6. progress' = "construct" => Agrees(Sought', jobSpec', Computed)
  <2>1. Agrees(Sought, jobSpec, Computed)
    BY <1>2, MoreNames
  <2>2. Agrees(Sought, ResolveCommand(jobSpec), Computed)
    <3> DEFINE one == [_resolved_command_str |-> jobSpec.command_str]
               command == IF typed.command = Null THEN jobSpec.command ELSE typed.command
               two == [command |-> command, _resolved_command_str |-> List(Elements(command))]
    <3>1. ResolveCommand(jobSpec) = Over(one, jobSpec) \/ ResolveCommand(jobSpec) = Over(two, jobSpec)
      BY DEF ResolveCommand
    <3>2. DOMAIN one \subseteq Computed /\ DOMAIN two \subseteq Computed
      BY DEF Computed, Internal
    <3> HIDE DEF one, two
    <3> QED BY <2>1, <3>1, <3>2, OverAgrees
  <2> DEFINE three == [_resolved_batch_parameters |-> ResolveBatchParameters(jobSpec)]
  <2>3. DOMAIN three \subseteq Computed
    BY DEF Computed, Internal
  <2>4. Agrees(Sought, Over(three, ResolveCommand(jobSpec)), Computed)
    <3> HIDE DEF three
    <3> QED BY <2>2, <2>3, OverAgrees
  <2> QED BY <1>3, <1>4, <2>4
<1>7. \E S : /\ submitted' \in Seq(S)
             /\ \A made \in S : ParametersAsAsked(made) /\ made.record.submitter \in Known
  BY <1>1 DEF SpecsIInv
<1> QED BY <1>1, <1>2, <1>3, <1>5, <1>6, <1>7 DEF SpecsIInv

\* Only computed names are added, and the orchestrator if none was named.
LEMMA ConstructKeeps == ASSUME SpecsIInv, Construct PROVE SpecsIInv'
<1>1. progress = "construct" /\ UNCHANGED <<runs, sources, typed, where, submitted>>
  BY DEF Construct
<1>2. Agrees(Sought, jobSpec, Computed) /\ JobSpecsTypeOK /\ Len(submitted) < runs
  BY <1>1 DEF SpecsIInv
<1> DEFINE spec == Over([orchestrator |-> OrchestratorOf(jobSpec)], jobSpec)
           names == Computed \cup {"orchestrator"}
<1>3. \/ progress' = "failed"
      \/ /\ progress' = "submit" /\ ~ConstructFails(jobSpec)
         /\ jobSpec' = IF spec.orchestrator = Text("plain") THEN Plain(spec)
                       ELSE FormatCommand(Contained(spec))
  BY DEF Construct
<1>4. Sought' = Sought
  BY <1>1 DEF Sought
<1>5. JobSpecsTypeOK'
  BY <1>1, <1>2, <1>3 DEF JobSpecsTypeOK
<1>6. ASSUME progress' = "submit"
      PROVE  \E s : /\ Agrees(Sought, jobSpec', names)
                    /\ \A p : p \notin Computed => Has(jobSpec', p) = Has(spec, p)
  <2>1. Agrees(Sought, spec, names)
    <3> DEFINE u == [orchestrator |-> OrchestratorOf(jobSpec)]
    <3>1. DOMAIN u \subseteq names
      OBVIOUS
    <3>2. Agrees(Sought, jobSpec, names)
      BY <1>2, MoreNames
    <3> HIDE DEF u, names
    <3>3. Agrees(Sought, Over(u, jobSpec), names)
      BY <3>1, <3>2, OverAgrees
    <3> QED BY <3>3 DEF u
  <2> HIDE DEF spec
  <2>2. ASSUME NEW p, p \notin Computed PROVE Has(jobSpec', p) = Has(spec, p)
    <3>1. CASE jobSpec' = Plain(spec)
      <4> DEFINE from == [_inputs_array |-> "inputs", _outputs_array |-> "outputs"]
                 arrays == [a \in {x \in DOMAIN from : from[x] \in DOMAIN spec} |-> PlainArray(spec, from[a])]
                 commands == [_command_array |-> List(<< <<spec._resolved_command_str, NoRecord>> >>)]
      <4>1. Plain(spec) = Over(arrays, Over(commands, spec))
        BY DEF Plain
      <4>2. p \notin DOMAIN arrays /\ p \notin DOMAIN commands
        BY <2>2 DEF Computed, Internal
      <4> HIDE DEF arrays, commands
      <4> QED BY <3>1, <4>1, <4>2, OverKeeps
    <3>2. CASE jobSpec' = FormatCommand(Contained(spec))
      <4>1. Has(Contained(spec), p) = Has(spec, p)
        <5> DEFINE u == [_container_command_str |-> <<"in", spec.container, spec._resolved_command_str>>,
                         _extra_inputs |-> List(<<spec.container[2]>>)]
        <5>1. Contained(spec) = spec \/ Contained(spec) = Over(u, spec)
          BY DEF Contained
        <5>2. p \notin DOMAIN u
          BY <2>2 DEF Computed, Internal
        <5> HIDE DEF u
        <5> QED BY <5>1, <5>2, OverKeeps
      <4>2. \A inner : Has(FormatCommand(inner), p) = Has(inner, p)
        <5> SUFFICES ASSUME NEW inner PROVE Has(FormatCommand(inner), p) = Has(inner, p)
          OBVIOUS
        <5> DEFINE command == IF "_container_command_str" \in DOMAIN inner
                              THEN inner._container_command_str ELSE inner._resolved_command_str
                   extra == IF "_extra_inputs" \in DOMAIN inner THEN inner._extra_inputs[2] ELSE <<>>
                   u == [_command_array |-> List([i \in DOMAIN Records(inner) |-> <<command, Records(inner)[i]>>]),
                         _inputs_array  |-> FormatArray(inner, "inputs"),
                         _outputs_array |-> FormatArray(inner, "outputs"),
                         _extra_inputs_array |->
                            List([i \in DOMAIN Records(inner) |-> {<<x, NoRecord>> : x \in ToSet(extra)}])]
        <5>1. FormatCommand(inner) = Over(u, inner)
          BY DEF FormatCommand
        <5>2. p \notin DOMAIN u
          BY <2>2 DEF Computed, Internal
        <5> HIDE DEF u
        <5> QED BY <5>1, <5>2, OverKeeps
      <4> QED BY <3>2, <4>1, <4>2
    <3> QED BY <1>3, <1>6, <3>1, <3>2 DEF spec
  <2>3. Agrees(Sought, jobSpec', names)
    BY <2>1, <2>2 DEF Agrees
  <2> QED BY <2>2, <2>3
<1>7. ASSUME progress' = "submit"
      PROVE  /\ Agrees(Sought', jobSpec', names)
             /\ "orchestrator" \in DOMAIN jobSpec'
             /\ AskedSome(Sought', "orchestrator") # {} =>
                   Asked(Sought', "orchestrator") = {jobSpec'.orchestrator}
             /\ SubmitterOf(jobSpec') \in Known
  <2>1. /\ Agrees(Sought, jobSpec', names)
        /\ \A p : p \notin Computed => Has(jobSpec', p) = Has(spec, p)
    BY <1>6, <1>7
  <2>2. "orchestrator" \notin Computed /\ "submitter" \notin Computed
    BY DEF Computed, Internal
  <2>3. Has(spec, "orchestrator") = {OrchestratorOf(jobSpec)}
    BY DEF Has, Over
  <2>4. "orchestrator" \in DOMAIN jobSpec' /\ jobSpec'.orchestrator = OrchestratorOf(jobSpec)
    BY <2>1, <2>2, <2>3 DEF Has
  <2>5. Asked(Sought, "orchestrator") = Has(jobSpec, "orchestrator")
    BY <1>2, <2>2 DEF Agrees
  <2>6. AskedSome(Sought, "orchestrator") # {} => Asked(Sought, "orchestrator") = {jobSpec'.orchestrator}
    BY <2>4, <2>5 DEF AskedSome, Has, OrchestratorOf
  <2>7. Has(jobSpec', "submitter") = Has(jobSpec, "submitter")
    <3>1. Has(spec, "submitter") = Has(jobSpec, "submitter")
      BY OverKeeps
    <3> QED BY <2>1, <2>2, <3>1
  <2>8. SubmitterOf(jobSpec') = SubmitterOf(jobSpec)
    BY <2>7 DEF Has, SubmitterOf, Given
  <2>9. SubmitterOf(jobSpec) \in Known
    BY <1>3, <1>7 DEF ConstructFails, Known
  <2> QED BY <1>4, <2>1, <2>4, <2>6, <2>8, <2>9
<1>8. \E S : /\ submitted' \in Seq(S)
             /\ \A made \in S : ParametersAsAsked(made) /\ made.record.submitter \in Known
  BY <1>1 DEF SpecsIInv
<1> QED BY <1>1, <1>2, <1>3, <1>5, <1>7, <1>8 DEF SpecsIInv

\* What is recorded are the parameters that were asked for.
LEMMA RegisterKeeps == ASSUME SpecsIInv, SubmitAndRegister PROVE SpecsIInv'
<1> DEFINE filled == [_jobid |-> runs, _num_subjobs |-> Len(jobSpec._command_array[2]),
                      root_directory |-> RootDirectory(jobSpec),
                      working_directory |-> WorkingDirectory(jobSpec, runs),
                      resource_id |-> where, resource_name |-> Text(NameOf[where[2]]),
                      submitter |-> SubmitterOf(jobSpec)]
           record == AsDict(jobSpec, runs)
           made == [sources |-> sources, typed |-> typed, record |-> record]
<1>1. /\ progress = "submit" /\ progress' = "idle" /\ submitted' = Append(submitted, made)
      /\ where' = Null /\ runs' = runs
  BY DEF SubmitAndRegister
<1>2. /\ JobSpecsTypeOK /\ Len(submitted) < runs
      /\ Agrees(Sought, jobSpec, Computed \cup {"orchestrator"})
      /\ "orchestrator" \in DOMAIN jobSpec
      /\ AskedSome(Sought, "orchestrator") # {} =>
            Asked(Sought, "orchestrator") = {jobSpec.orchestrator}
      /\ SubmitterOf(jobSpec) \in Known
  BY <1>1 DEF SpecsIInv
<1>3. /\ \A p : p \in DOMAIN record <=> p \in DOMAIN filled \/ p \in DOMAIN jobSpec
      /\ \A p \in DOMAIN filled : record[p] = filled[p]
      /\ \A p \in DOMAIN jobSpec \ DOMAIN filled : record[p] = jobSpec[p]
  <2>1. record = Over(filled, jobSpec)
    BY DEF AsDict
  <2> HIDE DEF filled, record
  <2> QED BY <2>1 DEF Over
<1>4. DOMAIN filled = {"_jobid", "_num_subjobs", "root_directory", "working_directory",
                       "resource_id", "resource_name", "submitter"}
  OBVIOUS
<1>5. record.orchestrator = jobSpec.orchestrator /\ record.submitter \in Known
  BY <1>2, <1>3, <1>4
<1>6. /\ made.sources = sources /\ made.record = record /\ Specs(made) = Sought
  BY DEF Specs, Sought
<1>7. filled.root_directory = RootDirectory(jobSpec) /\ filled.submitter = SubmitterOf(jobSpec)
      /\ filled.working_directory = WorkingDirectory(jobSpec, runs)
  OBVIOUS
<1> HIDE DEF filled, record, made
<1>8. ASSUME NEW p, p \notin Internal \cup FilledIn(made)
      PROVE  Asked(Sought, p) = Has(record, p)
  <2>1. p \notin Computed /\ p \notin {"resource_id", "resource_name"}
    BY <1>8 DEF Computed, FilledIn
  <2>2. p \in {"orchestrator", "submitter", "root_directory", "working_directory"} => AskedSome(Sought, p) # {}
    BY <1>6, <1>8 DEF FilledIn
  <2>3. p # "orchestrator" => Asked(Sought, p) = Has(jobSpec, p)
    BY <1>2, <2>1 DEF Agrees
  <2>4. p # "orchestrator" /\ AskedSome(Sought, p) # {} => Given(jobSpec, p) /\ Asked(Sought, p) = {jobSpec[p]}
    BY <2>3 DEF AskedSome, Has, Given
  <2>5. CASE p = "orchestrator"
    BY <1>2, <1>3, <1>5, <2>2, <2>5 DEF Has
  <2>6. CASE p = "root_directory"
    BY <1>3, <1>4, <1>7, <2>2, <2>4, <2>6 DEF Has, RootDirectory
  <2>7. CASE p = "submitter"
    BY <1>3, <1>4, <1>7, <2>2, <2>4, <2>7 DEF Has, SubmitterOf
  <2>8. CASE p = "working_directory"
    <3>1. jobSpec.orchestrator # Text("datalad-no-remote")
      BY <1>5, <1>6, <1>8, <2>8 DEF FilledIn
    <3>2. WorkingDirectory(jobSpec, runs) = jobSpec.working_directory
      BY <2>2, <2>4, <2>8, <3>1 DEF WorkingDirectory
    <3> QED BY <1>3, <1>4, <1>7, <2>2, <2>4, <2>8, <3>2 DEF Has
  <2>9. CASE p \notin {"orchestrator", "submitter", "root_directory", "working_directory"}
    <3>1. p \notin DOMAIN filled
      BY <1>4, <2>1, <2>9 DEF Computed, Internal
    <3> QED BY <1>3, <2>3, <2>9, <3>1 DEF Has
  <2> QED BY <2>5, <2>6, <2>7, <2>8, <2>9
<1>9. ParametersAsAsked(made)
  BY <1>6, <1>8 DEF ParametersAsAsked, Has
<1>10. \E S : /\ submitted' \in Seq(S)
              /\ \A m \in S : ParametersAsAsked(m) /\ m.record.submitter \in Known
  <2>1. PICK S : /\ submitted \in Seq(S)
                 /\ \A m \in S : ParametersAsAsked(m) /\ m.record.submitter \in Known
    BY DEF SpecsIInv
  <2>2. PICK before : before = submitted
    OBVIOUS
  <2>3. before \in Seq(S \cup {made})
    BY <2>1, <2>2
  <2>4. Append(before, made) \in Seq(S \cup {made})
    BY <2>3
  <2>5. \A m \in S \cup {made} : ParametersAsAsked(m) /\ m.record.submitter \in Known
    BY <1>5, <1>6, <1>9, <2>1
  <2> QED BY <1>1, <2>2, <2>4, <2>5
<1>11. JobSpecsTypeOK'
  <2>1. PICK before : before = submitted
    OBVIOUS
  <2>2. \E S : before \in Seq(S)
    BY <2>1 DEF SpecsIInv
  <2>3. Len(Append(before, made)) = Len(before) + 1 /\ Len(before) \in Nat
    BY <2>2
  <2>4. runs \in 0 .. MaxRuns
    BY <1>2 DEF JobSpecsTypeOK
  <2>5. Len(submitted') <= runs'
    BY <1>1, <1>2, <2>1, <2>3, <2>4
  <2> QED BY <1>1, <2>4, <2>5 DEF JobSpecsTypeOK
<1> QED BY <1>1, <1>10, <1>11 DEF SpecsIInv

\* The invariant holds at first.
LEMMA SpecsInitially == JobSpecsInit => SpecsIInv
<1> SUFFICES ASSUME JobSpecsInit PROVE SpecsIInv
  OBVIOUS
<1>1. progress = "idle" /\ runs = 0 /\ where = Null /\ submitted = <<>>
  BY DEF JobSpecsInit
<1>2. <<>> \in Seq({}) /\ Len(<<>>) = 0
  OBVIOUS
<1>3. JobSpecsTypeOK
  BY <1>1, <1>2, JobSpecsAssumption DEF JobSpecsTypeOK
<1>4. \E S : /\ submitted \in Seq(S)
             /\ \A made \in S : ParametersAsAsked(made) /\ made.record.submitter \in Known
  <2>1. \A made \in {} : ParametersAsAsked(made) /\ made.record.submitter \in Known
    OBVIOUS
  <2> QED BY <1>1, <1>2, <2>1
<1> QED BY <1>1, <1>3, <1>4 DEF SpecsIInv

\* A run that does nothing keeps the invariant.
LEMMA SpecsStay == ASSUME SpecsIInv, UNCHANGED jobSpecVars PROVE SpecsIInv'
<1>1. UNCHANGED <<progress, runs, sources, jobSpec, where, submitted>>
  BY DEF jobSpecVars
<1>2. JobSpecsTypeOK'
  BY <1>1 DEF SpecsIInv, JobSpecsTypeOK
<1>3. Sought' = Sought
  BY <1>1 DEF Sought
<1>4. \E S : /\ submitted' \in Seq(S)
             /\ \A made \in S : ParametersAsAsked(made) /\ made.record.submitter \in Known
  BY <1>1 DEF SpecsIInv
<1> QED BY <1>1, <1>2, <1>3, <1>4 DEF SpecsIInv

\* Every step of "reproman run" keeps the invariant.
LEMMA SpecsStep == ASSUME SpecsIInv, JobSpecsNext PROVE SpecsIInv'
BY LoadKeeps, ResolveKeeps, ConstructKeeps, RegisterKeeps DEF JobSpecsNext

\* The record a submitter is taken from names one of them.
LEMMA NamedSubmitter ==
    ASSUME SpecsIInv, submitted # <<>>
    PROVE  Last(submitted).record.submitter[2] \in KnownSubmitters
<1>1. PICK S : /\ submitted \in Seq(S)
               /\ \A made \in S : ParametersAsAsked(made) /\ made.record.submitter \in Known
  BY DEF SpecsIInv
<1>2. Last(submitted) \in S
  <2>1. Len(submitted) \in DOMAIN submitted
    BY <1>1
  <2> QED BY <1>1, <2>1 DEF Last
<1>3. PICK s \in KnownSubmitters : Last(submitted).record.submitter = Text(s)
  BY <1>1, <1>2 DEF Known
<1> QED BY <1>3 DEF Text

-----------------------------------------------------------------------------
(* What a job runs *)

\* Two sequences, one behind the other.
LEMMA ConcatenateTwo ==
    ASSUME NEW T, NEW s \in Seq(T), NEW t \in Seq(T), NEW once \in BOOLEAN,
           once => IsInjective(s) /\ IsInjective(t) /\ ToSet(s) \cap ToSet(t) = {}
    PROVE  /\ Concatenate(s, t) \in Seq(T) /\ (once => IsInjective(Concatenate(s, t)))
           /\ ToSet(Concatenate(s, t)) = ToSet(s) \cup ToSet(t)
<1> DEFINE m == Len(s)
           n == Len(t)
<1>1. PICK r : r = s \o t
  OBVIOUS
<1>2. /\ m \in Nat /\ n \in Nat /\ DOMAIN s = 1 .. m /\ DOMAIN t = 1 .. n
      /\ r \in Seq(T) /\ DOMAIN r = 1 .. m + n
      /\ \A i \in 1 .. m : r[i] = s[i]
      /\ \A i \in m + 1 .. m + n : r[i] = t[i - m]
  BY <1>1
<1> HIDE DEF m, n
<1>3. \A i \in 1 .. n : i + m \in m + 1 .. m + n /\ r[i + m] = t[i]
  BY <1>2
<1>4. ToSet(r) = ToSet(s) \cup ToSet(t)
  <2>1. ASSUME NEW x \in ToSet(r) PROVE x \in ToSet(s) \cup ToSet(t)
    <3>1. PICK i \in 1 .. m + n : x = r[i]
      BY <1>2, <2>1 DEF ToSet
    <3>2. CASE i <= m
      <4>1. i \in 1 .. m
        BY <1>2, <3>2
      <4> QED BY <1>2, <3>1, <4>1 DEF ToSet
    <3>3. CASE i > m
      <4>1. i \in m + 1 .. m + n /\ i - m \in 1 .. n
        BY <1>2, <3>3
      <4> QED BY <1>2, <3>1, <4>1 DEF ToSet
    <3> QED BY <1>2, <3>2, <3>3
  <2>2. ASSUME NEW x \in ToSet(s) PROVE x \in ToSet(r)
    <3>1. PICK i \in 1 .. m : x = s[i]
      BY <1>2, <2>2 DEF ToSet
    <3>2. i \in 1 .. m + n
      BY <1>2
    <3> QED BY <1>2, <3>1, <3>2 DEF ToSet
  <2>3. ASSUME NEW x \in ToSet(t) PROVE x \in ToSet(r)
    <3>1. PICK i \in 1 .. n : x = t[i]
      BY <1>2, <2>3 DEF ToSet
    <3>2. i + m \in 1 .. m + n
      BY <1>2
    <3> QED BY <1>2, <1>3, <3>1, <3>2 DEF ToSet
  <2> QED BY <2>1, <2>2, <2>3
<1>5. \A i \in 1 .. m : s[i] \in ToSet(s)
  BY <1>2 DEF ToSet
<1>6. \A i \in 1 .. n : t[i] \in ToSet(t)
  BY <1>2 DEF ToSet
<1>7. ASSUME once, NEW i \in 1 .. m + n, NEW j \in 1 .. m + n, r[i] = r[j] PROVE i = j
  <2>1. \A k \in 1 .. m + n : \/ k \in 1 .. m /\ r[k] = s[k] /\ s[k] \in ToSet(s)
                              \/ k \in m + 1 .. m + n /\ k - m \in 1 .. n /\ r[k] = t[k - m]
                                 /\ t[k - m] \in ToSet(t)
    BY <1>2, <1>5, <1>6
  <2>2. CASE i \in 1 .. m /\ j \in 1 .. m
    BY <1>2, <1>7, <2>2 DEF IsInjective
  <2>3. CASE i \in m + 1 .. m + n /\ j \in m + 1 .. m + n
    <3>1. i - m \in DOMAIN t /\ j - m \in DOMAIN t /\ t[i - m] = t[j - m]
      BY <1>2, <1>7, <2>3
    <3>2. i - m = j - m
      BY <1>7, <3>1 DEF IsInjective
    <3> QED BY <1>2, <3>2
  <2>4. ~(i \in 1 .. m /\ j \in m + 1 .. m + n) /\ ~(j \in 1 .. m /\ i \in m + 1 .. m + n)
    BY <1>2, <1>7, <2>1
  <2> QED BY <1>2, <2>2, <2>3, <2>4
<1> QED BY <1>1, <1>2, <1>4, <1>7 DEF Concatenate, IsInjective

\* The sequences so far are behind one another.
Gathered(c, acc) ==
    /\ acc \in Seq(c.all) /\ (c.once => IsInjective(acc))
    /\ ToSet(acc) = UNION {ToSet(c.seqs[j]) : j \in 1 .. c.upto}
ConcatenateFold == INSTANCE LeftFold WITH Op <- Concatenate, Keeps <- Gathered

\* Sequences behind one another.
Flat(seqs) == FoldLeft(Concatenate, <<>>, seqs)
\* Of sequences without repetitions that share nothing, each member comes once.
LEMMA GatherAll ==
    ASSUME NEW T, NEW n \in Nat, NEW seqs, seqs \in Seq(Seq(T)), Len(seqs) = n,
           NEW once \in BOOLEAN,
           once => /\ \A i \in 1 .. n : IsInjective(seqs[i])
                   /\ \A i, j \in 1 .. n : i # j => ToSet(seqs[i]) \cap ToSet(seqs[j]) = {}
    PROVE  Gathered([all |-> T, seqs |-> seqs, upto |-> n, once |-> once], Flat(seqs))
<1> DEFINE context == [i \in 0 .. n |-> [all |-> T, seqs |-> seqs, upto |-> i, once |-> once]]
<1>1. DOMAIN seqs = 1 .. n /\ \A i \in 1 .. n : seqs[i] \in Seq(T)
  OBVIOUS
<1>2. Flat(seqs) = ConcatenateFold!Result(<<>>, seqs)
  BY DEF Flat, FoldLeft, MapThenFoldSet, Max, ConcatenateFold!Result, ConcatenateFold!FoldLeft,
         ConcatenateFold!MapThenFoldSet, ConcatenateFold!Max
<1>3. Gathered(context[0], <<>>)
  <2>1. context[0].all = T /\ context[0].seqs = seqs /\ context[0].upto = 0
    OBVIOUS
  <2>2. <<>> \in Seq(T) /\ DOMAIN <<>> = {}
    OBVIOUS
  <2> HIDE DEF context
  <2> QED BY <2>1, <2>2 DEF Gathered, IsInjective, ToSet
<1>4. ASSUME NEW acc, NEW i \in DOMAIN seqs, Gathered(context[i - 1], acc)
      PROVE  Gathered(context[i], Concatenate(acc, seqs[i]))
  <2>1. i \in 1 .. n /\ i - 1 \in 0 .. n /\ i \in 0 .. n
    BY <1>1
  <2>2. /\ context[i].all = T /\ context[i].seqs = seqs /\ context[i].upto = i
        /\ context[i].once = once /\ context[i - 1].once = once
        /\ context[i - 1].all = T /\ context[i - 1].seqs = seqs /\ context[i - 1].upto = i - 1
    BY <2>1
  <2> HIDE DEF context
  <2>3. /\ acc \in Seq(T) /\ (once => IsInjective(acc))
        /\ ToSet(acc) = UNION {ToSet(seqs[j]) : j \in 1 .. i - 1}
    BY <1>4, <2>2 DEF Gathered
  <2>4. \A j \in 1 .. i - 1 : j \in 1 .. n /\ j # i
    BY <2>1
  <2>5. once => ToSet(acc) \cap ToSet(seqs[i]) = {}
    BY <2>1, <2>3, <2>4
  <2>6. /\ Concatenate(acc, seqs[i]) \in Seq(T) /\ (once => IsInjective(Concatenate(acc, seqs[i])))
        /\ ToSet(Concatenate(acc, seqs[i])) = ToSet(acc) \cup ToSet(seqs[i])
    BY <1>1, <2>1, <2>3, <2>5, ConcatenateTwo
  <2>7. \A j : j \in 1 .. i <=> j \in 1 .. i - 1 \/ j = i
    BY <2>1
  <2>8. ToSet(acc) \cup ToSet(seqs[i]) = UNION {ToSet(seqs[j]) : j \in 1 .. i}
    BY <2>3, <2>7
  <2> QED BY <2>2, <2>6, <2>8 DEF Gathered
<1>5. Len(seqs) \in Nat /\ context[n] = [all |-> T, seqs |-> seqs, upto |-> n, once |-> once]
  OBVIOUS
<1> HIDE DEF context
<1>6. Gathered(context[Len(seqs)], ConcatenateFold!Result(<<>>, seqs))
  BY <1>1, <1>3, <1>4, <1>5, ConcatenateFold!FoldTracks
<1> QED BY <1>2, <1>5, <1>6

\* The combinations of the first n batch parameters.
AllOf(params, n) ==
    {f \in [{params[i].key : i \in 1 .. n} -> UNION {ToSet(params[i].values) : i \in 1 .. n}] :
        \A i \in 1 .. n : f[params[i].key] \in ToSet(params[i].values)}

\* What they are, as functions.
LEMMA AllOfMembers ==
    ASSUME NEW params, NEW n \in Nat, NEW f
    PROVE  f \in AllOf(params, n) <=>
              /\ f = [k \in {params[i].key : i \in 1 .. n} |-> f[k]]
              /\ \A i \in 1 .. n : f[params[i].key] \in ToSet(params[i].values)
<1> DEFINE D == {params[i].key : i \in 1 .. n}
           R == UNION {ToSet(params[i].values) : i \in 1 .. n}
<1>1. ASSUME f = [k \in D |-> f[k]], \A i \in 1 .. n : f[params[i].key] \in ToSet(params[i].values)
      PROVE  f \in [D -> R]
  <2>1. \A k \in D : f[k] \in R
    BY <1>1
  <2> HIDE DEF D, R
  <2> QED BY <1>1, <2>1
<1>2. f \in [D -> R] => f = [k \in D |-> f[k]]
  OBVIOUS
<1> QED BY <1>1, <1>2 DEF AllOf

\* Each value of one more parameter with each combination so far.
LEMMA OneMoreParameter ==
    ASSUME NEW params, NEW n \in Nat, NEW acc, acc \in Seq(AllOf(params, n)), ToSet(acc) = AllOf(params, n),
           NEW V, params[n + 1].values \in Seq(V), NEW once \in BOOLEAN,
           once => IsInjective(acc) /\ IsInjective(params[n + 1].values),
           \A i \in 1 .. n : params[i].key # params[n + 1].key
    PROVE  LET new == WithValues(acc, params[n + 1])
           IN  /\ new \in Seq(AllOf(params, n + 1)) /\ (once => IsInjective(new))
               /\ ToSet(new) = AllOf(params, n + 1)
<1> DEFINE key == params[n + 1].key
           values == params[n + 1].values
           m == Len(acc)
           h == Len(values)
           Put(v, d) == Over([k \in {key} |-> v], d)
           seqs == [i \in 1 .. m |-> [j \in 1 .. h |-> Put(values[j], acc[i])]]
           T == AllOf(params, n + 1)
           keys == {params[i].key : i \in 1 .. n}
<1>1. /\ m \in Nat /\ h \in Nat /\ DOMAIN acc = 1 .. m /\ DOMAIN values = 1 .. h
      /\ \A i \in 1 .. m : acc[i] \in AllOf(params, n)
  OBVIOUS
<1>2. WithValues(acc, params[n + 1]) = Flat(seqs)
  BY <1>1 DEF WithValues, Flat
<1>3. key \notin keys /\ {params[i].key : i \in 1 .. n + 1} = keys \cup {key}
  <2>1. \A i : i \in 1 .. n + 1 <=> i \in 1 .. n \/ i = n + 1
    OBVIOUS
  <2> QED BY <2>1
<1>4. ASSUME NEW d \in AllOf(params, n), NEW v
      PROVE  /\ d = [k \in keys |-> d[k]]
             /\ Put(v, d) = [k \in keys \cup {key} |-> IF k = key THEN v ELSE d[k]]
  <2>1. d = [k \in keys |-> d[k]]
    <3>1. d \in [keys -> UNION {ToSet(params[i].values) : i \in 1 .. n}]
      BY DEF AllOf
    <3> HIDE DEF keys
    <3> QED BY <3>1
  <2>2. DOMAIN d = keys
    BY <2>1
  <2> QED BY <2>1, <2>2 DEF Over
<1>5. ASSUME NEW d \in AllOf(params, n), NEW v \in ToSet(values)
      PROVE  Put(v, d) \in T
  <2> DEFINE f == Put(v, d)
  <2>1. f = [k \in keys \cup {key} |-> IF k = key THEN v ELSE d[k]]
    BY <1>4
  <2>2. \A i \in 1 .. n : d[params[i].key] \in ToSet(params[i].values)
    BY AllOfMembers
  <2>3. f = [k \in keys \cup {key} |-> f[k]]
    BY <2>1
  <2>4. ASSUME NEW i \in 1 .. n + 1 PROVE f[params[i].key] \in ToSet(params[i].values)
    <3>1. CASE i = n + 1
      BY <2>1, <3>1
    <3>2. CASE i # n + 1
      <4>1. i \in 1 .. n
        BY <3>2
      <4>2. params[i].key \in keys /\ params[i].key # key
        BY <4>1
      <4>3. f[params[i].key] = d[params[i].key]
        BY <2>1, <4>2
      <4> QED BY <2>2, <4>1, <4>3
    <3> QED BY <3>1, <3>2
  <2> HIDE DEF f, keys, key
  <2>5. f = [k \in {params[i].key : i \in 1 .. n + 1} |-> f[k]]
    BY <1>3, <2>3
  <2>6. f \in AllOf(params, n + 1)
    BY <2>4, <2>5, AllOfMembers, n + 1 \in Nat
  <2> QED BY <2>6 DEF f
<1>6. ASSUME NEW f \in T
      PROVE  \E d \in AllOf(params, n), v \in ToSet(values) : f = Put(v, d)
  <2> DEFINE d == [k \in keys |-> f[k]]
  <2>1. /\ f = [k \in {params[i].key : i \in 1 .. n + 1} |-> f[k]]
        /\ \A i \in 1 .. n + 1 : f[params[i].key] \in ToSet(params[i].values)
    BY AllOfMembers, n + 1 \in Nat
  <2>2. d = [k \in keys |-> d[k]]
    OBVIOUS
  <2>3. \A i \in 1 .. n : d[params[i].key] \in ToSet(params[i].values)
    <3>1. \A i \in 1 .. n : i \in 1 .. n + 1 /\ params[i].key \in keys
      OBVIOUS
    <3> QED BY <2>1, <3>1
  <2>4. d \in AllOf(params, n)
    <3> HIDE DEF d
    <3> QED BY <2>2, <2>3, AllOfMembers
  <2>5. f[key] \in ToSet(values)
    <3>1. n + 1 \in 1 .. n + 1
      OBVIOUS
    <3> QED BY <2>1, <3>1
  <2>6. f = Put(f[key], d)
    <3>1. Put(f[key], d) = [k \in keys \cup {key} |-> IF k = key THEN f[key] ELSE d[k]]
      BY <1>4, <2>4
    <3>2. f = [k \in keys \cup {key} |-> f[k]]
      BY <1>3, <2>1
    <3>3. \A k \in keys \cup {key} : f[k] = IF k = key THEN f[key] ELSE d[k]
      OBVIOUS
    <3> HIDE DEF d, keys, key, Put
    <3> QED BY <3>1, <3>2, <3>3
  <2> QED BY <2>4, <2>5, <2>6
<1>7. ASSUME NEW i \in 1 .. m PROVE seqs[i] = [j \in 1 .. h |-> Put(values[j], acc[i])]
  OBVIOUS
<1>8. \A j \in 1 .. h : values[j] \in ToSet(values)
  BY <1>1 DEF ToSet
<1>9. ASSUME NEW i \in 1 .. m, NEW j \in 1 .. h
      PROVE  /\ Put(values[j], acc[i]) \in T /\ Put(values[j], acc[i])[key] = values[j]
             /\ acc[i] = [k \in keys |-> Put(values[j], acc[i])[k]]
  <2>1. acc[i] \in AllOf(params, n) /\ values[j] \in ToSet(values)
    BY <1>1, <1>8
  <2>2. Put(values[j], acc[i]) \in T
    BY <1>5, <2>1
  <2> DEFINE f == Put(values[j], acc[i])
  <2>3. /\ f = [k \in keys \cup {key} |-> IF k = key THEN values[j] ELSE acc[i][k]]
        /\ acc[i] = [k \in keys |-> acc[i][k]]
    BY <1>4, <2>1
  <2> HIDE DEF f, keys, key, T
  <2>4. f[key] = values[j]
    BY <2>3
  <2>5. \A k \in keys : f[k] = acc[i][k]
    BY <1>3, <2>3
  <2>6. acc[i] = [k \in keys |-> f[k]]
    BY <2>3, <2>5
  <2> QED BY <2>2, <2>4, <2>6 DEF f
<1>10. seqs \in Seq(Seq(T)) /\ Len(seqs) = m
  <2>1. \A i \in 1 .. m : seqs[i] \in Seq(T)
    <3> SUFFICES ASSUME NEW i \in 1 .. m PROVE seqs[i] \in Seq(T)
      OBVIOUS
    <3> DEFINE F(j) == Put(values[j], acc[i])
    <3>1. \A j \in 1 .. h : F(j) \in T
      BY <1>9
    <3> HIDE DEF F, T
    <3>2. [j \in 1 .. h |-> F(j)] \in Seq(T)
      BY <1>1, <3>1
    <3> QED BY <1>7, <3>2 DEF F
  <2>2. seqs = [i \in 1 .. m |-> seqs[i]]
    OBVIOUS
  <2> HIDE DEF seqs, T
  <2> QED BY <1>1, <2>1, <2>2
<1>11. ASSUME once, NEW i \in 1 .. m PROVE IsInjective(seqs[i])
  <2>1. ASSUME NEW j \in 1 .. h, NEW k \in 1 .. h, Put(values[j], acc[i]) = Put(values[k], acc[i])
        PROVE  j = k
    <3>1. values[j] = values[k]
      <4>1. Put(values[j], acc[i])[key] = values[j] /\ Put(values[k], acc[i])[key] = values[k]
        BY <1>9
      <4> HIDE DEF Put, T, key, values
      <4> QED BY <2>1, <4>1
    <3> QED BY <1>1, <1>11, <3>1 DEF IsInjective
  <2> HIDE DEF Put
  <2> QED BY <1>7, <2>1 DEF IsInjective
<1>12. ASSUME NEW i \in 1 .. m PROVE ToSet(seqs[i]) = {Put(values[j], acc[i]) : j \in 1 .. h}
  <2>1. DOMAIN seqs[i] = 1 .. h /\ \A j \in 1 .. h : seqs[i][j] = Put(values[j], acc[i])
    BY <1>7
  <2> HIDE DEF Put, seqs
  <2> QED BY <2>1 DEF ToSet
<1>13. ASSUME once, NEW i \in 1 .. m, NEW l \in 1 .. m, i # l PROVE ToSet(seqs[i]) \cap ToSet(seqs[l]) = {}
  <2>1. ASSUME NEW j \in 1 .. h, NEW o \in 1 .. h, Put(values[j], acc[i]) = Put(values[o], acc[l])
        PROVE  FALSE
    <3>1. acc[i] = acc[l]
      <4> DEFINE F(d) == [k \in keys |-> d[k]]
      <4>1. acc[i] = F(Put(values[j], acc[i])) /\ acc[l] = F(Put(values[o], acc[l]))
        BY <1>9
      <4> HIDE DEF F, Put
      <4> QED BY <2>1, <4>1
    <3> QED BY <1>1, <1>13, <3>1 DEF IsInjective
  <2> HIDE DEF Put, seqs
  <2>2. /\ ToSet(seqs[i]) = {Put(values[j], acc[i]) : j \in 1 .. h}
        /\ ToSet(seqs[l]) = {Put(values[j], acc[l]) : j \in 1 .. h}
    BY <1>12
  <2> QED BY <2>1, <2>2
<1> DEFINE new == WithValues(acc, params[n + 1])
<1>14. Gathered([all |-> T, seqs |-> seqs, upto |-> m, once |-> once], new)
  <2>1. once => /\ \A i \in 1 .. m : IsInjective(seqs[i])
                /\ \A i, l \in 1 .. m : i # l => ToSet(seqs[i]) \cap ToSet(seqs[l]) = {}
    BY <1>11, <1>13
  <2> HIDE DEF seqs, T, m, new
  <2>2. Gathered([all |-> T, seqs |-> seqs, upto |-> m, once |-> once], Flat(seqs))
    BY <1>1, <1>10, <2>1, GatherAll
  <2> QED BY <1>2, <2>2 DEF new
<1>15. /\ new \in Seq(T) /\ (once => IsInjective(new))
       /\ ToSet(new) = UNION {ToSet(seqs[i]) : i \in 1 .. m}
  <2> HIDE DEF seqs, T, m, new
  <2> QED BY <1>14 DEF Gathered
<1>16. UNION {ToSet(seqs[i]) : i \in 1 .. m} = T
  <2>1. ASSUME NEW f \in T PROVE \E i \in 1 .. m : f \in ToSet(seqs[i])
    <3>1. PICK d \in AllOf(params, n) : \E v \in ToSet(values) : f = Put(v, d)
      BY <1>6, <2>1
    <3>2. PICK v \in ToSet(values) : f = Put(v, d)
      BY <3>1
    <3>3. PICK i \in 1 .. m : d = acc[i]
      BY <1>1 DEF ToSet
    <3>4. PICK j \in 1 .. h : v = values[j]
      BY <1>1 DEF ToSet
    <3> HIDE DEF Put, seqs
    <3> QED BY <1>12, <3>2, <3>3, <3>4
  <2>2. ASSUME NEW i \in 1 .. m, NEW f \in ToSet(seqs[i]) PROVE f \in T
    <3> HIDE DEF Put, seqs, T
    <3>1. PICK j \in 1 .. h : f = Put(values[j], acc[i])
      BY <1>12, <2>2
    <3> QED BY <1>9, <3>1
  <2> HIDE DEF seqs, T, m
  <2> QED BY <2>1, <2>2
<1> QED BY <1>15, <1>16

\* The first parameters are combined.
Product(c, acc) ==
    /\ acc \in Seq(AllOf(c.params, c.upto)) /\ (c.once => IsInjective(acc))
    /\ ToSet(acc) = AllOf(c.params, c.upto)
ProductFold == INSTANCE LeftFold WITH Op <- WithValues, Keeps <- Product

\* Every combination of the values comes, and once if every value does.
LEMMA CombineEach ==
    ASSUME NEW S, NEW params \in Seq(S),
           \A i \in DOMAIN params : params[i].values \in Seq(ToSet(params[i].values)),
           NEW once \in BOOLEAN, once => \A i \in DOMAIN params : IsInjective(params[i].values),
           \A i, j \in DOMAIN params : i # j => params[i].key # params[j].key
    PROVE  /\ CombineBatchParams(params) \in Seq(AllOf(params, Len(params)))
           /\ once => IsInjective(CombineBatchParams(params))
           /\ ToSet(CombineBatchParams(params)) = AllOf(params, Len(params))
<1> DEFINE n == Len(params)
           context == [i \in 0 .. n |-> [params |-> params, upto |-> i, once |-> once]]
<1>1. n \in Nat /\ DOMAIN params = 1 .. n
  OBVIOUS
<1>2. CombineBatchParams(params) = ProductFold!Result(<<NoRecord>>, params)
  BY DEF CombineBatchParams, FoldLeft, MapThenFoldSet, Max, ProductFold!Result, ProductFold!FoldLeft,
         ProductFold!MapThenFoldSet, ProductFold!Max
<1> HIDE DEF n
<1>3. Product(context[0], <<NoRecord>>)
  <2>1. context[0].params = params /\ context[0].upto = 0
    BY <1>1
  <2>2. AllOf(params, 0) = {NoRecord}
    <3>1. ASSUME NEW f PROVE f \in AllOf(params, 0) <=> f = NoRecord
      <4>1. f \in AllOf(params, 0) <=>
              /\ f = [k \in {params[i].key : i \in 1 .. 0} |-> f[k]]
              /\ \A i \in 1 .. 0 : f[params[i].key] \in ToSet(params[i].values)
        BY AllOfMembers
      <4>2. \A i : i \notin 1 .. 0
        OBVIOUS
      <4>3. {params[i].key : i \in 1 .. 0} = {}
        BY <4>2
      <4>4. [k \in {} |-> f[k]] = [k \in {} |-> Null]
        OBVIOUS
      <4> QED BY <4>1, <4>2, <4>3, <4>4 DEF NoRecord
    <3> QED BY <3>1
  <2> DEFINE one == <<NoRecord>>
  <2>3. one \in Seq({NoRecord}) /\ DOMAIN one = {1} /\ one[1] = NoRecord
    OBVIOUS
  <2> HIDE DEF one, context
  <2>4. IsInjective(one) /\ ToSet(one) = {NoRecord}
    BY <2>3 DEF IsInjective, ToSet
  <2>5. Product(context[0], one)
    BY <2>1, <2>2, <2>3, <2>4 DEF Product
  <2> QED BY <2>5 DEF one
<1>4. ASSUME NEW acc, NEW i \in DOMAIN params, Product(context[i - 1], acc)
      PROVE  Product(context[i], WithValues(acc, params[i]))
  <2>1. i \in 1 .. n /\ i - 1 \in 0 .. n /\ i \in 0 .. n /\ (i - 1) + 1 = i
    BY <1>1
  <2>2. /\ context[i].params = params /\ context[i].upto = i
        /\ context[i].once = once /\ context[i - 1].once = once
        /\ context[i - 1].params = params /\ context[i - 1].upto = i - 1
    BY <2>1
  <2> HIDE DEF context
  <2> DEFINE k == i - 1
  <2>3. /\ acc \in Seq(AllOf(params, k)) /\ (once => IsInjective(acc))
        /\ ToSet(acc) = AllOf(params, k)
    BY <1>4, <2>2 DEF Product
  <2>4. k \in Nat /\ k + 1 = i /\ \A j \in 1 .. k : j \in DOMAIN params /\ j # i
    BY <1>1, <2>1
  <2> HIDE DEF k
  <2>5. \A j \in 1 .. k : params[j].key # params[k + 1].key
    BY <2>4
  <2>6. /\ params[k + 1].values \in Seq(ToSet(params[k + 1].values))
        /\ once => IsInjective(params[k + 1].values)
    BY <2>4
  <2> DEFINE new == WithValues(acc, params[k + 1])
  <2>7. /\ new \in Seq(AllOf(params, k + 1)) /\ (once => IsInjective(new))
        /\ ToSet(new) = AllOf(params, k + 1)
    BY <2>3, <2>4, <2>5, <2>6, OneMoreParameter
  <2>8. new = WithValues(acc, params[i])
    BY <2>4
  <2> HIDE DEF new
  <2> QED BY <2>2, <2>4, <2>7, <2>8 DEF Product
<1>5. Len(params) = n /\ context[n].params = params /\ context[n].upto = n /\ context[n].once = once
  BY <1>1 DEF n
<1> HIDE DEF context
<1>6. Product(context[Len(params)], ProductFold!Result(<<NoRecord>>, params))
  BY <1>1, <1>3, <1>4, <1>5, ProductFold!FoldTracks
<1> QED BY <1>2, <1>5, <1>6 DEF Product

\* A sequence without repetitions is as long as the set of its members is large.
LEMMA LengthIsSize ==
    ASSUME NEW S, NEW s \in Seq(S), IsInjective(s)
    PROVE  Cardinality(ToSet(s)) = Len(s)
<1>1. Len(s) \in Nat /\ DOMAIN s = 1 .. Len(s) /\ s = [i \in 1 .. Len(s) |-> s[i]]
  OBVIOUS
<1> DEFINE n == Len(s)
<1> HIDE DEF n
<1>2. \A i \in 1 .. n : s[i] \in ToSet(s)
  BY <1>1 DEF ToSet, n
<1>3. s \in [1 .. n -> ToSet(s)]
  BY <1>1, <1>2 DEF n
<1>4. s \in Bijection(1 .. n, ToSet(s))
  <2>1. \A a, b \in 1 .. n : s[a] = s[b] => a = b
    BY <1>1 DEF IsInjective, n
  <2>2. \A t \in ToSet(s) : \E a \in 1 .. n : s[a] = t
    BY <1>1 DEF ToSet, n
  <2> QED BY <1>3, <2>1, <2>2 DEF Bijection, Injection, Surjection, IsInjective
<1>5. ExistsBijection(1 .. n, ToSet(s))
  BY <1>4 DEF ExistsBijection
<1>6. n \in Nat
  BY <1>1 DEF n
<1> QED BY <1>5, <1>6, FS_CountingElements DEF n

-----------------------------------------------------------------------------
\* What a spec has once the command is formed, t being what was typed.
Commanded(s, t) ==
    /\ "_resolved_command_str" \in DOMAIN s
    /\ "command_str" \in DOMAIN s /\ t = Null => s._resolved_command_str = s.command_str
    /\ ~("command_str" \in DOMAIN s /\ t = Null) =>
          "command" \in DOMAIN s /\ s._resolved_command_str = List(Elements(s.command))
    /\ t # Null => s.command = t

\* ... once the batch parameters are records.
Batched(s) ==
    /\ ~BatchFails(s)
    /\ "_resolved_batch_parameters" \in DOMAIN s
    /\ s._resolved_batch_parameters = ResolveBatchParameters(s)
    /\ "batch_parameters" \in DOMAIN s => Combinable(s.batch_parameters)

\* ... once the orchestrator has formed the commands and files of the subjobs.
PlainFields(s) ==
    /\ ~Given(s, "_resolved_batch_parameters")
    /\ "_command_array" \in DOMAIN s /\ s._command_array = List(<< <<s._resolved_command_str, NoRecord>> >>)
    /\ "inputs" \in DOMAIN s => "_inputs_array" \in DOMAIN s /\ s._inputs_array = PlainArray(s, "inputs")
    /\ "outputs" \in DOMAIN s => "_outputs_array" \in DOMAIN s /\ s._outputs_array = PlainArray(s, "outputs")
ContainerFields(s) ==
    ValueOf(s, "container") # Null =>
        /\ "_container_command_str" \in DOMAIN s
        /\ s._container_command_str = <<"in", s.container, s._resolved_command_str>>
        /\ "_extra_inputs" \in DOMAIN s /\ s._extra_inputs = List(<<s.container[2]>>)
Formed(s) ==
    IF "_container_command_str" \in DOMAIN s THEN s._container_command_str ELSE s._resolved_command_str
Extra(s) == IF "_extra_inputs" \in DOMAIN s THEN s._extra_inputs[2] ELSE <<>>
ExtraOf(s) == {<<x, NoRecord>> : x \in ToSet(Extra(s))}
ArrayFields(s) ==
    /\ {"_command_array", "_inputs_array", "_outputs_array", "_extra_inputs_array"} \subseteq DOMAIN s
    /\ s._command_array = List([i \in DOMAIN Records(s) |-> <<Formed(s), Records(s)[i]>>])
    /\ s._inputs_array = FormatArray(s, "inputs")
    /\ s._outputs_array = FormatArray(s, "outputs")
    /\ s._extra_inputs_array = List([i \in DOMAIN Records(s) |-> ExtraOf(s)])
Formatted(s) ==
    /\ "orchestrator" \in DOMAIN s
    /\ s.orchestrator = Text("plain") => PlainFields(s)
    /\ s.orchestrator # Text("plain") => ContainerFields(s) /\ ArrayFields(s)

\* What a record brings along does not count unless it is used.
Leftover(s) ==
    /\ "_extra_inputs" \in DOMAIN s => "_container_command_str" \in DOMAIN s
    /\ "_container_command_str" \notin DOMAIN s => IOSet(s, "_extra_inputs_array", 1) = {}
    /\ "inputs" \notin DOMAIN s => IOSet(s, "_inputs_array", 1) = {}
    /\ "outputs" \notin DOMAIN s => IOSet(s, "_outputs_array", 1) = {}

\* The names that these facts are about.
CommandNames == {"command", "command_str", "_resolved_command_str"}
BatchNames == {"batch_spec", "batch_parameters", "_resolved_batch_parameters"}
ContainerNames == {"_container_command_str", "_extra_inputs"}
ArrayNames == {"_command_array", "_inputs_array", "_outputs_array", "_extra_inputs_array"}
FileNames == {"inputs", "outputs"}
FormatNames ==
    {"orchestrator", "container", "_resolved_command_str", "_resolved_batch_parameters"}
    \cup ContainerNames \cup ArrayNames \cup FileNames

\* Specs that have the same for some names.
Alike(s, t, names) == \A p \in names : Has(s, p) = Has(t, p)

\* Of specs that are alike, one has what the other has.
LEMMA AlikeValues ==
    ASSUME NEW s, NEW t, NEW names, Alike(s, t, names), NEW p \in names
    PROVE  /\ p \in DOMAIN s <=> p \in DOMAIN t
           /\ p \in DOMAIN s => s[p] = t[p]
BY DEF Alike, Has

\* Whether a parameter is given, and as what, is seen from what a spec has for it.
LEMMA AlikeGiven ==
    ASSUME NEW s, NEW t, NEW p, Has(s, p) = Has(t, p)
    PROVE  Given(s, p) = Given(t, p) /\ ValueOf(s, p) = ValueOf(t, p)
BY DEF Has, Given, ValueOf

\* The facts about commands are about their names only.
LEMMA AlikeCommanded ==
    ASSUME NEW s, NEW t, NEW c, Alike(s, t, CommandNames), Commanded(s, c)
    PROVE  Commanded(t, c)
<1>1. \A p \in CommandNames : (p \in DOMAIN s <=> p \in DOMAIN t) /\ (p \in DOMAIN s => s[p] = t[p])
  BY AlikeValues
<1>2. {"command", "command_str", "_resolved_command_str"} \subseteq CommandNames
  BY DEF CommandNames
<1>3. c # Null => "command" \in DOMAIN s
  BY DEF Commanded
<1> QED BY <1>1, <1>2, <1>3 DEF Commanded

\* ... those about records, too.
LEMMA AlikeBatched ==
    ASSUME NEW s, NEW t, Alike(s, t, BatchNames), Batched(s)
    PROVE  Batched(t)
<1>1. \A p \in BatchNames : /\ (p \in DOMAIN s <=> p \in DOMAIN t) /\ (p \in DOMAIN s => s[p] = t[p])
                            /\ Given(s, p) = Given(t, p)
  BY AlikeValues, AlikeGiven DEF Alike
<1>2. {"batch_spec", "batch_parameters", "_resolved_batch_parameters"} \subseteq BatchNames
  BY DEF BatchNames
<1>3. Given(s, "batch_parameters") => "batch_parameters" \in DOMAIN s
  BY DEF Given
<1>4. BatchFails(s) = BatchFails(t)
  BY <1>1, <1>2, <1>3 DEF BatchFails
<1>5. ResolveBatchParameters(s) = ResolveBatchParameters(t)
  BY <1>1, <1>2, <1>3 DEF ResolveBatchParameters
<1> QED BY <1>1, <1>2, <1>4, <1>5 DEF Batched

\* ... and the files of a subjob are about one name.
LEMMA AlikeIOSet ==
    ASSUME NEW s, NEW t, NEW which, NEW i, Has(s, which) = Has(t, which)
    PROVE  IOSet(s, which, i) = IOSet(t, which, i)
BY DEF Has, IOSet

\* ... what is left over is about containers, arrays and files.
LEMMA AlikeLeftover ==
    ASSUME NEW s, NEW t, Alike(s, t, ContainerNames \cup ArrayNames \cup FileNames), Leftover(s)
    PROVE  Leftover(t)
<1> DEFINE N == ContainerNames \cup ArrayNames \cup FileNames
<1>1. \A p \in N : (p \in DOMAIN s <=> p \in DOMAIN t) /\ Has(s, p) = Has(t, p)
  BY AlikeValues DEF Alike
<1>2. {"_extra_inputs", "_container_command_str", "_extra_inputs_array", "_inputs_array",
       "_outputs_array", "inputs", "outputs"} \subseteq N
  BY DEF ContainerNames, ArrayNames, FileNames
<1> HIDE DEF N
<1>3. \A p \in N : IOSet(s, p, 1) = IOSet(t, p, 1)
  BY <1>1, AlikeIOSet
<1> QED BY <1>1, <1>2, <1>3 DEF Leftover

\* What the orchestrator forms is formed from few names.
LEMMA AlikeArrays ==
    ASSUME NEW s, NEW t, NEW names, Alike(s, t, names),
           {"_resolved_command_str", "_resolved_batch_parameters"} \cup FileNames \subseteq names,
           {"_resolved_command_str", "_resolved_batch_parameters"} \subseteq DOMAIN s
    PROVE  /\ Records(s) = Records(t) /\ s._resolved_command_str = t._resolved_command_str
           /\ \A key \in FileNames : /\ FormatArray(s, key) = FormatArray(t, key)
                                     /\ key \in DOMAIN s => PlainArray(s, key) = PlainArray(t, key)
           /\ ContainerNames \subseteq names => Formed(s) = Formed(t) /\ ExtraOf(s) = ExtraOf(t)
<1>1. \A p \in names : (p \in DOMAIN s <=> p \in DOMAIN t) /\ (p \in DOMAIN s => s[p] = t[p])
  BY AlikeValues
<1>2. Records(s) = Records(t) /\ s._resolved_command_str = t._resolved_command_str
  BY <1>1 DEF Records
<1>3. ASSUME NEW key \in FileNames
      PROVE  /\ FormatArray(s, key) = FormatArray(t, key)
             /\ key \in DOMAIN s => PlainArray(s, key) = PlainArray(t, key)
  <2>1. key \in names
    OBVIOUS
  <2>2. key \in DOMAIN s <=> key \in DOMAIN t
    BY <1>1, <2>1
  <2>3. key \in DOMAIN s => s[key] = t[key]
    BY <1>1, <2>1
  <2> QED BY <1>2, <2>2, <2>3 DEF FormatArray, PlainArray
<1>4. ASSUME ContainerNames \subseteq names PROVE Formed(s) = Formed(t) /\ ExtraOf(s) = ExtraOf(t)
  <2>1. "_container_command_str" \in names /\ "_extra_inputs" \in names
    BY <1>4 DEF ContainerNames
  <2>2. Formed(s) = Formed(t)
    BY <1>1, <1>2, <2>1 DEF Formed
  <2>3. Extra(s) = Extra(t)
    BY <1>1, <2>1 DEF Extra
  <2> QED BY <2>2, <2>3 DEF ExtraOf
<1> QED BY <1>2, <1>3, <1>4

\* The facts about what is formed are about those names and the formed ones.
LEMMA AlikeFormatted ==
    ASSUME NEW s, NEW t, Alike(s, t, FormatNames), Formatted(s),
           {"_resolved_command_str", "_resolved_batch_parameters"} \subseteq DOMAIN s
    PROVE  Formatted(t)
<1>1. \A p \in FormatNames : (p \in DOMAIN s <=> p \in DOMAIN t) /\ (p \in DOMAIN s => s[p] = t[p])
  BY AlikeValues
<1>2. \A p \in FormatNames : Given(s, p) = Given(t, p) /\ ValueOf(s, p) = ValueOf(t, p)
  BY AlikeGiven DEF Alike
<1>3. {"orchestrator", "container", "_resolved_command_str", "_resolved_batch_parameters",
       "_container_command_str", "_extra_inputs", "_command_array", "_inputs_array",
       "_outputs_array", "_extra_inputs_array", "inputs", "outputs"} \subseteq FormatNames
      /\ ContainerNames \subseteq FormatNames /\ FileNames = {"inputs", "outputs"}
  BY DEF FormatNames, ContainerNames, ArrayNames, FileNames
<1>4. /\ Records(s) = Records(t) /\ s._resolved_command_str = t._resolved_command_str
      /\ \A key \in FileNames : /\ FormatArray(s, key) = FormatArray(t, key)
                                /\ key \in DOMAIN s => PlainArray(s, key) = PlainArray(t, key)
      /\ Formed(s) = Formed(t) /\ ExtraOf(s) = ExtraOf(t)
  BY <1>3, AlikeArrays
<1>5. ValueOf(s, "container") # Null => "container" \in DOMAIN s
  BY DEF ValueOf, Given
<1>6. "orchestrator" \in DOMAIN t /\ s.orchestrator = t.orchestrator
  BY <1>1, <1>3 DEF Formatted
<1>7. PlainFields(s) => PlainFields(t)
  BY <1>1, <1>2, <1>3, <1>4 DEF PlainFields
<1>8. ContainerFields(s) => ContainerFields(t)
  BY <1>1, <1>2, <1>3, <1>4, <1>5 DEF ContainerFields
<1>9. ArrayFields(s) => ArrayFields(t)
  BY <1>1, <1>3, <1>4 DEF ArrayFields
<1> QED BY <1>6, <1>7, <1>8, <1>9 DEF Formatted

-----------------------------------------------------------------------------
\* A spec of the user.
User(s) ==
    /\ DOMAIN s \cap Internal = {}
    /\ "batch_parameters" \in DOMAIN s => Combinable(s.batch_parameters)

\* The record of a job.
Recorded(r) ==
    /\ r = [p \in DOMAIN r |-> r[p]]
    /\ Batched(r) /\ Formatted(r) /\ Leftover(r)
    /\ "_resolved_command_str" \in DOMAIN r
    /\ ~({"command", "command_str"} \subseteq DOMAIN r) => Commanded(r, Null)
    /\ {"resource_id", "submitter"} \subseteq DOMAIN r /\ r.submitter \in Known
    /\ Given(r, "working_directory")
    /\ r.orchestrator = Text("datalad-no-remote") => r.working_directory = Text("the dataset")

\* A record may come first, and what the user gives comes after it.
Origins(given) ==
    \E n \in {3, 4} :
        /\ DOMAIN given = 1 .. n
        /\ User(given[1]) \/ Recorded(given[1])
        /\ \A i \in 2 .. n : User(given[i])
FromARecord(given) == \E i \in DOMAIN given : "_container_command_str" \in DOMAIN given[i]

\* A spec on the way to a job.
OnTheWay ==
    /\ Origins(Sought)
    /\ jobSpec = [p \in DOMAIN jobSpec |-> jobSpec[p]]
    /\ Leftover(jobSpec)
    /\ "batch_parameters" \in DOMAIN jobSpec => Combinable(jobSpec.batch_parameters)
    /\ "_container_command_str" \in DOMAIN jobSpec =>
          \/ FromARecord(Sought)
          \/ progress = "submit" /\ jobSpec.orchestrator # Text("plain") /\ ValueOf(jobSpec, "container") # Null

\* ... when the command and the records are there.
Resolved ==
    /\ Batched(jobSpec) /\ Commanded(jobSpec, typed.command)
    /\ typed.command = Null => Asked(Sought, "command") = Has(jobSpec, "command")

\* A record by itself comes through as it is.
Again(old) ==
    /\ sources = [NoSources EXCEPT !.files = <<old>>] /\ typed = NothingTyped
    /\ Recorded(old) /\ ~({"command", "command_str"} \subseteq DOMAIN old)
Unchanged ==
    \A old : Again(old) =>
        /\ jobSpec = old
        /\ progress \in {"construct", "submit"} => where = old.resource_id

\* What is recorded with a job, and what it runs.
Made(made) ==
    /\ Recorded(made.record) /\ SameAgain(made)
    /\ ContainerIsStale(made) \/ SubjobsAsAsked(made)

\* The inductive invariant for what a job runs.
RunsIInv ==
    /\ \A i \in DOMAIN submitted : Made(submitted[i])
    /\ progress \in {"resolve", "construct", "submit"} => OnTheWay /\ Unchanged
    /\ progress \in {"construct", "submit"} => Resolved
    /\ progress = "submit" => Formatted(jobSpec)
\* What is put before a spec leaves it alike for other names.
LEMMA OverAlike ==
    ASSUME NEW u, NEW s, NEW names, DOMAIN u \cap names = {}
    PROVE  Alike(s, Over(u, s), names) /\ Alike(Over(u, s), s, names)
<1>1. ASSUME NEW p \in names PROVE Has(Over(u, s), p) = Has(s, p)
  <2>1. p \notin DOMAIN u
    OBVIOUS
  <2> QED BY <2>1, OverKeeps
<1> QED BY <1>1 DEF Alike

\* What a spec has already changes nothing.
LEMMA Absorbs ==
    ASSUME NEW u, NEW s, s = [p \in DOMAIN s |-> s[p]], \A p \in DOMAIN u : p \in DOMAIN s /\ s[p] = u[p]
    PROVE  Over(u, s) = s
<1>1. DOMAIN u \cup DOMAIN s = DOMAIN s
  OBVIOUS
<1>2. Over(u, s) = [p \in DOMAIN s |-> IF p \in DOMAIN u THEN u[p] ELSE s[p]]
  BY <1>1 DEF Over
<1>3. \A p \in DOMAIN s : (IF p \in DOMAIN u THEN u[p] ELSE s[p]) = s[p]
  OBVIOUS
<1>4. Over(u, s) = [p \in DOMAIN s |-> s[p]]
  BY <1>2, <1>3
<1> QED BY <1>4

\* Specs that have the same for everything are the same.
LEMMA SameSpec ==
    ASSUME NEW s, NEW t, s = [p \in DOMAIN s |-> s[p]], t = [p \in DOMAIN t |-> t[p]],
           \A p : Has(s, p) = Has(t, p)
    PROVE  s = t
<1>1. \A p : p \in DOMAIN s <=> p \in DOMAIN t
  BY DEF Has
<1>2. DOMAIN s = DOMAIN t
  BY <1>1
<1>3. \A p \in DOMAIN s : s[p] = t[p]
  BY <1>1 DEF Has
<1> QED BY <1>2, <1>3

\* Where a name is not within a mapping the last spec that has it counts, if any has.
LEMMA SomeoneSays ==
    ASSUME NEW given, NEW n \in Nat, DOMAIN given = 1 .. n, NEW p, p \notin DOMAIN Within,
           NEW i \in 1 .. n, p \in DOMAIN given[i]
    PROVE  Asked(given, p) # {}
<1> DEFINE about == {j \in DOMAIN given :
                       p \in DOMAIN given[j] \/ (p \in DOMAIN Within /\ Within[p] \in DOMAIN given[j])}
           last == CombineFold!Max(about)
<1>1. about \in SUBSET (1 .. n) /\ about # {}
  OBVIOUS
<1>2. \A j \in about : p \in DOMAIN given[j]
  OBVIOUS
<1>3. Asked(given, p) = {given[k][p] : k \in {j \in about : p \in DOMAIN given[j] /\ \A k \in about : k <= j}}
  BY DEF Asked
<1> HIDE DEF about
<1>4. last \in about /\ \A j \in about : j <= last
  BY <1>1, CombineFold!LastPlace
<1> HIDE DEF last
<1> QED BY <1>2, <1>3, <1>4

\* Whatever counts is from one of the specs.
LEMMA SaidBySome ==
    ASSUME NEW given, NEW p, NEW v \in Asked(given, p)
    PROVE  \E i \in DOMAIN given : p \in DOMAIN given[i] /\ v = given[i][p]
BY DEF Asked

\* What the run computes comes with a record.
LEMMA InternalFromFirst ==
    ASSUME NEW given, Origins(given), NEW p \in Internal
    PROVE  Asked(given, p) = Has(given[1], p)
<1>1. PICK n \in {3, 4} : DOMAIN given = 1 .. n /\ \A i \in 2 .. n : User(given[i])
  BY DEF Origins
<1>2. p \notin DOMAIN Within
  BY NamesAssumption
<1>3. \A i \in 2 .. n : p \notin DOMAIN given[i]
  BY <1>1 DEF User
<1>4. \A i \in DOMAIN given : i = 1 \/ i \in 2 .. n
  BY <1>1
<1>5. 1 \in DOMAIN given
  BY <1>1
<1> DEFINE about == {j \in DOMAIN given :
                       p \in DOMAIN given[j] \/ (p \in DOMAIN Within /\ Within[p] \in DOMAIN given[j])}
<1>6. about = {j \in {1} : p \in DOMAIN given[1]}
  BY <1>2, <1>3, <1>4, <1>5
<1>7. Asked(given, p) = {given[k][p] : k \in {j \in about : p \in DOMAIN given[j] /\ \A k \in about : k <= j}}
  BY DEF Asked
<1> HIDE DEF about
<1>8. CASE p \in DOMAIN given[1]
  <2>1. about = {1}
    BY <1>6, <1>8
  <2>2. {j \in about : p \in DOMAIN given[j] /\ \A k \in about : k <= j} = {1}
    BY <2>1, <1>8
  <2> QED BY <1>7, <1>8, <2>2 DEF Has
<1>9. CASE p \notin DOMAIN given[1]
  <2>1. about = {}
    BY <1>6, <1>9
  <2> QED BY <1>7, <1>9, <2>1 DEF Has
<1> QED BY <1>8, <1>9

\* A spec of the user has nothing left over.
LEMMA UserLeftover == ASSUME NEW s, User(s) PROVE Leftover(s)
<1>1. {"_extra_inputs", "_extra_inputs_array", "_inputs_array", "_outputs_array"} \subseteq Internal
  BY DEF Internal
<1> HIDE DEF Internal
<1>2. \A p \in {"_extra_inputs", "_extra_inputs_array", "_inputs_array", "_outputs_array"} : p \notin DOMAIN s
  BY <1>1 DEF User
<1> QED BY <1>2 DEF Leftover, IOSet
\* A record, too, has nothing left over, and can be combined again.
LEMMA OriginsFacts ==
    ASSUME NEW given, Origins(given)
    PROVE  /\ \A i \in DOMAIN given : "batch_parameters" \in DOMAIN given[i] =>
                                         Combinable(given[i].batch_parameters)
           /\ Leftover(given[1]) /\ 1 \in DOMAIN given
           /\ \E n \in Nat : DOMAIN given = 1 .. n
<1>1. PICK n \in {3, 4} : /\ DOMAIN given = 1 .. n /\ (User(given[1]) \/ Recorded(given[1]))
                          /\ \A i \in 2 .. n : User(given[i])
  BY DEF Origins
<1>2. \A i \in DOMAIN given : i = 1 \/ i \in 2 .. n
  BY <1>1
<1>3. \A s : (User(s) \/ Recorded(s)) /\ "batch_parameters" \in DOMAIN s => Combinable(s.batch_parameters)
  BY DEF User, Recorded, Batched
<1>4. \A s : User(s) \/ Recorded(s) => Leftover(s)
  BY UserLeftover DEF Recorded
<1>5. 1 \in DOMAIN given /\ n \in Nat
  BY <1>1
<1> QED BY <1>1, <1>2, <1>3, <1>4, <1>5

\* What combining specs leaves.
LEMMA CombinedSpec ==
    ASSUME NEW given, Origins(given), NEW s, \A p : Asked(given, p) = Has(s, p)
    PROVE  /\ Leftover(s)
           /\ "batch_parameters" \in DOMAIN s => Combinable(s.batch_parameters)
           /\ "_container_command_str" \in DOMAIN s => FromARecord(given)
<1>1. \A i \in DOMAIN given : "batch_parameters" \in DOMAIN given[i] => Combinable(given[i].batch_parameters)
  BY OriginsFacts
<1>2. Leftover(given[1]) /\ 1 \in DOMAIN given
  BY OriginsFacts
<1>3. ASSUME NEW p, p \in DOMAIN s PROVE \E i \in DOMAIN given : p \in DOMAIN given[i] /\ s[p] = given[i][p]
  <2>1. s[p] \in Asked(given, p)
    BY <1>3 DEF Has
  <2> QED BY <2>1, SaidBySome
<1>4. ASSUME "batch_parameters" \in DOMAIN s PROVE Combinable(s.batch_parameters)
  <2>1. PICK i \in DOMAIN given : "batch_parameters" \in DOMAIN given[i]
                                  /\ s["batch_parameters"] = given[i]["batch_parameters"]
    BY <1>3, <1>4
  <2> QED BY <1>1, <2>1
<1>5. "_container_command_str" \in DOMAIN s => FromARecord(given)
  BY <1>3 DEF FromARecord
<1>6. \A p \in Internal : Has(s, p) = Has(given[1], p)
  BY InternalFromFirst
<1>7. ASSUME NEW p \in FileNames, p \notin DOMAIN s PROVE p \notin DOMAIN given[1]
  <2>1. p \notin DOMAIN Within
    BY NamesAssumption DEF FileNames
  <2>2. PICK n \in Nat : DOMAIN given = 1 .. n
    BY OriginsFacts
  <2>3. Asked(given, p) = {}
    BY <1>7 DEF Has
  <2>4. 1 \in 1 .. n
    BY <1>2, <2>2
  <2> QED BY <2>1, <2>2, <2>3, <2>4, SomeoneSays
<1>8. {"_extra_inputs", "_container_command_str", "_extra_inputs_array", "_inputs_array", "_outputs_array"} \subseteq Internal
  BY DEF Internal
<1>9. \A p \in Internal : (p \in DOMAIN s <=> p \in DOMAIN given[1]) /\ IOSet(s, p, 1) = IOSet(given[1], p, 1)
  <2>1. \A p \in Internal : p \in DOMAIN s <=> p \in DOMAIN given[1]
    BY <1>6 DEF Has
  <2> QED BY <1>6, <2>1, AlikeIOSet
<1>10. "inputs" \in FileNames /\ "outputs" \in FileNames
  BY DEF FileNames
<1>11. Leftover(s)
  <2> HIDE DEF Internal, FileNames
  <2> QED BY <1>2, <1>7, <1>8, <1>9, <1>10 DEF Leftover
<1> QED BY <1>4, <1>5, <1>11

\* A record that is combined with nothing.
LEMMA AskedOfOne ==
    ASSUME NEW given, DOMAIN given = 1 .. 3, given[2] = NoRecord, given[3] = NoRecord, NEW p
    PROVE  Asked(given, p) = Has(given[1], p)
<1> DEFINE r == given[1]
           about == {j \in DOMAIN given :
                       p \in DOMAIN given[j] \/ (p \in DOMAIN Within /\ Within[p] \in DOMAIN given[j])}
           counts == {j \in about : p \in DOMAIN given[j] /\ \A l \in about : l <= j}
<1>1. \A j \in DOMAIN given : j = 1 \/ j = 2 \/ j = 3
  OBVIOUS
<1>2. DOMAIN NoRecord = {}
  BY DEF NoRecord
<1>3. Asked(given, p) = {given[j][p] : j \in counts}
  BY DEF Asked
<1>4. \A j \in about : j = 1
  BY <1>1, <1>2
<1>5. CASE p \in DOMAIN r
  <2>1. about = {1}
    BY <1>1, <1>4, <1>5
  <2> HIDE DEF about
  <2>2. counts = {1}
    BY <1>1, <1>5, <2>1
  <2> HIDE DEF counts
  <2> QED BY <1>1, <1>3, <1>5, <2>2 DEF Has
<1>6. CASE p \notin DOMAIN r
  <2>1. \A j \in about : p \notin DOMAIN given[j]
    BY <1>1, <1>4, <1>6
  <2> HIDE DEF about
  <2>2. counts = {}
    BY <2>1
  <2> HIDE DEF counts
  <2> QED BY <1>3, <1>6, <2>2 DEF Has
<1> QED BY <1>5, <1>6

\* The command line comes after one file or two.
AfterFiles(files, a, b, x, y, specs) ==
    /\ specs \in Seq({a, b, x, y})
    /\ \/ /\ Len(specs) = 3 /\ specs[1] = a /\ specs[2] = x /\ specs[3] = y
          /\ files = <<a>>
       \/ /\ Len(specs) = 4 /\ specs[1] = a /\ specs[2] = b /\ specs[3] = x /\ specs[4] = y
          /\ files = <<a, b>>
\* ... as it does in what is combined.
LEMMA FilesFirst ==
    ASSUME NEW files, NEW a, NEW b, NEW x, NEW y, files = <<a>> \/ files = <<a, b>>
    PROVE  AfterFiles(files, a, b, x, y, files \o <<x, y>>)
<1> DEFINE D == {a, b, x, y}
<1>1. PICK end, specs : end = <<x, y>> /\ specs = files \o end
  OBVIOUS
<1>2. end \in Seq(D) /\ Len(end) = 2 /\ end[1] = x /\ end[2] = y
  BY <1>1
<1>4. ASSUME files = <<a>>
      PROVE  /\ specs \in Seq(D) /\ Len(specs) = 3
             /\ specs[1] = a /\ specs[2] = x /\ specs[3] = y
  <2>1. files \in Seq(D) /\ Len(files) = 1 /\ files[1] = a
    BY <1>4
  <2> HIDE DEF D
  <2>2. /\ files \o end \in Seq(D) /\ Len(files \o end) = Len(files) + Len(end)
        /\ \A i \in 1 .. Len(files) + Len(end) :
              (files \o end)[i] = IF i <= Len(files) THEN files[i] ELSE end[i - Len(files)]
    <3>1. files \in Seq(D) /\ end \in Seq(D)
      BY <1>2, <2>1
    <3> QED BY ONLY <3>1, ConcatProperties
  <2>3. /\ specs \in Seq(D) /\ Len(specs) = 3
        /\ \A i \in 1 .. 3 : specs[i] = IF i <= 1 THEN files[i] ELSE end[i - 1]
    BY <1>1, <1>2, <2>1, <2>2
  <2> QED BY <1>2, <2>1, <2>3
<1>5. ASSUME files = <<a, b>>
      PROVE  /\ specs \in Seq(D) /\ Len(specs) = 4
             /\ specs[1] = a /\ specs[2] = b /\ specs[3] = x /\ specs[4] = y
  <2>1. files \in Seq(D) /\ Len(files) = 2 /\ files[1] = a /\ files[2] = b
    BY <1>5
  <2> HIDE DEF D
  <2>2. /\ files \o end \in Seq(D) /\ Len(files \o end) = Len(files) + Len(end)
        /\ \A i \in 1 .. Len(files) + Len(end) :
              (files \o end)[i] = IF i <= Len(files) THEN files[i] ELSE end[i - Len(files)]
    <3>1. files \in Seq(D) /\ end \in Seq(D)
      BY <1>2, <2>1
    <3> QED BY ONLY <3>1, ConcatProperties
  <2>3. /\ specs \in Seq(D) /\ Len(specs) = 4
        /\ \A i \in 1 .. 4 : specs[i] = IF i <= 2 THEN files[i] ELSE end[i - 2]
    BY <1>1, <1>2, <2>1, <2>2
  <2> QED BY <1>2, <2>1, <2>3
<1>6. AfterFiles(files, a, b, x, y, specs)
  BY <1>4, <1>5 DEF AfterFiles
<1> QED BY <1>1, <1>6

\* The specs are combined.
LEMMA LoadRuns == ASSUME SpecsIInv, RunsIInv, Load PROVE RunsIInv'
<1>1. PICK files \in IF runs = 0 THEN {<<f>> : f \in SpecFile} \cup (SpecFile \X SpecFile)
                       ELSE UNION {{<<submitted[i].record>>} \cup
                                   {<<submitted[i].record, f>> : f \in SpecFile} : i \in DOMAIN submitted},
           given \in JobParameter, option \in Option :
         /\ sources' = [files |-> files, given |-> given, option |-> option]
         /\ LET spec == Combine(files \o <<given, option>>)
            IN  /\ progress' = IF spec = NoSpec THEN "failed" ELSE "resolve"
                /\ jobSpec' = IF spec = NoSpec THEN NoRecord ELSE spec
  BY DEF Load
<1>2. submitted' = submitted /\ \A i \in DOMAIN submitted : Made(submitted[i])
  BY DEF Load, RunsIInv
<1> DEFINE specs == files \o <<given, option>>
<1>3. /\ Sought' = specs
      /\ progress' \in {"failed", "resolve"}
      /\ progress' = "resolve" => Combine(specs) # NoSpec /\ jobSpec' = Combine(specs)
  BY <1>1 DEF Sought, Specs
<1>4. PICK a, b : /\ files = <<a>> \/ (files = <<a, b>> /\ b \in SpecFile)
                  /\ a \in SpecFile \/ \E i \in DOMAIN submitted : a = submitted[i].record
  <2>1. CASE runs = 0
    <3>1. PICK a \in SpecFile, b \in SpecFile : files = <<a>> \/ files = <<a, b>>
      BY <1>1, <2>1
    <3> QED BY <3>1
  <2>2. CASE runs # 0
    <3>1. PICK i \in DOMAIN submitted : files \in {<<submitted[i].record>>} \cup
                                                  {<<submitted[i].record, f>> : f \in SpecFile}
      BY <1>1, <2>2
    <3>2. files = <<submitted[i].record>> \/ \E f \in SpecFile : files = <<submitted[i].record, f>>
      BY <3>1
    <3> QED BY <3>2
  <2> QED BY <2>1, <2>2
<1>5. a \in SpecFile \/ Recorded(a)
  BY <1>2, <1>4 DEF Made
<1>6. /\ specs \in Seq({a, b, given, option})
      /\ \/ /\ Len(specs) = 3 /\ specs[1] = a /\ specs[2] = given /\ specs[3] = option
            /\ files = <<a>>
         \/ /\ Len(specs) = 4 /\ specs[1] = a /\ specs[2] = b /\ specs[3] = given /\ specs[4] = option
            /\ b \in SpecFile /\ files = <<a, b>>
  <2>1. AfterFiles(files, a, b, given, option, files \o <<given, option>>)
    BY <1>4, FilesFirst
  <2>2. AfterFiles(files, a, b, given, option, specs)
    BY <2>1
  <2> HIDE DEF specs
  <2>3. <<a>> # <<a, b>>
    OBVIOUS
  <2>4. files = <<a, b>> => b \in SpecFile
    BY <1>4, <2>3
  <2> QED BY <2>2, <2>4 DEF AfterFiles
<1> HIDE DEF specs
<1>7. specs # <<>>
  <2>1. Len(<<>>) = 0
    OBVIOUS
  <2> QED BY <1>6, <2>1
<1>8. Combined(specs, Combine(specs))
  BY <1>6, <1>7, CombineAsAsked
<1>9. ASSUME progress' = "resolve" PROVE OnTheWay'
  <2>1. PICK s : s = Combine(specs)
    OBVIOUS
  <2>2. /\ s # NoSpec /\ jobSpec' = s /\ \A p : Asked(specs, p) = Has(s, p)
        /\ Len(specs) > 1 => s = [p \in DOMAIN s |-> s[p]]
        /\ \A i \in DOMAIN specs : specs[i] # NoSpec
    BY <1>3, <1>8, <1>9, <2>1 DEF Combined
  <2>3. \A x \in SpecFile \cup JobParameter \cup Option : x # NoSpec => User(x)
    BY NamesAssumption DEF User
  <2>4. Origins(specs) /\ Len(specs) > 1
    <3>1. CASE Len(specs) = 3 /\ specs[1] = a /\ specs[2] = given /\ specs[3] = option
      <4>1. DOMAIN specs = 1 .. 3 /\ specs[1] = a /\ specs[2] = given /\ specs[3] = option
            /\ Len(specs) = 3
        BY <1>6, <3>1
      <4>2. \A i \in 2 .. 3 : i = 2 \/ i = 3
        OBVIOUS
      <4>3. User(specs[1]) \/ Recorded(specs[1])
        BY <1>5, <2>2, <2>3, <4>1
      <4>4. \A i \in 2 .. 3 : User(specs[i])
        BY <2>2, <2>3, <4>1, <4>2
      <4> QED BY <4>1, <4>3, <4>4 DEF Origins
    <3>2. CASE /\ Len(specs) = 4 /\ specs[1] = a /\ specs[2] = b /\ specs[3] = given /\ specs[4] = option
               /\ b \in SpecFile
      <4>1. DOMAIN specs = 1 .. 4 /\ specs[1] = a /\ specs[2] = b /\ specs[3] = given /\ specs[4] = option
            /\ Len(specs) = 4
        BY <1>6, <3>2
      <4>2. \A i \in 2 .. 4 : i = 2 \/ i = 3 \/ i = 4
        OBVIOUS
      <4>3. User(specs[1]) \/ Recorded(specs[1])
        BY <1>5, <2>2, <2>3, <4>1
      <4>4. \A i \in 2 .. 4 : User(specs[i])
        BY <2>2, <2>3, <3>2, <4>1, <4>2
      <4> QED BY <4>1, <4>3, <4>4 DEF Origins
    <3> QED BY <1>6, <3>1, <3>2
  <2>5. s = [p \in DOMAIN s |-> s[p]]
    BY <2>2, <2>4
  <2>6. /\ Leftover(s)
        /\ "batch_parameters" \in DOMAIN s => Combinable(s.batch_parameters)
        /\ "_container_command_str" \in DOMAIN s => FromARecord(specs)
    BY <2>2, <2>4, CombinedSpec
  <2> QED BY <1>3, <2>2, <2>4, <2>5, <2>6 DEF OnTheWay
<1>10. ASSUME progress' = "resolve" PROVE Unchanged'
  <2> SUFFICES ASSUME NEW old, Again(old)' PROVE jobSpec' = old
    BY <1>10 DEF Unchanged
  <2>1. sources' = [NoSources EXCEPT !.files = <<old>>] /\ Recorded(old)
    BY DEF Again
  <2>2. sources' = [files |-> <<old>>, given |-> NoRecord, option |-> NoRecord]
    BY <2>1 DEF NoSources
  <2>3. files = <<old>> /\ given = NoRecord /\ option = NoRecord
    BY <1>1, <2>2
  <2>4. /\ DOMAIN specs = 1 .. 3 /\ Len(specs) = 3
        /\ specs[1] = old /\ specs[2] = NoRecord /\ specs[3] = NoRecord
    <3>1. files # <<a, b>> /\ a = old
      BY <1>4, <2>3
    <3>2. Len(specs) = 3 /\ specs[1] = a /\ specs[2] = given /\ specs[3] = option
      BY <1>6, <3>1
    <3> QED BY <1>6, <2>3, <3>1, <3>2
  <2>5. PICK s : s = Combine(specs)
    OBVIOUS
  <2>6. /\ jobSpec' = s /\ \A p : Asked(specs, p) = Has(s, p)
        /\ Len(specs) > 1 => s = [p \in DOMAIN s |-> s[p]]
    BY <1>3, <1>8, <1>10, <2>5 DEF Combined
  <2>8. \A p : Has(s, p) = Has(old, p)
    BY <2>4, <2>6, AskedOfOne
  <2>9. old = [p \in DOMAIN old |-> old[p]]
    BY <2>1 DEF Recorded
  <2> QED BY <2>4, <2>6, <2>8, <2>9, SameSpec
<1> QED BY <1>2, <1>3, <1>9, <1>10 DEF RunsIInv

\* What is put before a spec is there.
LEMMA OverHas ==
    ASSUME NEW u, NEW s
    PROVE  /\ \A p \in DOMAIN u : p \in DOMAIN Over(u, s) /\ Over(u, s)[p] = u[p]
           /\ Over(u, s) = [p \in DOMAIN Over(u, s) |-> Over(u, s)[p]]
BY DEF Over

\* The command is formed.
LEMMA ResolveCommandFacts ==
    ASSUME NEW s, ~(typed.command = Null /\ {"command_str", "command"} \cap DOMAIN s = {})
    PROVE  /\ Commanded(ResolveCommand(s), typed.command)
           /\ typed.command = Null => Has(ResolveCommand(s), "command") = Has(s, "command")
           /\ \A p : p \notin {"command", "_resolved_command_str"} => Has(ResolveCommand(s), p) = Has(s, p)
<1> DEFINE one == [_resolved_command_str |-> s.command_str]
           command == IF typed.command = Null THEN s.command ELSE typed.command
           two == [command |-> command, _resolved_command_str |-> List(Elements(command))]
<1>1. CASE UsesString(s)
  <2>1. ResolveCommand(s) = Over(one, s) /\ typed.command = Null /\ "command_str" \in DOMAIN s
    BY <1>1 DEF ResolveCommand, UsesString
  <2>2. DOMAIN one = {"_resolved_command_str"} /\ one._resolved_command_str = s.command_str
    OBVIOUS
  <2> HIDE DEF one
  <2>3. \A p : p # "_resolved_command_str" => Has(Over(one, s), p) = Has(s, p)
    BY <2>2, OverKeeps
  <2>4. /\ "_resolved_command_str" \in DOMAIN Over(one, s)
        /\ Over(one, s)._resolved_command_str = s.command_str
    BY <2>2, OverHas
  <2>5. "command_str" \in DOMAIN Over(one, s) /\ Over(one, s).command_str = s.command_str
    BY <2>1, <2>3 DEF Has
  <2>6. Commanded(Over(one, s), typed.command)
    BY <2>1, <2>4, <2>5 DEF Commanded
  <2> QED BY <2>1, <2>3, <2>6
<1>2. CASE ~UsesString(s)
  <2>1. ResolveCommand(s) = Over(two, s) /\ (typed.command = Null => "command_str" \notin DOMAIN s)
    BY <1>2 DEF ResolveCommand, UsesString
  <2>2. /\ DOMAIN two = {"command", "_resolved_command_str"} /\ two.command = command
        /\ two._resolved_command_str = List(Elements(command))
    OBVIOUS
  <2>0. typed.command = Null => "command" \in DOMAIN s /\ command = s.command
    BY <2>1
  <2>9. typed.command # Null => command = typed.command
    OBVIOUS
  <2> HIDE DEF two, command
  <2>3. \A p : p \notin {"command", "_resolved_command_str"} => Has(Over(two, s), p) = Has(s, p)
    BY <2>2, OverKeeps
  <2>4. /\ "_resolved_command_str" \in DOMAIN Over(two, s) /\ "command" \in DOMAIN Over(two, s)
        /\ Over(two, s)._resolved_command_str = List(Elements(command))
        /\ Over(two, s).command = command
    BY <2>2, OverHas
  <2>5. "command_str" \in DOMAIN Over(two, s) <=> "command_str" \in DOMAIN s
    BY <2>3 DEF Has
  <2>6. Commanded(Over(two, s), typed.command)
    BY <2>1, <2>4, <2>5, <2>9 DEF Commanded
  <2>7. typed.command = Null => Has(Over(two, s), "command") = Has(s, "command")
    BY <2>0, <2>4 DEF Has
  <2> QED BY <2>1, <2>3, <2>6, <2>7
<1> QED BY <1>1, <1>2

\* The records are formed.
LEMMA BatchRecords ==
    ASSUME NEW s, ~BatchFails(s), "batch_parameters" \in DOMAIN s => Combinable(s.batch_parameters),
           NEW r, Has(r, "batch_spec") = Has(s, "batch_spec"),
           Has(r, "batch_parameters") = Has(s, "batch_parameters")
    PROVE  Batched(Over([_resolved_batch_parameters |-> ResolveBatchParameters(s)], r))
<1> DEFINE u == [_resolved_batch_parameters |-> ResolveBatchParameters(s)]
           t == Over(u, r)
<1>1. DOMAIN u = {"_resolved_batch_parameters"} /\ u._resolved_batch_parameters = ResolveBatchParameters(s)
  OBVIOUS
<1> HIDE DEF u
<1>2. \A p : p # "_resolved_batch_parameters" => Has(t, p) = Has(r, p)
  BY <1>1, OverKeeps
<1>3. /\ "_resolved_batch_parameters" \in DOMAIN t
      /\ t._resolved_batch_parameters = ResolveBatchParameters(s)
  BY <1>1, OverHas
<1> HIDE DEF t
<1>4. \A p \in {"batch_spec", "batch_parameters"} :
         /\ Has(t, p) = Has(s, p) /\ (p \in DOMAIN t <=> p \in DOMAIN s) /\ (p \in DOMAIN s => t[p] = s[p])
         /\ Given(t, p) = Given(s, p)
  <2>1. \A p \in {"batch_spec", "batch_parameters"} : Has(t, p) = Has(s, p)
    BY <1>2
  <2> QED BY <2>1, AlikeGiven DEF Has
<1>5. Given(s, "batch_parameters") => "batch_parameters" \in DOMAIN s
  BY DEF Given
<1>6. BatchFails(t) = BatchFails(s)
  BY <1>4, <1>5 DEF BatchFails
<1>7. ResolveBatchParameters(t) = ResolveBatchParameters(s)
  BY <1>4, <1>5 DEF ResolveBatchParameters
<1>8. Batched(t)
  BY <1>3, <1>4, <1>6, <1>7 DEF Batched
<1> QED BY <1>8 DEF t, u

\* A record by itself is resolved to what it is.
LEMMA ResolvedAgain ==
    ASSUME NEW s, Recorded(s), ~({"command", "command_str"} \subseteq DOMAIN s), typed = NothingTyped
    PROVE  /\ Over([_resolved_batch_parameters |-> ResolveBatchParameters(s)], ResolveCommand(s)) = s
           /\ \A i \in Resource(s) : Text(i) = s.resource_id
<1>1. /\ s = [p \in DOMAIN s |-> s[p]] /\ Batched(s) /\ Commanded(s, Null) /\ "resource_id" \in DOMAIN s
  BY DEF Recorded
<1>2. typed.command = Null /\ typed.resref = Null
  BY DEF NothingTyped
<1>3. ResolveCommand(s) = s
  <2>1. CASE "command_str" \in DOMAIN s
    <3> DEFINE one == [_resolved_command_str |-> s.command_str]
    <3>1. ResolveCommand(s) = Over(one, s)
      BY <1>2, <2>1 DEF ResolveCommand, UsesString
    <3>2. DOMAIN one = {"_resolved_command_str"} /\ one._resolved_command_str = s.command_str
      OBVIOUS
    <3>3. "_resolved_command_str" \in DOMAIN s /\ s._resolved_command_str = s.command_str
      BY <1>1, <2>1 DEF Commanded
    <3> HIDE DEF one
    <3> QED BY <1>1, <3>1, <3>2, <3>3, Absorbs
  <2>2. CASE "command_str" \notin DOMAIN s
    <3> DEFINE two == [command |-> s.command, _resolved_command_str |-> List(Elements(s.command))]
    <3>1. ResolveCommand(s) = Over(two, s)
      BY <1>2, <2>2 DEF ResolveCommand, UsesString
    <3>2. /\ DOMAIN two = {"command", "_resolved_command_str"} /\ two.command = s.command
          /\ two._resolved_command_str = List(Elements(s.command))
      OBVIOUS
    <3>3. /\ "_resolved_command_str" \in DOMAIN s /\ "command" \in DOMAIN s
          /\ s._resolved_command_str = List(Elements(s.command))
      BY <1>1, <2>2 DEF Commanded
    <3> HIDE DEF two
    <3> QED BY <1>1, <3>1, <3>2, <3>3, Absorbs
  <2> QED BY <2>1, <2>2
<1>4. Over([_resolved_batch_parameters |-> ResolveBatchParameters(s)], s) = s
  <2> DEFINE u == [_resolved_batch_parameters |-> ResolveBatchParameters(s)]
  <2>1. DOMAIN u = {"_resolved_batch_parameters"} /\ u._resolved_batch_parameters = ResolveBatchParameters(s)
    OBVIOUS
  <2>2. "_resolved_batch_parameters" \in DOMAIN s /\ s._resolved_batch_parameters = ResolveBatchParameters(s)
    BY <1>1 DEF Batched
  <2> HIDE DEF u
  <2>3. Over(u, s) = s
    BY <1>1, <2>1, <2>2, Absorbs
  <2> QED BY <2>3 DEF u
<1>5. \A i \in Resource(s) : Text(i) = s.resource_id
  BY <1>1, <1>2 DEF Resource
<1> QED BY <1>3, <1>4, <1>5

\* The batch parameters, the command and the resource are found.
LEMMA ResolveRuns == ASSUME SpecsIInv, RunsIInv, Resolve PROVE RunsIInv'
<1>1. progress = "resolve" /\ UNCHANGED <<runs, sources, typed, submitted>>
  BY DEF Resolve
<1> DEFINE r == ResolveCommand(jobSpec)
           t == Over([_resolved_batch_parameters |-> ResolveBatchParameters(jobSpec)], r)
<1>2. \/ progress' = "failed"
      \/ /\ progress' = "construct" /\ ~BatchFails(jobSpec)
         /\ ~(typed.command = Null /\ {"command_str", "command"} \cap DOMAIN jobSpec = {})
         /\ where' \in {Text(i) : i \in Resource(jobSpec)}
         /\ jobSpec' = t
  BY DEF Resolve
<1>3. Sought' = Sought
  BY <1>1 DEF Sought
<1>4. /\ \A i \in DOMAIN submitted : Made(submitted[i])
      /\ OnTheWay /\ Unchanged
  BY <1>1 DEF RunsIInv
<1>5. \A i \in DOMAIN submitted' : Made(submitted'[i])
  BY <1>1, <1>4
<1>6. ASSUME progress' = "construct" PROVE OnTheWay' /\ Unchanged' /\ Resolved'
  <2>1. /\ Commanded(r, typed.command)
        /\ typed.command = Null => Has(r, "command") = Has(jobSpec, "command")
        /\ \A p : p \notin {"command", "_resolved_command_str"} => Has(r, p) = Has(jobSpec, p)
    BY <1>2, <1>6, ResolveCommandFacts
  <2>2. /\ Origins(Sought) /\ Leftover(jobSpec)
        /\ "batch_parameters" \in DOMAIN jobSpec => Combinable(jobSpec.batch_parameters)
        /\ "_container_command_str" \in DOMAIN jobSpec => FromARecord(Sought)
    BY <1>1, <1>4 DEF OnTheWay
  <2>3. Batched(t)
    BY <1>2, <1>6, <2>1, <2>2, BatchRecords
  <2>4. \A p : p # "_resolved_batch_parameters" => Has(t, p) = Has(r, p)
    <3> DEFINE u == [_resolved_batch_parameters |-> ResolveBatchParameters(jobSpec)]
    <3>1. DOMAIN u = {"_resolved_batch_parameters"}
      OBVIOUS
    <3> HIDE DEF u, r
    <3>2. \A p : p # "_resolved_batch_parameters" => Has(Over(u, r), p) = Has(r, p)
      BY <3>1, OverKeeps
    <3> QED BY <3>2 DEF u
  <2>5. t = [p \in DOMAIN t |-> t[p]]
    BY OverHas
  <2> HIDE DEF r, t
  <2>6. Commanded(t, typed.command)
    <3>1. Alike(r, t, CommandNames)
      BY <2>4 DEF Alike, CommandNames
    <3> QED BY <2>1, <3>1, AlikeCommanded
  <2>7. \A p : p \notin {"command", "_resolved_command_str", "_resolved_batch_parameters"} =>
                  Has(t, p) = Has(jobSpec, p)
    BY <2>1, <2>4
  <2>8. Leftover(t)
    <3>1. Alike(jobSpec, t, ContainerNames \cup ArrayNames \cup FileNames)
      BY <2>7 DEF Alike, ContainerNames, ArrayNames, FileNames
    <3> QED BY <2>2, <3>1, AlikeLeftover
  <2>9. "batch_parameters" \in DOMAIN t => Combinable(t.batch_parameters)
    BY <2>3 DEF Batched
  <2>10. "_container_command_str" \in DOMAIN t => FromARecord(Sought)
    BY <2>2, <2>7 DEF Has
  <2>11. OnTheWay'
    BY <1>2, <1>3, <1>6, <2>2, <2>5, <2>8, <2>9, <2>10 DEF OnTheWay
  <2>12. typed.command = Null => Asked(Sought, "command") = Has(t, "command")
    <3>1. Asked(Sought, "command") = Has(jobSpec, "command")
      BY <1>1 DEF SpecsIInv, Agrees
    <3> QED BY <2>1, <2>4, <3>1
  <2>13. Resolved'
    BY <1>1, <1>2, <1>3, <1>6, <2>3, <2>6, <2>12 DEF Resolved
  <2>14. Unchanged'
    <3> SUFFICES ASSUME NEW old, Again(old)' PROVE jobSpec' = old /\ where' = old.resource_id
      BY DEF Unchanged
    <3>1. Again(old) /\ Recorded(old) /\ ~({"command", "command_str"} \subseteq DOMAIN old) /\ typed = NothingTyped
      BY <1>1 DEF Again
    <3>2. jobSpec = old
      BY <1>4, <3>1 DEF Unchanged
    <3>3. t = old /\ \A i \in Resource(old) : Text(i) = old.resource_id
      BY <3>1, <3>2, ResolvedAgain DEF t, r
    <3> QED BY <1>2, <1>6, <3>2, <3>3
  <2> QED BY <2>11, <2>13, <2>14
<1> HIDE DEF t
<1> QED BY <1>2, <1>5, <1>6 DEF RunsIInv
-----------------------------------------------------------------------------
\* The records that a spec asks for.
RecordsFor(s) ==
    IF Given(s, "batch_spec") THEN ToSet(BatchFile)
    ELSE IF Given(s, "batch_parameters") THEN AllOf(s.batch_parameters[2], Len(s.batch_parameters[2]))
    ELSE {}

\* No record and no value is given twice by a spec.
GivenOnce(s) ==
    /\ Given(s, "batch_spec") => IsInjective(BatchFile)
    /\ Given(s, "batch_parameters") =>
          \A i \in DOMAIN s.batch_parameters[2] : IsInjective(s.batch_parameters[2][i].values)

\* There is one record for each, or one that says nothing.
LEMMA RecordsAreFor ==
    ASSUME NEW s, Batched(s)
    PROVE  /\ \E S : Records(s) \in Seq(S)
           /\ (GivenOnce(s) => IsInjective(Records(s))) /\ 1 \in DOMAIN Records(s)
           /\ ToSet(Records(s)) = IF RecordsFor(s) = {} THEN {NoRecord} ELSE RecordsFor(s)
<1> DEFINE batch == s._resolved_batch_parameters
<1>1. \E S, all : /\ all \in Seq(S) /\ (GivenOnce(s) => IsInjective(all)) /\ ToSet(all) = RecordsFor(s)
                  /\ batch = List(all) \/ (batch = Null /\ all = <<>>)
  <2>0. batch = ResolveBatchParameters(s) /\ ~BatchFails(s)
    BY DEF Batched
  <2>1. CASE Given(s, "batch_spec")
    <3>1. batch = List(BatchFile) /\ RecordsFor(s) = ToSet(BatchFile)
      BY <2>0, <2>1 DEF ResolveBatchParameters, RecordsFor
    <3>2. BatchFile \in Seq(ToSet(BatchFile)) /\ (GivenOnce(s) => IsInjective(BatchFile))
      BY <2>1, NamesAssumption DEF GivenOnce
    <3> QED BY <3>1, <3>2
  <2>2. CASE ~Given(s, "batch_spec") /\ Given(s, "batch_parameters")
    <3> DEFINE params == s.batch_parameters[2]
               all == CombineBatchParams(params)
    <3>1. batch = List(all) /\ RecordsFor(s) = AllOf(params, Len(params))
      BY <2>0, <2>2 DEF ResolveBatchParameters, RecordsFor
    <3>2. "batch_parameters" \in DOMAIN s
      BY <2>2 DEF Given
    <3>3. Combinable(s.batch_parameters)
      BY <3>2 DEF Batched
    <3>4. /\ s.batch_parameters[1] = "batch"
          /\ \A i, j \in DOMAIN params : i # j => params[i].key # params[j].key
      BY <2>0, <2>2 DEF BatchFails
    <3>5. /\ params \in Seq(ToSet(params))
          /\ \A i \in DOMAIN params : params[i].values \in Seq(ToSet(params[i].values))
      BY <3>3, <3>4 DEF Combinable
    <3>7. GivenOnce(s) => \A i \in DOMAIN params : IsInjective(params[i].values)
      BY <2>2 DEF GivenOnce
    <3>8. PICK once \in BOOLEAN : once <=> GivenOnce(s)
      OBVIOUS
    <3> HIDE DEF params
    <3>6. /\ all \in Seq(AllOf(params, Len(params))) /\ (GivenOnce(s) => IsInjective(all))
          /\ ToSet(all) = AllOf(params, Len(params))
      BY <3>4, <3>5, <3>7, <3>8, CombineEach
    <3> HIDE DEF all
    <3> QED BY <3>1, <3>6
  <2>3. CASE ~Given(s, "batch_spec") /\ ~Given(s, "batch_parameters")
    <3>1. batch = Null /\ RecordsFor(s) = {}
      BY <2>0, <2>3 DEF ResolveBatchParameters, RecordsFor
    <3>2. <<>> \in Seq({}) /\ DOMAIN <<>> = {}
      OBVIOUS
    <3>3. IsInjective(<<>>) /\ ToSet(<<>>) = {}
      BY <3>2 DEF IsInjective, ToSet
    <3> QED BY <3>1, <3>2, <3>3
  <2> QED BY <2>1, <2>2, <2>3
<1>2. PICK S, all : /\ all \in Seq(S) /\ (GivenOnce(s) => IsInjective(all)) /\ ToSet(all) = RecordsFor(s)
                    /\ batch = List(all) \/ (batch = Null /\ all = <<>>)
  BY <1>1
<1>3. Records(s) = IF batch \in {Null, List(<<>>)} THEN <<NoRecord>> ELSE batch[2]
  BY DEF Records
<1> HIDE DEF batch
<1>4. CASE all = <<>>
  <2>1. batch \in {Null, List(<<>>)}
    BY <1>2, <1>4
  <2>2. Records(s) = <<NoRecord>>
    BY <1>3, <2>1
  <2>3. RecordsFor(s) = {}
    <3>1. DOMAIN <<>> = {}
      OBVIOUS
    <3> QED BY <1>2, <1>4, <3>1 DEF ToSet
  <2>4. PICK one : one = <<NoRecord>>
    OBVIOUS
  <2>5. one \in Seq({NoRecord}) /\ DOMAIN one = {1} /\ one[1] = NoRecord
    BY <2>4
  <2>6. IsInjective(one) /\ ToSet(one) = {NoRecord}
    BY <2>5 DEF IsInjective, ToSet
  <2> QED BY <2>2, <2>3, <2>4, <2>5, <2>6
<1>5. CASE all # <<>>
  <2>1. batch = List(all)
    BY <1>2, <1>5
  <2>2. batch[2] = all
    BY <2>1 DEF List
  <2>3. batch \notin {Null, List(<<>>)}
    <3>1. batch[1] = "list"
      BY <2>1 DEF List
    <3>2. Null[1] = "null"
      BY DEF Null
    <3>3. List(<<>>)[2] = <<>>
      BY DEF List
    <3> QED BY <1>5, <2>2, <3>1, <3>2, <3>3
  <2>4. Records(s) = all
    BY <1>3, <2>2, <2>3
  <2>5. 1 \in DOMAIN all /\ all[1] \in ToSet(all)
    BY <1>2, <1>5 DEF ToSet
  <2> QED BY <1>2, <2>4, <2>5
<1> QED BY <1>4, <1>5
-----------------------------------------------------------------------------
\* What the plain orchestrator forms.
LEMMA PlainFormed ==
    ASSUME NEW s, "orchestrator" \in DOMAIN s, s.orchestrator = Text("plain"), Leftover(s),
           ~Given(s, "_resolved_batch_parameters"),
           {"_resolved_command_str", "_resolved_batch_parameters"} \subseteq DOMAIN s
    PROVE  /\ Formatted(Plain(s)) /\ Leftover(Plain(s))
           /\ Plain(s) = [p \in DOMAIN Plain(s) |-> Plain(s)[p]]
           /\ \A p : p \notin {"_command_array", "_inputs_array", "_outputs_array"} => Has(Plain(s), p) = Has(s, p)
<1> DEFINE from == [_inputs_array |-> "inputs", _outputs_array |-> "outputs"]
           arrays == [a \in {x \in DOMAIN from : from[x] \in DOMAIN s} |-> PlainArray(s, from[a])]
           commands == List(<< <<s._resolved_command_str, NoRecord>> >>)
           u == [_command_array |-> commands]
           t == Plain(s)
<1>1. t = Over(arrays, Over(u, s))
  BY DEF Plain
<1>2. DOMAIN u = {"_command_array"} /\ u._command_array = commands
  OBVIOUS
<1>3. /\ DOMAIN from = {"_inputs_array", "_outputs_array"}
      /\ from._inputs_array = "inputs" /\ from._outputs_array = "outputs"
  OBVIOUS
<1> HIDE DEF from, commands, u
<1>4. /\ DOMAIN arrays = {x \in DOMAIN from : from[x] \in DOMAIN s}
      /\ \A a \in DOMAIN arrays : arrays[a] = PlainArray(s, from[a])
  OBVIOUS
<1> HIDE DEF arrays
<1>5. \A p : p \notin {"_command_array", "_inputs_array", "_outputs_array"} => Has(t, p) = Has(s, p)
  BY <1>1, <1>2, <1>3, <1>4, OverKeeps
<1>6. t = [p \in DOMAIN t |-> t[p]]
  BY <1>1, OverHas
<1>7. "_command_array" \in DOMAIN t /\ t._command_array = commands
  <2>1. "_command_array" \in DOMAIN Over(u, s) /\ Over(u, s)["_command_array"] = commands
    BY <1>2, OverHas
  <2>2. Has(t, "_command_array") = Has(Over(u, s), "_command_array")
    BY <1>1, <1>3, <1>4, OverKeeps
  <2> QED BY <2>1, <2>2 DEF Has
<1>8. "inputs" \in DOMAIN s => "_inputs_array" \in DOMAIN t /\ t._inputs_array = PlainArray(s, "inputs")
  BY <1>1, <1>3, <1>4, OverHas
<1>9. "outputs" \in DOMAIN s => "_outputs_array" \in DOMAIN t /\ t._outputs_array = PlainArray(s, "outputs")
  BY <1>1, <1>3, <1>4, OverHas
<1>10. "inputs" \notin DOMAIN s => Has(t, "_inputs_array") = Has(s, "_inputs_array")
  <2> SUFFICES ASSUME "inputs" \notin DOMAIN s PROVE Has(t, "_inputs_array") = Has(s, "_inputs_array")
    OBVIOUS
  <2>1. "_inputs_array" \notin DOMAIN arrays /\ "_inputs_array" \notin DOMAIN u
    BY <1>2, <1>3, <1>4
  <2> QED BY <1>1, <2>1, OverKeeps
<1>11. "outputs" \notin DOMAIN s => Has(t, "_outputs_array") = Has(s, "_outputs_array")
  <2> SUFFICES ASSUME "outputs" \notin DOMAIN s PROVE Has(t, "_outputs_array") = Has(s, "_outputs_array")
    OBVIOUS
  <2>1. "_outputs_array" \notin DOMAIN arrays /\ "_outputs_array" \notin DOMAIN u
    BY <1>2, <1>3, <1>4
  <2> QED BY <1>1, <2>1, OverKeeps
<1> HIDE DEF t
<1>12. Alike(s, t, {"_resolved_command_str", "_resolved_batch_parameters", "orchestrator"}
                   \cup ContainerNames \cup FileNames)
  BY <1>5 DEF Alike, ContainerNames, FileNames
<1>13. /\ s._resolved_command_str = t._resolved_command_str
       /\ \A key \in FileNames : key \in DOMAIN s => PlainArray(s, key) = PlainArray(t, key)
  BY <1>12, AlikeArrays
<1>14. \A p : p \notin {"_command_array", "_inputs_array", "_outputs_array"} =>
                 (p \in DOMAIN t <=> p \in DOMAIN s) /\ IOSet(t, p, 1) = IOSet(s, p, 1)
  <2>1. \A p : p \notin {"_command_array", "_inputs_array", "_outputs_array"} => (p \in DOMAIN t <=> p \in DOMAIN s)
    BY <1>5 DEF Has
  <2> QED BY <1>5, <2>1, AlikeIOSet
<1>15. Leftover(t)
  <2>1. "inputs" \notin DOMAIN s => IOSet(t, "_inputs_array", 1) = IOSet(s, "_inputs_array", 1)
    BY <1>10, AlikeIOSet
  <2>2. "outputs" \notin DOMAIN s => IOSet(t, "_outputs_array", 1) = IOSet(s, "_outputs_array", 1)
    BY <1>11, AlikeIOSet
  <2> QED BY <1>14, <2>1, <2>2 DEF Leftover
<1>16. ~Given(t, "_resolved_batch_parameters")
  <2>1. Has(t, "_resolved_batch_parameters") = Has(s, "_resolved_batch_parameters")
    BY <1>5
  <2> QED BY <2>1, AlikeGiven
<1>17. PlainFields(t)
  <2>1. "inputs" \in FileNames /\ "outputs" \in FileNames
    BY DEF FileNames
  <2>2. commands = List(<< <<t._resolved_command_str, NoRecord>> >>)
    BY <1>13 DEF commands
  <2>3. ("inputs" \in DOMAIN t <=> "inputs" \in DOMAIN s) /\ ("outputs" \in DOMAIN t <=> "outputs" \in DOMAIN s)
    BY <1>14
  <2> QED BY <1>7, <1>8, <1>9, <1>13, <1>16, <2>1, <2>2, <2>3 DEF PlainFields
<1>18. "orchestrator" \in DOMAIN t /\ t.orchestrator = Text("plain")
  <2>1. Has(t, "orchestrator") = Has(s, "orchestrator")
    BY <1>5
  <2> QED BY <2>1 DEF Has
<1>19. Formatted(t)
  BY <1>17, <1>18 DEF Formatted
<1> QED BY <1>5, <1>6, <1>15, <1>19 DEF t

\* The container's form of the command, if there is a container.
LEMMA ContainedFacts ==
    ASSUME NEW s, Leftover(s), "_resolved_command_str" \in DOMAIN s
    PROVE  /\ ContainerFields(Contained(s))
           /\ \A p : p \notin ContainerNames => Has(Contained(s), p) = Has(s, p)
           /\ "_extra_inputs" \in DOMAIN Contained(s) => "_container_command_str" \in DOMAIN Contained(s)
           /\ "_container_command_str" \in DOMAIN Contained(s) =>
                 "_container_command_str" \in DOMAIN s \/ ValueOf(s, "container") # Null
<1> DEFINE u == [_container_command_str |-> <<"in", s.container, s._resolved_command_str>>,
                 _extra_inputs |-> List(<<s.container[2]>>)]
           t == Contained(s)
<1>1. CASE ValueOf(s, "container") = Null
  <2>1. t = s
    BY <1>1 DEF Contained
  <2> QED BY <1>1, <2>1 DEF ContainerFields, Leftover
<1>2. CASE ValueOf(s, "container") # Null
  <2>1. t = Over(u, s)
    BY <1>2 DEF Contained
  <2>2. /\ DOMAIN u = ContainerNames
        /\ u._container_command_str = <<"in", s.container, s._resolved_command_str>>
        /\ u._extra_inputs = List(<<s.container[2]>>)
    BY DEF ContainerNames
  <2> HIDE DEF u, t
  <2>3. \A p : p \notin ContainerNames => Has(t, p) = Has(s, p)
    BY <2>1, <2>2, OverKeeps
  <2>4. \A p \in ContainerNames : p \in DOMAIN t /\ t[p] = u[p]
    BY <2>1, <2>2, OverHas
  <2>5. "_container_command_str" \in ContainerNames /\ "_extra_inputs" \in ContainerNames
        /\ "container" \notin ContainerNames /\ "_resolved_command_str" \notin ContainerNames
    BY DEF ContainerNames
  <2>6. "container" \in DOMAIN s
    BY <1>2 DEF ValueOf, Given
  <2>7. t.container = s.container /\ t._resolved_command_str = s._resolved_command_str
    BY <2>3, <2>5, <2>6 DEF Has
  <2>8. ContainerFields(t)
    BY <2>2, <2>4, <2>5, <2>7 DEF ContainerFields
  <2> QED BY <1>2, <2>3, <2>4, <2>5, <2>8 DEF t
<1> QED BY <1>1, <1>2

\* What the other orchestrators form.
LEMMA CommandFormed ==
    ASSUME NEW s, "orchestrator" \in DOMAIN s, s.orchestrator # Text("plain"), ContainerFields(s),
           "_extra_inputs" \in DOMAIN s => "_container_command_str" \in DOMAIN s,
           {"_resolved_command_str", "_resolved_batch_parameters"} \subseteq DOMAIN s, 1 \in DOMAIN Records(s)
    PROVE  /\ Formatted(FormatCommand(s)) /\ Leftover(FormatCommand(s))
           /\ FormatCommand(s) = [p \in DOMAIN FormatCommand(s) |-> FormatCommand(s)[p]]
           /\ \A p : p \notin ArrayNames => Has(FormatCommand(s), p) = Has(s, p)
<1> DEFINE u == [_command_array |-> List([i \in DOMAIN Records(s) |-> <<Formed(s), Records(s)[i]>>]),
                 _inputs_array  |-> FormatArray(s, "inputs"),
                 _outputs_array |-> FormatArray(s, "outputs"),
                 _extra_inputs_array |-> List([i \in DOMAIN Records(s) |-> ExtraOf(s)])]
           t == FormatCommand(s)
<1>1. t = Over(u, s)
  BY DEF FormatCommand, Formed, Extra, ExtraOf
<1>2. /\ DOMAIN u = ArrayNames
      /\ u._command_array = List([i \in DOMAIN Records(s) |-> <<Formed(s), Records(s)[i]>>])
      /\ u._inputs_array = FormatArray(s, "inputs") /\ u._outputs_array = FormatArray(s, "outputs")
      /\ u._extra_inputs_array = List([i \in DOMAIN Records(s) |-> ExtraOf(s)])
  BY DEF ArrayNames
<1> HIDE DEF u, t
<1>3. \A p : p \notin ArrayNames => Has(t, p) = Has(s, p)
  BY <1>1, <1>2, OverKeeps
<1>4. t = [p \in DOMAIN t |-> t[p]]
  BY <1>1, OverHas
<1>5. \A p \in ArrayNames : p \in DOMAIN t /\ t[p] = u[p]
  BY <1>1, <1>2, OverHas
<1> DEFINE names == {"_resolved_command_str", "_resolved_batch_parameters", "orchestrator", "container"}
                    \cup ContainerNames \cup FileNames
<1>6. names \cap ArrayNames = {} /\ FileNames \subseteq names /\ ContainerNames \subseteq names
  BY DEF ContainerNames, FileNames, ArrayNames
<1>7. Alike(s, t, names)
  BY <1>3, <1>6 DEF Alike
<1>8. /\ Records(s) = Records(t)
      /\ \A key \in FileNames : FormatArray(s, key) = FormatArray(t, key)
      /\ Formed(s) = Formed(t) /\ ExtraOf(s) = ExtraOf(t)
  BY <1>6, <1>7, AlikeArrays
<1>9. "inputs" \in FileNames /\ "outputs" \in FileNames
  BY DEF FileNames
<1>10. ArrayFields(t)
  <2>1. {"_command_array", "_inputs_array", "_outputs_array", "_extra_inputs_array"} = ArrayNames
    BY DEF ArrayNames
  <2> QED BY <1>2, <1>5, <1>8, <1>9, <2>1 DEF ArrayFields
<1>11. \A p \in names : (p \in DOMAIN t <=> p \in DOMAIN s) /\ (p \in DOMAIN s => t[p] = s[p])
                        /\ ValueOf(t, p) = ValueOf(s, p)
  <2>1. \A p \in names : (p \in DOMAIN t <=> p \in DOMAIN s) /\ (p \in DOMAIN s => t[p] = s[p])
    BY <1>7, AlikeValues
  <2>2. \A p \in names : ValueOf(t, p) = ValueOf(s, p)
    BY <1>7, AlikeGiven DEF Alike
  <2> QED BY <2>1, <2>2
<1>12. {"_container_command_str", "_extra_inputs", "container", "orchestrator", "inputs", "outputs",
        "_resolved_command_str"} \subseteq names
  BY DEF ContainerNames, FileNames
<1> HIDE DEF names
<1>13. ContainerFields(t)
  <2>1. ValueOf(s, "container") # Null => "container" \in DOMAIN s
    BY DEF ValueOf, Given
  <2> QED BY <1>11, <1>12, <2>1 DEF ContainerFields
<1>14. "orchestrator" \in DOMAIN t /\ t.orchestrator # Text("plain")
  BY <1>11, <1>12
<1>15. Formatted(t)
  BY <1>10, <1>13, <1>14 DEF Formatted
<1>16. Leftover(t)
  <2>1. "_extra_inputs" \in DOMAIN t => "_container_command_str" \in DOMAIN t
    BY <1>11, <1>12
  <2>2. ASSUME "_container_command_str" \notin DOMAIN t PROVE IOSet(t, "_extra_inputs_array", 1) = {}
    <3>1. Extra(t) = <<>>
      BY <2>1, <2>2 DEF Extra
    <3>2. DOMAIN <<>> = {}
      OBVIOUS
    <3>3. ExtraOf(t) = {}
      BY <3>1, <3>2 DEF ExtraOf, ToSet
    <3> DEFINE f == [i \in DOMAIN Records(t) |-> ExtraOf(t)]
    <3>4. t._extra_inputs_array = List(f)
      BY <1>10 DEF ArrayFields
    <3>5. List(f)[2] = f
      BY DEF List
    <3>6. 1 \in DOMAIN Records(t)
      BY <1>8
    <3>7. f[1] = {}
      BY <3>3, <3>6
    <3> HIDE DEF f
    <3> QED BY <3>4, <3>5, <3>7 DEF IOSet
  <2>3. ASSUME NEW key, key \notin DOMAIN t PROVE FormatArray(t, key)[2] = <<>>
    BY <2>3 DEF FormatArray, List
  <2>4. "inputs" \notin DOMAIN t => IOSet(t, "_inputs_array", 1) = {}
    BY <1>10, <2>3 DEF ArrayFields, IOSet
  <2>5. "outputs" \notin DOMAIN t => IOSet(t, "_outputs_array", 1) = {}
    BY <1>10, <2>3 DEF ArrayFields, IOSet
  <2> QED BY <2>1, <2>2, <2>4, <2>5 DEF Leftover
<1> QED BY <1>3, <1>4, <1>15, <1>16 DEF t

\* A record by itself is formed to what it is.
LEMMA ConstructedAgain ==
    ASSUME NEW s, Recorded(s)
    PROVE  /\ Over([orchestrator |-> OrchestratorOf(s)], s) = s
           /\ s.orchestrator = Text("plain") => Plain(s) = s
           /\ s.orchestrator # Text("plain") => FormatCommand(Contained(s)) = s
<1>1. s = [p \in DOMAIN s |-> s[p]] /\ Formatted(s) /\ "orchestrator" \in DOMAIN s
  BY DEF Recorded, Formatted
<1>2. Over([orchestrator |-> OrchestratorOf(s)], s) = s
  <2> DEFINE u == [orchestrator |-> OrchestratorOf(s)]
  <2>1. DOMAIN u = {"orchestrator"} /\ u.orchestrator = s.orchestrator
    BY <1>1 DEF OrchestratorOf
  <2> HIDE DEF u
  <2>2. Over(u, s) = s
    BY <1>1, <2>1, Absorbs
  <2> QED BY <2>2 DEF u
<1>3. ASSUME s.orchestrator = Text("plain") PROVE Plain(s) = s
  <2> DEFINE from == [_inputs_array |-> "inputs", _outputs_array |-> "outputs"]
             arrays == [a \in {x \in DOMAIN from : from[x] \in DOMAIN s} |-> PlainArray(s, from[a])]
             u == [_command_array |-> List(<< <<s._resolved_command_str, NoRecord>> >>)]
  <2>1. Plain(s) = Over(arrays, Over(u, s))
    BY DEF Plain
  <2>2. PlainFields(s)
    BY <1>1, <1>3 DEF Formatted
  <2>3. DOMAIN u = {"_command_array"} /\ u._command_array = List(<< <<s._resolved_command_str, NoRecord>> >>)
    OBVIOUS
  <2>4. /\ DOMAIN from = {"_inputs_array", "_outputs_array"}
        /\ from._inputs_array = "inputs" /\ from._outputs_array = "outputs"
    OBVIOUS
  <2> HIDE DEF from, u
  <2>5. /\ DOMAIN arrays = {x \in DOMAIN from : from[x] \in DOMAIN s}
        /\ \A a \in DOMAIN arrays : arrays[a] = PlainArray(s, from[a])
    OBVIOUS
  <2> HIDE DEF arrays
  <2>6. Over(u, s) = s
    BY <1>1, <2>2, <2>3, Absorbs DEF PlainFields
  <2>7. \A p \in DOMAIN arrays : p \in DOMAIN s /\ s[p] = arrays[p]
    BY <2>2, <2>4, <2>5 DEF PlainFields
  <2>8. Over(arrays, s) = s
    BY <1>1, <2>7, Absorbs
  <2> QED BY <2>1, <2>6, <2>8
<1>4. ASSUME s.orchestrator # Text("plain") PROVE FormatCommand(Contained(s)) = s
  <2>1. ContainerFields(s) /\ ArrayFields(s)
    BY <1>1, <1>4 DEF Formatted
  <2>2. Contained(s) = s
    <3>1. CASE ValueOf(s, "container") = Null
      BY <3>1 DEF Contained
    <3>2. CASE ValueOf(s, "container") # Null
      <4> DEFINE u == [_container_command_str |-> <<"in", s.container, s._resolved_command_str>>,
                       _extra_inputs |-> List(<<s.container[2]>>)]
      <4>1. Contained(s) = Over(u, s)
        BY <3>2 DEF Contained
      <4>2. /\ DOMAIN u = {"_container_command_str", "_extra_inputs"}
            /\ u._container_command_str = <<"in", s.container, s._resolved_command_str>>
            /\ u._extra_inputs = List(<<s.container[2]>>)
        OBVIOUS
      <4> HIDE DEF u
      <4>3. \A p \in DOMAIN u : p \in DOMAIN s /\ s[p] = u[p]
        BY <2>1, <3>2, <4>2 DEF ContainerFields
      <4> QED BY <1>1, <4>1, <4>3, Absorbs
    <3> QED BY <3>1, <3>2
  <2>3. FormatCommand(s) = s
    <3> DEFINE u == [_command_array |-> List([i \in DOMAIN Records(s) |-> <<Formed(s), Records(s)[i]>>]),
                     _inputs_array  |-> FormatArray(s, "inputs"),
                     _outputs_array |-> FormatArray(s, "outputs"),
                     _extra_inputs_array |-> List([i \in DOMAIN Records(s) |-> ExtraOf(s)])]
    <3>1. FormatCommand(s) = Over(u, s)
      BY DEF FormatCommand, Formed, Extra, ExtraOf
    <3>2. /\ DOMAIN u = {"_command_array", "_inputs_array", "_outputs_array", "_extra_inputs_array"}
          /\ u._command_array = List([i \in DOMAIN Records(s) |-> <<Formed(s), Records(s)[i]>>])
          /\ u._inputs_array = FormatArray(s, "inputs") /\ u._outputs_array = FormatArray(s, "outputs")
          /\ u._extra_inputs_array = List([i \in DOMAIN Records(s) |-> ExtraOf(s)])
      OBVIOUS
    <3> HIDE DEF u
    <3>3. \A p \in DOMAIN u : p \in DOMAIN s /\ s[p] = u[p]
      BY <2>1, <3>2 DEF ArrayFields
    <3> QED BY <1>1, <3>1, <3>3, Absorbs
  <2> QED BY <2>2, <2>3
<1> QED BY <1>2, <1>3, <1>4

\* What either orchestrator forms.
LEMMA ConstructFacts ==
    ASSUME NEW s, "orchestrator" \in DOMAIN s, Leftover(s), Batched(s), "_resolved_command_str" \in DOMAIN s,
           ~(s.orchestrator = Text("plain") /\ Given(s, "_resolved_batch_parameters")),
           NEW t, t = IF s.orchestrator = Text("plain") THEN Plain(s) ELSE FormatCommand(Contained(s))
    PROVE  /\ Formatted(t) /\ Leftover(t) /\ t = [p \in DOMAIN t |-> t[p]]
           /\ \A p : p \notin ContainerNames \cup ArrayNames => Has(t, p) = Has(s, p)
           /\ "_container_command_str" \in DOMAIN t =>
                 \/ "_container_command_str" \in DOMAIN s
                 \/ s.orchestrator # Text("plain") /\ ValueOf(s, "container") # Null
<1>1. {"_resolved_command_str", "_resolved_batch_parameters"} \subseteq DOMAIN s
  BY DEF Batched
<1>2. CASE s.orchestrator = Text("plain")
  <2>1. t = Plain(s) /\ ~Given(s, "_resolved_batch_parameters")
    BY <1>2
  <2>2. /\ Formatted(t) /\ Leftover(t) /\ t = [p \in DOMAIN t |-> t[p]]
        /\ \A p : p \notin {"_command_array", "_inputs_array", "_outputs_array"} => Has(t, p) = Has(s, p)
    BY <1>1, <1>2, <2>1, PlainFormed
  <2>3. {"_command_array", "_inputs_array", "_outputs_array"} \subseteq ArrayNames
    BY DEF ArrayNames
  <2>4. "_container_command_str" \in DOMAIN t => "_container_command_str" \in DOMAIN s
    <3>1. Has(t, "_container_command_str") = Has(s, "_container_command_str")
      BY <2>2
    <3> QED BY <3>1 DEF Has
  <2> QED BY <2>2, <2>3, <2>4
<1>3. CASE s.orchestrator # Text("plain")
  <2>1. PICK c : c = Contained(s)
    OBVIOUS
  <2>2. t = FormatCommand(c)
    BY <1>3, <2>1
  <2>3. /\ ContainerFields(c)
        /\ \A p : p \notin ContainerNames => Has(c, p) = Has(s, p)
        /\ "_extra_inputs" \in DOMAIN c => "_container_command_str" \in DOMAIN c
        /\ "_container_command_str" \in DOMAIN c =>
              "_container_command_str" \in DOMAIN s \/ ValueOf(s, "container") # Null
    BY <2>1, ContainedFacts
  <2>4. \A p \in {"orchestrator", "_resolved_command_str", "_resolved_batch_parameters"} :
           (p \in DOMAIN c <=> p \in DOMAIN s) /\ (p \in DOMAIN s => c[p] = s[p])
    <3>1. \A p \in {"orchestrator", "_resolved_command_str", "_resolved_batch_parameters"} : p \notin ContainerNames
      BY DEF ContainerNames
    <3> QED BY <2>3, <3>1 DEF Has
  <2>5. Records(c) = Records(s)
    BY <1>1, <2>4 DEF Records
  <2>6. 1 \in DOMAIN Records(c)
    BY <2>5, RecordsAreFor
  <2>7. /\ Formatted(t) /\ Leftover(t) /\ t = [p \in DOMAIN t |-> t[p]]
        /\ \A p : p \notin ArrayNames => Has(t, p) = Has(c, p)
    <3>1. "orchestrator" \in DOMAIN c /\ c.orchestrator # Text("plain")
      BY <1>3, <2>4
    <3>2. {"_resolved_command_str", "_resolved_batch_parameters"} \subseteq DOMAIN c
      BY <1>1, <2>4
    <3> QED BY <2>2, <2>3, <2>6, <3>1, <3>2, CommandFormed
  <2>8. "_container_command_str" \in DOMAIN t => "_container_command_str" \in DOMAIN c
    <3>1. "_container_command_str" \notin ArrayNames
      BY DEF ArrayNames
    <3>2. Has(t, "_container_command_str") = Has(c, "_container_command_str")
      BY <2>7, <3>1
    <3> QED BY <3>2 DEF Has
  <2> QED BY <1>3, <2>3, <2>7, <2>8
<1> QED BY <1>2, <1>3

\* The commands and the files of the subjobs are formed.
LEMMA ConstructRuns == ASSUME SpecsIInv, RunsIInv, Construct PROVE RunsIInv'
<1>1. progress = "construct" /\ UNCHANGED <<runs, sources, typed, where, submitted>>
  BY DEF Construct
<1> DEFINE spec == Over([orchestrator |-> OrchestratorOf(jobSpec)], jobSpec)
<1>2. \/ progress' = "failed"
      \/ /\ progress' = "submit" /\ ~ConstructFails(jobSpec)
         /\ jobSpec' = IF spec.orchestrator = Text("plain") THEN Plain(spec)
                       ELSE FormatCommand(Contained(spec))
  BY DEF Construct
<1>3. Sought' = Sought
  BY <1>1 DEF Sought
<1>4. /\ \A i \in DOMAIN submitted : Made(submitted[i])
      /\ OnTheWay /\ Unchanged /\ Resolved
  BY <1>1 DEF RunsIInv
<1>5. \A i \in DOMAIN submitted' : Made(submitted'[i])
  BY <1>1, <1>4
<1>6. ASSUME progress' = "submit" PROVE OnTheWay' /\ Unchanged' /\ Resolved' /\ Formatted(jobSpec')
  <2>1. /\ Origins(Sought) /\ Leftover(jobSpec)
        /\ "_container_command_str" \in DOMAIN jobSpec => FromARecord(Sought)
    BY <1>1, <1>4 DEF OnTheWay
  <2>2. /\ Batched(jobSpec) /\ Commanded(jobSpec, typed.command)
        /\ typed.command = Null => Asked(Sought, "command") = Has(jobSpec, "command")
    BY <1>4 DEF Resolved
  <2>3. "orchestrator" \in DOMAIN spec /\ spec.orchestrator = OrchestratorOf(jobSpec)
    BY OverHas
  <2>4. \A p : p # "orchestrator" => Has(spec, p) = Has(jobSpec, p)
    <3> DEFINE u == [orchestrator |-> OrchestratorOf(jobSpec)]
    <3>1. DOMAIN u = {"orchestrator"}
      OBVIOUS
    <3> HIDE DEF u
    <3>2. \A p : p # "orchestrator" => Has(Over(u, jobSpec), p) = Has(jobSpec, p)
      BY <3>1, OverKeeps
    <3> QED BY <3>2 DEF u
  <2> HIDE DEF spec
  <2>5. Leftover(spec)
    <3>1. Alike(jobSpec, spec, ContainerNames \cup ArrayNames \cup FileNames)
      BY <2>4 DEF Alike, ContainerNames, ArrayNames, FileNames
    <3> QED BY <2>1, <3>1, AlikeLeftover
  <2>6. Batched(spec)
    <3>1. Alike(jobSpec, spec, BatchNames)
      BY <2>4 DEF Alike, BatchNames
    <3> QED BY <2>2, <3>1, AlikeBatched
  <2>7. Commanded(spec, typed.command)
    <3>1. Alike(jobSpec, spec, CommandNames)
      BY <2>4 DEF Alike, CommandNames
    <3> QED BY <2>2, <3>1, AlikeCommanded
  <2>8. ~(spec.orchestrator = Text("plain") /\ Given(spec, "_resolved_batch_parameters"))
    <3>1. Has(spec, "_resolved_batch_parameters") = Has(jobSpec, "_resolved_batch_parameters")
      BY <2>4
    <3>2. Given(spec, "_resolved_batch_parameters") = Given(jobSpec, "_resolved_batch_parameters")
      BY <3>1, AlikeGiven
    <3> QED BY <1>2, <1>6, <2>3, <3>2 DEF ConstructFails
  <2>9. PICK t : t = jobSpec'
    OBVIOUS
  <2>10. /\ Formatted(t) /\ Leftover(t) /\ t = [p \in DOMAIN t |-> t[p]]
         /\ \A p : p \notin ContainerNames \cup ArrayNames => Has(t, p) = Has(spec, p)
         /\ "_container_command_str" \in DOMAIN t =>
               \/ "_container_command_str" \in DOMAIN spec
               \/ spec.orchestrator # Text("plain") /\ ValueOf(spec, "container") # Null
    <3>1. t = IF spec.orchestrator = Text("plain") THEN Plain(spec) ELSE FormatCommand(Contained(spec))
      BY <1>2, <1>6, <2>9
    <3>2. "_resolved_command_str" \in DOMAIN spec
      BY <2>7 DEF Commanded
    <3> QED BY <2>3, <2>5, <2>6, <2>8, <3>1, <3>2, ConstructFacts
  <2>11. Batched(t)
    <3>1. Alike(spec, t, BatchNames)
      BY <2>10 DEF Alike, BatchNames, ContainerNames, ArrayNames
    <3> QED BY <2>6, <3>1, AlikeBatched
  <2>12. Commanded(t, typed.command)
    <3>1. Alike(spec, t, CommandNames)
      BY <2>10 DEF Alike, CommandNames, ContainerNames, ArrayNames
    <3> QED BY <2>7, <3>1, AlikeCommanded
  <2>13. typed.command = Null => Asked(Sought, "command") = Has(t, "command")
    <3>1. "command" \notin ContainerNames \cup ArrayNames
      BY DEF ContainerNames, ArrayNames
    <3> QED BY <2>2, <2>4, <2>10, <3>1
  <2>14. "_container_command_str" \in DOMAIN t =>
            \/ FromARecord(Sought)
            \/ t.orchestrator # Text("plain") /\ ValueOf(t, "container") # Null
    <3>1. "orchestrator" \notin ContainerNames \cup ArrayNames /\ "container" \notin ContainerNames \cup ArrayNames
      BY DEF ContainerNames, ArrayNames
    <3>2. Has(t, "orchestrator") = Has(spec, "orchestrator") /\ Has(t, "container") = Has(spec, "container")
      BY <2>10, <3>1
    <3>3. t.orchestrator = spec.orchestrator
      BY <2>3, <3>2 DEF Has
    <3>4. ValueOf(t, "container") = ValueOf(spec, "container")
      BY <3>2, AlikeGiven
    <3>5. "_container_command_str" \in DOMAIN spec => "_container_command_str" \in DOMAIN jobSpec
      BY <2>4 DEF Has
    <3> QED BY <2>1, <2>10, <3>3, <3>4, <3>5
  <2>15. OnTheWay'
    <3>1. "batch_parameters" \in DOMAIN t => Combinable(t.batch_parameters)
      BY <2>11 DEF Batched
    <3> QED BY <1>3, <1>6, <2>1, <2>9, <2>10, <2>14, <3>1 DEF OnTheWay
  <2>16. Resolved'
    BY <1>1, <1>3, <2>9, <2>11, <2>12, <2>13 DEF Resolved
  <2>17. Unchanged'
    <3> SUFFICES ASSUME NEW old, Again(old)' PROVE jobSpec' = old /\ where' = old.resource_id
      BY DEF Unchanged
    <3>1. Again(old) /\ Recorded(old)
      BY <1>1 DEF Again
    <3>2. jobSpec = old /\ where = old.resource_id
      BY <1>1, <1>4, <3>1 DEF Unchanged
    <3>3. /\ spec = old
          /\ old.orchestrator = Text("plain") => Plain(old) = old
          /\ old.orchestrator # Text("plain") => FormatCommand(Contained(old)) = old
      BY <3>1, <3>2, ConstructedAgain DEF spec
    <3> QED BY <1>1, <1>2, <1>6, <3>2, <3>3
  <2> QED BY <2>9, <2>10, <2>15, <2>16, <2>17
<1> HIDE DEF spec
<1> QED BY <1>2, <1>5, <1>6 DEF RunsIInv
-----------------------------------------------------------------------------
\* What counts of a parameter that a spec has as it was asked for.
LEMMA AskedIsGiven ==
    ASSUME NEW given, NEW r, NEW p, Asked(given, p) = Has(r, p)
    PROVE  /\ AskedSome(given, p) = IF Given(r, p) THEN {r[p]} ELSE {}
           /\ ValueOf(r, p) # Null <=> AskedSome(given, p) # {}
           /\ Given(r, p) => ValueOf(r, p) = r[p] /\ p \in DOMAIN r
<1>1. AskedSome(given, p) = IF Given(r, p) THEN {r[p]} ELSE {}
  BY DEF AskedSome, Has, Given
<1>2. Given(r, p) => r[p] # Null
  BY DEF Given
<1> QED BY <1>1, <1>2 DEF ValueOf, Given

\* The records are those that are asked for.
LEMMA RecordsAsAsked ==
    ASSUME NEW given, NEW r, Batched(r), Asked(given, "batch_spec") = Has(r, "batch_spec"),
           Asked(given, "batch_parameters") = Has(r, "batch_parameters")
    PROVE  AskedRecords(given) = RecordsFor(r)
<1>1. /\ AskedSome(given, "batch_spec") = IF Given(r, "batch_spec") THEN {r["batch_spec"]} ELSE {}
      /\ AskedSome(given, "batch_parameters") =
            IF Given(r, "batch_parameters") THEN {r["batch_parameters"]} ELSE {}
  BY AskedIsGiven
<1>2. CASE Given(r, "batch_spec")
  <2>1. AskedSome(given, "batch_spec") # {}
    BY <1>1, <1>2
  <2> QED BY <1>2, <2>1 DEF AskedRecords, RecordsFor
<1> DEFINE All(b) ==
              {f \in [{b[2][i].key : i \in DOMAIN b[2]} -> UNION {ToSet(b[2][i].values) : i \in DOMAIN b[2]}] :
                  \A i \in DOMAIN b[2] : f[b[2][i].key] \in ToSet(b[2][i].values)}
<1>3. AskedSome(given, "batch_spec") = {} =>
         AskedRecords(given) = UNION {All(b) : b \in AskedSome(given, "batch_parameters")}
  BY DEF AskedRecords
<1>4. CASE ~Given(r, "batch_spec") /\ Given(r, "batch_parameters")
  <2>1. PICK b : b = r["batch_parameters"]
    OBVIOUS
  <2>2. b[1] = "batch" /\ Combinable(b)
    BY <1>4, <2>1 DEF Batched, BatchFails, Given
  <2>3. DOMAIN b[2] = 1 .. Len(b[2])
    BY <2>2 DEF Combinable
  <2>4. All(b) = AllOf(b[2], Len(b[2]))
    BY <2>3 DEF AllOf
  <2> HIDE DEF All
  <2>5. AskedRecords(given) = UNION {All(x) : x \in {b}}
    BY <1>1, <1>3, <1>4, <2>1
  <2>6. AskedRecords(given) = All(b)
    BY <2>5
  <2>7. RecordsFor(r) = AllOf(b[2], Len(b[2]))
    BY <1>4, <2>1 DEF RecordsFor
  <2> QED BY <2>4, <2>6, <2>7
<1>5. CASE ~Given(r, "batch_spec") /\ ~Given(r, "batch_parameters")
  <2> HIDE DEF All
  <2>1. AskedRecords(given) = UNION {All(x) : x \in {}}
    BY <1>1, <1>3, <1>5
  <2>2. AskedRecords(given) = {}
    BY <2>1
  <2> QED BY <1>5, <2>2 DEF RecordsFor
<1> QED BY <1>2, <1>4, <1>5

\* The command is the one that is asked for.
LEMMA CommandAsAsked ==
    ASSUME NEW made, NEW given, given = Specs(made), NEW r, r = made.record, Commanded(r, made.typed.command),
           \A p \in {"command_str", "container"} : Asked(given, p) = Has(r, p),
           made.typed.command = Null => Asked(given, "command") = Has(r, "command")
    PROVE  AskedCommand(made) =
              IF ValueOf(r, "container") = Null \/ r.orchestrator = Text("plain") THEN {r._resolved_command_str}
              ELSE {<<"in", r.container, r._resolved_command_str>>}
<1> DEFINE list == IF made.typed.command # Null THEN {made.typed.command} ELSE Asked(given, "command")
           bare == IF made.typed.command = Null /\ Asked(given, "command_str") # {}
                   THEN Asked(given, "command_str") ELSE {List(Elements(c)) : c \in list}
           container == AskedSome(given, "container")
<1>1. AskedCommand(made) = IF container = {} \/ made.record.orchestrator = Text("plain") THEN bare
                           ELSE {<<"in", c, b>> : c \in container, b \in bare}
  BY DEF AskedCommand
<1>2. Asked(given, "command_str") = Has(r, "command_str")
  OBVIOUS
<1>3. bare = {r._resolved_command_str}
  <2>1. CASE made.typed.command = Null /\ "command_str" \in DOMAIN r
    <3>1. bare = {r.command_str}
      BY <1>2, <2>1 DEF Has
    <3> HIDE DEF bare
    <3> QED BY <2>1, <3>1 DEF Commanded
  <2>2. CASE ~(made.typed.command = Null /\ "command_str" \in DOMAIN r)
    <3>1. "command" \in DOMAIN r /\ r._resolved_command_str = List(Elements(r.command))
      BY <2>2 DEF Commanded
    <3>2. list = {r.command}
      BY <3>1 DEF Commanded, Has
    <3>3. bare = {List(Elements(c)) : c \in list}
      BY <1>2, <2>2 DEF Has
    <3> HIDE DEF list, bare
    <3>4. {List(Elements(c)) : c \in {r.command}} = {List(Elements(r.command))}
      OBVIOUS
    <3> QED BY <3>1, <3>2, <3>3, <3>4
  <2> QED BY <2>1, <2>2
<1>4. container = {} <=> ValueOf(r, "container") = Null
  BY AskedIsGiven
<1>5. ValueOf(r, "container") # Null => container = {r["container"]}
  BY AskedIsGiven DEF ValueOf
<1> HIDE DEF list, bare, container
<1>6. {<<"in", c, b>> : c \in {r.container}, b \in {r._resolved_command_str}}
         = {<<"in", r.container, r._resolved_command_str>>}
  OBVIOUS
<1> QED BY <1>1, <1>3, <1>4, <1>5, <1>6

\* The files are those that are asked for.
LEMMA FilesAsAsked ==
    ASSUME NEW given, NEW r, NEW key, Asked(given, key) = Has(r, key), NEW record
    PROVE  AskedFiles(given, key, record) =
              IF key \in DOMAIN r THEN Expand(Elements(r[key]), record) ELSE {}
<1>1. AskedFiles(given, key, record) = UNION {Expand(Elements(v), record) : v \in Has(r, key)}
  BY DEF AskedFiles
<1>2. UNION {Expand(Elements(v), record) : v \in {r[key]}} = Expand(Elements(r[key]), record)
  OBVIOUS
<1>3. UNION {Expand(Elements(v), record) : v \in {}} = {}
  OBVIOUS
<1> QED BY <1>1, <1>2, <1>3 DEF Has

\* The subjobs of a record: a command and the files for each of its records.
FilesOf(r, key, record) == IF key \in DOMAIN r THEN Expand(Elements(r[key]), record) ELSE {}
FormedFor(r, command, image) ==
    /\ DOMAIN r._command_array[2] = DOMAIN Records(r)
    /\ \A i \in DOMAIN Records(r) :
          /\ r._command_array[2][i] = <<command, Records(r)[i]>>
          /\ IOSet(r, "_inputs_array", i) = FilesOf(r, "inputs", Records(r)[i])
          /\ IOSet(r, "_outputs_array", i) = FilesOf(r, "outputs", Records(r)[i])
          /\ IOSet(r, "_extra_inputs_array", i) = image

\* The plain orchestrator has one subjob.
LEMMA PlainSubjobs ==
    ASSUME NEW r, PlainFields(r), Leftover(r), "_container_command_str" \notin DOMAIN r,
           "_resolved_batch_parameters" \in DOMAIN r
    PROVE  FormedFor(r, r._resolved_command_str, {})
<1>1. Records(r) = <<NoRecord>>
  <2>1. r._resolved_batch_parameters \in {Null, List(<<>>)}
    BY DEF PlainFields, Given
  <2> QED BY <2>1 DEF Records
<1>2. DOMAIN Records(r) = {1} /\ Records(r)[1] = NoRecord
  BY <1>1
<1>3. \A x : List(<<x>>)[2] = <<x>> /\ <<x>> # <<>> /\ DOMAIN <<x>> = {1} /\ <<x>>[1] = x
  BY DEF List
<1>4. r._command_array = List(<< <<r._resolved_command_str, NoRecord>> >>)
  BY DEF PlainFields
<1>5. ASSUME NEW key, NEW which,
             key \in DOMAIN r => which \in DOMAIN r /\ r[which] = PlainArray(r, key),
             key \notin DOMAIN r => IOSet(r, which, 1) = {}
      PROVE  IOSet(r, which, 1) = FilesOf(r, key, NoRecord)
  <2>1. CASE key \in DOMAIN r
    <3>1. r[which] = List(<<Expand(Elements(r[key]), NoRecord)>>) /\ which \in DOMAIN r
      BY <1>5, <2>1 DEF PlainArray
    <3> QED BY <1>3, <2>1, <3>1 DEF IOSet, FilesOf
  <2>2. CASE key \notin DOMAIN r
    BY <1>5, <2>2 DEF FilesOf
  <2> QED BY <2>1, <2>2
<1>6. IOSet(r, "_inputs_array", 1) = FilesOf(r, "inputs", NoRecord)
  BY <1>5 DEF PlainFields, Leftover
<1>7. IOSet(r, "_outputs_array", 1) = FilesOf(r, "outputs", NoRecord)
  BY <1>5 DEF PlainFields, Leftover
<1>8. IOSet(r, "_extra_inputs_array", 1) = {}
  BY DEF Leftover
<1>9. DOMAIN r._command_array[2] = {1} /\ r._command_array[2][1] = <<r._resolved_command_str, NoRecord>>
  BY <1>3, <1>4
<1> QED BY <1>2, <1>6, <1>7, <1>8, <1>9 DEF FormedFor

\* The others have one for each record.
LEMMA OtherSubjobs ==
    ASSUME NEW r, ContainerFields(r), ArrayFields(r), Leftover(r), 1 \in DOMAIN Records(r),
           "_container_command_str" \in DOMAIN r => ValueOf(r, "container") # Null
    PROVE  FormedFor(r, IF ValueOf(r, "container") = Null THEN r._resolved_command_str
                        ELSE <<"in", r.container, r._resolved_command_str>>,
                     IF ValueOf(r, "container") = Null THEN {} ELSE {<<r.container[2], NoRecord>>})
<1> DEFINE command == IF ValueOf(r, "container") = Null THEN r._resolved_command_str
                      ELSE <<"in", r.container, r._resolved_command_str>>
           image == IF ValueOf(r, "container") = Null THEN {} ELSE {<<r.container[2], NoRecord>>}
<1>1. Formed(r) = command
  BY DEF Formed, ContainerFields
<1>2. ExtraOf(r) = image
  <2>1. CASE ValueOf(r, "container") = Null
    <3>1. Extra(r) = <<>>
      BY <2>1 DEF Extra, Leftover
    <3>2. DOMAIN <<>> = {}
      OBVIOUS
    <3>3. ExtraOf(r) = {}
      BY <3>1, <3>2 DEF ExtraOf, ToSet
    <3> QED BY <2>1, <3>3
  <2>2. CASE ValueOf(r, "container") # Null
    <3>1. Extra(r) = <<r.container[2]>>
      BY <2>2 DEF Extra, ContainerFields, List
    <3>2. PICK x : x = r.container[2]
      OBVIOUS
    <3>3. DOMAIN <<x>> = {1} /\ <<x>>[1] = x
      OBVIOUS
    <3>4. ToSet(<<x>>) = {x}
      BY <3>3 DEF ToSet
    <3>5. ExtraOf(r) = {<<y, NoRecord>> : y \in {x}}
      BY <3>1, <3>2, <3>4 DEF ExtraOf
    <3>6. {<<y, NoRecord>> : y \in {x}} = {<<x, NoRecord>>}
      OBVIOUS
    <3> QED BY <2>2, <3>2, <3>5, <3>6
  <2> QED BY <2>1, <2>2
<1> HIDE DEF command, image
<1> DEFINE D == DOMAIN Records(r)
           commands == [i \in D |-> <<command, Records(r)[i]>>]
           images == [i \in D |-> image]
<1>3. r._command_array = List(commands) /\ r._extra_inputs_array = List(images)
  BY <1>1, <1>2 DEF ArrayFields
<1>4. DOMAIN <<>> = {} /\ \A x : List(x)[2] = x
  BY DEF List
<1>5. ASSUME NEW key, NEW which, which \in DOMAIN r, r[which] = FormatArray(r, key), NEW i \in D
      PROVE  IOSet(r, which, i) = FilesOf(r, key, Records(r)[i])
  <2>1. CASE key \in DOMAIN r
    <3> DEFINE f == [j \in D |-> Expand(Elements(r[key]), Records(r)[j])]
    <3>1. r[which] = List(f)
      BY <1>5, <2>1 DEF FormatArray
    <3>2. DOMAIN f = D /\ f[i] = Expand(Elements(r[key]), Records(r)[i])
      OBVIOUS
    <3> HIDE DEF f
    <3>3. f # <<>>
      BY <1>4, <3>2
    <3> QED BY <1>4, <1>5, <2>1, <3>1, <3>2, <3>3 DEF IOSet, FilesOf
  <2>2. CASE key \notin DOMAIN r
    <3>1. r[which] = List(<<>>)
      BY <1>5, <2>2 DEF FormatArray
    <3> QED BY <1>4, <2>2, <3>1 DEF IOSet, FilesOf
  <2> QED BY <2>1, <2>2
<1>6. \A i \in D : IOSet(r, "_extra_inputs_array", i) = image
  <2>1. DOMAIN images = D /\ \A i \in D : images[i] = image
    OBVIOUS
  <2> HIDE DEF images
  <2>2. images # <<>>
    BY <1>4, <2>1
  <2> QED BY <1>3, <1>4, <2>1, <2>2 DEF IOSet, ArrayFields
<1>7. \A i \in D : IOSet(r, "_inputs_array", i) = FilesOf(r, "inputs", Records(r)[i])
  BY <1>5 DEF ArrayFields
<1>8. \A i \in D : IOSet(r, "_outputs_array", i) = FilesOf(r, "outputs", Records(r)[i])
  BY <1>5 DEF ArrayFields
<1>9. DOMAIN commands = D /\ \A i \in D : commands[i] = <<command, Records(r)[i]>>
  OBVIOUS
<1> HIDE DEF commands
<1>10. FormedFor(r, command, image)
  BY <1>3, <1>4, <1>6, <1>7, <1>8, <1>9 DEF FormedFor
<1> QED BY <1>10 DEF command, image

\* What a record runs is what its sources ask for.
LEMMA RunsWhatIsAsked ==
    ASSUME NEW made, NEW given, given = Specs(made), NEW r, r = made.record,
           Batched(r), Commanded(r, made.typed.command), Formatted(r), Leftover(r),
           \A p \in {"batch_spec", "batch_parameters", "command_str", "container", "inputs", "outputs"} :
              Asked(given, p) = Has(r, p),
           made.typed.command = Null => Asked(given, "command") = Has(r, "command"),
           "_container_command_str" \in DOMAIN r =>
              FromARecord(given) \/ (r.orchestrator # Text("plain") /\ ValueOf(r, "container") # Null),
           ~ContainerIsStale(made)
    PROVE  SubjobsAsAsked(made)
<1> DEFINE bare == ValueOf(r, "container") = Null \/ r.orchestrator = Text("plain")
           command == IF bare THEN r._resolved_command_str
                      ELSE <<"in", r.container, r._resolved_command_str>>
           image == IF bare THEN {} ELSE {<<r.container[2], NoRecord>>}
<1>1. AskedCommand(made) = {command}
  BY CommandAsAsked
<1>2. /\ AskedSome(given, "container") = IF Given(r, "container") THEN {r["container"]} ELSE {}
      /\ ValueOf(r, "container") # Null <=> AskedSome(given, "container") # {}
      /\ Given(r, "container") => ValueOf(r, "container") = r["container"] /\ "container" \in DOMAIN r
  BY AskedIsGiven
<1>3. (IF made.record.orchestrator = Text("plain") THEN {}
       ELSE {<<c[2], NoRecord>> : c \in AskedSome(given, "container")}) = image
  <2>1. CASE r.orchestrator = Text("plain")
    BY <2>1
  <2>2. CASE r.orchestrator # Text("plain") /\ ValueOf(r, "container") = Null
    <3>1. AskedSome(given, "container") = {}
      BY <1>2, <2>2
    <3> QED BY <2>2, <3>1
  <2>3. CASE ~bare
    <3>1. AskedSome(given, "container") = {r.container}
      BY <1>2, <2>3
    <3>2. {<<c[2], NoRecord>> : c \in {r.container}} = {<<r.container[2], NoRecord>>}
      OBVIOUS
    <3> QED BY <2>3, <3>1, <3>2
  <2> QED BY <2>1, <2>2, <2>3
<1>4. "_container_command_str" \in DOMAIN r => ~bare
  <2>1. FromARecord(given) => ~bare
    BY <1>2 DEF ContainerIsStale, FromARecord
  <2> QED BY <2>1
<1>5. FormedFor(r, command, image)
  <2>1. 1 \in DOMAIN Records(r)
    BY RecordsAreFor
  <2>2. CASE r.orchestrator = Text("plain")
    <3>1. PlainFields(r) /\ "_resolved_batch_parameters" \in DOMAIN r
      BY <2>2 DEF Formatted, Batched
    <3> QED BY <1>4, <2>2, <3>1, PlainSubjobs
  <2>3. CASE r.orchestrator # Text("plain")
    <3>1. ContainerFields(r) /\ ArrayFields(r)
      BY <2>3 DEF Formatted
    <3>2. FormedFor(r, IF ValueOf(r, "container") = Null THEN r._resolved_command_str
                       ELSE <<"in", r.container, r._resolved_command_str>>,
                    IF ValueOf(r, "container") = Null THEN {} ELSE {<<r.container[2], NoRecord>>})
      BY <1>4, <2>1, <3>1, OtherSubjobs
    <3> QED BY <2>3, <3>2
  <2> QED BY <2>2, <2>3
<1> HIDE DEF command, image, bare
<1> DEFINE all == Records(r)
           subjobs == SubjobsOf(r)
           combination == [i \in DOMAIN subjobs |-> subjobs[i].command[2]]
           asked == IF AskedRecords(given) = {} THEN {NoRecord} ELSE AskedRecords(given)
<1>6. /\ DOMAIN subjobs = DOMAIN all
      /\ \A i \in DOMAIN all :
            /\ subjobs[i].command = <<command, all[i]>>
            /\ subjobs[i].inputs = FilesOf(r, "inputs", all[i]) \cup image
            /\ subjobs[i].outputs = FilesOf(r, "outputs", all[i])
  BY <1>5 DEF SubjobsOf, FormedFor
<1>7. PICK S : all \in Seq(S)
  BY RecordsAreFor
<1>8. subjobs = [i \in DOMAIN all |-> subjobs[i]]
  BY <1>6 DEF SubjobsOf
<1> HIDE DEF subjobs
<1>9. DOMAIN combination = DOMAIN all /\ \A i \in DOMAIN all : combination[i] = all[i]
  BY <1>6
<1>10. Len(subjobs) = Len(all)
  <2>1. DOMAIN all = 1 .. Len(all) /\ Len(all) \in Nat
    BY <1>7
  <2> HIDE DEF all
  <2> QED BY <1>8, <2>1
<1>11. ToSet(all) = asked /\ (NoneTwice(given) => IsInjective(all))
  <2>1. /\ AskedSome(given, "batch_spec") = IF Given(r, "batch_spec") THEN {r["batch_spec"]} ELSE {}
        /\ AskedSome(given, "batch_parameters") =
              IF Given(r, "batch_parameters") THEN {r["batch_parameters"]} ELSE {}
    BY AskedIsGiven
  <2>2. NoneTwice(given) => GivenOnce(r)
    BY <2>1 DEF NoneTwice, GivenOnce
  <2> HIDE DEF asked
  <2>3. ToSet(all) = asked
    BY RecordsAreFor, RecordsAsAsked DEF asked
  <2> QED BY <2>2, <2>3, RecordsAreFor
<1> HIDE DEF combination, all, asked
<1>12. ToSet(combination) = asked
  BY <1>9, <1>11 DEF ToSet
<1>13. NoneTwice(given) => Len(subjobs) = Cardinality(asked)
  BY <1>7, <1>10, <1>11, LengthIsSize
<1>14. ASSUME NEW i \in DOMAIN subjobs
       PROVE  /\ {subjobs[i].command[1]} = AskedCommand(made)
              /\ subjobs[i].inputs = AskedFiles(given, "inputs", combination[i]) \cup image
              /\ subjobs[i].outputs = AskedFiles(given, "outputs", combination[i])
  <2>1. i \in DOMAIN all /\ combination[i] = all[i]
    BY <1>6, <1>9
  <2>2. /\ AskedFiles(given, "inputs", all[i]) = FilesOf(r, "inputs", all[i])
        /\ AskedFiles(given, "outputs", all[i]) = FilesOf(r, "outputs", all[i])
    BY FilesAsAsked DEF FilesOf
  <2>3. subjobs[i].command[1] = command
    BY <1>6, <2>1
  <2> QED BY <1>1, <1>6, <2>1, <2>2, <2>3
<1> QED BY <1>3, <1>12, <1>13, <1>14 DEF SubjobsAsAsked, subjobs, combination, asked
-----------------------------------------------------------------------------
\* The names that as_dict() fills in.
Filled == {"_jobid", "_num_subjobs", "root_directory", "working_directory",
           "resource_id", "resource_name", "submitter"}

\* Where a subjob works is always said.
LEMMA WorksSomewhere ==
    ASSUME NEW s, NEW jobid
    PROVE  /\ WorkingDirectory(s, jobid) \notin {Null, List(<<>>)}
           /\ s.orchestrator = Text("datalad-no-remote") =>
                 WorkingDirectory(s, jobid) = Text("the dataset")
           /\ s.orchestrator # Text("datalad-no-remote") /\ Given(s, "working_directory") =>
                 WorkingDirectory(s, jobid) = s.working_directory
<1>1. \A x : Text(x)[1] = "text"
  BY DEF Text
<1>2. \A x, y : <<"in", x, y>>[1] = "in"
  OBVIOUS
<1>3. Null[1] = "null" /\ List(<<>>)[1] = "list"
  BY DEF Null, List
<1>4. s.orchestrator = Text("datalad-no-remote") => WorkingDirectory(s, jobid) = Text("the dataset")
  BY DEF WorkingDirectory
<1>5. ASSUME s.orchestrator # Text("datalad-no-remote"), Given(s, "working_directory")
      PROVE  WorkingDirectory(s, jobid) = s.working_directory
  BY <1>5 DEF WorkingDirectory
<1>6. ASSUME s.orchestrator # Text("datalad-no-remote"), ~Given(s, "working_directory")
      PROVE  WorkingDirectory(s, jobid)[1] = "in"
  BY <1>2, <1>6 DEF WorkingDirectory
<1> QED BY <1>1, <1>3, <1>4, <1>5, <1>6 DEF Given

\* What is put into the record.
LEMMA RecordFacts ==
    ASSUME NEW s, NEW jobid, NEW r, r = AsDict(s, jobid)
    PROVE  /\ r = [p \in DOMAIN r |-> r[p]]
           /\ \A p : p \notin Filled => Has(r, p) = Has(s, p)
           /\ {"resource_id", "submitter", "working_directory"} \subseteq DOMAIN r
           /\ r.resource_id = where /\ r.submitter = SubmitterOf(s)
           /\ r.working_directory = WorkingDirectory(s, jobid)
<1> DEFINE filled == [_jobid |-> jobid, _num_subjobs |-> Len(s._command_array[2]),
                      root_directory |-> RootDirectory(s), working_directory |-> WorkingDirectory(s, jobid),
                      resource_id |-> where, resource_name |-> Text(NameOf[where[2]]),
                      submitter |-> SubmitterOf(s)]
<1>1. r = Over(filled, s)
  BY DEF AsDict
<1>2. /\ DOMAIN filled = Filled /\ filled.resource_id = where /\ filled.submitter = SubmitterOf(s)
      /\ filled.working_directory = WorkingDirectory(s, jobid)
  BY DEF Filled
<1>3. {"resource_id", "submitter", "working_directory"} \subseteq Filled
  BY DEF Filled
<1> HIDE DEF filled
<1>4. \A p \in Filled : p \in DOMAIN r /\ r[p] = filled[p]
  BY <1>1, <1>2, OverHas
<1>5. r = [p \in DOMAIN r |-> r[p]]
  BY <1>1, OverHas
<1>6. \A p : p \notin Filled => Has(r, p) = Has(s, p)
  BY <1>1, <1>2, OverKeeps
<1> QED BY <1>2, <1>3, <1>4, <1>5, <1>6

\* The record of a job.
LEMMA RecordIsRecorded ==
    ASSUME NEW s, NEW jobid, NEW r, r = AsDict(s, jobid), NEW c, Batched(s), Commanded(s, c), Formatted(s),
           Leftover(s), SubmitterOf(s) \in Known
    PROVE  Recorded(r) /\ Commanded(r, c)
<1>1. /\ r = [p \in DOMAIN r |-> r[p]]
      /\ \A p : p \notin Filled => Has(r, p) = Has(s, p)
      /\ {"resource_id", "submitter", "working_directory"} \subseteq DOMAIN r
      /\ r.submitter = SubmitterOf(s) /\ r.working_directory = WorkingDirectory(s, jobid)
  BY RecordFacts
<1>2. Filled \cap (BatchNames \cup CommandNames \cup FormatNames) = {}
      /\ ContainerNames \cup ArrayNames \cup FileNames \subseteq FormatNames
      /\ "orchestrator" \in FormatNames
  BY DEF Filled, BatchNames, CommandNames, FormatNames, ContainerNames, ArrayNames, FileNames
<1>3. /\ Alike(s, r, BatchNames) /\ Alike(s, r, CommandNames) /\ Alike(s, r, FormatNames)
      /\ Alike(s, r, ContainerNames \cup ArrayNames \cup FileNames)
  BY <1>1, <1>2 DEF Alike
<1>4. {"_resolved_command_str", "_resolved_batch_parameters"} \subseteq DOMAIN s
  BY DEF Batched, Commanded
<1>5. Batched(r) /\ Commanded(r, c) /\ Formatted(r) /\ Leftover(r)
  BY <1>3, <1>4, AlikeBatched, AlikeCommanded, AlikeFormatted, AlikeLeftover
<1>6. ASSUME ~({"command", "command_str"} \subseteq DOMAIN r) PROVE Commanded(r, Null)
  BY <1>5, <1>6 DEF Commanded
<1>7. "_resolved_command_str" \in DOMAIN r
  BY <1>5 DEF Commanded
<1>8. r.orchestrator = s.orchestrator
  <2>1. Has(r, "orchestrator") = Has(s, "orchestrator")
    BY <1>1, <1>2
  <2>2. "orchestrator" \in DOMAIN s
    BY DEF Formatted
  <2> QED BY <2>1, <2>2 DEF Has
<1>9. /\ Given(r, "working_directory")
      /\ r.orchestrator = Text("datalad-no-remote") => r.working_directory = Text("the dataset")
  BY <1>1, <1>8, WorksSomewhere DEF Given
<1> QED BY <1>1, <1>5, <1>6, <1>7, <1>9 DEF Recorded

\* The record of a job that was made from a record alone.
LEMMA RecordAgain ==
    ASSUME NEW old, Recorded(old), where = old.resource_id, NEW jobid, NEW r, r = AsDict(old, jobid)
    PROVE  /\ SubjobsOf(r) = SubjobsOf(old)
           /\ \A p \in {"resource_id", "orchestrator", "submitter", "working_directory"} : r[p] = old[p]
<1>1. /\ \A p : p \notin Filled => Has(r, p) = Has(old, p)
      /\ r.resource_id = where /\ r.submitter = SubmitterOf(old)
      /\ r.working_directory = WorkingDirectory(old, jobid)
  BY RecordFacts
<1>2. \A p \in {"orchestrator", "_command_array"} : p \in DOMAIN old
  BY DEF Recorded, Formatted, PlainFields, ArrayFields
<1>3. \A p \in {"orchestrator", "_command_array", "_inputs_array", "_outputs_array", "_extra_inputs_array"} :
         Has(r, p) = Has(old, p)
  BY <1>1 DEF Filled
<1>4. r.orchestrator = old.orchestrator /\ r._command_array = old._command_array
  BY <1>2, <1>3 DEF Has
<1>5. \A p \in {"_inputs_array", "_outputs_array", "_extra_inputs_array"} :
         \A i : IOSet(r, p, i) = IOSet(old, p, i)
  BY <1>3, AlikeIOSet
<1>6. SubjobsOf(r) = SubjobsOf(old)
  BY <1>4, <1>5 DEF SubjobsOf
<1>7. r.submitter = old.submitter
  <2>1. "submitter" \in DOMAIN old /\ old.submitter \in Known
    BY DEF Recorded
  <2>2. \A s : Text(s)[1] = "text"
    BY DEF Text
  <2>3. Null[1] = "null" /\ List(<<>>)[1] = "list"
    BY DEF Null, List
  <2>4. Given(old, "submitter")
    BY <2>1, <2>2, <2>3 DEF Known, Given
  <2> QED BY <1>1, <2>4 DEF SubmitterOf
<1>8. r.working_directory = old.working_directory
  <2>1. /\ Given(old, "working_directory")
        /\ old.orchestrator = Text("datalad-no-remote") => old.working_directory = Text("the dataset")
    BY DEF Recorded
  <2> QED BY <1>1, <2>1, WorksSomewhere
<1> QED BY <1>1, <1>4, <1>6, <1>7, <1>8

\* The first of what is combined now is the first file.
LEMMA FirstSource ==
    ASSUME NEW old, sources = [NoSources EXCEPT !.files = <<old>>]
    PROVE  Sought[1] = old
<1>1. /\ sources.files = <<old>> /\ sources.given = NoRecord /\ sources.option = NoRecord
  BY DEF NoSources
<1>2. Sought = <<old>> \o <<NoRecord, NoRecord>>
  BY <1>1 DEF Sought, Specs
<1>3. PICK files : files = <<old>>
  OBVIOUS
<1>4. AfterFiles(files, old, old, NoRecord, NoRecord, files \o <<NoRecord, NoRecord>>)
  BY <1>3, FilesFirst
<1>5. AfterFiles(files, old, old, NoRecord, NoRecord, Sought)
  BY <1>2, <1>3, <1>4
<1> QED BY <1>5 DEF AfterFiles

\* The job is recorded.
LEMMA RegisterRuns == ASSUME SpecsIInv, RunsIInv, SubmitAndRegister PROVE RunsIInv'
<1>1. PICK r : r = AsDict(jobSpec, runs)
  OBVIOUS
<1>2. PICK made : made = [sources |-> sources, typed |-> typed, record |-> r]
  OBVIOUS
<1>3. progress = "submit" /\ progress' = "idle" /\ submitted' = Append(submitted, made)
  BY <1>1, <1>2 DEF SubmitAndRegister
<1>4. /\ OnTheWay /\ Unchanged /\ Resolved /\ Formatted(jobSpec)
      /\ \A i \in DOMAIN submitted : Made(submitted[i])
  BY <1>3 DEF RunsIInv
<1>5. /\ Agrees(Sought, jobSpec, Computed \cup {"orchestrator"}) /\ SubmitterOf(jobSpec) \in Known
  BY <1>3 DEF SpecsIInv
<1>6. /\ Origins(Sought) /\ Leftover(jobSpec)
      /\ "_container_command_str" \in DOMAIN jobSpec =>
            FromARecord(Sought) \/ (jobSpec.orchestrator # Text("plain") /\ ValueOf(jobSpec, "container") # Null)
  BY <1>4 DEF OnTheWay
<1>7. /\ Batched(jobSpec) /\ Commanded(jobSpec, typed.command)
      /\ typed.command = Null => Asked(Sought, "command") = Has(jobSpec, "command")
  BY <1>4 DEF Resolved
<1>8. made.sources = sources /\ made.typed = typed /\ made.record = r /\ Specs(made) = Sought
  BY <1>2 DEF Specs, Sought
<1>9. Recorded(r) /\ Commanded(r, typed.command)
  BY <1>1, <1>4, <1>5, <1>6, <1>7, RecordIsRecorded
<1>10. \A p : p \notin Filled => Has(r, p) = Has(jobSpec, p)
  BY <1>1, RecordFacts
<1>11. ASSUME ~ContainerIsStale(made) PROVE SubjobsAsAsked(made)
  <2>1. ASSUME NEW p \in {"batch_spec", "batch_parameters", "command_str", "container", "inputs", "outputs"}
        PROVE  Asked(Sought, p) = Has(r, p)
    <3>1. p \notin Filled /\ p \notin Computed \cup {"orchestrator"}
      BY DEF Filled, Computed, Internal
    <3> QED BY <1>5, <1>10, <3>1 DEF Agrees
  <2>2. typed.command = Null => Asked(Sought, "command") = Has(r, "command")
    <3>1. "command" \notin Filled
      BY DEF Filled
    <3> QED BY <1>7, <1>10, <3>1
  <2>3. "_container_command_str" \in DOMAIN r =>
           FromARecord(Sought) \/ (r.orchestrator # Text("plain") /\ ValueOf(r, "container") # Null)
    <3>1. \A p \in {"_container_command_str", "orchestrator", "container"} : Has(r, p) = Has(jobSpec, p)
      BY <1>10 DEF Filled
    <3>2. "orchestrator" \in DOMAIN jobSpec
      BY <1>4 DEF Formatted
    <3>3. r.orchestrator = jobSpec.orchestrator
      BY <3>1, <3>2 DEF Has
    <3>4. ValueOf(r, "container") = ValueOf(jobSpec, "container")
      BY <3>1, AlikeGiven
    <3>5. "_container_command_str" \in DOMAIN r => "_container_command_str" \in DOMAIN jobSpec
      BY <3>1 DEF Has
    <3> QED BY <1>6, <3>3, <3>4, <3>5
  <2>4. Batched(r) /\ Formatted(r) /\ Leftover(r)
    BY <1>9 DEF Recorded
  <2>5. Commanded(r, made.typed.command)
    BY <1>8, <1>9
  <2>6. PICK given : given = Sought
    OBVIOUS
  <2> QED BY <1>8, <1>11, <2>1, <2>2, <2>3, <2>4, <2>5, <2>6, RunsWhatIsAsked
<1>12. SameAgain(made)
  <2> DEFINE old == made.sources.files[1]
  <2> SUFFICES ASSUME made.sources = [NoSources EXCEPT !.files = <<old>>], made.typed = NothingTyped,
                      "_jobid" \in DOMAIN old, ~({"command", "command_str"} \subseteq DOMAIN old)
               PROVE  /\ SubjobsOf(made.record) = SubjobsOf(old)
                      /\ \A p \in {"resource_id", "orchestrator", "submitter", "working_directory"} :
                            made.record[p] = old[p]
    BY DEF SameAgain
  <2> HIDE DEF old
  <2>1. sources = [NoSources EXCEPT !.files = <<old>>] /\ typed = NothingTyped
    BY <1>8
  <2>2. Sought[1] = old
    BY <2>1, FirstSource
  <2>3. Recorded(old)
    <3>1. User(old) \/ Recorded(old)
      BY <1>6, <2>2 DEF Origins
    <3>2. "_jobid" \in Internal
      BY DEF Internal
    <3> QED BY <3>1, <3>2 DEF User
  <2>4. Again(old)
    BY <2>1, <2>3 DEF Again
  <2>5. jobSpec = old /\ where = old.resource_id
    BY <1>3, <1>4, <2>4 DEF Unchanged
  <2> QED BY <1>1, <1>8, <2>3, <2>5, RecordAgain
<1>13. Made(made)
  BY <1>8, <1>9, <1>11, <1>12 DEF Made
<1>14. \A i \in DOMAIN submitted' : Made(submitted'[i])
  <2>1. PICK before : before = submitted
    OBVIOUS
  <2>2. PICK S : before \in Seq(S)
    BY <2>1 DEF SpecsIInv
  <2>3. /\ Len(before) \in Nat /\ DOMAIN before = 1 .. Len(before)
        /\ DOMAIN Append(before, made) = 1 .. Len(before) + 1
        /\ Append(before, made)[Len(before) + 1] = made
        /\ \A i \in 1 .. Len(before) : Append(before, made)[i] = before[i]
    BY <2>2
  <2>4. \A i \in DOMAIN before : Made(before[i])
    BY <1>4, <2>1
  <2>5. PICK after : after = Append(before, made)
    OBVIOUS
  <2>6. ASSUME NEW i \in DOMAIN after PROVE Made(after[i])
    <3>1. i \in 1 .. Len(before) \/ i = Len(before) + 1
      BY <2>3, <2>5
    <3> QED BY <1>13, <2>3, <2>4, <2>5, <3>1
  <2> QED BY <1>3, <2>1, <2>5, <2>6
<1> QED BY <1>3, <1>14 DEF RunsIInv

\* No job has run at first.
LEMMA RunsInitially == JobSpecsInit => RunsIInv
<1> SUFFICES ASSUME JobSpecsInit PROVE RunsIInv
  OBVIOUS
<1>1. progress = "idle" /\ submitted = <<>>
  BY DEF JobSpecsInit
<1>2. DOMAIN <<>> = {}
  OBVIOUS
<1>3. \A i \in DOMAIN submitted : Made(submitted[i])
  BY <1>1, <1>2
<1> QED BY <1>1, <1>3 DEF RunsIInv

\* A run that does nothing keeps the invariant.
LEMMA RunsStay == ASSUME RunsIInv, UNCHANGED jobSpecVars PROVE RunsIInv'
<1>1. UNCHANGED <<progress, sources, typed, jobSpec, where, submitted>>
  BY DEF jobSpecVars
<1>2. Sought' = Sought
  BY <1>1 DEF Sought
<1>3. OnTheWay => OnTheWay'
  BY <1>1, <1>2 DEF OnTheWay
<1>4. Unchanged => Unchanged'
  BY <1>1 DEF Unchanged, Again
<1>5. Resolved => Resolved'
  BY <1>1, <1>2 DEF Resolved
<1> QED BY <1>1, <1>3, <1>4, <1>5 DEF RunsIInv

\* Every step of "reproman run" keeps it.
LEMMA RunsStep == ASSUME SpecsIInv, RunsIInv, JobSpecsNext PROVE RunsIInv'
BY LoadRuns, ResolveRuns, ConstructRuns, RegisterRuns DEF JobSpecsNext
-----------------------------------------------------------------------------
(* The two together *)

\* The invariant of a run with its submitter, which has done nothing until it
\* takes over.
SubmissionIInv == FollowIInv /\ SpecsIInv /\ RunsIInv /\ (~handed => Init)

\* It holds at first.
LEMMA SubmissionInitially == MCInit => SubmissionIInv
BY FollowInitially, SpecsInitially, RunsInitially DEF MCInit, SubmissionIInv

\* The submitter takes over: it starts as it does by itself.
LEMMA HandKeeps == ASSUME SubmissionIInv, Hand PROVE SubmissionIInv'
<1>1. Init /\ SpecsIInv
  BY DEF SubmissionIInv, Hand
<1>2. /\ submitter' = Last(submitted).record.submitter[2] /\ submitted # <<>>
      /\ UNCHANGED <<pc, id, json, job, failures, verdict>>
  BY DEF Hand
<1>3. submitter' \in Submitter
  BY <1>1, <1>2, NamedSubmitter, HandAssumption
<1>4. Init'
  BY <1>1, <1>2, <1>3 DEF Init
<1>5. JobSpecsInit'
  BY DEF Hand, JobSpecsInit
<1>6. FollowIInv' /\ SpecsIInv' /\ RunsIInv'
  <2>1. Init' => FollowIInv'
    BY FollowInitially, PTL
  <2>2. JobSpecsInit' => SpecsIInv'
    BY SpecsInitially, PTL
  <2>3. JobSpecsInit' => RunsIInv'
    BY RunsInitially, PTL
  <2> QED BY <1>4, <1>5, <2>1, <2>2, <2>3
<1> QED BY <1>4, <1>6 DEF SubmissionIInv

\* Every step of either part keeps it.
LEMMA SubmissionStep == SubmissionIInv /\ [MCNext]_MCvars => SubmissionIInv'
<1> SUFFICES ASSUME SubmissionIInv, [MCNext]_MCvars PROVE SubmissionIInv'
  OBVIOUS
<1>1. CASE ~handed /\ JobSpecsNext /\ UNCHANGED <<vars, handed>>
  <2>1. SpecsIInv' /\ RunsIInv'
    BY <1>1, SpecsStep, RunsStep DEF SubmissionIInv
  <2>2. FollowIInv'
    BY <1>1, SubmittersStep DEF SubmissionIInv
  <2>3. Init'
    BY <1>1 DEF SubmissionIInv, Init, vars, client
  <2> QED BY <2>1, <2>2, <2>3 DEF SubmissionIInv
<1>2. CASE Hand
  BY <1>2, HandKeeps
<1>3. CASE handed /\ Next /\ UNCHANGED <<jobSpecVars, handed>>
  <2>1. SpecsIInv' /\ RunsIInv'
    BY <1>3, SpecsStay, RunsStay DEF SubmissionIInv
  <2>2. FollowIInv'
    BY <1>3, SubmittersStep DEF SubmissionIInv
  <2> QED BY <1>3, <2>1, <2>2 DEF SubmissionIInv
<1>4. CASE UNCHANGED MCvars
  <2>1. UNCHANGED vars /\ UNCHANGED jobSpecVars /\ handed' = handed
    BY <1>4 DEF MCvars
  <2>2. SpecsIInv' /\ RunsIInv'
    BY <2>1, SpecsStay, RunsStay DEF SubmissionIInv
  <2>3. FollowIInv'
    BY <2>1, SubmittersStep DEF SubmissionIInv
  <2>4. Init => Init'
    BY <2>1 DEF Init, vars, client
  <2> QED BY <2>1, <2>2, <2>3, <2>4 DEF SubmissionIInv
<1> QED BY <1>1, <1>2, <1>3, <1>4 DEF MCNext

\* The invariant holds of every reachable state of the two together.
THEOREM SubmissionInvariant == MCSpec => []SubmissionIInv
BY SubmissionInitially, SubmissionStep, PTL DEF MCSpec

\* Every variable of both keeps its type.
THEOREM SubmissionType == MCSpec => []SubmissionTypeOK
<1>1. SubmissionIInv => SubmissionTypeOK
  BY DEF SubmissionIInv, FollowIInv, SpecsIInv, SubmissionTypeOK
<1> QED BY SubmissionInvariant, <1>1, PTL

\* For any job spec files, parameters, options, batch parameters and files, and
\* any number of runs, each possibly from the record of an earlier one: a job is
\* recorded, and run, as its sources ask for it, the last source first, and what
\* was recorded alone makes the same job again.
THEOREM RunsCorrect == MCSpec => []RunsAsAsked
<1>1. SubmissionIInv => RunsAsAsked
  <2> SUFFICES ASSUME SubmissionIInv, NEW i \in DOMAIN submitted
               PROVE  /\ ParametersAsAsked(submitted[i]) /\ SameAgain(submitted[i])
                      /\ ContainerIsStale(submitted[i]) \/ SubjobsAsAsked(submitted[i])
    BY DEF RunsAsAsked
  <2>1. PICK S : submitted \in Seq(S) /\ \A made \in S : ParametersAsAsked(made)
    BY DEF SubmissionIInv, SpecsIInv
  <2>2. ParametersAsAsked(submitted[i])
    BY <2>1
  <2>3. Made(submitted[i])
    BY DEF SubmissionIInv, RunsIInv
  <2> QED BY <2>2, <2>3 DEF Made
<1> QED BY SubmissionInvariant, <1>1, PTL

\* Following keeps its promises for the submitter that a record names too.
THEOREM HandedFollowCorrect == MCSpec => CompletedIsTrue /\ EarlyEndHasReason
<1>1. SubmissionIInv /\ [MCNext]_MCvars => [CompletedStep]_vars /\ [EarlyEndStep]_vars
  <2> SUFFICES ASSUME SubmissionIInv, [MCNext]_MCvars PROVE [CompletedStep /\ EarlyEndStep]_vars
    OBVIOUS
  <2>1. CASE [Next]_vars
    BY <2>1, StepHasReason DEF SubmissionIInv
  <2>2. CASE Hand
    <3>1. pc' = pc /\ verdict' = verdict
      BY <2>2 DEF Hand
    <3> QED  BY <3>1 DEF CompletedStep, EarlyEndStep
  <2> QED  BY <2>1, <2>2 DEF MCNext, MCvars
<1>2. MCSpec => [][CompletedStep]_vars /\ [][EarlyEndStep]_vars
  BY SubmissionInvariant, <1>1, PTL DEF MCSpec
<1> QED  BY <1>2 DEF CompletedIsTrue, CompletedStep, EarlyEndHasReason, EarlyEndStep
=============================================================================
