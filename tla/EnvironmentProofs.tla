-------------------------- MODULE EnvironmentProofs -------------------------
(***************************************************************************)
(* What ReproMan does on one resource besides jobs, and in the dataset to   *)
(* which results come: the parts, put together as in MCEnvironment, keep    *)
(* the promises that each of them is proved to make by itself.              *)
(***************************************************************************)
EXTENDS MCEnvironment, SpecificationProofs, ExecutionProofs

\* Every variable of a comparison keeps its type.
THEOREM DiffType == DiffSpec => []DiffTypeOK
<1>1. DiffInit => DiffTypeOK
  BY DEF DiffInit, DiffTypeOK
<1>2. DiffTypeOK /\ [DiffNext]_diffVars => DiffTypeOK'
  <2> SUFFICES ASSUME DiffTypeOK, [DiffNext]_diffVars PROVE DiffTypeOK'  OBVIOUS
  <2>1. ASSUME NEW e1 \in Env, NEW e2 \in Env, NEW how \in {"diff", "satisfies"},
               request' = <<e1, e2, how>>, status' \in {0, 3, Error}
        PROVE  DiffTypeOK'
    BY <2>1 DEF DiffTypeOK
  <2>2. CASE Compare
    BY <2>1, <2>2 DEF Compare, DiffStatus
  <2>3. CASE CompareSatisfies
    BY <2>1, <2>3 DEF CompareSatisfies, SatisfiesStatus
  <2>4. CASE UNCHANGED diffVars
    BY <2>4 DEF diffVars, DiffTypeOK
  <2> QED  BY <2>2, <2>3, <2>4 DEF DiffNext
<1> QED  BY <1>1, <1>2, PTL DEF DiffSpec

\* Put together, each part does what it does by itself.
LEMMA EachPart ==
    MCSpec => /\ RetraceSpec /\ ProvisionSpec /\ DiffSpec
              /\ SessionsSpec /\ TracedSpec /\ LocalHeadSpec
<1>1. [MCNext]_MCVars => /\ [RetraceNext]_retraceVars /\ [ProvisionNext]_provisionVars
                         /\ [DiffNext]_diffVars /\ [SessionsNext]_sessionVars
                         /\ [TracedNext]_tracedVars /\ [LocalHeadNext]_localHeadVars
  BY DEF MCNext, MCVars
<1>2. MCSpec => RetraceSpec
  <2>1. MCInit => RetraceInit
    BY DEF MCInit
  <2>2. [MCNext]_MCVars => [RetraceNext]_retraceVars
    BY <1>1
  <2> QED  BY <2>1, <2>2, PTL DEF MCSpec, RetraceSpec
<1>3. MCSpec => ProvisionSpec
  <2>1. MCInit => ProvisionInit
    BY DEF MCInit
  <2>2. [MCNext]_MCVars => [ProvisionNext]_provisionVars
    BY <1>1
  <2> QED  BY <2>1, <2>2, PTL DEF MCSpec, ProvisionSpec
<1>4. MCSpec => DiffSpec
  <2>1. MCInit => DiffInit
    BY DEF MCInit
  <2>2. [MCNext]_MCVars => [DiffNext]_diffVars
    BY <1>1
  <2> QED  BY <2>1, <2>2, PTL DEF MCSpec, DiffSpec
<1>5. MCSpec => SessionsSpec
  <2>1. MCInit => SessionsInit
    BY DEF MCInit
  <2>2. [MCNext]_MCVars => [SessionsNext]_sessionVars
    BY <1>1
  <2> QED  BY <2>1, <2>2, PTL DEF MCSpec, SessionsSpec
<1>6. MCSpec => TracedSpec
  <2>1. MCInit => TracedInit
    BY DEF MCInit
  <2>2. [MCNext]_MCVars => [TracedNext]_tracedVars
    BY <1>1
  <2> QED  BY <2>1, <2>2, PTL DEF MCSpec, TracedSpec
<1>7. MCSpec => LocalHeadSpec
  <2>1. MCInit => LocalHeadInit
    BY DEF MCInit
  <2>2. [MCNext]_MCVars => [LocalHeadNext]_localHeadVars
    BY <1>1
  <2> QED  BY <2>1, <2>2, PTL DEF MCSpec, LocalHeadSpec
<1> QED  BY <1>2, <1>3, <1>4, <1>5, <1>6, <1>7

\* Every variable of every part keeps its type, whichever of them takes part.
THEOREM EnvironmentType == MCSpec => []EnvironmentTypeOK
<1>1. RetraceTypeOK /\ ProvisionTypeOK /\ DiffTypeOK /\ SessionsTypeOK /\ TracedTypeOK /\ LocalHeadTypeOK
      => EnvironmentTypeOK
  BY DEF EnvironmentTypeOK
<1> QED  BY <1>1, EachPart, RetraceType, ProvisionType, DiffType, SessionsType, TracedType,
            LocalHeadType, PTL

\* Put together the parts keep the promises that each of them makes by itself.
THEOREM PartsKeepTheirPromises ==
    MCSpec => /\ [](Accounted /\ SourcesResolve /\ StatusIsTrue /\ InstalledOrSaid)
              /\ [](SeesItsEnvironment /\ DoneIsWhole /\ DoneIsTraced /\ FetchLeavesHead)
              /\ UserWorkKept
BY EachPart, AccountedCorrect, SourcesCorrect, DiffCorrect, InstalledCorrect, SeesCorrect,
   TransferCorrect, TracedCorrect, LocalHeadCorrect, UserWorkCorrect, PTL
=============================================================================
