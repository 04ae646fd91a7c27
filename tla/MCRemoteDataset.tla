-------------------------- MODULE MCRemoteDataset ---------------------------
(* RemoteDataset with a few jobs, which may be exchanged for one another. *)
EXTENDS RemoteDataset, TLC
JobSymmetry == Permutations(DatasetJob) \cup Permutations(Commit)
=============================================================================
