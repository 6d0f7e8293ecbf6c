-------------------------- MODULE MCStorageProofs --------------------------
(* Instances of StorageProofs for TLC. *)
EXTENDS StorageProofs, TLC

\* Contracts 1 and 2 have equal storage; a reorganisation changes all of it.
MCStorageTrie ==
    [x \in (0..MaxBranch) \X Contracts |-> 10 * x[1] + (IF x[2] = 2 THEN 1 ELSE x[2])]
=============================================================================
