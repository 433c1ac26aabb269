----------------------- MODULE MCImageScanController -----------------------
(***************************************************************************)
(* Small instances of ImageScanController: every image lives in a          *)
(* repository of its own, and all of them may have the same digest, as     *)
(* copies of one image in several registries do.                           *)
(***************************************************************************)
EXTENDS ImageScanController, TLC

MCRepoOf == [i \in Images |-> i]

ReplicaSymmetry == Permutations(Replicas)
=============================================================================
