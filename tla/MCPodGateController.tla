------------------------ MODULE MCPodGateController ------------------------
(***************************************************************************)
(* Small instances of PodGateController.  A configuration chooses which    *)
(* images share a digest and what users may put into a pod.                *)
(***************************************************************************)
EXTENDS PodGateController, TLC

\* Every pod lives in namespace "n", every image in a repository of its own.
OneNamespace == [p \in Pods |-> "n"]
OwnRepo      == [i \in Images |-> i]

\* Image "a" is a tag that may move between two digests, "b" keeps its own.
DistinctDigests == [i \in Images |-> IF i = "a" THEN Digests \ {"d3"} ELSE {"d3"}]

\* All images are tags of one and the same digest.
SharedDigest == [i \in Images |-> {"d1"}]

\* Users give a pod one image, or any set of images.
SingleImages == {{i} : i \in Images}
AllImages    == SUBSET Images

PodSymmetry == Permutations(Pods)
=============================================================================
