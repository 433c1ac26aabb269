----------------------------- MODULE MCScanGate -----------------------------
(***************************************************************************)
(* Small instances of ScanGate.                                            *)
(***************************************************************************)
EXTENDS ScanGate, TLC

\* Every pod lives in namespace "n", every image in a repository of its own.
OneNamespace == [p \in Pods |-> "n"]
OwnRepo      == [i \in Images |-> i]

\* Image "a" is a tag that may move between the digests that "b" has not.
DistinctDigests == [i \in Images |-> IF i = "a" THEN Digests \ {"d3"} ELSE {"d3"}]

\* All images are copies of one and the same digest.
SharedDigest == [i \in Images |-> {"d1"}]

SingleImages == {{i} : i \in Images}
AllImages    == SUBSET Images
=============================================================================
