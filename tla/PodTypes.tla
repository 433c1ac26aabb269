------------------------------ MODULE PodTypes ------------------------------
(***************************************************************************)
(* What the controllers read and write of a Pod: its scheduling gates, the *)
(* bypass annotation and the images of all its containers.                 *)
(***************************************************************************)
EXTENDS ScanTypes

CONSTANTS
    Pods,           \* pod names
    PodNamespace,   \* PodNamespace[p]: the namespace of p
    AquaGate,       \* the scheduling gate of this program
    OtherGates,     \* scheduling gates of other programs
    PodImages,      \* the sets of images that users give to pods
    IncludedNamespaces, \* the namespaces to scan, if any are listed
    ExcludedNamespaces  \* the namespaces to skip otherwise

ASSUME PodAssumption ==
    /\ PodNamespace \in [Pods -> Namespaces]
    /\ AquaGate \notin OtherGates
    /\ PodImages \subseteq SUBSET Images
    /\ IncludedNamespaces \subseteq Namespaces
    /\ ExcludedNamespaces \subseteq Namespaces

Gates == {AquaGate} \cup OtherGates

Pod == [phase : {"Present"}, gates : SUBSET Gates, bypass : BOOLEAN, images : PodImages]

Gated(pod) == pod.phase = "Present" /\ AquaGate \in pod.gates

\* Whitelist mode takes precedence over blacklist mode.
IsNamespaceExcluded(ns) ==
    \/ IncludedNamespaces # {} /\ ns \notin IncludedNamespaces
    \/ IncludedNamespaces = {} /\ ns \in ExcludedNamespaces

Excluded(p) == IsNamespaceExcluded(PodNamespace[p])

RemoveSchedulingGate(pod) == [pod EXCEPT !.gates = @ \ {AquaGate}]

\* No such pod.
NoPod == [phase |-> "Absent"]

\* The edits of a pod that the API server lets its users make, the removal of
\* our gate left out: gates are taken away, never added, and images change.
UserEdits(pod) ==
    {new \in Pod : /\ new # pod
                   /\ new.gates \subseteq pod.gates
                   /\ AquaGate \in pod.gates => AquaGate \in new.gates}
=============================================================================
