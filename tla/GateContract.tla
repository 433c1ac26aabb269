---------------------------- MODULE GateContract ----------------------------
(***************************************************************************)
(* What the scan gate promises to the owners of pods and of the cluster:   *)
(* once a pod carries the gate, the gate goes only when the pod is         *)
(* bypassed or every image the pod has at that moment was resolved to a    *)
(* digest whose ImageScan has passed, and its removal changes nothing else *)
(* of the pod: no edit of a user, no gate of another program is undone.    *)
(***************************************************************************)
EXTENDS PodTypes

CONSTANT ScanOf(_, _)   \* ScanOf(p, d): the ImageScan that speaks for d in pod p

VARIABLES
    pod,        \* pod[p]: the stored pod p, or NoPod
    passed,     \* the ImageScans that have been Registered
    served      \* every <<image, digest>> that a registry has ever served

contractVars == <<pod, passed, served>>

Init == /\ pod = [p \in Pods |-> NoPod]
        /\ passed = {}
        /\ served \subseteq Images \X Digests

Vetted(p, image) ==
    \E d \in Digests : <<image, d>> \in served /\ ScanOf(p, d) \in passed

Release(p) ==
    /\ Gated(pod[p])
    /\ pod[p].bypass \/ \A image \in pod[p].images : Vetted(p, image)
    /\ pod' = [pod EXCEPT ![p] = RemoveSchedulingGate(@)]
    /\ UNCHANGED <<passed, served>>

UserChanges(p) ==
    /\ \/ /\ pod[p] = NoPod
          /\ \E new \in Pod : pod' = [pod EXCEPT ![p] = new]
       \/ /\ pod[p] # NoPod
          /\ \E new \in UserEdits(pod[p]) \cup {NoPod} : pod' = [pod EXCEPT ![p] = new]
    /\ UNCHANGED <<passed, served>>

ScanPasses(k) == passed' = passed \cup {k} /\ UNCHANGED <<pod, served>>

RegistryServes(image, d) ==
    served' = served \cup {<<image, d>>} /\ UNCHANGED <<pod, passed>>

Next == \/ \E p \in Pods : Release(p) \/ UserChanges(p)
        \/ \E k \in Scans : ScanPasses(k)
        \/ \E image \in Images, d \in Digests : RegistryServes(image, d)

Spec == Init /\ [][Next]_contractVars
=============================================================================
