--------------------------- MODULE VettingContract ---------------------------
(***************************************************************************)
(* What the whole program promises to the owner of a cluster, in terms of  *)
(* pods, registries and Aqua only, with no ImageScan, queue, cache or      *)
(* process in sight.  A pod in scope that is not exempt gets the gate when *)
(* it is created; users cannot take it off; it goes in one step that       *)
(* changes nothing else, and only when the pod is bypassed or Aqua has     *)
(* found, for each image that the pod has at that moment, a digest that a  *)
(* registry served for the image.                                          *)
(***************************************************************************)
EXTENDS PodTypes

CONSTANTS
    Exempt(_, _),       \* Exempt(p, pod): pod, created as p, is not to be gated
    ScanOf(_, _),       \* ScanOf(p, d): the name under which Aqua is asked about d
    WebhookMayFail      \* may a pod be admitted without having been looked at?

VARIABLES
    pod,        \* pod[p]: the stored pod p, or NoPod
    found,      \* the entries that Aqua has reported found
    served      \* every <<image, digest>> that a registry has ever served

vettingVars == <<pod, found, served>>

Init == /\ pod = [p \in Pods |-> NoPod]
        /\ found = {}
        /\ served \subseteq Images \X Digests

Vetted(p, image) ==
    \E d \in Digests : /\ <<image, d>> \in served
                       /\ \E i \in Images : Entry(ScanOf(p, d), i) \in found

Admit(p) ==
    /\ pod[p] = NoPod
    /\ \E new \in Pod :
          /\ Gated(new) \/ Exempt(p, new) \/ WebhookMayFail
          /\ pod' = [pod EXCEPT ![p] = new]
    /\ UNCHANGED <<found, served>>

Edit(p) ==
    /\ pod[p] # NoPod
    /\ \E new \in UserEdits(pod[p]) \cup {NoPod} : pod' = [pod EXCEPT ![p] = new]
    /\ UNCHANGED <<found, served>>

Release(p) ==
    /\ Gated(pod[p])
    /\ pod[p].bypass \/ \A image \in pod[p].images : Vetted(p, image)
    /\ pod' = [pod EXCEPT ![p] = RemoveSchedulingGate(@)]
    /\ UNCHANGED <<found, served>>

AquaReports(e) == found' = found \cup {e} /\ UNCHANGED <<pod, served>>

RegistryServes(image, d) ==
    served' = served \cup {<<image, d>>} /\ UNCHANGED <<pod, found>>

Next == \/ \E p \in Pods : Admit(p) \/ Edit(p) \/ Release(p)
        \/ \E e \in Entries : AquaReports(e)
        \/ \E image \in Images, d \in Digests : RegistryServes(image, d)

Spec == Init /\ [][Next]_vettingVars
=============================================================================
