-------------------------- MODULE AdmissionWebhook --------------------------
(***************************************************************************)
(* The mutating webhook, internal/webhook/pod_webhook.go: the pod that the *)
(* API server stores for a pod that somebody asks it to create.  The       *)
(* handler keeps no state and makes no calls.                              *)
(***************************************************************************)
EXTENDS PodTypes

CONSTANT ExcludedImages     \* images that do not trigger gating

ASSUME WebhookAssumption == ExcludedImages \subseteq Images

AllImagesExcluded(pod) ==
    ExcludedImages # {} /\ pod.images \subseteq ExcludedImages

\* Is the pod admitted as it is?
Exempt(p, pod) == Excluded(p) \/ pod.bypass \/ AllImagesExcluded(pod)

Handle(p, pod) ==
    IF Exempt(p, pod) THEN pod ELSE [pod EXCEPT !.gates = @ \cup {AquaGate}]
=============================================================================
