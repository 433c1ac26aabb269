------------------------------ MODULE ScanGate ------------------------------
(***************************************************************************)
(* The whole program, as cmd/main.go puts it together: the admission       *)
(* webhook, the pod gate controller and the ImageScan controller in one    *)
(* manager process (or several), meeting in the Pods and ImageScans of the *)
(* API server and in the informer caches they share.  The two controllers  *)
(* are the modules of their own; what one of them left to its environment  *)
(* is done by the other here.                                              *)
(***************************************************************************)
EXTENDS AdmissionWebhook, ApiStore

CONSTANTS
    Replicas, ScanNamespace, NoNamespace, PinnedImages, DigestsOf,
    MaxPodVersions, MaxScanVersions, MaxTagMoves, MaxRestarts,
    AquaForgets,
    WebhookMayFail      \* is a pod admitted as it is when the webhook is down?

ASSUME ScanGateAssumption ==
    /\ ScanNamespace \in Namespaces \cup {NoNamespace}
    /\ NoNamespace \notin Namespaces
    /\ PinnedImages \subseteq Images
    /\ DigestsOf \in [Images -> SUBSET Digests]
    /\ MaxPodVersions \in Nat /\ MaxScanVersions \in Nat
    /\ MaxTagMoves \in Nat /\ MaxRestarts \in Nat
    /\ AquaForgets \in BOOLEAN /\ WebhookMayFail \in BOOLEAN

VARIABLES
    podLog, podSeen, scanLog, scanSeen, tag, served,            \* shared
    podQueue, podDelayed, notices, podWorker, waiting, moves,   \* pod gate
    aqua, found, scanQueue, scanDelayed, scanWorker,            \* ImageScan
    restarts

gateOnly == <<podLog, podSeen, tag, served, podQueue, podDelayed, notices,
              podWorker, waiting, moves>>
scanOnly == <<aqua, found, scanQueue, scanDelayed, scanWorker>>
vars == <<gateOnly, scanOnly, scanLog, scanSeen, restarts>>

Gate == INSTANCE PodGateController WITH
            queue <- podQueue, delayed <- podDelayed, worker <- podWorker,
            ScanSteps <- {"Pending", "Registered", "Error"}

Scanner == INSTANCE ImageScanController WITH
            queue <- scanQueue, delayed <- scanDelayed, worker <- scanWorker

Init == Gate!Init /\ Scanner!Init

-----------------------------------------------------------------------------
\* One controller runs; the other one does not notice.
PodGateStep(r) ==
    /\ Gate!Reconcile(r) \/ \E p \in Pods : \/ Gate!TimerFires(r, p)
                                            \/ Gate!DeliverPod(r, p)
                                            \/ Gate!ResyncPod(r, p)
                         \/ \E k \in Scans, i \in Images : Gate!MapScan(r, k, i)
    /\ UNCHANGED scanOnly

ImageScanStep(r) ==
    /\ \/ Scanner!Reconcile(r)
       \/ \E k \in Scans : Scanner!TimerFires(r, k) \/ Scanner!Resync(r, k)
    /\ UNCHANGED gateOnly

\* Both controllers watch ImageScans through the same informer.
DeliverScan(r, k) == Gate!DeliverScan(r, k) /\ Scanner!Deliver(r, k)

\* Both controllers live in the same process.
Restart(r) == Gate!Restart(r) /\ Scanner!Restart(r)

\* The API server asks the webhook first.  With failurePolicy=ignore it goes
\* on without an answer.
CreatePod(p) ==
    /\ Latest(podLog[p]) = NoPod
    /\ \E request \in Pod :
          \/ Gate!StorePod(p, Handle(p, request))
          \/ WebhookMayFail /\ Gate!StorePod(p, request)
    /\ UNCHANGED scanOnly

Environment ==
    \/ /\ \/ \E p \in Pods : Gate!EditPod(p) \/ Gate!DeletePod(p)
          \/ \E k \in Scans : Gate!DeleteScan(k)
          \/ \E i \in Images : Gate!MoveTag(i)
       /\ UNCHANGED scanOnly
    \/ Scanner!Aqua /\ UNCHANGED gateOnly

Next == \/ \E r \in Replicas : PodGateStep(r) \/ ImageScanStep(r) \/ Restart(r)
        \/ \E r \in Replicas, k \in Scans : DeliverScan(r, k)
        \/ \E p \in Pods : CreatePod(p)
        \/ Environment

Spec == Init /\ [][Next]_vars

\* Fairness, for the liveness property only: that of the two controllers, and
\* Aqua finishes the scans it accepts.
FairSpec ==
    /\ Spec
    /\ \A r \in Replicas :
          /\ Gate!WorkerFairness(r) /\ Gate!ProcessFairness(r)
          /\ Scanner!CallFairness(r)
          /\ \A k \in Scans : Scanner!WorkerFairness(r, k)
    /\ \A e \in Entries : WF_vars(Scanner!AquaFinishes(e) /\ UNCHANGED gateOnly)

-----------------------------------------------------------------------------
(* Properties *)

\* The composition breaks into its parts: every behaviour of the program is,
\* for each controller, one that its module has already accounted for with
\* the other controller as environment.
GateSpec    == Gate!Spec
ScannerSpec == Scanner!Spec

Created(p, v) == podLog[p][v] # NoPod /\ podLog[p][v - 1] = NoPod

\* The version v of pod p is the first one that may be scheduled.
Starts(p, v) ==
    /\ podLog[p][v] # NoPod
    /\ ~Gated(podLog[p][v])
    /\ Created(p, v) \/ Gated(podLog[p][v - 1])

\* What the program is for: a pod in scope that is not exempt becomes
\* schedulable only after Aqua itself has reported, for each image the pod then
\* has, a digest that a registry served for that image.  The one exception is
\* a pod created while the webhook, with failurePolicy=ignore, is down.
NoUnvettedStart ==
    \A p \in Pods : \A v \in 2 .. Len(podLog[p]) :
        Starts(p, v) /\ ~Exempt(p, podLog[p][v]) =>
            \/ WebhookMayFail /\ Created(p, v)
            \/ \A i \in podLog[p][v].images : \E d \in Digests :
                  /\ <<i, d>> \in served
                  /\ \E j \in Images : Entry(Gate!ScanOf(p, d), j) \in found

\* The same promise as a specification of its own, about every step and not
\* only the first that starts a pod: whatever the webhook, two controllers,
\* their queues and caches, restarts and lost answers do between them, a pod
\* changes only as its users ask and by a justified release, which keeps all
\* that they have asked for.
Vetting == INSTANCE VettingContract WITH
               pod    <- [p \in Pods |-> Latest(podLog[p])],
               ScanOf <- Gate!ScanOf

ImplementsVetting == Vetting!Spec

\* A gated pod none of whose scans could have failed.
Held(p) ==
    /\ Gated(Latest(podLog[p]))
    /\ ~Excluded(p)
    /\ \A d \in Digests : Latest(scanLog[Gate!ScanOf(p, d)]).phase # "Error"

\* As in PodGateController, for the calls of the pod gate controller.
CallsStopFailing == <>[][\A r \in Replicas : ~Gate!CallFails(r)]_vars

\* A pod is not held for ever, unless a scan it may wait for ended in Error:
\* once registries and the API server stop failing, each gated pod is
\* released (or deleted).
EveryPodDecided == CallsStopFailing => \A p \in Pods : []<>~Held(p)
=============================================================================
