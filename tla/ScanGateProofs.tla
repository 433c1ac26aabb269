---------------------------- MODULE ScanGateProofs ----------------------------
(***************************************************************************)
(* Proofs about the whole program, from what is proved about its parts:    *)
(* every step of ScanGate is a step of each controller's own module, or a  *)
(* stutter, so that the invariants of both hold together, and from them    *)
(* follows what the program is for.                                        *)
(***************************************************************************)
EXTENDS ScanGate, SequenceTheorems, TLAPS

USE ImageAssumption, PodAssumption, WebhookAssumption, ScanGateAssumption

\* The controllers again, with their proofs.
GP == INSTANCE PodGateControllerProofs WITH
            queue <- podQueue, delayed <- podDelayed, worker <- podWorker,
            ScanSteps <- {"Pending", "Registered", "Error"}

SP == INSTANCE ImageScanControllerProofs WITH
            queue <- scanQueue, delayed <- scanDelayed, worker <- scanWorker

\* The instances meet the assumptions that those proofs are made under.
LEMMA Assumptions ==
    /\ ScanNamespace \in Namespaces \cup {NoNamespace} /\ NoNamespace \notin Namespaces
    /\ PinnedImages \subseteq Images /\ DigestsOf \in [Images -> SUBSET Digests]
    /\ {"Pending", "Registered", "Error"} \subseteq {"Pending", "Registered", "Error"}
    /\ MaxPodVersions \in Nat /\ MaxScanVersions \in Nat
    /\ MaxTagMoves \in Nat /\ MaxRestarts \in Nat
    /\ AquaForgets \in BOOLEAN
OBVIOUS

\* They are the instances that ScanGate is made of: their definitions are the
\* same, once all of them are expanded.
LEMMA SameGate ==
    /\ Gate!Init <=> GP!Init
    /\ Gate!Next <=> GP!Next
    /\ UNCHANGED Gate!vars <=> UNCHANGED GP!vars
BY DEF Gate!podVars, GP!podVars, Gate!scanVars, GP!scanVars, Gate!tagVars,
       GP!tagVars, Gate!workVars, GP!workVars, Gate!vars, GP!vars,
       Gate!CachedPod, GP!CachedPod, Gate!CachedScan, GP!CachedScan,
       Gate!ScanOf, GP!ScanOf, Gate!Refs, GP!Refs, Gate!Idle, GP!Idle,
       Gate!Snapshot, GP!Snapshot, Gate!Init, GP!Init, Gate!Dequeue,
       GP!Dequeue, Gate!Ignored, GP!Ignored, Gate!Skip, GP!Skip,
       Gate!Begin, GP!Begin, Gate!Resolving, GP!Resolving,
       Gate!BuildResolver, GP!BuildResolver, Gate!ResolveImage,
       GP!ResolveImage, Gate!TryAgain, GP!TryAgain, Gate!ResolveFails,
       GP!ResolveFails, Gate!Checking, GP!Checking, Gate!Settle,
       GP!Settle, Gate!CheckScan, GP!CheckScan, Gate!StoreNewScan,
       GP!StoreNewScan, Gate!CreateScan, GP!CreateScan, Gate!CreateFails,
       GP!CreateFails, Gate!StoreRelease, GP!StoreRelease, Gate!ReleaseOk,
       GP!ReleaseOk, Gate!ReleaseFails, GP!ReleaseFails, Gate!Reconcile,
       GP!Reconcile, Gate!TimerFires, GP!TimerFires, Gate!DeliverPod,
       GP!DeliverPod, Gate!NoticesOf, GP!NoticesOf, Gate!DeliverScan,
       GP!DeliverScan, Gate!MappedPods, GP!MappedPods, Gate!MapScan,
       GP!MapScan, Gate!ResyncPod, GP!ResyncPod, Gate!Restart, GP!Restart,
       Gate!Process, GP!Process, Gate!StorePod, GP!StorePod,
       Gate!CreatePod, GP!CreatePod, Gate!EditPod, GP!EditPod,
       Gate!DeletePod, GP!DeletePod, Gate!StoreScan, GP!StoreScan,
       Gate!OthersCreateScan, GP!OthersCreateScan, Gate!DeleteScan,
       GP!DeleteScan, Gate!ScanProgresses, GP!ScanProgresses,
       Gate!MoveTag, GP!MoveTag, Gate!Users, GP!Users, Gate!Next, GP!Next,
       Gate!Gates, GP!Gates, Gate!Pod, GP!Pod, Gate!Gated, GP!Gated,
       Gate!IsNamespaceExcluded, GP!IsNamespaceExcluded, Gate!Excluded,
       GP!Excluded, Gate!RemoveSchedulingGate, GP!RemoveSchedulingGate,
       Gate!NoPod, GP!NoPod, Gate!UserEdits, GP!UserEdits, Gate!Latest,
       GP!Latest, Gate!NewerVersions, GP!NewerVersions, Gate!IsCurrent,
       GP!IsCurrent, Gate!Record, GP!Record, Gate!Scans, GP!Scans,
       Gate!ScanName, GP!ScanName, Gate!Phases, GP!Phases, Gate!Terminal,
       GP!Terminal, Gate!NoObject, GP!NoObject, Gate!WithStatus,
       GP!WithStatus, Gate!NewScan, GP!NewScan

LEMMA SameScanner ==
    /\ Scanner!Init <=> SP!Init
    /\ Scanner!Next <=> SP!Next
    /\ UNCHANGED Scanner!vars <=> UNCHANGED SP!vars
BY DEF Scanner!vars, SP!vars, Scanner!Cached, SP!Cached, Scanner!Idle,
       SP!Idle, Scanner!Snapshot, SP!Snapshot, Scanner!QueriedEntry,
       SP!QueriedEntry, Scanner!Updated, SP!Updated, Scanner!Init,
       SP!Init, Scanner!Dequeue, SP!Dequeue, Scanner!Skip, SP!Skip,
       Scanner!Begin, SP!Begin, Scanner!Decide, SP!Decide,
       Scanner!QueryFound, SP!QueryFound, Scanner!QueryNotFound,
       SP!QueryNotFound, Scanner!QueryFails, SP!QueryFails,
       Scanner!ScanRequested, SP!ScanRequested, Scanner!TriggerAccepted,
       SP!TriggerAccepted, Scanner!TriggerFails, SP!TriggerFails,
       Scanner!RequeuedAfter, SP!RequeuedAfter, Scanner!Finish, SP!Finish,
       Scanner!StoreStatus, SP!StoreStatus, Scanner!WriteOk, SP!WriteOk,
       Scanner!WriteFails, SP!WriteFails, Scanner!TimerFires,
       SP!TimerFires, Scanner!Deliver, SP!Deliver, Scanner!Resync,
       SP!Resync, Scanner!Restart, SP!Restart, Scanner!Reconcile,
       SP!Reconcile, Scanner!Process, SP!Process, Scanner!CreateScan,
       SP!CreateScan, Scanner!DeleteScan, SP!DeleteScan,
       Scanner!AquaFinishes, SP!AquaFinishes, Scanner!AquaLoses,
       SP!AquaLoses, Scanner!Aqua, SP!Aqua, Scanner!Users, SP!Users,
       Scanner!Next, SP!Next, Scanner!Latest, SP!Latest,
       Scanner!NewerVersions, SP!NewerVersions, Scanner!IsCurrent,
       SP!IsCurrent, Scanner!Record, SP!Record, Scanner!Scans, SP!Scans,
       Scanner!Terminal, SP!Terminal, Scanner!Entries, SP!Entries,
       Scanner!Entry, SP!Entry, Scanner!NoObject, SP!NoObject,
       Scanner!WithStatus, SP!WithStatus, Scanner!NewScan, SP!NewScan

-----------------------------------------------------------------------------
(***************************************************************************)
(* The invariant: those of both controllers, and what they do not know of: *)
(* that the webhook has gated what it should have.  The parts need each    *)
(* other: that what the pod gate controller creates is an ImageScan is its *)
(* own invariant, that the ImageScan controller only goes on from scans    *)
(* without verdict, which is all that the pod gate controller assumes of   *)
(* it, is the other one's.                                                 *)
(***************************************************************************)
WebhookGated ==
    \A p \in Pods : \A v \in 2 .. Len(podLog[p]) :
        Created(p, v) =>
            Gated(podLog[p][v]) \/ Exempt(p, podLog[p][v]) \/ WebhookMayFail

IInv == GP!IInv /\ SP!IInv /\ SP!ErrorCountedOnce /\ WebhookGated

LEMMA InitOK == Init => IInv
<1> SUFFICES ASSUME Init  PROVE IInv
  OBVIOUS
<1>1. GP!Init /\ SP!Init
  BY SameGate, SameScanner DEF Init
<1>2. WebhookGated
  <2>1. \A p \in Pods : Len(podLog[p]) = 1
    BY DEF Init, Gate!Init
  <2>2. QED  BY <2>1 DEF WebhookGated
<1>3. QED  BY <1>1, <1>2, GP!InitOK, SP!InitOK, SP!InitCounted DEF IInv

\* An ImageScan update is one that the pod gate controller allows for.
LEMMA UpdateProgresses ==
    ASSUME IInv, NEW r \in Replicas, SP!Updates(r), UNCHANGED gateOnly,
           UNCHANGED <<scanSeen, restarts>>
    PROVE  Gate!Next
<1> DEFINE k == scanWorker[r].key
           phase == scanWorker[r].phase
<1>1. /\ scanWorker[r].pc = "write" /\ SP!StoreStatus(r) /\ SP!IInv
  BY DEF SP!Updates, IInv
<1>2. /\ scanWorker[r] \in SP!Busy /\ scanWorker[r] # SP!Idle
      /\ k \in SP!Scans /\ scanWorker[r].snap \in 1 .. Len(scanLog[k])
      /\ SP!Snapshot(r) \in SP!Scan /\ SP!Snapshot(r).phase \notin SP!Terminal
  BY <1>1, SP!BusyProperties
<1>3. /\ SP!Latest(scanLog[k]) = SP!Snapshot(r)
      /\ SP!Updated(r) = [phase |-> phase, image |-> SP!Snapshot(r).image,
                          retryCount |-> IF phase = "Error"
                                         THEN SP!Snapshot(r).retryCount + 1 ELSE 0]
      /\ SP!Writes(k, SP!Updated(r))
  BY <1>1, SP!StoreProperties
<1>4. phase \in {"Pending", "Registered", "Error"}
  BY <1>1, <1>2 DEF SP!IInv, SP!WorkerOK, SP!Busy
<1>5. SP!Snapshot(r).phase \in {"New", "Pending"}
  BY <1>2 DEF SP!Scan, SP!Phases, SP!Terminal
<1>6. SP!Snapshot(r).retryCount = 0
  BY <1>2, <1>5 DEF IInv, SP!ErrorCountedOnce, SP!Snapshot, SP!NoObject
<1>7. SP!Updated(r) = Gate!WithStatus(Gate!Latest(scanLog[k]), phase, IF phase = "Error" THEN 1 ELSE 0)
  BY <1>3, <1>6 DEF Gate!WithStatus, Gate!Latest, SP!Latest
<1>8. scanLog' = [scanLog EXCEPT ![k] = Gate!Record(@, SP!Updated(r))]
  BY <1>3 DEF SP!Writes, SP!Record, Gate!Record, SP!Latest, Gate!Latest
<1>9. Gate!ScanProgresses(k)
  BY <1>3, <1>4, <1>5, <1>7, <1>8
  DEF Gate!ScanProgresses, Gate!StoreScan, Gate!podVars, Gate!tagVars, Gate!workVars,
      Gate!Latest, SP!Latest, gateOnly
<1>10. QED  BY <1>2, <1>9 DEF Gate!Next, Gate!Scans, SP!Scans

\* What a step of the ImageScan controller does to ImageScans.
LEMMA ReconcileWrites ==
    ASSUME NEW r \in Replicas, Scanner!Reconcile(r)
    PROVE  /\ UNCHANGED <<scanSeen, restarts>>
           /\ UNCHANGED scanLog \/ SP!Updates(r)
BY DEF Scanner!Reconcile, Scanner!Skip, Scanner!Begin, Scanner!Dequeue, Scanner!QueryFound,
       Scanner!QueryNotFound, Scanner!QueryFails, Scanner!TriggerAccepted,
       Scanner!TriggerFails, Scanner!WriteOk, Scanner!WriteFails, SP!Updates,
       Scanner!StoreStatus, SP!StoreStatus, Scanner!Updated, SP!Updated,
       Scanner!Snapshot, SP!Snapshot, Scanner!Latest, SP!Latest, Scanner!IsCurrent,
       SP!IsCurrent, Scanner!Record, SP!Record, Scanner!WithStatus, SP!WithStatus

\* Seen by the pod gate controller, the rest of the program is its environment.
LEMMA GateStep ==
    ASSUME IInv, Next
    PROVE  [Gate!Next]_(Gate!vars)
<1> DEFINE Unseen == UNCHANGED <<gateOnly, scanLog, scanSeen, restarts>>
<1>1. Unseen => UNCHANGED Gate!vars
  BY DEF gateOnly, Gate!vars, Gate!podVars, Gate!scanVars, Gate!tagVars, Gate!workVars
<1>2. ASSUME NEW r \in Replicas, PodGateStep(r)  PROVE Gate!Next
  BY <1>2 DEF PodGateStep, Gate!Next, Gate!Process, Scans, Gate!Scans
<1>3. ASSUME NEW r \in Replicas, ImageScanStep(r)  PROVE Gate!Next \/ Unseen
  <2>1. CASE Scanner!Reconcile(r)
    BY <1>3, <2>1, ReconcileWrites, UpdateProgresses DEF ImageScanStep
  <2>2. ASSUME NEW k \in Scans, Scanner!TimerFires(r, k) \/ Scanner!Resync(r, k)
        PROVE  Unseen
    BY <1>3, <2>2 DEF ImageScanStep, Scanner!TimerFires, Scanner!Resync
  <2>3. QED  BY <1>3, <2>1, <2>2 DEF ImageScanStep
<1>4. ASSUME NEW r \in Replicas, Restart(r)  PROVE Gate!Next
  BY <1>4 DEF Restart, Gate!Next
<1>5. ASSUME NEW r \in Replicas, NEW k \in Scans, DeliverScan(r, k)  PROVE Gate!Next
  BY <1>5 DEF DeliverScan, Gate!Next, Gate!Process, Scans, Gate!Scans
<1>6. ASSUME NEW p \in Pods, CreatePod(p)  PROVE Gate!Next
  <2>1. PICK request \in Pod : Gate!StorePod(p, Handle(p, request)) \/ Gate!StorePod(p, request)
    BY <1>6 DEF CreatePod
  <2>2. Handle(p, request) \in Pod
    BY DEF Handle, Pod, Gates
  <2>3. Pod = Gate!Pod /\ Gate!Latest(podLog[p]) = Gate!NoPod
    BY <1>6 DEF Pod, Gates, Gate!Pod, Gate!Gates, CreatePod, Latest, Gate!Latest, NoPod, Gate!NoPod
  <2>4. Gate!CreatePod(p)
    BY <2>1, <2>2, <2>3 DEF Gate!CreatePod
  <2>5. QED  BY <2>4 DEF Gate!Next, Gate!Users
<1>7. CASE Environment
  <2>1. CASE Scanner!Aqua /\ UNCHANGED gateOnly
    BY <2>1, <1>1 DEF Scanner!Aqua, Scanner!AquaFinishes, Scanner!AquaLoses
  <2>2. CASE ~(Scanner!Aqua /\ UNCHANGED gateOnly)
    BY <1>7, <2>2 DEF Environment, Gate!Next, Gate!Users, Scans, Gate!Scans
  <2>3. QED  BY <2>1, <2>2
<1>8. QED  BY <1>1, <1>2, <1>3, <1>4, <1>5, <1>6, <1>7 DEF Next

\* An ImageScan that the pod gate controller creates is one.
LEMMA CreatesScan ==
    ASSUME IInv, NEW r \in Replicas, podWorker[r].pc \in {"check", "create"},
           NEW ref \in podWorker[r].missing
    PROVE  /\ ref \in Images \X Digests
           /\ Gate!ScanOf(podWorker[r].key, ref[2]) \in Scans
<1>1. podWorker[r] \in GP!Busy
  BY DEF IInv, GP!IInv, GP!Workers, GP!Idle
<1>2. ref \in Images \X Digests /\ podWorker[r].key \in Pods
  BY <1>1 DEF GP!Busy, GP!Refs
<1>3. QED  BY <1>2 DEF Gate!ScanOf, Gate!ScanName, Scans

\* What a step of the pod gate controller does to ImageScans.
LEMMA GateCreates ==
    ASSUME IInv, NEW r \in Replicas, Gate!Reconcile(r), ~UNCHANGED scanLog
    PROVE  \E k \in Scans, image \in Images : Gate!StoreNewScan(k, image)
<1>1. /\ podWorker[r].pc \in {"check", "create"}
      /\ \E ref \in podWorker[r].missing :
            Gate!StoreNewScan(Gate!ScanOf(podWorker[r].key, ref[2]), ref[1])
  BY DEF Gate!Reconcile, Gate!Skip, Gate!Begin, Gate!Dequeue, Gate!BuildResolver,
         Gate!ResolveImage, Gate!ResolveFails, Gate!CheckScan, Gate!CreateScan,
         Gate!CreateFails, Gate!ReleaseOk, Gate!ReleaseFails, Gate!scanVars
<1>2. QED  BY <1>1, CreatesScan

\* Seen by the ImageScan controller, so it is, too.
LEMMA ScannerStep ==
    ASSUME IInv, Next
    PROVE  [Scanner!Next]_(Scanner!vars)
<1> DEFINE Unseen == UNCHANGED <<scanOnly, scanLog, scanSeen, restarts>>
<1>1. Unseen => UNCHANGED Scanner!vars
  BY DEF scanOnly, Scanner!vars
<1>2. ASSUME NEW r \in Replicas, PodGateStep(r)  PROVE Scanner!Next \/ Unseen
  <2>1. UNCHANGED <<scanOnly, scanSeen, restarts>>
    BY <1>2 DEF PodGateStep, Gate!Reconcile, Gate!Skip, Gate!Begin, Gate!BuildResolver,
         Gate!ResolveImage, Gate!ResolveFails, Gate!CheckScan, Gate!CreateScan,
         Gate!CreateFails, Gate!ReleaseOk, Gate!ReleaseFails, Gate!scanVars,
         Gate!TimerFires, Gate!DeliverPod, Gate!ResyncPod, Gate!MapScan
  <2>2. UNCHANGED scanLog \/ Gate!Reconcile(r)
    BY <1>2 DEF PodGateStep, Gate!TimerFires, Gate!DeliverPod, Gate!ResyncPod,
         Gate!MapScan, Gate!scanVars
  <2>3. ASSUME NEW k \in Scans, NEW image \in Images, Gate!StoreNewScan(k, image)
        PROVE  Scanner!CreateScan(k, image)
    BY <2>1, <2>3 DEF Gate!StoreNewScan, Scanner!CreateScan, scanOnly, Gate!Latest,
         Scanner!Latest, Gate!Record, Scanner!Record, Gate!NewScan, Scanner!NewScan,
         Gate!NoObject, Scanner!NoObject
  <2>4. QED  BY <2>1, <2>2, <2>3, GateCreates DEF Scanner!Next, Scanner!Users, Scans, Scanner!Scans
<1>3. ASSUME NEW r \in Replicas, ImageScanStep(r)  PROVE Scanner!Next
  BY <1>3 DEF ImageScanStep, Scanner!Next, Scanner!Process, Scans, Scanner!Scans
<1>4. ASSUME NEW r \in Replicas, Restart(r)  PROVE Scanner!Next
  BY <1>4 DEF Restart, Scanner!Next
<1>5. ASSUME NEW r \in Replicas, NEW k \in Scans, DeliverScan(r, k)  PROVE Scanner!Next
  BY <1>5 DEF DeliverScan, Scanner!Next, Scanner!Process, Scans, Scanner!Scans
<1>6. ASSUME NEW p \in Pods, CreatePod(p)  PROVE Unseen
  BY <1>6 DEF CreatePod, Gate!StorePod, Gate!scanVars
<1>7. CASE Environment
  <2>1. CASE Scanner!Aqua
    BY <2>1 DEF Scanner!Next
  <2>2. ASSUME NEW k \in Scans, Gate!DeleteScan(k), UNCHANGED scanOnly
        PROVE  Scanner!DeleteScan(k)
    BY <2>2 DEF Gate!DeleteScan, Gate!StoreScan, Scanner!DeleteScan, scanOnly, Gate!Latest,
         Scanner!Latest, Gate!Record, Scanner!Record, Gate!NoObject, Scanner!NoObject
  <2>3. ASSUME NEW p \in Pods, Gate!EditPod(p) \/ Gate!DeletePod(p), UNCHANGED scanOnly
        PROVE  Unseen
    BY <2>3 DEF Gate!EditPod, Gate!DeletePod, Gate!StorePod, Gate!scanVars
  <2>4. ASSUME NEW i \in Images, Gate!MoveTag(i), UNCHANGED scanOnly
        PROVE  Unseen
    BY <2>4 DEF Gate!MoveTag, Gate!scanVars
  <2>5. QED
    BY <1>1, <1>7, <2>1, <2>2, <2>3, <2>4
    DEF Environment, Scanner!Next, Scanner!Users, Scans, Scanner!Scans
<1>8. QED  BY <1>1, <1>2, <1>3, <1>4, <1>5, <1>6, <1>7 DEF Next

-----------------------------------------------------------------------------
(* The webhook's part *)

\* What is written over a pod: if it is a new pod, one that the webhook gated,
\* found exempt, or was not asked about.
Admissible(p, pod) ==
    Latest(podLog[p]) = NoPod /\ pod # NoPod =>
        Gated(pod) \/ Exempt(p, pod) \/ WebhookMayFail

LEMMA AdmittedPod ==
    ASSUME NEW p \in Pods, NEW request \in Pod
    PROVE  /\ Handle(p, request) \in Pod
           /\ Gated(Handle(p, request)) \/ Exempt(p, Handle(p, request))
BY DEF Handle, Pod, Gates, Gated

\* The names that the two modules share for pods.
LEMMA SamePods ==
    /\ GP!PodObject = Pod \cup {NoPod} /\ Gate!Pod = Pod
    /\ Gate!NoPod = NoPod /\ GP!NoPod = NoPod
    /\ \A pod : GP!Gated(pod) <=> Gated(pod)
    /\ \A h : Gate!Latest(h) = Latest(h) /\ GP!Latest(h) = Latest(h)
    /\ \A p, o : GP!WritesPod(p, o) <=> podLog' = [podLog EXCEPT ![p] = Gate!Record(@, o)]
BY DEF GP!PodObject, GP!Pod, GP!Gates, GP!NoPod, Gate!Pod, Gate!Gates, Gate!NoPod, Pod, Gates,
       NoPod, GP!Gated, Gated, Gate!Latest, GP!Latest, Latest, GP!WritesPod, GP!Record, Gate!Record

\* A release is written over a pod that is there.
LEMMA ReleaseAdmissible ==
    ASSUME IInv, NEW r \in Replicas, Gate!ReleaseOk(r) \/ Gate!ReleaseFails(r)
    PROVE  \/ UNCHANGED podLog
           \/ \E p \in Pods, o \in GP!PodObject : GP!WritesPod(p, o) /\ Admissible(p, o)
<1>1. podWorker[r].pc = "release" /\ (UNCHANGED podLog \/ Gate!StoreRelease(r))
  BY DEF Gate!ReleaseOk, Gate!ReleaseFails
<1>2. ASSUME Gate!StoreRelease(r)  PROVE GP!StoreRelease(r)
  BY <1>2 DEF Gate!StoreRelease, GP!StoreRelease, Gate!IsCurrent, GP!IsCurrent, Gate!Record,
       GP!Record, Gate!Latest, GP!Latest, Gate!RemoveSchedulingGate, GP!RemoveSchedulingGate,
       Gate!Snapshot, GP!Snapshot
<1>3. ASSUME GP!StoreRelease(r)
      PROVE  \E p \in Pods, o \in GP!PodObject : GP!WritesPod(p, o) /\ Admissible(p, o)
  <2>1. GP!IInv  BY DEF IInv
  <2>2. PICK p \in Pods, o \in GP!PodObject :
           GP!Gated(GP!Latest(podLog[p])) /\ GP!WritesPod(p, o)
    BY <1>1, <1>3, <2>1, GP!StoreReleaseProperties
  <2>3. Latest(podLog[p]) # NoPod
    BY <2>2, SamePods DEF Gated, NoPod
  <2>4. QED  BY <2>2, <2>3 DEF Admissible
<1>4. QED  BY <1>1, <1>2, <1>3

\* So is every other pod that is written.
LEMMA WritesAdmissible ==
    ASSUME IInv, Next
    PROVE  \/ UNCHANGED podLog
           \/ \E p \in Pods, o \in GP!PodObject : GP!WritesPod(p, o) /\ Admissible(p, o)
<1> DEFINE Written == \/ UNCHANGED podLog
                      \/ \E p \in Pods, o \in GP!PodObject : GP!WritesPod(p, o) /\ Admissible(p, o)
<1>1. ASSUME NEW r \in Replicas, PodGateStep(r)  PROVE Written
  <2>1. UNCHANGED podLog \/ Gate!ReleaseOk(r) \/ Gate!ReleaseFails(r)
    BY <1>1 DEF PodGateStep, Gate!Reconcile, Gate!Skip, Gate!Begin, Gate!BuildResolver,
         Gate!ResolveImage, Gate!ResolveFails, Gate!CheckScan, Gate!CreateScan,
         Gate!CreateFails, Gate!podVars, Gate!TimerFires, Gate!DeliverPod,
         Gate!ResyncPod, Gate!MapScan
  <2>2. QED  BY <2>1, ReleaseAdmissible
<1>2. ASSUME NEW r \in Replicas,
             \/ ImageScanStep(r) \/ Restart(r)
             \/ \E k \in Scans : DeliverScan(r, k)
      PROVE  UNCHANGED podLog
  BY <1>2 DEF ImageScanStep, Restart, DeliverScan, gateOnly, Gate!Restart, Gate!DeliverScan,
       Gate!podVars
<1>3. ASSUME NEW p \in Pods, CreatePod(p)  PROVE Written
  <2>1. PICK request \in Pod :
           \/ Gate!StorePod(p, Handle(p, request))
           \/ WebhookMayFail /\ Gate!StorePod(p, request)
    BY <1>3 DEF CreatePod
  <2>2. CASE Gate!StorePod(p, Handle(p, request))
    <3>1. Handle(p, request) \in GP!PodObject /\ Admissible(p, Handle(p, request))
      BY AdmittedPod, SamePods DEF Admissible
    <3>2. GP!WritesPod(p, Handle(p, request))
      BY <2>2, SamePods DEF Gate!StorePod
    <3>3. QED  BY <3>1, <3>2
  <2>3. CASE WebhookMayFail /\ Gate!StorePod(p, request)
    <3>1. request \in GP!PodObject /\ Admissible(p, request)
      BY <2>3, SamePods DEF Admissible
    <3>2. GP!WritesPod(p, request)
      BY <2>3, SamePods DEF Gate!StorePod
    <3>3. QED  BY <3>1, <3>2
  <2>4. QED  BY <2>1, <2>2, <2>3
<1>4. ASSUME NEW p \in Pods, Gate!EditPod(p) \/ Gate!DeletePod(p)  PROVE Written
  <2>1. PICK o \in GP!PodObject : Gate!StorePod(p, o)
    BY <1>4, SamePods DEF Gate!EditPod, Gate!DeletePod, Gate!UserEdits
  <2>2. Latest(podLog[p]) # NoPod
    BY <1>4, SamePods DEF Gate!EditPod, Gate!DeletePod
  <2>3. GP!WritesPod(p, o)
    BY <2>1, SamePods DEF Gate!StorePod
  <2>4. QED  BY <2>2, <2>3 DEF Admissible
<1>5. CASE Environment
  <2>1. ASSUME \/ \E k \in Scans : Gate!DeleteScan(k)
               \/ \E i \in Images : Gate!MoveTag(i)
               \/ UNCHANGED gateOnly
        PROVE  UNCHANGED podLog
    BY <2>1 DEF Gate!DeleteScan, Gate!StoreScan, Gate!MoveTag, Gate!podVars, gateOnly
  <2>2. QED  BY <1>4, <1>5, <2>1 DEF Environment
<1>6. QED  BY <1>1, <1>2, <1>3, <1>5 DEF Next

LEMMA WebhookGatedStep ==
    ASSUME IInv, Next
    PROVE  WebhookGated'
<1>1. CASE UNCHANGED podLog
  BY <1>1 DEF IInv, WebhookGated, Created
<1>2. ASSUME NEW p \in Pods, NEW o \in GP!PodObject, GP!WritesPod(p, o), Admissible(p, o)
      PROVE  WebhookGated'
  <2>1. GP!IInv  BY DEF IInv
  <2>2. /\ \A q \in Pods : GP!Grown(podLog[q], podLog'[q]) /\ Len(podLog'[q]) >= 1
        /\ \A q \in Pods : q # p => podLog'[q] = podLog[q]
        /\ \A v \in 1 .. Len(podLog'[p]) :
              \/ v \in 1 .. Len(podLog[p])
              \/ /\ v = Len(podLog[p]) + 1
                 /\ podLog'[p][v] = o /\ podLog'[p][v - 1] = GP!Latest(podLog[p])
    BY <1>2, <2>1, GP!PodWriteProperties
  <2>3. SUFFICES ASSUME NEW q \in Pods, NEW v \in 2 .. Len(podLog'[q]), Created(q, v)'
                 PROVE  Gated(podLog'[q][v]) \/ Exempt(q, podLog'[q][v]) \/ WebhookMayFail
    BY DEF WebhookGated, Exempt
  <2>4. Len(podLog[q]) \in Nat /\ Len(podLog'[q]) \in Nat
    BY <2>1, <2>2, LenProperties, SamePods DEF GP!IInv, GP!Histories, GP!Grown
  <2>5. CASE v \in 2 .. Len(podLog[q])
    <3>1. podLog'[q][v] = podLog[q][v] /\ podLog'[q][v - 1] = podLog[q][v - 1]
      BY <2>2, <2>4, <2>5 DEF GP!Grown
    <3>2. QED  BY <2>3, <2>5, <3>1 DEF IInv, WebhookGated, Created
  <2>6. CASE v \notin 2 .. Len(podLog[q])
    <3>1. q = p /\ podLog'[p][v] = o /\ podLog'[p][v - 1] = Latest(podLog[p])
      BY <2>2, <2>4, <2>6, SamePods
    <3>2. QED  BY <1>2, <2>3, <3>1 DEF Admissible, Created
  <2>7. QED  BY <2>5, <2>6
<1>3. QED  BY <1>1, <1>2, WritesAdmissible

-----------------------------------------------------------------------------
LEMMA StutterOK ==
    ASSUME IInv, UNCHANGED vars
    PROVE  IInv'
<1>1. UNCHANGED GP!vars /\ UNCHANGED SP!vars
  BY DEF vars, gateOnly, scanOnly, GP!vars, GP!podVars, GP!scanVars, GP!tagVars, GP!workVars,
         SP!vars
<1>2. GP!IInv' /\ SP!IInv' /\ SP!ErrorCountedOnce'
  BY <1>1, GP!StepOK, SP!StutterOK, SP!CountedStep DEF IInv
<1>3. WebhookGated'
  BY DEF IInv, vars, gateOnly, WebhookGated, Created
<1>4. QED  BY <1>2, <1>3 DEF IInv

LEMMA StepOK ==
    ASSUME IInv, Next
    PROVE  IInv'
<1>1. [GP!Next]_(GP!vars)
  BY GateStep, SameGate
<1>2. [SP!Next]_(SP!vars)
  BY ScannerStep, SameScanner
<1>3. GP!IInv'
  BY <1>1, GP!StepOK DEF IInv
<1>4. SP!IInv'
  BY <1>2, SP!StepOK, SP!StutterOK DEF IInv
<1>5. SP!ErrorCountedOnce'
  BY <1>2, SP!CountedStep DEF IInv
<1>6. QED  BY <1>3, <1>4, <1>5, WebhookGatedStep DEF IInv

\* The two controllers' invariants hold together, each one resting on the
\* other's, when they meet in one program with the webhook.
THEOREM Invariance == Spec => []IInv
<1>1. IInv /\ [Next]_vars => IInv'
  BY StepOK, StutterOK
<1>2. QED  BY InitOK, <1>1, PTL DEF Spec

\* With the webhook, the other controller, users and Aqua around it, the pod
\* gate controller sees nothing that its own module has not allowed for.
THEOREM GateRefinement == Spec => GateSpec
<1>1. Init => Gate!Init
  BY DEF Init
<1>2. IInv /\ [Next]_vars => [Gate!Next]_(Gate!vars)
  <2>1. UNCHANGED vars => UNCHANGED Gate!vars
    BY DEF vars, gateOnly, Gate!vars, Gate!podVars, Gate!scanVars, Gate!tagVars, Gate!workVars
  <2>2. QED  BY <2>1, GateStep
<1>3. QED  BY <1>1, <1>2, Invariance, PTL DEF Spec, GateSpec, Gate!Spec

\* Nor does the ImageScan controller.
THEOREM ScannerRefinement == Spec => ScannerSpec
<1>1. Init => Scanner!Init
  BY DEF Init
<1>2. IInv /\ [Next]_vars => [Scanner!Next]_(Scanner!vars)
  <2>1. UNCHANGED vars => UNCHANGED Scanner!vars
    BY DEF vars, scanOnly, Scanner!vars
  <2>2. QED  BY <2>1, ScannerStep
<1>3. QED  BY <1>1, <1>2, Invariance, PTL DEF Spec, ScannerSpec, Scanner!Spec

\* An image that is vetted has been found by Aqua, as an image of that digest.
LEMMA VettedFound ==
    ASSUME IInv, NEW p \in Pods, NEW image, GP!Vetted(p, image)
    PROVE  \E d \in Digests :
              /\ <<image, d>> \in served
              /\ \E j \in Images : Entry(Gate!ScanOf(p, d), j) \in found
<1>1. PICK d \in Digests : <<image, d>> \in served /\ GP!ScanPassed(GP!ScanOf(p, d))
  BY DEF GP!Vetted
<1>2. PICK k \in SP!Scans : k = GP!ScanOf(p, d) /\ k = Gate!ScanOf(p, d)
  BY DEF GP!ScanOf, Gate!ScanOf, GP!ScanName, Gate!ScanName, SP!Scans
<1>3. PICK v \in 1 .. Len(scanLog[k]) : scanLog[k][v].phase = "Registered"
  BY <1>1, <1>2 DEF GP!ScanPassed
<1>4. scanLog[k][v] \in SP!Object
  BY <1>2, <1>3 DEF IInv, SP!IInv, SP!TypeOK
<1>5. scanLog[k][v].image \in Images
  BY <1>3, <1>4 DEF SP!Object, SP!Scan, SP!NoObject
<1>6. SP!Entry(k, scanLog[k][v].image) \in found
  BY <1>2, <1>3 DEF IInv, SP!IInv, SP!RegisteredImpliesFound
<1>7. QED  BY <1>1, <1>2, <1>5, <1>6 DEF Entry, SP!Entry

\* What the program is for, for any number of replicas, pods, images and
\* namespaces: no pod that the webhook was asked about starts before Aqua has
\* found all its images, through all that pod_webhook.go,
\* pod_gate_controller.go and imagescan_controller.go do at once.
THEOREM NothingUnvetted == Spec => []NoUnvettedStart
<1>1. ASSUME IInv  PROVE NoUnvettedStart
  <2>1. SUFFICES ASSUME NEW p \in Pods, NEW v \in 2 .. Len(podLog[p]),
                        Starts(p, v), ~Exempt(p, podLog[p][v]), ~(WebhookMayFail /\ Created(p, v))
                 PROVE  \A i \in podLog[p][v].images : \E d \in Digests :
                           /\ <<i, d>> \in served
                           /\ \E j \in Images : Entry(Gate!ScanOf(p, d), j) \in found
    BY DEF NoUnvettedStart
  <2>2. ~Created(p, v)
    BY <1>1, <2>1 DEF IInv, WebhookGated, Starts
  <2>3. GP!Gated(podLog[p][v - 1]) /\ podLog[p][v] # GP!NoPod /\ ~GP!Gated(podLog[p][v])
    BY <2>1, <2>2, SamePods DEF Starts
  <2>4. podLog[p][v].bypass \/ \A i \in podLog[p][v].images : GP!Vetted(p, i)
    BY <1>1, <2>3 DEF IInv, GP!IInv, GP!ReleaseJustified
  <2>5. ~podLog[p][v].bypass
    BY <2>1 DEF Exempt
  <2>6. QED  BY <1>1, <2>4, <2>5, VettedFound
<1>2. QED  BY <1>1, Invariance, PTL

\* What is proved of a controller's specification holds in the program.
LEMMA PartsRun == Spec => GP!Spec /\ SP!Spec
<1>1. Init => GP!Init /\ SP!Init
  BY SameGate, SameScanner DEF Init
<1>2. IInv /\ [Next]_vars => [GP!Next]_(GP!vars) /\ [SP!Next]_(SP!vars)
  <2>1. UNCHANGED vars => UNCHANGED GP!vars /\ UNCHANGED SP!vars
    BY DEF vars, gateOnly, scanOnly, GP!vars, GP!podVars, GP!scanVars, GP!tagVars,
           GP!workVars, SP!vars
  <2>2. QED  BY <2>1, GateStep, ScannerStep, SameGate, SameScanner
<1>3. QED  BY <1>1, <1>2, Invariance, PTL DEF Spec, GP!Spec, SP!Spec

\* In the whole program, too, no pod is left waiting for a scan that has
\* passed (if no two images share a digest) and no unfinished scan is left
\* alone: between them, the two controllers always have something to do about
\* a pod in scope unless one of its scans has failed.
THEOREM NothingLost ==
    GP!NoSharedDigest => (Spec => [](GP!NoLostWakeup /\ SP!NoForgottenScan))
<1> SUFFICES ASSUME GP!NoSharedDigest
             PROVE  Spec => [](GP!NoLostWakeup /\ SP!NoForgottenScan)
  OBVIOUS
<1>1. GP!Spec => []GP!NoLostWakeup
  BY GP!NothingLost
<1>2. SP!Spec => []SP!NoForgottenScan
  BY SP!NothingForgotten
<1>3. QED  BY PartsRun, <1>1, <1>2, PTL

\* What each controller promises to its users it keeps in the whole program:
\* a gate goes only when it may and nothing else with it; an ImageScan lives
\* one phase at a time, Registered only if Aqua found its image; and no verdict
\* is lost to a reconcile that did not know of it.
THEOREM PromisesKept ==
    Spec => GP!ImplementsContract /\ SP!ImplementsLifecycle /\ SP!NoVerdictLost
<1>1. GP!Spec => GP!ImplementsContract
  BY GP!Refinement
<1>2. SP!Spec => SP!ImplementsLifecycle
  BY SP!Refinement
<1>3. SP!Spec => SP!NoVerdictLost
  BY SP!VerdictsKept
<1>4. QED  BY PartsRun, <1>1, <1>2, <1>3, PTL

-----------------------------------------------------------------------------
(***************************************************************************)
(* The program keeps what it promises to the owner of the cluster.  Each   *)
(* step that changes a pod is a step of the pod gate's own contract, and   *)
(* what that says of ImageScans is said of Aqua by VettedFound; each step  *)
(* that finds an image is one of the ImageScan controller; and no step     *)
(* does both.                                                              *)
(***************************************************************************)
PodView == [p \in Pods |-> Latest(podLog[p])]

VettingStep == [Vetting!Next]_(Vetting!vettingVars)

\* The contracts and the program speak of the same pods.
LEMMA VettingNames ==
    /\ Vetting!Pod = Pod /\ GP!Contract!Pod = Pod
    /\ Vetting!NoPod = NoPod /\ GP!Contract!NoPod = NoPod
    /\ Vetting!Entries = Entries /\ SP!Entries = Entries
    /\ \A pod : Vetting!Gated(pod) <=> Gated(pod)
    /\ \A pod : GP!Contract!Gated(pod) <=> Gated(pod)
    /\ \A pod : Vetting!UserEdits(pod) = GP!Contract!UserEdits(pod)
    /\ \A pod : Vetting!RemoveSchedulingGate(pod) = GP!Contract!RemoveSchedulingGate(pod)
BY DEF Vetting!Pod, GP!Contract!Pod, Pod, Vetting!Gates, GP!Contract!Gates, Gates,
       Vetting!NoPod, GP!Contract!NoPod, NoPod, Vetting!Gated, GP!Contract!Gated, Gated,
       Vetting!Entries, SP!Entries, Entries,
       Vetting!UserEdits, GP!Contract!UserEdits, Vetting!RemoveSchedulingGate,
       GP!Contract!RemoveSchedulingGate

\* What the pod gate's contract takes for vetted, Aqua has found.
LEMMA VettedByAqua ==
    ASSUME IInv, NEW p \in Pods, NEW image, GP!Contract!Vetted(p, image)
    PROVE  Vetting!Vetted(p, image)
<1>1. GP!Vetted(p, image)
  BY DEF GP!Contract!Vetted, GP!Vetted
<1>2. QED  BY <1>1, VettedFound DEF Vetting!Vetted, Vetting!Entry, Entry

\* A new pod is one that the webhook let through.
LEMMA NewPodAdmissible ==
    ASSUME IInv, Next, NEW p \in Pods, NEW new \in Pod,
           Latest(podLog[p]) = NoPod, Latest(podLog'[p]) = new
    PROVE  Gated(new) \/ Exempt(p, new) \/ WebhookMayFail
<1>1. NoPod # new
  BY DEF NoPod, Pod
<1>2. PICK q \in Pods, o \in GP!PodObject : GP!WritesPod(q, o) /\ Admissible(q, o)
  BY <1>1, WritesAdmissible
<1>3. GP!IInv
  BY DEF IInv
<1>4. (\A z \in Pods : z # q => podLog'[z] = podLog[z]) /\ Latest(podLog'[q]) = o
  BY <1>2, <1>3, GP!PodWriteProperties, SamePods
<1>5. q = p /\ o = new
  BY <1>1, <1>4
<1>6. QED  BY <1>1, <1>2, <1>5 DEF Admissible

\* A step does not ask Aqua and change a pod at once.
LEMMA OneAtATime ==
    ASSUME Next
    PROVE  UNCHANGED found \/ UNCHANGED <<podLog, served>>
BY DEF Next, PodGateStep, ImageScanStep, Restart, DeliverScan, CreatePod, Environment,
       scanOnly, gateOnly, Scanner!Restart, Scanner!Deliver

LEMMA PodSeenByAll ==
    ASSUME IInv, Next, UNCHANGED found
    PROVE  VettingStep
<1> DEFINE view == [p \in Pods |-> GP!Latest(podLog[p])]
<1>1. [GP!Contract!Next]_(GP!Contract!contractVars)
  <2>1. [GP!Next]_(GP!vars) /\ GP!IInv
    BY GateStep, SameGate DEF IInv
  <2>2. QED  BY <2>1, GP!EveryStep DEF GP!ContractStep
<1>2. view = PodView /\ view' = PodView'
  BY SamePods DEF PodView
<1>3. ASSUME UNCHANGED <<PodView, served>>  PROVE VettingStep
  BY <1>3 DEF VettingStep, Vetting!vettingVars, PodView
<1>4. ASSUME NEW p \in Pods, GP!Contract!Release(p)  PROVE VettingStep
  <2>1. /\ Vetting!Gated(PodView[p])
        /\ PodView[p].bypass \/ \A image \in PodView[p].images : Vetting!Vetted(p, image)
        /\ PodView' = [PodView EXCEPT ![p] = Vetting!RemoveSchedulingGate(@)]
        /\ UNCHANGED <<found, served>>
    BY <1>2, <1>4, VettedByAqua, VettingNames DEF GP!Contract!Release
  <2>2. Vetting!Release(p)
    BY <2>1 DEF Vetting!Release, PodView
  <2>3. QED  BY <2>2 DEF Vetting!Next, VettingStep
<1>5. ASSUME NEW p \in Pods, GP!Contract!UserChanges(p)  PROVE VettingStep
  <2>1. CASE PodView[p] = NoPod
    <3>1. PICK new \in Pod : PodView' = [PodView EXCEPT ![p] = new]
      BY <1>2, <1>5, <2>1, VettingNames DEF GP!Contract!UserChanges
    <3>2. Latest(podLog[p]) = NoPod /\ Latest(podLog'[p]) = new
      BY <2>1, <3>1 DEF PodView
    <3>3. Gated(new) \/ Exempt(p, new) \/ WebhookMayFail
      BY <3>2, NewPodAdmissible
    <3>4. Vetting!Admit(p)
      BY <1>5, <2>1, <3>1, <3>3, VettingNames DEF Vetting!Admit, PodView, GP!Contract!UserChanges
    <3>5. QED  BY <3>4 DEF Vetting!Next, VettingStep
  <2>2. CASE PodView[p] # NoPod
    <3>1. Vetting!Edit(p)
      BY <1>2, <1>5, <2>2, VettingNames DEF Vetting!Edit, PodView, GP!Contract!UserChanges
    <3>2. QED  BY <3>1 DEF Vetting!Next, VettingStep
  <2>3. QED  BY <2>1, <2>2
<1>6. ASSUME NEW k, GP!Contract!ScanPasses(k)  PROVE VettingStep
  BY <1>2, <1>3, <1>6 DEF GP!Contract!ScanPasses
<1>7. ASSUME NEW image \in Images, NEW d \in Digests, GP!Contract!RegistryServes(image, d)
      PROVE  VettingStep
  <2>1. Vetting!RegistryServes(image, d)
    BY <1>2, <1>7 DEF GP!Contract!RegistryServes, Vetting!RegistryServes, PodView
  <2>2. QED  BY <2>1 DEF Vetting!Next, VettingStep
<1>8. CASE UNCHANGED GP!Contract!contractVars
  BY <1>2, <1>3, <1>8 DEF GP!Contract!contractVars
<1>9. QED
  BY <1>1, <1>4, <1>5, <1>6, <1>7, <1>8 DEF GP!Contract!Next

LEMMA AquaSeenByAll ==
    ASSUME IInv, Next, UNCHANGED <<podLog, served>>
    PROVE  VettingStep
<1>1. UNCHANGED found \/ \E e \in Entries : found' = found \cup {e}
  <2>1. [SP!Next]_(SP!vars) /\ SP!IInv
    BY ScannerStep, SameScanner DEF IInv
  <2>2. QED  BY <2>1, SP!StepsOnFound, VettingNames DEF SP!vars
<1>2. UNCHANGED <<PodView, served>>
  BY DEF PodView
<1>3. CASE UNCHANGED found
  BY <1>2, <1>3 DEF VettingStep, Vetting!vettingVars, PodView
<1>4. ASSUME NEW e \in Entries, found' = found \cup {e}  PROVE VettingStep
  <2>1. Vetting!AquaReports(e)
    BY <1>2, <1>4 DEF Vetting!AquaReports, PodView
  <2>2. QED  BY <2>1, VettingNames DEF Vetting!Next, VettingStep
<1>5. QED  BY <1>1, <1>3, <1>4

\* What the program is for, as a refinement: with any number of replicas, pods
\* and images, whatever fails, restarts or is read from an old cache, the pods
\* of the cluster behave as if one careful machine had gated them at creation
\* and released each one, unchanged, when Aqua had found all its images.
THEOREM VettingRefinement == Spec => ImplementsVetting
<1>1. Init => Vetting!Init
  <2> SUFFICES ASSUME Init  PROVE Vetting!Init
    OBVIOUS
  <2>1. PodView = [p \in Pods |-> NoPod]
    BY DEF Init, Gate!Init, Gate!NoPod, NoPod, PodView, Latest
  <2>2. found = {} /\ served \subseteq Images \X Digests
    BY DEF Init, Gate!Init, Scanner!Init
  <2>3. QED  BY <2>1, <2>2, VettingNames DEF Vetting!Init, PodView
<1>2. IInv /\ [Next]_vars => [Vetting!Next]_(Vetting!vettingVars)
  <2>1. UNCHANGED vars => VettingStep
    BY DEF vars, gateOnly, scanOnly, VettingStep, Vetting!vettingVars
  <2>2. QED  BY <2>1, OneAtATime, PodSeenByAll, AquaSeenByAll DEF VettingStep
<1>3. QED  BY <1>1, <1>2, Invariance, PTL DEF Spec, ImplementsVetting, Vetting!Spec
=============================================================================
