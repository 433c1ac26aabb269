------------------------- MODULE PodGateController -------------------------
(***************************************************************************)
(* The pod gate reconciler, internal/controller/pod_gate_controller.go, in *)
(* one or more replicas of the manager process: it holds a pod's gate      *)
(* until every image of the pod has a Registered ImageScan.  A reconcile   *)
(* reads two caches that lag behind (pods and ImageScans), asks registries *)
(* whose tags move, creates ImageScans and ends with an update of the pod; *)
(* it is cut at each of these calls.  The ImageScan controller is the      *)
(* environment here: any scan may get any verdict at any time.             *)
(***************************************************************************)
EXTENDS PodTypes, ApiStore

CONSTANTS
    Replicas,           \* manager processes that run the controller at once
    ScanNamespace,      \* where ImageScans live; NoNamespace: with the pod
    NoNamespace,
    PinnedImages,       \* the images whose reference carries a digest
    DigestsOf,          \* DigestsOf[i]: the digests image i may stand for
    ScanSteps,          \* the phases the ImageScan controller writes
    MaxPodVersions,     \* users leave a pod with a history this long alone
    MaxScanVersions,    \* so do they with an ImageScan
    MaxTagMoves,        \* how often tags move to another digest, in all
    MaxRestarts         \* how many times a process may restart, in all

ASSUME GateAssumption ==
    /\ ScanNamespace \in Namespaces \cup {NoNamespace}
    /\ NoNamespace \notin Namespaces
    /\ PinnedImages \subseteq Images
    /\ DigestsOf \in [Images -> SUBSET Digests]
    /\ ScanSteps \subseteq {"Pending", "Registered", "Error"}
    /\ MaxPodVersions \in Nat /\ MaxScanVersions \in Nat
    /\ MaxTagMoves \in Nat /\ MaxRestarts \in Nat

VARIABLES
    podLog,     \* podLog[p]: the history of pod p in the API server
    podSeen,    \* podSeen[r][p]: the version that r's pod cache shows
    scanLog,    \* scanLog[k]: the history of ImageScan k
    scanSeen,   \* scanSeen[r][k]: the version that r's ImageScan cache shows
    tag,        \* tag[i]: the digest that the registry serves for image i
    served,     \* every <<image, digest>> that a registry has ever served
    queue,      \* <<r, p>>: p waits in the work queue of r
    delayed,    \* <<r, p>>: p is added to the queue of r when a timer fires
    notices,    \* <<r, k, i>>: ImageScan k of image i is yet to be mapped to pods
    worker,     \* worker[r]: the reconcile in progress at r
    waiting,    \* waiting[r][p]: the scans that r's last reconcile of p found open
    restarts,   \* how many times a process has restarted
    moves       \* how many times a tag has moved

podVars  == <<podLog, podSeen>>
scanVars == <<scanLog, scanSeen>>
tagVars  == <<tag, served, moves>>
workVars == <<queue, delayed, notices, worker, waiting>>
vars     == <<podVars, scanVars, tagVars, workVars, restarts>>

-----------------------------------------------------------------------------
CachedPod(r, p)  == podLog[p][podSeen[r][p]]
CachedScan(r, k) == scanLog[k][scanSeen[r][k]]

\* The ImageScan that speaks for a digest in pod p.
ScanOf(p, digest) ==
    ScanName(IF ScanNamespace = NoNamespace THEN PodNamespace[p] ELSE ScanNamespace, digest)

\* A resolved image: the reference of the pod and the digest found for it.
Refs == Images \X Digests

\* The worker between two reconciles.  During one, "snap" is the version of
\* the pod that was read, "todo" its images still without digest, "refs" the
\* resolved ones, "left" those whose ImageScan is still to be looked at,
\* "missing" the one whose ImageScan is about to be created, and "open" the
\* ImageScans found unfinished.
Idle == [pc |-> "idle"]

Busy == [pc : {"build", "resolve", "check", "create", "release"},
         key : Pods, snap : Nat, todo : SUBSET Images, refs : SUBSET Refs,
         left : SUBSET Refs, missing : SUBSET Refs, open : SUBSET Scans]

Snapshot(r) == podLog[worker[r].key][worker[r].snap]

Init == /\ podLog = [p \in Pods |-> <<NoPod>>]
        /\ podSeen = [r \in Replicas |-> [p \in Pods |-> 1]]
        /\ scanLog = [k \in Scans |-> <<NoObject>>]
        /\ scanSeen = [r \in Replicas |-> [k \in Scans |-> 1]]
        /\ tag \in {t \in [Images -> Digests] : \A i \in Images : t[i] \in DigestsOf[i]}
        /\ served = {<<i, tag[i]>> : i \in Images}
        /\ queue = {}
        /\ delayed = {}
        /\ notices = {}
        /\ worker = [r \in Replicas |-> Idle]
        /\ waiting = [r \in Replicas |-> [p \in Pods |-> {}]]
        /\ restarts = 0
        /\ moves = 0

-----------------------------------------------------------------------------
(* The reconcile *)

Dequeue(r, p) ==
    /\ worker[r] = Idle
    /\ <<r, p>> \in queue
    /\ queue' = queue \ {<<r, p>>}
    /\ waiting' = [waiting EXCEPT ![r][p] = {}]

\* Mutant of Ignored: the check for our gate is missing.
MutantGateNotChecked(r, p) == Excluded(p) \/ CachedPod(r, p) = NoPod

\* Is there nothing for the reconciler to do with what its cache shows?
Ignored(r, p) == Excluded(p) \/ ~Gated(CachedPod(r, p))

Skip(r, p) ==
    /\ Dequeue(r, p)
    /\ Ignored(r, p)
    /\ UNCHANGED <<podVars, scanVars, tagVars, delayed, notices, worker, restarts>>

\* A bypassed pod, or one without images, is released at once; for any other
\* a resolver is built first, from the pod's pull secrets.
Begin(r, p) ==
    /\ Dequeue(r, p)
    /\ ~Ignored(r, p)
    /\ worker' = [worker EXCEPT ![r] =
         [pc |-> IF CachedPod(r, p).bypass \/ CachedPod(r, p).images = {}
                 THEN "release" ELSE "build",
          key |-> p, snap |-> podSeen[r][p], todo |-> {}, refs |-> {},
          left |-> {}, missing |-> {}, open |-> {}]]
    /\ UNCHANGED <<podVars, scanVars, tagVars, delayed, notices, restarts>>

\* The check of ImageScans begins when no image is left to resolve.
Resolving(r, todo, refs) ==
    worker' = [worker EXCEPT ![r] =
         [pc |-> IF todo = {} THEN "check" ELSE "resolve",
          key |-> worker[r].key, snap |-> worker[r].snap, todo |-> todo, refs |-> refs,
          left |-> IF todo = {} THEN refs ELSE {}, missing |-> {}, open |-> {}]]

\* Images that carry their digest need no registry.
BuildResolver(r) ==
    /\ worker[r].pc = "build"
    /\ Resolving(r, Snapshot(r).images \ PinnedImages,
                 {<<i, tag[i]>> : i \in Snapshot(r).images \cap PinnedImages})
    /\ UNCHANGED <<podVars, scanVars, tagVars, queue, delayed, notices, waiting, restarts>>

ResolveImage(r, i) ==
    /\ worker[r].pc = "resolve"
    /\ i \in worker[r].todo
    /\ Resolving(r, worker[r].todo \ {i}, worker[r].refs \cup {<<i, tag[i]>>})
    /\ UNCHANGED <<podVars, scanVars, tagVars, queue, delayed, notices, waiting, restarts>>

\* Mutant of TryAgain: the error is logged and nil is returned.
MutantNoRetry(r) ==
    /\ worker' = [worker EXCEPT ![r] = Idle]
    /\ UNCHANGED delayed

\* The reconcile ends and comes again: after 30 seconds when no resolver could
\* be built or an image not be resolved, through the rate limiter when an API
\* call returned an error.
TryAgain(r) ==
    /\ worker' = [worker EXCEPT ![r] = Idle]
    /\ delayed' = delayed \cup {<<r, worker[r].key>>}

ResolveFails(r) ==
    /\ worker[r].pc \in {"build", "resolve"}
    /\ TryAgain(r)
    /\ UNCHANGED <<podVars, scanVars, tagVars, queue, notices, waiting, restarts>>

\* The check goes on: images are left, one needs an ImageScan, some are open.
Checking(r, next, left, missing, open) ==
    worker' = [worker EXCEPT ![r] =
         [pc |-> next, key |-> worker[r].key, snap |-> worker[r].snap,
          todo |-> {}, refs |-> worker[r].refs, left |-> left,
          missing |-> missing, open |-> open]]

\* One image has been dealt with.  After the last one the gate is released if
\* no scan is open; otherwise the reconcile just ends (event ScanPending).
Settle(r, ref, open) ==
    LET rest == worker[r].left \ {ref} IN
    IF rest = {} /\ open # {}
    THEN /\ worker' = [worker EXCEPT ![r] = Idle]
         /\ waiting' = [waiting EXCEPT ![r][worker[r].key] = open]
    ELSE /\ Checking(r, IF rest = {} THEN "release" ELSE "check", rest, {}, open)
         /\ UNCHANGED waiting

\* Mutant of CheckScan: an Error no longer clears allPassed.
MutantErrorPasses(r, ref) ==
    LET k == ScanOf(worker[r].key, ref[2]) IN
    /\ worker[r].pc = "check"
    /\ ref \in worker[r].left
    /\ \/ /\ CachedScan(r, k) = NoObject
          /\ Checking(r, "create", worker[r].left, {ref}, worker[r].open)
          /\ UNCHANGED waiting
       \/ /\ CachedScan(r, k).phase \in Terminal
          /\ Settle(r, ref, worker[r].open)
       \/ /\ CachedScan(r, k).phase \in Phases \ Terminal
          /\ Settle(r, ref, worker[r].open \cup {k})
    /\ UNCHANGED <<podVars, scanVars, tagVars, queue, delayed, notices, restarts>>

CheckScan(r, ref) ==
    LET k == ScanOf(worker[r].key, ref[2]) IN
    /\ worker[r].pc = "check"
    /\ ref \in worker[r].left
    /\ \/ /\ CachedScan(r, k) = NoObject
          /\ Checking(r, "create", worker[r].left, {ref}, worker[r].open)
          /\ UNCHANGED waiting
       \/ /\ CachedScan(r, k).phase = "Registered"
          /\ Settle(r, ref, worker[r].open)
       \/ /\ CachedScan(r, k).phase \in Phases \ {"Registered"}
          /\ Settle(r, ref, worker[r].open \cup {k})
    /\ UNCHANGED <<podVars, scanVars, tagVars, queue, delayed, notices, restarts>>

\* Mutant of StoreNewScan: an existing ImageScan is replaced.
MutantReplaceScan(k, image) ==
    scanLog' = [scanLog EXCEPT ![k] = Record(@, NewScan(image))]

StoreNewScan(k, image) ==
    /\ Latest(scanLog[k]) = NoObject
    /\ scanLog' = [scanLog EXCEPT ![k] = Record(@, NewScan(image))]

\* Somebody else's ImageScan of the same name is as good as our own.
CreateScan(r) ==
    /\ worker[r].pc = "create"
    /\ \E ref \in worker[r].missing :
          LET k == ScanOf(worker[r].key, ref[2]) IN
          /\ \/ StoreNewScan(k, ref[1])
             \/ Latest(scanLog[k]) # NoObject /\ UNCHANGED scanLog
          /\ Settle(r, ref, worker[r].open \cup {k})
    /\ UNCHANGED <<podVars, scanSeen, tagVars, queue, delayed, notices, restarts>>

\* The create fails, or its answer is lost; or the read before it failed.
CreateFails(r) ==
    /\ worker[r].pc \in {"check", "create"}
    /\ \/ UNCHANGED scanLog
       \/ \E ref \in worker[r].missing :
             StoreNewScan(ScanOf(worker[r].key, ref[2]), ref[1])
    /\ TryAgain(r)
    /\ UNCHANGED <<podVars, scanSeen, tagVars, queue, notices, waiting, restarts>>

\* Mutant of StoreRelease: the update carries no resource version.
MutantReleaseUnconditionally(r) ==
    /\ Latest(podLog[worker[r].key]) # NoPod
    /\ podLog' = [podLog EXCEPT ![worker[r].key] =
                    Record(@, RemoveSchedulingGate(Snapshot(r)))]

\* Update sends the whole pod as it was read, without the gate.
StoreRelease(r) ==
    /\ IsCurrent(podLog[worker[r].key], worker[r].snap)
    /\ podLog' = [podLog EXCEPT ![worker[r].key] =
                    Record(@, RemoveSchedulingGate(Snapshot(r)))]

ReleaseOk(r) ==
    /\ worker[r].pc = "release"
    /\ StoreRelease(r)
    /\ worker' = [worker EXCEPT ![r] = Idle]
    /\ UNCHANGED <<podSeen, scanVars, tagVars, queue, delayed, notices, waiting, restarts>>

ReleaseFails(r) ==
    /\ worker[r].pc = "release"
    /\ StoreRelease(r) \/ UNCHANGED podLog
    /\ TryAgain(r)
    /\ UNCHANGED <<podSeen, scanVars, tagVars, queue, notices, waiting, restarts>>

Reconcile(r) ==
    \/ \E p \in Pods : Skip(r, p) \/ Begin(r, p)
    \/ BuildResolver(r)
    \/ \E i \in Images : ResolveImage(r, i)
    \/ ResolveFails(r)
    \/ \E ref \in Refs : CheckScan(r, ref)
    \/ CreateScan(r) \/ CreateFails(r)
    \/ ReleaseOk(r) \/ ReleaseFails(r)

-----------------------------------------------------------------------------
(* The process around it: timers, informer events, crashes *)

TimerFires(r, p) ==
    /\ <<r, p>> \in delayed
    /\ delayed' = delayed \ {<<r, p>>}
    /\ queue' = queue \cup {<<r, p>>}
    /\ UNCHANGED <<podVars, scanVars, tagVars, notices, worker, waiting, restarts>>

\* A pod event passes the predicate if the pod has our gate: as it is now,
\* or as it was last if it is gone.
DeliverPod(r, p) ==
    \E v \in NewerVersions(podLog[p], podSeen[r][p]) :
        /\ podSeen' = [podSeen EXCEPT ![r][p] = v]
        /\ queue' = IF \/ Gated(podLog[p][v])
                       \/ podLog[p][v] = NoPod /\ Gated(CachedPod(r, p))
                    THEN queue \cup {<<r, p>>} ELSE queue
        /\ UNCHANGED <<podLog, scanVars, tagVars, delayed, notices, worker, waiting, restarts>>

\* What mapImageScanToPods needs to know of an ImageScan; it ignores phases
\* that are not terminal.
NoticesOf(r, k, scan) ==
    IF scan.phase \in Terminal THEN {<<r, k, scan.image>>} ELSE {}

\* An ImageScan event: the informer's handler maps the object before and the
\* object after it, some time after the cache was updated.
DeliverScan(r, k) ==
    \E v \in NewerVersions(scanLog[k], scanSeen[r][k]) :
        /\ scanSeen' = [scanSeen EXCEPT ![r][k] = v]
        /\ notices' = notices \cup NoticesOf(r, k, CachedScan(r, k))
                              \cup NoticesOf(r, k, scanLog[k][v])
        /\ UNCHANGED <<podVars, scanLog, tagVars, queue, delayed, worker, waiting, restarts>>

\* Mutant of MappedPods: pods are matched by ScanName, which is not that of
\* the scan while the image has no digest.
MutantMatchByScanName(r, k, image) ==
    {p \in Pods : /\ Gated(CachedPod(r, p))
                  /\ ~Excluded(p)
                  /\ ScanOf(p, k[2])[1] = k[1]
                  /\ \E i \in CachedPod(r, p).images \cap PinnedImages : DigestsOf[i] = {k[2]}}

\* The pods that an ImageScan is mapped to: gated in r's cache, in scope, in
\* the namespace the scan serves, and with the image the scan is labelled for.
MappedPods(r, k, image) ==
    {p \in Pods : /\ Gated(CachedPod(r, p))
                  /\ ~Excluded(p)
                  /\ ScanOf(p, k[2])[1] = k[1]
                  /\ image \in CachedPod(r, p).images}

\* Mutant of MapScan: the search stops at the first pod, not at its first image.
MutantMapOnePod(r, k, image) ==
    /\ <<r, k, image>> \in notices
    /\ notices' = notices \ {<<r, k, image>>}
    /\ queue' = IF MappedPods(r, k, image) = {} THEN queue
                ELSE queue \cup {<<r, CHOOSE p \in MappedPods(r, k, image) : TRUE>>}
    /\ UNCHANGED <<podVars, scanVars, tagVars, delayed, worker, waiting, restarts>>

MapScan(r, k, image) ==
    /\ <<r, k, image>> \in notices
    /\ notices' = notices \ {<<r, k, image>>}
    /\ queue' = queue \cup {<<r, p>> : p \in MappedPods(r, k, image)}
    /\ UNCHANGED <<podVars, scanVars, tagVars, delayed, worker, waiting, restarts>>

\* The periodic resync of the informers repeats what the caches show.
ResyncPod(r, p) ==
    /\ Gated(CachedPod(r, p))
    /\ queue' = queue \cup {<<r, p>>}
    /\ UNCHANGED <<podVars, scanVars, tagVars, delayed, notices, worker, waiting, restarts>>

\* A process dies at any point and a new one lists all pods and ImageScans.
Restart(r) ==
    /\ restarts < MaxRestarts
    /\ restarts' = restarts + 1
    /\ podSeen' = [podSeen EXCEPT ![r] = [p \in Pods |-> Len(podLog[p])]]
    /\ scanSeen' = [scanSeen EXCEPT ![r] = [k \in Scans |-> Len(scanLog[k])]]
    /\ worker' = [worker EXCEPT ![r] = Idle]
    /\ waiting' = [waiting EXCEPT ![r] = [p \in Pods |-> {}]]
    /\ queue' = {rp \in queue : rp[1] # r}
                  \cup {<<r, p>> : p \in {p \in Pods : Gated(Latest(podLog[p]))}}
    /\ delayed' = {rp \in delayed : rp[1] # r}
    /\ notices' = {n \in notices : n[1] # r}
                    \cup UNION {NoticesOf(r, k, Latest(scanLog[k])) : k \in Scans}
    /\ UNCHANGED <<podLog, scanLog, tagVars>>

Process(r) ==
    \/ \E p \in Pods : TimerFires(r, p) \/ DeliverPod(r, p) \/ ResyncPod(r, p)
    \/ \E k \in Scans : DeliverScan(r, k) \/ \E i \in Images : MapScan(r, k, i)

-----------------------------------------------------------------------------
(* The environment: the users of the cluster, registries, and whoever      *)
(* writes ImageScans: the ImageScan controller gives verdicts, users may   *)
(* create and delete them.                                                 *)

StorePod(p, pod) ==
    /\ Len(podLog[p]) < MaxPodVersions
    /\ podLog' = [podLog EXCEPT ![p] = Record(@, pod)]
    /\ UNCHANGED <<podSeen, scanVars, tagVars, workVars, restarts>>

\* With the gate when the webhook added it, without when the pod is exempt
\* or the webhook was down.
CreatePod(p) ==
    /\ Latest(podLog[p]) = NoPod
    /\ \E pod \in Pod : StorePod(p, pod)

EditPod(p) ==
    /\ Latest(podLog[p]) # NoPod
    /\ \E pod \in UserEdits(Latest(podLog[p])) : StorePod(p, pod)

DeletePod(p) ==
    /\ Latest(podLog[p]) # NoPod
    /\ StorePod(p, NoPod)

StoreScan(k, scan) ==
    /\ scanLog' = [scanLog EXCEPT ![k] = Record(@, scan)]
    /\ UNCHANGED <<podVars, scanSeen, tagVars, workVars, restarts>>

OthersCreateScan(k) ==
    /\ Len(scanLog[k]) < MaxScanVersions
    /\ Latest(scanLog[k]) = NoObject
    /\ \E i \in Images : <<i, k[2]>> \in served /\ StoreScan(k, NewScan(i))

DeleteScan(k) ==
    /\ Len(scanLog[k]) < MaxScanVersions
    /\ Latest(scanLog[k]) # NoObject
    /\ StoreScan(k, NoObject)

\* A step of the ImageScan controller, as ScanLifecycle allows it.
ScanProgresses(k) ==
    /\ Latest(scanLog[k]).phase \in {"New", "Pending"}
    /\ \E phase \in ScanSteps :
          StoreScan(k, WithStatus(Latest(scanLog[k]), phase, IF phase = "Error" THEN 1 ELSE 0))

\* A registry serves another digest for a tag.
MoveTag(i) ==
    /\ i \notin PinnedImages
    /\ moves < MaxTagMoves
    /\ moves' = moves + 1
    /\ \E d \in DigestsOf[i] \ {tag[i]} :
          /\ tag' = [tag EXCEPT ![i] = d]
          /\ served' = served \cup {<<i, d>>}
    /\ UNCHANGED <<podVars, scanVars, workVars, restarts>>

Users == \/ \E p \in Pods : CreatePod(p) \/ EditPod(p) \/ DeletePod(p)
         \/ \E k \in Scans : OthersCreateScan(k) \/ DeleteScan(k)

Next == \/ \E r \in Replicas : Reconcile(r) \/ Process(r) \/ Restart(r)
        \/ Users
        \/ \E k \in Scans : ScanProgresses(k)
        \/ \E i \in Images : MoveTag(i)

Spec == Init /\ [][Next]_vars

-----------------------------------------------------------------------------
(***************************************************************************)
(* Fairness, for the liveness properties only: workers, timers, informers  *)
(* and their handlers keep running; the work queue is first in, first out, *)
(* so that a pod which waits again and again is taken.                     *)
(***************************************************************************)
WorkerFairness(r) ==
    /\ WF_vars(BuildResolver(r) \/ ResolveFails(r) \/ \E i \in Images : ResolveImage(r, i))
    /\ WF_vars(CreateScan(r) \/ CreateFails(r) \/ \E ref \in Refs : CheckScan(r, ref))
    /\ WF_vars(ReleaseOk(r) \/ ReleaseFails(r))
    /\ \A p \in Pods : SF_vars(Skip(r, p) \/ Begin(r, p))

ProcessFairness(r) ==
    /\ \A p \in Pods : WF_vars(TimerFires(r, p)) /\ WF_vars(DeliverPod(r, p))
    /\ \A k \in Scans : WF_vars(DeliverScan(r, k))
    /\ \A k \in Scans, i \in Images : WF_vars(MapScan(r, k, i))

FairSpec == Spec /\ \A r \in Replicas : WorkerFairness(r) /\ ProcessFairness(r)

\* A call that fails although nothing stands in its way.  Conflicts do not
\* count: the retry after one reads a newer pod.
CallFails(r) ==
    \/ ResolveFails(r)
    \/ CreateFails(r)
    \/ ReleaseFails(r) /\ IsCurrent(podLog[worker[r].key], worker[r].snap)

CallsStopFailing == <>[][\A r \in Replicas : ~CallFails(r)]_vars

-----------------------------------------------------------------------------
(* Properties *)

\* Every variable holds a value the program can store; caches show versions
\* that were written, a worker's snapshot is a gated pod, and the images it
\* works on are the pod's.
TypeOK ==
    /\ podLog \in [Pods -> Seq(Pod \cup {NoPod})]
    /\ podSeen \in [Replicas -> [Pods -> Nat]]
    /\ \A r \in Replicas, p \in Pods : podSeen[r][p] \in 1 .. Len(podLog[p])
    /\ scanLog \in [Scans -> Seq(Scan \cup {NoObject})]
    /\ scanSeen \in [Replicas -> [Scans -> Nat]]
    /\ \A r \in Replicas, k \in Scans : scanSeen[r][k] \in 1 .. Len(scanLog[k])
    /\ tag \in [Images -> Digests]
    /\ served \subseteq Refs
    /\ queue \subseteq Replicas \X Pods
    /\ delayed \subseteq Replicas \X Pods
    /\ notices \subseteq Replicas \X Scans \X Images
    /\ worker \in [Replicas -> Busy \cup {Idle}]
    /\ waiting \in [Replicas -> [Pods -> SUBSET Scans]]
    /\ restarts \in Nat
    /\ moves \in Nat
    /\ \A r \in Replicas : worker[r] # Idle =>
          /\ worker[r].snap \in 1 .. Len(podLog[worker[r].key])
          /\ Gated(Snapshot(r))
          /\ worker[r].todo \subseteq Snapshot(r).images
          /\ \A ref \in worker[r].refs : ref[1] \in Snapshot(r).images

ScanPassed(k) == \E v \in 1 .. Len(scanLog[k]) : scanLog[k][v].phase = "Registered"

Vetted(p, image) ==
    \E d \in Digests : <<image, d>> \in served /\ ScanPassed(ScanOf(p, d))

\* A gate is taken off only when it may be: wherever the history of a pod goes
\* from gated to not gated, the pod is bypassed or each of its images has been
\* resolved to a digest whose ImageScan passed.  The images are those of the
\* released pod, not those of an older pod that the reconcile had read.
ReleaseJustified ==
    \A p \in Pods : \A v \in 2 .. Len(podLog[p]) :
        LET before == podLog[p][v - 1]
            after  == podLog[p][v]
        IN  Gated(before) /\ after # NoPod /\ ~Gated(after) =>
                after.bypass \/ \A image \in after.images : Vetted(p, image)

\* The gate goes and nothing else does: what the users' edits and the gates of
\* other programs are never overwritten by a release made from a stale read.
Contract == INSTANCE GateContract WITH
                pod    <- [p \in Pods |-> Latest(podLog[p])],
                passed <- {k \in Scans : ScanPassed(k)}

ImplementsContract == Contract!Spec

\* No wake-up is lost, which is what ends Reconcile without a requeue: while
\* a process shows a gated pod in scope, the pod is queued, behind a timer, in
\* the worker or about to be delivered in a newer version; or its last
\* reconcile found scans open, and each of them is either still not
\* Registered in the cache or has a notice on its way that maps to the pod.
NoLostWakeup ==
    \A r \in Replicas, p \in Pods :
        Gated(CachedPod(r, p)) /\ ~Excluded(p) =>
            \/ <<r, p>> \in queue \cup delayed
            \/ worker[r] # Idle /\ worker[r].key = p
            \/ podSeen[r][p] < Len(podLog[p])
            \/ /\ waiting[r][p] # {}
               /\ \A k \in waiting[r][p] :
                     \/ CachedScan(r, k).phase # "Registered"
                     \/ \E i \in Images : <<r, k, i>> \in notices
                                            /\ p \in MappedPods(r, k, i)

\* Nothing keeps this gated pod any more: the scans of the digests now served
\* for its images are Registered, and so is what its last reconcile waits for.
\* (That a tag has moved to a digest with a verdict wakes nobody.)
MayGo(p) ==
    LET passed == {k \in Scans : Latest(scanLog[k]).phase = "Registered"} IN
    /\ Gated(Latest(podLog[p]))
    /\ ~Excluded(p)
    /\ \/ Latest(podLog[p]).bypass
       \/ /\ \A i \in Latest(podLog[p]).images : ScanOf(p, tag[i]) \in passed
          /\ \A r \in Replicas : waiting[r][p] \subseteq passed

\* A pod that may go does not stay gated for ever: through conflicts, stale
\* caches, moving tags and restarts, once registries and the API server stop
\* failing.
PassedPodsReleased == CallsStopFailing => \A p \in Pods : []<>~MayGo(p)

\* What the README says in step 5 of "How It Works": once all images pass, or
\* fail, the gate is removed.
FailedPodsReleased ==
    CallsStopFailing => \A p \in Pods :
        []<>~( /\ Gated(Latest(podLog[p]))
               /\ ~Excluded(p)
               /\ \A i \in Latest(podLog[p]).images, d \in Digests :
                     <<i, d>> \in served => Latest(scanLog[ScanOf(p, d)]).phase \in Terminal )
=============================================================================
