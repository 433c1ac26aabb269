------------------------ MODULE ImageScanController ------------------------
(***************************************************************************)
(* The ImageScan reconciler, internal/controller/imagescan_controller.go,  *)
(* in one or more replicas of the manager process.  Each replica has an    *)
(* informer cache of the ImageScans, a work queue and one worker           *)
(* (MaxConcurrentReconciles is left at 1).  A reconcile is cut wherever it *)
(* leaves the process: after reading the cache, after each call to Aqua    *)
(* and at the status update, so that everything else may happen between.   *)
(***************************************************************************)
EXTENDS ScanTypes, ApiStore

CONSTANTS
    Replicas,        \* manager processes that run the controller at once
    MaxScanVersions, \* no ImageScan with a history this long is deleted
    MaxRestarts,     \* how many times a process may restart, in all
    AquaForgets      \* may Aqua lose a result or a scan it had accepted?

ASSUME ControllerAssumption ==
    /\ MaxScanVersions \in Nat
    /\ MaxRestarts \in Nat
    /\ AquaForgets \in BOOLEAN

VARIABLES
    scanLog,    \* scanLog[k]: the history of ImageScan k in the API server
    scanSeen,   \* scanSeen[r][k]: the version that r's informer cache shows
    aqua,       \* aqua[e]: what Aqua knows about entry e
    found,      \* the entries that GetScanResult has reported found
    queue,      \* <<r, k>>: k waits in the work queue of r
    delayed,    \* <<r, k>>: k is added to the queue of r when a timer fires
    worker,     \* worker[r]: the reconcile in progress at r
    restarts    \* how many times a process has restarted

vars == <<scanLog, scanSeen, aqua, found, queue, delayed, worker, restarts>>

-----------------------------------------------------------------------------
Object == Scan \cup {NoObject}

Cached(r, k) == scanLog[k][scanSeen[r][k]]

\* The worker between two reconciles.  During one, "snap" is the version
\* that was read from the cache and "phase" what is to be written.
Idle == [pc |-> "idle"]

Busy == [pc : {"query", "trigger", "write"}, key : Scans, snap : Nat,
         phase : {"none", "Pending", "Registered", "Error"}]

Snapshot(r) == scanLog[worker[r].key][worker[r].snap]

QueriedEntry(r) == Entry(worker[r].key, Snapshot(r).image)

\* What Status().Update stores: the resource as it is now with the status the
\* reconcile made from its snapshot.  An error counts one up from there,
\* success starts again at 0.
Updated(r) ==
    WithStatus(Latest(scanLog[worker[r].key]), worker[r].phase,
               IF worker[r].phase = "Error" THEN Snapshot(r).retryCount + 1 ELSE 0)

Init == /\ scanLog = [k \in Scans |-> <<NoObject>>]
        /\ scanSeen = [r \in Replicas |-> [k \in Scans |-> 1]]
        /\ aqua \in [Entries -> {"unknown", "registered"}]
        /\ found = {}
        /\ queue = {}
        /\ delayed = {}
        /\ worker = [r \in Replicas |-> Idle]
        /\ restarts = 0

-----------------------------------------------------------------------------
(* The reconcile *)

Dequeue(r, k) == /\ worker[r] = Idle
                 /\ <<r, k>> \in queue
                 /\ queue' = queue \ {<<r, k>>}

\* Nothing to do: the resource is gone or its phase is terminal.
Skip(r, k) ==
    /\ Dequeue(r, k)
    /\ Cached(r, k).phase \in Terminal \cup {"Absent"}
    /\ UNCHANGED <<scanLog, scanSeen, aqua, found, delayed, worker, restarts>>

\* Mutant of Begin: NotFound is not ignored.
MutantBeginOnNotFound(r, k) ==
    /\ Dequeue(r, k)
    /\ Cached(r, k).phase \notin Terminal
    /\ worker' = [worker EXCEPT ![r] =
                    [pc |-> "query", key |-> k, snap |-> scanSeen[r][k], phase |-> "none"]]
    /\ UNCHANGED <<scanLog, scanSeen, aqua, found, delayed, restarts>>

\* Mutant of Begin: Error is not terminal.
MutantBeginOnError(r, k) ==
    /\ Dequeue(r, k)
    /\ Cached(r, k).phase \notin {"Registered", "Absent"}
    /\ worker' = [worker EXCEPT ![r] =
                    [pc |-> "query", key |-> k, snap |-> scanSeen[r][k], phase |-> "none"]]
    /\ UNCHANGED <<scanLog, scanSeen, aqua, found, delayed, restarts>>

Begin(r, k) ==
    /\ Dequeue(r, k)
    /\ Cached(r, k).phase \notin Terminal \cup {"Absent"}
    /\ worker' = [worker EXCEPT ![r] =
                    [pc |-> "query", key |-> k, snap |-> scanSeen[r][k], phase |-> "none"]]
    /\ UNCHANGED <<scanLog, scanSeen, aqua, found, delayed, restarts>>

Decide(r, phase) ==
    worker' = [worker EXCEPT ![r] =
                 [pc |-> "write", key |-> @.key, snap |-> @.snap, phase |-> phase]]

\* GetScanResult: found when Aqua has the result, not found otherwise; any
\* failure on the way (token, registry lookup, transport, status) is an error.
QueryFound(r) ==
    /\ worker[r].pc = "query"
    /\ aqua[QueriedEntry(r)] = "registered"
    /\ found' = found \cup {QueriedEntry(r)}
    /\ Decide(r, "Registered")
    /\ UNCHANGED <<scanLog, scanSeen, aqua, queue, delayed, restarts>>

\* Mutant of QueryNotFound: the two answers are swapped.
MutantNotFoundRegisters(r) ==
    /\ worker[r].pc = "query"
    /\ aqua[QueriedEntry(r)] # "registered"
    /\ Decide(r, "Registered")
    /\ UNCHANGED <<scanLog, scanSeen, aqua, found, queue, delayed, restarts>>

QueryNotFound(r) ==
    /\ worker[r].pc = "query"
    /\ aqua[QueriedEntry(r)] # "registered"
    /\ worker' = [worker EXCEPT ![r].pc = "trigger"]
    /\ UNCHANGED <<scanLog, scanSeen, aqua, found, queue, delayed, restarts>>

QueryFails(r) ==
    /\ worker[r].pc = "query"
    /\ Decide(r, "Error")
    /\ UNCHANGED <<scanLog, scanSeen, aqua, found, queue, delayed, restarts>>

\* TriggerScan: Aqua starts a scan of an entry it does not know.
ScanRequested(e) ==
    aqua' = IF aqua[e] = "unknown" THEN [aqua EXCEPT ![e] = "scanning"] ELSE aqua

TriggerAccepted(r) ==
    /\ worker[r].pc = "trigger"
    /\ ScanRequested(QueriedEntry(r))
    /\ Decide(r, "Pending")
    /\ UNCHANGED <<scanLog, scanSeen, found, queue, delayed, restarts>>

\* An error before the request took effect, or after (the answer was lost).
TriggerFails(r) ==
    /\ worker[r].pc = "trigger"
    /\ ScanRequested(QueriedEntry(r)) \/ UNCHANGED aqua
    /\ Decide(r, "Error")
    /\ UNCHANGED <<scanLog, scanSeen, found, queue, delayed, restarts>>

\* Mutant of RequeuedAfter: the immediate requeue of a pending scan is gone.
MutantPendingNotRequeued(phase) == phase = "Error"

\* Is k looked at again after its update went through without an error?
\* Pending asks for an immediate requeue, Error for one after a backoff.
RequeuedAfter(phase) == phase \in {"Pending", "Error"}

Finish(r, again) ==
    /\ worker' = [worker EXCEPT ![r] = Idle]
    /\ delayed' = IF again THEN delayed \cup {<<r, worker[r].key>>} ELSE delayed

\* Mutant of StoreStatus: the update carries no resource version.
MutantStoreUnconditionally(r) ==
    /\ Latest(scanLog[worker[r].key]) # NoObject
    /\ scanLog' = [scanLog EXCEPT ![worker[r].key] = Record(@, Updated(r))]

StoreStatus(r) ==
    /\ IsCurrent(scanLog[worker[r].key], worker[r].snap)
    /\ scanLog' = [scanLog EXCEPT ![worker[r].key] = Record(@, Updated(r))]

WriteOk(r) ==
    /\ worker[r].pc = "write"
    /\ StoreStatus(r)
    /\ Finish(r, RequeuedAfter(worker[r].phase))
    /\ UNCHANGED <<scanSeen, aqua, found, queue, restarts>>

\* Mutant of WriteFails: an error of the update is dropped.
MutantWriteErrorDropped(r) ==
    /\ worker[r].pc = "write"
    /\ StoreStatus(r) \/ UNCHANGED scanLog
    /\ Finish(r, FALSE)
    /\ UNCHANGED <<scanSeen, aqua, found, queue, restarts>>

\* The update returns an error: a conflict, a request that did not reach the
\* API server, or one whose answer was lost.  The error goes to the rate
\* limiter, or, after a failed query, to the log and a backoff.
WriteFails(r) ==
    /\ worker[r].pc = "write"
    /\ StoreStatus(r) \/ UNCHANGED scanLog
    /\ Finish(r, TRUE)
    /\ UNCHANGED <<scanSeen, aqua, found, queue, restarts>>

-----------------------------------------------------------------------------
(* The process around it: timers, informer events, crashes *)

TimerFires(r, k) ==
    /\ <<r, k>> \in delayed
    /\ delayed' = delayed \ {<<r, k>>}
    /\ queue' = queue \cup {<<r, k>>}
    /\ UNCHANGED <<scanLog, scanSeen, aqua, found, worker, restarts>>

\* The informer catches up, and every event enqueues the resource.
Deliver(r, k) ==
    /\ \E v \in NewerVersions(scanLog[k], scanSeen[r][k]) :
          scanSeen' = [scanSeen EXCEPT ![r][k] = v]
    /\ queue' = queue \cup {<<r, k>>}
    /\ UNCHANGED <<scanLog, aqua, found, delayed, worker, restarts>>

\* The periodic resync of the informer repeats what the cache shows.
Resync(r, k) ==
    /\ Cached(r, k) # NoObject
    /\ queue' = queue \cup {<<r, k>>}
    /\ UNCHANGED <<scanLog, scanSeen, aqua, found, delayed, worker, restarts>>

\* A process dies at any point and a new one lists all resources.
Restart(r) ==
    /\ restarts < MaxRestarts
    /\ restarts' = restarts + 1
    /\ worker' = [worker EXCEPT ![r] = Idle]
    /\ scanSeen' = [scanSeen EXCEPT ![r] = [k \in Scans |-> Len(scanLog[k])]]
    /\ queue' = {rk \in queue : rk[1] # r}
                  \cup {<<r, k>> : k \in {k \in Scans : Latest(scanLog[k]) # NoObject}}
    /\ delayed' = {rk \in delayed : rk[1] # r}
    /\ UNCHANGED <<scanLog, aqua, found>>

Reconcile(r) ==
    \/ \E k \in Scans : Skip(r, k) \/ Begin(r, k)
    \/ QueryFound(r) \/ QueryNotFound(r) \/ QueryFails(r)
    \/ TriggerAccepted(r) \/ TriggerFails(r)
    \/ WriteOk(r) \/ WriteFails(r)

Process(r) ==
    \E k \in Scans : TimerFires(r, k) \/ Deliver(r, k) \/ Resync(r, k)

-----------------------------------------------------------------------------
(* The environment: whoever creates and deletes ImageScans, and Aqua *)

CreateScan(k, image) ==
    /\ Latest(scanLog[k]) = NoObject
    /\ scanLog' = [scanLog EXCEPT ![k] = Record(@, NewScan(image))]
    /\ UNCHANGED <<scanSeen, aqua, found, queue, delayed, worker, restarts>>

DeleteScan(k) ==
    /\ Latest(scanLog[k]) # NoObject
    /\ Len(scanLog[k]) < MaxScanVersions
    /\ scanLog' = [scanLog EXCEPT ![k] = Record(@, NoObject)]
    /\ UNCHANGED <<scanSeen, aqua, found, queue, delayed, worker, restarts>>

AquaFinishes(e) ==
    /\ aqua[e] = "scanning"
    /\ aqua' = [aqua EXCEPT ![e] = "registered"]
    /\ UNCHANGED <<scanLog, scanSeen, found, queue, delayed, worker, restarts>>

AquaLoses(e) ==
    /\ AquaForgets
    /\ aqua[e] # "unknown"
    /\ aqua' = [aqua EXCEPT ![e] = "unknown"]
    /\ UNCHANGED <<scanLog, scanSeen, found, queue, delayed, worker, restarts>>

Aqua == \E e \in Entries : AquaFinishes(e) \/ AquaLoses(e)

Users == \E k \in Scans : DeleteScan(k) \/ \E image \in Images : CreateScan(k, image)

Next == \/ \E r \in Replicas : Reconcile(r) \/ Process(r) \/ Restart(r)
        \/ Aqua
        \/ Users

Spec == Init /\ [][Next]_vars

-----------------------------------------------------------------------------
(***************************************************************************)
(* Fairness, for the liveness properties only.  The workers, timers and    *)
(* informers of a process keep running (weak fairness).  The work queue is *)
(* first in, first out, so a key that waits again and again is taken, and  *)
(* an update that could go through again and again does (strong fairness). *)
(* Aqua finishes the scans it accepted.                                    *)
(***************************************************************************)
WorkerFairness(r, k) ==
    /\ SF_vars(Skip(r, k) \/ Begin(r, k))
    /\ SF_vars(WriteOk(r) /\ worker[r].key = k)
    /\ WF_vars(TimerFires(r, k))
    /\ WF_vars(Deliver(r, k))

CallFairness(r) ==
    /\ WF_vars(QueryFound(r) \/ QueryNotFound(r) \/ QueryFails(r))
    /\ WF_vars(TriggerAccepted(r) \/ TriggerFails(r))
    /\ WF_vars(WriteOk(r) \/ WriteFails(r))

FairSpec ==
    /\ Spec
    /\ \A r \in Replicas : CallFairness(r) /\ \A k \in Scans : WorkerFairness(r, k)
    /\ \A e \in Entries : WF_vars(AquaFinishes(e))

-----------------------------------------------------------------------------
(* Properties *)

\* Every variable holds a value the program can store; the informer never
\* shows a version that was not written, and a worker's snapshot is one of an
\* existing resource.
TypeOK ==
    /\ scanLog \in [Scans -> Seq(Object)]
    /\ \A k \in Scans : Len(scanLog[k]) >= 1
    /\ scanSeen \in [Replicas -> [Scans -> Nat]]
    /\ \A r \in Replicas, k \in Scans : scanSeen[r][k] \in 1 .. Len(scanLog[k])
    /\ aqua \in [Entries -> {"unknown", "scanning", "registered"}]
    /\ found \subseteq Entries
    /\ queue \subseteq Replicas \X Scans
    /\ delayed \subseteq Replicas \X Scans
    /\ worker \in [Replicas -> Busy \cup {Idle}]
    /\ \A r \in Replicas : worker[r] # Idle =>
          /\ worker[r].snap \in 1 .. Len(scanLog[worker[r].key])
          /\ Snapshot(r) \in Scan
    /\ restarts \in Nat

\* "Registered" is never written for an image Aqua has not reported found:
\* not when the resource was deleted and created again for another image of
\* the same digest between the query and the update (the update carries the
\* version it was made from), nor by a second replica.
RegisteredImpliesFound ==
    \A k \in Scans : \A v \in 1 .. Len(scanLog[k]) :
        scanLog[k][v].phase = "Registered" =>
            Entry(k, scanLog[k][v].image) \in found

\* No verdict is lost to a reconcile that did not know of it: a stored verdict
\* goes only when the ImageScan is deleted, or when a worker that read this
\* very verdict replaces it.  A second replica, or a reconcile that started
\* from a stale cache before the verdict was given, does not write over it
\* with what it found out meanwhile.  (To look again at a verdict, as a rescan
\* would, is not forbidden.)
NoVerdictLost ==
    [][\A k \in Scans :
          Latest(scanLog[k]).phase \in Terminal =>
              \/ Latest(scanLog'[k]) \in {Latest(scanLog[k]), NoObject}
              \/ \E r \in Replicas : /\ worker[r] # Idle /\ worker'[r] = Idle
                                     /\ worker[r].key = k
                                     /\ worker[r].snap = Len(scanLog[k])]_vars

\* No scan is forgotten: while the cache of a process shows an unfinished
\* ImageScan, the process has it in its queue, behind a timer or in its
\* worker, or has not yet seen a newer version, whose event will enqueue it.
NoForgottenScan ==
    \A r \in Replicas, k \in Scans :
        \/ Cached(r, k).phase \in Terminal \cup {"Absent"}
        \/ <<r, k>> \in queue \cup delayed
        \/ worker[r] # Idle /\ worker[r].key = k
        \/ scanSeen[r][k] < Len(scanLog[k])

\* An error is never counted twice: whatever calculateBackoff would make of
\* higher retry counts, it only ever sees 1.  No replica goes on from another
\* one's Error, and an ImageScan that is created anew counts anew.
ErrorCountedOnce ==
    \A k \in Scans : \A v \in 1 .. Len(scanLog[k]) :
        scanLog[k][v] # NoObject =>
            scanLog[k][v].retryCount = IF scanLog[k][v].phase = "Error" THEN 1 ELSE 0

AquaStopsForgetting == <>[][\A e \in Entries : ~AquaLoses(e)]_vars

\* Every ImageScan gets a verdict or is deleted, through failed calls,
\* conflicts, stale reads and restarts, and although Aqua may for a while lose
\* the scans it accepted and the results it had.
EveryScanDecided ==
    AquaStopsForgetting =>
        \A k \in Scans :
            Latest(scanLog[k]).phase \in {"New", "Pending"}
                ~> Latest(scanLog[k]).phase \in Terminal \cup {"Absent"}

\* The controller lives up to what readers of ImageScans rely on: phases in
\* their order, Registered only for what Aqua reported.  That nothing but a
\* deletion follows a verdict is what the code does, not a promise of the
\* docs, whose --rescan-interval no code reads.
Lifecycle == INSTANCE ScanLifecycle WITH
                scan <- [k \in Scans |-> Latest(scanLog[k])]

ImplementsLifecycle == Lifecycle!Spec

\* What calculateBackoff and the RetryCount field are documented for: an
\* ImageScan in Error is tried again (after a backoff) unless it is deleted.
ErrorIsRetried ==
    \A k \in Scans :
        Latest(scanLog[k]).phase = "Error"
            ~> \/ Latest(scanLog[k]) = NoObject
               \/ \E r \in Replicas : worker[r] # Idle /\ worker[r].key = k
                                       /\ worker[r].pc = "query"
=============================================================================
