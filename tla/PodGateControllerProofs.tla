---------------------- MODULE PodGateControllerProofs ----------------------
(***************************************************************************)
(* Proofs about PodGateController, for any number of replicas, pods,       *)
(* images and digests.                                                     *)
(***************************************************************************)
EXTENDS PodGateController, SequenceTheorems, TLAPS

USE ImageAssumption, PodAssumption, GateAssumption

-----------------------------------------------------------------------------
(* Histories *)

\* A history that has grown: a version that could be read can still be read.
Grown(h, g) == /\ Len(g) \in Nat
               /\ Len(g) >= Len(h)
               /\ \A v \in 1 .. Len(h) : g[v] = h[v]

\* The history of an object grows at its end: Record keeps every version and
\* makes the recorded object the latest one.
LEMMA RecordProperties ==
    ASSUME NEW S, NEW h \in Seq(S), Len(h) >= 1, NEW o \in S
    PROVE  /\ Record(h, o) \in Seq(S)
           /\ Grown(h, Record(h, o))
           /\ Latest(Record(h, o)) = o
           /\ \A v \in 1 .. Len(Record(h, o)) :
                 \/ v \in 1 .. Len(h)
                 \/ v = Len(h) + 1 /\ Record(h, o)[v] = o /\ Record(h, o)[v - 1] = Latest(h)
           /\ Latest(h) # o => Len(Record(h, o)) > Len(h)
<1>1. Len(h) \in Nat  BY LenProperties
<1>2. CASE Latest(h) = o
  BY <1>1, <1>2 DEF Record, Latest, Grown
<1>3. CASE Latest(h) # o
  <2>1. Record(h, o) = Append(h, o)  BY <1>3 DEF Record
  <2>2. QED  BY <1>1, <2>1, AppendProperties DEF Latest, Grown
<1>4. QED  BY <1>2, <1>3

PodObject  == Pod \cup {NoPod}
ScanObject == Scan \cup {NoObject}

\* Steps that write a pod, or an ImageScan.
WritesPod(p, o)  == podLog' = [podLog EXCEPT ![p] = Record(@, o)]
WritesScan(k, o) == scanLog' = [scanLog EXCEPT ![k] = Record(@, o)]

\* What every step does to the histories and to what registries have served.
Later == /\ \A p \in Pods : Grown(podLog[p], podLog'[p])
         /\ \A k \in Scans : Grown(scanLog[k], scanLog'[k])
         /\ served \subseteq served'

-----------------------------------------------------------------------------
(***************************************************************************)
(* The inductive invariant.  What a release is justified by was seen at    *)
(* different moments of a reconcile: the worker's part of the invariant    *)
(* says what each image found so far, and what each ImageScan looked at,   *)
(* stands for; both only grow, so that it still holds at the release.      *)
(***************************************************************************)
Histories ==
    /\ podLog \in [Pods -> Seq(PodObject)]
    /\ \A p \in Pods : Len(podLog[p]) >= 1
    /\ scanLog \in [Scans -> Seq(ScanObject)]
    /\ \A k \in Scans : Len(scanLog[k]) >= 1

Caches ==
    /\ podSeen \in [Replicas -> [Pods -> Nat]]
    /\ \A r \in Replicas, p \in Pods : podSeen[r][p] \in 1 .. Len(podLog[p])
    /\ scanSeen \in [Replicas -> [Scans -> Nat]]
    /\ \A r \in Replicas, k \in Scans : scanSeen[r][k] \in 1 .. Len(scanLog[k])

\* Each ImageScan speaks for an image that was served with its digest.
World ==
    /\ tag \in [Images -> Digests]
    /\ served \subseteq Refs
    /\ \A i \in Images : <<i, tag[i]>> \in served
    /\ \A ref \in served : ref[2] \in DigestsOf[ref[1]]
    /\ \A k \in Scans : \A v \in 1 .. Len(scanLog[k]) :
          scanLog[k][v] # NoObject => <<scanLog[k][v].image, k[2]>> \in served
    /\ restarts \in Nat /\ moves \in Nat

Queues ==
    /\ queue \subseteq Replicas \X Pods
    /\ delayed \subseteq Replicas \X Pods
    /\ notices \subseteq Replicas \X Scans \X Images
    /\ waiting \in [Replicas -> [Pods -> SUBSET Scans]]

\* The reconcile w, of a pod whose version it read is pod.
Reconciles(w, pod) ==
    /\ Gated(pod)
    /\ ~Excluded(w.key)
    /\ w.todo \subseteq pod.images
    /\ w.refs \subseteq served
    /\ \A ref \in w.refs : ref[1] \in pod.images
    /\ w.left \subseteq w.refs /\ w.missing \subseteq w.left
    /\ \A k \in w.open : \E ref \in w.refs : k = ScanOf(w.key, ref[2])
    /\ w.pc \in {"resolve", "check", "create"} =>
          \A image \in pod.images \ w.todo : \E d \in Digests : <<image, d>> \in w.refs
    /\ w.pc \in {"check", "create"} =>
          /\ w.todo = {}
          /\ \A ref \in w.refs \ w.left :
                LET k == ScanOf(w.key, ref[2]) IN k \in w.open \/ ScanPassed(k)
    /\ w.pc = "release" => pod.bypass \/ \A image \in pod.images : Vetted(w.key, image)

WorkerOK(r) ==
    worker[r] # Idle =>
        /\ worker[r].snap \in 1 .. Len(podLog[worker[r].key])
        /\ Reconciles(worker[r], Snapshot(r))

Workers == /\ worker \in [Replicas -> Busy \cup {Idle}]
           /\ \A r \in Replicas : WorkerOK(r)

IInv == Histories /\ Caches /\ World /\ Queues /\ Workers /\ ReleaseJustified

\* The invariant contains the type invariant.
LEMMA Typed == IInv => TypeOK
<1> SUFFICES ASSUME IInv PROVE TypeOK
  OBVIOUS
<1> USE DEF IInv, Histories, Caches, World, Queues, Workers
<1>1. \A r \in Replicas : worker[r] # Idle =>
          /\ worker[r].snap \in 1 .. Len(podLog[worker[r].key])
          /\ Gated(Snapshot(r))
          /\ worker[r].todo \subseteq Snapshot(r).images
          /\ \A ref \in worker[r].refs : ref[1] \in Snapshot(r).images
  BY DEF WorkerOK, Reconciles
<1>2. QED  BY <1>1 DEF TypeOK, PodObject, ScanObject

LEMMA ScanOfType ==
    ASSUME NEW p \in Pods, NEW d \in Digests
    PROVE  ScanOf(p, d) \in Scans /\ ScanOf(p, d)[2] = d
BY DEF ScanOf, ScanName, Scans

LEMMA InitOK == Init => IInv
<1> SUFFICES ASSUME Init PROVE IInv
  OBVIOUS
<1> USE DEF Init
<1>1. /\ \A p \in Pods : podLog[p] = <<NoPod>> /\ Len(podLog[p]) = 1
      /\ \A k \in Scans : scanLog[k] = <<NoObject>> /\ Len(scanLog[k]) = 1
  OBVIOUS
<1>2. Histories
  BY <1>1 DEF Histories, PodObject, ScanObject
<1>3. Caches
  BY <1>1 DEF Caches
<1>4. World
  <2>1. tag \in [Images -> Digests] /\ \A i \in Images : tag[i] \in DigestsOf[i]
    OBVIOUS
  <2>2. served = {<<i, tag[i]>> : i \in Images}
    OBVIOUS
  <2>3. \A k \in Scans : \A v \in 1 .. Len(scanLog[k]) : scanLog[k][v] = NoObject
    BY <1>1
  <2>4. restarts \in Nat /\ moves \in Nat
    OBVIOUS
  <2>5. \A ref \in served : ref[2] \in DigestsOf[ref[1]] /\ ref \in Refs
    BY <2>1, <2>2 DEF Refs
  <2>6. QED  BY <2>1, <2>2, <2>3, <2>4, <2>5 DEF World
<1>5. Queues
  BY DEF Queues
<1>6. Workers
  BY DEF Workers, WorkerOK
<1>7. ReleaseJustified
  BY <1>1 DEF ReleaseJustified
<1>8. QED  BY <1>2, <1>3, <1>4, <1>5, <1>6, <1>7 DEF IInv

-----------------------------------------------------------------------------
(* Writes, and what is kept by steps that leave things alone *)

\* What a write to a pod does to the histories of all pods: only that of the
\* pod changes, by growing.
LEMMA PodWriteProperties ==
    ASSUME IInv, NEW p \in Pods, NEW o \in PodObject, WritesPod(p, o)
    PROVE  /\ podLog' \in [Pods -> Seq(PodObject)]
           /\ \A q \in Pods : Grown(podLog[q], podLog'[q]) /\ Len(podLog'[q]) >= 1
           /\ \A q \in Pods : q # p => podLog'[q] = podLog[q]
           /\ Latest(podLog'[p]) = o
           /\ \A v \in 1 .. Len(podLog'[p]) :
                 \/ v \in 1 .. Len(podLog[p])
                 \/ /\ v = Len(podLog[p]) + 1
                    /\ podLog'[p][v] = o /\ podLog'[p][v - 1] = Latest(podLog[p])
           /\ Latest(podLog[p]) # o => Len(podLog'[p]) > Len(podLog[p])
<1>1. podLog \in [Pods -> Seq(PodObject)] /\ \A q \in Pods : Len(podLog[q]) >= 1
  BY DEF IInv, Histories
<1>2. /\ podLog'[p] = Record(podLog[p], o)
      /\ \A q \in Pods : q # p => podLog'[q] = podLog[q]
  BY <1>1 DEF WritesPod
<1>3. \A q \in Pods : Len(podLog[q]) \in Nat
  BY <1>1, LenProperties
<1>4. /\ podLog'[p] \in Seq(PodObject)
      /\ Grown(podLog[p], podLog'[p])
      /\ Latest(podLog'[p]) = o
      /\ \A v \in 1 .. Len(podLog'[p]) :
            \/ v \in 1 .. Len(podLog[p])
            \/ /\ v = Len(podLog[p]) + 1
               /\ podLog'[p][v] = o /\ podLog'[p][v - 1] = Latest(podLog[p])
      /\ Latest(podLog[p]) # o => Len(podLog'[p]) > Len(podLog[p])
  BY <1>1, <1>2, RecordProperties
<1>5. ASSUME NEW q \in Pods  PROVE Grown(podLog[q], podLog'[q]) /\ Len(podLog'[q]) >= 1
  <2>1. CASE q = p   BY <1>1, <1>3, <1>4, <2>1 DEF Grown
  <2>2. CASE q # p   BY <1>1, <1>2, <1>3, <2>2 DEF Grown
  <2>3. QED  BY <2>1, <2>2
<1>6. podLog' \in [Pods -> Seq(PodObject)]
  BY <1>1, <1>2, <1>4 DEF WritesPod
<1>7. QED  BY <1>2, <1>4, <1>5, <1>6

\* The same for a write to an ImageScan.
LEMMA ScanWriteProperties ==
    ASSUME IInv, NEW k \in Scans, NEW o \in ScanObject, WritesScan(k, o)
    PROVE  /\ scanLog' \in [Scans -> Seq(ScanObject)]
           /\ \A j \in Scans : Grown(scanLog[j], scanLog'[j]) /\ Len(scanLog'[j]) >= 1
           /\ \A j \in Scans : j # k => scanLog'[j] = scanLog[j]
           /\ Latest(scanLog'[k]) = o
           /\ \A v \in 1 .. Len(scanLog'[k]) :
                 \/ v \in 1 .. Len(scanLog[k])
                 \/ /\ v = Len(scanLog[k]) + 1
                    /\ scanLog'[k][v] = o /\ scanLog'[k][v - 1] = Latest(scanLog[k])
           /\ Latest(scanLog[k]) # o => Len(scanLog'[k]) > Len(scanLog[k])
<1>1. scanLog \in [Scans -> Seq(ScanObject)] /\ \A j \in Scans : Len(scanLog[j]) >= 1
  BY DEF IInv, Histories
<1>2. /\ scanLog'[k] = Record(scanLog[k], o)
      /\ \A j \in Scans : j # k => scanLog'[j] = scanLog[j]
  BY <1>1 DEF WritesScan
<1>3. \A j \in Scans : Len(scanLog[j]) \in Nat
  BY <1>1, LenProperties
<1>4. /\ scanLog'[k] \in Seq(ScanObject)
      /\ Grown(scanLog[k], scanLog'[k])
      /\ Latest(scanLog'[k]) = o
      /\ \A v \in 1 .. Len(scanLog'[k]) :
            \/ v \in 1 .. Len(scanLog[k])
            \/ /\ v = Len(scanLog[k]) + 1
               /\ scanLog'[k][v] = o /\ scanLog'[k][v - 1] = Latest(scanLog[k])
      /\ Latest(scanLog[k]) # o => Len(scanLog'[k]) > Len(scanLog[k])
  BY <1>1, <1>2, RecordProperties
<1>5. ASSUME NEW j \in Scans  PROVE Grown(scanLog[j], scanLog'[j]) /\ Len(scanLog'[j]) >= 1
  <2>1. CASE j = k   BY <1>1, <1>3, <1>4, <2>1 DEF Grown
  <2>2. CASE j # k   BY <1>1, <1>2, <1>3, <2>2 DEF Grown
  <2>3. QED  BY <2>1, <2>2
<1>6. scanLog' \in [Scans -> Seq(ScanObject)]
  BY <1>1, <1>2, <1>4 DEF WritesScan
<1>7. QED  BY <1>2, <1>4, <1>5, <1>6

\* A scan that has passed stays so, and an image that is vetted stays vetted.
LEMMA VettedStays ==
    ASSUME Histories, Later
    PROVE  /\ \A k \in Scans : ScanPassed(k) => ScanPassed(k)'
           /\ \A p \in Pods, image \in Images : Vetted(p, image) => Vetted(p, image)'
<1>1. ASSUME NEW k \in Scans, ScanPassed(k)  PROVE ScanPassed(k)'
  <2>1. Len(scanLog[k]) \in Nat  BY LenProperties DEF Histories
  <2>2. PICK v \in 1 .. Len(scanLog[k]) : scanLog[k][v].phase = "Registered"
    BY <1>1 DEF ScanPassed
  <2>3. Grown(scanLog[k], scanLog'[k])  BY DEF Later
  <2>4. v \in 1 .. Len(scanLog'[k]) /\ scanLog'[k][v] = scanLog[k][v]
    BY <2>1, <2>3 DEF Grown
  <2>5. QED  BY <2>2, <2>4 DEF ScanPassed
<1>2. ASSUME NEW p \in Pods, NEW image \in Images, Vetted(p, image)  PROVE Vetted(p, image)'
  <2>1. PICK d \in Digests : <<image, d>> \in served /\ ScanPassed(ScanOf(p, d))
    BY <1>2 DEF Vetted
  <2>2. <<image, d>> \in served' /\ ScanPassed(ScanOf(p, d))'
    BY <1>1, <2>1, ScanOfType DEF Later
  <2>3. QED  BY <2>2 DEF Vetted
<1>3. QED  BY <1>1, <1>2

\* A reconcile that is not touched by a step stays in order.
LEMMA WorkerStays ==
    ASSUME IInv, Later, NEW r \in Replicas, worker'[r] = worker[r], worker[r] # Idle
    PROVE  Snapshot(r) \in Pod /\ Snapshot(r)' = Snapshot(r) /\ WorkerOK(r)'
<1> DEFINE p == worker[r].key
<1>1. /\ worker[r] \in Busy /\ p \in Pods
      /\ worker[r].snap \in 1 .. Len(podLog[p])
      /\ Reconciles(worker[r], Snapshot(r))
  BY DEF IInv, Workers, WorkerOK, Busy
<1>2. podLog[p] \in Seq(PodObject) /\ Len(podLog[p]) \in Nat
  BY <1>1, LenProperties DEF IInv, Histories
<1>3. Grown(podLog[p], podLog'[p])
  BY <1>1 DEF Later
<1>4. worker[r].snap \in 1 .. Len(podLog'[p]) /\ Snapshot(r)' = Snapshot(r)
  BY <1>1, <1>2, <1>3 DEF Grown, Snapshot
<1>5. Snapshot(r) \in Pod
  <2>1. Snapshot(r) \in PodObject  BY <1>1, <1>2 DEF Snapshot
  <2>2. Gated(Snapshot(r))  BY <1>1 DEF Reconciles
  <2>3. QED  BY <2>1, <2>2 DEF PodObject, NoPod, Gated
<1>6. Reconciles(worker[r], Snapshot(r))'
  <2>1. Snapshot(r).images \subseteq Images
    BY <1>5 DEF Pod
  <2>2. \A image \in Snapshot(r).images : Vetted(p, image) => Vetted(p, image)'
    BY <1>1, <2>1, VettedStays DEF IInv
  <2>3. worker'[r].pc = "release" =>
           Snapshot(r)'.bypass \/ \A image \in Snapshot(r)'.images : Vetted(worker[r].key, image)'
    BY <1>1, <1>4, <2>2 DEF Reconciles, Vetted, ScanPassed
  <2>4. ASSUME NEW ref \in worker[r].refs, ScanPassed(ScanOf(p, ref[2]))
        PROVE  ScanPassed(ScanOf(p, ref[2]))'
    BY <1>1, <2>4, VettedStays, ScanOfType DEF IInv, Busy, Refs
  <2>5. worker'[r].pc \in {"check", "create"} =>
           \A ref \in worker'[r].refs \ worker'[r].left :
              \/ ScanOf(worker'[r].key, ref[2]) \in worker'[r].open
              \/ ScanPassed(ScanOf(worker[r].key, ref[2]))'
    BY <1>1, <2>4 DEF Reconciles, ScanPassed
  <2>6. worker'[r].refs \subseteq served'
    BY <1>1 DEF Reconciles, Later
  <2>7. QED  BY <1>1, <1>4, <2>3, <2>5, <2>6 DEF Reconciles
<1>7. QED  BY <1>4, <1>5, <1>6 DEF WorkerOK

LEMMA NothingWritten ==
    ASSUME IInv, UNCHANGED <<podLog, scanLog>>, served \subseteq served'
    PROVE  Histories' /\ Later
BY LenProperties DEF IInv, Histories, Later, Grown

LEMMA PodWritten ==
    ASSUME IInv, NEW p \in Pods, NEW o \in PodObject, WritesPod(p, o), UNCHANGED <<scanLog, served>>
    PROVE  Histories' /\ Later
<1>2. /\ podLog' \in [Pods -> Seq(PodObject)]
      /\ \A q \in Pods : Grown(podLog[q], podLog'[q]) /\ Len(podLog'[q]) >= 1
  BY PodWriteProperties
<1>3. \A k \in Scans : Grown(scanLog[k], scanLog'[k])
  BY LenProperties DEF IInv, Histories, Grown
<1>4. QED  BY <1>2, <1>3 DEF IInv, Histories, Later

LEMMA ScanWritten ==
    ASSUME IInv, NEW k \in Scans, NEW o \in ScanObject, WritesScan(k, o),
           UNCHANGED <<podLog, served>>
    PROVE  Histories' /\ Later
<1>2. /\ scanLog' \in [Scans -> Seq(ScanObject)]
      /\ \A j \in Scans : Grown(scanLog[j], scanLog'[j]) /\ Len(scanLog'[j]) >= 1
  BY ScanWriteProperties
<1>3. \A p \in Pods : Grown(podLog[p], podLog'[p])
  BY LenProperties DEF IInv, Histories, Grown
<1>4. QED  BY <1>2, <1>3 DEF IInv, Histories, Later

LEMMA CachesStay ==
    ASSUME IInv, Later, UNCHANGED <<podSeen, scanSeen>>
    PROVE  Caches'
<1>1. /\ podSeen \in [Replicas -> [Pods -> Nat]]
      /\ scanSeen \in [Replicas -> [Scans -> Nat]]
  BY DEF IInv, Caches
<1>2. ASSUME NEW r \in Replicas, NEW p \in Pods  PROVE podSeen[r][p] \in 1 .. Len(podLog'[p])
  <2>1. podSeen[r][p] \in 1 .. Len(podLog[p]) /\ Len(podLog[p]) \in Nat
    BY LenProperties DEF IInv, Caches, Histories
  <2>2. QED  BY <2>1 DEF Later, Grown
<1>3. ASSUME NEW r \in Replicas, NEW k \in Scans  PROVE scanSeen[r][k] \in 1 .. Len(scanLog'[k])
  <2>1. scanSeen[r][k] \in 1 .. Len(scanLog[k]) /\ Len(scanLog[k]) \in Nat
    BY LenProperties DEF IInv, Caches, Histories
  <2>2. QED  BY <2>1 DEF Later, Grown
<1>4. QED  BY <1>1, <1>2, <1>3 DEF Caches

LEMMA WorldStays ==
    ASSUME IInv, UNCHANGED <<tag, served, scanLog>>, restarts' \in Nat, moves' \in Nat
    PROVE  World'
BY DEF IInv, World

LEMMA WorldAfterWrite ==
    ASSUME IInv, UNCHANGED <<tag, served, restarts, moves>>,
           NEW k \in Scans, NEW o \in ScanObject, WritesScan(k, o),
           o # NoObject => <<o.image, k[2]>> \in served
    PROVE  World'
<1>2. /\ \A j \in Scans : j # k => scanLog'[j] = scanLog[j]
      /\ Grown(scanLog[k], scanLog'[k])
      /\ \A v \in 1 .. Len(scanLog'[k]) : v \in 1 .. Len(scanLog[k]) \/ scanLog'[k][v] = o
  BY ScanWriteProperties
<1>3. ASSUME NEW j \in Scans, NEW v \in 1 .. Len(scanLog'[j]), scanLog'[j][v] # NoObject
      PROVE  <<scanLog'[j][v].image, j[2]>> \in served'
  <2>1. CASE j # k  BY <1>2, <1>3, <2>1 DEF IInv, World
  <2>2. CASE j = k /\ v \in 1 .. Len(scanLog[k])
    BY <1>2, <1>3, <2>2 DEF IInv, World, Grown
  <2>3. CASE j = k /\ scanLog'[k][v] = o
    BY <1>3, <2>3
  <2>4. QED  BY <1>2, <2>1, <2>2, <2>3
<1>4. QED  BY <1>3 DEF IInv, World

LEMMA WorkersStay ==
    ASSUME IInv, Later, UNCHANGED worker
    PROVE  Workers'
<1>1. \A r \in Replicas : WorkerOK(r)'
  <2> TAKE r \in Replicas
  <2>1. CASE worker[r] = Idle  BY <2>1 DEF WorkerOK
  <2>2. CASE worker[r] # Idle  BY <2>2, WorkerStays
  <2>3. QED  BY <2>1, <2>2
<1>2. QED  BY <1>1 DEF IInv, Workers

\* Only the worker of r has gone on.
LEMMA WorkersGoOn ==
    ASSUME IInv, Later, NEW r \in Replicas, NEW w \in Busy \cup {Idle},
           worker' = [worker EXCEPT ![r] = w], WorkerOK(r)'
    PROVE  Workers'
<1>1. worker \in [Replicas -> Busy \cup {Idle}]  BY DEF IInv, Workers
<1>2. \A q \in Replicas : q # r => worker'[q] = worker[q]
  BY <1>1
<1>3. \A q \in Replicas : WorkerOK(q)'
  <2> TAKE q \in Replicas
  <2>1. CASE q = r  BY <2>1
  <2>2. CASE q # r /\ worker[q] = Idle  BY <1>2, <2>2 DEF WorkerOK
  <2>3. CASE q # r /\ worker[q] # Idle  BY <1>2, <2>3, WorkerStays
  <2>4. QED  BY <2>1, <2>2, <2>3
<1>4. worker' \in [Replicas -> Busy \cup {Idle}]  BY <1>1
<1>5. QED  BY <1>3, <1>4 DEF Workers

LEMMA WorkersIdle ==
    ASSUME IInv, Later, NEW r \in Replicas, worker' = [worker EXCEPT ![r] = Idle]
    PROVE  Workers'
<1>1. worker'[r] = Idle  BY DEF IInv, Workers
<1>2. WorkerOK(r)'  BY <1>1 DEF WorkerOK
<1>3. QED  BY <1>2, WorkersGoOn

\* A version that was justified when it was written remains so.
LEMMA JustifiedStays ==
    ASSUME IInv, Later, NEW p \in Pods, NEW v \in 2 .. Len(podLog[p])
    PROVE  /\ podLog'[p][v - 1] = podLog[p][v - 1] /\ podLog'[p][v] = podLog[p][v]
           /\ \/ ~Gated(podLog[p][v - 1]) \/ podLog[p][v] = NoPod \/ Gated(podLog[p][v])
              \/ podLog[p][v].bypass
              \/ \A image \in podLog[p][v].images : Vetted(p, image)'
<1>1. podLog[p] \in Seq(PodObject) /\ Len(podLog[p]) \in Nat
  BY LenProperties DEF IInv, Histories
<1>2. v - 1 \in 1 .. Len(podLog[p]) /\ v \in 1 .. Len(podLog[p])
  BY <1>1
<1>3. podLog[p][v] = NoPod \/ podLog[p][v].images \subseteq Images
  BY <1>1, <1>2 DEF PodObject, Pod
<1>4. QED  BY <1>2, <1>3, VettedStays DEF IInv, ReleaseJustified, Later, Grown

LEMMA JustifiedUnwritten ==
    ASSUME IInv, Later, UNCHANGED podLog
    PROVE  ReleaseJustified'
BY JustifiedStays DEF ReleaseJustified

LEMMA JustifiedWrite ==
    ASSUME IInv, Later, NEW p \in Pods, NEW o \in PodObject, WritesPod(p, o),
           \/ ~Gated(Latest(podLog[p])) \/ o = NoPod \/ Gated(o)
           \/ o.bypass \/ \A image \in o.images : Vetted(p, image)'
    PROVE  ReleaseJustified'
<1>1. podLog \in [Pods -> Seq(PodObject)] /\ \A q \in Pods : Len(podLog[q]) >= 1
  BY DEF IInv, Histories
<1>2. /\ \A q \in Pods : q # p => podLog'[q] = podLog[q]
      /\ \A v \in 1 .. Len(podLog'[p]) :
            \/ v \in 1 .. Len(podLog[p])
            \/ /\ v = Len(podLog[p]) + 1
               /\ podLog'[p][v] = o /\ podLog'[p][v - 1] = Latest(podLog[p])
  BY PodWriteProperties
<1>3. \A q \in Pods : Len(podLog'[q]) \in Nat /\ Len(podLog[q]) \in Nat
  BY <1>1, LenProperties DEF Later, Grown
<1>4. ASSUME NEW q \in Pods, NEW v \in 2 .. Len(podLog'[q])
      PROVE  \/ ~Gated(podLog'[q][v - 1]) \/ podLog'[q][v] = NoPod \/ Gated(podLog'[q][v])
             \/ podLog'[q][v].bypass
             \/ \A image \in podLog'[q][v].images : Vetted(q, image)'
  <2>1. CASE q # p
    BY <1>2, <2>1, JustifiedStays
  <2>2. CASE q = p /\ v \in 1 .. Len(podLog[p])
    BY <1>3, <2>2, JustifiedStays
  <2>3. CASE q = p /\ podLog'[p][v] = o /\ podLog'[p][v - 1] = Latest(podLog[p])
    BY <2>3
  <2>4. QED  BY <1>2, <1>3, <2>1, <2>2, <2>3
<1>5. QED  BY <1>4 DEF ReleaseJustified

-----------------------------------------------------------------------------
(* The steps of a reconcile keep the invariant *)

\* What is known of a reconcile in progress.
LEMMA BusyProperties ==
    ASSUME IInv, NEW r \in Replicas,
           worker[r].pc \in {"build", "resolve", "check", "create", "release"}
    PROVE  /\ worker[r] # Idle /\ worker[r] \in Busy
           /\ worker[r].key \in Pods /\ <<r, worker[r].key>> \in Replicas \X Pods
           /\ worker[r].snap \in 1 .. Len(podLog[worker[r].key]) /\ worker[r].snap \in Nat
           /\ Snapshot(r) \in Pod /\ Snapshot(r).images \subseteq Images
           /\ Reconciles(worker[r], Snapshot(r))
<1>1. worker[r] # Idle
  BY DEF Idle
<1>2. worker[r] \in Busy /\ WorkerOK(r)
  BY <1>1 DEF IInv, Workers
<1>3. worker[r].key \in Pods /\ <<r, worker[r].key>> \in Replicas \X Pods /\ worker[r].snap \in Nat
  BY <1>2 DEF Busy
<1>4. /\ worker[r].snap \in 1 .. Len(podLog[worker[r].key])
      /\ Reconciles(worker[r], Snapshot(r))
  BY <1>1, <1>2 DEF WorkerOK
<1>5. Snapshot(r) \in Pod
  <2>1. podLog[worker[r].key] \in Seq(PodObject)
    BY <1>3 DEF IInv, Histories
  <2>2. Snapshot(r) \in PodObject
    BY <1>4, <2>1 DEF Snapshot
  <2>3. Gated(Snapshot(r))
    BY <1>4 DEF Reconciles
  <2>4. QED  BY <2>2, <2>3 DEF PodObject, NoPod, Gated
<1>6. Snapshot(r).images \subseteq Images
  BY <1>5 DEF Pod
<1>7. QED  BY <1>1, <1>2, <1>3, <1>4, <1>5, <1>6

\* A worker that goes on with the same pod keeps its snapshot.
LEMMA SnapshotStays ==
    ASSUME IInv, Later, NEW r \in Replicas,
           worker[r].pc \in {"build", "resolve", "check", "create", "release"},
           NEW w \in Busy, worker' = [worker EXCEPT ![r] = w],
           w.key = worker[r].key, w.snap = worker[r].snap
    PROVE  /\ worker'[r] = w
           /\ worker'[r].snap \in 1 .. Len(podLog'[worker'[r].key])
           /\ Snapshot(r)' = Snapshot(r)
<1>1. worker'[r] = w
  BY DEF IInv, Workers
<1>2. podLog[worker[r].key] \in Seq(PodObject) /\ Len(podLog[worker[r].key]) \in Nat
  BY BusyProperties, LenProperties DEF IInv, Histories
<1>3. Grown(podLog[worker[r].key], podLog'[worker[r].key])
  BY BusyProperties DEF Later
<1>4. worker[r].snap \in 1 .. Len(podLog[worker[r].key])
  BY BusyProperties
<1>5. /\ worker[r].snap \in 1 .. Len(podLog'[worker[r].key])
      /\ podLog'[worker[r].key][worker[r].snap] = podLog[worker[r].key][worker[r].snap]
  BY <1>2, <1>3, <1>4 DEF Grown
<1>6. QED  BY <1>1, <1>5 DEF Snapshot

\* Steps that write no object, and that change nothing but queues and workers.
LEMMA Unwritten ==
    ASSUME IInv, UNCHANGED <<podVars, scanVars, tagVars, restarts>>, Queues', Workers'
    PROVE  IInv'
<1>1. Histories' /\ Later
  BY NothingWritten DEF podVars, scanVars, tagVars
<1>2. Caches'
  BY <1>1, CachesStay DEF podVars, scanVars
<1>3. World'
  BY WorldStays DEF IInv, World, scanVars, tagVars
<1>4. ReleaseJustified'
  BY <1>1, JustifiedUnwritten DEF podVars
<1>5. QED  BY <1>1, <1>2, <1>3, <1>4 DEF IInv

LEMMA LaterUnwritten ==
    ASSUME IInv, UNCHANGED <<podVars, scanVars, tagVars>>
    PROVE  Later
BY NothingWritten DEF podVars, scanVars, tagVars

LEMMA OnlyQueues ==
    ASSUME IInv, UNCHANGED <<podVars, scanVars, tagVars, worker, restarts>>, Queues'
    PROVE  IInv'
BY Unwritten, LaterUnwritten, WorkersStay

LEMMA DequeueOK ==
    ASSUME IInv, NEW r \in Replicas, NEW p \in Pods, Dequeue(r, p), UNCHANGED <<delayed, notices>>
    PROVE  Queues'
BY DEF IInv, Queues, Dequeue

LEMMA SkipOK ==
    ASSUME IInv, NEW r \in Replicas, NEW p \in Pods, Skip(r, p)
    PROVE  IInv'
BY OnlyQueues, DequeueOK DEF Skip

LEMMA CachedPodType ==
    ASSUME IInv, NEW r \in Replicas, NEW p \in Pods
    PROVE  /\ CachedPod(r, p) \in PodObject
           /\ podSeen[r][p] \in 1 .. Len(podLog[p]) /\ podSeen[r][p] \in Nat
           /\ Len(podLog[p]) \in Nat
           /\ Gated(CachedPod(r, p)) => CachedPod(r, p) \in Pod
<1>1. podLog[p] \in Seq(PodObject) /\ Len(podLog[p]) \in Nat
  BY LenProperties DEF IInv, Histories
<1>2. podSeen[r][p] \in 1 .. Len(podLog[p]) /\ podSeen[r][p] \in Nat
  BY DEF IInv, Caches
<1>3. CachedPod(r, p) \in PodObject
  BY <1>1, <1>2 DEF CachedPod
<1>4. QED  BY <1>1, <1>2, <1>3 DEF PodObject, NoPod, Gated

LEMMA BeginOK ==
    ASSUME IInv, NEW r \in Replicas, NEW p \in Pods, Begin(r, p)
    PROVE  IInv'
<1> DEFINE w == [pc |-> IF CachedPod(r, p).bypass \/ CachedPod(r, p).images = {}
                        THEN "release" ELSE "build",
                 key |-> p, snap |-> podSeen[r][p], todo |-> {}, refs |-> {},
                 left |-> {}, missing |-> {}, open |-> {}]
<1>1. /\ Dequeue(r, p) /\ ~Ignored(r, p)
      /\ worker' = [worker EXCEPT ![r] = w]
      /\ UNCHANGED <<podVars, scanVars, tagVars, restarts>> /\ UNCHANGED <<delayed, notices>>
  BY DEF Begin
<1>2. Later  BY <1>1, LaterUnwritten
<1>3. w \in Busy
  BY CachedPodType DEF Busy
<1>4. /\ w.key = p /\ w.snap = podSeen[r][p] /\ w.todo = {} /\ w.refs = {} /\ w.left = {}
      /\ w.missing = {} /\ w.open = {} /\ w.pc \in {"release", "build"}
      /\ w.pc = "release" => CachedPod(r, p).bypass \/ CachedPod(r, p).images = {}
  OBVIOUS
<1> HIDE DEF w
<1>5. worker'[r] = w
  BY <1>1 DEF IInv, Workers
<1>6. podLog' = podLog /\ Snapshot(r)' = CachedPod(r, p)
  BY <1>1, <1>4, <1>5 DEF Snapshot, CachedPod, podVars
<1>7. Reconciles(worker[r], Snapshot(r))'
  BY <1>1, <1>4, <1>5, <1>6 DEF Reconciles, Ignored
<1>8. WorkerOK(r)'
  BY <1>4, <1>5, <1>6, <1>7, CachedPodType DEF WorkerOK
<1>9. Workers'
  BY <1>1, <1>2, <1>3, <1>8, WorkersGoOn
<1>10. QED  BY <1>1, <1>9, DequeueOK, Unwritten

\* The worker goes on to resolve images, or to check them.
LEMMA ResolvingOK ==
    ASSUME IInv, NEW r \in Replicas, worker[r].pc \in {"build", "resolve"},
           UNCHANGED <<podVars, scanVars, tagVars, queue, delayed, notices, waiting, restarts>>,
           NEW todo \in SUBSET Snapshot(r).images, NEW refs \in SUBSET served,
           \A ref \in refs : ref[1] \in Snapshot(r).images,
           \A image \in Snapshot(r).images \ todo : \E d \in Digests : <<image, d>> \in refs,
           Resolving(r, todo, refs)
    PROVE  IInv'
<1> DEFINE w == [pc |-> IF todo = {} THEN "check" ELSE "resolve",
                 key |-> worker[r].key, snap |-> worker[r].snap, todo |-> todo, refs |-> refs,
                 left |-> IF todo = {} THEN refs ELSE {}, missing |-> {}, open |-> {}]
<1>1. worker' = [worker EXCEPT ![r] = w]
  BY DEF Resolving
<1>2. Later  BY LaterUnwritten
<1>3. refs \subseteq Refs /\ todo \subseteq Images
  BY BusyProperties DEF IInv, World
<1>4. w \in Busy
  BY <1>3, BusyProperties DEF Busy
<1>5. /\ w.key = worker[r].key /\ w.snap = worker[r].snap /\ w.todo = todo /\ w.refs = refs
      /\ w.missing = {} /\ w.open = {} /\ w.pc \in {"check", "resolve"}
      /\ w.left \subseteq refs /\ (w.pc = "check" => todo = {} /\ w.left = refs)
  OBVIOUS
<1> HIDE DEF w
<1>6. /\ worker'[r] = w
      /\ worker'[r].snap \in 1 .. Len(podLog'[worker'[r].key])
      /\ Snapshot(r)' = Snapshot(r)
  BY <1>1, <1>2, <1>4, <1>5, SnapshotStays
<1>7. Gated(Snapshot(r)) /\ ~Excluded(w.key)
  BY <1>5, BusyProperties DEF Reconciles
<1>8. Reconciles(worker[r], Snapshot(r))'
  BY <1>5, <1>6, <1>7 DEF Reconciles, tagVars
<1>9. WorkerOK(r)'
  BY <1>6, <1>8 DEF WorkerOK
<1>10. Workers'
  BY <1>1, <1>2, <1>4, <1>9, WorkersGoOn
<1>11. Queues'
  BY DEF IInv, Queues
<1>12. QED  BY <1>10, <1>11, Unwritten

LEMMA BuildResolverOK ==
    ASSUME IInv, NEW r \in Replicas, BuildResolver(r)
    PROVE  IInv'
<1> DEFINE todo == Snapshot(r).images \ PinnedImages
           refs == {<<i, tag[i]>> : i \in Snapshot(r).images \cap PinnedImages}
<1>1. worker[r].pc = "build" /\ Resolving(r, todo, refs)
  BY DEF BuildResolver
<1>2. Snapshot(r).images \subseteq Images
  BY <1>1, BusyProperties
<1>3. todo \in SUBSET Snapshot(r).images /\ refs \in SUBSET served
  BY <1>2 DEF IInv, World
<1>4. \A ref \in refs : ref[1] \in Snapshot(r).images
  OBVIOUS
<1>5. \A image \in Snapshot(r).images \ todo : \E d \in Digests : <<image, d>> \in refs
  BY <1>2 DEF IInv, World
<1> HIDE DEF todo, refs
<1>6. QED  BY <1>1, <1>3, <1>4, <1>5, ResolvingOK DEF BuildResolver

LEMMA ResolveImageOK ==
    ASSUME IInv, NEW r \in Replicas, NEW i \in Images, ResolveImage(r, i)
    PROVE  IInv'
<1> DEFINE todo == worker[r].todo \ {i}
           refs == worker[r].refs \cup {<<i, tag[i]>>}
<1>1. worker[r].pc = "resolve" /\ i \in worker[r].todo /\ Resolving(r, todo, refs)
  BY DEF ResolveImage
<1>2. Reconciles(worker[r], Snapshot(r)) /\ Snapshot(r).images \subseteq Images
  BY <1>1, BusyProperties
<1>3. todo \in SUBSET Snapshot(r).images /\ refs \in SUBSET served
  BY <1>2 DEF IInv, World, Reconciles
<1>4. \A ref \in refs : ref[1] \in Snapshot(r).images
  BY <1>1, <1>2 DEF Reconciles
<1>5. ASSUME NEW image \in Snapshot(r).images \ todo
      PROVE  \E d \in Digests : <<image, d>> \in refs
  <2>1. CASE image = i
    BY <2>1 DEF IInv, World
  <2>2. CASE image # i
    BY <1>1, <1>2, <2>2 DEF Reconciles
  <2>3. QED  BY <2>1, <2>2
<1> HIDE DEF todo, refs
<1>6. QED  BY <1>1, <1>3, <1>4, <1>5, ResolvingOK DEF ResolveImage

LEMMA TryAgainQueues ==
    ASSUME IInv, NEW r \in Replicas,
           worker[r].pc \in {"build", "resolve", "check", "create", "release"},
           TryAgain(r), UNCHANGED <<queue, notices, waiting>>
    PROVE  Queues'
BY BusyProperties DEF IInv, Queues, TryAgain

LEMMA ResolveFailsOK ==
    ASSUME IInv, NEW r \in Replicas, ResolveFails(r)
    PROVE  IInv'
<1>1. Queues'
  BY TryAgainQueues DEF ResolveFails
<1>2. Workers'
  BY LaterUnwritten, WorkersIdle DEF ResolveFails, TryAgain
<1>3. QED  BY <1>1, <1>2, Unwritten DEF ResolveFails

\* The worker goes on with the check: every image it is done with has its
\* ImageScan among the open ones or among those that passed.
LEMMA CheckingOK ==
    ASSUME IInv, Later, served' = served, NEW r \in Replicas, worker[r].pc \in {"check", "create"},
           NEW left \in SUBSET worker[r].left, NEW missing \in SUBSET left, NEW open \in SUBSET Scans,
           \A k \in open : \E ref \in worker[r].refs : k = ScanOf(worker[r].key, ref[2]),
           \A ref \in worker[r].refs \ left :
              LET k == ScanOf(worker[r].key, ref[2]) IN k \in open \/ ScanPassed(k),
           NEW next \in {"check", "create", "release"},
           next = "release" => left = {} /\ open = {},
           Checking(r, next, left, missing, open)
    PROVE  Workers'
<1> DEFINE w == [pc |-> next, key |-> worker[r].key, snap |-> worker[r].snap,
                 todo |-> {}, refs |-> worker[r].refs, left |-> left,
                 missing |-> missing, open |-> open]
<1>1. worker' = [worker EXCEPT ![r] = w]
  BY DEF Checking
<1>2. Reconciles(worker[r], Snapshot(r)) /\ Snapshot(r).images \subseteq Images
  BY BusyProperties
<1>3. worker[r] \in Busy
  BY BusyProperties
<1>4. w \in Busy
  <2>1. worker[r].left \subseteq Refs
    BY <1>3 DEF Busy
  <2>2. left \subseteq Refs /\ missing \subseteq Refs
    BY <2>1
  <2>3. QED  BY <1>3, <2>2 DEF Busy
<1>5. /\ w.key = worker[r].key /\ w.snap = worker[r].snap /\ w.todo = {} /\ w.refs = worker[r].refs
      /\ w.left = left /\ w.missing = missing /\ w.open = open /\ w.pc = next
  OBVIOUS
<1> HIDE DEF w
<1>6. /\ worker'[r] = w
      /\ worker'[r].snap \in 1 .. Len(podLog'[worker'[r].key])
      /\ Snapshot(r)' = Snapshot(r)
  BY <1>1, <1>4, <1>5, SnapshotStays
<1>7. PICK key \in Pods : key = worker[r].key
  BY <1>3 DEF Busy
<1>8. ASSUME NEW ref \in worker[r].refs, ScanPassed(ScanOf(key, ref[2]))
      PROVE  ScanPassed(ScanOf(key, ref[2]))'
  <2>1. ScanOf(key, ref[2]) \in Scans
    BY <1>3, ScanOfType DEF Refs, Busy
  <2>2. QED  BY <1>8, <2>1, VettedStays DEF IInv
<1>9. \A ref \in worker[r].refs \ left :
         ScanOf(key, ref[2]) \in open \/ ScanPassed(ScanOf(key, ref[2]))'
  BY <1>7, <1>8
<1>10. /\ worker[r].todo = {}
       /\ \A image \in Snapshot(r).images : \E d \in Digests : <<image, d>> \in worker[r].refs
       /\ \A ref \in worker[r].refs : ref[1] \in Snapshot(r).images
       /\ worker[r].refs \subseteq served /\ worker[r].left \subseteq worker[r].refs
       /\ Gated(Snapshot(r)) /\ ~Excluded(worker[r].key)
  BY <1>2 DEF Reconciles
<1>11. ASSUME next = "release", NEW image \in Snapshot(r).images
       PROVE  \E d \in Digests : <<image, d>> \in served' /\ ScanPassed(ScanOf(key, d))'
  <2>1. PICK d \in Digests : <<image, d>> \in worker[r].refs
    BY <1>10
  <2>2. ScanPassed(ScanOf(key, d))'
    BY <1>9, <1>11, <2>1
  <2>3. QED  BY <1>10, <2>1, <2>2
<1>12. Reconciles(worker[r], Snapshot(r))'
  <2>1. w.pc = "release" =>
           \A image \in Snapshot(r)'.images :
              \E d \in Digests : <<image, d>> \in served' /\ ScanPassed(ScanOf(key, d))'
    BY <1>5, <1>6, <1>11
  <2>2. w.pc \in {"check", "create"} =>
           /\ w.todo = {}
           /\ \A ref \in w.refs \ w.left :
                 ScanOf(key, ref[2]) \in w.open \/ ScanPassed(ScanOf(key, ref[2]))'
    BY <1>5, <1>7, <1>9
  <2>3. w.left \subseteq w.refs /\ w.missing \subseteq w.left /\ w.refs \subseteq served'
    BY <1>5, <1>10
  <2>4. \A k \in w.open : \E ref \in w.refs : k = ScanOf(key, ref[2])
    BY <1>5, <1>7
  <2>5. \A ref \in w.refs : ref[1] \in Snapshot(r)'.images
    BY <1>5, <1>6, <1>10
  <2>6. \A image \in Snapshot(r)'.images : \E d \in Digests : <<image, d>> \in w.refs
    BY <1>5, <1>6, <1>10
  <2>7. Gated(Snapshot(r)') /\ ~Excluded(w.key) /\ w.todo = {}
    BY <1>5, <1>6, <1>10
  <2>8. worker'[r].key = key
    BY <1>5, <1>6, <1>7
  <2>9. worker'[r].pc = "release" => \A image \in Snapshot(r)'.images : Vetted(worker[r].key, image)'
    BY <1>6, <2>1, <2>8 DEF Vetted, ScanPassed
  <2>10. worker'[r].pc # "resolve"
    BY <1>5, <1>6
  <2>11. worker'[r].pc \in {"check", "create"} =>
            (\A ref \in worker[r].refs \ worker[r].left :
                LET k == ScanOf(worker[r].key, ref[2]) IN k \in worker[r].open \/ ScanPassed(k))'
    BY <1>6, <2>2, <2>8 DEF ScanPassed
  <2>12. QED
    BY <1>6, <2>3, <2>4, <2>5, <2>6, <2>7, <2>8, <2>9, <2>10, <2>11 DEF Reconciles
<1>13. WorkerOK(r)'
  BY <1>6, <1>12 DEF WorkerOK
<1>14. QED  BY <1>1, <1>4, <1>13, WorkersGoOn

LEMMA SettleOK ==
    ASSUME IInv, Later, served' = served, NEW r \in Replicas, worker[r].pc \in {"check", "create"},
           NEW ref \in worker[r].left, NEW open,
           \/ open = worker[r].open /\ ScanPassed(ScanOf(worker[r].key, ref[2]))
           \/ open = worker[r].open \cup {ScanOf(worker[r].key, ref[2])},
           Settle(r, ref, open)
    PROVE  Workers' /\ waiting' \in [Replicas -> [Pods -> SUBSET Scans]]
<1> DEFINE rest == worker[r].left \ {ref}
<1>1. Reconciles(worker[r], Snapshot(r)) /\ worker[r] \in Busy
  BY BusyProperties
<1>2. PICK key \in Pods : key = worker[r].key
  BY <1>1 DEF Busy
<1>3. PICK k \in Scans : k = ScanOf(key, ref[2])
  BY <1>1, ScanOfType DEF Busy, Refs
<1>4. ref \in worker[r].refs
  BY <1>1 DEF Reconciles
<1>5. \A ref2 \in worker[r].refs \ worker[r].left :
         ScanOf(key, ref2[2]) \in worker[r].open \/ ScanPassed(ScanOf(key, ref2[2]))
  BY <1>1, <1>2 DEF Reconciles
<1>6. open \in SUBSET Scans /\ worker[r].open \subseteq open
  BY <1>1, <1>2, <1>3 DEF Busy
<1>7. \A j \in open : \E ref2 \in worker[r].refs : j = ScanOf(worker[r].key, ref2[2])
  BY <1>1, <1>2, <1>3, <1>4 DEF Reconciles
<1>8. ASSUME NEW ref2 \in worker[r].refs \ rest
      PROVE  ScanOf(worker[r].key, ref2[2]) \in open \/ ScanPassed(ScanOf(worker[r].key, ref2[2]))
  <2>1. CASE ref2 = ref  BY <2>1
  <2>2. CASE ref2 # ref  BY <1>2, <1>5, <1>6, <1>8, <2>2
  <2>3. QED  BY <2>1, <2>2
<1>9. rest \in SUBSET worker[r].left
  OBVIOUS
<1>10. waiting \in [Replicas -> [Pods -> SUBSET Scans]]
  BY DEF IInv, Queues
<1> HIDE DEF rest
<1>11. CASE rest = {} /\ open # {}
  <2>1. /\ worker' = [worker EXCEPT ![r] = Idle]
        /\ waiting' = [waiting EXCEPT ![r][worker[r].key] = open]
    BY <1>11 DEF Settle, rest
  <2>2. waiting' = [waiting EXCEPT ![r] = [waiting[r] EXCEPT ![key] = open]]
    BY <1>2, <1>10, <2>1
  <2>3. waiting' \in [Replicas -> [Pods -> SUBSET Scans]]
    BY <1>6, <1>10, <2>2
  <2>4. QED  BY <2>1, <2>3, WorkersIdle
<1>12. CASE rest # {} \/ open = {}
  <2>1. /\ Checking(r, IF rest = {} THEN "release" ELSE "check", rest, {}, open)
        /\ UNCHANGED waiting
    BY <1>12 DEF Settle, rest
  <2>2. Workers'
    BY <1>6, <1>7, <1>8, <1>9, <1>12, <2>1, CheckingOK
  <2>3. QED  BY <1>10, <2>1, <2>2
<1>13. QED  BY <1>11, <1>12

LEMMA CachedScanType ==
    ASSUME IInv, NEW r \in Replicas, NEW k \in Scans
    PROVE  /\ CachedScan(r, k) \in ScanObject
           /\ scanSeen[r][k] \in 1 .. Len(scanLog[k]) /\ scanSeen[r][k] \in Nat
           /\ Len(scanLog[k]) \in Nat
           /\ CachedScan(r, k).phase = "Registered" => ScanPassed(k)
<1>1. scanLog[k] \in Seq(ScanObject) /\ Len(scanLog[k]) \in Nat
  BY LenProperties DEF IInv, Histories
<1>2. scanSeen[r][k] \in 1 .. Len(scanLog[k]) /\ scanSeen[r][k] \in Nat
  BY DEF IInv, Caches
<1>3. CachedScan(r, k) \in ScanObject
  BY <1>1, <1>2 DEF CachedScan
<1>4. QED  BY <1>1, <1>2, <1>3 DEF CachedScan, ScanPassed

LEMMA CheckScanOK ==
    ASSUME IInv, NEW r \in Replicas, NEW ref \in Refs, CheckScan(r, ref)
    PROVE  IInv'
<1>1. /\ worker[r].pc = "check" /\ ref \in worker[r].left
      /\ UNCHANGED <<podVars, scanVars, tagVars, queue, delayed, notices, restarts>>
  BY DEF CheckScan
<1>2. /\ worker[r] \in Busy /\ worker[r].key \in Pods
      /\ Reconciles(worker[r], Snapshot(r))
  BY <1>1, BusyProperties
<1>3. PICK k \in Scans : k = ScanOf(worker[r].key, ref[2])
  BY <1>2, ScanOfType DEF Refs
<1>4. Later /\ served' = served
  BY <1>1, LaterUnwritten DEF tagVars
<1>5. Workers' /\ waiting' \in [Replicas -> [Pods -> SUBSET Scans]]
  <2>1. CASE Checking(r, "create", worker[r].left, {ref}, worker[r].open) /\ UNCHANGED waiting
    <3>1. /\ worker[r].open \in SUBSET Scans
          /\ \A j \in worker[r].open : \E ref2 \in worker[r].refs : j = ScanOf(worker[r].key, ref2[2])
          /\ \A ref2 \in worker[r].refs \ worker[r].left :
                LET j == ScanOf(worker[r].key, ref2[2]) IN j \in worker[r].open \/ ScanPassed(j)
      BY <1>1, <1>2 DEF Reconciles, Busy
    <3>2. Workers'
      BY <1>1, <1>4, <2>1, <3>1, CheckingOK
    <3>3. QED  BY <2>1, <3>2 DEF IInv, Queues
  <2>2. CASE CachedScan(r, k).phase = "Registered" /\ Settle(r, ref, worker[r].open)
    <3>1. ScanPassed(ScanOf(worker[r].key, ref[2]))
      BY <1>3, <2>2, CachedScanType
    <3>2. QED  BY <1>1, <1>4, <2>2, <3>1, SettleOK
  <2>3. CASE Settle(r, ref, worker[r].open \cup {k})
    BY <1>1, <1>3, <1>4, <2>3, SettleOK
  <2>4. QED  BY <1>3, <2>1, <2>2, <2>3 DEF CheckScan
<1>6. Queues'
  BY <1>1, <1>5 DEF IInv, Queues
<1>7. QED  BY <1>1, <1>5, <1>6, Unwritten

\* Steps that write no object but an ImageScan: one that does not exist, or
\* one for an image that was served with the digest.
LEMMA OneScanWritten ==
    ASSUME IInv, UNCHANGED <<podVars, scanSeen, tagVars, restarts>>, NEW k \in Scans,
           NEW o \in ScanObject, o # NoObject => <<o.image, k[2]>> \in served, WritesScan(k, o),
           Queues', Workers'
    PROVE  IInv'
<1>1. Histories' /\ Later
  BY ScanWritten DEF podVars, tagVars
<1>2. Caches'
  BY <1>1, CachesStay DEF podVars
<1>3. World'
  BY WorldAfterWrite DEF IInv, tagVars
<1>4. ReleaseJustified'
  BY <1>1, JustifiedUnwritten DEF podVars
<1>5. QED  BY <1>1, <1>2, <1>3, <1>4 DEF IInv

\* The ImageScan that a reconcile creates is that of an image it resolved.
LEMMA NewScanProperties ==
    ASSUME IInv, NEW r \in Replicas, worker[r].pc \in {"check", "create"},
           NEW ref \in worker[r].missing
    PROVE  /\ ref \in worker[r].left /\ ref \in Refs /\ worker[r].open \in SUBSET Scans
           /\ ScanOf(worker[r].key, ref[2]) \in Scans
           /\ NewScan(ref[1]) \in ScanObject /\ NewScan(ref[1]) # NoObject
           /\ <<NewScan(ref[1]).image, ScanOf(worker[r].key, ref[2])[2]>> \in served
<1>1. /\ worker[r] \in Busy /\ worker[r].key \in Pods
      /\ Reconciles(worker[r], Snapshot(r))
  BY BusyProperties
<1>2. ref \in Refs /\ ref \in served /\ ref \in worker[r].left /\ worker[r].open \in SUBSET Scans
  BY <1>1 DEF Reconciles, Busy
<1>3. ScanOf(worker[r].key, ref[2]) \in Scans /\ ScanOf(worker[r].key, ref[2])[2] = ref[2]
  BY <1>1, <1>2, ScanOfType DEF Refs
<1>4. NewScan(ref[1]) \in Scan /\ NewScan(ref[1]).image = ref[1] /\ NewScan(ref[1]) # NoObject
  BY <1>2 DEF NewScan, Scan, Phases, Refs, NoObject
<1>5. <<ref[1], ref[2]>> = ref
  BY <1>2 DEF Refs
<1>6. QED  BY <1>2, <1>3, <1>4, <1>5 DEF ScanObject

LEMMA CreateScanOK ==
    ASSUME IInv, NEW r \in Replicas, CreateScan(r)
    PROVE  IInv'
<1>1. worker[r].pc = "create" /\ UNCHANGED <<podVars, scanSeen, tagVars, queue, delayed, notices, restarts>>
  BY DEF CreateScan
<1>2. PICK ref \in worker[r].missing :
         /\ \/ StoreNewScan(ScanOf(worker[r].key, ref[2]), ref[1])
            \/ Latest(scanLog[ScanOf(worker[r].key, ref[2])]) # NoObject /\ UNCHANGED scanLog
         /\ Settle(r, ref, worker[r].open \cup {ScanOf(worker[r].key, ref[2])})
  BY DEF CreateScan
<1>3. PICK k \in Scans : k = ScanOf(worker[r].key, ref[2])
  BY <1>1, NewScanProperties
<1>4. PICK new \in ScanObject : new = NewScan(ref[1])
  BY <1>1, NewScanProperties
<1>5. new # NoObject => <<new.image, k[2]>> \in served
  BY <1>1, <1>3, <1>4, NewScanProperties
<1>6. ref \in worker[r].left /\ served' = served
  BY <1>1, NewScanProperties DEF tagVars
<1>7. ASSUME Later  PROVE Workers' /\ Queues'
  <2>1. Workers' /\ waiting' \in [Replicas -> [Pods -> SUBSET Scans]]
    BY <1>1, <1>2, <1>6, <1>7, SettleOK
  <2>2. QED  BY <1>1, <2>1 DEF IInv, Queues
<1>8. CASE UNCHANGED scanLog
  <2>1. UNCHANGED <<podVars, scanVars, tagVars, restarts>>
    BY <1>1, <1>8 DEF scanVars
  <2>2. QED  BY <1>7, <2>1, LaterUnwritten, Unwritten
<1>9. CASE WritesScan(k, new)
  <2>1. Later
    BY <1>1, <1>9, ScanWritten DEF podVars, tagVars
  <2>2. QED  BY <1>1, <1>5, <1>7, <1>9, <2>1, OneScanWritten
<1>10. QED  BY <1>2, <1>3, <1>4, <1>8, <1>9 DEF StoreNewScan, WritesScan

LEMMA CreateFailsOK ==
    ASSUME IInv, NEW r \in Replicas, CreateFails(r)
    PROVE  IInv'
<1>1. /\ worker[r].pc \in {"check", "create"} /\ TryAgain(r)
      /\ UNCHANGED <<podVars, scanSeen, tagVars, queue, notices, waiting, restarts>>
  BY DEF CreateFails
<1>2. Queues'
  BY <1>1, TryAgainQueues
<1>3. CASE UNCHANGED scanLog
  <2>1. UNCHANGED <<podVars, scanVars, tagVars, restarts>>
    BY <1>1, <1>3 DEF scanVars
  <2>2. Workers'
    BY <1>1, <2>1, LaterUnwritten, WorkersIdle DEF TryAgain
  <2>3. QED  BY <1>2, <2>1, <2>2, Unwritten
<1>4. CASE \E ref \in worker[r].missing : StoreNewScan(ScanOf(worker[r].key, ref[2]), ref[1])
  <2>1. PICK ref \in worker[r].missing : StoreNewScan(ScanOf(worker[r].key, ref[2]), ref[1])
    BY <1>4
  <2>2. PICK k \in Scans : k = ScanOf(worker[r].key, ref[2])
    BY <1>1, NewScanProperties
  <2>3. PICK new \in ScanObject : new = NewScan(ref[1])
    BY <1>1, NewScanProperties
  <2>4. new # NoObject => <<new.image, k[2]>> \in served
    BY <1>1, <2>2, <2>3, NewScanProperties
  <2>5. WritesScan(k, new)
    BY <2>1, <2>2, <2>3 DEF StoreNewScan, WritesScan
  <2>6. Later
    BY <1>1, <2>5, ScanWritten DEF podVars, tagVars
  <2>7. Workers'
    BY <1>1, <2>6, WorkersIdle DEF TryAgain
  <2>8. QED  BY <1>1, <1>2, <2>4, <2>5, <2>7, OneScanWritten
<1>5. QED  BY <1>3, <1>4 DEF CreateFails

\* Steps that write no object but a pod, and take our gate from it only when
\* they may.
LEMMA OnePodWritten ==
    ASSUME IInv, UNCHANGED <<podSeen, scanVars, tagVars, restarts>>, NEW p \in Pods,
           NEW o \in PodObject, WritesPod(p, o),
           \/ ~Gated(Latest(podLog[p])) \/ o = NoPod \/ Gated(o)
           \/ o.bypass \/ \A image \in o.images : Vetted(p, image),
           Queues', Workers'
    PROVE  IInv'
<1>1. Histories' /\ Later
  BY PodWritten DEF scanVars, tagVars
<1>2. Caches'
  BY <1>1, CachesStay DEF scanVars
<1>3. World'
  BY WorldStays DEF IInv, World, scanVars, tagVars
<1>4. o = NoPod \/ o.images \subseteq Images
  BY DEF PodObject, Pod
<1>5. \/ ~Gated(Latest(podLog[p])) \/ o = NoPod \/ Gated(o)
      \/ o.bypass \/ \A image \in o.images : Vetted(p, image)'
  BY <1>1, <1>4, VettedStays DEF IInv
<1>6. ReleaseJustified'
  BY <1>1, <1>5, JustifiedWrite
<1>7. QED  BY <1>1, <1>2, <1>3, <1>6 DEF IInv

\* The pod that a release stores is the pod it read, which is still the latest
\* version, without the gate.
LEMMA StoreReleaseProperties ==
    ASSUME IInv, NEW r \in Replicas, worker[r].pc = "release", StoreRelease(r)
    PROVE  \E p \in Pods, o \in PodObject :
              /\ p = worker[r].key /\ Snapshot(r) = Latest(podLog[p])
              /\ Gated(Latest(podLog[p])) /\ Latest(podLog[p]) \in Pod
              /\ o = RemoveSchedulingGate(Latest(podLog[p])) /\ o # Latest(podLog[p])
              /\ WritesPod(p, o)
              /\ o.bypass \/ \A image \in o.images : Vetted(p, image)
<1>1. /\ worker[r] \in Busy /\ Snapshot(r) \in Pod
      /\ Reconciles(worker[r], Snapshot(r))
  BY BusyProperties
<1>2. PICK p \in Pods : p = worker[r].key
  BY <1>1 DEF Busy
<1>3. Snapshot(r) = Latest(podLog[p])
  BY <1>2 DEF StoreRelease, IsCurrent, Snapshot, Latest
<1>4. Gated(Snapshot(r)) /\ (Snapshot(r).bypass \/ \A image \in Snapshot(r).images : Vetted(p, image))
  BY <1>1, <1>2 DEF Reconciles
<1>5. PICK o : o = RemoveSchedulingGate(Snapshot(r))
  OBVIOUS
<1>6. /\ o \in Pod /\ o.bypass = Snapshot(r).bypass /\ o.images = Snapshot(r).images
      /\ AquaGate \notin o.gates
  BY <1>1, <1>5 DEF RemoveSchedulingGate, Pod
<1>7. WritesPod(p, o)
  BY <1>2, <1>5 DEF StoreRelease, WritesPod
<1>8. o # Snapshot(r)
  BY <1>4, <1>6 DEF Gated
<1>9. QED  BY <1>1, <1>2, <1>3, <1>4, <1>5, <1>6, <1>7, <1>8 DEF PodObject

LEMMA ReleaseOkOK ==
    ASSUME IInv, NEW r \in Replicas, ReleaseOk(r)
    PROVE  IInv'
<1>1. /\ worker[r].pc = "release" /\ StoreRelease(r) /\ worker' = [worker EXCEPT ![r] = Idle]
      /\ UNCHANGED <<podSeen, scanVars, tagVars, queue, delayed, notices, waiting, restarts>>
  BY DEF ReleaseOk
<1>2. PICK p \in Pods, o \in PodObject :
         /\ WritesPod(p, o) /\ (o.bypass \/ \A image \in o.images : Vetted(p, image))
  BY <1>1, StoreReleaseProperties
<1>3. Later
  BY <1>1, <1>2, PodWritten DEF scanVars, tagVars
<1>4. Workers'
  BY <1>1, <1>3, WorkersIdle
<1>5. Queues'
  BY <1>1 DEF IInv, Queues
<1>6. QED  BY <1>1, <1>2, <1>4, <1>5, OnePodWritten

LEMMA ReleaseFailsOK ==
    ASSUME IInv, NEW r \in Replicas, ReleaseFails(r)
    PROVE  IInv'
<1>1. /\ worker[r].pc = "release" /\ TryAgain(r)
      /\ UNCHANGED <<podSeen, scanVars, tagVars, queue, notices, waiting, restarts>>
  BY DEF ReleaseFails
<1>2. Queues'
  BY <1>1, TryAgainQueues
<1>3. CASE UNCHANGED podLog
  <2>1. UNCHANGED <<podVars, scanVars, tagVars, restarts>>
    BY <1>1, <1>3 DEF podVars
  <2>2. Workers'
    BY <1>1, <2>1, LaterUnwritten, WorkersIdle DEF TryAgain
  <2>3. QED  BY <1>2, <2>1, <2>2, Unwritten
<1>4. CASE StoreRelease(r)
  <2>1. PICK p \in Pods, o \in PodObject :
           /\ WritesPod(p, o) /\ (o.bypass \/ \A image \in o.images : Vetted(p, image))
    BY <1>1, <1>4, StoreReleaseProperties
  <2>2. Later
    BY <1>1, <2>1, PodWritten DEF scanVars, tagVars
  <2>3. Workers'
    BY <1>1, <2>2, WorkersIdle DEF TryAgain
  <2>4. QED  BY <1>1, <1>2, <2>1, <2>3, OnePodWritten
<1>5. QED  BY <1>3, <1>4 DEF ReleaseFails

-----------------------------------------------------------------------------
(* So do the steps of the process around it, and restarts *)

LEMMA TimerFiresOK ==
    ASSUME IInv, NEW r \in Replicas, NEW p \in Pods, TimerFires(r, p)
    PROVE  IInv'
<1>1. Queues'
  BY DEF TimerFires, IInv, Queues
<1>2. QED  BY <1>1, OnlyQueues DEF TimerFires

LEMMA ResyncPodOK ==
    ASSUME IInv, NEW r \in Replicas, NEW p \in Pods, ResyncPod(r, p)
    PROVE  IInv'
<1>1. Queues'
  BY DEF ResyncPod, IInv, Queues
<1>2. QED  BY <1>1, OnlyQueues DEF ResyncPod

LEMMA MapScanOK ==
    ASSUME IInv, NEW r \in Replicas, NEW k \in Scans, NEW i \in Images, MapScan(r, k, i)
    PROVE  IInv'
<1>1. MappedPods(r, k, i) \subseteq Pods
  BY DEF MappedPods
<1>2. Queues'
  BY <1>1 DEF MapScan, IInv, Queues
<1>3. QED  BY <1>2, OnlyQueues DEF MapScan

\* Steps that write nothing but move caches and queues.
LEMMA OnlyCaches ==
    ASSUME IInv, UNCHANGED <<podLog, scanLog, tagVars>>, restarts' \in Nat,
           Caches', Queues', Workers'
    PROVE  IInv'
<1>1. Histories' /\ Later
  BY NothingWritten DEF tagVars
<1>2. World'
  BY WorldStays DEF IInv, World, tagVars
<1>3. ReleaseJustified'
  BY <1>1, JustifiedUnwritten
<1>4. QED  BY <1>1, <1>2, <1>3 DEF IInv

LEMMA DeliverPodOK ==
    ASSUME IInv, NEW r \in Replicas, NEW p \in Pods, DeliverPod(r, p)
    PROVE  IInv'
<1>1. PICK v \in NewerVersions(podLog[p], podSeen[r][p]) :
         /\ podSeen' = [podSeen EXCEPT ![r][p] = v]
         /\ queue' = queue \/ queue' = queue \cup {<<r, p>>}
         /\ UNCHANGED <<podLog, scanVars, tagVars, delayed, notices, worker, waiting, restarts>>
  BY DEF DeliverPod
<1>2. v \in 1 .. Len(podLog[p]) /\ v \in Nat
  BY CachedPodType DEF NewerVersions
<1>3. podSeen \in [Replicas -> [Pods -> Nat]]
  BY DEF IInv, Caches
<1>4. podSeen' = [podSeen EXCEPT ![r] = [podSeen[r] EXCEPT ![p] = v]]
  BY <1>1, <1>3
<1>5. podSeen' \in [Replicas -> [Pods -> Nat]]
  BY <1>2, <1>3, <1>4
<1>6. \A q \in Replicas, o \in Pods : podSeen'[q][o] \in 1 .. Len(podLog[o])
  BY <1>2, <1>3, <1>4 DEF IInv, Caches
<1>7. Caches'
  BY <1>1, <1>5, <1>6 DEF IInv, Caches, scanVars
<1>8. Queues'
  BY <1>1 DEF IInv, Queues
<1>9. Workers'
  BY <1>1, NothingWritten, WorkersStay DEF scanVars, tagVars
<1>10. QED  BY <1>1, <1>7, <1>8, <1>9, OnlyCaches DEF IInv, World, scanVars

LEMMA NoticesType ==
    ASSUME NEW r \in Replicas, NEW k \in Scans, NEW scan \in ScanObject
    PROVE  NoticesOf(r, k, scan) \subseteq Replicas \X Scans \X Images
BY DEF NoticesOf, ScanObject, Scan, NoObject, Terminal

LEMMA DeliverScanOK ==
    ASSUME IInv, NEW r \in Replicas, NEW k \in Scans, DeliverScan(r, k)
    PROVE  IInv'
<1>1. PICK v \in NewerVersions(scanLog[k], scanSeen[r][k]) :
         /\ scanSeen' = [scanSeen EXCEPT ![r][k] = v]
         /\ notices' = notices \cup NoticesOf(r, k, CachedScan(r, k))
                               \cup NoticesOf(r, k, scanLog[k][v])
         /\ UNCHANGED <<podVars, scanLog, tagVars, queue, delayed, worker, waiting, restarts>>
  BY DEF DeliverScan
<1>2. v \in 1 .. Len(scanLog[k]) /\ v \in Nat
  BY CachedScanType DEF NewerVersions
<1>3. scanSeen \in [Replicas -> [Scans -> Nat]]
  BY DEF IInv, Caches
<1>4. scanSeen' = [scanSeen EXCEPT ![r] = [scanSeen[r] EXCEPT ![k] = v]]
  BY <1>1, <1>3
<1>5. scanSeen' \in [Replicas -> [Scans -> Nat]]
  BY <1>2, <1>3, <1>4
<1>6. \A q \in Replicas, j \in Scans : scanSeen'[q][j] \in 1 .. Len(scanLog[j])
  BY <1>2, <1>3, <1>4 DEF IInv, Caches
<1>7. Caches'
  BY <1>1, <1>5, <1>6 DEF IInv, Caches, podVars
<1>8. CachedScan(r, k) \in ScanObject /\ scanLog[k][v] \in ScanObject
  BY <1>2, CachedScanType DEF IInv, Histories
<1>9. notices' \subseteq Replicas \X Scans \X Images
  BY <1>1, <1>8, NoticesType DEF IInv, Queues
<1>10. Queues'
  BY <1>1, <1>9 DEF IInv, Queues
<1>11. Workers'
  BY <1>1, NothingWritten, WorkersStay DEF podVars, tagVars
<1>12. QED  BY <1>1, <1>7, <1>10, <1>11, OnlyCaches DEF IInv, World, podVars

LEMMA RestartOK ==
    ASSUME IInv, NEW r \in Replicas, Restart(r)
    PROVE  IInv'
<1>1. /\ restarts' = restarts + 1
      /\ podSeen' = [podSeen EXCEPT ![r] = [p \in Pods |-> Len(podLog[p])]]
      /\ scanSeen' = [scanSeen EXCEPT ![r] = [k \in Scans |-> Len(scanLog[k])]]
      /\ worker' = [worker EXCEPT ![r] = Idle]
      /\ waiting' = [waiting EXCEPT ![r] = [p \in Pods |-> {}]]
      /\ queue' = {rp \in queue : rp[1] # r}
                    \cup {<<r, p>> : p \in {p \in Pods : Gated(Latest(podLog[p]))}}
      /\ delayed' = {rp \in delayed : rp[1] # r}
      /\ notices' = {n \in notices : n[1] # r}
                      \cup UNION {NoticesOf(r, k, Latest(scanLog[k])) : k \in Scans}
      /\ UNCHANGED <<podLog, scanLog, tagVars>>
  BY DEF Restart
<1>2. \A p \in Pods : Len(podLog[p]) \in Nat /\ Len(podLog[p]) >= 1
  BY LenProperties DEF IInv, Histories
<1>3. \A k \in Scans : Len(scanLog[k]) \in Nat /\ Len(scanLog[k]) >= 1
  BY LenProperties DEF IInv, Histories
<1>4. Caches'
  <2>1. /\ podSeen' \in [Replicas -> [Pods -> Nat]]
        /\ \A q \in Replicas, p \in Pods : podSeen'[q][p] \in 1 .. Len(podLog'[p])
    BY <1>1, <1>2 DEF IInv, Caches
  <2>2. /\ scanSeen' \in [Replicas -> [Scans -> Nat]]
        /\ \A q \in Replicas, k \in Scans : scanSeen'[q][k] \in 1 .. Len(scanLog'[k])
    BY <1>1, <1>3 DEF IInv, Caches
  <2>3. QED  BY <2>1, <2>2 DEF Caches
<1>5. Queues'
  <2>1. queue' \subseteq Replicas \X Pods /\ delayed' \subseteq Replicas \X Pods
    BY <1>1 DEF IInv, Queues
  <2>2. waiting' \in [Replicas -> [Pods -> SUBSET Scans]]
    BY <1>1 DEF IInv, Queues
  <2>3. ASSUME NEW k \in Scans
        PROVE  NoticesOf(r, k, Latest(scanLog[k])) \subseteq Replicas \X Scans \X Images
    <3>1. Latest(scanLog[k]) \in ScanObject
      BY <1>3 DEF IInv, Histories, Latest
    <3>2. QED  BY <3>1, NoticesType
  <2>4. notices' \subseteq Replicas \X Scans \X Images
    BY <1>1, <2>3 DEF IInv, Queues
  <2>5. QED  BY <2>1, <2>2, <2>4 DEF Queues
<1>6. Workers'
  BY <1>1, NothingWritten, WorkersIdle DEF tagVars
<1>7. restarts' \in Nat
  BY <1>1 DEF IInv, World
<1>8. UNCHANGED <<podLog, scanLog, tagVars>>
  BY <1>1
<1>9. QED  BY <1>4, <1>5, <1>6, <1>7, <1>8, OnlyCaches

-----------------------------------------------------------------------------
(* And the steps of the environment *)

LEMMA StorePodOK ==
    ASSUME IInv, NEW p \in Pods, NEW o \in PodObject, StorePod(p, o),
           ~Gated(Latest(podLog[p])) \/ o = NoPod \/ Gated(o)
    PROVE  IInv'
<1>1. WritesPod(p, o) /\ UNCHANGED <<podSeen, scanVars, tagVars, workVars, restarts>>
  BY DEF StorePod, WritesPod
<1>2. Later
  BY <1>1, PodWritten DEF scanVars, tagVars
<1>3. Workers'
  BY <1>1, <1>2, WorkersStay DEF workVars
<1>4. Queues'
  BY <1>1 DEF IInv, Queues, workVars
<1>5. QED  BY <1>1, <1>3, <1>4, OnePodWritten

LEMMA LatestPodType ==
    ASSUME IInv, NEW p \in Pods
    PROVE  /\ Latest(podLog[p]) \in PodObject
           /\ Latest(podLog[p]) # NoPod => Latest(podLog[p]) \in Pod
BY LenProperties DEF IInv, Histories, Latest, PodObject

\* Users of the cluster never take our gate away.
LEMMA UserEditsProperties ==
    ASSUME NEW pod \in Pod, NEW new \in UserEdits(pod)
    PROVE  new \in Pod /\ new # pod /\ (Gated(pod) => Gated(new))
BY DEF UserEdits, Pod, Gated

LEMMA UsersWritePodOK ==
    ASSUME IInv, NEW p \in Pods, CreatePod(p) \/ EditPod(p) \/ DeletePod(p)
    PROVE  IInv'
<1>1. CASE CreatePod(p)
  <2>1. PICK o \in Pod : StorePod(p, o)
    BY <1>1 DEF CreatePod
  <2>2. ~Gated(Latest(podLog[p]))
    BY <1>1 DEF CreatePod, Gated, NoPod
  <2>3. QED  BY <2>1, <2>2, StorePodOK DEF PodObject
<1>2. CASE EditPod(p)
  <2>1. PICK o \in UserEdits(Latest(podLog[p])) : StorePod(p, o)
    BY <1>2 DEF EditPod
  <2>2. Latest(podLog[p]) \in Pod
    BY <1>2, LatestPodType DEF EditPod
  <2>3. o \in Pod /\ (Gated(Latest(podLog[p])) => Gated(o))
    BY <2>1, <2>2, UserEditsProperties
  <2>4. QED  BY <2>1, <2>3, StorePodOK DEF PodObject
<1>3. CASE DeletePod(p)
  BY <1>3, StorePodOK DEF DeletePod, PodObject
<1>4. QED  BY <1>1, <1>2, <1>3

LEMMA StoreScanOK ==
    ASSUME IInv, NEW k \in Scans, NEW o \in ScanObject, StoreScan(k, o),
           o # NoObject => <<o.image, k[2]>> \in served
    PROVE  IInv'
<1>1. WritesScan(k, o) /\ UNCHANGED <<podVars, scanSeen, tagVars, workVars, restarts>>
  BY DEF StoreScan, WritesScan
<1>2. Later
  BY <1>1, ScanWritten DEF podVars, tagVars
<1>3. Workers'
  BY <1>1, <1>2, WorkersStay DEF workVars
<1>4. Queues'
  BY <1>1 DEF IInv, Queues, workVars
<1>5. QED  BY <1>1, <1>3, <1>4, OneScanWritten

\* A step of the ImageScan controller keeps the image of the ImageScan.
LEMMA ScanProgressesProperties ==
    ASSUME IInv, NEW k \in Scans, ScanProgresses(k)
    PROVE  \E o \in Scan : /\ StoreScan(k, o)
                           /\ <<o.image, k[2]>> \in served
<1>1. PICK phase \in ScanSteps :
         StoreScan(k, WithStatus(Latest(scanLog[k]), phase, IF phase = "Error" THEN 1 ELSE 0))
  BY DEF ScanProgresses
<1>2. PICK n \in Nat : n = IF phase = "Error" THEN 1 ELSE 0
  OBVIOUS
<1>3. Len(scanLog[k]) \in 1 .. Len(scanLog[k]) /\ Latest(scanLog[k]) \in ScanObject
  BY LenProperties DEF IInv, Histories, Latest
<1>4. Latest(scanLog[k]) \in Scan /\ Latest(scanLog[k]) # NoObject
  BY <1>3 DEF ScanProgresses, ScanObject, NoObject
<1>5. <<Latest(scanLog[k]).image, k[2]>> \in served
  BY <1>3, <1>4 DEF IInv, World, Latest
<1>6. phase \in Phases
  BY DEF Phases
<1>7. PICK o : o = WithStatus(Latest(scanLog[k]), phase, n)
  OBVIOUS
<1>8. o \in Scan /\ o.image = Latest(scanLog[k]).image
  BY <1>4, <1>6, <1>7 DEF WithStatus, Scan
<1>9. QED  BY <1>1, <1>2, <1>5, <1>7, <1>8

LEMMA ScansWrittenOK ==
    ASSUME IInv, NEW k \in Scans, OthersCreateScan(k) \/ DeleteScan(k) \/ ScanProgresses(k)
    PROVE  IInv'
<1>1. CASE OthersCreateScan(k)
  <2>1. PICK i \in Images : <<i, k[2]>> \in served /\ StoreScan(k, NewScan(i))
    BY <1>1 DEF OthersCreateScan
  <2>2. NewScan(i) \in ScanObject /\ NewScan(i).image = i
    BY DEF NewScan, Scan, ScanObject, Phases
  <2>3. QED  BY <2>1, <2>2, StoreScanOK
<1>2. CASE DeleteScan(k)
  BY <1>2, StoreScanOK DEF DeleteScan, ScanObject
<1>3. CASE ScanProgresses(k)
  BY <1>3, ScanProgressesProperties, StoreScanOK DEF ScanObject
<1>4. QED  BY <1>1, <1>2, <1>3

LEMMA MoveTagOK ==
    ASSUME IInv, NEW i \in Images, MoveTag(i)
    PROVE  IInv'
<1>1. PICK d \in DigestsOf[i] : tag' = [tag EXCEPT ![i] = d] /\ served' = served \cup {<<i, d>>}
  BY DEF MoveTag
<1>2. moves' = moves + 1 /\ UNCHANGED <<podVars, scanVars, workVars, restarts>>
  BY DEF MoveTag
<1>3. Histories' /\ Later
  BY <1>1, <1>2, NothingWritten DEF podVars, scanVars
<1>4. d \in Digests
  BY <1>1
<1>5. World'
  <2>1. tag' \in [Images -> Digests] /\ served' \subseteq Refs /\ moves' \in Nat /\ restarts' \in Nat
    BY <1>1, <1>2, <1>4 DEF IInv, World, Refs
  <2>2. \A j \in Images : <<j, tag'[j]>> \in served'
    BY <1>1 DEF IInv, World
  <2>3. \A ref \in served' : ref[2] \in DigestsOf[ref[1]]
    BY <1>1 DEF IInv, World
  <2>4. \A k \in Scans : \A v \in 1 .. Len(scanLog'[k]) :
           scanLog'[k][v] # NoObject => <<scanLog'[k][v].image, k[2]>> \in served'
    BY <1>1, <1>2 DEF IInv, World, scanVars
  <2>5. QED  BY <2>1, <2>2, <2>3, <2>4 DEF World
<1>6. Caches'
  BY <1>2, <1>3, CachesStay DEF podVars, scanVars
<1>7. Workers' /\ Queues'
  BY <1>2, <1>3, WorkersStay DEF workVars, IInv, Queues
<1>8. ReleaseJustified'
  BY <1>2, <1>3, JustifiedUnwritten DEF podVars
<1>9. QED  BY <1>3, <1>5, <1>6, <1>7, <1>8 DEF IInv

LEMMA StutterOK == IInv /\ UNCHANGED vars => IInv'
<1> SUFFICES ASSUME IInv, UNCHANGED vars PROVE IInv'
  OBVIOUS
<1>1. /\ UNCHANGED <<podVars, scanVars, tagVars, worker, restarts>>
      /\ UNCHANGED <<queue, delayed, notices, waiting>>
  BY DEF vars, workVars
<1>2. Queues'
  BY <1>1 DEF IInv, Queues
<1>3. QED  BY <1>1, <1>2, OnlyQueues

LEMMA ReconcileOK ==
    ASSUME IInv, NEW r \in Replicas, Reconcile(r)
    PROVE  IInv'
BY SkipOK, BeginOK, BuildResolverOK, ResolveImageOK, ResolveFailsOK, CheckScanOK,
   CreateScanOK, CreateFailsOK, ReleaseOkOK, ReleaseFailsOK DEF Reconcile

LEMMA ProcessOK ==
    ASSUME IInv, NEW r \in Replicas, Process(r)
    PROVE  IInv'
BY TimerFiresOK, DeliverPodOK, ResyncPodOK, DeliverScanOK, MapScanOK DEF Process

LEMMA UsersOK ==
    ASSUME IInv, Users
    PROVE  IInv'
BY UsersWritePodOK, ScansWrittenOK DEF Users

LEMMA StepOK == IInv /\ [Next]_vars => IInv'
<1> SUFFICES ASSUME IInv, [Next]_vars PROVE IInv'
  OBVIOUS
<1>1. ASSUME NEW r \in Replicas, Reconcile(r) \/ Process(r) \/ Restart(r)  PROVE IInv'
  BY <1>1, ReconcileOK, ProcessOK, RestartOK
<1>2. ASSUME NEW k \in Scans, ScanProgresses(k)  PROVE IInv'
  BY <1>2, ScansWrittenOK
<1>3. ASSUME NEW i \in Images, MoveTag(i)  PROVE IInv'
  BY <1>3, MoveTagOK
<1>4. QED  BY <1>1, <1>2, <1>3, UsersOK, StutterOK DEF Next

LEMMA Invariance == Spec => []IInv
BY InitOK, StepOK, PTL DEF Spec

\* Whatever the number of replicas, of pods and of images: every variable holds
\* a value the program can store, and no reconcile works on images that are
\* not those of the pod it read.
THEOREM TypeCorrect == Spec => []TypeOK
BY Invariance, Typed, PTL

\* A gate is taken off only when it may be, for any number of replicas that
\* reconcile the same pods from caches of any age: two workers that read
\* different versions, a tag that moves between two of their steps, a pod
\* whose images change under them.
THEOREM Justified == Spec => []ReleaseJustified
<1>1. IInv => ReleaseJustified
  BY DEF IInv
<1>2. QED  BY Invariance, <1>1, PTL

-----------------------------------------------------------------------------
(* Every step implements a step of the contract, or changes nothing of it *)

\* The contract's view of the histories.
PodView    == [p \in Pods |-> Latest(podLog[p])]
PassedView == {k \in Scans : ScanPassed(k)}

\* The contract speaks of the same pods and ImageScans.
LEMMA ContractNames ==
    /\ Contract!NoPod = NoPod
    /\ Contract!Pod = Pod
    /\ Contract!Scans = Scans
    /\ \A pod : Contract!Gated(pod) <=> Gated(pod)
    /\ \A pod : Contract!RemoveSchedulingGate(pod) = RemoveSchedulingGate(pod)
    /\ \A pod : Contract!UserEdits(pod) = UserEdits(pod)
BY DEF Contract!NoPod, NoPod, Contract!Pod, Pod, Contract!Scans, Scans, Contract!Gated, Gated,
       Contract!RemoveSchedulingGate, RemoveSchedulingGate, Contract!UserEdits, UserEdits,
       Contract!Gates, Gates

LEMMA ContractInit == Init => Contract!Init
<1> SUFFICES ASSUME Init PROVE Contract!Init
  OBVIOUS
<1>1. PodView = [p \in Pods |-> NoPod]
  BY DEF Init, PodView, Latest
<1>2. PassedView = {}
  BY DEF Init, PassedView, ScanPassed, NoObject
<1>3. served \subseteq Images \X Digests
  BY DEF Init
<1>4. QED  BY <1>1, <1>2, <1>3, ContractNames DEF Contract!Init, PodView, PassedView

LEMMA UnwrittenView ==
    ASSUME UNCHANGED <<podLog, scanLog, served>>
    PROVE  UNCHANGED Contract!contractVars
BY DEF Contract!contractVars, ScanPassed

\* A write to one pod is seen as just that.
LEMMA PodWriteView ==
    ASSUME IInv, NEW p \in Pods, NEW o \in PodObject, WritesPod(p, o), UNCHANGED scanLog
    PROVE  PodView' = [PodView EXCEPT ![p] = o] /\ PassedView' = PassedView
<1>1. \A q \in Pods : q # p => podLog'[q] = podLog[q]
  BY PodWriteProperties
<1>2. Latest(podLog'[p]) = o
  BY PodWriteProperties
<1>3. PassedView' = PassedView
  BY DEF PassedView, ScanPassed
<1>4. QED  BY <1>1, <1>2, <1>3 DEF PodView, Latest

\* A write to an ImageScan lets that one pass or none.
LEMMA ScanWriteView ==
    ASSUME IInv, NEW k \in Scans, NEW o \in ScanObject, WritesScan(k, o), UNCHANGED podLog
    PROVE  /\ PodView' = PodView
           /\ PassedView' = PassedView \/ PassedView' = PassedView \cup {k}
<1>1. \A j \in Scans : j # k => scanLog'[j] = scanLog[j]
  BY ScanWriteProperties
<1>2. Histories' /\ \A j \in Scans : Grown(scanLog[j], scanLog'[j])
  BY ScanWriteProperties, LenProperties DEF IInv, Histories
<1>3. ASSUME NEW j \in Scans, j # k  PROVE ScanPassed(j)' <=> ScanPassed(j)
  BY <1>1, <1>3 DEF ScanPassed
<1>4. ScanPassed(k) => ScanPassed(k)'
  <2>1. Len(scanLog[k]) \in Nat
    BY LenProperties DEF IInv, Histories
  <2>2. \A v \in 1 .. Len(scanLog[k]) : v \in 1 .. Len(scanLog'[k]) /\ scanLog'[k][v] = scanLog[k][v]
    BY <1>2, <2>1 DEF Grown
  <2>3. QED  BY <2>2 DEF ScanPassed
<1>5. PodView' = PodView
  BY DEF PodView
<1>6. QED  BY <1>3, <1>4, <1>5 DEF PassedView

ContractStep == [Contract!Next]_(Contract!contractVars)

LEMMA UnwrittenStep ==
    ASSUME UNCHANGED <<podLog, scanLog, served>>
    PROVE  ContractStep
BY UnwrittenView DEF ContractStep

LEMMA ScanStep ==
    ASSUME IInv, NEW k \in Scans, NEW o \in ScanObject, WritesScan(k, o), UNCHANGED <<podLog, served>>
    PROVE  ContractStep
<1>1. /\ PodView' = PodView
      /\ PassedView' = PassedView \/ PassedView' = PassedView \cup {k}
  BY ScanWriteView
<1>2. CASE PassedView' = PassedView
  BY <1>1, <1>2 DEF ContractStep, Contract!contractVars, PodView, PassedView
<1>3. CASE PassedView' = PassedView \cup {k}
  <2>1. Contract!ScanPasses(k)
    BY <1>1, <1>3 DEF Contract!ScanPasses, PodView, PassedView
  <2>2. QED  BY <2>1, ContractNames DEF ContractStep, Contract!Next
<1>4. QED  BY <1>1, <1>2, <1>3

LEMMA MoveTagStep ==
    ASSUME IInv, NEW i \in Images, MoveTag(i)
    PROVE  ContractStep
<1>1. PICK d \in Digests : served' = served \cup {<<i, d>>}
  BY DEF MoveTag
<1>2. PodView' = PodView /\ PassedView' = PassedView
  BY DEF MoveTag, podVars, scanVars, PodView, PassedView, ScanPassed
<1>3. Contract!RegistryServes(i, d)
  BY <1>1, <1>2 DEF Contract!RegistryServes, PodView, PassedView
<1>4. QED  BY <1>3 DEF ContractStep, Contract!Next

LEMMA ReleaseStep ==
    ASSUME IInv, NEW r \in Replicas, worker[r].pc = "release", StoreRelease(r),
           UNCHANGED <<scanLog, served>>
    PROVE  ContractStep
<1>1. PICK p \in Pods, o \in PodObject :
              /\ Gated(Latest(podLog[p])) /\ Latest(podLog[p]) \in Pod
              /\ o = RemoveSchedulingGate(Latest(podLog[p]))
              /\ WritesPod(p, o)
              /\ o.bypass \/ \A image \in o.images : Vetted(p, image)
  BY StoreReleaseProperties
<1>2. PodView' = [PodView EXCEPT ![p] = o] /\ PassedView' = PassedView
  BY <1>1, PodWriteView
<1>3. PodView[p] = Latest(podLog[p])
  BY DEF PodView
<1>4. o.bypass = PodView[p].bypass /\ o.images = PodView[p].images
  BY <1>1, <1>3 DEF RemoveSchedulingGate, Pod
<1>5. PodView[p].images \subseteq Images
  BY <1>1, <1>3 DEF Pod
<1>6. \A image \in Images : Vetted(p, image) => Contract!Vetted(p, image)
  BY ScanOfType DEF Vetted, Contract!Vetted
<1>7. Contract!Release(p)
  BY <1>1, <1>2, <1>3, <1>4, <1>5, <1>6, ContractNames DEF Contract!Release, PodView, PassedView
<1>8. QED  BY <1>7 DEF ContractStep, Contract!Next

LEMMA UsersPodStep ==
    ASSUME IInv, NEW p \in Pods, CreatePod(p) \/ EditPod(p) \/ DeletePod(p)
    PROVE  ContractStep
<1>1. PodView[p] = Latest(podLog[p])
  BY DEF PodView
<1>2. ASSUME NEW o \in PodObject, StorePod(p, o)
      PROVE  /\ PodView' = [PodView EXCEPT ![p] = o] /\ PassedView' = PassedView
             /\ served' = served
  BY <1>2, PodWriteView DEF StorePod, WritesPod, scanVars, tagVars
<1>3. Contract!UserChanges(p)
  <2>1. CASE CreatePod(p)
    <3>1. PICK o \in Pod : StorePod(p, o)
      BY <2>1 DEF CreatePod
    <3>2. PodView' = [PodView EXCEPT ![p] = o] /\ PassedView' = PassedView /\ served' = served
      BY <1>2, <3>1 DEF PodObject
    <3>3. PodView[p] = NoPod
      BY <1>1, <2>1 DEF CreatePod
    <3>4. QED  BY <3>2, <3>3, ContractNames DEF Contract!UserChanges, PodView, PassedView
  <2>2. CASE EditPod(p)
    <3>1. PICK o \in UserEdits(Latest(podLog[p])) : StorePod(p, o)
      BY <2>2 DEF EditPod
    <3>2. o \in Pod
      BY DEF UserEdits
    <3>3. PodView' = [PodView EXCEPT ![p] = o] /\ PassedView' = PassedView /\ served' = served
      BY <1>2, <3>1, <3>2 DEF PodObject
    <3>4. PodView[p] # NoPod /\ o \in UserEdits(PodView[p])
      BY <1>1, <2>2 DEF EditPod
    <3>5. QED  BY <3>3, <3>4, ContractNames DEF Contract!UserChanges, PodView, PassedView
  <2>3. CASE DeletePod(p)
    <3>1. PodView' = [PodView EXCEPT ![p] = NoPod] /\ PassedView' = PassedView /\ served' = served
      BY <1>2, <2>3 DEF DeletePod, PodObject
    <3>2. PodView[p] # NoPod
      BY <1>1, <2>3 DEF DeletePod
    <3>3. QED  BY <3>1, <3>2, ContractNames DEF Contract!UserChanges, PodView, PassedView
  <2>4. QED  BY <2>1, <2>2, <2>3
<1>4. QED  BY <1>3 DEF ContractStep, Contract!Next

LEMMA CreateStep ==
    ASSUME IInv, NEW r \in Replicas, CreateScan(r) \/ CreateFails(r)
    PROVE  ContractStep
<1>1. worker[r].pc \in {"check", "create"} /\ UNCHANGED <<podLog, served>>
  BY DEF CreateScan, CreateFails, podVars, tagVars
<1>2. CASE UNCHANGED scanLog
  BY <1>1, <1>2, UnwrittenStep
<1>3. CASE \E ref \in worker[r].missing : StoreNewScan(ScanOf(worker[r].key, ref[2]), ref[1])
  <2>1. PICK ref \in worker[r].missing : StoreNewScan(ScanOf(worker[r].key, ref[2]), ref[1])
    BY <1>3
  <2>2. PICK k \in Scans : k = ScanOf(worker[r].key, ref[2])
    BY <1>1, NewScanProperties
  <2>3. PICK new \in ScanObject : new = NewScan(ref[1])
    BY <1>1, NewScanProperties
  <2>4. WritesScan(k, new)
    BY <2>1, <2>2, <2>3 DEF StoreNewScan, WritesScan
  <2>5. QED  BY <1>1, <2>4, ScanStep
<1>4. QED  BY <1>2, <1>3 DEF CreateScan, CreateFails

LEMMA ReconcileStep ==
    ASSUME IInv, NEW r \in Replicas, Reconcile(r)
    PROVE  ContractStep
<1>1. CASE \E p \in Pods : Skip(r, p) \/ Begin(r, p)
  BY <1>1, UnwrittenStep DEF Skip, Begin, podVars, scanVars, tagVars
<1>2. CASE BuildResolver(r) \/ ResolveFails(r) \/ \E i \in Images : ResolveImage(r, i)
  BY <1>2, UnwrittenStep DEF BuildResolver, ResolveFails, ResolveImage, podVars, scanVars, tagVars
<1>3. CASE \E ref \in Refs : CheckScan(r, ref)
  BY <1>3, UnwrittenStep DEF CheckScan, podVars, scanVars, tagVars
<1>4. CASE CreateScan(r) \/ CreateFails(r)
  BY <1>4, CreateStep
<1>5. CASE ReleaseOk(r) \/ ReleaseFails(r)
  <2>1. worker[r].pc = "release" /\ UNCHANGED <<scanLog, served>>
    BY <1>5 DEF ReleaseOk, ReleaseFails, scanVars, tagVars
  <2>2. StoreRelease(r) \/ UNCHANGED podLog
    BY <1>5 DEF ReleaseOk, ReleaseFails
  <2>3. QED  BY <2>1, <2>2, ReleaseStep, UnwrittenStep
<1>6. QED  BY <1>1, <1>2, <1>3, <1>4, <1>5 DEF Reconcile

LEMMA ProcessStep ==
    ASSUME NEW r \in Replicas, Process(r) \/ Restart(r)
    PROVE  ContractStep
<1>1. UNCHANGED <<podLog, scanLog, served>>
  BY DEF Process, Restart, TimerFires, DeliverPod, ResyncPod, DeliverScan, MapScan,
         podVars, scanVars, tagVars
<1>2. QED  BY <1>1, UnwrittenStep

LEMMA ScansWrittenStep ==
    ASSUME IInv, NEW k \in Scans, OthersCreateScan(k) \/ DeleteScan(k) \/ ScanProgresses(k)
    PROVE  ContractStep
<1>1. ASSUME NEW o \in ScanObject, StoreScan(k, o)  PROVE ContractStep
  BY <1>1, ScanStep DEF StoreScan, WritesScan, podVars, tagVars
<1>2. CASE OthersCreateScan(k)
  <2>1. PICK i \in Images : StoreScan(k, NewScan(i))
    BY <1>2 DEF OthersCreateScan
  <2>2. NewScan(i) \in ScanObject
    BY DEF NewScan, Scan, ScanObject, Phases
  <2>3. QED  BY <1>1, <2>1, <2>2
<1>3. CASE DeleteScan(k)
  BY <1>1, <1>3 DEF DeleteScan, ScanObject
<1>4. CASE ScanProgresses(k)
  BY <1>1, <1>4, ScanProgressesProperties DEF ScanObject
<1>5. QED  BY <1>2, <1>3, <1>4

LEMMA EveryStep == IInv /\ [Next]_vars => ContractStep
<1> SUFFICES ASSUME IInv, [Next]_vars PROVE ContractStep
  OBVIOUS
<1>1. ASSUME NEW r \in Replicas, Reconcile(r) \/ Process(r) \/ Restart(r)  PROVE ContractStep
  BY <1>1, ReconcileStep, ProcessStep
<1>2. CASE Users
  BY <1>2, UsersPodStep, ScansWrittenStep DEF Users
<1>3. ASSUME NEW k \in Scans, ScanProgresses(k)  PROVE ContractStep
  BY <1>3, ScansWrittenStep
<1>4. ASSUME NEW i \in Images, MoveTag(i)  PROVE ContractStep
  BY <1>4, MoveTagStep
<1>5. CASE UNCHANGED vars
  BY <1>5, UnwrittenStep DEF vars, podVars, scanVars, tagVars
<1>6. QED  BY <1>1, <1>2, <1>3, <1>4, <1>5 DEF Next

\* The gate does what it promises to the owners of pods, whatever the number
\* of replicas: it goes only when it may, and with the gate nothing else of the
\* pod goes, although Update sends the whole pod as some cache once showed it.
THEOREM Refinement == Spec => ImplementsContract
<1>1. Init => Contract!Init
  BY ContractInit
<1>2. IInv /\ [Next]_vars => [Contract!Next]_(Contract!contractVars)
  BY EveryStep DEF ContractStep
<1>3. QED  BY <1>1, <1>2, Invariance, PTL DEF Spec, ImplementsContract, Contract!Spec

-----------------------------------------------------------------------------
(***************************************************************************)
(* No wake-up is lost, as long as no two images share a digest: with a     *)
(* shared digest the ImageScan carries the label of one image only, and    *)
(* the run gate_shared_digest shows that a pod with another image is never *)
(* woken.  The invariant says why a reconcile may end without a requeue:   *)
(* what it found open was still open in the cache after it had started, or *)
(* the notice that it is not open any more has not been mapped yet.        *)
(***************************************************************************)
NoSharedDigest ==
    \A i \in Images, j \in Images : DigestsOf[i] \cap DigestsOf[j] # {} => i = j

BusyWith(r, p) == worker[r] # Idle /\ worker[r].key = p

\* Something other than an ImageScan brings the pod back, or nothing has to.
Covered(r, p) ==
    \/ ~Gated(CachedPod(r, p)) \/ Excluded(p)
    \/ <<r, p>> \in queue \cup delayed
    \/ podSeen[r][p] < Len(podLog[p])

\* The notices of ImageScan k are mapped to the pod.
Heard(r, p, k) ==
    /\ k = ScanOf(p, k[2])
    /\ \E i \in CachedPod(r, p).images : <<i, k[2]>> \in served

\* ImageScan k is still open for r, or the notice that it passed is on its way.
Awaited(r, p, k) ==
    \/ CachedScan(r, k).phase # "Registered"
    \/ \E i \in Images : <<r, k, i>> \in notices /\ p \in MappedPods(r, k, i)

\* The ImageScans that the reconcile found open, and the one it has to create.
Unfinished(w) == w.open \cup {ScanOf(w.key, ref[2]) : ref \in w.missing}

Wakes(r, p) ==
    \/ Covered(r, p)
    \/ /\ BusyWith(r, p)
       /\ worker[r].snap = podSeen[r][p]
       /\ \A k \in Unfinished(worker[r]) : Awaited(r, p, k)
    \/ /\ ~BusyWith(r, p)
       /\ waiting[r][p] # {}
       /\ \A k \in waiting[r][p] : Heard(r, p, k) /\ Awaited(r, p, k)

AllWake == \A r \in Replicas, p \in Pods : Wakes(r, p)

LEMMA WakesEnough == AllWake => NoLostWakeup
BY DEF AllWake, Wakes, Covered, BusyWith, Awaited, NoLostWakeup

LEMMA InitWakes == Init => AllWake
BY DEF Init, AllWake, Wakes, Covered, CachedPod, Gated, NoPod

\* What a cache shows does not change because histories grow.
LEMMA CachedStays ==
    ASSUME IInv, Later, NEW r \in Replicas
    PROVE  /\ \A p \in Pods : podSeen'[r][p] = podSeen[r][p] =>
                 /\ CachedPod(r, p)' = CachedPod(r, p)
                 /\ podSeen[r][p] < Len(podLog[p]) => podSeen'[r][p] < Len(podLog'[p])
           /\ \A k \in Scans : scanSeen'[r][k] = scanSeen[r][k] =>
                 CachedScan(r, k)' = CachedScan(r, k)
<1>1. ASSUME NEW p \in Pods, podSeen'[r][p] = podSeen[r][p]
      PROVE  /\ CachedPod(r, p)' = CachedPod(r, p)
             /\ podSeen[r][p] < Len(podLog[p]) => podSeen'[r][p] < Len(podLog'[p])
  <2>1. /\ podSeen[r][p] \in 1 .. Len(podLog[p]) /\ podSeen[r][p] \in Nat
        /\ Len(podLog[p]) \in Nat
    BY CachedPodType
  <2>2. Grown(podLog[p], podLog'[p])
    BY DEF Later
  <2>3. QED  BY <1>1, <2>1, <2>2 DEF CachedPod, Grown
<1>2. ASSUME NEW k \in Scans, scanSeen'[r][k] = scanSeen[r][k]
      PROVE  CachedScan(r, k)' = CachedScan(r, k)
  <2>1. scanSeen[r][k] \in 1 .. Len(scanLog[k]) /\ Len(scanLog[k]) \in Nat
    BY CachedScanType
  <2>2. Grown(scanLog[k], scanLog'[k])
    BY DEF Later
  <2>3. QED  BY <1>2, <2>1, <2>2 DEF CachedScan, Grown
<1>3. QED  BY <1>1, <1>2

\* What keeps an ImageScan awaited: the caches stay and no notice goes.
LEMMA AwaitedStays ==
    ASSUME IInv, Later, NEW r \in Replicas, NEW p \in Pods, NEW k \in Scans, Awaited(r, p, k),
           podSeen'[r][p] = podSeen[r][p], scanSeen'[r][k] = scanSeen[r][k],
           \A i \in Images : <<r, k, i>> \in notices => <<r, k, i>> \in notices'
    PROVE  Awaited(r, p, k)'
<1>1. CachedPod(r, p)' = CachedPod(r, p) /\ CachedScan(r, k)' = CachedScan(r, k)
  BY CachedStays
<1>2. \A i \in Images : p \in MappedPods(r, k, i) => p \in MappedPods(r, k, i)'
  BY <1>1 DEF MappedPods
<1>3. QED  BY <1>1, <1>2 DEF Awaited

LEMMA HeardStays ==
    ASSUME IInv, Later, NEW r \in Replicas, NEW p \in Pods, NEW k \in Scans, Heard(r, p, k),
           podSeen'[r][p] = podSeen[r][p]
    PROVE  Heard(r, p, k)'
BY CachedStays DEF Heard, Later

LEMMA CoveredStays ==
    ASSUME IInv, Later, NEW r \in Replicas, NEW p \in Pods, Covered(r, p),
           podSeen'[r][p] = podSeen[r][p],
           <<r, p>> \in queue \cup delayed => <<r, p>> \in queue' \cup delayed'
    PROVE  Covered(r, p)'
BY CachedStays DEF Covered

\* The ImageScans of a reconcile are ImageScans.
LEMMA UnfinishedType ==
    ASSUME IInv, NEW r \in Replicas, worker[r] # Idle
    PROVE  Unfinished(worker[r]) \subseteq Scans
BY ScanOfType DEF IInv, Workers, Busy, Refs, Unfinished

LEMMA WakesStays ==
    ASSUME IInv, Later, NEW r \in Replicas, NEW p \in Pods, Wakes(r, p),
           podSeen'[r][p] = podSeen[r][p],
           \A k \in Scans : scanSeen'[r][k] = scanSeen[r][k],
           \A k \in Scans, i \in Images : <<r, k, i>> \in notices => <<r, k, i>> \in notices',
           <<r, p>> \in queue \cup delayed => <<r, p>> \in queue' \cup delayed',
           waiting'[r][p] = waiting[r][p],
           \/ worker'[r] = worker[r]
           \/ ~BusyWith(r, p) /\ (worker'[r] = Idle \/ worker'[r].key # p)
    PROVE  Wakes(r, p)'
<1>1. CASE Covered(r, p)
  BY <1>1, CoveredStays DEF Wakes
<1>2. CASE /\ BusyWith(r, p)
           /\ worker[r].snap = podSeen[r][p]
           /\ \A k \in Unfinished(worker[r]) : Awaited(r, p, k)
  <2>1. worker'[r] = worker[r] /\ BusyWith(r, p)'
    BY <1>2 DEF BusyWith
  <2>2. ASSUME NEW k \in Unfinished(worker[r])  PROVE Awaited(r, p, k)'
    BY <1>2, AwaitedStays, UnfinishedType DEF BusyWith
  <2>3. \A k \in Unfinished(worker[r])' : Awaited(r, p, k)'
    BY <2>1, <2>2 DEF Unfinished
  <2>4. QED  BY <1>2, <2>1, <2>3 DEF Wakes
<1>3. CASE /\ ~BusyWith(r, p)
           /\ waiting[r][p] # {}
           /\ \A k \in waiting[r][p] : Heard(r, p, k) /\ Awaited(r, p, k)
  <2>1. ~BusyWith(r, p)'
    BY <1>3 DEF BusyWith
  <2>2. waiting[r][p] \subseteq Scans
    BY DEF IInv, Queues
  <2>3. ASSUME NEW k \in waiting[r][p]  PROVE Heard(r, p, k)' /\ Awaited(r, p, k)'
    BY <1>3, <2>2, HeardStays, AwaitedStays
  <2>4. QED  BY <1>3, <2>1, <2>3 DEF Wakes
<1>4. QED  BY <1>1, <1>2, <1>3 DEF Wakes

\* Steps that leave caches, notices and workers alone and take nothing from
\* the queues.
LEMMA QuietStep ==
    ASSUME IInv, AllWake, Later, UNCHANGED <<podSeen, scanSeen, notices, waiting, worker>>,
           queue \cup delayed \subseteq queue' \cup delayed'
    PROVE  AllWake'
<1>1. ASSUME NEW r \in Replicas, NEW p \in Pods  PROVE Wakes(r, p)'
  <2>1. Wakes(r, p)
    BY DEF AllWake
  <2>2. /\ podSeen'[r][p] = podSeen[r][p] /\ waiting'[r][p] = waiting[r][p]
        /\ worker'[r] = worker[r]
        /\ \A k \in Scans : scanSeen'[r][k] = scanSeen[r][k]
        /\ \A k \in Scans, i \in Images : <<r, k, i>> \in notices => <<r, k, i>> \in notices'
        /\ <<r, p>> \in queue \cup delayed => <<r, p>> \in queue' \cup delayed'
    OBVIOUS
  <2>3. QED  BY <2>1, <2>2, WakesStays
<1>2. QED  BY <1>1 DEF AllWake

\* The queues and the results of r at p may change, those of others do not.
OthersKept(r, p) ==
    \A q \in Replicas, o \in Pods : <<q, o>> # <<r, p>> =>
        /\ waiting'[q][o] = waiting[q][o]
        /\ <<q, o>> \in queue \cup delayed => <<q, o>> \in queue' \cup delayed'

\* Steps of a worker at one pod: the other pods need not be looked at.
LEMMA WorkerStep ==
    ASSUME IInv, AllWake, Later, UNCHANGED <<podSeen, scanSeen, notices>>,
           NEW r \in Replicas, NEW p \in Pods, NEW w \in Busy \cup {Idle},
           worker' = [worker EXCEPT ![r] = w],
           worker[r] = Idle \/ worker[r].key = p, w = Idle \/ w.key = p,
           OthersKept(r, p), Wakes(r, p)'
    PROVE  AllWake'
<1>1. ASSUME NEW q \in Replicas, NEW o \in Pods, <<q, o>> # <<r, p>>
      PROVE  Wakes(q, o)'
  <2>1. worker \in [Replicas -> Busy \cup {Idle}]
    BY DEF IInv, Workers
  <2>2. \/ worker'[q] = worker[q]
        \/ ~BusyWith(q, o) /\ (worker'[q] = Idle \/ worker'[q].key # o)
    <3>1. CASE q # r  BY <2>1, <3>1
    <3>2. CASE q = r /\ o # p
      <4>1. worker'[q] = w
        BY <2>1, <3>2
      <4>2. ~BusyWith(q, o)
        BY <3>2 DEF BusyWith
      <4>3. worker'[q] = Idle \/ worker'[q].key # o
        BY <3>2, <4>1
      <4>4. QED  BY <4>2, <4>3
    <3>3. QED  BY <1>1, <3>1, <3>2
  <2>3. Wakes(q, o)
    BY DEF AllWake
  <2>4. /\ waiting'[q][o] = waiting[q][o]
        /\ <<q, o>> \in queue \cup delayed => <<q, o>> \in queue' \cup delayed'
    BY <1>1 DEF OthersKept
  <2>5. QED  BY <2>2, <2>3, <2>4, WakesStays
<1>2. QED  BY <1>1 DEF AllWake

LEMMA SkipWakes ==
    ASSUME IInv, AllWake, NEW r \in Replicas, NEW p \in Pods, Skip(r, p)
    PROVE  AllWake'
<1>1. /\ worker[r] = Idle /\ queue' = queue \ {<<r, p>>}
      /\ waiting' = [waiting EXCEPT ![r][p] = {}]
      /\ UNCHANGED <<podVars, scanVars, tagVars, delayed, notices, worker>>
      /\ Excluded(p) \/ ~Gated(CachedPod(r, p))
  BY DEF Skip, Dequeue, Ignored
<1>2. Later  BY <1>1, LaterUnwritten
<1>3. UNCHANGED <<podSeen, scanSeen, notices>>
  BY <1>1 DEF podVars, scanVars
<1>4. Wakes(r, p)'
  BY <1>1 DEF Wakes, Covered, CachedPod, podVars
<1>5. worker' = [worker EXCEPT ![r] = Idle]
  BY <1>1 DEF IInv, Workers
<1>6. OthersKept(r, p)
  BY <1>1 DEF OthersKept, IInv, Queues
<1>7. worker[r] = Idle
  BY <1>1
<1>8. QED  BY <1>2, <1>3, <1>4, <1>5, <1>6, <1>7, WorkerStep

LEMMA BeginWakes ==
    ASSUME IInv, AllWake, NEW r \in Replicas, NEW p \in Pods, Begin(r, p)
    PROVE  AllWake'
<1> DEFINE w == [pc |-> IF CachedPod(r, p).bypass \/ CachedPod(r, p).images = {}
                        THEN "release" ELSE "build",
                 key |-> p, snap |-> podSeen[r][p], todo |-> {}, refs |-> {},
                 left |-> {}, missing |-> {}, open |-> {}]
<1>1. /\ worker[r] = Idle /\ queue' = queue \ {<<r, p>>}
      /\ waiting' = [waiting EXCEPT ![r][p] = {}]
      /\ UNCHANGED <<podVars, scanVars, tagVars, delayed, notices>>
      /\ worker' = [worker EXCEPT ![r] = w]
  BY DEF Begin, Dequeue
<1>2. Later  BY <1>1, LaterUnwritten
<1>3. UNCHANGED <<podSeen, scanSeen, notices>>
  BY <1>1 DEF podVars, scanVars
<1>4. /\ w.key = p /\ w.snap = podSeen[r][p] /\ w.open = {} /\ w.missing = {} /\ w # Idle
  BY DEF Idle
<1> HIDE DEF w
<1>5. worker'[r] = w
  BY <1>1 DEF IInv, Workers
<1>6. BusyWith(r, p)' /\ worker'[r].snap = podSeen'[r][p] /\ Unfinished(worker[r])' = {}
  BY <1>3, <1>4, <1>5 DEF BusyWith, Unfinished
<1>7. Wakes(r, p)'
  BY <1>6 DEF Wakes
<1>8. OthersKept(r, p)
  BY <1>1 DEF OthersKept, IInv, Queues
<1>9. w \in Busy
  BY CachedPodType DEF Busy, w
<1>10. worker[r] = Idle /\ worker' = [worker EXCEPT ![r] = w] /\ w.key = p
  BY <1>1, <1>4
<1>11. QED  BY <1>2, <1>3, <1>7, <1>8, <1>9, <1>10, WorkerStep

\* The worker goes on with the same version of its pod.
LEMMA WorkerGoesOnWakes ==
    ASSUME IInv, AllWake, Later, UNCHANGED <<podSeen, scanSeen, notices, waiting, queue, delayed>>,
           NEW r \in Replicas, worker[r].pc \in {"build", "resolve", "check", "create", "release"},
           NEW w \in Busy, worker' = [worker EXCEPT ![r] = w],
           NEW p \in Pods, p = worker[r].key, w.key = p, w.snap = worker[r].snap,
           \A k \in Unfinished(w) :
              k \in Unfinished(worker[r]) \/ (k \in Scans /\ Awaited(r, p, k))
    PROVE  AllWake'
<1>1. worker[r] # Idle /\ worker[r] \in Busy
  BY BusyProperties
<1>2. p = worker[r].key
  OBVIOUS
<1>3. worker'[r] = w /\ w # Idle
  BY DEF IInv, Workers, Busy, Idle
<1>4. BusyWith(r, p) /\ BusyWith(r, p)'
  BY <1>1, <1>2, <1>3 DEF BusyWith
<1>5. Wakes(r, p)
  BY DEF AllWake
<1>6. Wakes(r, p)'
  <2>1. CASE Covered(r, p)
    BY <2>1, CoveredStays DEF Wakes
  <2>2. CASE ~Covered(r, p)
    <3>1. /\ worker[r].snap = podSeen[r][p]
          /\ \A k \in Unfinished(worker[r]) : Awaited(r, p, k)
      BY <1>4, <1>5, <2>2 DEF Wakes
    <3>2. ASSUME NEW k \in Unfinished(w)  PROVE Awaited(r, p, k)'
      <4>1. k \in Scans /\ Awaited(r, p, k)
        BY <1>1, <1>2, <3>1, UnfinishedType
      <4>2. QED  BY <4>1, AwaitedStays
    <3>3. \A k \in Unfinished(worker[r])' : Awaited(r, p, k)'
      BY <1>3, <3>2 DEF Unfinished
    <3>4. QED  BY <1>3, <1>4, <3>1, <3>3 DEF Wakes
  <2>3. QED  BY <2>1, <2>2
<1>7. OthersKept(r, p)
  BY DEF OthersKept
<1>8. QED  BY <1>2, <1>6, <1>7, WorkerStep

LEMMA ResolvingWakes ==
    ASSUME IInv, AllWake, NEW r \in Replicas, worker[r].pc \in {"build", "resolve"},
           UNCHANGED <<podVars, scanVars, tagVars, queue, delayed, notices, waiting, restarts>>,
           NEW todo \in SUBSET Images, NEW refs \in SUBSET Refs,
           Resolving(r, todo, refs)
    PROVE  AllWake'
<1> DEFINE w == [pc |-> IF todo = {} THEN "check" ELSE "resolve",
                 key |-> worker[r].key, snap |-> worker[r].snap, todo |-> todo, refs |-> refs,
                 left |-> IF todo = {} THEN refs ELSE {}, missing |-> {}, open |-> {}]
<1>1. worker' = [worker EXCEPT ![r] = w]
  BY DEF Resolving
<1>2. Later  BY LaterUnwritten
<1>3. UNCHANGED <<podSeen, scanSeen, notices, waiting, queue, delayed>>
  BY DEF podVars, scanVars
<1>4. w \in Busy
  BY BusyProperties DEF Busy
<1>5. w.key = worker[r].key /\ w.snap = worker[r].snap /\ Unfinished(w) = {}
  BY DEF Unfinished
<1> HIDE DEF w
<1>6. PICK p \in Pods : p = worker[r].key
  BY BusyProperties
<1>7. QED  BY <1>1, <1>2, <1>3, <1>4, <1>5, <1>6, WorkerGoesOnWakes

LEMMA TryAgainWakes ==
    ASSUME IInv, AllWake, Later, UNCHANGED <<podSeen, scanSeen, notices, waiting, queue>>,
           NEW r \in Replicas, worker[r].pc \in {"build", "resolve", "check", "create", "release"},
           TryAgain(r)
    PROVE  AllWake'
<1>1. PICK p \in Pods : p = worker[r].key
  BY BusyProperties
<1>2. worker' = [worker EXCEPT ![r] = Idle] /\ delayed' = delayed \cup {<<r, p>>}
  BY <1>1 DEF TryAgain
<1>3. Wakes(r, p)'
  BY <1>2 DEF Wakes, Covered
<1>4. OthersKept(r, p)
  BY <1>2 DEF OthersKept
<1>5. QED  BY <1>1, <1>2, <1>3, <1>4, WorkerStep

\* A reconcile that ends with scans open hears of each of them: it found them
\* for the images of the version that the cache still shows.
LEMMA SettleWakes ==
    ASSUME IInv, AllWake, Later, UNCHANGED <<podSeen, scanSeen, notices, queue, delayed>>,
           NEW r \in Replicas, worker[r].pc \in {"check", "create"},
           NEW p \in Pods, p = worker[r].key, NEW ref, NEW open \in SUBSET Scans,
           \A k \in open : \E ref2 \in worker[r].refs : k = ScanOf(p, ref2[2]),
           \A k \in open : k \in Unfinished(worker[r]) \/ Awaited(r, p, k),
           Settle(r, ref, open)
    PROVE  AllWake'
<1> DEFINE rest == worker[r].left \ {ref}
<1>1. worker[r] # Idle /\ worker[r] \in Busy /\ Reconciles(worker[r], Snapshot(r))
  BY BusyProperties
<1>2. p = worker[r].key
  OBVIOUS
<1> HIDE DEF rest
<1>3. CASE rest = {} /\ open # {}
  <2>1. /\ worker' = [worker EXCEPT ![r] = Idle]
        /\ waiting' = [waiting EXCEPT ![r][p] = open]
    BY <1>2, <1>3 DEF Settle, rest
  <2>2. waiting \in [Replicas -> [Pods -> SUBSET Scans]]
    BY DEF IInv, Queues
  <2>3. waiting'[r][p] = open /\ OthersKept(r, p)
    BY <2>1, <2>2 DEF OthersKept
  <2>4. ~BusyWith(r, p)'
    BY <2>1 DEF BusyWith, IInv, Workers
  <2>5. BusyWith(r, p) /\ Wakes(r, p)
    BY <1>1, <1>2 DEF BusyWith, AllWake
  <2>6. Wakes(r, p)'
    <3>1. CASE Covered(r, p)
      BY <3>1, CoveredStays DEF Wakes
    <3>2. CASE ~Covered(r, p)
      <4>1. /\ worker[r].snap = podSeen[r][p]
            /\ \A k \in Unfinished(worker[r]) : Awaited(r, p, k)
        BY <2>5, <3>2 DEF Wakes
      <4>2. Snapshot(r) = CachedPod(r, p)
        BY <1>2, <4>1 DEF Snapshot, CachedPod
      <4>3. ASSUME NEW k \in open  PROVE Heard(r, p, k)
        <5>1. PICK ref2 \in worker[r].refs : k = ScanOf(p, ref2[2])
          BY <1>2
        <5>2. ref2 \in Refs /\ ref2 \in served /\ ref2[1] \in CachedPod(r, p).images
          BY <1>1, <4>2 DEF Reconciles, Busy
        <5>3. k[2] = ref2[2] /\ <<ref2[1], ref2[2]>> \in served
          BY <5>1, <5>2, ScanOfType DEF Refs
        <5>4. QED  BY <5>1, <5>2, <5>3 DEF Heard
      <4>4. \A k \in open : Heard(r, p, k)' /\ Awaited(r, p, k)'
        BY <1>2, <4>1, <4>3, HeardStays, AwaitedStays
      <4>5. QED  BY <1>3, <2>3, <2>4, <4>4 DEF Wakes
    <3>3. QED  BY <3>1, <3>2
  <2>7. QED  BY <1>2, <2>1, <2>3, <2>6, WorkerStep
<1>4. CASE rest # {} \/ open = {}
  <2> DEFINE next == IF rest = {} THEN "release" ELSE "check"
             w == [pc |-> next, key |-> worker[r].key, snap |-> worker[r].snap,
                   todo |-> {}, refs |-> worker[r].refs, left |-> rest,
                   missing |-> {}, open |-> open]
  <2>1. worker' = [worker EXCEPT ![r] = w] /\ UNCHANGED waiting
    BY <1>4 DEF Settle, Checking, rest
  <2>2. w \in Busy
    BY <1>1 DEF Busy, rest
  <2>3. w.key = worker[r].key /\ w.snap = worker[r].snap /\ Unfinished(w) = open
    BY DEF Unfinished
  <2>4. PICK new \in Busy :
           /\ worker' = [worker EXCEPT ![r] = new]
           /\ new.key = p /\ new.snap = worker[r].snap /\ Unfinished(new) = open
    BY <1>2, <2>1, <2>2, <2>3
  <2>5. \A k \in Unfinished(new) :
           k \in Unfinished(worker[r]) \/ (k \in Scans /\ Awaited(r, p, k))
    BY <2>4
  <2>6. QED  BY <2>1, <2>4, <2>5, WorkerGoesOnWakes
<1>5. QED  BY <1>3, <1>4

LEMMA CheckScanWakes ==
    ASSUME IInv, AllWake, NEW r \in Replicas, NEW ref \in Refs, CheckScan(r, ref)
    PROVE  AllWake'
<1>1. /\ worker[r].pc = "check" /\ ref \in worker[r].left
      /\ UNCHANGED <<podVars, scanVars, tagVars, queue, delayed, notices>>
  BY DEF CheckScan
<1>2. /\ worker[r] \in Busy /\ worker[r].key \in Pods
      /\ Reconciles(worker[r], Snapshot(r))
  BY <1>1, BusyProperties
<1> PICK p \in Pods : p = worker[r].key
  BY <1>2
<1>3. PICK k \in Scans : k = ScanOf(p, ref[2])
  BY ScanOfType DEF Refs
<1>4. Later /\ UNCHANGED <<podSeen, scanSeen, notices, queue, delayed>>
  BY <1>1, LaterUnwritten DEF podVars, scanVars
<1>5. /\ worker[r].open \in SUBSET Scans /\ worker[r].open \subseteq Unfinished(worker[r])
      /\ \A j \in worker[r].open : \E ref2 \in worker[r].refs : j = ScanOf(p, ref2[2])
  BY <1>2 DEF Reconciles, Busy, Unfinished
<1>6. CASE /\ CachedScan(r, k) = NoObject
           /\ Checking(r, "create", worker[r].left, {ref}, worker[r].open) /\ UNCHANGED waiting
  <2> DEFINE w == [pc |-> "create", key |-> worker[r].key, snap |-> worker[r].snap,
                   todo |-> {}, refs |-> worker[r].refs, left |-> worker[r].left,
                   missing |-> {ref}, open |-> worker[r].open]
  <2>1. worker' = [worker EXCEPT ![r] = w] /\ UNCHANGED waiting
    BY <1>6 DEF Checking
  <2>2. w \in Busy
    BY <1>2 DEF Busy
  <2>3. w.key = worker[r].key /\ w.snap = worker[r].snap /\ Unfinished(w) = worker[r].open \cup {k}
    BY <1>3 DEF Unfinished
  <2>4. PICK new \in Busy :
           /\ worker' = [worker EXCEPT ![r] = new]
           /\ new.key = p /\ new.snap = worker[r].snap
           /\ Unfinished(new) = worker[r].open \cup {k}
    BY <2>1, <2>2, <2>3
  <2> HIDE DEF w
  <2>5. Awaited(r, p, k)
    BY <1>6 DEF Awaited, NoObject
  <2>6. \A j \in Unfinished(new) :
           j \in Unfinished(worker[r]) \/ (j \in Scans /\ Awaited(r, p, j))
    BY <1>5, <2>4, <2>5
  <2>7. QED  BY <1>1, <1>4, <2>1, <2>4, <2>6, WorkerGoesOnWakes
<1>7. CASE Settle(r, ref, worker[r].open)
  BY <1>1, <1>4, <1>5, <1>7, SettleWakes
<1>8. CASE CachedScan(r, k).phase # "Registered" /\ Settle(r, ref, worker[r].open \cup {k})
  <2>1. Awaited(r, p, k) /\ ref \in worker[r].refs
    BY <1>1, <1>2, <1>8 DEF Awaited, Reconciles
  <2> DEFINE open == worker[r].open \cup {k}
  <2>2. /\ open \in SUBSET Scans
        /\ \A j \in open : \E ref2 \in worker[r].refs : j = ScanOf(p, ref2[2])
        /\ \A j \in open : j \in Unfinished(worker[r]) \/ Awaited(r, p, j)
    BY <1>3, <1>5, <2>1
  <2> HIDE DEF open
  <2>3. Settle(r, ref, open)
    BY <1>8 DEF open
  <2>4. QED  BY <1>1, <1>4, <2>2, <2>3, SettleWakes
<1>9. QED  BY <1>3, <1>6, <1>7, <1>8 DEF CheckScan

\* An ImageScan that is created had been missing in the cache; whatever the
\* cache has seen of it since is a notice on its way.
LEMMA CreateScanWakes ==
    ASSUME IInv, AllWake, Later, NEW r \in Replicas, CreateScan(r)
    PROVE  AllWake'
<1>1. /\ worker[r].pc = "create" /\ UNCHANGED <<podSeen, scanSeen, notices, queue, delayed>>
  BY DEF CreateScan, podVars
<1>2. PICK ref \in worker[r].missing :
         Settle(r, ref, worker[r].open \cup {ScanOf(worker[r].key, ref[2])})
  BY DEF CreateScan
<1>3. /\ worker[r] \in Busy /\ Reconciles(worker[r], Snapshot(r))
  BY <1>1, BusyProperties
<1> PICK p \in Pods : p = worker[r].key
  BY <1>3 DEF Busy
<1>4. ScanOf(p, ref[2]) \in Scans /\ ref \in worker[r].refs
  BY <1>1, <1>3, NewScanProperties DEF Reconciles
<1> DEFINE open == worker[r].open \cup {ScanOf(p, ref[2])}
<1>5. open \in SUBSET Scans /\ open \subseteq Unfinished(worker[r])
  BY <1>3, <1>4 DEF Busy, Unfinished
<1>6. \A j \in open : \E ref2 \in worker[r].refs : j = ScanOf(p, ref2[2])
  BY <1>3, <1>4 DEF Reconciles
<1> HIDE DEF open
<1>7. Settle(r, ref, open)
  BY <1>2 DEF open
<1>8. QED  BY <1>1, <1>5, <1>6, <1>7, SettleWakes

\* The pod that was released is not current in the cache any more.
LEMMA ReleaseOkWakes ==
    ASSUME IInv, AllWake, Later, NEW r \in Replicas, ReleaseOk(r)
    PROVE  AllWake'
<1>1. /\ worker[r].pc = "release" /\ StoreRelease(r) /\ worker' = [worker EXCEPT ![r] = Idle]
      /\ UNCHANGED <<podSeen, scanSeen, notices, waiting, queue, delayed>>
  BY DEF ReleaseOk, scanVars
<1>2. PICK p \in Pods, o \in PodObject :
         p = worker[r].key /\ o # Latest(podLog[p]) /\ WritesPod(p, o)
  BY <1>1, StoreReleaseProperties
<1>3. Len(podLog'[p]) > Len(podLog[p])
  BY <1>2, PodWriteProperties
<1>4. podSeen[r][p] \in 1 .. Len(podLog[p]) /\ podSeen[r][p] \in Nat /\ Len(podLog[p]) \in Nat
  BY CachedPodType
<1>5. Len(podLog'[p]) \in Nat
  BY DEF Later, Grown
<1>6. Wakes(r, p)'
  BY <1>1, <1>3, <1>4, <1>5 DEF Wakes, Covered
<1>7. OthersKept(r, p)
  BY <1>1 DEF OthersKept
<1>8. QED  BY <1>1, <1>2, <1>6, <1>7, WorkerStep

\* A notice that is mapped puts the pods it maps to into the queue.
LEMMA MapScanWakes ==
    ASSUME IInv, AllWake, NEW r \in Replicas, NEW k \in Scans, NEW i \in Images, MapScan(r, k, i)
    PROVE  AllWake'
<1>1. /\ notices' = notices \ {<<r, k, i>>}
      /\ queue' = queue \cup {<<r, p>> : p \in MappedPods(r, k, i)}
      /\ UNCHANGED <<podVars, scanVars, tagVars, delayed, worker, waiting>>
  BY DEF MapScan
<1>2. Later  BY <1>1, LaterUnwritten
<1>3. UNCHANGED <<podSeen, scanSeen>>
  BY <1>1 DEF podVars, scanVars
<1>4. ASSUME NEW q \in Replicas, NEW p \in Pods  PROVE Wakes(q, p)'
  <2>1. CASE q = r /\ p \in MappedPods(r, k, i)
    <3>1. <<q, p>> \in queue'
      BY <1>1, <2>1
    <3>2. QED  BY <3>1 DEF Wakes, Covered
  <2>2. CASE Covered(q, p)
    BY <1>1, <1>2, <1>3, <2>2, CoveredStays DEF Wakes
  <2>3. CASE ~Covered(q, p) /\ ~(q = r /\ p \in MappedPods(r, k, i))
    <3>1. Wakes(q, p)
      BY DEF AllWake
    <3>2. ASSUME NEW j \in Scans, Awaited(q, p, j)  PROVE Awaited(q, p, j)'
      <4>1. CachedPod(q, p)' = CachedPod(q, p) /\ CachedScan(q, j)' = CachedScan(q, j)
        BY <1>2, <1>3, CachedStays
      <4>2. \A h \in Images : p \in MappedPods(q, j, h) => p \in MappedPods(q, j, h)'
        BY <4>1 DEF MappedPods
      <4>3. CASE CachedScan(q, j).phase # "Registered"
        BY <4>1, <4>3 DEF Awaited
      <4>4. CASE \E h \in Images : <<q, j, h>> \in notices /\ p \in MappedPods(q, j, h)
        <5>1. PICK h \in Images : <<q, j, h>> \in notices /\ p \in MappedPods(q, j, h)
          BY <4>4
        <5>2. <<q, j, h>> # <<r, k, i>>
          BY <2>3, <5>1
        <5>3. <<q, j, h>> \in notices'
          BY <1>1, <5>1, <5>2
        <5>4. QED  BY <4>2, <5>1, <5>3 DEF Awaited
      <4>5. QED  BY <3>2, <4>3, <4>4 DEF Awaited
    <3>3. CASE BusyWith(q, p)
      <4>1. /\ worker[q] # Idle /\ worker[q].snap = podSeen[q][p]
            /\ \A j \in Unfinished(worker[q]) : Awaited(q, p, j)
        BY <2>3, <3>1, <3>3 DEF Wakes, BusyWith
      <4>2. \A j \in Unfinished(worker[q]) : Awaited(q, p, j)'
        BY <3>2, <4>1, UnfinishedType
      <4>3. BusyWith(q, p)' /\ Unfinished(worker[q])' = Unfinished(worker[q])
        BY <1>1, <3>3 DEF BusyWith, Unfinished
      <4>4. QED  BY <1>1, <1>3, <4>1, <4>2, <4>3 DEF Wakes
    <3>4. CASE ~BusyWith(q, p)
      <4>1. waiting[q][p] # {} /\ \A j \in waiting[q][p] : Heard(q, p, j) /\ Awaited(q, p, j)
        BY <2>3, <3>1, <3>4 DEF Wakes
      <4>2. waiting[q][p] \subseteq Scans
        BY DEF IInv, Queues
      <4>3. \A j \in waiting[q][p] : Heard(q, p, j)' /\ Awaited(q, p, j)'
        BY <1>2, <1>3, <3>2, <4>1, <4>2, HeardStays
      <4>4. ~BusyWith(q, p)'
        BY <1>1, <3>4 DEF BusyWith
      <4>5. QED  BY <1>1, <4>1, <4>3, <4>4 DEF Wakes
    <3>5. QED  BY <3>3, <3>4
  <2>4. QED  BY <2>1, <2>2, <2>3
<1>5. QED  BY <1>4 DEF AllWake

\* A newer version of a pod is queued, if it is gated.
LEMMA DeliverPodWakes ==
    ASSUME IInv, AllWake, NEW r \in Replicas, NEW p \in Pods, DeliverPod(r, p)
    PROVE  AllWake'
<1>1. PICK v \in NewerVersions(podLog[p], podSeen[r][p]) :
         /\ podSeen' = [podSeen EXCEPT ![r][p] = v]
         /\ queue' = IF \/ Gated(podLog[p][v])
                        \/ podLog[p][v] = NoPod /\ Gated(CachedPod(r, p))
                     THEN queue \cup {<<r, p>>} ELSE queue
         /\ UNCHANGED <<podLog, scanVars, tagVars, delayed, notices, worker, waiting>>
  BY DEF DeliverPod
<1>2. Later
  BY <1>1, NothingWritten DEF scanVars, tagVars
<1>3. podSeen \in [Replicas -> [Pods -> Nat]]
  BY DEF IInv, Caches
<1>4. /\ podSeen'[r][p] = v
      /\ \A q \in Replicas, o \in Pods : <<q, o>> # <<r, p>> => podSeen'[q][o] = podSeen[q][o]
  BY <1>1, <1>3
<1>5. Wakes(r, p)'
  <2>1. CachedPod(r, p)' = podLog[p][v]
    BY <1>1, <1>4 DEF CachedPod
  <2>2. Gated(podLog[p][v]) => <<r, p>> \in queue'
    BY <1>1
  <2>3. QED  BY <2>1, <2>2 DEF Wakes, Covered, Gated
<1>6. ASSUME NEW q \in Replicas, NEW o \in Pods, <<q, o>> # <<r, p>>  PROVE Wakes(q, o)'
  <2>1. Wakes(q, o)
    BY DEF AllWake
  <2>2. /\ podSeen'[q][o] = podSeen[q][o] /\ waiting'[q][o] = waiting[q][o]
        /\ worker'[q] = worker[q]
        /\ \A k \in Scans : scanSeen'[q][k] = scanSeen[q][k]
        /\ \A k \in Scans, i \in Images : <<q, k, i>> \in notices => <<q, k, i>> \in notices'
        /\ <<q, o>> \in queue \cup delayed => <<q, o>> \in queue' \cup delayed'
    BY <1>1, <1>4, <1>6 DEF scanVars
  <2>3. QED  BY <1>2, <2>1, <2>2, WakesStays
<1>7. QED  BY <1>5, <1>6 DEF AllWake

\* An ImageScan that its cache shows as passed has its label on the image that
\* the pod has, because the image determines the digest.
LEMMA DeliverScanAwaited ==
    ASSUME NoSharedDigest, IInv, NEW r \in Replicas, NEW p \in Pods, NEW k \in Scans,
           NEW v \in 1 .. Len(scanLog[k]),
           Heard(r, p, k), Gated(CachedPod(r, p)), ~Excluded(p),
           scanLog[k][v].phase = "Registered"
    PROVE  \E i \in Images : <<r, k, i>> \in NoticesOf(r, k, scanLog[k][v]) /\ p \in MappedPods(r, k, i)
<1>1. PICK i \in CachedPod(r, p).images : <<i, k[2]>> \in served
  BY DEF Heard
<1>2. i \in Images
  BY CachedPodType DEF Pod
<1>3. scanLog[k][v] \in ScanObject /\ scanLog[k][v] # NoObject
  BY DEF IInv, Histories, NoObject
<1>4. scanLog[k][v].image \in Images /\ <<scanLog[k][v].image, k[2]>> \in served
  BY <1>3 DEF IInv, World, ScanObject, Scan
<1>5. k[2] \in DigestsOf[i] /\ k[2] \in DigestsOf[scanLog[k][v].image]
  BY <1>1, <1>4 DEF IInv, World
<1>6. scanLog[k][v].image = i
  BY <1>2, <1>4, <1>5 DEF NoSharedDigest
<1>7. p \in MappedPods(r, k, i)
  BY <1>1 DEF MappedPods, Heard
<1>8. <<r, k, i>> \in NoticesOf(r, k, scanLog[k][v])
  BY <1>6 DEF NoticesOf, Terminal
<1>9. QED  BY <1>2, <1>7, <1>8

LEMMA DeliverScanWakes ==
    ASSUME NoSharedDigest, IInv, AllWake, NEW r \in Replicas, NEW k \in Scans, DeliverScan(r, k)
    PROVE  AllWake'
<1>1. PICK v \in NewerVersions(scanLog[k], scanSeen[r][k]) :
         /\ scanSeen' = [scanSeen EXCEPT ![r][k] = v]
         /\ notices' = notices \cup NoticesOf(r, k, CachedScan(r, k))
                               \cup NoticesOf(r, k, scanLog[k][v])
         /\ UNCHANGED <<podVars, scanLog, tagVars, queue, delayed, worker, waiting>>
  BY DEF DeliverScan
<1>2. Later
  BY <1>1, NothingWritten DEF podVars, tagVars
<1>3. scanSeen \in [Replicas -> [Scans -> Nat]]
  BY DEF IInv, Caches
<1>4. /\ scanSeen'[r][k] = v
      /\ \A q \in Replicas, j \in Scans : <<q, j>> # <<r, k>> => scanSeen'[q][j] = scanSeen[q][j]
  BY <1>1, <1>3
<1>5. UNCHANGED podSeen /\ notices \subseteq notices'
  BY <1>1 DEF podVars
<1>6. v \in 1 .. Len(scanLog[k]) /\ CachedScan(r, k)' = scanLog[k][v]
  BY <1>1, <1>4, CachedScanType DEF NewerVersions, CachedScan
<1>7. ASSUME NEW q \in Replicas, NEW p \in Pods, ~Covered(q, p), NEW j \in Scans,
             Heard(q, p, j), Awaited(q, p, j)
      PROVE  Awaited(q, p, j)'
  <2>1. CASE <<q, j>> # <<r, k>>
    BY <1>2, <1>4, <1>5, <1>7, <2>1, AwaitedStays
  <2>2. CASE q = r /\ j = k /\ scanLog[k][v].phase = "Registered"
    <3>1. PICK i \in Images : <<q, j, i>> \in NoticesOf(r, k, scanLog[k][v]) /\ p \in MappedPods(q, j, i)
      BY <1>6, <1>7, <2>2, DeliverScanAwaited DEF Covered
    <3>2. p \in MappedPods(q, j, i)'
      BY <1>2, <1>5, <3>1, CachedStays DEF MappedPods
    <3>3. QED  BY <1>1, <3>1, <3>2 DEF Awaited
  <2>3. CASE q = r /\ j = k /\ scanLog[k][v].phase # "Registered"
    <3>1. CachedScan(q, j)' = scanLog[k][v]
      BY <1>1, <1>4, <2>3 DEF CachedScan
    <3>2. QED  BY <2>3, <3>1 DEF Awaited
  <2>4. QED  BY <2>1, <2>2, <2>3
<1>8. ASSUME NEW q \in Replicas, NEW p \in Pods  PROVE Wakes(q, p)'
  <2>1. CASE Covered(q, p)
    BY <1>1, <1>2, <1>5, <2>1, CoveredStays DEF Wakes
  <2>2. CASE ~Covered(q, p) /\ BusyWith(q, p)
    <3>1. /\ worker[q] # Idle /\ worker[q].key = p /\ worker[q].snap = podSeen[q][p]
          /\ \A j \in Unfinished(worker[q]) : Awaited(q, p, j)
      BY <2>2 DEF AllWake, Wakes, BusyWith
    <3>2. worker[q] \in Busy /\ Reconciles(worker[q], Snapshot(q))
      BY <3>1 DEF IInv, Workers, WorkerOK
    <3>3. Snapshot(q) = CachedPod(q, p)
      BY <3>1 DEF Snapshot, CachedPod
    <3>4. ASSUME NEW j \in Unfinished(worker[q])  PROVE j \in Scans /\ Heard(q, p, j)
      <4>1. PICK ref \in worker[q].refs : j = ScanOf(p, ref[2])
        BY <3>1, <3>2 DEF Unfinished, Reconciles
      <4>2. ref \in Refs /\ ref \in served /\ ref[1] \in CachedPod(q, p).images
        BY <3>2, <3>3 DEF Reconciles, Busy
      <4>3. j[2] = ref[2] /\ <<ref[1], ref[2]>> \in served /\ j \in Scans
        BY <4>1, <4>2, ScanOfType DEF Refs
      <4>4. QED  BY <4>1, <4>2, <4>3 DEF Heard
    <3>5. \A j \in Unfinished(worker[q]) : Awaited(q, p, j)'
      BY <1>7, <2>2, <3>1, <3>4
    <3>6. BusyWith(q, p)' /\ Unfinished(worker[q])' = Unfinished(worker[q])
      BY <1>1, <2>2 DEF BusyWith, Unfinished
    <3>7. QED  BY <1>1, <1>5, <3>1, <3>5, <3>6 DEF Wakes
  <2>3. CASE ~Covered(q, p) /\ ~BusyWith(q, p)
    <3>1. waiting[q][p] # {} /\ \A j \in waiting[q][p] : Heard(q, p, j) /\ Awaited(q, p, j)
      BY <2>3 DEF AllWake, Wakes
    <3>2. waiting[q][p] \subseteq Scans
      BY DEF IInv, Queues
    <3>3. \A j \in waiting[q][p] : Heard(q, p, j)' /\ Awaited(q, p, j)'
      BY <1>2, <1>5, <1>7, <2>3, <3>1, <3>2, HeardStays
    <3>4. ~BusyWith(q, p)'
      BY <1>1, <2>3 DEF BusyWith
    <3>5. QED  BY <1>1, <3>1, <3>3, <3>4 DEF Wakes
  <2>4. QED  BY <2>1, <2>2, <2>3
<1>9. QED  BY <1>8 DEF AllWake

LEMMA RestartWakes ==
    ASSUME IInv, AllWake, NEW r \in Replicas, Restart(r)
    PROVE  AllWake'
<1>1. /\ podSeen' = [podSeen EXCEPT ![r] = [p \in Pods |-> Len(podLog[p])]]
      /\ scanSeen' = [scanSeen EXCEPT ![r] = [k \in Scans |-> Len(scanLog[k])]]
      /\ worker' = [worker EXCEPT ![r] = Idle]
      /\ waiting' = [waiting EXCEPT ![r] = [p \in Pods |-> {}]]
      /\ queue' = {rp \in queue : rp[1] # r}
                    \cup {<<r, p>> : p \in {p \in Pods : Gated(Latest(podLog[p]))}}
      /\ delayed' = {rp \in delayed : rp[1] # r}
      /\ notices' = {n \in notices : n[1] # r}
                      \cup UNION {NoticesOf(r, k, Latest(scanLog[k])) : k \in Scans}
      /\ UNCHANGED <<podLog, scanLog, tagVars>>
  BY DEF Restart
<1>2. Later
  BY <1>1, NothingWritten DEF tagVars
<1>3. ASSUME NEW p \in Pods  PROVE Wakes(r, p)'
  <2>1. CachedPod(r, p)' = Latest(podLog[p])
    BY <1>1 DEF CachedPod, Latest, IInv, Caches
  <2>2. Gated(Latest(podLog[p])) => <<r, p>> \in queue'
    BY <1>1
  <2>3. QED  BY <2>1, <2>2 DEF Wakes, Covered, Gated
<1>4. ASSUME NEW q \in Replicas, NEW p \in Pods, q # r  PROVE Wakes(q, p)'
  <2>1. Wakes(q, p)
    BY DEF AllWake
  <2>2. /\ podSeen'[q][p] = podSeen[q][p] /\ waiting'[q][p] = waiting[q][p]
        /\ worker'[q] = worker[q]
        /\ \A k \in Scans : scanSeen'[q][k] = scanSeen[q][k]
    BY <1>1, <1>4 DEF IInv, Caches, Queues, Workers
  <2>3. /\ \A k \in Scans, i \in Images : <<q, k, i>> \in notices => <<q, k, i>> \in notices'
        /\ <<q, p>> \in queue \cup delayed => <<q, p>> \in queue' \cup delayed'
    BY <1>1, <1>4
  <2>4. QED  BY <1>2, <2>1, <2>2, <2>3, WakesStays
<1>5. QED  BY <1>3, <1>4 DEF AllWake

LEMMA CreateLater ==
    ASSUME IInv, NEW r \in Replicas, CreateScan(r) \/ CreateFails(r)
    PROVE  Later
<1>1. worker[r].pc \in {"check", "create"} /\ UNCHANGED <<podLog, served>>
  BY DEF CreateScan, CreateFails, podVars, tagVars
<1>2. CASE UNCHANGED scanLog
  BY <1>1, <1>2, NothingWritten
<1>3. CASE \E ref \in worker[r].missing : StoreNewScan(ScanOf(worker[r].key, ref[2]), ref[1])
  <2>1. PICK ref \in worker[r].missing : StoreNewScan(ScanOf(worker[r].key, ref[2]), ref[1])
    BY <1>3
  <2>2. PICK k \in Scans : k = ScanOf(worker[r].key, ref[2])
    BY <1>1, NewScanProperties
  <2>3. PICK new \in ScanObject : new = NewScan(ref[1])
    BY <1>1, NewScanProperties
  <2>4. WritesScan(k, new)
    BY <2>1, <2>2, <2>3 DEF StoreNewScan, WritesScan
  <2>5. QED  BY <1>1, <2>4, ScanWritten
<1>4. QED  BY <1>2, <1>3 DEF CreateScan, CreateFails

LEMMA ReleaseLater ==
    ASSUME IInv, NEW r \in Replicas, ReleaseOk(r) \/ ReleaseFails(r)
    PROVE  Later
<1>1. worker[r].pc = "release" /\ UNCHANGED <<scanLog, served>>
  BY DEF ReleaseOk, ReleaseFails, scanVars, tagVars
<1>2. CASE UNCHANGED podLog
  BY <1>1, <1>2, NothingWritten
<1>3. CASE StoreRelease(r)
  <2>1. PICK p \in Pods, o \in PodObject : WritesPod(p, o)
    BY <1>1, <1>3, StoreReleaseProperties
  <2>2. QED  BY <1>1, <2>1, PodWritten
<1>4. QED  BY <1>2, <1>3 DEF ReleaseOk, ReleaseFails

LEMMA ReconcileWakes ==
    ASSUME IInv, AllWake, NEW r \in Replicas, Reconcile(r)
    PROVE  AllWake'
<1>1. ASSUME NEW p \in Pods, Skip(r, p) \/ Begin(r, p)  PROVE AllWake'
  BY <1>1, SkipWakes, BeginWakes
<1>2. CASE BuildResolver(r)
  <2> DEFINE todo == Snapshot(r).images \ PinnedImages
             refs == {<<i, tag[i]>> : i \in Snapshot(r).images \cap PinnedImages}
  <2>1. /\ worker[r].pc = "build" /\ Resolving(r, todo, refs)
        /\ UNCHANGED <<podVars, scanVars, tagVars, queue, delayed, notices, waiting, restarts>>
    BY <1>2 DEF BuildResolver
  <2>2. Snapshot(r).images \subseteq Images
    BY <2>1, BusyProperties
  <2>3. todo \in SUBSET Images /\ refs \in SUBSET Refs
    BY <2>2 DEF IInv, World, Refs
  <2> HIDE DEF todo, refs
  <2>4. QED  BY <2>1, <2>3, ResolvingWakes
<1>3. ASSUME NEW i \in Images, ResolveImage(r, i)  PROVE AllWake'
  <2> DEFINE todo == worker[r].todo \ {i}
             refs == worker[r].refs \cup {<<i, tag[i]>>}
  <2>1. /\ worker[r].pc = "resolve" /\ Resolving(r, todo, refs)
        /\ UNCHANGED <<podVars, scanVars, tagVars, queue, delayed, notices, waiting, restarts>>
    BY <1>3 DEF ResolveImage
  <2>2. worker[r] \in Busy
    BY <2>1, BusyProperties
  <2>3. todo \in SUBSET Images /\ refs \in SUBSET Refs
    BY <2>2 DEF IInv, World, Refs, Busy
  <2> HIDE DEF todo, refs
  <2>4. QED  BY <2>1, <2>3, ResolvingWakes
<1>4. CASE ResolveFails(r)
  BY <1>4, LaterUnwritten, TryAgainWakes DEF ResolveFails, podVars, scanVars
<1>5. ASSUME NEW ref \in Refs, CheckScan(r, ref)  PROVE AllWake'
  BY <1>5, CheckScanWakes
<1>6. CASE CreateScan(r)
  BY <1>6, CreateLater, CreateScanWakes
<1>7. CASE CreateFails(r)
  <2>1. /\ worker[r].pc \in {"check", "create"} /\ TryAgain(r)
        /\ UNCHANGED <<podSeen, scanSeen, notices, waiting, queue>>
    BY <1>7 DEF CreateFails, podVars
  <2>2. QED  BY <1>7, <2>1, CreateLater, TryAgainWakes
<1>8. CASE ReleaseOk(r)
  BY <1>8, ReleaseLater, ReleaseOkWakes
<1>9. CASE ReleaseFails(r)
  <2>1. /\ worker[r].pc = "release" /\ TryAgain(r)
        /\ UNCHANGED <<podSeen, scanSeen, notices, waiting, queue>>
    BY <1>9 DEF ReleaseFails, scanVars
  <2>2. QED  BY <1>9, <2>1, ReleaseLater, TryAgainWakes
<1>10. QED  BY <1>1, <1>2, <1>3, <1>4, <1>5, <1>6, <1>7, <1>8, <1>9 DEF Reconcile

LEMMA ProcessWakes ==
    ASSUME NoSharedDigest, IInv, AllWake, NEW r \in Replicas, Process(r)
    PROVE  AllWake'
<1>1. ASSUME NEW p \in Pods, TimerFires(r, p) \/ ResyncPod(r, p)  PROVE AllWake'
  <2>1. /\ UNCHANGED <<podVars, scanVars, tagVars>>
        /\ UNCHANGED <<podSeen, scanSeen, notices, waiting, worker>>
    BY <1>1 DEF TimerFires, ResyncPod, podVars, scanVars
  <2>2. queue \cup delayed \subseteq queue' \cup delayed'
    BY <1>1 DEF TimerFires, ResyncPod
  <2>3. QED  BY <2>1, <2>2, LaterUnwritten, QuietStep
<1>2. QED  BY <1>1, DeliverPodWakes, DeliverScanWakes, MapScanWakes DEF Process

LEMMA OutsideWakes ==
    ASSUME IInv, AllWake, UNCHANGED <<podSeen, scanSeen, workVars>>, Later
    PROVE  AllWake'
BY QuietStep DEF workVars

LEMMA UsersLater ==
    ASSUME IInv, NEW p \in Pods, CreatePod(p) \/ EditPod(p) \/ DeletePod(p)
    PROVE  Later /\ UNCHANGED <<podSeen, scanSeen, workVars>>
<1>1. PICK o \in PodObject : StorePod(p, o)
  BY DEF CreatePod, EditPod, DeletePod, UserEdits, PodObject
<1>2. WritesPod(p, o) /\ UNCHANGED <<podSeen, scanVars, tagVars, workVars>>
  BY <1>1 DEF StorePod, WritesPod
<1>3. QED  BY <1>2, PodWritten DEF scanVars, tagVars

LEMMA ScansLater ==
    ASSUME IInv, NEW k \in Scans, OthersCreateScan(k) \/ DeleteScan(k) \/ ScanProgresses(k)
    PROVE  Later /\ UNCHANGED <<podSeen, scanSeen, workVars>>
<1>1. \E o \in ScanObject : StoreScan(k, o)
  <2>1. CASE OthersCreateScan(k)
    <3>1. PICK i \in Images : StoreScan(k, NewScan(i))
      BY <2>1 DEF OthersCreateScan
    <3>2. NewScan(i) \in ScanObject
      BY DEF NewScan, Scan, ScanObject, Phases
    <3>3. QED  BY <3>1, <3>2
  <2>2. CASE DeleteScan(k)
    BY <2>2 DEF DeleteScan, ScanObject
  <2>3. CASE ScanProgresses(k)
    BY <2>3, ScanProgressesProperties DEF ScanObject
  <2>4. QED  BY <2>1, <2>2, <2>3
<1>2. PICK o \in ScanObject : StoreScan(k, o)
  BY <1>1
<1>3. WritesScan(k, o) /\ UNCHANGED <<podVars, scanSeen, tagVars, workVars>>
  BY <1>2 DEF StoreScan, WritesScan
<1>4. QED  BY <1>3, ScanWritten DEF podVars, tagVars

LEMMA StepWakes == NoSharedDigest /\ IInv /\ AllWake /\ [Next]_vars => AllWake'
<1> SUFFICES ASSUME NoSharedDigest, IInv, AllWake, [Next]_vars PROVE AllWake'
  OBVIOUS
<1>1. ASSUME NEW r \in Replicas, Reconcile(r) \/ Process(r) \/ Restart(r)  PROVE AllWake'
  BY <1>1, ReconcileWakes, ProcessWakes, RestartWakes
<1>2. CASE Users
  <2>1. ASSUME NEW p \in Pods, CreatePod(p) \/ EditPod(p) \/ DeletePod(p)  PROVE AllWake'
    BY <2>1, UsersLater, OutsideWakes
  <2>2. ASSUME NEW k \in Scans, OthersCreateScan(k) \/ DeleteScan(k)  PROVE AllWake'
    BY <2>2, ScansLater, OutsideWakes
  <2>3. QED  BY <1>2, <2>1, <2>2 DEF Users
<1>3. ASSUME NEW k \in Scans, ScanProgresses(k)  PROVE AllWake'
  BY <1>3, ScansLater, OutsideWakes
<1>4. ASSUME NEW i \in Images, MoveTag(i)  PROVE AllWake'
  <2>1. /\ UNCHANGED <<podSeen, scanSeen, workVars>> /\ UNCHANGED <<podLog, scanLog>>
        /\ served \subseteq served'
    BY <1>4 DEF MoveTag, podVars, scanVars
  <2>2. QED  BY <2>1, NothingWritten, OutsideWakes
<1>5. CASE UNCHANGED vars
  BY <1>5, LaterUnwritten, OutsideWakes DEF vars, podVars, scanVars
<1>6. QED  BY <1>1, <1>2, <1>3, <1>4, <1>5 DEF Next

\* While no two images share a digest, no wake-up is lost: a pod that is left
\* waiting is waiting for an ImageScan whose verdict its process has not seen,
\* or whose notice is about to be mapped to the pod, however often versions
\* are skipped, pods are edited during a reconcile and processes restarted.
THEOREM NothingLost == NoSharedDigest => (Spec => []NoLostWakeup)
<1> SUFFICES ASSUME NoSharedDigest PROVE Spec => []NoLostWakeup
  OBVIOUS
<1>1. IInv /\ AllWake /\ [Next]_vars => AllWake'
  BY StepWakes
<1>2. Spec => []AllWake
  BY InitWakes, Invariance, <1>1, PTL DEF Spec
<1>3. QED  BY <1>2, WakesEnough, PTL
=============================================================================
