--------------------- MODULE ImageScanControllerProofs ---------------------
(***************************************************************************)
(* Proofs about ImageScanController, for any number of replicas, images    *)
(* and digests.                                                            *)
(***************************************************************************)
EXTENDS ImageScanController, SequenceTheorems, TLAPS

USE ImageAssumption, ControllerAssumption

-----------------------------------------------------------------------------
(* Histories *)

\* The history of an object grows at its end: Record keeps every version and
\* makes the recorded object the latest one.
LEMMA RecordProperties ==
    ASSUME NEW h \in Seq(Object), Len(h) >= 1, NEW o \in Object
    PROVE  /\ Record(h, o) \in Seq(Object)
           /\ Len(Record(h, o)) \in Nat
           /\ Len(Record(h, o)) >= Len(h)
           /\ Latest(Record(h, o)) = o
           /\ \A v \in 1 .. Len(h) : Record(h, o)[v] = h[v]
           /\ \A v \in 1 .. Len(Record(h, o)) : v \in 1 .. Len(h) \/ Record(h, o)[v] = o
           /\ Latest(h) # o => Len(Record(h, o)) > Len(h)
<1>1. Len(h) \in Nat  BY LenProperties
<1>2. CASE Latest(h) = o
  BY <1>1, <1>2 DEF Record, Latest
<1>3. CASE Latest(h) # o
  <2>1. Record(h, o) = Append(h, o)  BY <1>3 DEF Record
  <2>2. QED  BY <1>1, <2>1, AppendProperties DEF Latest
<1>4. QED  BY <1>2, <1>3

\* A history that has grown: a version that could be read can still be read.
Grown(j) ==
    /\ Len(scanLog'[j]) \in Nat
    /\ Len(scanLog'[j]) >= Len(scanLog[j])
    /\ Len(scanLog'[j]) >= 1
    /\ \A v \in 1 .. Len(scanLog[j]) : scanLog'[j][v] = scanLog[j][v]

\* A step that writes ImageScan k.
Writes(k, o) == scanLog' = [scanLog EXCEPT ![k] = Record(@, o)]

\* What such a step does to the histories: only that of k changes, by growing.
LEMMA WriteProperties ==
    ASSUME TypeOK, NEW k \in Scans, NEW o \in Object, Writes(k, o)
    PROVE  /\ scanLog' \in [Scans -> Seq(Object)]
           /\ \A j \in Scans : Grown(j)
           /\ \A j \in Scans : j # k => scanLog'[j] = scanLog[j]
           /\ Latest(scanLog'[k]) = o
           /\ \A v \in 1 .. Len(scanLog'[k]) : v \in 1 .. Len(scanLog[k]) \/ scanLog'[k][v] = o
           /\ Latest(scanLog[k]) # o => Len(scanLog'[k]) > Len(scanLog[k])
<1>1. scanLog \in [Scans -> Seq(Object)] /\ \A j \in Scans : Len(scanLog[j]) >= 1
  BY DEF TypeOK
<1>2. scanLog'[k] = Record(scanLog[k], o) /\ \A j \in Scans : j # k => scanLog'[j] = scanLog[j]
  BY <1>1 DEF Writes
<1>3. /\ scanLog'[k] \in Seq(Object)
      /\ Len(scanLog'[k]) \in Nat
      /\ Len(scanLog'[k]) >= Len(scanLog[k])
      /\ Latest(scanLog'[k]) = o
      /\ \A v \in 1 .. Len(scanLog[k]) : scanLog'[k][v] = scanLog[k][v]
      /\ \A v \in 1 .. Len(scanLog'[k]) : v \in 1 .. Len(scanLog[k]) \/ scanLog'[k][v] = o
      /\ Latest(scanLog[k]) # o => Len(scanLog'[k]) > Len(scanLog[k])
  <2>1. scanLog[k] \in Seq(Object) /\ Len(scanLog[k]) >= 1  BY <1>1
  <2>2. /\ Record(scanLog[k], o) \in Seq(Object)
        /\ Len(Record(scanLog[k], o)) \in Nat
        /\ Len(Record(scanLog[k], o)) >= Len(scanLog[k])
        /\ Latest(Record(scanLog[k], o)) = o
        /\ \A v \in 1 .. Len(scanLog[k]) : Record(scanLog[k], o)[v] = scanLog[k][v]
        /\ \A v \in 1 .. Len(Record(scanLog[k], o)) :
              v \in 1 .. Len(scanLog[k]) \/ Record(scanLog[k], o)[v] = o
        /\ Latest(scanLog[k]) # o => Len(Record(scanLog[k], o)) > Len(scanLog[k])
    BY <2>1, RecordProperties
  <2>3. QED  BY <1>2, <2>2
<1>4. ASSUME NEW j \in Scans  PROVE Grown(j)
  <2>1. Len(scanLog[j]) \in Nat  BY <1>1, LenProperties
  <2>2. CASE j = k   BY <1>1, <1>3, <2>1, <2>2 DEF Grown
  <2>3. CASE j # k   BY <1>1, <1>2, <2>1, <2>3 DEF Grown
  <2>4. QED  BY <2>2, <2>3
<1>5. scanLog' \in [Scans -> Seq(Object)]
  BY <1>1, <1>2, <1>3 DEF Writes
<1>6. QED  BY <1>2, <1>3, <1>4, <1>5

-----------------------------------------------------------------------------
(***************************************************************************)
(* The inductive invariant.  TypeOK alone is not inductive: that a status  *)
(* update stores a proper ImageScan, and Registered only what was found,   *)
(* rests on what the worker has carried along since it read its cache.     *)
(***************************************************************************)
WorkerOK(r) ==
    worker[r] # Idle =>
        /\ Snapshot(r).phase \notin Terminal
        /\ worker[r].pc = "write" => worker[r].phase # "none"
        /\ worker[r].phase = "Registered" => QueriedEntry(r) \in found

IInv == /\ TypeOK
        /\ RegisteredImpliesFound
        /\ \A r \in Replicas : WorkerOK(r)

LEMMA InitOK == Init => IInv
<1> SUFFICES ASSUME Init  PROVE IInv
  OBVIOUS
<1>1. \A k \in Scans : scanLog[k] = <<NoObject>>
  BY DEF Init
<1>2. scanLog \in [Scans -> Seq(Object)]
  BY DEF Init, Object
<1>len. \A k \in Scans : Len(scanLog[k]) = 1
  BY <1>1
<1>3. \A r \in Replicas : worker[r] = Idle
  BY DEF Init
<1>4. TypeOK
  <2>1. aqua \in [Entries -> {"unknown", "scanning", "registered"}]
    BY DEF Init
  <2>2. scanSeen \in [Replicas -> [Scans -> Nat]]
    BY DEF Init
  <2>3. worker \in [Replicas -> Busy \cup {Idle}]
    BY DEF Init
  <2>4. found = {} /\ queue = {} /\ delayed = {} /\ restarts = 0
    BY DEF Init
  <2>5. /\ \A k \in Scans : Len(scanLog[k]) >= 1
        /\ \A r \in Replicas, k \in Scans : scanSeen[r][k] \in 1 .. Len(scanLog[k])
    BY <1>len DEF Init
  <2>6. /\ found \subseteq Entries
        /\ queue \subseteq Replicas \X Scans
        /\ delayed \subseteq Replicas \X Scans
        /\ restarts \in Nat
    BY <2>4
  <2>7. QED  BY <1>2, <1>3, <2>1, <2>2, <2>3, <2>5, <2>6 DEF TypeOK
<1>5. RegisteredImpliesFound
  <2>1. NoObject.phase = "Absent"  BY DEF NoObject
  <2>2. \A k \in Scans : \A v \in 1 .. Len(scanLog[k]) : scanLog[k][v] = NoObject
    BY <1>1, <1>len
  <2>3. QED  BY <2>1, <2>2 DEF RegisteredImpliesFound
<1>6. \A r \in Replicas : WorkerOK(r)
  BY <1>3 DEF WorkerOK
<1>7. QED  BY <1>4, <1>5, <1>6 DEF IInv

\* What is known of a reconcile in progress.
LEMMA BusyProperties ==
    ASSUME IInv, NEW r \in Replicas, worker[r].pc \in {"query", "trigger", "write"}
    PROVE  /\ worker[r] \in Busy
           /\ worker[r] # Idle
           /\ worker[r].key \in Scans
           /\ worker[r].snap \in 1 .. Len(scanLog[worker[r].key])
           /\ Snapshot(r) \in Scan
           /\ Snapshot(r).phase \notin Terminal
           /\ QueriedEntry(r) \in Entries
<1>1. worker[r] \in Busy \cup {Idle}  BY DEF IInv, TypeOK
<1>2. worker[r] # Idle  BY DEF Idle
<1>3. worker[r] \in Busy /\ worker[r].key \in Scans  BY <1>1, <1>2 DEF Busy
<1>4. /\ worker[r].snap \in 1 .. Len(scanLog[worker[r].key])
      /\ Snapshot(r) \in Scan
      /\ Snapshot(r).phase \notin Terminal
  BY <1>2 DEF IInv, TypeOK, WorkerOK
<1>5. QueriedEntry(r) \in Entries
  BY <1>3, <1>4, ImageAssumption DEF QueriedEntry, Entry, Entries, Scan, Scans
<1>6. QED  BY <1>2, <1>3, <1>4, <1>5

\* A status update that is stored was made from the latest version, which is
\* still without a verdict, and changes phase and retry count only.
LEMMA StoreProperties ==
    ASSUME IInv, NEW r \in Replicas, worker[r].pc = "write", StoreStatus(r)
    PROVE  /\ Latest(scanLog[worker[r].key]) = Snapshot(r)
           /\ Updated(r) = [phase |-> worker[r].phase, image |-> Snapshot(r).image,
                            retryCount |-> IF worker[r].phase = "Error"
                                           THEN Snapshot(r).retryCount + 1 ELSE 0]
           /\ Updated(r) \in Scan
           /\ Writes(worker[r].key, Updated(r))
<1>1. /\ worker[r] \in Busy
      /\ worker[r] # Idle
      /\ Snapshot(r) \in Scan
  BY BusyProperties
<1>2. Latest(scanLog[worker[r].key]) = Snapshot(r)
  BY DEF StoreStatus, IsCurrent, Latest, Snapshot
<1>3. worker[r].phase \in {"Pending", "Registered", "Error"}
  BY <1>1 DEF Busy, IInv, WorkerOK
<1>4. Updated(r) = [phase |-> worker[r].phase, image |-> Snapshot(r).image,
                    retryCount |-> IF worker[r].phase = "Error"
                                   THEN Snapshot(r).retryCount + 1 ELSE 0]
  BY <1>2 DEF Updated, WithStatus
<1>5. Updated(r) \in Scan
  BY <1>1, <1>3, <1>4 DEF Scan, Phases
<1>6. QED  BY <1>2, <1>4, <1>5 DEF StoreStatus, Writes

-----------------------------------------------------------------------------
(* What a step leaves alone *)

SnapshotOK(r) ==
    worker[r] # Idle => /\ worker[r].snap \in 1 .. Len(scanLog[worker[r].key])
                        /\ Snapshot(r) \in Scan

LEMMA LogUnchanged ==
    ASSUME TypeOK, scanLog' = scanLog
    PROVE  scanLog' \in [Scans -> Seq(Object)] /\ \A j \in Scans : Grown(j)
<1>1. scanLog \in [Scans -> Seq(Object)] /\ \A j \in Scans : Len(scanLog[j]) >= 1
  BY DEF TypeOK
<1>2. \A j \in Scans : Len(scanLog[j]) \in Nat
  BY <1>1, LenProperties
<1>3. QED  BY <1>1, <1>2 DEF Grown

\* What a cache shows and what a worker carries stays good when histories grow.
LEMMA WorkerKept ==
    ASSUME IInv, \A j \in Scans : Grown(j), found \subseteq found',
           NEW r \in Replicas, worker'[r] = worker[r]
    PROVE  SnapshotOK(r)' /\ WorkerOK(r)'
<1>1. CASE worker[r] = Idle
  BY <1>1 DEF SnapshotOK, WorkerOK
<1>2. CASE worker[r] # Idle
  <2>1. /\ worker[r].key \in Scans
        /\ worker[r].snap \in 1 .. Len(scanLog[worker[r].key])
        /\ Snapshot(r) \in Scan
        /\ WorkerOK(r)
    BY <1>2 DEF IInv, TypeOK, Busy
  <2>2. /\ worker'[r].snap \in 1 .. Len(scanLog'[worker'[r].key])
        /\ Snapshot(r)' = Snapshot(r)
    <3>1. \A k \in Scans : Len(scanLog[k]) \in Nat
      BY LenProperties DEF IInv, TypeOK
    <3>2. QED  BY <2>1, <3>1 DEF Grown, Snapshot
  <2>3. QueriedEntry(r)' = QueriedEntry(r)
    BY <2>2 DEF QueriedEntry, Entry
  <2>4. QED  BY <1>2, <2>1, <2>2, <2>3 DEF SnapshotOK, WorkerOK
<1>3. QED  BY <1>1, <1>2

LEMMA CachesKept ==
    ASSUME TypeOK, \A j \in Scans : Grown(j)
    PROVE  \A r \in Replicas, k \in Scans : scanSeen[r][k] \in 1 .. Len(scanLog'[k])
<1>1. \A k \in Scans : Len(scanLog[k]) \in Nat
  BY LenProperties DEF TypeOK
<1>2. \A r \in Replicas, k \in Scans : scanSeen[r][k] \in 1 .. Len(scanLog[k])
  BY DEF TypeOK
<1>3. QED  BY <1>1, <1>2 DEF Grown

\* Registered stays justified while no history changes.
LEMMA RegisteredKept ==
    ASSUME RegisteredImpliesFound, scanLog' = scanLog, found \subseteq found'
    PROVE  RegisteredImpliesFound'
BY DEF RegisteredImpliesFound

\* A write that is not of Registered, or is of what was found, keeps it, too.
LEMMA RegisteredWritten ==
    ASSUME TypeOK, RegisteredImpliesFound, UNCHANGED found,
           NEW k \in Scans, NEW o \in Object, Writes(k, o),
           o.phase = "Registered" => Entry(k, o.image) \in found
    PROVE  RegisteredImpliesFound'
<1>1. /\ \A j \in Scans : Grown(j)
      /\ \A j \in Scans : j # k => scanLog'[j] = scanLog[j]
      /\ \A v \in 1 .. Len(scanLog'[k]) : v \in 1 .. Len(scanLog[k]) \/ scanLog'[k][v] = o
  BY WriteProperties
<1>2. SUFFICES ASSUME NEW j \in Scans, NEW v \in 1 .. Len(scanLog'[j]),
                      scanLog'[j][v].phase = "Registered"
               PROVE  Entry(j, scanLog'[j][v].image) \in found
  BY DEF RegisteredImpliesFound, Entry
<1>3. CASE v \in 1 .. Len(scanLog[j])
  BY <1>1, <1>2, <1>3 DEF RegisteredImpliesFound, Grown
<1>4. CASE v \notin 1 .. Len(scanLog[j])
  BY <1>1, <1>2, <1>4
<1>5. QED  BY <1>3, <1>4

-----------------------------------------------------------------------------
(* The worker's own steps *)

WorkersOK == /\ worker \in [Replicas -> Busy \cup {Idle}]
             /\ \A q \in Replicas : SnapshotOK(q) /\ WorkerOK(q)

\* A worker that becomes idle, or was cut short, is in order.
LEMMA WorkerIdles ==
    ASSUME IInv, NEW r \in Replicas, \A j \in Scans : Grown(j), UNCHANGED found,
           worker' = [worker EXCEPT ![r] = Idle]
    PROVE  WorkersOK'
<1>1. worker \in [Replicas -> Busy \cup {Idle}]  BY DEF IInv, TypeOK
<1>2. worker' \in [Replicas -> Busy \cup {Idle}]  BY <1>1
<1>3. SnapshotOK(r)' /\ WorkerOK(r)'
  BY <1>1 DEF SnapshotOK, WorkerOK
<1>4. \A q \in Replicas : q # r => worker'[q] = worker[q]  BY <1>1
<1>5. \A q \in Replicas : q # r => SnapshotOK(q)' /\ WorkerOK(q)'
  BY <1>4, WorkerKept
<1>6. QED  BY <1>2, <1>3, <1>5 DEF WorkersOK

\* A worker that goes on keeps key and snapshot, and decides on Registered only
\* for an entry that was found.
LEMMA WorkerProceeds ==
    ASSUME IInv, NEW r \in Replicas, UNCHANGED scanLog, found \subseteq found',
           worker[r].pc \in {"query", "trigger"},
           NEW w \in Busy, worker' = [worker EXCEPT ![r] = w],
           w.key = worker[r].key, w.snap = worker[r].snap,
           w.pc = "write" => w.phase # "none",
           w.phase = "Registered" => QueriedEntry(r) \in found'
    PROVE  WorkersOK'
<1>1. worker \in [Replicas -> Busy \cup {Idle}]  BY DEF IInv, TypeOK
<1>2. worker' \in [Replicas -> Busy \cup {Idle}] /\ worker'[r] = w  BY <1>1
<1>3. Snapshot(r)' = Snapshot(r)
  BY <1>2 DEF Snapshot
<1>4. QueriedEntry(r)' = QueriedEntry(r)
  BY <1>2, <1>3 DEF QueriedEntry
<1>5. SnapshotOK(r)' /\ WorkerOK(r)'
  BY <1>2, <1>3, <1>4, BusyProperties DEF SnapshotOK, WorkerOK
<1>6. \A j \in Scans : Grown(j)  BY LogUnchanged DEF IInv
<1>7. \A q \in Replicas : q # r => worker'[q] = worker[q]  BY <1>1
<1>8. \A q \in Replicas : q # r => SnapshotOK(q)' /\ WorkerOK(q)'
  BY <1>6, <1>7, WorkerKept
<1>9. QED  BY <1>2, <1>5, <1>8 DEF WorkersOK

LEMMA WorkerDecides ==
    ASSUME IInv, NEW r \in Replicas, UNCHANGED scanLog, found \subseteq found',
           worker[r].pc \in {"query", "trigger"},
           NEW phase \in {"Pending", "Registered", "Error"}, Decide(r, phase),
           phase = "Registered" => QueriedEntry(r) \in found'
    PROVE  WorkersOK'
<1> DEFINE w == [pc |-> "write", key |-> worker[r].key, snap |-> worker[r].snap,
                 phase |-> phase]
<1>1. worker[r] \in Busy  BY BusyProperties
<1>2. w \in Busy  BY <1>1 DEF Busy
<1>3. worker' = [worker EXCEPT ![r] = w]  BY DEF Decide
<1>4. QED  BY <1>2, <1>3, WorkerProceeds

\* Workers that do nothing.
LEMMA WorkersRest ==
    ASSUME IInv, \A j \in Scans : Grown(j), found \subseteq found', UNCHANGED worker
    PROVE  WorkersOK'
<1>1. worker' \in [Replicas -> Busy \cup {Idle}]  BY DEF IInv, TypeOK
<1>2. QED  BY <1>1, WorkerKept DEF WorkersOK

-----------------------------------------------------------------------------
(* Every step keeps the invariant *)

\* The conjuncts of the invariant that a step has to answer for, by topic.
HistoriesOK == /\ scanLog \in [Scans -> Seq(Object)]
               /\ \A k \in Scans : Len(scanLog[k]) >= 1

CachesOK == /\ scanSeen \in [Replicas -> [Scans -> Nat]]
            /\ \A r \in Replicas, k \in Scans : scanSeen[r][k] \in 1 .. Len(scanLog[k])

AquaOK == /\ aqua \in [Entries -> {"unknown", "scanning", "registered"}]
          /\ found \subseteq Entries

QueuesOK == /\ queue \subseteq Replicas \X Scans
            /\ delayed \subseteq Replicas \X Scans
            /\ restarts \in Nat

LEMMA InvByTopic ==
    IInv <=> /\ HistoriesOK /\ CachesOK /\ AquaOK /\ QueuesOK /\ WorkersOK
             /\ RegisteredImpliesFound
BY DEF IInv, TypeOK, HistoriesOK, CachesOK, AquaOK, QueuesOK, WorkersOK, SnapshotOK

LEMMA InvByTopicNext ==
    IInv' <=> /\ HistoriesOK' /\ CachesOK' /\ AquaOK' /\ QueuesOK' /\ WorkersOK'
              /\ RegisteredImpliesFound'
BY DEF IInv, TypeOK, HistoriesOK, CachesOK, AquaOK, QueuesOK, WorkersOK, SnapshotOK

\* Steps that write no ImageScan keep histories, caches and Registered in order.
LEMMA NothingWritten ==
    ASSUME IInv, UNCHANGED <<scanLog, scanSeen>>, found \subseteq found'
    PROVE  /\ \A j \in Scans : Grown(j)
           /\ HistoriesOK' /\ CachesOK' /\ RegisteredImpliesFound'
<1>1. HistoriesOK /\ CachesOK /\ RegisteredImpliesFound  BY InvByTopic
<1>2. HistoriesOK' /\ CachesOK'  BY <1>1 DEF HistoriesOK, CachesOK
<1>3. RegisteredImpliesFound'  BY <1>1, RegisteredKept
<1>4. \A j \in Scans : Grown(j)  BY LogUnchanged DEF IInv
<1>5. QED  BY <1>2, <1>3, <1>4

\* Steps that write one do so, too, if what they write may be there.
LEMMA ScanWritten ==
    ASSUME IInv, UNCHANGED <<scanSeen, found>>,
           NEW k \in Scans, NEW o \in Object, Writes(k, o),
           o.phase = "Registered" => Entry(k, o.image) \in found
    PROVE  /\ \A j \in Scans : Grown(j)
           /\ HistoriesOK' /\ CachesOK' /\ RegisteredImpliesFound'
<1>1. TypeOK /\ CachesOK /\ RegisteredImpliesFound  BY InvByTopic DEF IInv
<1>2. scanLog' \in [Scans -> Seq(Object)] /\ \A j \in Scans : Grown(j)
  BY <1>1, WriteProperties
<1>3. HistoriesOK'  BY <1>2 DEF HistoriesOK, Grown
<1>4. CachesOK'  BY <1>1, <1>2, CachesKept DEF CachesOK
<1>5. RegisteredImpliesFound'  BY <1>1, RegisteredWritten
<1>6. QED  BY <1>2, <1>3, <1>4, <1>5

\* What both outcomes of the status update leave behind.
LEMMA UpdateOK ==
    ASSUME IInv, NEW r \in Replicas, worker[r].pc = "write",
           StoreStatus(r) \/ UNCHANGED scanLog, UNCHANGED <<scanSeen, found>>
    PROVE  /\ \A j \in Scans : Grown(j)
           /\ HistoriesOK' /\ CachesOK' /\ RegisteredImpliesFound'
<1>1. CASE StoreStatus(r)
  <2>1. /\ worker[r] # Idle
        /\ worker[r].key \in Scans
    BY BusyProperties
  <2>2. /\ Updated(r) \in Scan
        /\ Updated(r).phase = worker[r].phase
        /\ Updated(r).image = Snapshot(r).image
        /\ Writes(worker[r].key, Updated(r))
    BY <1>1, StoreProperties
  <2>3. Updated(r).phase = "Registered" => Entry(worker[r].key, Updated(r).image) \in found
    BY <2>1, <2>2 DEF IInv, WorkerOK, QueriedEntry
  <2>4. QED  BY <2>1, <2>2, <2>3, ScanWritten DEF Object
<1>2. CASE UNCHANGED scanLog
  BY <1>2, NothingWritten
<1>3. QED  BY <1>1, <1>2

LEMMA StepOK == IInv /\ Next => IInv'
<1> SUFFICES ASSUME IInv, Next  PROVE IInv'
  OBVIOUS
<1> USE DEF AquaOK, QueuesOK
<1>0. /\ HistoriesOK /\ CachesOK /\ AquaOK /\ QueuesOK /\ WorkersOK
      /\ RegisteredImpliesFound
  BY InvByTopic
<1>1. ASSUME NEW r \in Replicas, NEW k \in Scans, Skip(r, k)  PROVE IInv'
  <2>1. UNCHANGED <<scanLog, scanSeen, aqua, found, delayed, worker, restarts>>
        /\ queue' \subseteq queue
    BY <1>1 DEF Skip, Dequeue
  <2>2. AquaOK' /\ QueuesOK'  BY <1>0, <2>1
  <2>3. QED  BY <2>1, <2>2, NothingWritten, WorkersRest, InvByTopicNext
<1>2. ASSUME NEW r \in Replicas, NEW k \in Scans, Begin(r, k)  PROVE IInv'
  <2> DEFINE w == [pc |-> "query", key |-> k, snap |-> scanSeen[r][k], phase |-> "none"]
  <2>1. /\ UNCHANGED <<scanLog, scanSeen, aqua, found, delayed, restarts>>
        /\ queue' \subseteq queue
        /\ worker' = [worker EXCEPT ![r] = w]
        /\ Cached(r, k).phase \notin Terminal \cup {"Absent"}
    BY <1>2 DEF Begin, Dequeue
  <2>2. AquaOK' /\ QueuesOK'  BY <1>0, <2>1
  <2>3. scanSeen[r][k] \in Nat /\ scanSeen[r][k] \in 1 .. Len(scanLog[k])
    BY <1>0 DEF CachesOK
  <2>4. Cached(r, k) \in Object
    BY <1>0, <2>3, ElementOfSeq DEF HistoriesOK, Cached
  <2>5. Cached(r, k) \in Scan
    BY <2>1, <2>4 DEF Object, NoObject
  <2>6. w \in Busy  BY <2>3 DEF Busy
  <2>7. worker' \in [Replicas -> Busy \cup {Idle}] /\ worker'[r] = w
    BY <1>0, <2>1, <2>6 DEF WorkersOK
  <2>8. SnapshotOK(r)' /\ WorkerOK(r)'
    BY <2>1, <2>3, <2>5, <2>7 DEF SnapshotOK, WorkerOK, Snapshot, Cached
  <2>9. \A q \in Replicas : q # r => worker'[q] = worker[q]
    BY <1>0, <2>1 DEF WorkersOK
  <2>10. \A q \in Replicas : q # r => SnapshotOK(q)' /\ WorkerOK(q)'
    BY <2>1, <2>9, NothingWritten, WorkerKept
  <2>11. WorkersOK'  BY <2>7, <2>8, <2>10 DEF WorkersOK
  <2>12. QED  BY <2>1, <2>2, <2>11, NothingWritten, InvByTopicNext
<1>3. ASSUME NEW r \in Replicas, QueryFound(r)  PROVE IInv'
  <2>1. /\ UNCHANGED <<scanLog, scanSeen, aqua, queue, delayed, restarts>>
        /\ found' = found \cup {QueriedEntry(r)}
        /\ worker[r].pc = "query"
        /\ Decide(r, "Registered")
    BY <1>3 DEF QueryFound
  <2>2. QueriedEntry(r) \in Entries  BY <2>1, BusyProperties
  <2>3. AquaOK' /\ QueuesOK'  BY <1>0, <2>1, <2>2
  <2>4. WorkersOK'  BY <2>1, WorkerDecides
  <2>5. QED  BY <2>1, <2>3, <2>4, NothingWritten, InvByTopicNext
<1>4. ASSUME NEW r \in Replicas, QueryNotFound(r)  PROVE IInv'
  <2> DEFINE w == [worker[r] EXCEPT !.pc = "trigger"]
  <2>1. /\ UNCHANGED <<scanLog, scanSeen, aqua, found, queue, delayed, restarts>>
        /\ worker[r].pc = "query"
        /\ worker' = [worker EXCEPT ![r] = w]
    BY <1>4 DEF QueryNotFound
  <2>2. worker[r] \in Busy /\ worker[r] # Idle  BY <2>1, BusyProperties
  <2>3. /\ w \in Busy
        /\ w.pc = "trigger" /\ w.key = worker[r].key /\ w.snap = worker[r].snap
        /\ w.phase = worker[r].phase
    BY <2>2 DEF Busy
  <2>4. w.phase = "Registered" => QueriedEntry(r) \in found
    BY <2>2, <2>3 DEF IInv, WorkerOK
  <2>5. WorkersOK'
    BY <2>1, <2>3, <2>4, WorkerProceeds
  <2>6. AquaOK' /\ QueuesOK'  BY <1>0, <2>1
  <2>7. QED  BY <2>1, <2>5, <2>6, NothingWritten, InvByTopicNext
<1>5. ASSUME NEW r \in Replicas, QueryFails(r)  PROVE IInv'
  <2>1. /\ UNCHANGED <<scanLog, scanSeen, aqua, found, queue, delayed, restarts>>
        /\ worker[r].pc = "query"
        /\ Decide(r, "Error")
    BY <1>5 DEF QueryFails
  <2>2. AquaOK' /\ QueuesOK'  BY <1>0, <2>1
  <2>3. WorkersOK'  BY <2>1, WorkerDecides
  <2>4. QED  BY <2>1, <2>2, <2>3, NothingWritten, InvByTopicNext
<1>6. ASSUME NEW r \in Replicas, TriggerAccepted(r) \/ TriggerFails(r)  PROVE IInv'
  <2>1. /\ UNCHANGED <<scanLog, scanSeen, found, queue, delayed, restarts>>
        /\ worker[r].pc = "trigger"
        /\ ScanRequested(QueriedEntry(r)) \/ UNCHANGED aqua
        /\ Decide(r, "Pending") \/ Decide(r, "Error")
    BY <1>6 DEF TriggerAccepted, TriggerFails
  <2>2. QueriedEntry(r) \in Entries  BY <2>1, BusyProperties
  <2>3. aqua' \in [Entries -> {"unknown", "scanning", "registered"}]
    BY <1>0, <2>1, <2>2 DEF ScanRequested
  <2>4. AquaOK' /\ QueuesOK'  BY <1>0, <2>1, <2>3
  <2>5. WorkersOK'  BY <2>1, WorkerDecides
  <2>6. QED  BY <2>1, <2>4, <2>5, NothingWritten, InvByTopicNext
<1>7. ASSUME NEW r \in Replicas, WriteOk(r) \/ WriteFails(r)  PROVE IInv'
  <2>1. /\ UNCHANGED <<scanSeen, aqua, found, queue, restarts>>
        /\ worker[r].pc = "write"
        /\ StoreStatus(r) \/ UNCHANGED scanLog
        /\ worker' = [worker EXCEPT ![r] = Idle]
        /\ delayed' = delayed \/ delayed' = delayed \cup {<<r, worker[r].key>>}
    BY <1>7 DEF WriteOk, WriteFails, Finish
  <2>2. worker[r].key \in Scans  BY <2>1, BusyProperties
  <2>3. AquaOK' /\ QueuesOK'  BY <1>0, <2>1, <2>2
  <2>4. /\ \A j \in Scans : Grown(j)
        /\ HistoriesOK' /\ CachesOK' /\ RegisteredImpliesFound'
    BY <2>1, UpdateOK
  <2>5. WorkersOK'  BY <2>1, <2>4, WorkerIdles
  <2>6. QED  BY <2>3, <2>4, <2>5, InvByTopicNext
<1>8. ASSUME NEW r \in Replicas, NEW k \in Scans, TimerFires(r, k) \/ Resync(r, k)
      PROVE  IInv'
  <2>1. /\ UNCHANGED <<scanLog, scanSeen, aqua, found, worker, restarts>>
        /\ queue' = queue \cup {<<r, k>>}
        /\ delayed' \subseteq delayed
    BY <1>8 DEF TimerFires, Resync
  <2>2. AquaOK' /\ QueuesOK'  BY <1>0, <2>1
  <2>3. QED  BY <2>1, <2>2, NothingWritten, WorkersRest, InvByTopicNext
<1>9. ASSUME NEW r \in Replicas, NEW k \in Scans, Deliver(r, k)  PROVE IInv'
  <2>1. PICK v \in NewerVersions(scanLog[k], scanSeen[r][k]) :
               scanSeen' = [scanSeen EXCEPT ![r][k] = v]
    BY <1>9 DEF Deliver
  <2>2. /\ UNCHANGED <<scanLog, aqua, found, delayed, worker, restarts>>
        /\ queue' = queue \cup {<<r, k>>}
    BY <1>9 DEF Deliver
  <2>3. AquaOK' /\ QueuesOK'  BY <1>0, <2>2
  <2>4. scanSeen[r][k] \in Nat /\ Len(scanLog[k]) \in Nat
    BY <1>0, LenProperties DEF CachesOK, HistoriesOK
  <2>5. v \in Nat /\ v \in 1 .. Len(scanLog[k])
    BY <2>4 DEF NewerVersions
  <2>6. CachesOK'
    <3>1. scanSeen' \in [Replicas -> [Scans -> Nat]]
      BY <1>0, <2>1, <2>5 DEF CachesOK
    <3>2. ASSUME NEW q \in Replicas, NEW j \in Scans
          PROVE  scanSeen'[q][j] \in 1 .. Len(scanLog'[j])
      BY <1>0, <2>1, <2>2, <2>5 DEF CachesOK
    <3>3. QED  BY <3>1, <3>2 DEF CachesOK
  <2>7. \A j \in Scans : Grown(j)  BY <2>2, LogUnchanged DEF IInv
  <2>8. HistoriesOK' /\ RegisteredImpliesFound'
    BY <1>0, <2>2, RegisteredKept DEF HistoriesOK
  <2>9. QED  BY <2>2, <2>3, <2>6, <2>7, <2>8, WorkersRest, InvByTopicNext
<1>10. ASSUME NEW r \in Replicas, Restart(r)  PROVE IInv'
  <2>1. /\ UNCHANGED <<scanLog, aqua, found>>
        /\ restarts' = restarts + 1
        /\ worker' = [worker EXCEPT ![r] = Idle]
        /\ scanSeen' = [scanSeen EXCEPT ![r] = [k \in Scans |-> Len(scanLog[k])]]
        /\ queue' = {rk \in queue : rk[1] # r}
                       \cup {<<r, k>> : k \in {k \in Scans : Latest(scanLog[k]) # NoObject}}
        /\ delayed' = {rk \in delayed : rk[1] # r}
    BY <1>10 DEF Restart
  <2>2. AquaOK' /\ QueuesOK'  BY <1>0, <2>1
  <2>3. \A k \in Scans : Len(scanLog[k]) \in Nat /\ Len(scanLog[k]) \in 1 .. Len(scanLog[k])
    BY <1>0, LenProperties DEF HistoriesOK
  <2>4. CachesOK'
    BY <1>0, <2>1, <2>3 DEF CachesOK
  <2>5. \A j \in Scans : Grown(j)  BY <2>1, LogUnchanged DEF IInv
  <2>6. HistoriesOK' /\ RegisteredImpliesFound'
    BY <1>0, <2>1, RegisteredKept DEF HistoriesOK
  <2>7. WorkersOK'  BY <2>1, <2>5, WorkerIdles
  <2>8. QED  BY <2>2, <2>4, <2>6, <2>7, InvByTopicNext
<1>11. ASSUME NEW k \in Scans, NEW image \in Images, CreateScan(k, image)  PROVE IInv'
  <2>1. /\ UNCHANGED <<scanSeen, aqua, found, queue, delayed, worker, restarts>>
        /\ Writes(k, NewScan(image))
    BY <1>11 DEF CreateScan, Writes
  <2>2. NewScan(image) \in Object /\ NewScan(image).phase = "New"
    BY DEF NewScan, Object, Scan, Phases
  <2>3. AquaOK' /\ QueuesOK'  BY <1>0, <2>1
  <2>4. /\ \A j \in Scans : Grown(j)
        /\ HistoriesOK' /\ CachesOK' /\ RegisteredImpliesFound'
    BY <2>1, <2>2, ScanWritten
  <2>5. QED  BY <2>1, <2>3, <2>4, WorkersRest, InvByTopicNext
<1>12. ASSUME NEW k \in Scans, DeleteScan(k)  PROVE IInv'
  <2>1. /\ UNCHANGED <<scanSeen, aqua, found, queue, delayed, worker, restarts>>
        /\ Writes(k, NoObject)
    BY <1>12 DEF DeleteScan, Writes
  <2>2. NoObject \in Object /\ NoObject.phase # "Registered"
    BY DEF NoObject, Object
  <2>3. AquaOK' /\ QueuesOK'  BY <1>0, <2>1
  <2>4. /\ \A j \in Scans : Grown(j)
        /\ HistoriesOK' /\ CachesOK' /\ RegisteredImpliesFound'
    BY <2>1, <2>2, ScanWritten
  <2>5. QED  BY <2>1, <2>3, <2>4, WorkersRest, InvByTopicNext
<1>13. ASSUME NEW e \in Entries, AquaFinishes(e) \/ AquaLoses(e)  PROVE IInv'
  <2>1. /\ UNCHANGED <<scanLog, scanSeen, found, queue, delayed, worker, restarts>>
        /\ aqua' \in [Entries -> {"unknown", "scanning", "registered"}]
    BY <1>0, <1>13 DEF AquaFinishes, AquaLoses
  <2>2. AquaOK' /\ QueuesOK'  BY <1>0, <2>1
  <2>3. QED  BY <2>1, <2>2, NothingWritten, WorkersRest, InvByTopicNext
<1>14. QED
  BY <1>1, <1>2, <1>3, <1>4, <1>5, <1>6, <1>7, <1>8, <1>9, <1>10, <1>11, <1>12, <1>13
  DEF Next, Reconcile, Process, Aqua, Users

LEMMA StutterOK == IInv /\ UNCHANGED vars => IInv'
BY DEF vars, IInv, TypeOK, RegisteredImpliesFound, WorkerOK, Snapshot, QueriedEntry

\* The invariant holds in every reachable state.
THEOREM Invariance == Spec => []IInv
BY InitOK, StepOK, StutterOK, PTL DEF Spec

-----------------------------------------------------------------------------
(* What follows from the invariant *)

\* For any number of replicas, every variable keeps to its type, no cache
\* shows a version that was not written, and a reconcile in progress
\* (imagescan_controller.go, Reconcile) works on an ImageScan that existed.
THEOREM TypeCorrect == Spec => []TypeOK
BY Invariance, PTL DEF IInv

\* For any number of replicas, repositories and digests, an ImageScan is
\* Registered only if Aqua has reported its own image and digest found.
THEOREM RegisteredIsFound == Spec => []RegisteredImpliesFound
BY Invariance, PTL DEF IInv

\* The ways in which a step changes ImageScans.
Creates(k, image) == Latest(scanLog[k]) = NoObject /\ Writes(k, NewScan(image))
Deletes(k)        == Latest(scanLog[k]) # NoObject /\ Writes(k, NoObject)
Updates(r)        == worker[r].pc = "write" /\ StoreStatus(r)

LEMMA StepsOnScans ==
    Next => \/ UNCHANGED scanLog
            \/ UNCHANGED found /\ \E k \in Scans, image \in Images : Creates(k, image)
            \/ UNCHANGED found /\ \E k \in Scans : Deletes(k)
            \/ UNCHANGED found /\ \E r \in Replicas : Updates(r)
<1> SUFFICES ASSUME Next
             PROVE  \/ UNCHANGED scanLog
                    \/ UNCHANGED found /\ \E k \in Scans, image \in Images : Creates(k, image)
                    \/ UNCHANGED found /\ \E k \in Scans : Deletes(k)
                    \/ UNCHANGED found /\ \E r \in Replicas : Updates(r)
  OBVIOUS
<1>1. ASSUME NEW r \in Replicas, Reconcile(r)
      PROVE  UNCHANGED scanLog \/ (UNCHANGED found /\ Updates(r))
  BY <1>1 DEF Reconcile, Skip, Begin, QueryFound, QueryNotFound, QueryFails,
              TriggerAccepted, TriggerFails, WriteOk, WriteFails, Updates
<1>2. ASSUME NEW r \in Replicas, Process(r) \/ Restart(r)
      PROVE  UNCHANGED scanLog
  BY <1>2 DEF Process, TimerFires, Deliver, Resync, Restart
<1>3. ASSUME Aqua  PROVE UNCHANGED scanLog
  BY <1>3 DEF Aqua, AquaFinishes, AquaLoses
<1>4. ASSUME Users
      PROVE  /\ UNCHANGED found
             /\ \/ \E k \in Scans, image \in Images : Creates(k, image)
                \/ \E k \in Scans : Deletes(k)
  BY <1>4 DEF Users, CreateScan, DeleteScan, Creates, Deletes, Writes
<1>5. QED  BY <1>1, <1>2, <1>3, <1>4 DEF Next

\* A stored verdict is only ever deleted, or replaced by a worker that read it:
\* a step that writes a status writes it over the version the worker started
\* from, and all other steps leave ImageScans with a verdict alone or delete
\* them.
THEOREM VerdictsKept == Spec => NoVerdictLost
<1> DEFINE Writer(r, k) == /\ worker[r] # Idle /\ worker'[r] = Idle
                           /\ worker[r].key = k
                           /\ worker[r].snap = Len(scanLog[k])
           Kept(k) == Latest(scanLog[k]).phase \in Terminal =>
                          \/ Latest(scanLog'[k]) \in {Latest(scanLog[k]), NoObject}
                          \/ \E r \in Replicas : Writer(r, k)
<1>1. ASSUME IInv, Next, NEW k \in Scans  PROVE Kept(k)
  <2>1. TypeOK  BY <1>1 DEF IInv
  <2>2. ASSUME NEW j \in Scans, NEW image \in Images, CreateScan(j, image)  PROVE Kept(k)
    <3>1. NewScan(image) \in Object  BY DEF NewScan, Object, Scan, Phases
    <3>2. j # k => scanLog'[k] = scanLog[k]
      BY <2>1, <2>2, <3>1, WriteProperties DEF CreateScan, Writes
    <3>3. Latest(scanLog[j]).phase \notin Terminal  BY <2>2 DEF CreateScan, NoObject, Terminal
    <3>4. QED  BY <3>2, <3>3
  <2>3. ASSUME NEW j \in Scans, DeleteScan(j)  PROVE Kept(k)
    <3>1. /\ Latest(scanLog'[j]) = NoObject
          /\ j # k => scanLog'[k] = scanLog[k]
      BY <2>1, <2>3, WriteProperties DEF DeleteScan, Writes, Object
    <3>2. QED  BY <3>1
  <2>4. ASSUME NEW r \in Replicas, WriteOk(r) \/ WriteFails(r)  PROVE Kept(k)
    <3>1. worker[r].pc = "write" /\ worker'[r] = Idle
      BY <2>1, <2>4 DEF WriteOk, WriteFails, Finish, TypeOK
    <3>2. worker[r] # Idle /\ worker[r].key \in Scans
      BY <1>1, <3>1, BusyProperties
    <3>3. CASE UNCHANGED scanLog  BY <3>3
    <3>4. CASE StoreStatus(r)
      <4>1. worker[r].snap = Len(scanLog[worker[r].key])
        BY <3>4 DEF StoreStatus, IsCurrent
      <4>2. worker[r].key = k => Writer(r, k)
        BY <3>1, <3>2, <4>1
      <4>3. worker[r].key # k => scanLog'[k] = scanLog[k]
        <5>1. Updated(r) \in Object /\ Writes(worker[r].key, Updated(r))
          BY <1>1, <3>1, <3>4, StoreProperties DEF Object
        <5>2. QED  BY <2>1, <3>2, <5>1, WriteProperties
      <4>4. QED  BY <4>2, <4>3
    <3>5. QED  BY <2>4, <3>3, <3>4 DEF WriteOk, WriteFails
  <2>5. CASE UNCHANGED scanLog  BY <2>5
  <2>6. ASSUME NEW r \in Replicas, Reconcile(r)
        PROVE  UNCHANGED scanLog \/ WriteOk(r) \/ WriteFails(r)
    BY <2>6 DEF Reconcile, Skip, Begin, QueryFound, QueryNotFound, QueryFails,
                TriggerAccepted, TriggerFails
  <2>7. ASSUME NEW r \in Replicas, Process(r) \/ Restart(r)
        PROVE  UNCHANGED scanLog
    BY <2>7 DEF Process, TimerFires, Deliver, Resync, Restart
  <2>8. ASSUME Aqua  PROVE UNCHANGED scanLog
    BY <2>8 DEF Aqua, AquaFinishes, AquaLoses
  <2>9. QED  BY <1>1, <2>2, <2>3, <2>4, <2>5, <2>6, <2>7, <2>8 DEF Next, Users
<1>2. IInv /\ [Next]_vars => [\A k \in Scans : Kept(k)]_vars
  BY <1>1
<1>3. QED  BY Invariance, <1>2, PTL DEF Spec, NoVerdictLost

LEMMA InitCounted == Init => ErrorCountedOnce
<1> SUFFICES ASSUME Init  PROVE ErrorCountedOnce
  OBVIOUS
<1>1. \A k \in Scans : Len(scanLog[k]) = 1 /\ scanLog[k][1] = NoObject  BY DEF Init
<1>2. QED  BY <1>1 DEF ErrorCountedOnce

\* What is written counts right, if what it was made from does.
LEMMA CountedWritten ==
    ASSUME TypeOK, ErrorCountedOnce, NEW k \in Scans, NEW o \in Object, Writes(k, o),
           o = NoObject \/ o.retryCount = IF o.phase = "Error" THEN 1 ELSE 0
    PROVE  ErrorCountedOnce'
<1>1. /\ \A j \in Scans : Grown(j)
      /\ \A j \in Scans : j # k => scanLog'[j] = scanLog[j]
      /\ \A v \in 1 .. Len(scanLog'[k]) : v \in 1 .. Len(scanLog[k]) \/ scanLog'[k][v] = o
  BY WriteProperties
<1>2. SUFFICES ASSUME NEW j \in Scans, NEW v \in 1 .. Len(scanLog'[j]), scanLog'[j][v] # NoObject
               PROVE  scanLog'[j][v].retryCount = IF scanLog'[j][v].phase = "Error" THEN 1 ELSE 0
  BY DEF ErrorCountedOnce, NoObject
<1>3. CASE v \in 1 .. Len(scanLog[j])
  BY <1>1, <1>2, <1>3 DEF ErrorCountedOnce, Grown
<1>4. CASE v \notin 1 .. Len(scanLog[j])
  BY <1>1, <1>2, <1>4
<1>5. QED  BY <1>3, <1>4

LEMMA CountedStep == IInv /\ ErrorCountedOnce /\ [Next]_vars => ErrorCountedOnce'
<1> SUFFICES ASSUME IInv, ErrorCountedOnce, [Next]_vars  PROVE ErrorCountedOnce'
  OBVIOUS
<1>1. TypeOK  BY DEF IInv
<1>2. CASE UNCHANGED scanLog
  BY <1>2 DEF ErrorCountedOnce
<1>3. ASSUME NEW k \in Scans, NEW image \in Images, Creates(k, image)  PROVE ErrorCountedOnce'
  <2>1. NewScan(image) \in Object /\ NewScan(image).phase = "New" /\ NewScan(image).retryCount = 0
    BY DEF NewScan, Object, Scan, Phases
  <2>2. QED  BY <1>1, <1>3, <2>1, CountedWritten DEF Creates
<1>4. ASSUME NEW k \in Scans, Deletes(k)  PROVE ErrorCountedOnce'
  BY <1>1, <1>4, CountedWritten DEF Deletes, Object
<1>5. ASSUME NEW r \in Replicas, Updates(r)  PROVE ErrorCountedOnce'
  <2>1. /\ worker[r].key \in Scans /\ worker[r].snap \in 1 .. Len(scanLog[worker[r].key])
        /\ Snapshot(r) \in Scan /\ Snapshot(r).phase \notin Terminal
    BY <1>5, BusyProperties DEF Updates
  <2>2. Snapshot(r) # NoObject /\ Snapshot(r).phase # "Error"
    BY <2>1 DEF Scan, Phases, NoObject, Terminal
  <2>3. Snapshot(r).retryCount = 0
    BY <2>1, <2>2 DEF ErrorCountedOnce, Snapshot
  <2>4. /\ Updated(r) = [phase |-> worker[r].phase, image |-> Snapshot(r).image,
                         retryCount |-> IF worker[r].phase = "Error"
                                        THEN Snapshot(r).retryCount + 1 ELSE 0]
        /\ Updated(r) \in Object
        /\ Writes(worker[r].key, Updated(r))
    BY <1>5, StoreProperties DEF Updates, Object
  <2>5. Updated(r).retryCount = IF Updated(r).phase = "Error" THEN 1 ELSE 0
    BY <2>3, <2>4
  <2>6. QED  BY <1>1, <2>1, <2>4, <2>5, CountedWritten
<1>6. QED  BY <1>2, <1>3, <1>4, <1>5, StepsOnScans DEF vars

\* For any number of replicas, no ImageScan ever counts a second error: the
\* requeue after a backoff never leads to a second try.
THEOREM CountedOnce == Spec => []ErrorCountedOnce
BY Invariance, InitCounted, CountedStep, PTL DEF Spec

-----------------------------------------------------------------------------
(* The controller implements ScanLifecycle *)

Stored == [k \in Scans |-> Latest(scanLog[k])]

LEMMA StoredWritten ==
    ASSUME TypeOK, NEW k \in Scans, NEW o \in Object, Writes(k, o)
    PROVE  Stored' = [Stored EXCEPT ![k] = o]
<1>1. /\ Latest(scanLog'[k]) = o
      /\ \A j \in Scans : j # k => scanLog'[j] = scanLog[j]
  BY WriteProperties
<1>2. QED  BY <1>1 DEF Stored

LEMMA StepsOnFound ==
    IInv /\ Next => \/ UNCHANGED found
                    \/ UNCHANGED scanLog /\ \E e \in Entries : found' = found \cup {e}
<1> SUFFICES ASSUME IInv, Next
             PROVE  \/ UNCHANGED found
                    \/ UNCHANGED scanLog /\ \E e \in Entries : found' = found \cup {e}
  OBVIOUS
<1>1. ASSUME NEW r \in Replicas, Reconcile(r)
      PROVE  \/ UNCHANGED found
             \/ UNCHANGED scanLog /\ \E e \in Entries : found' = found \cup {e}
  <2>1. CASE QueryFound(r)
    <3>1. QueriedEntry(r) \in Entries  BY <2>1, BusyProperties DEF QueryFound
    <3>2. QED  BY <2>1, <3>1 DEF QueryFound
  <2>2. CASE ~QueryFound(r)
    BY <1>1, <2>2 DEF Reconcile, Skip, Begin, QueryNotFound, QueryFails,
                TriggerAccepted, TriggerFails, WriteOk, WriteFails
  <2>3. QED  BY <2>1, <2>2
<1>2. ASSUME NEW r \in Replicas, Process(r) \/ Restart(r)
      PROVE  UNCHANGED found
  BY <1>2 DEF Process, TimerFires, Deliver, Resync, Restart
<1>3. ASSUME Aqua \/ Users  PROVE UNCHANGED found
  BY <1>3 DEF Aqua, AquaFinishes, AquaLoses, Users, CreateScan, DeleteScan
<1>4. QED  BY <1>1, <1>2, <1>3 DEF Next

\* Both modules take their types from ScanTypes, with the same constants.
LEMMA SameTypes ==
    /\ Lifecycle!Scans = Scans
    /\ Lifecycle!Entries = Entries
    /\ Lifecycle!NoObject = NoObject
    /\ Lifecycle!Terminal = Terminal
    /\ \A image : Lifecycle!NewScan(image) = NewScan(image)
    /\ \A k, image : Lifecycle!Entry(k, image) = Entry(k, image)
    /\ \A scan, phase, n : Lifecycle!WithStatus(scan, phase, n) = WithStatus(scan, phase, n)
BY DEF Scans, Entries, NoObject, Terminal, NewScan, Entry, WithStatus,
       Lifecycle!Scans, Lifecycle!Entries, Lifecycle!NoObject, Lifecycle!Terminal,
       Lifecycle!NewScan, Lifecycle!Entry, Lifecycle!WithStatus

LEMMA RefinesInit == Init => Lifecycle!Init
<1> SUFFICES ASSUME Init  PROVE Lifecycle!Init
  OBVIOUS
<1>1. \A k \in Scans : scanLog[k] = <<NoObject>>  BY DEF Init
<1>2. \A k \in Scans : Latest(scanLog[k]) = NoObject  BY <1>1 DEF Latest
<1>3. QED  BY <1>2, SameTypes DEF Init, Lifecycle!Init

\* Each stored update is one of the three that the life cycle knows.
LEMMA RefinesUpdate ==
    ASSUME IInv, NEW r \in Replicas, Updates(r), UNCHANGED found
    PROVE  Lifecycle!Next
<1> DEFINE k == worker[r].key
<1>1. /\ worker[r] \in Busy /\ worker[r] # Idle
      /\ k \in Scans
      /\ Snapshot(r) \in Scan
      /\ Snapshot(r).phase \notin Terminal
  BY BusyProperties DEF Updates
<1>2. /\ Latest(scanLog[k]) = Snapshot(r)
      /\ Updated(r) \in Scan
      /\ Writes(k, Updated(r))
  BY StoreProperties DEF Updates
<1>3. Stored' = [Stored EXCEPT ![k] = Updated(r)] /\ Stored[k] = Snapshot(r)
  BY <1>1, <1>2, StoredWritten DEF Stored, Object, IInv
<1>4. Lifecycle!Live(k)
  BY <1>1, <1>2, SameTypes DEF Lifecycle!Live, Scan, Phases, NoObject
<1>5. worker[r].phase \in {"Pending", "Registered", "Error"}
  BY <1>1 DEF Busy, IInv, WorkerOK, Updates
<1>6. CASE worker[r].phase = "Pending"
  <2>1. Updated(r) = WithStatus(Stored[k], "Pending", 0)
    BY <1>2, <1>3, <1>6 DEF Updated
  <2>2. Lifecycle!Accept(k)
    BY <1>3, <1>4, <2>1, SameTypes DEF Lifecycle!Accept, Stored
  <2>3. QED  BY <1>1, <2>2, SameTypes DEF Lifecycle!Next
<1>7. CASE worker[r].phase = "Registered"
  <2>1. Updated(r) = WithStatus(Stored[k], "Registered", 0)
    BY <1>2, <1>3, <1>7 DEF Updated
  <2>2. Entry(k, Stored[k].image) \in found
    BY <1>1, <1>3, <1>7 DEF IInv, WorkerOK, QueriedEntry
  <2>3. Lifecycle!Register(k)
    BY <1>1, <1>3, <1>4, <2>1, <2>2, SameTypes DEF Lifecycle!Register, Stored
  <2>4. QED  BY <1>1, <2>3, SameTypes DEF Lifecycle!Next
<1>8. CASE worker[r].phase = "Error"
  <2>1. Updated(r) = WithStatus(Stored[k], "Error", Stored[k].retryCount + 1)
    BY <1>2, <1>3, <1>8 DEF Updated
  <2>2. Lifecycle!Fail(k)
    BY <1>3, <1>4, <2>1, SameTypes DEF Lifecycle!Fail, Stored
  <2>3. QED  BY <1>1, <2>2, SameTypes DEF Lifecycle!Next
<1>9. QED  BY <1>5, <1>6, <1>7, <1>8

LEMMA RefinesStep == IInv /\ [Next]_vars => [Lifecycle!Next]_(Lifecycle!lifecycleVars)
<1> SUFFICES ASSUME IInv, [Next]_vars
             PROVE  [Lifecycle!Next]_(Lifecycle!lifecycleVars)
  OBVIOUS
<1> USE DEF Lifecycle!lifecycleVars
<1>1. TypeOK  BY DEF IInv
<1>2. CASE UNCHANGED vars
  BY <1>2 DEF vars
<1>3. ASSUME NEW k \in Scans, NEW image \in Images, Creates(k, image), UNCHANGED found
      PROVE  Lifecycle!Next
  <2>1. NewScan(image) \in Object  BY DEF NewScan, Object, Scan, Phases
  <2>2. Stored' = [Stored EXCEPT ![k] = NewScan(image)]
    BY <1>1, <1>3, <2>1, StoredWritten DEF Creates
  <2>3. Lifecycle!Create(k, image)
    BY <1>3, <2>2, SameTypes DEF Creates, Stored, Lifecycle!Create
  <2>4. QED  BY <1>3, <2>3, SameTypes DEF Lifecycle!Next
<1>4. ASSUME NEW k \in Scans, Deletes(k), UNCHANGED found  PROVE Lifecycle!Next
  <2>1. Stored' = [Stored EXCEPT ![k] = NoObject]
    BY <1>1, <1>4, StoredWritten DEF Deletes, Object
  <2>2. Lifecycle!Delete(k)
    BY <1>4, <2>1, SameTypes DEF Deletes, Stored, Lifecycle!Delete
  <2>3. QED  BY <2>2, SameTypes DEF Lifecycle!Next
<1>5. ASSUME NEW r \in Replicas, Updates(r), UNCHANGED found  PROVE Lifecycle!Next
  BY <1>5, RefinesUpdate
<1>6. ASSUME NEW e \in Entries, UNCHANGED scanLog, found' = found \cup {e}
      PROVE  Lifecycle!Next
  BY <1>6, SameTypes DEF Lifecycle!Next, Lifecycle!AquaReports
<1>7. CASE UNCHANGED <<scanLog, found>>
  BY <1>7
<1>8. QED
  BY <1>2, <1>3, <1>4, <1>5, <1>6, <1>7, StepsOnScans, StepsOnFound

\* Reconcile, at any number of replicas, implements what readers of ImageScans
\* rely on: one phase after the other, one error at a time, Registered for the
\* image itself, and verdicts that stand.
THEOREM Refinement == Spec => ImplementsLifecycle
BY Invariance, RefinesInit, RefinesStep, PTL DEF Spec, ImplementsLifecycle, Lifecycle!Spec

-----------------------------------------------------------------------------
(* No scan is forgotten *)

Carried(r, k)  == worker[r] # Idle /\ worker[r].key = k
Awaited(r, k)  == <<r, k>> \in queue \cup delayed

Remembered(r, k) == \/ Cached(r, k).phase \in Terminal \cup {"Absent"}
                    \/ Awaited(r, k)
                    \/ Carried(r, k)
                    \/ scanSeen[r][k] < Len(scanLog[k])

LEMMA RememberedAll ==
    NoForgottenScan <=> \A r \in Replicas, k \in Scans : Remembered(r, k)
BY DEF NoForgottenScan, Remembered, Awaited, Carried

LEMMA RememberedAllNext ==
    NoForgottenScan' <=> \A r \in Replicas, k \in Scans : Remembered(r, k)'
BY DEF NoForgottenScan, Remembered, Awaited, Carried

\* What a cache shows does not change when histories grow.
LEMMA CachedKept ==
    ASSUME IInv, \A j \in Scans : Grown(j), NEW r \in Replicas, NEW k \in Scans,
           scanSeen'[r][k] = scanSeen[r][k]
    PROVE  /\ Cached(r, k)' = Cached(r, k)
           /\ scanSeen[r][k] < Len(scanLog[k]) => scanSeen'[r][k] < Len(scanLog'[k])
<1>1. /\ scanSeen[r][k] \in Nat
      /\ scanSeen[r][k] \in 1 .. Len(scanLog[k])
      /\ Len(scanLog[k]) \in Nat
  BY LenProperties DEF IInv, TypeOK
<1>2. QED  BY <1>1 DEF Cached, Grown

\* A step that takes nothing from (r, k) does not make r forget k.
LEMMA RememberedKept ==
    ASSUME IInv, NEW r \in Replicas, NEW k \in Scans, Remembered(r, k),
           \A j \in Scans : Grown(j), scanSeen'[r][k] = scanSeen[r][k],
           Awaited(r, k) => Awaited(r, k)', Carried(r, k) => Carried(r, k)'
    PROVE  Remembered(r, k)'
BY CachedKept DEF Remembered

\* A reconcile that ends leaves its ImageScan with a timer or a new version.
LEMMA FinishRemembers ==
    ASSUME IInv, NEW r \in Replicas, WriteOk(r) \/ WriteFails(r),
           NEW k \in Scans, k = worker[r].key
    PROVE  Remembered(r, k)'
<1>1. /\ worker[r] \in Busy
      /\ worker[r] # Idle /\ worker[r].pc = "write"
      /\ Snapshot(r) \in Scan
      /\ Snapshot(r).phase \notin Terminal
  BY BusyProperties DEF WriteOk, WriteFails
<1>2. CASE WriteFails(r) \/ RequeuedAfter(worker[r].phase)
  BY <1>2 DEF WriteOk, WriteFails, Finish, Remembered, Awaited
<1>3. CASE WriteOk(r) /\ ~RequeuedAfter(worker[r].phase)
  <2>1. worker[r].phase = "Registered"
    BY <1>1, <1>3 DEF RequeuedAfter, Busy, IInv, WorkerOK
  <2>2. /\ Latest(scanLog[k]) = Snapshot(r)
        /\ Updated(r) \in Object
        /\ Updated(r).phase = "Registered"
        /\ Writes(k, Updated(r))
    BY <1>1, <1>3, <2>1, StoreProperties DEF WriteOk, Object
  <2>3. Latest(scanLog[k]) # Updated(r)
    BY <1>1, <2>2 DEF Terminal
  <2>4. Len(scanLog'[k]) > Len(scanLog[k]) /\ Len(scanLog'[k]) \in Nat
    BY <1>1, <2>2, <2>3, WriteProperties DEF IInv, Grown
  <2>5. scanSeen'[r][k] = scanSeen[r][k] /\ scanSeen[r][k] \in 1 .. Len(scanLog[k])
    BY <1>1, <1>3 DEF WriteOk, IInv, TypeOK
  <2>6. Len(scanLog[k]) \in Nat /\ scanSeen[r][k] \in Nat
    BY <1>1, LenProperties DEF IInv, TypeOK
  <2>7. QED  BY <2>4, <2>5, <2>6 DEF Remembered
<1>4. QED  BY <1>2, <1>3

LEMMA RememberedStep == IInv /\ NoForgottenScan /\ Next => NoForgottenScan'
<1> SUFFICES ASSUME IInv, NoForgottenScan, Next, NEW r \in Replicas, NEW k \in Scans
             PROVE  Remembered(r, k)'
  BY RememberedAllNext
<1>1. Remembered(r, k)  BY RememberedAll
<1>2. /\ worker \in [Replicas -> Busy \cup {Idle}]
      /\ scanSeen \in [Replicas -> [Scans -> Nat]]
  BY DEF IInv, TypeOK
<1>3. ASSUME UNCHANGED <<scanLog, scanSeen>>,
             Awaited(r, k) => Awaited(r, k)', Carried(r, k) => Carried(r, k)'
      PROVE  Remembered(r, k)'
  BY <1>1, <1>3, RememberedKept, LogUnchanged DEF IInv
<1>4. ASSUME NEW q \in Replicas, NEW j \in Scans, Skip(q, j)  PROVE Remembered(r, k)'
  <2>1. CASE q = r /\ j = k
    BY <1>4, <2>1 DEF Skip, Remembered, Cached
  <2>2. CASE <<q, j>> # <<r, k>>
    BY <1>3, <1>4, <2>2 DEF Skip, Dequeue, Awaited, Carried
  <2>3. QED  BY <2>1, <2>2
<1>5. ASSUME NEW q \in Replicas, NEW j \in Scans, Begin(q, j)  PROVE Remembered(r, k)'
  <2>1. CASE q = r /\ j = k
    BY <1>2, <1>5, <2>1 DEF Begin, Remembered, Carried, Idle
  <2>2. CASE <<q, j>> # <<r, k>>
    <3>1. Awaited(r, k) => Awaited(r, k)'
      BY <1>5, <2>2 DEF Begin, Dequeue, Awaited
    <3>2. Carried(r, k) => Carried(r, k)'
      BY <1>2, <1>5, <2>2 DEF Begin, Dequeue, Carried
    <3>3. QED  BY <1>3, <1>5, <3>1, <3>2 DEF Begin
  <2>3. QED  BY <2>1, <2>2
<1>6. ASSUME NEW q \in Replicas,
             \/ QueryFound(q) \/ QueryNotFound(q) \/ QueryFails(q)
             \/ TriggerAccepted(q) \/ TriggerFails(q)
      PROVE  Remembered(r, k)'
  <2>1. /\ UNCHANGED <<scanLog, scanSeen, queue, delayed>>
        /\ worker[q].pc \in {"query", "trigger"}
        /\ \/ worker' = [worker EXCEPT ![q].pc = "trigger"]
           \/ \E phase \in {"Pending", "Registered", "Error"} : Decide(q, phase)
    BY <1>6 DEF QueryFound, QueryNotFound, QueryFails, TriggerAccepted, TriggerFails
  <2>2. worker[q] \in Busy  BY <2>1, BusyProperties
  <2>3. /\ worker'[q].pc \in {"trigger", "write"} /\ worker'[q].key = worker[q].key
        /\ q # r => worker'[r] = worker[r]
    BY <1>2, <2>1, <2>2 DEF Decide, Busy
  <2>4. Carried(r, k) => Carried(r, k)'
    BY <2>3 DEF Carried, Idle
  <2>5. QED  BY <1>3, <2>1, <2>4 DEF Awaited
<1>7. ASSUME NEW q \in Replicas, WriteOk(q) \/ WriteFails(q)  PROVE Remembered(r, k)'
  <2>1. CASE q = r /\ worker[q].key = k
    BY <1>7, <2>1, FinishRemembers
  <2>2. CASE ~(q = r /\ worker[q].key = k)
    <3>1. /\ UNCHANGED <<scanSeen, found>>
          /\ worker[q].pc = "write"
          /\ StoreStatus(q) \/ UNCHANGED scanLog
          /\ queue' = queue /\ delayed \subseteq delayed'
          /\ worker' = [worker EXCEPT ![q] = Idle]
      BY <1>7 DEF WriteOk, WriteFails, Finish
    <3>2. \A i \in Scans : Grown(i)  BY <3>1, UpdateOK
    <3>3. Awaited(r, k) => Awaited(r, k)'  BY <3>1 DEF Awaited
    <3>4. Carried(r, k) => Carried(r, k)'  BY <1>2, <2>2, <3>1 DEF Carried
    <3>5. QED  BY <1>1, <3>1, <3>2, <3>3, <3>4, RememberedKept
  <2>3. QED  BY <2>1, <2>2
<1>8. ASSUME NEW q \in Replicas, NEW j \in Scans, TimerFires(q, j) \/ Resync(q, j)
      PROVE  Remembered(r, k)'
  BY <1>3, <1>8 DEF TimerFires, Resync, Awaited, Carried
<1>9. ASSUME NEW q \in Replicas, NEW j \in Scans, Deliver(q, j)  PROVE Remembered(r, k)'
  <2>1. CASE q = r /\ j = k
    BY <1>9, <2>1 DEF Deliver, Remembered, Awaited
  <2>2. CASE <<q, j>> # <<r, k>>
    <3>1. /\ UNCHANGED <<scanLog, worker, delayed>>
          /\ queue \subseteq queue'
          /\ scanSeen'[r][k] = scanSeen[r][k]
      BY <1>2, <1>9, <2>2 DEF Deliver
    <3>2. \A i \in Scans : Grown(i)  BY <3>1, LogUnchanged DEF IInv
    <3>3. QED  BY <1>1, <3>1, <3>2, RememberedKept DEF Awaited, Carried
  <2>3. QED  BY <2>1, <2>2
<1>10. ASSUME NEW q \in Replicas, Restart(q)  PROVE Remembered(r, k)'
  <2>1. CASE q = r /\ Latest(scanLog[k]) # NoObject
    <3>1. <<r, k>> \in queue'  BY <1>10, <2>1 DEF Restart
    <3>2. QED  BY <3>1 DEF Remembered, Awaited
  <2>2. CASE q = r /\ Latest(scanLog[k]) = NoObject
    <3>1. scanLog' = scanLog /\ scanSeen'[r][k] = Len(scanLog[k])
      BY <1>2, <1>10, <2>2 DEF Restart
    <3>2. Cached(r, k)' = NoObject
      BY <2>2, <3>1 DEF Cached, Latest
    <3>3. QED  BY <3>2 DEF Remembered, NoObject
  <2>3. CASE q # r
    <3>1. /\ UNCHANGED scanLog
          /\ scanSeen'[r][k] = scanSeen[r][k]
          /\ worker'[r] = worker[r]
      BY <1>2, <1>10, <2>3 DEF Restart
    <3>2. Awaited(r, k) => Awaited(r, k)'
      BY <1>10, <2>3 DEF Restart, Awaited
    <3>3. \A i \in Scans : Grown(i)  BY <3>1, LogUnchanged DEF IInv
    <3>4. QED  BY <1>1, <3>1, <3>2, <3>3, RememberedKept DEF Carried
  <2>4. QED  BY <2>1, <2>2, <2>3
<1>11. ASSUME Users  PROVE Remembered(r, k)'
  <2>1. /\ UNCHANGED <<scanSeen, found, queue, delayed, worker>>
        /\ \E j \in Scans, o \in Object : Writes(j, o)
    <3>1. NoObject \in Object /\ \A image \in Images : NewScan(image) \in Object
      BY DEF NewScan, Object, Scan, Phases
    <3>2. QED  BY <1>11, <3>1 DEF Users, CreateScan, DeleteScan, Writes
  <2>2. \A i \in Scans : Grown(i)
    BY <2>1, WriteProperties DEF IInv
  <2>3. QED  BY <1>1, <2>1, <2>2, RememberedKept DEF Awaited, Carried
<1>12. ASSUME Aqua  PROVE Remembered(r, k)'
  BY <1>3, <1>12 DEF Aqua, AquaFinishes, AquaLoses, Awaited, Carried
<1>13. QED
  BY <1>4, <1>5, <1>6, <1>7, <1>8, <1>9, <1>10, <1>11, <1>12 DEF Next, Reconcile, Process

\* Whatever fails, conflicts or restarts, a replica whose cache shows an
\* unfinished ImageScan has it in its queue, behind a timer, in its worker or
\* in an event that is still to come: Reconcile needs no other wake-up.
THEOREM NothingForgotten == Spec => []NoForgottenScan
<1>1. Init => NoForgottenScan
  <2> SUFFICES ASSUME Init, NEW r \in Replicas, NEW k \in Scans  PROVE Remembered(r, k)
    BY RememberedAll
  <2>1. Cached(r, k) = NoObject  BY DEF Init, Cached
  <2>2. QED  BY <2>1 DEF Remembered, NoObject
<1>2. NoForgottenScan /\ UNCHANGED vars => NoForgottenScan'
  BY DEF vars, NoForgottenScan, Cached
<1>3. IInv /\ NoForgottenScan /\ [Next]_vars => NoForgottenScan'
  BY <1>2, RememberedStep
<1>4. QED  BY Invariance, <1>1, <1>3, PTL DEF Spec
=============================================================================
