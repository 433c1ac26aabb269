# A formal model of aqua-scan-gate

aqua-scan-gate keeps a Kubernetes pod from being scheduled until Aqua has
scanned its images: a mutating webhook adds a scheduling gate to new pods, a
*pod gate controller* creates an `ImageScan` resource per image digest and takes
the gate off when all of them are `Registered`, and an *ImageScan controller*
asks Aqua and writes the phases. A second program, `aqua-trigger`, asks Aqua to
scan the images of manifests on standard input. This directory models those
parts in TLA+, checks them with TLC on small instances and proves all safety
properties that hold, and the refinement of six abstract specifications, with TLAPS
for every instance.

- [1. Inventory](#1-inventory) — [2. Modules](#2-modules) —
  [3. Assumptions about the outside](#3-assumptions-about-the-outside) —
  [4. Runs](#4-runs-what-they-check-bounds) — [5. Fairness](#5-fairness) —
  [6. Findings](#6-where-code-and-documents-disagree) — [7. Proofs](#7-proofs) —
  [8. Not modelled](#8-not-modelled) — [9. Plan](#9-plan)

To check: `tlc -config MCImageScanReplicas.cfg MCImageScanController` and so on
for each run; `tlapm X.tla` for X each of `ImageScanControllerProofs`,
`PodGateControllerProofs`, `ScanGateProofs`, `TokenManagerProofs`,
`RegistryCacheProofs`, `RegistryNamesProofs` and `AquaTriggerProofs`.

## 1. Inventory

| part (source) | state it keeps | operations | talks to |
|---|---|---|---|
| Admission webhook (`internal/webhook/pod_webhook.go`) | none | `Handle` | called by the API server when a pod is created |
| Pod gate controller (`internal/controller/pod_gate_controller.go`) | work queue, informer caches of Pods and ImageScans, a gate in each Pod | `Reconcile`, pod predicate, `mapImageScanToPods` | API server, registries (digest of a tag), ImageScans |
| ImageScan controller (`internal/controller/imagescan_controller.go`) | work queue, delayed requeues, informer cache, `ImageScan.status` | `Reconcile`, `calculateBackoff` | API server, Aqua client |
| Aqua client (`pkg/aqua/client.go`) | registry list in memory, mirrors | `GetScanResult`, `TriggerScan`, `FindRegistryByPrefix`, `ApplyRegistryMirror` | token manager, file cache, Aqua |
| Token manager (`pkg/aqua/auth.go`) | token, expiry, `RWMutex` | `GetToken`, `fetchToken` | Aqua's token endpoint |
| File cache (`pkg/aqua/filecache.go`) | one JSON file with a time stamp, shared by the processes of a machine | `Get`, `Set` | the file system, the client |
| Image references (`pkg/imageref`) | none | `ScanName`, extraction, `ResolveDigest`, keychains | registries, cloud identity |
| Manager (`cmd/main.go`) | flags | wires webhook and controllers into one process | |
| `aqua-trigger` (`cmd/trigger`) | lists and counts of one run | `run`: read, resolve, ask Aqua, summary, exit code; cancelled by a signal | stdin, resolver, Aqua client |

**What is hard here.** Both reconcilers end *without a requeue* when they wait
for somebody else, so correctness rests on events: each informer cache lags on
its own, map functions run some time after the cache was updated, and a missed
event leaves a pod gated. Between reading a cache and writing the result a
reconcile makes remote calls, during which resources are edited, deleted and
created again (for another image, with the same name: the name of an ImageScan
depends on namespace and digest only), tags move, a second replica does the same
work, and the process may die. Updates may fail although they were applied.
Requeues live in memory only. The token is shared and expires while in use. The
list of Aqua's registries goes through a cache in memory and one in a file, each
with its own test of age, and other callers and processes write both between any
two steps; a registry that is wrongly reported missing fails an ImageScan for good.
`aqua-trigger` passes images from loop to loop while any request may fail and the
tag it resolves may move; its exit code gates a pipeline.

**What makes each part correct.** *ImageScan controller:* Registered only if Aqua
reported exactly this image and digest; no verdict is lost to a reconcile that did not
know of it; no unfinished scan is forgotten; each is decided in the end. *Pod gate controller:* a gate goes only if
the pod as it is at that moment is bypassed or vetted; nothing else in the pod
changes; no wake-up is lost; a pod that may go, goes. *Together:* no pod in scope
starts unvetted and no pod is held for ever without a failed scan. *Token
manager:* no expired token is used, one fetch per expiry, every call returns.
*Registry caches:* a registry is named only from a list in force a bounded time
ago, and "none" is said only if there was none during the call. *aqua-trigger:*
exit code 0 means that every image named has, or gets, a scan, and each only once;
the digest is one of the nodes' platform; a signal ends the command.

## 2. Modules

| module | what it is |
|---|---|
| `ScanTypes` | the ImageScan resource, its name, Aqua's entries |
| `PodTypes` | the Pod as this program sees it, namespace exclusion, users' edits |
| `ApiStore` | API server and informers as the controllers use them (external) |
| `ScanLifecycle` | **abstract**: what readers of an ImageScan get from the code as it is |
| `ImageScanController` | the ImageScan reconciler and its process |
| `GateContract` | **abstract**: what owners of pods may rely on |
| `PodGateController` | the pod gate reconciler and its process |
| `AdmissionWebhook` | the webhook's decision as operators |
| `VettingContract` | **abstract**: what the owner of a cluster may rely on |
| `ScanGate` | webhook + both controllers in one process |
| `TokenContract` | **abstract**: what callers of Aqua may rely on |
| `TokenManager` | the shared bearer token |
| `RegistryNames` | mirrors and Aqua's prefixes, as operators on sequences |
| `RegistryContract` | **abstract**: what a lookup of a registry promises |
| `RegistryCache` | the lookup through both caches, several callers and processes |
| `TriggerContract` | **abstract**: what a pipeline may rely on |
| `AquaTrigger` | the `aqua-trigger` command with the digest resolver |
| `*Proofs` | theorems about the module they are named for |
| `MC*` | instances for TLC |

**Objects and caches.** `scanLog[k]` and `podLog[p]` are histories of stored
objects; position 1 is "not there yet" and a resource version is a position.
`scanSeen[r][k]` is the version the cache of replica `r` shows; `Deliver` moves it
forward, possibly skipping versions (a relist). An update is applied only if it
was made from the latest version (`IsCurrent`), and an update that changes nothing
writes nothing (`Record`) — so that a repeated `Pending` sends no event.

**`ImageScanController`.** `worker[r]` is the one reconcile in progress at `r`
(`MaxConcurrentReconciles` is left at 1).

| code (`imagescan_controller.go`) | action |
|---|---|
| `Get`, not found or terminal (62–86) | `Skip` |
| `Get`, go on to `GetScanResult` (88) | `Begin` |
| `GetScanResult` returns a result / nothing / an error | `QueryFound` / `QueryNotFound` / `QueryFails` |
| `TriggerScan` accepted / failed (before or after it took effect) | `TriggerAccepted` / `TriggerFails` |
| `Status().Update` ok / error (before or after it took effect) | `WriteOk` / `WriteFails` |
| `RequeueAfter`, rate limiter, immediate requeue | `delayed`, `TimerFires` |
| informer event, resync | `Deliver`, `Resync` |
| process dies, a new one lists everything | `Restart` |

The status that is written is computed from the snapshot (`retryCount`) but
applied to the object; the spec of the stored object is kept (`WithStatus`).

**`PodGateController`.** `Begin` (read the pod), `BuildResolver`, `ResolveImage`
(one call per image without digest), `CheckScan` (one read per image; the loop
goes over a set, hence any order), `CreateScan` (AlreadyExists counts as
created), `ReleaseOk`; each call has its failing twin. `waiting[r][p]` is a history
variable: the scans which the last reconcile of `p` found open. `notices` are
ImageScan events whose handler (`mapImageScanToPods`) has not run; the predicate
on the old and new object, the namespace test and the match by the image label
are in `NoticesOf` and `MappedPods`. An ImageScan resync is not an action of its
own: it wakes a subset of the pods that `ResyncPod` may wake at any time.

**`ScanGate`** instantiates both controllers. What was free environment of one —
"any scan may get any verdict", "anybody may create ImageScans" — is now done by
the other. `DeliverScan` and `Restart` are joint steps: the controllers share an
informer and a process. `VettingContract` is the promise of the whole without any
ImageScan, queue, cache or process: a pod's stored object, what Aqua has found and
what registries have served are all it has, and admission, users' edits and
`Release` are its only steps on a pod.

**`TokenManager`** has a clock in units of 30 s (the HTTP timeout), a token named
by the time the server stops accepting it, and `RWMutex` as Go has it: a waiting
writer keeps new readers out, and an unlock lets in all readers that wait. In
`TokenContract` there are no locks: a caller is given the one token (`Share`), a new
one in its place if it is about to run out (`Renew`), or an error (`Refuse`), and the
clock cannot take a token from one who uses it.

**`RegistryCache`** has the same unit of time. A cache entry is which of Aqua's
lists it holds and its time stamp; `replacedAt[v]` (history) is when Aqua replaced
the v-th list. `pc[c]` is where the call of caller `c` is:

| code (`client.go`, `filecache.go`) | action |
|---|---|
| `FindRegistryByPrefix` is called | `Ask` |
| memory's test of age, under the read lock (`< CacheTTL`) | `CheckMemory` |
| `FileCache.Get` (`> TTL` is a miss; unreadable is a miss) | `ReadFile` |
| memory takes the file's list *with the file's stamp* | `Populate` |
| `GET /api/v2/registries` answered / failed | `AquaAnswers`, `Response` / `FetchFails` |
| `FileCache.Set`: write aside, rename; may fail | `Save` |
| search; on a miss fetch once more, whatever the age | `Match` |

`Tick` lets no request outlive its timeout and no local step its `LocalDelay`;
`Restart(k)` ends a process at any point, also between the two caches. The lock of
the memory cache is held for one look or one assignment only, so each is one action.

**`RegistryNames`** represents a string as the sequence of its pieces, so that
trimming, splitting and searching for a prefix are operations on sequences; it is
used by `RegistryCache` (search) and `AquaTrigger` (mirrors and search). `MirroredName`
says anew, without the parser's loop, where a flag puts an image; the first part of the
flag that is about the image's registry decides.

**`AquaTrigger`** is one run of the command. `pc` names its loops: `read`
(`extractImagesFromManifests`), `resolve`/`index`/`image` (`ResolveDigest`: first as
an index, then as an image, each request a step of its own), `process`/`check`/
`trigger` (`GetScanResult`, `TriggerScan`), then `succeeded` or `failed`, the exit
code. `todo` is what the present loop has not dealt with, `counts` the numbers of
the summary. `Push` moves the tag at hand between requests (`held` notes all it has had), `Signal` cancels the
context: requests then fail, the second loop stops, reading goes on. `TriggerContract`
has one set of open images, each of which is settled once; `Open` says where the
present loop, and those to come, have them.

## 3. Assumptions about the outside

- The API server has optimistic concurrency and never loses a write; informers
  show each object's versions in order, and different objects in any order.
- Work queues de-duplicate; a key that is being worked on may be queued again.
- A pod's images are a set; their order has no effect on the outcome.
- Digests differ in the 56 hex digits `ScanName` keeps.
- Users do not take this program's gate off a pod by hand; the API server lets
  nobody add a gate (so the model's users never do).
- An ImageScan created by somebody else names an image that the registry served
  with that digest. The controller cannot tell otherwise: it trusts the resource.
- Aqua answers "not found" while it is still scanning, and a scan it accepted
  finishes, unless `AquaForgets` lets it lose scans and results.
- No leader election is assumed in the runs with two replicas: the flag defaults
  to off, and where the manifests turn it on, a deposed leader may still have a
  call under way. One worker per controller and replica.
- Steps of a registry lookup between two looks at the clock take at most
  `LocalDelay`; the processes that share a cache file use the same Aqua.
- Container registries and Aqua may answer `aqua-trigger` anything at any time. In
  an index, the library it calls takes a manifest without platform for linux/amd64.
- A pod that was not gated when it was created can never be gated: an exempt pod
  that is edited later is out of the program's reach (`Starts` looks at the first
  schedulable version only).

## 4. Runs: what they check, bounds

`expect` is *pass* unless noted.

| run | instance | properties |
|---|---|---|
| `scan_replicas` | 2 replicas, 2 images of different repositories with 1 digest, so that 1 ImageScan may be for either; delete and re-create | `TypeOK`, `RegisteredImpliesFound`, `ErrorCountedOnce`, `NoForgottenScan`, `NoVerdictLost`, `ImplementsLifecycle` |
| `scan_live` | 2 replicas, 1 scan, 1 restart, an Aqua that forgets; fair | `NoForgottenScan`, `EveryScanDecided` |
| `scan_error_retried` | 1 replica; **violation** | `ErrorIsRetried` |
| `gate_images` | 2 pods with any sets of a tagged and a pinned image, in a namespace that is both included and excluded (inclusion wins), ImageScans in a namespace of their own, verdicts of both kinds, 1 restart | `TypeOK`, `ReleaseJustified`, `NoLostWakeup` |
| `gate_live` | 1 pod, edits, ImageScans created and deleted by users, a tag that moves there and back; fair | `NoLostWakeup`, `ImplementsContract`, `PassedPodsReleased` |
| `gate_shared_digest` | 2 pods, 2 images, 1 digest; **violation** | `NoLostWakeup` |
| `gate_failed_scan` | scans end in Error; **violation** | `FailedPodsReleased` |
| `whole_refines` | webhook that may be down, both controllers, 2 images with 1 digest, one of them excluded from gating (unless the pod's author set the gate), deletion of scans, an Aqua that forgets | `NoUnvettedStart`, `GateSpec`, `ScannerSpec` |
| `whole_live` | webhook up, 1 image, edits of the pod and a restart; fair | `NoUnvettedStart`, `ImplementsVetting`, `EveryPodDecided` |
| `token` | 3 callers, validity 2 min, 3.5 min of time; fair | `TypeOK`, `TokenNeverUsedExpired`, `OneFetchPerExpiry`, `ImplementsContract`, `EveryCallReturns` |
| `registry_cache` | a manager and an `aqua-trigger` with one file, 2 container registries, 2 lists of Aqua's, TTL 1 min, 2 min of time | `TypeOK`, `ImplementsContract`, `MemoryNeverGoesBack` |
| `aqua_trigger` | 4 inputs, 5 mirror flags, 3 images (one with a digest, one that does not parse, one whose tag moves between two indexes and an image); fair | `TypeOK`, `MirroredAsConfigured`, `ExitZeroMeansScanned`, `SummaryAddsUp`, `NoImageScannedTwice`, `ResolvesToPlatform`, `ImplementsContract`, `SignalEnds` |

Each property has a *mutant*: an operator in the module (named `Mutant...`) that
changes one definition the way a plausible bug would — a dropped resource
version, an error that is not returned, a missing double check — and that makes
TLC report the property as violated in the same run.

**Bounds.** `MaxScanVersions` and `MaxPodVersions` limit the environment only: an
object whose history is that long is no longer deleted, created or edited by
users, while the controllers always may write. With 3 scan versions an ImageScan
is created, deleted under a running reconcile and created again for the other
image: the shortest history in which a stale answer can hit the wrong resource.
Three pod versions are create, one edit, release — any interleaving of one foreign
write with a release; more edits repeat the same conflict. Two replicas make every
pair of stale writers; a third adds no new pair of read and write. (Two replicas of
the pod gate controller are in no run: with its longer reconcile they are too many
states, and the theorems about it hold for any number.) Two digests
matter to a pod, the one waited for and the one served now; in `gate_live` the tag moves
away and back, so that either may be the one with the older verdict. One restart may
happen at every point. The token run's clock passes the expiry of a first token and
of its successor. In `registry_cache` a list can be fetched, saved, expire in memory,
be read from the file at exactly its TTL and expire again, with Aqua's one change of
configuration (a registry goes, another comes) at any moment of it; `LocalDelay` is 0
there, and arbitrary in the proofs. `aqua_trigger`'s inputs name an image twice in one
document and in two documents, have a document of each kind and a reader that fails;
its mirrors have a path, an alias of Docker Hub, a second mirror for one registry, one
slash too many, and one that does not parse.

Each run leaves something to another one or to a theorem. `gate_images` has two pods and
two images, but neither edits nor moving tags; `gate_live` has both, but one image, so that
a user changes the bypass and the other fields of a pod, not its images. `whole_refines`
moves no tag. `registry_cache` has one caller per client. `Justified`, `NothingLost`,
`NothingUnvetted`, `VettingRefinement` and `RegistryCache`'s `Refinement` are about all of
this at once.

`CHECK_DEADLOCK FALSE` is set where the bounds, or a
system with nothing left to do, really stop; in the token and registry runs the
clock does.

**What the passing runs show** is that, despite the absence of requeues, events
do suffice: with distinct digests no wake-up is lost, whatever the order of
cache updates and handlers; and that the resource version in the updates is what
carries the safety properties (without it, `RegisteredImpliesFound` and the
pod gate's `ImplementsContract` fail). That the file's time stamp goes with its list
into memory is what bounds the age of an answer (a stamp of "now" breaks
`RegistryCache`'s `ImplementsContract`), and that `aqua-trigger` adds up the failures
of both its loops is what its exit code rests on.

`GateSpec` and `ScannerSpec` justify the separate modules: each controller's own
`Spec`, environment included, is refined by the composition.

## 5. Fairness

Safety is checked under `Spec`, liveness under `FairSpec`.

- Weak fairness of workers, timers, informers and handlers: goroutines run, calls
  have timeouts (30 s for Aqua, contexts elsewhere), so each call ends in one of
  its outcomes. Which outcome is free.
- Strong fairness of taking a key from the queue: the queue is first in, first
  out, and a key that is added again while it is processed comes back.
- Strong fairness of a successful status update: two replicas that conflict, or an
  API server that fails, do not do so for ever. In the pod gate module this is
  the premise `CallsStopFailing` instead, so that conflicts are *not* excused: the
  property has to hold because the retry reads a newer pod.
- Aqua finishes a scan it accepted; that it sometime stops losing scans and results
  is the premise of `EveryScanDecided`. **No** fairness for the informers' resync
  (ten hours by default): nothing may depend on it. None for restarts and users.
- Token manager: strong fairness for both locks (Go's `RWMutex` starves nobody)
  and weak fairness for steps under the lock, whose request has a timeout.
- `aqua-trigger`: weak fairness for its own steps and for calls to Aqua, whose client
  has a timeout. Requests to container registries have none and are fair only once
  the context is cancelled; reading standard input is not fair at all.

## 6. Where code and documents disagree

1. **An ImageScan in Error is never retried** (`scan_error_retried`). The code
   counts retries and requeues after an exponential backoff, but `Reconcile`
   returns at once for a terminal phase, and Error is terminal: the requeue finds
   nothing to do, and one failed call to Aqua is the verdict. `ErrorCountedOnce`,
   which is proved, says the same of the count: it is 1 in phase Error, never more.
2. **Two references to one digest** (`gate_shared_digest`). The ImageScan is
   labelled with the hash of the image that created it, `mapImageScanToPods` lists
   by that label, and a pod with the other reference is never woken. It stays
   gated until an unrelated event or the resync. That digests are distinct is
   exactly the premise under which `NoLostWakeup` is proved.
3. **Failed scans** (`gate_failed_scan`). `src/README.md` step 5 says the gate goes
   once all images pass "or fail"; the code keeps it for ever.

Also, without a run:

- **A Registered image is never rescanned.** `src/README.md` has `--rescan-interval`, "How
  often to rescan images" (24 h), and advertises "Rescan intervals for continuous
  compliance". `main` hands the flag to the reconciler as `RescanInterval`
  (`imagescan_controller.go:44`), which nothing reads; `Reconcile` returns at once for
  Registered and asks for no requeue. No property here counts this as right:
  `NoVerdictLost` allows a worker to replace a verdict it has read. `ScanLifecycle` says
  what the code does, so it has no step out of a verdict but deletion; with a rescan it
  would need one, and so would the environment of `PodGateController` (`ScanProgresses`).
- `src/AQUA_API.md` ("Any non-404 response indicates the image has been scanned") and the
  comment at `client.go:319` differ from `GetScanResult`, for which an answer that is
  neither 404 nor 2xx is an error, so that the ImageScan ends in Error. In the model it is
  a case of `QueryFails`.
- `src/README.md` ("the controller fails pods if any image has critical vulnerabilities")
  differs from the code, which counts no vulnerabilities: an image that Aqua has found is
  Registered. `AQUA_API.md` and the comment at `client.go:393` say so, too.
- Aqua's answer to `GET /api/v2/registries` has a page number and size; the code reads
  this one page. `RegistryCache` takes the answer for the whole list.
- That a tag moves to a digest which has passed already wakes nobody: the pod waits for
  the digest its last reconcile resolved. `MayGo` therefore asks that what the pod waits
  for has passed, besides what is served now.

And: a gated pod in an excluded namespace is never released, by the code's first
test (`Excluded`); an ImageScan deleted before its verdict is created again only
when something else wakes the pod; in a process with *several* callers a list that
was read from the file can replace a newer one in memory (`MemoryNeverGoesBack` is
about processes with one caller, which both programs are), though never one too old.

## 7. Proofs

All theorems hold for every value of the constants that the named assumptions of
the modules allow: any sets of replicas, pods, namespaces, images, digests, callers,
processes, any lists and delays, any bounds.

| module | theorems |
|---|---|
| `ImageScanControllerProofs` | `TypeCorrect`, `RegisteredIsFound`, `VerdictsKept`, `CountedOnce`, `NothingForgotten`, `Refinement` (of `ScanLifecycle`) |
| `PodGateControllerProofs` | `TypeCorrect`, `Justified`, `NothingLost`, `Refinement` (of `GateContract`) |
| `ScanGateProofs` | `Invariance`, `GateRefinement`, `ScannerRefinement`, `NothingUnvetted`, `NothingLost`, `PromisesKept`, `VettingRefinement` (of `VettingContract`) |
| `TokenManagerProofs` | `TypeCorrect`, `NeverUsedExpired`, `OneFetch`, `Refinement` (of `TokenContract`) |
| `RegistryCacheProofs` | `Invariance`, `TypeCorrect`, `NeverGoesBack`, `Refinement` (of `RegistryContract`) |
| `RegistryNamesProofs` | lemmas only: `ParseProperties` (the parser), `MirrorApplied` (the rewriting) |
| `AquaTriggerProofs` | `TypeCorrect`, `ExitZero`, `AddsUp`, `ScannedOnce`, `Platformed`, `Mirrored`, `Refinement` (of `TriggerContract`) |

**ImageScan controller.** `TypeOK` and `RegisteredImpliesFound` are not inductive:
what a status update stores depends on what the worker has carried along since it
read the cache. `IInv` adds `WorkerOK`: a busy worker's snapshot was not terminal, a
phase to be written was chosen, and if it is Registered then Aqua has reported the
entry *of the snapshot*. At the update, `IsCurrent` makes the snapshot the stored
object, so that the same holds for what is stored, and the object overwritten had
no verdict: this gives `CountedOnce` and the `Accept`, `Register`
and `Fail` steps of the refinement; `VerdictsKept` needs of it only that what a worker
writes over is what it read. The lemmas on `Record` say that histories grow at
their end, so that old snapshots and caches stay readable. `NoForgottenScan` is
inductive relative to `TypeOK`: each step that takes a key out of queue, timer or
worker leaves a terminal phase in the cache, a newer version to come, or another
holder.

**Pod gate controller.** What a release is justified by was seen at different
moments of a reconcile. `IInv` gives each of its stations a meaning
(`Reconciles`): an image already resolved was served with the digest noted, a scan
already looked at was found passed or is noted as open, and at the release the
snapshot is bypassed or each of its images vetted. All of this only grows, since
histories grow and what was served stays served (`VettedStays`, `WorkerStays`), so it
still holds at the update, where `IsCurrent` makes the snapshot the latest version;
hence `Justified` and the refinement. For `NothingLost` the invariant `AllWake` says
per replica and pod that something other than an ImageScan will bring the pod back
(`Covered`); or its worker is busy with the current version and every scan it found
unfinished is still open in the cache or has its notice on the way; or it is idle,
waits for scans, and each of these will be heard of. The premise `NoSharedDigest` is
used where a notice, which carries an *image*, must reach every pod that waits for the
*digest*.

**Composition.** `ScanGateProofs` instantiates the two proof modules (and shows that
their instances are those of `ScanGate`, `SameGate` and `SameScanner`). Each
controller's environment is the other one, and each step is a step of the other's
module only because of an invariant: that what the pod gate creates is an unscanned
ImageScan is its own, that the ImageScan controller goes on only from scans without
verdict is the other's. The circle is broken at the level of steps: if all
invariants hold before a step, the step is one of each module, so all hold after it.
`NothingUnvetted` then combines `ReleaseJustified` (each image vetted by a passed scan),
`RegisteredImpliesFound` (a passed scan was found by Aqua) and `WebhookGated` (what was
never gated was exempt, or created while the webhook was down).

`VettingRefinement` says it of every step. A pod changes in the composition only by
a step of `PodGateController`, which by the controller's own refinement is a step of
`GateContract` (`PromisesKept`), or by its creation, where `AdmissionWebhook` decides
(`NewPodAdmissible`). A release is justified there by scans that have *passed*; the other
controller's invariant turns each of them into an entry that Aqua has found
(`VettedByAqua`). Steps that change neither pods, reports nor registries are stutters,
however much they do to ImageScans and queues (`PodSeenByAll`, `AquaSeenByAll`).

**Token manager.** The lemma `LifeTimes` is the arithmetic: the truncation to whole
minutes always leaves at least one full minute, two units, between the client's
expiry and the server's. The invariant ties deadlines to the clock: a fetched token
was issued after its request was sent, at most one timeout ago, so the cached expiry
plus one more timeout is within the server's life (`CacheOK`, `RequestsOK`).
For the refinement `IInv` also bounds a token from above: it ends at most one server's
life after now, and at most `Margin` (the unused tenth) after the client drops it. That
is what makes `Response` a `Renew`: the token it overwrites was about to end. The locks
do not appear in the contract; that two waiting callers cannot renew one after the
other is `OneFetchPerExpiry`, which is part of `IInv`.

**Registry caches.** `InForce(v, t, d)` says that the v-th list was in force at t - d
or later. `IInv` follows a list from Aqua's answer through memory and file to the
search and bounds d at each station: the request adds its timeout, a local step its
delay, the caches their TTL. The sum at the search is `MaxAge` = TTL + timeout + three
delays, which is what the contract promises. A miss is believed only after a fetch that
began during the call, so the list was in force during it. The order of time stamps
(`Order`) gives `NeverGoesBack`.

**aqua-trigger.** `IInv` says where each image of the input is: with the documents not
yet read, with what the present loop has still to deal with, with what it has made of
it, or among the failures that were counted; never in two of these places, and their
numbers add up. The loop that drops repetitions is a recursive function, whose
existence and effect (`DeduplicateProperties`: the same images, each once) are proved
by induction over its length, in the form `AllNaturals` that takes a set instead of an
operator; the least number of a set comes from well-foundedness. For
`ResolvesToPlatform` the history variable `held` notes what has been under each tag since
the command began; it only grows, and what an answer is made from is in it.

The refinement maps all of this to one set: `Open` is what the input names while it is
being read, then the images that a loop has not dealt with or has passed on to the next.
A step that passes an image on leaves `Open` alone (`ResolvedStep`), one that settles an
image takes exactly that image out (`Settled`), because the invariant has it in no second
place. `ProcessOK` also says that the second loop is not reached in a dry run.

**Mirrors.** `MirroredAsConfigured` compares two independent ways to a name: the code's
parser and search on one side, the first part of the flag for the registry on the other.
`ParseRegistryMirrors` is a recursive function; `ParseProperties` shows, by induction over
the parts of the flag, that the list of mirrors is the parts that are not blank, in their
order, so that the least index in the list is the mirror of the least part (`MirrorParsed`).
That sources are compared without scheme, slash and Docker Hub's second name is
`Canonical`; that splitting a mirror's URL and joining it with the image gives the URL, a
slash and the image is `MirrorApplied`.

**Model-checked only:** all liveness (`EveryScanDecided`, `PassedPodsReleased`,
`EveryPodDecided`, `EveryCallReturns`, `SignalEnds`), which rests on fairness and is
out of this prover's reach. Every safety property and refinement of a passing run is
a theorem; the three violations are TLC's. What a mirror's *pieces* stand for is an
abstraction, not a theorem: strings are sequences of pieces that split at the characters
the code looks for.

## 8. Not modelled

Parsing of references, URLs, HMAC signatures, vulnerability counts, messages, events,
tracing, metrics, probes, YAML: no property here tells their values apart. The length of
a backoff: a delayed key may come back at any moment. Keychains and cloud identity:
the resolver succeeds or fails, and which keychain offers credentials decides only
that. `FileCache.Clear` and `IsExpired` have no caller in either program. Generated code
and manifests. Leader election: a library; its effect is the number of replicas. Flags
of the manager: the models take them as constants; `ExcludedImages` of the webhook is
modelled although no flag sets it. No run has a pod in a namespace that is out of scope
next to one in scope: such a pod is never touched by the controllers, and the theorems
cover both.

## 9. Plan

1. *(done)* `ImageScanController`, `ScanLifecycle`; `PodGateController`,
   `GateContract`; `AdmissionWebhook`; `ScanGate`; `TokenManager`.
2. *(done)* `RegistryCache` with `RegistryContract`; `RegistryNames`; `AquaTrigger`.
3. *(done)* Proofs of the safety properties of all of them, and of the composition.
4. Open: an instance with two namespaces, one of them out of scope; the composition of
   `RegistryCache` and `TokenManager` with the ImageScan controller, which sees them as
   one call that succeeds or fails.
